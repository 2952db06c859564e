SPECIFICATION Spec
CONSTANTS
  Prelude <- MCPrelude
  Sources <- RecursiveTypes
INVARIANT RecursionReported
CHECK_DEADLOCK FALSE
