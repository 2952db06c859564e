SPECIFICATION Spec
CONSTANTS
  Prelude <- MCPrelude
  Sources <- AssertedAssignments
INVARIANT NoAssertion
CHECK_DEADLOCK FALSE
