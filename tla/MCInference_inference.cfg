SPECIFICATION Spec
CONSTANTS
  Prelude <- MCPrelude
  Sources <- MCSources
INVARIANTS BindingsSolved EquationsHold NothingForgotten
PROPERTIES LibraryKept Terminates
CHECK_DEADLOCK FALSE
