SPECIFICATION Spec
CONSTANTS
  Names <- MCNames
  Files <- MCFiles
CHECK_DEADLOCK FALSE
INVARIANT EntryIsFirstFunction
