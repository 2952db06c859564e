SPECIFICATION Spec
CONSTANTS
  Names <- MCNames
  Files <- MCFiles
CHECK_DEADLOCK FALSE
INVARIANTS WellNested VerdictReported DefinitionsRegistered ParsedAsWritten
PROPERTY Terminates
