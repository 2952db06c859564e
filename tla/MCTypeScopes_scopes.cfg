CONSTANTS
  a = a  b = b  c = c  d = d  n = n  base = base  x = x
  None = None
  Scope <- MCScope
  Ident <- MCIdent
  Base = base
  Programs <- MCPrograms
SPECIFICATION FairSpec
INVARIANTS VisibleOnly LookupCorrect ConflictsExact
PROPERTIES IterationSafe EachVisitEnds
