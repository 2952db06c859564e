CONSTANTS
  r = r  a = a  b = b  m = m
  cr = cr  ca = ca  cb = cb  cx = cx
  p1 = p1  p2 = p2  p3 = p3
  None = None
  File <- MCFile
  Cand <- MCCand
  CandFile <- MCCandFile
  Fn <- MCFn
  Worlds <- MCWorlds
  PreImports <- PreImportB
  CommandLines <- RootsOrMissing
SPECIFICATION FairSpec
INVARIANTS TypeOK LoadingSound NoSilentFailure StageOrder IteratorValid PendingOnce AssumptionsMet
PROPERTIES WorklistSpec Termination Quiescent AnalysedForGood FunctionsRegisteredOnce
