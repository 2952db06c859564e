SPECIFICATION Spec
CONSTANTS
  x = x
  f = f
  Bounds <- MCBounds
CHECK_DEADLOCK FALSE
INVARIANTS
  NoMissedWarning NoSpuriousWarning ConsistentUse ScopesAgree
PROPERTY ClassificationStable
