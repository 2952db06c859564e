SPECIFICATION Spec
CONSTANTS
  x = x
  f = f
  Bounds <- MCBounds
CHECK_DEADLOCK FALSE
INVARIANT InheritsUsage
