CONSTANTS
  Threads = {t1, t2}
  Nodes = {n1, n2}
  NULL = NULL
  GcThreshold = 1
  CountMod = 16
  MaxHeld = 2
  Owned = TRUE
SPECIFICATION Spec
SYMMETRY Alike
INVARIANTS
  OnePlace
  FreeListBounded
  CountExact
  FreedUnreferenced
CHECK_DEADLOCK FALSE
