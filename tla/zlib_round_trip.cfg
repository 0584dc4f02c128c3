SPECIFICATION Spec
CONSTANT MaxSize = 4
INVARIANTS
  SilenceMeansRestored
  RestoredWhenItFits
CHECK_DEADLOCK FALSE
