CONSTANTS
  f1 = f1  f2 = f2  d1 = d1
  None = None
  File <- Files
  Folder = d1
  Inside <- OneFile
  Masks <- MasksHere
  Batch = 1
  MaxWrites = 2
  MaxEvents = 1
SPECIFICATION Spec
INVARIANTS TypeOK StopLeavesNothing DrainCatchesUp
PROPERTIES WalkLevels
CHECK_DEADLOCK FALSE
