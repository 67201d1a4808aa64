CONSTANTS
  f1 = f1  f2 = f2  d1 = d1
  None = None
  File <- OneFile
  Folder = d1
  Inside <- OneFile
  Masks <- NoMasks
  Batch = 1
  MaxWrites = 2
  MaxEvents = 1
SPECIFICATION Spec

PROPERTIES ReadTwiceIsHarmless
CHECK_DEADLOCK FALSE
