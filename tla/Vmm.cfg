SPECIFICATION Spec
CONSTANTS
  PAGE_TABLE_INDICES = 7
  HIGH_WATER_THRESHOLD = 5
  FirstFrame = 1
  PoolFrames = 10
  MaxBlocks = 3
  MaxFrees = 4
INVARIANTS TypeOK BitmapExact PagesMapped CountersSound NextBlockInTime FramesUsedOnce
PROPERTY HandedOutOnce
\* A panic halts the machine, and nothing is modelled after an undefined access.
CHECK_DEADLOCK FALSE
