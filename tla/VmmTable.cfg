SPECIFICATION Spec
CONSTANTS
  PAGE_TABLE_INDICES = 7
  HIGH_WATER_THRESHOLD = 5
  FirstFrame = 1
  PoolFrames = 10
  MaxBlocks = 3
  MaxFrees = 4
CHECK_DEADLOCK FALSE
INVARIANT TablePagesKept
