SPECIFICATION Spec
CONSTANTS
  PAGE_SIZE = 4
  WORD_BITS = 2
  BITMAP_WORDS = 4
  ADDR_MOD = 128
  KernelEnd = 9
  MemMaps <- MCMemMaps
  ModPages <- MCModPages
INVARIANTS TypeOK BitmapExact FramesInMemory
PROPERTY AllocatorImplemented
\* A panic halts the machine, and nothing is modelled after an undefined access.
CHECK_DEADLOCK FALSE
