SPECIFICATION Spec
CONSTANTS
  PAGE_SIZE = 4
  WORD_BITS = 2
  BITMAP_WORDS = 4
  ADDR_MOD = 128
  KernelEnd = 9
  MemMaps <- MCMemMaps
  ModPages <- MCModPages
INVARIANT ModuleReserved
CHECK_DEADLOCK FALSE
