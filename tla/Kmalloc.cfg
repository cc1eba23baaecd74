SPECIFICATION Spec
CONSTANTS
  SizeMod = 80
  GRANULE = 8
  BLOCK_HEADER_SIZE = 1
  SMALLEST_BLOCK_SIZE = 2
  PAGE_SIZE = 8
  InitBlock = 1
  FirstPage = 10
  MaxPages = 2
  Requests = {0, 1, 9, 64}
INVARIANTS HeapPartitioned ListCoalesced RetrySucceeds
\* The model stops when the list is ruined or the bound on pages is reached.
CHECK_DEADLOCK FALSE
