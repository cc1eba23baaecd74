SPECIFICATION Spec
CONSTANTS
  Byte = 3
  MemSize = 5
  Radix = 3
  HexRadix = 2
  HexDigits = 4
  BufferSize = 3
  Letters = {"a", "d"}
  MaxFormat = 5
INVARIANTS MovesExactly ComparesEqual PrintsNumber ReadsFormat
