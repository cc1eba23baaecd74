SPECIFICATION Spec
CONSTANTS
  Byte = 4
  TssRegion = 216
  TssSize = 8
  Vectors = 50
  Exceptions <- MCExceptions
  Arithmetic <- MCArithmetic
  StubAddr = 130
  OtherAddr = 250
INVARIANTS SelectorsUsable FrameMatchesStruct IrqTransparent ExceptionsEndThere
PROPERTY ExceptionStops
CHECK_DEADLOCK FALSE
