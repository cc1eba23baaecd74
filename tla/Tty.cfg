SPECIFICATION Spec
CONSTANTS
  Printers = {p1, p2}
  Chars = {"a", "b"}
  SCREEN_WIDTH = 2
  SCREEN_HEIGHT = 2
  TabStop = 2
  SizeMod = 8
  MaxRows = 4
CONSTRAINT Bounded
SYMMETRY PrintersAlike
INVARIANTS CursorOnScreen ScreenShowsPaper
