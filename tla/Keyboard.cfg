SPECIFICATION Spec
CONSTANTS
  Capacity = 3
  KeyBytes = 2
  Scancodes = {"l", "shift", "caps", "ctrl", "l_up", "space", "e0"}
INVARIANTS
  FirstInFirstOut
  LenAccounting
  OverrunAfterCapacity
