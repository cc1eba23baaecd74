SPECIFICATION FairShellSpec
CONSTANTS
  Capacity = 3
  KeyBytes = 2
  Scancodes = {"l", "one", "tab", "enter", "backspace", "ctrl"}
  CmdSize = 2
  TabStop = 4
  Prompt = 3
  Commands <- MCCommands
INVARIANTS EditsAsTyped EchoesLine StripsLine
PROPERTY KeysConsumed
