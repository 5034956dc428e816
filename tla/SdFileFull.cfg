CONSTANTS
  a = a  b = b  c = c
  Path = {a, b, c}
  Chunk = {"x", "y"}
  Card <- Cards
  Command <- CopyCommands
  FailIn = {}
  Tears = FALSE
  MaxFault = 0
  MaxCrash = 0
  FreeRoom = 1
  MaxFd = 3
SPECIFICATION Spec
INVARIANTS AssertionsHold
