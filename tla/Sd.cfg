CONSTANTS
  a = a  b = b  c = c
  Path = {a, b, c}
  Chunk = {"x", "y"}
  Card <- Cards
  Command <- AllCommands
  FailIn = {"open", "read", "write", "close"}
  Tears = TRUE
  MaxFault = 3
  MaxCrash = 1
  FreeRoom = 3
  MaxFd = 3
SPECIFICATION FairSpec
INVARIANTS TypeOK VnodesCount DescriptorsReturned FreshCopyExact ContrastSound
PROPERTIES CommandEnds
