CONSTANTS
  p1 = p1  p2 = p2  p3 = p3
  Pkg = {p1, p2, p3}
  Algo2Crc = {p2}
  NoPart = {p3}
  ShellUsed = TRUE
  Blocks = 2
  MaxFault = 2
  MaxCrash = 1
SPECIFICATION FairSpec
INVARIANTS JumpsToReleased
PROPERTIES BootEnds BackupsUsable
