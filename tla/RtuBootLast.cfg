CONSTANTS
  p1 = p1  p2 = p2  p3 = p3
  Pkg = {p1, p2}
  Algo2Crc = {}
  NoPart = {}
  ShellUsed = FALSE
  Blocks = 1
  MaxFault = 0
  MaxCrash = 0
SPECIFICATION Spec
INVARIANTS LastIsPrevious
