CONSTANTS
  p1 = p1  p2 = p2  p3 = p3
  Pkg = {p1, p2, p3}
  Algo2Crc = {p3}
  NoPart = {}
  ShellUsed = FALSE
  Blocks = 3
  MaxFault = 0
  MaxCrash = 2
SPECIFICATION FairSpec
INVARIANTS TypeOK StartsWholeImage Recoverable BackupIsRunning
PROPERTIES UpdateCompletes OtaKeptUntilInstalled UpdateIsAtomic
