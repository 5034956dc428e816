CONSTANTS
  bit = bit
  Sectors = 4
  Start <- StartOf
  Modulus = 64
  Part <- Table
  Bit = {bit}
  Image <- Images
  FalCalls <- Calls
  ChunkLen = 4
  MaxFault = 1
  MaxCrash = 1
SPECIFICATION FairSpec
INVARIANTS TypeOK DoneExact ReleaseExact FailsOnlyOnFault
PROPERTIES OthersKept StaysInRange ReleaseEnds
