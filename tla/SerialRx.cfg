CONSTANTS
  BufSz = 3
  Sizes = {3}
  MaxByte = 6
SPECIFICATION FairSpec
CHECK_DEADLOCK FALSE
INVARIANTS TypeOK RingIsLatest NoLostWakeup
PROPERTIES ReadsEnd
