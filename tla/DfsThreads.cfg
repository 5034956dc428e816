CONSTANTS
  Thread = {main, tshell}
  Path = {a, b}
  MaxFd = 3
  MaxCalls = 5
SPECIFICATION FairSpec
CHECK_DEADLOCK FALSE
INVARIANTS TypeOK DescriptorsExclusive UnsharedSafe UnlinkSafe
PROPERTIES CallsEnd
