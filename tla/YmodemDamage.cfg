CONSTANTS
  Size = 5
  Width = 2
  Batch = 2
  SizeSent = TRUE
  HsTries = 2
  MaxErrors = 2
  Frail <- AnyMessage
  Damage <- PacketDamage
  MaxDamage = 4
  LoseCodes = FALSE
  MaxLate = 0
  MaxResend = 9
  Room = 10
  Tears = FALSE
  MaxFault = 3
SPECIFICATION Spec
INVARIANTS
  FileIsPrefix
  WholeOnSuccess
  ErrorsAreRetried
CHECK_DEADLOCK FALSE
