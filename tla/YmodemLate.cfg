CONSTANTS
  Size = 3
  Width = 2
  Batch = 1
  SizeSent = TRUE
  HsTries = 2
  MaxErrors = 2
  Frail <- AnyMessage
  Damage <- LateDamage
  MaxDamage = 2
  LoseCodes = TRUE
  MaxLate = 2
  MaxResend = 3
  Room = 4
  Tears = TRUE
  MaxFault = 3
SPECIFICATION FairSpec
INVARIANTS
  TypeOK
  SizeKept
  LengthOnSuccess
  SenderIsRight
PROPERTIES
  TransferEnds
CHECK_DEADLOCK FALSE
