CONSTANTS
  Size = 3
  Width = 2
  Batch = 1
  SizeSent = TRUE
  HsTries = 2
  MaxErrors = 2
  Frail <- NoDamage
  Damage <- NoDamage
  MaxDamage = 1
  LoseCodes = TRUE
  MaxLate = 0
  MaxResend = 3
  Room = 8
  Tears = FALSE
  MaxFault = 0
SPECIFICATION Spec
CHECK_DEADLOCK FALSE
INVARIANTS
  WholeOnSuccess
