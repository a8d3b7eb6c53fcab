SPECIFICATION Spec
CONSTANTS
  MaxVersion = 3
  BackFill = 2
  Tidy = 3
  FirstRelease = 2
  Kind = {"scan", "arrival"}
  Keep = 1
  MaxStart = 3
  MaxWrite = 1
  MaxTool = 2
  MaxFault = 1
INVARIANTS
  ServerTypeOK
  LedgerIsHonest
PROPERTIES
  ChangeIsBackedUp
  NothingIsDropped
  RefusalIsJustified
  StopSettles
CHECK_DEADLOCK FALSE
