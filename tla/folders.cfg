SPECIFICATION Spec
CONSTANTS
  MaxMissionary = 2
  MaxDocument = 1
  Naming <- MCNaming
  Workers = 2
  MaxOp = 2
  MaxFault = 2
INVARIANTS
  FoldersTypeOK
  NothingIsLost
  RowsAgree
PROPERTIES
  Heals
CHECK_DEADLOCK FALSE
