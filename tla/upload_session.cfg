SPECIFICATION Spec
CONSTANTS
  MaxItem = 2
  Type = {t1}
  MaxDoc = 4
  MaxEdit = 1
  MaxMove = 1
  MaxFault = 1
INVARIANTS
  SessionTypeOK
  OnePayload
  SavedIsStored
PROPERTIES
  SessionKeepsLedger
  UnknownSettles
CHECK_DEADLOCK FALSE
