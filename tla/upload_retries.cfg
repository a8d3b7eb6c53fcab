SPECIFICATION Spec
CONSTANTS
  Handler = {h1, h2}
  UploadId = {u1}
  FileName = {f1, f2}
  ProrrogaPayload = {}
  CitaPayload = {c1}
  PlainPayload = {n1}
  MaxRow = 1
  MaxCrash = 1
  MaxDamage = 1
INVARIANTS
  UploadTypeOK
  RowKeepsItsFile
  AppliedOnce
PROPERTIES
  AnswerIsHonest
  EveryRequestAnswered
