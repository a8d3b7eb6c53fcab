SPECIFICATION Spec
CONSTANTS
  Handler = {h1, h2}
  UploadId = {u1, u2}
  FileName = {f1, f2}
  ProrrogaPayload = {p1}
  CitaPayload = {}
  PlainPayload = {}
  MaxRow = 2
  MaxCrash = 0
  MaxDamage = 0
SYMMETRY Symmetry
PROPERTIES
  RepeatIsNoConflict
