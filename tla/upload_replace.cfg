SPECIFICATION Spec
CONSTANTS
  Handler = {h1, h2}
  UploadId = {u1, u2, u3}
  FileName = {f1, f2, f3}
  ProrrogaPayload = {p1}
  CitaPayload = {}
  PlainPayload = {}
  MaxRow = 3
  MaxCrash = 0
  MaxDamage = 0
SYMMETRY Symmetry
INVARIANTS
  OneRowPerUpload
  ReplacedIsFinal
  SlotsAreEarned
PROPERTIES
  ReplacedBySuccessor
