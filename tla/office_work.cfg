SPECIFICATION Spec
CONSTANTS
  MaxMissionary = 2
  Expiry <- MCExpiry
  ProrrogaWindow = 4
  CriticalWindow = 2
  Span = 1
  Request = {r1, r2}
  Date = {5, 6}
  FirstDay0 = 6
  MaxRun = 2
  MaxEdit = 2
  MaxWorld = 1
  MaxFault = 1
SYMMETRY Symmetry
INVARIANTS
  OfficeTypeOK
  OneScheduled
  FollowUpPromised
PROPERTIES
  ClosedStaysClosed
  RunsAddNoDouble
  RunSettles
  SyncSettles
CHECK_DEADLOCK FALSE
