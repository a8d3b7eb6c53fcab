SPECIFICATION Spec
CONSTANTS
  Server = {s1, s2}
  MaxDevice = 2
  MaxCode = 1
  MaxAttempt = 1
  MaxFault = 2
  KeyringFails = FALSE
INVARIANTS
  PairingTypeOK
  ConnectionIsWhole
  AgreesWithServer
  OneDevicePerCode
PROPERTIES
  ConnectionSwitches
  PairingSettles
CHECK_DEADLOCK FALSE
