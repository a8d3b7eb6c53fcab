SPECIFICATION Spec
CONSTANTS
  MaxVersion = 3
  BackFill = 2
  Tidy = 3
  FirstRelease = 3
  Kind = {"form", "arrival"}
  Keep = 1
  MaxStart = 2
  MaxWrite = 1
  MaxTool = 0
  MaxFault = 0
PROPERTIES
  StartsAgain
CHECK_DEADLOCK FALSE
