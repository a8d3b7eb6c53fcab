SPECIFICATION Spec
CONSTANTS
  Handler = {h1, h2}
  LastStage = 2
  MaxRequest = 5
  MaxFault = 1
PROPERTIES
  CompletedStays
  StagesHeal
CHECK_DEADLOCK FALSE
