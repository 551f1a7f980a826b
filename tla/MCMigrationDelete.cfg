SPECIFICATION FairSpec
CONSTANTS
  N = 1
  MaxInFlight = 1
  PlanTypes <- Cold
  Disturbances <- OnlyDelete
PROPERTIES DeletionCompletes
CHECK_DEADLOCK FALSE
