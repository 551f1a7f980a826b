SPECIFICATION WarmFairSpec
CONSTANTS
  N = 2
  MaxInFlight = 2
  PlanTypes <- WarmPlan
  Disturbances <- Nothing
  D = 1
  V = 1
  TargetRunning = FALSE
  CloudFaults <- Nothing
  MaxMade = 12
  MaxCrashes = 0
  MaxRounds = 0
  MaxWrites = 0
PROPERTIES EventuallyFinished
CHECK_DEADLOCK FALSE
