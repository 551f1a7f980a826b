SPECIFICATION ColdFairSpec
CONSTANTS
  N = 1
  MaxInFlight = 1
  PlanTypes <- Cold
  Disturbances <- Crashes
  D = 1
  TargetRunning = TRUE
  CloudFaults <- CallsFail
  MaxMade = 4
  MaxCrashes = 1
PROPERTIES EventuallyFinished
CHECK_DEADLOCK FALSE
