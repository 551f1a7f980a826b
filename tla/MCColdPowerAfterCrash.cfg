SPECIFICATION ColdSpec
CONSTANTS
  N = 1
  MaxInFlight = 1
  PlanTypes <- Cold
  Disturbances <- Crashes
  D = 1
  TargetRunning = TRUE
  CloudFaults <- CallsFail
  MaxMade = 4
  MaxCrashes = 1
INVARIANTS PowerRestored
CHECK_DEADLOCK FALSE
