SPECIFICATION ColdSpec
CONSTANTS
  N = 1
  MaxInFlight = 1
  PlanTypes <- Cold
  Disturbances <- StaleReads
  D = 1
  TargetRunning = TRUE
  CloudFaults <- Nothing
  MaxMade = 4
  MaxCrashes = 0
INVARIANTS NoDuplicates
CHECK_DEADLOCK FALSE
