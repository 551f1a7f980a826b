SPECIFICATION ColdSpec
CONSTANTS
  N = 1
  MaxInFlight = 1
  PlanTypes <- Cold
  Disturbances <- Nothing
  D = 1
  TargetRunning = TRUE
  CloudFaults <- CallsFail
  MaxMade = 2
  MaxCrashes = 0
INVARIANTS FailureLeavesNothing
CHECK_DEADLOCK FALSE
