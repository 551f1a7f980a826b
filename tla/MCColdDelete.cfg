SPECIFICATION ColdSpec
CONSTANTS
  N = 1
  MaxInFlight = 1
  PlanTypes <- Cold
  Disturbances <- DeletesMidPass
  D = 1
  TargetRunning = TRUE
  CloudFaults <- Nothing
  MaxMade = 4
  MaxCrashes = 0
INVARIANTS DeletionLeaksNothing
CHECK_DEADLOCK FALSE
