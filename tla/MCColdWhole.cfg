SPECIFICATION ColdFairSpec
CONSTANTS
  N = 2
  MaxInFlight = 2
  PlanTypes <- Cold
  Disturbances <- UsersBetweenPasses
  D = 2
  TargetRunning = TRUE
  CloudFaults <- CallsFail
  MaxMade = 6
  MaxCrashes = 0
INVARIANTS PowerRestored FailedLeavesNoData CompletedIsWhole
PROPERTIES EventuallyFinished
CHECK_DEADLOCK FALSE
