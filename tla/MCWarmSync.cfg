SPECIFICATION WarmFairSpec
CONSTANTS
  N = 1
  MaxInFlight = 1
  PlanTypes <- WarmPlan
  Disturbances <- Cancels
  D = 2
  V = 1
  TargetRunning = FALSE
  CloudFaults <- CallsFail
  MaxMade = 12
  MaxCrashes = 0
  MaxRounds = 2
  MaxWrites = 2
INVARIANTS SingleWriter FailedLeavesNoData CompletedIsWhole
PROPERTIES EveryWriteHandedOver ImplementsDeltaSync EventuallyFinished
CHECK_DEADLOCK FALSE
