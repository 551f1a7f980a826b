SPECIFICATION WarmSpec
CONSTANTS
  N = 1
  MaxInFlight = 1
  PlanTypes <- WarmPlan
  Disturbances <- Nothing
  D = 1
  V = 1
  TargetRunning = FALSE
  CloudFaults <- Nothing
  MaxMade = 8
  MaxCrashes = 0
  MaxRounds = 1
  MaxWrites = 1
INVARIANTS NoFailureWithoutFault
CHECK_DEADLOCK FALSE
