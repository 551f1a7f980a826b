SPECIFICATION Spec
CONSTANTS
  N = 2
  MaxInFlight = 1
  PlanTypes <- BothTypes
  Disturbances <- Everything
INVARIANTS TypeOK InFlightBounded OverallStatusAgrees
PROPERTIES LSpec StatusOnlyAdvances CancelWins FinalizerHolds
CHECK_DEADLOCK FALSE
