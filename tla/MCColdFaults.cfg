SPECIFICATION ColdSpec
CONSTANTS
  N = 1
  MaxInFlight = 1
  PlanTypes <- Cold
  Disturbances <- Interrupted
  D = 1
  TargetRunning = TRUE
  CloudFaults <- CallsFailOrSeemTo
  MaxMade = 4
  MaxCrashes = 1
INVARIANTS PipelineTypeOK
PROPERTIES ImagesOfStoppedSource CreatedFromImportedDisks BootsWithSourceOff
CHECK_DEADLOCK FALSE
