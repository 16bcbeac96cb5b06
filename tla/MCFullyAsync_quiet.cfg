SPECIFICATION Spec
CONSTANTS
  NoOne = NoOne
  Done = Done
  Closed = Closed
  TotalRolloutSteps = 3
  RequiredSamples = 1
  TriggerSteps = 1
  StaleNum = 1
  StaleDen = 1
  ServerSlots = 2
  PendingCap = 2
  PartialRollout = FALSE
  MaxFailures = 0
  ValidateMetrics = FALSE
INVARIANTS
  NoGenerationDuringSync
CHECK_DEADLOCK FALSE
