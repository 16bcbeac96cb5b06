SPECIFICATION Spec
CONSTANTS
  NoOne = NoOne
  Done = Done
  Closed = Closed
  TotalRolloutSteps = 3
  RequiredSamples = 1
  TriggerSteps = 1
  StaleNum = 2
  StaleDen = 1
  ServerSlots = 2
  PendingCap = 1
  PartialRollout = TRUE
  MaxFailures = 0
  ValidateMetrics = FALSE
INVARIANTS
  ProcessorNeverRaises
CHECK_DEADLOCK FALSE
