SPECIFICATION Spec
CONSTANTS
  NoOne = NoOne
  Done = Done
  Closed = Closed
  TotalRolloutSteps = 3
  RequiredSamples = 1
  TriggerSteps = 1
  StaleNum = 2
  StaleDen = 1
  ServerSlots = 1
  PendingCap = 1
  PartialRollout = FALSE
  MaxFailures = 0
  ValidateMetrics = FALSE
INVARIANTS
  TypeOK
  StalenessBound
CHECK_DEADLOCK FALSE
