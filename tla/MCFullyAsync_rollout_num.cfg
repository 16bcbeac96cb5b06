SPECIFICATION Spec
CONSTANTS
  NoOne = NoOne
  Done = Done
  Closed = Closed
  TotalRolloutSteps = 4
  RequiredSamples = 1
  TriggerSteps = 1
  StaleNum = 1
  StaleDen = 1
  ServerSlots = 2
  PendingCap = 2
  PartialRollout = TRUE
  MaxFailures = 0
  ValidateMetrics = FALSE
INVARIANTS
  AtMostRolloutNum
CHECK_DEADLOCK FALSE
