SPECIFICATION FairSpec
CONSTANTS
  NoOne = NoOne
  Done = Done
  Closed = Closed
  TotalRolloutSteps = 4
  RequiredSamples = 1
  TriggerSteps = 2
  StaleNum = 0
  StaleDen = 1
  ServerSlots = 2
  PendingCap = 3
  PartialRollout = TRUE
  MaxFailures = 1
  ValidateMetrics = TRUE
INVARIANTS
  OnPolicy
PROPERTIES
  Termination
  AllTrained
CHECK_DEADLOCK FALSE
