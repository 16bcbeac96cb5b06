SPECIFICATION Spec
CONSTANTS
  NoOne = NoOne
  Done = Done
  Closed = Closed
  TotalRolloutSteps = 3
  RequiredSamples = 1
  TriggerSteps = 1
  StaleNum = 1
  StaleDen = 1
  ServerSlots = 2
  PendingCap = 2
  PartialRollout = TRUE
  MaxFailures = 1
  ValidateMetrics = FALSE
INVARIANTS
  NoSampleTwice
  LossesAreCounted
  VersionsInStep
  PauseLeavesNoTask
  SentinelIsLast
PROPERTIES
  TrainingSpec
CHECK_DEADLOCK FALSE
