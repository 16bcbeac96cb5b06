SPECIFICATION Spec
CONSTANTS
  WorldSize = 2
  Roles = {"actor", "critic"}
  OwnFolder = FALSE
  MaxCkptToKeep <- Kept
  KeepActor = 2
  KeepCritic = 2
  LastStep = 2
  MaxRuns = 2
INVARIANT TrackerIsAtomic
CHECK_DEADLOCK FALSE
