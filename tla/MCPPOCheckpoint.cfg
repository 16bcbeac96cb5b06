SPECIFICATION Spec
CONSTANTS
  WorldSize = 2
  Roles = {"actor", "critic"}
  OwnFolder = FALSE
  MaxCkptToKeep <- Kept
  KeepActor = 2
  KeepCritic = 3
  LastStep = 4
  MaxRuns = 3
INVARIANTS
  NamedIsComplete
  OnlyTheTrackerTears
CHECK_DEADLOCK FALSE
