SPECIFICATION Spec
CONSTANTS
  WorldSize = 2
  Roles = {"model"}
  OwnFolder = TRUE
  MaxCkptToKeep <- Kept
  Keep = 2
  LastStep = 4
  MaxRuns = 3
INVARIANTS
  NamedIsComplete
  KeepsAtMostPerRun
PROPERTIES
  SavesAreAtomic
CHECK_DEADLOCK FALSE
