SPECIFICATION Spec
CONSTANTS
  WorldSize = 2
  Roles = {"model"}
  OwnFolder = TRUE
  MaxCkptToKeep <- Kept
  Keep = 2
  LastStep = 3
  MaxRuns = 2
INVARIANT DataloadersResume
CHECK_DEADLOCK FALSE
