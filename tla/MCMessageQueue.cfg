SPECIFICATION FairSpec
CONSTANTS
  Callers = {c1, c2}
  Closed = Closed
  MaxQueueSize = 2
  MaxProduced = 5
  MaxVal = 1
  ParamVersions = {1, 2}
INVARIANTS
  HoldsTheNewest
  SamplesAreAccountedFor
  NoLostWakeup
PROPERTIES
  ShutdownReleasesEveryone
  WindowSpec
CHECK_DEADLOCK FALSE
