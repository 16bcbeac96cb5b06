SPECIFICATION Spec
CONSTANTS
  r1 = r1
  r2 = r2
  Ranks = {r1, r2}
  Configs <- Supported
  TotalSteps = 2
  CriticWarmup = 1
INVARIANTS
  CorrectionOnOwnInputs
