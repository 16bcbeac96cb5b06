SPECIFICATION Spec
CONSTANTS
    SFTSteps <- MCSFTSteps
    OPDSteps <- MCOPDSteps
    MaxRuns = 3
INVARIANTS
    DoneMeansUsable
    MarkedIsAdapted
    EveryStepIsReported
PROPERTIES
    UsableStays
CHECK_DEADLOCK FALSE
