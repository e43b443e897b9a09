CONSTANTS
    MaxImplementationAttempts = 2
    MaxRepairCycles = 1
    MaxRuntimeRetries = 1
    Epic = TRUE
    NoArtifact = NoArtifact
    MaxStarts = 3
    MaxReopens = 0
    MaxLapses = 0
    MaxTree = 8
SPECIFICATION FairSpec
INVARIANTS
    ReturnedIsRecorded
    ClosedReachesStore
PROPERTIES
    BudgetNotForgotten
    Terminates
CHECK_DEADLOCK FALSE
