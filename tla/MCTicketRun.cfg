CONSTANTS
    MaxImplementationAttempts = 2
    MaxRepairCycles = 1
    MaxRuntimeRetries = 1
    Epic = FALSE
    NoArtifact = NoArtifact
    MaxStarts = 2
    MaxReopens = 1
    MaxLapses = 1
    MaxTree = 12
SPECIFICATION Spec
INVARIANTS
    TypeOK
    ClosedIsVerified
    BudgetKept
CHECK_DEADLOCK FALSE
