SPECIFICATION Spec
CONSTANTS
    File <- MCFile
    Lang <- MCLang
    Package <- MCPackage
    PyTest <- MCPyTest
    Ruff = FALSE
    Gate <- NoGate
    MaxWaveRepairCycles = 2
    None = None
    MaxChanged = 2
    MaxStarts = 2
    MaxMishaps = 1
CHECK_DEADLOCK FALSE
INVARIANT FailureHasCause
