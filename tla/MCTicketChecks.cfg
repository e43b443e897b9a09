SPECIFICATION Spec
CONSTANTS
    File <- MCFile
    Lang <- MCLang
    Package <- MCPackage
    PyTest = {}
    Ruff = FALSE
    Plan <- MCPlan
    Terms = TRUE
    Constraint <- MCConstraint
    Kind <- MCKind
    Isolated = FALSE
    MaxImplementationAttempts = 2
    MaxRepairCycles = 1
    Content = {"base", "one"}
    None = None
    MaxErrors = 1
    MaxMishaps = 1
CHECK_DEADLOCK FALSE
INVARIANTS
    TypeOK
    ClosedIsChecked
    CloseoutBuilds
    AdvisoryOnlyAdvises
    RetryNamesFailures
