SPECIFICATION Spec
CONSTANTS
    Child = {c1, c2}
    Check = {lint}
    Finding = {gap}
    MaxRepairCycles = 2
    PlanMode = "enforce"
    None = None
    MaxStarts = 3
    MaxMishaps = 2
CHECK_DEADLOCK FALSE
INVARIANTS
    TypeOK
    ClosesVerifiedTree
    RepairsAnnounced
PROPERTIES
    FindingsSettle
    CommandEnds
