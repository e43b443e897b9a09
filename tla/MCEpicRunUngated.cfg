SPECIFICATION Spec
CONSTANTS
    Child = {c1, c2}
    Check = {lint}
    Finding = {gap}
    MaxRepairCycles = 2
    PlanMode = "enforce"
    None = None
    MaxStarts = 2
    MaxMishaps = 1
CHECK_DEADLOCK FALSE
INVARIANT CompletedIsGated
