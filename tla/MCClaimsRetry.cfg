CONSTANTS
    Run = {r1}
    NoClaim = NoClaim
    TTL = 2
    MaxTime = 2
    MaxLease = 2
    MaxRetries = 1
    MaxPanics = 2
    MaxFaults = 0
SPECIFICATION Spec
INVARIANTS
    TypeOK
CHECK_DEADLOCK FALSE
