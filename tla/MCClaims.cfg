CONSTANTS
    Run = {r1, r2}
    NoClaim = NoClaim
    TTL = 2
    MaxTime = 3
    MaxLease = 2
    MaxRetries = 1
    MaxPanics = 0
    MaxFaults = 1
SPECIFICATION FairSpec
INVARIANTS
    HolderOwnsLive
    ExclusiveWork
    TombstoneFinal
PROPERTIES
    UnexpiredClaimUntouched
    LostLeaseStopsAgent
CHECK_DEADLOCK FALSE
