SPECIFICATION FairSpec
CONSTANTS
    r1 = r1
    r2 = r2
    t1 = t1
    t2 = t2
    t3 = t3
    Proc = {p}
    Run = {r1, r2}
    Ticket = {t1, t2, t3}
    Children <- ChildrenOf
    Segment <- Segments
    Scope <- ScopeOf
    Edits <- EditsOf
    Waiting = {}
    MaxConcurrency = 2
    None = None
    MaxStarts = 4
    MaxMishaps = 0
    MaxReopens = 0
INVARIANT
    ConflictBlocks
CHECK_DEADLOCK FALSE
