SPECIFICATION FairSpec
CONSTANTS
    r1 = r1
    r2 = r2
    t1 = t1
    t2 = t2
    t3 = t3
    Proc = {p, q}
    Run = {r1, r2}
    Ticket = {t1, t2, t3}
    Children <- ChildrenOf
    Segment <- Segments
    Scope <- ScopeOf
    Edits <- EditsOf
    Waiting = {t3}
    MaxConcurrency = 2
    None = None
    MaxStarts = 3
    MaxMishaps = 1
    MaxReopens = 1
INVARIANTS
    TypeOK
    WorktreeKept
    ScopesKeepApart
PROPERTY
    ProcessEnds
CHECK_DEADLOCK FALSE
