CONSTANTS
    Ticket = {t1, t2}
    Checked = {t1}
    MaxCommits = 1
    MaxRepairCycles = 1
    None = None
    RefName = RefName
    MaxStarts = 3
    MaxMishaps = 2
SPECIFICATION FairSpec
INVARIANTS
    TypeOK
    DifferenceIsPending
    OnlyClosedWork
    MainIsVerified
    CursorIsBase
PROPERTIES
    AllOrNothing
    ImplementsAtomicWaves
    Terminates
CHECK_DEADLOCK FALSE
