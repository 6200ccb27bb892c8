SPECIFICATION FairSpec
CONSTANTS
    c1 = c1
    c2 = c2
    p1 = p1
    g1 = g1
    Cleaners = {c1, c2}
    Paths = {p1}
    Gids = {g1}
    Keep = 1
    CancelAfter = 1
    BatchSize = 2
    MaxTime = 2
    MaxItems = 3
    MaxFaults = 1
INVARIANTS
    TypeOK
    CancelActsOnce
PROPERTIES
    RetentionIsKept
    ScheduledIsDeleted
    NetHoldsForLocalFiles
CHECK_DEADLOCK FALSE
