SPECIFICATION FairSpec
CONSTANTS
    r1 = r1
    r2 = r2
    gb1 = gb1
    gb2 = gb2
    m1 = m1
    m2 = m2
    m3 = m3
    Replicas = {r1}
    Handlers <- OneProcess
    Ids = {m1, m2, m3}
    Count = 2
    MaxInFlight = 1
    Margin = 2
    MaxDelay = 1
    MaxLen = 2
    MaxTime = 4
    MaxCrashes = 1
INVARIANTS
    TypeOK
    EntersOnce
    PunctualIsKept
    CounterIsExact
    AlarmIsFounded
PROPERTIES
    EveryEntryServed
CHECK_DEADLOCK FALSE
