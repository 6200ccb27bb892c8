SPECIFICATION Spec
CONSTANTS
    r1 = r1
    r2 = r2
    origin1 = origin1
    cache1 = cache1
    repeat1 = repeat1
    update1 = update1
    nocache2 = nocache2
    other = other
    c1 = c1
    c2 = c2
    hOrigin = hOrigin
    hCache = hCache
    kOrigin = kOrigin
    kCache = kCache
    Replicas = {r1, r2}
    Entries = {origin1, cache1}
    Contents = {c1}
    Hrefs = {hOrigin, hCache}
    Keys = {kOrigin, kCache}
    Msg <- MsgOfEntries
    GlobalCacheMode = FALSE
    BatchSize = 2
    MaxCrashes = 1
    MaxFailures = 0
    MaxLapses = 1
SYMMETRY ReplicaSymmetry
INVARIANTS
    TypeOK
    OneJobPerLease
    QueuedIsWatched
    
CHECK_DEADLOCK FALSE
