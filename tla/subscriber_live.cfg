SPECIFICATION FairSpec
CONSTANTS
    r1 = r1
    r2 = r2
    origin1 = origin1
    cache1 = cache1
    repeat1 = repeat1
    update1 = update1
    nocache2 = nocache2
    other = other
    c1 = c1
    c2 = c2
    hOrigin = hOrigin
    hCache = hCache
    kOrigin = kOrigin
    kCache = kCache
    Replicas = {r1}
    Entries = {origin1, nocache2, update1}
    Contents = {c1, c2}
    Hrefs = {hOrigin, hCache}
    Keys = {kOrigin, kCache}
    Msg <- MsgOfEntries
    GlobalCacheMode = TRUE
    BatchSize = 1
    MaxCrashes = 0
    MaxFailures = 1
    MaxLapses = 0

    
PROPERTIES
    AcceptedIsServed
CHECK_DEADLOCK FALSE
