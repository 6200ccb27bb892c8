SPECIFICATION FairSpec
CONSTANTS
    w1 = w1
    w2 = w2
    w3 = w3
    Workers = {w1, w2}
    Uuids = {1, 2, 3}
    FirstBeat = 1
    Heartbeat = 1
    Poll = 4
    Alive = 3
    Stale = 6
    MaxRestarts = 3
    MaxFailures = 2
INVARIANTS
    TypeOK
    SettledLeader
PROPERTIES
    DeadAreForgotten
    StandbyTakesOver
