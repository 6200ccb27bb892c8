SPECIFICATION FairSpec
CONSTANTS
    r1 = r1
    r2 = r2
    m1 = m1
    Reporters = {r1, r2}
    Reports = {m1}
    MaxWindow = 3
    MaxSwitches = 1
INVARIANTS
    TypeOK
    
    
PROPERTIES
    InTimeIsCounted
CHECK_DEADLOCK FALSE
