SPECIFICATION FairSpec
CONSTANTS
    r1 = r1
    r2 = r2
    Reporters = {r1, r2}
    MaxSwitches = 2
    MaxLosses = 1
INVARIANTS
    TypeOK
    
    
PROPERTIES
    EveryOneAnswered
CHECK_DEADLOCK FALSE
