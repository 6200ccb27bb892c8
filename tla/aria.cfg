SPECIFICATION FairSpec
CONSTANTS
    r1 = r1
    r2 = r2
    Calls = {r1, r2}
    MaxSockets = 4
INVARIANTS
    TypeOK
    ConnectedIsOpen
    PendingIsAnswerable
PROPERTIES
    ConnectionReturns
CHECK_DEADLOCK FALSE
