SPECIFICATION FairSpec
CONSTANTS
    a = a
    b = b
    h1 = h1
    h2 = h2
    h3 = h3
    Hrefs = {h1, h2}
    NoHref = NoHref
    AttemptLimit = 2
    Contents = {a}
    Embedded = {a}
    AriaInQueue = 2
    BatchSize = 1
    JobLink <- FirstLink
    MaxCopies = 1
    MaxStarts = 2
    MaxFaults = 0
INVARIANTS
    UnmarkedIsDecided
    
PROPERTIES
    CompleteIsFinal
    
    EveryJobIsAnswered
CHECK_DEADLOCK FALSE
