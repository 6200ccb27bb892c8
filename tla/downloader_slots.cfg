SPECIFICATION Spec
CONSTANTS
    a = a
    b = b
    h1 = h1
    h2 = h2
    h3 = h3
    Hrefs = {h1}
    NoHref = NoHref
    AttemptLimit = 2
    Contents = {a}
    Embedded = {}
    AriaInQueue = 1
    BatchSize = 1
    JobLink <- FirstLink
    MaxCopies = 0
    MaxStarts = 2
    MaxFaults = 0
INVARIANTS
    SlotsComeBack
CHECK_DEADLOCK FALSE
