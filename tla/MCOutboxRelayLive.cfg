SPECIFICATION FairSpec
CONSTANTS
    p1 = p1
    p2 = p2
    r1 = r1
    r2 = r2
    Publishers = {p1, p2}
    Relays = {r1, r2}
    NoRelay = NoRelay
    BatchSize = 1
    MaxId = 2
PROPERTIES
    EventuallyPast
CHECK_DEADLOCK FALSE
