SPECIFICATION Spec
CONSTANTS
    p1 = p1
    p2 = p2
    r1 = r1
    r2 = r2
    Publishers = {p1, p2}
    Relays = {r1, r2}
    NoRelay = NoRelay
    BatchSize = 2
    MaxId = 3
SYMMETRY Symmetry
INVARIANTS
    IInv
    NoSkip
PROPERTIES
    NoLateRow
    BoundedOvertaking
    ImplementsChannel
CHECK_DEADLOCK FALSE
