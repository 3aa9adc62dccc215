SPECIFICATION Spec
CONSTANTS
    Outboxes = {o1, o2}
    Span = 2
    Ahead = 0
    MaxId = 5
SYMMETRY Symmetry
PROPERTIES RowsKeptUntilPassed
CHECK_DEADLOCK FALSE
