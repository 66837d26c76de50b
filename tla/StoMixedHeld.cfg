SPECIFICATION Spec
CONSTANTS
    NSections = 2
    Quanta = 4
    MaxRequest = 2
    MaxStale = 0
    NodesCollect = TRUE
INVARIANTS
    HeldKept
CHECK_DEADLOCK FALSE
