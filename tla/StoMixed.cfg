SPECIFICATION FairSpec
CONSTANTS
    NSections = 2
    Quanta = 4
    MaxRequest = 4
    MaxStale = 2
    NodesCollect = FALSE
INVARIANTS
    TypeOK
    SectionTiled
    FreeTreeExact
    NoFreeNeighbours
    LiveKept
PROPERTIES
    EmptyReturned
    CallsReturn
