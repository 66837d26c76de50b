\* Store placed below the heap while the collector sweeps it.
SPECIFICATION Spec
CONSTANTS
    AddrMax = 9
    MapEntries = 16
    PgGroup = 2
    GcMinGrowth = 3
    EffNum = 3
    EffDen = 10
    GrowNum = 14
    GrowDen = 10
    MaxRequest = 2
    MaxNodes = 1
    MaxGap = 0
    Placement <- AboveBelow
    Slack <- AlignedSlack
    Levels <- NoLevels
    MapMayFail = FALSE
    GcIsFrugal = FALSE
PROPERTIES
    LiveSectionsKept
\* The program exits when the free tree cannot get a page.
CHECK_DEADLOCK FALSE
