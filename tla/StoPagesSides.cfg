\* Store placed anywhere, with a page map large enough never to move.
SPECIFICATION Spec
CONSTANTS
    AddrMax = 6
    MapEntries = 16
    PgGroup = 2
    GcMinGrowth = 3
    EffNum = 3
    EffDen = 10
    GrowNum = 14
    GrowDen = 10
    MaxRequest = 2
    MaxNodes = 0
    MaxGap = 1
    Placement <- Anywhere
    Slack <- NoSlack
    Levels <- NoLevels
    MapMayFail = FALSE
    GcIsFrugal = FALSE
INVARIANTS
    MapExact
    LimitsMatchMap
\* The program exits when the free tree cannot get a page.
CHECK_DEADLOCK FALSE
