\* osAlloc over sbrk: store is always placed above what the program owns, and
\* aligning leaves one page more than was asked for.  The OS may refuse store for
\* a larger page map, and the frugal growth policy is in force.
SPECIFICATION FairSpec
CONSTANTS
    AddrMax = 5
    MapEntries = 4
    PgGroup = 2
    GcMinGrowth = 3
    EffNum = 7
    EffDen = 10
    GrowNum = 14
    GrowDen = 10
    MaxRequest = 2
    MaxNodes = 1
    MaxGap = 0
    Placement <- Above
    Slack <- AlignedSlack
    Levels <- AllLevels
    MapMayFail = TRUE
    GcIsFrugal = TRUE
INVARIANTS
    TypeOK
    MapExact
    MapIsSafe
    GrowthSuffices
PROPERTIES
    LiveSectionsKept
    CallsReturn
\* The program exits when the free tree cannot get a page.
CHECK_DEADLOCK FALSE
