SPECIFICATION FairSpec
CONSTANTS
    MaxDom = 4
    Exp <- Exports
    PcentPcent = "%%"
    Self = Self
    None = None
    Programs <- AllPrograms
    GetLimit = 2
    MaxCalls = 2
    FluidVars <- FluidVariables
    FluidValues <- FluidAssigned
    NoJmp = NoJmp
    MaxScopes = 3
    MaxFluidOps = 6
    File = {"a", "b"}
    Main = "a"
    Kits <- AllKits
    Graphs <- SmallGraphs
    CutOffs = {1, 6}
    Facts <- OneFact
    Key = {1, 2, 3}
    Entry = {"s", "t"}
    Guesses = {0, 1, 3}
    Nothing = Nothing
    MaxArgc = 5
    MaxPriqOps = 7
    Atom = {1, 2, 3}
    HasImplies <- Implications
    Null = Null
    MaxConds = 3
    MaxDnfOps = 8
    LgRadix = 4
    Base = 3
    Jobs <- AllJobs
    Piles <- AllPiles
    Snippets <- RandomTokens
INVARIANTS
    NgetsBalanced
    BuiltOnce
    AnswersRight
    ReadsRight
    AnswersBest
    LeastFirst
    DnfCovers
    ImpliesSound
    BintExact
    LayoutMeant
PROPERTIES
    FluidsRestored
    PartsReturn
\* Each part runs to its end.
CHECK_DEADLOCK FALSE
