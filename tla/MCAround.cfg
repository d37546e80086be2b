SPECIFICATION MCAroundSpec
CONSTANTS
    MaxMiners = 3
    MaxInvokes = 2
    MaxVersion = 4
    MaxCrashes = 2
    ByteBits = 2
    Bytes = 4
    ScaleBits = 3
    RemBits = 6
    Diff1 <- SmallDiff1
    SmallHeights = 2
    MaxPush = 2
    BlockBits <- SmallBits
    Heights = {2, 3, 5, 8}
    FixedScaled = {40}
    Rates = {0, 1, 3, 10}
    Margin = 4
    SubmitQueue = 2
    MaxSolveJobs = 3
    StillSamples = 2
    BenchGpus = {"g1", "g2"}
    BenchWindows <- TwoWindows
    BenchReopens = 1
    BenchFaults = 2
    HashThreads = {t1, t2, t3}
INVARIANTS
    OneMiner
    SolutionsAreShares
    TargetIsFloor
    HeightIsReadBack
    RowsAreOfTheirWindow
    NoHashOnFreedTables
PROPERTIES
    HandleIsLetGo
    SettingsAreAStore
    SolutionEndsRun
    CardsAnswer
    ExitEnds
CHECK_DEADLOCK FALSE
