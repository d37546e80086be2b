SPECIFICATION MCCardsSpec
CONSTANTS
    Cards <- ThreeCards
    Models = {"A", "B"}
    NumPlatforms = 2
    MaxVanish = 2
    Depth = 2
    Headers = {h1, h2}
    Targets = {t1, t2}
    Starts = {1}
    Windows = {16}
    None = None
    Junk = Junk
    FeedGpus = {"g1", "g2"}
    Cores = 4
    MaxMoves = 2
    Processes = {p1, p2}
    CardsEach = 2
    MaxKills = 2
INVARIANTS
    CardsKeptApart
    NoCardLost
    ScanIsOfItsLaunch
    SourceUnchanged
    NothingUsedAfterFree
    LastWordIsTrue
    ChoicesAreKept
CHECK_DEADLOCK FALSE
SYMMETRY Symmetry
