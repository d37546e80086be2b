SPECIFICATION FairSpec
CONSTANTS
    StartWindow = 16
    Bigger <- ThreeBigger
    Dip = 10
    FreeMiB = {1024, 1792, 4096, 10240}
    WarmUp = 1
    SettleTime = 2
    Measure = 2
    Speeds = {100, 101, 110}
    QueueDepth = 2
    MaxGone = 1
    MaxRestarts = 1
INVARIANTS
    KeptIsFaster
    ToldWindowIsMined
    BiggerWindowFailsSoftly
PROPERTIES
    TuningEnds
CHECK_DEADLOCK FALSE
