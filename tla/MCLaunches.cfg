SPECIFICATION MCLaunchesSpec
CONSTANTS
    c1 = c1
    g1 = g1
    Cpus = {c1}
    Gpus = {g1}
    Index <- MCIndex
    Stride = 2
    Nonces = 3
    En2Limit = 4
    MaxTemplates = 2
    Batch = 2
    Chunks = {1, 2}
    Intensities = {50, 100}
    QueueDepth = 2
    MaxErrors = 2
    MaxHits = 8
    RecoverAfter = 3
    MinBatch = 4
    MaxBatch = 50
    StartBatch = 4
    U32Max = 127
    Granules = {1, 3, 7}
    Densities = {0, 1, 5, 16, 80}
    Per = 8
INVARIANTS
    HashedOnce
    NothingSkipped
PROPERTIES
    PumpReturns
    BudgetRecovers
