SPECIFICATION Spec
CONSTANTS
    c1 = c1
    g1 = g1
    Cpus = {c1}
    Gpus = {g1}
    Index <- MCIndex
    Stride = 2
    Nonces = 3
    En2Limit = 4
    MaxTemplates = 1
    Batch = 2
    Chunks = {1, 2}
    Intensities = {50, 100}
    QueueDepth = 2
    MaxErrors = 2
INVARIANTS
    ExhaustedMeansSearched
