SPECIFICATION MCPoolSpec
CONSTANTS
    Workers = {w1}
    Suggests = TRUE
    QueueMax = 2
    MaxSecs = 3
    SilencePolls = 1
    MaxWire = 2
    MaxLine = 3
    ChunkSize = 2
    MaxSent = 7
INVARIANTS
    SlotOfThisConnection
    QueueStaysWithConnection
    CountedOnce
    BestOfCurrentPow
    BufferIsUnread
    BufferBounded
    LinesArrive
PROPERTIES
    SilentPoolIsLeft
