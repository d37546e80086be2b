SPECIFICATION Spec
CONSTANTS
    Workers = {w1}
    Suggests = TRUE
    QueueMax = 2
    MaxSecs = 3
    SilencePolls = 1
    MaxWire = 2
INVARIANTS
    SubmitsOfThisConnection
