SPECIFICATION FairSpec
CONSTANTS
    Cpus = {c1}
    Gpus = {g1}
    Jobs = {b1}
    Bc3Jobs = {b1}
    NoJob = NoJob
    StandIn = TRUE
    MaxReopens = 1
PROPERTIES
    SomeoneMines
