SPECIFICATION Spec
CONSTANTS
    Cpus = {c1}
    Gpus = {g1}
    Jobs = {b1, x1}
    Bc3Jobs = {b1}
    NoJob = NoJob
    StandIn = TRUE
    MaxReopens = 1
INVARIANTS
    OneJobPerGeneration
    DeferralStands
    NoLostWakeup
    CounterMatchesClaims
    WatchdogSparesMiners
