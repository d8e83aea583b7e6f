SPECIFICATION Spec
CONSTANTS
    NumPeers = 3
    PoolSize = 2
    MaxPrepares <- Duel
    MaxBeats = 0
    MaxFailures = 1
INVARIANTS
    TypeOK
    PromiseKept
    BallotsAreIssued
    SleepingCampaignerLeads
    SilentLeaderCampaigns
CHECK_DEADLOCK FALSE
