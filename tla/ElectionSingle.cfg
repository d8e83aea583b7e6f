SPECIFICATION FairSpec
CONSTANTS
    NumPeers = 3
    PoolSize = 2
    MaxPrepares <- Single
    MaxBeats = 3
    MaxFailures = 2
PROPERTIES
    BallotsOnlyGrow
    LeaderEmerges
CHECK_DEADLOCK FALSE
