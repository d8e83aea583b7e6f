SPECIFICATION RestartSpec
CONSTANTS
    c1 = c1
    c2 = c2
    NumPeers = 2
    PoolSize = 2
    MaxPrepares <- Twice
    MaxBeats = 0
    MaxFailures = 0
    MaxAcceptFailures = 0
    MaxRestarts <- LeaderRestarts
    PartitionSize = 1
    Command = {c1, c2}
    Home <- AtOne
    PartitionOf <- OnePartition
INVARIANT SameBallotSameCommand
CHECK_DEADLOCK FALSE
