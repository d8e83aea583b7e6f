SPECIFICATION FairRestartSpec
CONSTANTS
    c1 = c1
    c2 = c2
    NumPeers = 2
    PoolSize = 2
    MaxPrepares <- Thrice
    MaxBeats = 0
    MaxFailures = 1
    MaxAcceptFailures = 0
    MaxRestarts <- FollowerRestarts
    PartitionSize = 1
    Command = {c1, c2}
    Home <- AtOne
    PartitionOf <- OnePartition
INVARIANT SameBallotSameCommand
PROPERTIES
    OthersKeepCommitted
    ReplicateEnds
    CommittedIsAnswered
CHECK_DEADLOCK FALSE
