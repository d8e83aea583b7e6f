SPECIFICATION Spec
CONSTANTS
    c1 = c1
    c2 = c2
    NumPeers = 3
    PoolSize = 1
    MaxPrepares <- One
    MaxBeats = 0
    MaxFailures = 0
    MaxAcceptFailures = 1
    PartitionSize = 1
    Command = {c1, c2}
    Home <- AtOne
    PartitionOf <- OnePartition
INVARIANTS
    TypeOK
    AnsweredIsKept
PROPERTIES
    ImplementsReplicatedLog
CHECK_DEADLOCK FALSE
