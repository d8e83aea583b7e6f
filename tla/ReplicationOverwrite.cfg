SPECIFICATION Spec
CONSTANTS
    c1 = c1
    c2 = c2
    NumPeers = 3
    PoolSize = 1
    MaxPrepares <- Duel
    MaxBeats = 0
    MaxFailures = 0
    MaxAcceptFailures = 0
    PartitionSize = 1
    Command = {c1, c2}
    Home <- AtBoth
    PartitionOf <- OnePartition
PROPERTIES
    CommittedStays
CONSTRAINT OneAfterTheOther
CHECK_DEADLOCK FALSE
