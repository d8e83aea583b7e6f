SPECIFICATION Spec
CONSTANTS
    c1 = c1
    c2 = c2
    NumPeers = 2
    PoolSize = 2
    MaxPrepares <- Pair
    MaxBeats = 0
    MaxFailures = 0
    MaxAcceptFailures = 0
    PartitionSize = 1
    Command = {c1, c2}
    Home <- AtBoth
    PartitionOf <- OnePartition
INVARIANTS
    OneCommandPerBallot
    AppliedAtItsIndex
    AckedIsStored
    AnsweredIsReplicated
PROPERTIES
    ImplementsElection
CHECK_DEADLOCK FALSE
