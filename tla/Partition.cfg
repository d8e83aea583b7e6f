SPECIFICATION FairSpec
CONSTANTS
    Local <- Requests
    BallotOf <- OneBallot
    Remote <- Others
INVARIANTS
    TypeOK
    ExecutorSleepsIdle
    CommitFindsIndex
PROPERTIES
    CommittedIsExecuted
    ImplementsSequentialStore
CHECK_DEADLOCK FALSE
