SPECIFICATION FairSpec
CONSTANTS
    BUFFER_SIZE = 2
    Clients = 2
    MaxIndex = 6
    MaxRefused = 1
INVARIANTS
    TypeOK
    ExecutedIsCommitted
    OwnResults
PROPERTIES
    CommittedBufferStays
    NothingOverwritten
    BuffersExecute
CHECK_DEADLOCK FALSE
