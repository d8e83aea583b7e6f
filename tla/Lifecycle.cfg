SPECIFICATION FairSpec
CONSTANTS
    Peers = {p1}
    Requests = {r1}
    MaxIoThreads = 2
    LogKinds = {"common", "xrt"}
    MaxStale = 1
INVARIANTS
    TypeOK
    NoSleepThroughStop
    XrtStopHangs
    NothingOutlivesMain
PROPERTIES
    SignalEndsMain
CHECK_DEADLOCK FALSE
