SPECIFICATION Spec
CONSTANTS
    Sessions = {s1}
    MaxFailures = 1
    Stops = FALSE
    IsXrt = FALSE
INVARIANTS
    StopFindsClient
CHECK_DEADLOCK FALSE
