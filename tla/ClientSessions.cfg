SPECIFICATION FairSpec
CONSTANTS
    Sessions = {s1, s2}
    MaxFailures = 1
    Stops = TRUE
    IsXrt = TRUE
INVARIANTS
    TypeOK
    OneTurn
    ForgottenIsClosed
PROPERTIES
    ReadsAgainOrCloses
CHECK_DEADLOCK FALSE
