SPECIFICATION FairSpec
CONSTANTS
    N = 3
    Writers <- FirstTwo
    Workers = 2
    MaxUpdates = 2
    MaxClock = 1
    MaxFails = 0
    MaxCrashes = 0
    DiesAnswering = TRUE
INVARIANTS
    TypeOK
    AckedNotLost
    NothingLost
    ConfirmationsComing
PROPERTIES
    RingComesToRest
CHECK_DEADLOCK FALSE
