SPECIFICATION FairSpec
CONSTANTS
    N = 2
    Writers <- FirstNode
    Workers = 1
    MaxUpdates = 2
    MaxClock = 0
    MaxFails = 1
    MaxCrashes = 1
    DiesAnswering = TRUE
INVARIANTS
    NothingLost
    LinkKeepsOrder
    SentUntilReceived
    ConfirmationsComing
PROPERTIES
    RingComesToRest
CHECK_DEADLOCK FALSE
