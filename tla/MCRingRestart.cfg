SPECIFICATION Spec
CONSTANTS
    N = 2
    Writers <- FirstNode
    Workers = 1
    MaxUpdates = 1
    MaxClock = 0
    MaxFails = 0
    MaxCrashes = 1
    DiesAnswering = FALSE
INVARIANTS
    AckedNotLost
CHECK_DEADLOCK FALSE
