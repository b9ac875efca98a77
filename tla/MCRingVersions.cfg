SPECIFICATION Spec
CONSTANTS
    N = 2
    Writers <- FirstTwo
    Workers = 1
    MaxUpdates = 2
    MaxClock = 1
    MaxFails = 0
    MaxCrashes = 0
    DiesAnswering = FALSE
PROPERTIES
    OlderIgnored
CHECK_DEADLOCK FALSE
