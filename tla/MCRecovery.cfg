SPECIFICATION Spec
CONSTANTS
    long = long
    LongPages = 3
    Values = {short, long}
    Pages <- MCPages
    NoValue = none
    NumWorkers = 2
    MaxBlocks = 4
    MaxTime = 1
    LOG_CLEAN_LIMIT = 3
    MaxOps = 4
    MaxStops = 2
INVARIANTS
    TypeOK
    Integrity
    NoBlockLost
    ReadsBack
    NoFalseAlarm
CHECK_DEADLOCK FALSE
