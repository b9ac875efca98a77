SPECIFICATION StorageSpec
CONSTANTS
    Keys <- MCKeys
    Limits = {2}
    Lockings = {"forever"}
    MaxPosts = 4
    MaxBatch = 1
    MaxElements = 2
    BUSY_FSYNC_LIMIT = 1
    MaxCount = 2
INVARIANTS
    StorageTypeOK
    ExecutedInOrder
    WritesSurviveDisconnect
    IdleIsFlushed
