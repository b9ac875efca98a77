SPECIFICATION LiveQueueSpec
CONSTANTS
    Keys <- MCKeys
    Limits <- MCLimits
    Lockings = {"none", "timed"}
    MaxPosts = 3
    MaxBatch = 2
INVARIANTS
    QueueTypeOK
    Conservation
    PostedOrder
PROPERTIES
    UrgentFirst
    PostWakesSleeper
    ImplementsMailbox
    EveryPostTaken
