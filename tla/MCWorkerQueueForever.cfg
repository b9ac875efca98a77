SPECIFICATION LiveQueueSpec
CONSTANTS
    Keys <- MCKeys
    Limits <- MCLimits
    Lockings = {"forever"}
    MaxPosts = 3
    MaxBatch = 1
PROPERTIES
    EveryPostTaken
