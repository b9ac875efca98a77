CONSTANTS
    Workers = {w1, w2}
    QueryWorkers = {}
    Queries = {q1}
    NoWorker = none
    NoQuery = noquery
    MAX_CACHED_QUERIES = 0
    TriggersFail = FALSE
    MaxVersion = 2
SPECIFICATION FairStoreSpec
PROPERTIES
    WorkersMoveOn
