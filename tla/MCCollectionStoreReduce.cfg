CONSTANTS
    Workers = {w1, w2}
    QueryWorkers = {}
    Queries = {q1}
    NoWorker = none
    NoQuery = noquery
    MAX_CACHED_QUERIES = 1
    TriggersFail = FALSE
    MaxVersion = 1
SPECIFICATION ReduceSpec
INVARIANTS
    CriticalSectionsExclusive
