CONSTANTS
    Workers = {w1, w2}
    QueryWorkers = {r1}
    Queries = {q1, q2, q3}
    NoWorker = none
    NoQuery = noquery
    MAX_CACHED_QUERIES = 0
    TriggersFail = TRUE
    MaxVersion = 2
SYMMETRY Symmetry
SPECIFICATION StoreSpec
INVARIANTS
    StoreTypeOK
    CriticalSectionsExclusive
    CacheFresh
    AnswersCurrent
    CacheBounded
