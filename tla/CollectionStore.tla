---------------------------- MODULE CollectionStore ----------------------------
(******************************************************************************)
(* One collection of TinDB as the storage workers and the query workers share *)
(* it: its data file, the read-write lock of that file (BinFile.Lock over the *)
(* RWLock of the shared context) and the cache of query results, a map of the *)
(* shared context that the storage workers fill and empty and that the query  *)
(* workers read without any lock of the collection (Dispatch, CacheHit).      *)
(*                                                                            *)
(* The contents of the collection are a version number.  Every worker may be  *)
(* given writes: normally a collection has one writer, but INFO "clear" drops *)
(* the assignments with the rest of the shared context.                       *)
(*                                                                            *)
(* A worker that already owns the write lock and locks again gets EDEADLK     *)
(* from pthread_rwlock; BinFile.Lock ignores it and the worker goes on.  What *)
(* BinFile.Unlock gives back is decided by one flag, "locked", not a count.   *)
(******************************************************************************)
EXTENDS Integers, FiniteSets

CONSTANTS
    Workers,             \* storage workers that serve the collection
    QueryWorkers,        \* query workers that look into its cache
    Queries,             \* cache keys: distinct queries
    NoWorker, NoQuery,   \* what stands for none of them
    MAX_CACHED_QUERIES,  \* size beyond which Cache empties the map
    TriggersFail,        \* may a JavaScript trigger of the collection fail?
    MaxVersion           \* bound: writes in a behaviour

ASSUME StoreAssumption ==
    /\ IsFiniteSet(Workers) /\ IsFiniteSet(Queries)
    /\ NoWorker \notin Workers
    /\ NoQuery \notin Queries
    /\ MAX_CACHED_QUERIES \in Nat
    /\ TriggersFail \in BOOLEAN
    /\ MaxVersion \in Nat

\* What a cache entry may hold besides a version: nothing there; an entry without
\* a value; and what reading an entry that was freed may yield.
NoEntry    == -1
EmptyEntry == -2
Garbage    == -3

VARIABLES
    version,    \* contents of the data file
    writer,     \* owner of the write lock, or NoWorker
    readers,    \* how often each worker owns the read lock
    locked,     \* BinFile.locked: 0 none, 1 for reading, 2 for writing
    mapped,     \* the map of the collection exists in the shared context
    cache,      \* its entries
    pc,         \* where each storage worker is
    query,      \* the query of its job
    got,        \* the result it has read
    floor,      \* writes acknowledged before its job was posted
    cursor,     \* the pointer GetKey gave each query worker, and its own floor
    acked,      \* the latest write acknowledged to a client
    silent,     \* a write was stored without invalidating the cache since then
    answer      \* the last answer to a query, and the writes it had to include

lockVars  == <<writer, readers, locked>>
cacheVars == <<mapped, cache, cursor>>
storeVars == <<version, lockVars, cacheVars, pc, query, got, floor, acked, silent, answer>>

ReadStages  == {"read", "set", "evict", "reset", "runlock"}
WriteStages == {"write", "invalidate", "wunlock", "ack"}
Stages      == {"idle", "rlock", "reopen", "wlock"} \cup ReadStages \cup WriteStages

Goto(w, stage) == pc' = [pc EXCEPT ![w] = stage]

\* Back to GetWorkerData; what the worker knew of the job is gone.
Finish(w) ==
    /\ Goto(w, "idle")
    /\ query' = [query EXCEPT ![w] = NoQuery]
    /\ got' = [got EXCEPT ![w] = 0]
    /\ floor' = [floor EXCEPT ![w] = 0]

--------------------------------------------------------------------------------
(* The lock: pthread_rwlock_rdlock, wrlock and unlock through BinFile.        *)

CanRead(w) == writer \in {NoWorker, w}

\* A thread that owns the write lock is told EDEADLK and owns what it owned.
LockForRead(w) ==
    /\ CanRead(w)
    /\ readers' = IF writer = w THEN readers ELSE [readers EXCEPT ![w] = @ + 1]
    /\ locked' = [locked EXCEPT ![w] = 1]
    /\ UNCHANGED writer

\* Mutated form: readers do not keep a writer out.
CanWrite_Readers(w) == writer \in {NoWorker, w}

\* A thread that owns the read lock itself waits for ever.
CanWrite(w) == writer = w \/ (writer = NoWorker /\ \A v \in Workers : readers[v] = 0)

LockForWrite(w) ==
    /\ CanWrite(w)
    /\ writer' = w
    /\ locked' = [locked EXCEPT ![w] = 2]
    /\ UNCHANGED readers

\* pthread_rwlock_unlock gives back whichever lock the thread owns; BinFile calls
\* it only while its flag is up.
Unlock(w) ==
    /\ locked' = [locked EXCEPT ![w] = 0]
    /\ writer' = IF locked[w] # 0 /\ writer = w THEN NoWorker ELSE writer
    /\ readers' = IF locked[w] # 0 /\ writer # w THEN [readers EXCEPT ![w] = @ - 1]
                                                ELSE readers

\* Lock() and Unlock() in a row, with nothing of interest in between.
LockAndUnlock(w) ==
    /\ CanRead(w)
    /\ writer' = IF writer = w THEN NoWorker ELSE writer
    /\ locked' = [locked EXCEPT ![w] = 0]
    /\ UNCHANGED readers

--------------------------------------------------------------------------------
(* The shared context: every operation holds share_lock; a pointer GetKey has *)
(* handed out is used after it is released.                                   *)

CacheSize == Cardinality({q \in Queries : cache[q] # NoEntry})

\* The pointers to entries of Q dangle from now on.
Dangle(Q) ==
    cursor' = [r \in QueryWorkers |->
                  IF cursor[r].at \in Q
                  THEN [at |-> cursor[r].at, live |-> FALSE,
                        value |-> cursor[r].value, floor |-> cursor[r].floor]
                  ELSE cursor[r]]

\* LoadBuffer replaces the buffer of the entry.
SetKey(q, value) ==
    /\ mapped' = TRUE
    /\ cache' = [cache EXCEPT ![q] = value]
    /\ Dangle({q})

\* RemoveKey of the whole map.
InvalidateCache ==
    /\ mapped' = FALSE
    /\ cache' = [q \in Queries |-> NoEntry]
    /\ Dangle(Queries)

\* RemoveKey of one entry.
RemoveEntry(q) ==
    /\ cache' = [cache EXCEPT ![q] = NoEntry]
    /\ Dangle({q})
    /\ UNCHANGED mapped

--------------------------------------------------------------------------------
(* A query: case "Q" of StorageWorker.Execute.                                *)

GetQuery(w, q) ==
    /\ pc[w] = "idle"
    /\ Goto(w, "rlock")
    /\ query' = [query EXCEPT ![w] = q]
    /\ floor' = [floor EXCEPT ![w] = acked]
    /\ UNCHANGED <<version, lockVars, cacheVars, got, acked, silent, answer>>

ReadLock(w) ==
    /\ pc[w] = "rlock"
    /\ LockForRead(w)
    /\ Goto(w, "read")
    /\ UNCHANGED <<version, cacheVars, query, got, floor, acked, silent, answer>>

\* Mutated form: the lock is released before the result is cached.
RunQuery_Unlocks(w) ==
    /\ pc[w] = "read"
    /\ got' = [got EXCEPT ![w] = version]
    /\ \E next \in {"set", "runlock"} : Goto(w, next)
    /\ Unlock(w)
    /\ UNCHANGED <<version, cacheVars, query, floor, acked, silent, answer>>

\* t.Query, which may also throw: the lock is then released without caching.
RunQuery(w) ==
    /\ pc[w] = "read"
    /\ got' = [got EXCEPT ![w] = version]
    /\ \E next \in {"set", "runlock"} : Goto(w, next)
    /\ UNCHANGED <<version, lockVars, cacheVars, query, floor, acked, silent, answer>>

\* Mutated form: the size of the map is not looked at.
CacheResult_NoLimit(w) ==
    /\ pc[w] = "set"
    /\ SetKey(query[w], got[w])
    /\ Goto(w, "runlock")
    /\ UNCHANGED <<version, lockVars, query, got, floor, acked, silent, answer>>

\* Cache: a result of ordinary size.  SetKey returns the size before it inserts.
CacheResult(w) ==
    /\ pc[w] = "set"
    /\ SetKey(query[w], got[w])
    /\ Goto(w, IF CacheSize > MAX_CACHED_QUERIES THEN "evict" ELSE "runlock")
    /\ UNCHANGED <<version, lockVars, query, got, floor, acked, silent, answer>>

\* Cache: a result with too many records is removed, a too large one left alone.
SkipCache(w) ==
    /\ pc[w] = "set"
    /\ RemoveEntry(query[w]) \/ UNCHANGED cacheVars
    /\ Goto(w, "runlock")
    /\ UNCHANGED <<version, lockVars, query, got, floor, acked, silent, answer>>

EvictAll(w) ==
    /\ pc[w] = "evict"
    /\ InvalidateCache
    /\ Goto(w, "reset")
    /\ UNCHANGED <<version, lockVars, query, got, floor, acked, silent, answer>>

CacheAgain(w) ==
    /\ pc[w] = "reset"
    /\ SetKey(query[w], got[w])
    /\ Goto(w, "runlock")
    /\ UNCHANGED <<version, lockVars, query, got, floor, acked, silent, answer>>

\* t.Unlock() and the reply.
AnswerQuery(w) ==
    /\ pc[w] = "runlock"
    /\ Unlock(w)
    /\ Finish(w)
    /\ answer' = [value |-> got[w], floor |-> floor[w]]
    /\ UNCHANGED <<version, cacheVars, acked, silent>>

--------------------------------------------------------------------------------
(* A write: cases "I", "U" and "D" of StorageWorker.Execute.                  *)

GetWrite(w) ==
    /\ pc[w] = "idle"
    /\ Goto(w, "reopen")
    /\ UNCHANGED <<version, lockVars, cacheVars, query, got, floor, acked, silent, answer>>

\* t.Reopen(true): locks for reading, reads the header and releases the lock, and
\* with it a write lock this worker still owned.
Reopen(w) ==
    /\ pc[w] = "reopen"
    /\ LockAndUnlock(w)
    /\ Goto(w, "wlock")
    /\ UNCHANGED <<version, cacheVars, query, got, floor, acked, silent, answer>>

WriteLock(w) ==
    /\ pc[w] = "wlock"
    /\ LockForWrite(w)
    /\ Goto(w, "write")
    /\ UNCHANGED <<version, cacheVars, query, got, floor, acked, silent, answer>>

Change == version < MaxVersion /\ version' = version + 1

\* Records stored, updated or deleted, and counted.
Store(w) ==
    /\ pc[w] = "write"
    /\ Change
    /\ got' = [got EXCEPT ![w] = version']
    /\ Goto(w, "invalidate")
    /\ UNCHANGED <<lockVars, cacheVars, query, floor, acked, silent, answer>>

\* Nothing matched, was unique or passed its OnJSBefore trigger, or an update threw
\* before it changed a record.  An insert invalidates the cache even so: its id is
\* then -1, which counts as true.
StoreNothing(w) ==
    /\ pc[w] = "write"
    /\ \/ Goto(w, "wunlock") /\ UNCHANGED got
       \/ Goto(w, "invalidate") /\ got' = [got EXCEPT ![w] = version]
    /\ UNCHANGED <<version, lockVars, cacheVars, query, floor, acked, silent, answer>>

\* The break out of a single insert when one of its triggers fails, before or
\* after Store: past InvalidateCacheSync, and past Unlock.
InsertTriggerFails(w) ==
    /\ TriggersFail
    /\ pc[w] = "write"
    /\ \/ Change /\ silent' = TRUE
       \/ UNCHANGED <<version, silent>>
    /\ Finish(w)
    /\ UNCHANGED <<lockVars, cacheVars, acked, answer>>

\* An update whose OnJSUpdate trigger fails has stored the record but not counted
\* it; one whose reduce script fails later leaves through the catch of Execute.
UpdateTriggerFails(w) ==
    /\ TriggersFail
    /\ pc[w] = "write"
    /\ Change
    /\ silent' = TRUE
    /\ Goto(w, "wunlock")
    /\ UNCHANGED <<lockVars, cacheVars, query, got, floor, acked, answer>>

\* Mutated form: the write does not invalidate the cache.
Invalidate_Skipped(w) ==
    /\ pc[w] = "invalidate"
    /\ Goto(w, "ack")
    /\ UNCHANGED <<version, lockVars, cacheVars, query, got, floor, acked, silent, answer>>

Invalidate(w) ==
    /\ pc[w] = "invalidate"
    /\ InvalidateCache
    /\ silent' = FALSE
    /\ Goto(w, "ack")
    /\ UNCHANGED <<version, lockVars, query, got, floor, acked, answer>>

\* t.Unlock(true) and the reply.
AcknowledgeWrite(w) ==
    /\ pc[w] = "ack"
    /\ Unlock(w)
    /\ Finish(w)
    /\ acked' = got[w]
    /\ UNCHANGED <<version, cacheVars, silent, answer>>

\* Mutated form: the lock is kept.
ReportNothing_KeepsLock(w) ==
    /\ pc[w] = "wunlock"
    /\ Finish(w)
    /\ UNCHANGED <<version, lockVars, cacheVars, acked, silent, answer>>

\* The same when nothing was changed, or nothing was counted.
ReportNothing(w) ==
    /\ pc[w] = "wunlock"
    /\ Unlock(w)
    /\ Finish(w)
    /\ UNCHANGED <<version, cacheVars, acked, silent, answer>>

\* A reduce script calls db.query: StorageWorker.tin refuses it to a trigger, but
\* not to a reduce, and executes the query in place, lock, cache and unlock.
\* Bound: a worker loses one read lock at most.
NestedQuery(w) ==
    /\ pc[w] \in {"read", "write"} /\ readers[w] <= 1
    /\ LockAndUnlock(w)
    /\ UNCHANGED cacheVars \/ \E q \in Queries : SetKey(q, version)
    /\ UNCHANGED <<version, pc, query, got, floor, acked, silent, answer>>

--------------------------------------------------------------------------------
(* The cache as the query workers use it, and INFO "clear".                   *)

NoCursor == [at |-> NoQuery, live |-> FALSE, value |-> NoEntry, floor |-> 0]

\* Worker::Get, first half: GetKey makes an empty entry where there is none.
HitLookup(r, q) ==
    /\ cursor[r] = NoCursor
    /\ mapped
    /\ LET value == IF cache[q] = NoEntry THEN EmptyEntry ELSE cache[q]
       IN /\ cache' = [cache EXCEPT ![q] = value]
          /\ cursor' = [cursor EXCEPT ![r] = [at |-> q, live |-> TRUE,
                                             value |-> value, floor |-> acked]]
    /\ UNCHANGED <<version, lockVars, mapped, pc, query, got, floor, acked, silent, answer>>

\* Mutated form: the length of the entry is not looked at.
HitCopy_Unchecked(r) ==
    /\ cursor[r] # NoCursor
    /\ \E found \in {cursor[r].value} \cup (IF cursor[r].live THEN {} ELSE {Garbage}) :
          answer' = [value |-> found, floor |-> cursor[r].floor]
    /\ cursor' = [cursor EXCEPT ![r] = NoCursor]
    /\ UNCHANGED <<version, lockVars, mapped, cache, pc, query, got, floor, acked, silent>>

\* Second half: the bytes are copied after share_lock was released.  What the
\* entry held is found if nobody touched it since, and otherwise anything.
HitCopy(r) ==
    /\ cursor[r] # NoCursor
    /\ \E found \in {cursor[r].value} \cup (IF cursor[r].live THEN {} ELSE {Garbage}) :
          answer' = IF found = EmptyEntry THEN answer
                    ELSE [value |-> found, floor |-> cursor[r].floor]
    /\ cursor' = [cursor EXCEPT ![r] = NoCursor]
    /\ UNCHANGED <<version, lockVars, mapped, cache, pc, query, got, floor, acked, silent>>

ClearContext ==
    /\ InvalidateCache
    /\ UNCHANGED <<version, lockVars, pc, query, got, floor, acked, silent, answer>>

--------------------------------------------------------------------------------
StoreInit ==
    /\ version = 0 /\ acked = 0 /\ silent = FALSE
    /\ writer = NoWorker
    /\ readers = [w \in Workers |-> 0] /\ locked = [w \in Workers |-> 0]
    /\ mapped = FALSE
    /\ cache = [q \in Queries |-> NoEntry]
    /\ cursor = [r \in QueryWorkers |-> NoCursor]
    /\ pc = [w \in Workers |-> "idle"]
    /\ query = [w \in Workers |-> NoQuery]
    /\ got = [w \in Workers |-> 0]
    /\ floor = [w \in Workers |-> 0]
    /\ answer = [value |-> 0, floor |-> 0]

\* The steps a worker takes by itself once it has a job.
JobStep(w) ==
    \/ ReadLock(w) \/ RunQuery(w) \/ CacheResult(w) \/ SkipCache(w)
    \/ EvictAll(w) \/ CacheAgain(w) \/ AnswerQuery(w)
    \/ Reopen(w) \/ WriteLock(w) \/ Store(w) \/ StoreNothing(w)
    \/ InsertTriggerFails(w) \/ UpdateTriggerFails(w)
    \/ Invalidate(w) \/ AcknowledgeWrite(w) \/ ReportNothing(w)

StoreNext ==
    \/ \E w \in Workers : JobStep(w) \/ GetWrite(w) \/ \E q \in Queries : GetQuery(w, q)
    \/ \E r \in QueryWorkers : HitCopy(r) \/ \E q \in Queries : HitLookup(r, q)
    \/ ClearContext

StoreSpec == StoreInit /\ [][StoreNext]_storeVars

\* Threads run: a worker whose next step stays possible takes it.  Nothing is
\* assumed of a lock that others take and release for ever.
FairStoreSpec == StoreSpec /\ \A w \in Workers : WF_storeVars(JobStep(w))

\* The same with reduce scripts that query the collection they run over.
ReduceSpec ==
    StoreInit /\ [][StoreNext \/ \E w \in Workers : NestedQuery(w)]_storeVars

--------------------------------------------------------------------------------
(* Properties.                                                                *)

Values == 0..MaxVersion

Pointer == [at : Queries \cup {NoQuery}, live : BOOLEAN,
            value : Values \cup {NoEntry, EmptyEntry}, floor : Values]

StoreTypeOK ==
    /\ version \in Values /\ acked \in Values /\ silent \in BOOLEAN
    /\ writer \in Workers \cup {NoWorker}
    /\ readers \in [Workers -> Nat] /\ locked \in [Workers -> 0..2]
    /\ mapped \in BOOLEAN
    /\ cache \in [Queries -> Values \cup {NoEntry, EmptyEntry}]
    /\ cursor \in [QueryWorkers -> Pointer]
    /\ pc \in [Workers -> Stages]
    /\ query \in [Workers -> Queries \cup {NoQuery}]
    /\ got \in [Workers -> Values] /\ floor \in [Workers -> Values]
    /\ answer \in [value : Values \cup {Garbage}, floor : Values]

\* While a worker changes the collection no other is inside it, although workers
\* whose trigger failed keep the lock, and lock again what they own.
CriticalSectionsExclusive ==
    \A w, v \in Workers :
        w # v /\ pc[w] \in WriteStages => pc[v] \notin ReadStages \cup WriteStages

\* What the cache holds is what the data file holds, except between a write and
\* its InvalidateCache, and after a write that a failed trigger left silent.
CacheFresh ==
    \A q \in Queries :
        cache[q] \in {NoEntry, EmptyEntry, version}
            \/ silent
            \/ \E w \in Workers : pc[w] = "invalidate"

\* A query never misses a write that was acknowledged before it was asked, be it
\* answered by a storage worker or from the cache, and even where failed triggers
\* left the cache behind the data.  (Garbage: a freed entry was read.)
AnswersCurrent == answer.value # Garbage => answer.value >= answer.floor

\* Cache looks at the size once: a worker that finds too many results empties the
\* map and caches its own again without looking.  Still the results in the map
\* exceed what MAX_CACHED_QUERIES allows at most by one for each worker, and one
\* more for each worker that is about to empty it.  The empty entries that lookups
\* leave behind for what is not cached are not counted: nothing bounds them.
Valued == {q \in Queries : cache[q] \in Values}
At(stage) == {w \in Workers : pc[w] = stage}

CacheBounded ==
    Cardinality(Valued) <= MAX_CACHED_QUERIES + Cardinality(Workers)
                                              + Cardinality(At("evict"))

\* No worker is kept out of the collection by workers that have nothing to do,
\* and the workers never all wait for each other.
WorkersMoveOn ==
    /\ []<>(\E w \in Workers : pc[w] = "idle")
    /\ \A w \in Workers :
          []<>(pc[w] = "idle" \/ \E v \in Workers \ {w} : pc[v] # "idle")
================================================================================
