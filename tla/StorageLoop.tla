------------------------------ MODULE StorageLoop ------------------------------
(******************************************************************************)
(* A storage worker of core/server/TinDB.con: StorageWorker.Iteration over    *)
(* its input queue.  The worker takes a batch of at most MaxElements jobs,    *)
(* executes them one by one and decides after each job, and again after the   *)
(* batch, whether to flush what it has written.                               *)
(*                                                                            *)
(* The queue is WorkerQueue; the query workers post to it with AddWorkerData  *)
(* (Dispatch) and withdraw a disconnected client's jobs (RemoveFromQueue).    *)
(* A write is posted with key 0, a read with its client's socket.             *)
(*                                                                            *)
(* The clock is not modelled: that BUSY_FSYNC_TIMEOUT seconds have passed     *)
(* since the last flush may be true or false after any job.                   *)
(******************************************************************************)
EXTENDS WorkerQueue

CONSTANTS
    MaxElements,      \* jobs of a batch: the 100 of Iteration
    BUSY_FSYNC_LIMIT, \* counted writes a busy worker keeps unflushed at most
    MaxCount          \* bound: writes that one job counts

ASSUME StorageAssumption ==
    /\ Keys \subseteq Nat
    /\ MaxElements \in Limits
    /\ "forever" \in Lockings
    /\ MaxBatch >= 1
    /\ BUSY_FSYNC_LIMIT \in Nat
    /\ MaxCount \in Nat

VARIABLES
    stage,               \* "pending": in PendingAll; "execute": in the loop over data
    data,                \* the jobs of the batch not executed yet
    non_flushed_writes,  \* writes counted since the last Flush
    behind               \* history: the jobs the last batch left in the queue

storageVars == <<stage, data, non_flushed_writes, behind>>

\* The jobs executed so far.
Executed == taken \ data

--------------------------------------------------------------------------------
(* Query workers.                                                             *)

\* AddWorkerData in Dispatch.
PostJob ==
    /\ \E key \in Keys, urgent \in BOOLEAN : AddInput(1, key, urgent)
    /\ UNCHANGED storageVars

\* Mutated form: the test on queue_key dropped.
RemoveFromQueue_AnyKey ==
    /\ \E key \in Keys : RemoveInputKey(key)
    /\ UNCHANGED storageVars

\* QueryWorker.RemoveFromQueue: only a client's own key can be withdrawn.
RemoveFromQueue ==
    /\ \E key \in Keys : key > 0 /\ RemoveInputKey(key)
    /\ UNCHANGED storageVars

--------------------------------------------------------------------------------
(* The worker.                                                                *)

\* PendingAll(data, -1, MaxElements).  An empty batch is another Iteration.
PendingAll ==
    /\ stage = "pending"
    /\ GetInputAll(MaxElements, "forever") \/ Wait \/ Retry
    /\ data' = taken' \ taken
    /\ stage' = IF data' = {} THEN "pending" ELSE "execute"
    /\ behind' = IF data' = {} THEN behind ELSE input_data'
    /\ UNCHANGED non_flushed_writes

\* StorageWorker.Flush: every managed collection is written out.
Flush == non_flushed_writes' = 0

\* Mutated form: the job's own write taken off the count again.
FlushIfBusy_Undone(count) ==
    \E due \in BOOLEAN :
        IF count > BUSY_FSYNC_LIMIT \/ (due /\ count > 0)
        THEN Flush ELSE non_flushed_writes' = count - 1

\* The test after each job, with count writes pending.
FlushIfBusy(count) ==
    \E due \in BOOLEAN :
        IF count > BUSY_FSYNC_LIMIT \/ (due /\ count > 0)
        THEN Flush ELSE non_flushed_writes' = count

\* Mutated form: the batch gone over from its end.
FirstOf_Last(m) == m \in data /\ \A n \in data : m.rank >= n.rank

\* The first of the jobs left: data[i] follows the order in which they were taken.
FirstOf(m) == m \in data /\ \A n \in data : m.rank <= n.rank

ReadJob(m) == m.key # 0 /\ FlushIfBusy(non_flushed_writes)

\* I, U, X, Y, Z: the job counts every record it wrote, nothing when it failed at once
\* or changed nothing.  The count is compared with the limit after the job only.
WriteJob(m) ==
    /\ m.key = 0
    /\ \E count \in 0 .. MaxCount : FlushIfBusy(non_flushed_writes + count)

\* D flushes at once when it deleted something.
DeleteJob(m) == m.key = 0 /\ Flush

\* One turn of the loop of Iteration: Execute, its exceptions caught, and the test.
Execute ==
    /\ stage = "execute"
    /\ \E m \in data :
          /\ FirstOf(m)
          /\ data' = data \ {m}
          /\ ReadJob(m) \/ WriteJob(m) \/ DeleteJob(m)
    /\ UNCHANGED <<queueVars, stage, behind>>

FlushIf(condition) ==
    IF non_flushed_writes > 0 /\ condition THEN Flush ELSE UNCHANGED non_flushed_writes

\* Mutated form: the batch compared with its limit, not with the queue.
EndOfBatch_FullBatch ==
    /\ stage = "execute" /\ data = {}
    /\ stage' = "pending"
    /\ FlushIf(Cardinality(result.data) = MaxElements)
    /\ UNCHANGED <<queueVars, data, behind>>

\* After the loop: flush if the batch was all there was in the queue.
EndOfBatch ==
    /\ stage = "execute" /\ data = {}
    /\ stage' = "pending"
    /\ FlushIf(result.size = Cardinality(result.data))
    /\ UNCHANGED <<queueVars, data, behind>>

--------------------------------------------------------------------------------

StorageInit ==
    /\ QueueInit
    /\ stage = "pending"
    /\ data = {}
    /\ non_flushed_writes = 0
    /\ behind = {}

StorageNext ==
    \/ PostJob
    \/ RemoveFromQueue
    \/ PendingAll
    \/ Execute
    \/ EndOfBatch
    \/ SpuriousWakeup /\ UNCHANGED storageVars

StorageSpec == StorageInit /\ [][StorageNext]_<<queueVars, storageVars>>

--------------------------------------------------------------------------------
(* Properties.                                                                *)

StorageTypeOK ==
    /\ stage \in {"pending", "execute"}
    /\ data \in SUBSET Message
    /\ non_flushed_writes \in Nat
    /\ behind \in SUBSET Message

\* The writes of every client are executed, not only taken, in the order they
\* were posted: batches do not reorder them, nor does what a client withdraws.
ExecutedInOrder ==
    \A m \in Executed, n \in data \cup input_data :
        ~m.urgent /\ ~n.urgent => m.id < n.id

\* A write that was dispatched is executed whatever happens to its client: no
\* disconnection withdraws it.
WritesSurviveDisconnect ==
    \A i \in 1 .. posted :
        \/ i \in Ids(Executed \cup data \cup input_data)
        \/ \E m \in cancelled : m.id = i /\ m.key # 0

\* A worker that looks for more work, and may fall asleep, has writes it did not flush
\* only if its last batch left jobs in the queue, and each of these still waits or was
\* withdrawn after the batch was taken.  A withdrawal before that excuses nothing, and
\* neither does one that left a job behind the batch in the queue.
IdleIsFlushed ==
    stage = "pending" /\ non_flushed_writes > 0 =>
        /\ non_flushed_writes <= BUSY_FSYNC_LIMIT
        /\ behind # {}
        /\ behind \subseteq input_data \cup cancelled
================================================================================
