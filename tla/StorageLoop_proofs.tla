-------------------------- MODULE StorageLoop_proofs --------------------------
(******************************************************************************)
(* Proofs about StorageLoop for any keys, batch size, flush limit and bounds. *)
(* The worker's loop only ever uses the queue as the queue's specification    *)
(* says, so what is proved of WorkerQueue holds here; the order of execution, *)
(* the fate of writes and the flushing follow from it.                        *)
(******************************************************************************)
EXTENDS StorageLoop, WorkerQueue_proofs

\* Whoever uses the queue here, uses it as QueueNext says.
LEMMA StepUsesQueue ==
    ASSUME QueueInv, [StorageNext]_<<queueVars, storageVars>>
    PROVE  [QueueNext]_queueVars
<1> USE StorageAssumption, QueueAssumption
<1>1. CASE PostJob
  <2>1. PICK key \in Keys, urgent \in BOOLEAN : AddInput(1, key, urgent)
    BY <1>1 DEF PostJob
  <2>2. 1 \in 1 .. MaxBatch
    OBVIOUS
  <2>3. Post
    BY <2>1, <2>2 DEF Post
  <2>4. QED BY <2>3 DEF QueueNext
<1>2. CASE RemoveFromQueue
  BY <1>2 DEF RemoveFromQueue, QueueNext, Cancel
<1>3. CASE PendingAll
  BY <1>3 DEF PendingAll, QueueNext, WorkerStep, Get
<1>4. CASE Execute \/ EndOfBatch
  BY <1>4 DEF Execute, EndOfBatch
<1>5. CASE SpuriousWakeup
  BY <1>5 DEF QueueNext
<1>6. QED BY <1>1, <1>2, <1>3, <1>4, <1>5 DEF StorageNext

\* The loop of the storage worker is a user of the queue like any other.
THEOREM StorageUsesQueue == StorageSpec => QueueSpec
<1>1. StorageInit => QueueInit
  BY DEF StorageInit
<1>2. QueueInit => QueueInv
  BY InitInv
<1>3. QueueInv /\ [StorageNext]_<<queueVars, storageVars>> => QueueInv' /\ [QueueNext]_queueVars
  BY StepUsesQueue, NextInv
<1>4. QED BY <1>1, <1>2, <1>3, PTL DEF StorageSpec, QueueSpec

--------------------------------------------------------------------------------

\* The batch is part of what was taken, and is empty whenever the worker looks
\* for more.  Only a client's own jobs are ever withdrawn.  What the last batch left
\* in the queue is still there or was withdrawn; it left nothing exactly when the two
\* numbers that EndOfBatch compares are equal.
StorageInv ==
    /\ StorageTypeOK
    /\ data \subseteq taken
    /\ stage = "pending" => data = {}
    /\ ExecutedInOrder
    /\ \A m \in cancelled : m.key # 0
    /\ non_flushed_writes <= BUSY_FSYNC_LIMIT
    /\ behind \subseteq input_data \cup cancelled
    /\ stage = "execute" => result.size = Cardinality(result.data) \/ behind # {}
    /\ stage = "pending" /\ non_flushed_writes > 0 => behind # {}

LEMMA StorageInitInv == StorageInit => StorageInv
BY StorageAssumption DEF StorageInit, QueueInit, StorageInv, StorageTypeOK, ExecutedInOrder,
   Executed, Message

\* What a step of the posters changes does not reach the worker's batch.
LEMMA PostJobInv ==
    ASSUME QueueInv, StorageInv, PostJob
    PROVE  StorageInv'
<1> USE QueueAssumption, StorageAssumption
<1>1. PICK key \in Keys, urgent \in BOOLEAN : AddInput(1, key, urgent)
  BY DEF PostJob
<1>2. posted \in Nat /\ posted' = posted + 1 /\ posted + 1 .. posted + 1 = {posted + 1}
  BY <1>1 DEF AddInput, QueueInv, QueueTypeOK
<1>3. input_data' = input_data \cup {Node(posted + 1, key, urgent)}
  BY <1>1, <1>2 DEF AddInput
<1>4. UNCHANGED <<taken, cancelled, result, storageVars>>
  BY <1>1 DEF AddInput, PostJob
<1>5. ExecutedInOrder'
  <2>1. SUFFICES ASSUME NEW m \in taken \ data, NEW n \in data \cup input_data',
                        ~m.urgent, ~n.urgent
                 PROVE  m.id < n.id
    BY <1>4 DEF ExecutedInOrder, Executed, storageVars
  <2>2. CASE n \in data \cup input_data
    BY <2>1, <2>2 DEF StorageInv, ExecutedInOrder, Executed
  <2>3. CASE n = Node(posted + 1, key, urgent)
    <3>1. n.id = posted + 1
      BY <1>2, <2>3, NodeType
    <3>2. m.id \in 1 .. posted
      BY <2>1 DEF QueueInv, Conservation, Ids
    <3>3. QED BY <1>2, <3>1, <3>2
  <2>4. QED BY <1>3, <2>1, <2>2, <2>3
<1>6. QED BY <1>3, <1>4, <1>5 DEF StorageInv, StorageTypeOK, storageVars

LEMMA RemoveFromQueueInv ==
    ASSUME QueueInv, StorageInv, RemoveFromQueue
    PROVE  StorageInv'
<1>1. PICK key \in Keys : key > 0 /\ RemoveInputKey(key)
  BY DEF RemoveFromQueue
<1>2. /\ input_data' \subseteq input_data
      /\ cancelled' = cancelled \cup WithKey(key)
      /\ input_data' = input_data \ WithKey(key)
      /\ WithKey(key) # {} /\ \A m \in WithKey(key) : m.key = key
      /\ UNCHANGED <<taken, result, storageVars>>
  BY <1>1 DEF RemoveInputKey, RemoveFromQueue, WithKey
<1>3. key # 0
  BY <1>1, StorageAssumption
<1>4. QED
  BY <1>2, <1>3 DEF StorageInv, StorageTypeOK, ExecutedInOrder, Executed, storageVars

\* Taking a batch: everything in it was posted after what was executed before.
LEMMA PendingAllInv ==
    ASSUME QueueInv, QueueInv', StorageInv, PendingAll
    PROVE  StorageInv'
<1> USE QueueAssumption, StorageAssumption
<1>1. /\ stage = "pending" /\ data = {} /\ data' = taken' \ taken
      /\ stage' = IF data' = {} THEN "pending" ELSE "execute"
      /\ non_flushed_writes' = non_flushed_writes
      /\ behind' = IF data' = {} THEN behind ELSE input_data'
  BY DEF PendingAll, StorageInv
<1>2. CASE \E limit \in Nat, locking \in LockingModes : Take(limit, locking)
  <2>1. PICK limit \in Nat, locking \in LockingModes : Take(limit, locking)
    BY <1>2
  <2>2. /\ input_data' = input_data \ Front(limit)
        /\ taken' = taken \cup Front(limit)
        /\ Front(limit) \subseteq input_data
        /\ result' = [data |-> Front(limit), size |-> Cardinality(input_data)]
        /\ cancelled' = cancelled
    BY <2>1 DEF Take, Front
  <2>3. data' = Front(limit)
    <3>1. taken \cap input_data = {}
      BY DEF QueueInv, Conservation, Ids
    <3>2. QED BY <1>1, <2>2, <3>1
  <2>4. taken' \ data' = taken
    <3>1. taken \cap input_data = {}
      BY DEF QueueInv, Conservation, Ids
    <3>2. QED BY <2>2, <2>3, <3>1
  <2>5. ExecutedInOrder'
    <3>1. data' \cup input_data' \subseteq input_data
      BY <2>2, <2>3
    <3>2. QED
      BY <2>4, <3>1 DEF ExecutedInOrder, Executed, QueueInv, PostedOrder
  <2>6. stage' = "execute" => result'.size = Cardinality(result'.data) \/ behind' # {}
    <3>1. CASE input_data = Front(limit)
      BY <2>2, <3>1
    <3>2. CASE input_data # Front(limit)
      BY <1>1, <2>2, <3>2
    <3>3. QED BY <3>1, <3>2
  <2>7. /\ behind' \subseteq input_data' \cup cancelled'
        /\ stage' = "pending" /\ non_flushed_writes' > 0 => behind' # {}
    <3>1. CASE data' = {}
      BY <1>1, <2>2, <2>3, <3>1 DEF StorageInv
    <3>2. CASE data' # {}
      BY <1>1, <3>2
    <3>3. QED BY <3>1, <3>2
  <2>8. StorageTypeOK'
    BY <1>1, <2>2 DEF StorageInv, StorageTypeOK, QueueInv, QueueTypeOK
  <2>9. data' \subseteq taken' /\ (stage' = "pending" => data' = {})
    BY <1>1
  <2>10. (\A m \in cancelled' : m.key # 0) /\ non_flushed_writes' <= BUSY_FSYNC_LIMIT
    BY <1>1, <2>2 DEF StorageInv
  <2>11. QED
    BY <2>5, <2>6, <2>7, <2>8, <2>9, <2>10 DEF StorageInv
<1>3. CASE UNCHANGED <<input_data, taken, cancelled, result>>
  <2>1. data' = {} /\ stage' = "pending"
    BY <1>1, <1>3
  <2>2. QED
    BY <1>1, <1>3, <2>1 DEF StorageInv, StorageTypeOK, ExecutedInOrder, Executed
<1>4. QED
  <2>1. CASE GetInputAll(MaxElements, "forever")
    <3>1. MaxElements \in Nat /\ "forever" \in LockingModes
      BY DEF LockingModes
    <3>2. QED
      BY <1>2, <1>3, <2>1, <3>1 DEF GetInputAll, FoundEmpty, history
  <2>2. CASE Retry
    BY <1>2, <2>2 DEF Retry, QueueInv, QueueTypeOK, LockingModes
  <2>3. CASE Wait
    BY <1>3, <2>3 DEF Wait, history
  <2>4. QED BY <2>1, <2>2, <2>3 DEF PendingAll

\* The job executed next was posted before the jobs left behind it.
LEMMA ExecuteInv ==
    ASSUME QueueInv, StorageInv, Execute
    PROVE  StorageInv'
<1> USE StorageAssumption
<1>1. PICK m \in data : /\ FirstOf(m)
                        /\ data' = data \ {m}
                        /\ ReadJob(m) \/ WriteJob(m) \/ DeleteJob(m)
  BY DEF Execute
<1>2. stage = "execute" /\ UNCHANGED <<queueVars, stage, behind>>
  BY DEF Execute
<1>3. non_flushed_writes' \in Nat /\ non_flushed_writes' <= BUSY_FSYNC_LIMIT
  BY <1>1 DEF ReadJob, WriteJob, DeleteJob, FlushIfBusy, Flush, StorageInv, StorageTypeOK
<1>4. Executed' = Executed \cup {m}
  BY <1>1, <1>2 DEF Executed, queueVars, StorageInv
<1>5. \A n \in data \cup input_data : n # m /\ ~m.urgent /\ ~n.urgent => m.id < n.id
  <2>1. SUFFICES ASSUME NEW n \in data \cup input_data, n # m, ~m.urgent, ~n.urgent
                 PROVE  m.id < n.id
    OBVIOUS
  <2>2. CASE n \in input_data
    BY <1>1, <2>1, <2>2 DEF QueueInv, PostedOrder, StorageInv
  <2>3. CASE n \in data
    <3>1. m \in taken /\ n \in taken /\ m \in Message /\ n \in Message
      BY <1>1, <2>3 DEF StorageInv, QueueInv, QueueTypeOK
    <3>2. m.rank = m.id /\ n.rank = n.id
      <4>1. m = Node(m.id, m.key, m.urgent) /\ n = Node(n.id, n.key, n.urgent)
        BY <3>1 DEF QueueInv, Placed
      <4>2. QED BY <2>1, <3>1, <4>1 DEF Node, Message
    <3>3. m.id # n.id
      BY <2>1, <3>1 DEF QueueInv, Numbered
    <3>4. m.rank <= n.rank
      BY <1>1, <2>3 DEF FirstOf
    <3>5. QED BY <3>1, <3>2, <3>3, <3>4 DEF Message
  <2>4. QED BY <2>1, <2>2, <2>3
<1>6. ExecutedInOrder'
  <2>1. SUFFICES ASSUME NEW l \in Executed \cup {m}, NEW n \in (data \ {m}) \cup input_data,
                        ~l.urgent, ~n.urgent
                 PROVE  l.id < n.id
    BY <1>1, <1>2, <1>4 DEF ExecutedInOrder, queueVars
  <2>2. n # m
    <3>1. m \in taken
      BY <1>1 DEF StorageInv
    <3>2. QED BY <2>1, <3>1 DEF QueueInv, Conservation, Ids
  <2>3. CASE l = m
    BY <1>5, <2>1, <2>2, <2>3
  <2>4. CASE l \in Executed
    BY <2>1, <2>4 DEF StorageInv, ExecutedInOrder
  <2>5. QED BY <2>1, <2>3, <2>4
<1>7. QED
  BY <1>1, <1>2, <1>3, <1>6 DEF StorageInv, StorageTypeOK, queueVars

LEMMA EndOfBatchInv ==
    ASSUME QueueInv, StorageInv, EndOfBatch
    PROVE  StorageInv'
<1>1. /\ stage = "execute" /\ stage' = "pending" /\ data = {} /\ data' = {}
      /\ UNCHANGED <<input_data, taken, cancelled, result, behind>>
  BY DEF EndOfBatch, queueVars
<1>2. \/ non_flushed_writes' = 0
      \/ /\ non_flushed_writes' = non_flushed_writes
         /\ non_flushed_writes > 0 => result.size # Cardinality(result.data)
  BY DEF EndOfBatch, FlushIf, Flush
<1>3. QED
  BY <1>1, <1>2, StorageAssumption
  DEF StorageInv, StorageTypeOK, ExecutedInOrder, Executed

THEOREM StorageInvariant == StorageSpec => [](QueueInv /\ StorageInv)
<1>1. StorageInit => QueueInv /\ StorageInv
  BY InitInv, StorageInitInv DEF StorageInit
<1>2. QueueInv /\ StorageInv /\ [StorageNext]_<<queueVars, storageVars>>
          => (QueueInv /\ StorageInv)'
  <2>1. SUFFICES ASSUME QueueInv, StorageInv, [StorageNext]_<<queueVars, storageVars>>
                 PROVE  QueueInv' /\ StorageInv'
    OBVIOUS
  <2>2. QueueInv'
    BY <2>1, StepUsesQueue, NextInv
  <2> SUFFICES StorageInv'
    BY <2>2
  <2>3. CASE UNCHANGED <<input_data, taken, cancelled, result, storageVars>>
    BY <2>1, <2>3 DEF StorageInv, StorageTypeOK, ExecutedInOrder, Executed, storageVars
  <2>4. CASE SpuriousWakeup /\ UNCHANGED storageVars
    BY <2>3, <2>4 DEF SpuriousWakeup, history
  <2>5. CASE UNCHANGED <<queueVars, storageVars>>
    BY <2>3, <2>5 DEF queueVars
  <2>6. QED
    BY <2>1, <2>2, <2>4, <2>5, PostJobInv, RemoveFromQueueInv, PendingAllInv, ExecuteInv,
       EndOfBatchInv
    DEF StorageNext
<1>3. QED BY <1>1, <1>2, PTL DEF StorageSpec

\* The loop's own variables keep their types.
THEOREM StorageTypes == StorageSpec => []StorageTypeOK
<1>1. StorageInv => StorageTypeOK
  BY DEF StorageInv
<1>2. QED BY <1>1, StorageInvariant, PTL

\* Writes are executed in the order they were posted, across batches.
THEOREM StorageExecutesInOrder == StorageSpec => []ExecutedInOrder
<1>1. StorageInv => ExecutedInOrder
  BY DEF StorageInv
<1>2. QED BY <1>1, StorageInvariant, PTL

\* Every write that was dispatched is queued, in the batch or executed.
THEOREM StorageKeepsWrites == StorageSpec => []WritesSurviveDisconnect
<1>1. QueueInv /\ StorageInv => WritesSurviveDisconnect
  <2>1. SUFFICES ASSUME QueueInv, StorageInv, NEW i \in 1 .. posted
                 PROVE  \/ i \in Ids(Executed \cup data \cup input_data)
                        \/ \E m \in cancelled : m.id = i /\ m.key # 0
    BY DEF WritesSurviveDisconnect
  <2>2. i \in Ids(input_data) \/ i \in Ids(taken) \/ i \in Ids(cancelled)
    BY <2>1 DEF QueueInv, Conservation
  <2>3. Executed \cup data \cup input_data = taken \cup input_data
    BY <2>1 DEF StorageInv, Executed
  <2>4. QED BY <2>1, <2>2, <2>3 DEF Ids, StorageInv
<1>2. QED BY <1>1, StorageInvariant, PTL

\* A worker looks for more work with unflushed writes only after a batch that left jobs
\* in the queue, and only while each of these still waits or was withdrawn since.
THEOREM StorageIdleIsFlushed == StorageSpec => []IdleIsFlushed
<1>1. StorageInv => IdleIsFlushed
  BY DEF StorageInv, IdleIsFlushed
<1>2. QED BY <1>1, StorageInvariant, PTL
================================================================================
