-------------------------- MODULE WorkerQueue_proofs --------------------------
(******************************************************************************)
(* Proofs about WorkerQueue for any keys, limits, waiting modes and bounds:   *)
(* its type invariant, conservation, delivery order, the wake-up of a worker  *)
(* that is already blocked, and that it implements the abstract Mailbox.      *)
(******************************************************************************)
EXTENDS WorkerQueue, FiniteSetTheorems, TLAPS

\* Every message ever posted carries the place SimpleQueue gave it.
Placed ==
    \A m \in input_data \cup taken \cup cancelled : m = Node(m.id, m.key, m.urgent)

\* No two messages share an id.
Numbered ==
    \A m, n \in input_data \cup taken \cup cancelled : m.id = n.id => m = n

\* While the worker is in the wait, or about to enter it, the posters see it.
WaiterVisible == pc \in {"unlocked", "blocked"} => input_cond_wait

\* The inductive invariant.  Conservation bounds every id by posted, so that a new
\* message gets a fresh id; Placed turns an order of ranks into one of ids.
QueueInv ==
    /\ QueueTypeOK
    /\ Conservation
    /\ Numbered
    /\ Placed
    /\ PostedOrder
    /\ WaiterVisible

--------------------------------------------------------------------------------
(* The list operations.                                                       *)

LEMMA NodeType ==
    ASSUME NEW i \in Nat, NEW key \in Keys, NEW urgent \in BOOLEAN
    PROVE  /\ Node(i, key, urgent) \in Message
           /\ Node(i, key, urgent).id = i
           /\ Node(i, key, urgent).key = key
           /\ Node(i, key, urgent).urgent = urgent
           /\ Node(i, key, urgent).rank = IF urgent THEN -i ELSE i
BY DEF Node, Message

\* What Front(limit) hands over stands before everything it leaves behind.
LEMMA FrontBefore ==
    ASSUME QueueTypeOK, NEW limit \in Nat,
           NEW m \in Front(limit), NEW n \in input_data \ Front(limit)
    PROVE  m.rank < n.rank
<1>1. m \in Message /\ n \in Message /\ m \in input_data /\ n \in input_data
  BY DEF Front, QueueTypeOK
<1>2. SUFFICES ASSUME n.rank <= m.rank PROVE FALSE
  BY <1>1 DEF Message
<1>3. Ahead(n) \subseteq Ahead(m)
  BY <1>1, <1>2 DEF Ahead, Message, QueueTypeOK
<1>4. IsFiniteSet(Ahead(m)) /\ IsFiniteSet(Ahead(n))
  <2>1. Ahead(m) \subseteq input_data /\ Ahead(n) \subseteq input_data
    BY DEF Ahead
  <2>2. QED BY <2>1, FS_Subset DEF QueueTypeOK
<1>5. /\ Cardinality(Ahead(n)) <= Cardinality(Ahead(m))
      /\ Cardinality(Ahead(n)) \in Nat /\ Cardinality(Ahead(m)) \in Nat
  BY <1>3, <1>4, FS_Subset, FS_CardinalityType
<1>6. limit # 0 /\ Cardinality(Ahead(m)) < limit /\ ~(Cardinality(Ahead(n)) < limit)
  BY <1>1 DEF Front
<1>7. QED BY <1>5, <1>6

LEMMA FrontFinite ==
    ASSUME QueueTypeOK, NEW limit \in Nat
    PROVE  /\ Front(limit) \subseteq input_data
           /\ IsFiniteSet(Front(limit))
           /\ IsFiniteSet(input_data \ Front(limit))
           /\ Cardinality(Front(limit)) \in Nat
           /\ Cardinality(input_data) \in Nat
<1>1. Front(limit) \subseteq input_data
  BY DEF Front
<1>2. IsFiniteSet(Front(limit)) /\ IsFiniteSet(input_data \ Front(limit))
  BY <1>1, FS_Subset DEF QueueTypeOK
<1>3. QED BY <1>1, <1>2, FS_CardinalityType DEF QueueTypeOK
--------------------------------------------------------------------------------
(* The invariant, action by action.                                           *)

LEMMA InitInv == QueueInit => QueueInv
<1> SUFFICES ASSUME QueueInit PROVE QueueInv
  OBVIOUS
<1>1. QueueTypeOK
  BY FS_EmptySet DEF QueueInit, QueueTypeOK, LockingModes
<1>2. Conservation
  <2>1. Ids({}) = {} /\ 1 .. 0 = {}
    BY DEF Ids
  <2>2. QED BY <2>1 DEF QueueInit, Conservation
<1>3. Numbered /\ Placed /\ PostedOrder /\ WaiterVisible
  BY DEF QueueInit, Numbered, Placed, PostedOrder, WaiterVisible
<1>4. QED BY <1>1, <1>2, <1>3 DEF QueueInv

\* The steps that leave the messages where they are keep whatever is said of them.
LEMMA MessagesUnchanged ==
    ASSUME QueueInv, UNCHANGED <<input_data, posted, taken, cancelled>>
    PROVE  Conservation' /\ Numbered' /\ Placed' /\ PostedOrder'
BY DEF QueueInv, Conservation, Numbered, Placed, PostedOrder, Ids

LEMMA PostInv ==
    ASSUME QueueInv, QueueAssumption,
           NEW count \in 1 .. MaxBatch, NEW key \in Keys, NEW urgent \in BOOLEAN,
           AddInput(count, key, urgent)
    PROVE  QueueInv'
<1> DEFINE new == {Node(i, key, urgent) : i \in posted + 1 .. posted + count}
<1>0. posted \in Nat /\ count \in Nat /\ posted' = posted + count /\ posted' \in Nat
  BY DEF AddInput, QueueInv, QueueTypeOK, QueueAssumption
<1>1. /\ input_data' = input_data \cup new
      /\ UNCHANGED <<input_cond_wait, semaphore_open, call, result, taken, cancelled>>
  BY DEF AddInput
<1>2. \A m \in new : /\ m \in Message
                      /\ m.id \in posted + 1 .. posted + count
                      /\ m = Node(m.id, m.key, m.urgent)
  BY <1>0, NodeType
<1>3. Ids(new) = posted + 1 .. posted + count
  BY <1>0, NodeType DEF Ids
<1>4. IsFiniteSet(new)
  <2>1. IsFiniteSet(posted + 1 .. posted + count)
    BY <1>0, FS_Interval
  <2> DEFINE number == [i \in posted + 1 .. posted + count |-> Node(i, key, urgent)]
  <2>2. number \in Surjection(posted + 1 .. posted + count, new)
    BY DEF Surjection
  <2>3. QED BY <2>1, <2>2, FS_Surjection
<1>5. QueueTypeOK'
  <2>1. IsFiniteSet(input_data')
    BY <1>1, <1>4, FS_Union DEF QueueInv, QueueTypeOK
  <2>2. pc' \in {"running", "unlocked", "blocked", "woken"} /\ semaphore' \in Nat
    BY <1>0 DEF AddInput, QueueInv, QueueTypeOK
  <2>3. input_data' \in SUBSET Message
    BY <1>1, <1>2 DEF QueueInv, QueueTypeOK
  <2>4. QED BY <1>0, <1>1, <2>1, <2>2, <2>3 DEF QueueInv, QueueTypeOK
<1>6. Conservation'
  <2>1. Ids(input_data') = Ids(input_data) \cup (posted + 1 .. posted + count)
    BY <1>1, <1>3 DEF Ids
  <2>2. Ids(taken') = Ids(taken) /\ Ids(cancelled') = Ids(cancelled)
    BY <1>1 DEF Ids
  <2>3. 1 .. posted' = (1 .. posted) \cup (posted + 1 .. posted + count)
    BY <1>0
  <2>4. (1 .. posted) \cap (posted + 1 .. posted + count) = {}
    BY <1>0
  <2>5. QED BY <2>1, <2>2, <2>3, <2>4 DEF QueueInv, Conservation
<1>7. Placed' /\ Numbered'
  <2>1. Placed'
    BY <1>1, <1>2 DEF QueueInv, Placed
  <2>2. \A m, n \in new : m.id = n.id => m = n
    BY <1>0, NodeType
  <2>3. \A m \in input_data \cup taken \cup cancelled : m.id \in 1 .. posted
    BY DEF QueueInv, Conservation, Ids
  <2>4. \A m \in input_data \cup taken \cup cancelled, n \in new : m.id # n.id
    BY <1>0, <1>2, <2>3
  <2>5. QED BY <1>1, <2>1, <2>2, <2>4 DEF QueueInv, Numbered
<1>8. PostedOrder'
  <2>1. SUFFICES ASSUME NEW m \in taken, NEW n \in new PROVE m.id < n.id
    BY <1>1 DEF QueueInv, PostedOrder
  <2>2. m.id \in 1 .. posted
    BY DEF QueueInv, Conservation, Ids
  <2>3. QED BY <1>0, <1>2, <2>2
<1>9. WaiterVisible'
  BY <1>1 DEF AddInput, QueueInv, WaiterVisible
<1>10. QED BY <1>5, <1>6, <1>7, <1>8, <1>9 DEF QueueInv

LEMMA CancelInv ==
    ASSUME QueueInv, NEW key \in Keys, RemoveInputKey(key)
    PROVE  QueueInv'
<1>1. /\ input_data' = input_data \ WithKey(key)
      /\ cancelled' = cancelled \cup WithKey(key)
      /\ WithKey(key) \subseteq input_data
      /\ UNCHANGED <<input_cond_wait, semvars, pc, call, result, posted, taken>>
  BY DEF RemoveInputKey, WithKey
<1>2. QueueTypeOK'
  <2>1. IsFiniteSet(input_data')
    BY <1>1, FS_Subset DEF QueueInv, QueueTypeOK
  <2>2. QED BY <1>1, <2>1 DEF QueueInv, QueueTypeOK, semvars
<1>3. Conservation'
  <2>1. Ids(input_data') \cup Ids(cancelled') = Ids(input_data) \cup Ids(cancelled)
    BY <1>1 DEF Ids
  <2>2. Ids(input_data') \cap Ids(cancelled') = {}
    BY <1>1 DEF Ids, QueueInv, Conservation, Numbered
  <2>3. QED BY <1>1, <2>1, <2>2 DEF QueueInv, Conservation, Ids
<1>4. Numbered' /\ Placed' /\ PostedOrder' /\ WaiterVisible'
  BY <1>1 DEF QueueInv, Numbered, Placed, PostedOrder, WaiterVisible
<1>5. QED BY <1>2, <1>3, <1>4 DEF QueueInv

LEMMA TakeInv ==
    ASSUME QueueInv, NEW limit \in Nat, NEW locking \in LockingModes,
           Take(limit, locking)
    PROVE  QueueInv'
<1> DEFINE batch == Front(limit)
<1>1. /\ input_data' = input_data \ batch
      /\ taken' = taken \cup batch
      /\ pc' = "running"
      /\ UNCHANGED <<semaphore_open, call, posted, cancelled>>
  BY DEF Take
<1>2. /\ batch \subseteq input_data
      /\ IsFiniteSet(input_data')
      /\ Cardinality(batch) \in Nat
      /\ Cardinality(input_data) \in Nat
  BY <1>1, FrontFinite DEF QueueInv
<1>3. QueueTypeOK'
  <2>1. semaphore' \in Nat
    BY <1>2 DEF Take, Drained, QueueInv, QueueTypeOK
  <2>2. result' \in [data : SUBSET Message, size : Nat] /\ input_cond_wait' \in BOOLEAN
    BY <1>2 DEF Take, QueueInv, QueueTypeOK
  <2>3. QED BY <1>1, <1>2, <2>1, <2>2 DEF QueueInv, QueueTypeOK
<1>4. Conservation'
  <2>1. Ids(input_data') \cup Ids(taken') = Ids(input_data) \cup Ids(taken)
    BY <1>1, <1>2 DEF Ids
  <2>2. Ids(input_data') \cap Ids(taken') = {}
    BY <1>1, <1>2 DEF Ids, QueueInv, Conservation, Numbered
  <2>3. Ids(taken') \cap Ids(cancelled') = {}
    BY <1>1, <1>2 DEF Ids, QueueInv, Conservation
  <2>4. QED BY <1>1, <2>1, <2>2, <2>3 DEF QueueInv, Conservation, Ids
<1>5. Numbered' /\ Placed' /\ WaiterVisible'
  BY <1>1, <1>2 DEF QueueInv, Numbered, Placed, WaiterVisible
<1>6. PostedOrder'
  <2>1. SUFFICES ASSUME NEW m \in batch, NEW n \in input_data \ batch,
                        ~m.urgent, ~n.urgent
                 PROVE  m.id < n.id
    BY <1>1 DEF QueueInv, PostedOrder
  <2>2. m.rank < n.rank
    BY FrontBefore DEF QueueInv
  <2>3. m.rank = m.id /\ n.rank = n.id
    BY <1>2, <2>1, NodeType DEF QueueInv, Placed, QueueTypeOK, Message
  <2>4. QED BY <2>2, <2>3
<1>7. QED BY <1>3, <1>4, <1>5, <1>6 DEF QueueInv

LEMMA FoundEmptyInv ==
    ASSUME QueueInv, NEW limit \in Nat, NEW locking \in LockingModes,
           FoundEmpty(limit, locking)
    PROVE  QueueInv'
<1>1. QueueTypeOK' /\ WaiterVisible'
  BY DEF FoundEmpty, QueueInv, QueueTypeOK, WaiterVisible, semvars, history
<1>2. QED BY <1>1, MessagesUnchanged DEF FoundEmpty, QueueInv, history

LEMMA WaitInv == QueueInv /\ (Wait \/ Timeout \/ SpuriousWakeup) => QueueInv'
<1> SUFFICES ASSUME QueueInv, Wait \/ Timeout \/ SpuriousWakeup PROVE QueueInv'
  OBVIOUS
<1>1. QueueTypeOK' /\ WaiterVisible'
  BY DEF Wait, Timeout, SpuriousWakeup, QueueInv, QueueTypeOK, WaiterVisible, semvars, history
<1>2. QED
  BY <1>1, MessagesUnchanged DEF Wait, Timeout, SpuriousWakeup, QueueInv, history

LEMMA SemaphoreInv ==
    QueueInv /\ (GetInputSemaphore \/ SemaphoreSocketRead) => QueueInv'
<1> SUFFICES ASSUME QueueInv, GetInputSemaphore \/ SemaphoreSocketRead PROVE QueueInv'
  OBVIOUS
<1>1. QueueTypeOK' /\ WaiterVisible'
  <2>1. CASE GetInputSemaphore
    BY <2>1 DEF GetInputSemaphore, QueueInv, QueueTypeOK, WaiterVisible, history
  <2>2. CASE SemaphoreSocketRead
    BY <2>2 DEF SemaphoreSocketRead, QueueInv, QueueTypeOK, WaiterVisible, history
  <2>3. QED BY <2>1, <2>2
<1>2. QED
  BY <1>1, MessagesUnchanged DEF GetInputSemaphore, SemaphoreSocketRead, QueueInv, history

LEMMA NextInv == QueueInv /\ [QueueNext]_queueVars => QueueInv'
<1> SUFFICES ASSUME QueueInv, [QueueNext]_queueVars PROVE QueueInv'
  OBVIOUS
<1> USE QueueAssumption
<1>1. CASE Post
  BY <1>1, PostInv DEF Post
<1>2. CASE Cancel
  BY <1>2, CancelInv DEF Cancel
<1>3. CASE Get
  BY <1>3, TakeInv, FoundEmptyInv DEF Get, GetInputAll, QueueAssumption
<1>4. CASE Retry
  <2>1. call.limit \in Nat /\ "none" \in LockingModes
    BY DEF QueueInv, QueueTypeOK, LockingModes
  <2>2. QED BY <1>4, <2>1, TakeInv DEF Retry
<1>5. CASE Wait \/ Timeout \/ SpuriousWakeup
  BY <1>5, WaitInv
<1>6. CASE GetInputSemaphore \/ SemaphoreSocketRead
  BY <1>6, SemaphoreInv
<1>7. CASE UNCHANGED queueVars
  <2>1. QueueTypeOK' /\ WaiterVisible'
    BY <1>7 DEF queueVars, QueueInv, QueueTypeOK, WaiterVisible
  <2>2. QED BY <1>7, <2>1, MessagesUnchanged DEF queueVars, QueueInv
<1>8. QED BY <1>1, <1>2, <1>3, <1>4, <1>5, <1>6, <1>7 DEF QueueNext, WorkerStep

--------------------------------------------------------------------------------
(* The theorems.                                                              *)

\* The inductive invariant holds in every reachable state.
THEOREM QueueInvariant == QueueSpec => []QueueInv
BY InitInv, NextInv, PTL DEF QueueSpec

\* The queue's variables keep their types: in particular the eventfd's count never
\* goes below zero, however often it is read besides the takes.
THEOREM QueueTypes == QueueSpec => []QueueTypeOK
<1>1. QueueInv => QueueTypeOK
  BY DEF QueueInv
<1>2. QED BY <1>1, QueueInvariant, PTL

\* No message is lost, invented or handed over twice.
THEOREM QueueConserves == QueueSpec => []Conservation
<1>1. QueueInv => Conservation
  BY DEF QueueInv
<1>2. QED BY <1>1, QueueInvariant, PTL

\* Messages of normal priority are handed over in posting order.
THEOREM QueueKeepsOrder == QueueSpec => []PostedOrder
<1>1. QueueInv => PostedOrder
  BY DEF QueueInv
<1>2. QED BY <1>1, QueueInvariant, PTL

\* The only step that hands a message over is a Take.
LEMMA HandOver ==
    ASSUME QueueInv, [QueueNext]_queueVars, taken' # taken
    PROVE  \E limit \in Nat, locking \in LockingModes : Take(limit, locking)
<1>1. CASE Get
  <2>1. PICK limit \in Limits, locking \in Lockings : GetInputAll(limit, locking)
    BY <1>1 DEF Get
  <2>2. ~FoundEmpty(limit, locking)
    BY DEF FoundEmpty, history
  <2>3. QED BY <2>1, <2>2, QueueAssumption DEF GetInputAll, QueueAssumption
<1>2. CASE Retry
  BY <1>2 DEF Retry, QueueInv, QueueTypeOK, LockingModes
<1>3. QED
  BY <1>1, <1>2 DEF QueueNext, WorkerStep, Post, AddInput, Cancel, RemoveInputKey, Wait,
     Timeout, SpuriousWakeup, GetInputSemaphore, SemaphoreSocketRead, history, queueVars

\* A take that hands over a message of normal priority leaves no urgent one queued.
THEOREM QueueUrgentFirst == QueueSpec => UrgentFirst
<1>1. QueueInv /\ [QueueNext]_queueVars =>
          [\A m \in taken' \ taken :
              ~m.urgent => \A n \in input_data' : ~n.urgent]_queueVars
  <2>1. SUFFICES ASSUME QueueInv, [QueueNext]_queueVars,
                        NEW m \in taken' \ taken, ~m.urgent,
                        NEW n \in input_data', n.urgent
                 PROVE  FALSE
    OBVIOUS
  <2>2. PICK limit \in Nat, locking \in LockingModes : Take(limit, locking)
    BY <2>1, HandOver
  <2>3. m \in Front(limit) /\ n \in input_data \ Front(limit) /\ m \in input_data
    BY <2>1, <2>2 DEF Take, Front
  <2>4. m.rank < n.rank
    BY <2>1, <2>3, FrontBefore DEF QueueInv
  <2>5. m \in Message /\ n \in Message
    BY <2>1, <2>3 DEF QueueInv, QueueTypeOK
  <2>6. m.rank = m.id /\ n.rank = -n.id
    BY <2>1, <2>3, <2>5, NodeType DEF QueueInv, Placed, Message
  <2>7. QED BY <2>4, <2>5, <2>6 DEF Message
<1>2. QED BY <1>1, QueueInvariant, PTL DEF QueueSpec, UrgentFirst

\* Posting to a worker that is blocked wakes it.
THEOREM QueueWakes == QueueSpec => PostWakesSleeper
<1>1. QueueInv /\ [QueueNext]_queueVars =>
          [pc = "blocked" /\ ~(input_data' \subseteq input_data)
              => pc' # "blocked"]_queueVars
  <2>1. SUFFICES ASSUME QueueInv, [QueueNext]_queueVars, pc = "blocked",
                        ~(input_data' \subseteq input_data)
                 PROVE  pc' # "blocked"
    OBVIOUS
  <2>2. CASE Post
    BY <2>1, <2>2 DEF Post, AddInput, QueueInv, WaiterVisible
  <2>3. ~Cancel /\ ~Get /\ ~Retry
    BY <2>1 DEF Cancel, RemoveInputKey, Get, GetInputAll, Retry
  <2>4. QED
    BY <2>1, <2>2, <2>3 DEF QueueNext, WorkerStep, Wait, Timeout, SpuriousWakeup,
       GetInputSemaphore, SemaphoreSocketRead, queueVars
<1>2. QED BY <1>1, QueueInvariant, PTL DEF QueueSpec, PostWakesSleeper
--------------------------------------------------------------------------------
(* The queue implements the Mailbox.                                          *)

\* Removing numbered messages from a set removes exactly their letters.
LEMMA LettersOfDifference ==
    ASSUME NEW S, NEW T \in SUBSET S, \A m, n \in S : m.id = n.id => m = n
    PROVE  Letters(S \ T) = Letters(S) \ Letters(T)
BY DEF Letters

LEMMA LettersOfUnion ==
    ASSUME NEW S, NEW T
    PROVE  Letters(S \cup T) = Letters(S) \cup Letters(T)
BY DEF Letters

\* Everything in the batch precedes, in the mailbox's order, everything left.
LEMMA BatchPrecedes ==
    ASSUME QueueInv, NEW limit \in Nat,
           NEW m \in Front(limit), NEW n \in input_data \ Front(limit)
    PROVE  IF m.urgent THEN n.urgent => m.id > n.id
                       ELSE ~n.urgent /\ m.id < n.id
<1>1. m.rank < n.rank
  BY FrontBefore DEF QueueInv
<1>2. m \in input_data /\ m \in Message /\ n \in Message
  BY DEF Front, QueueInv, QueueTypeOK
<1>3. /\ m.rank = IF m.urgent THEN -m.id ELSE m.id
      /\ n.rank = IF n.urgent THEN -n.id ELSE n.id
  BY <1>2, NodeType DEF QueueInv, Placed, Message
<1>4. m.id \in Nat /\ n.id \in Nat /\ m.urgent \in BOOLEAN /\ n.urgent \in BOOLEAN
  BY <1>2 DEF Message
<1>5. CASE m.urgent /\ n.urgent
  BY <1>1, <1>3, <1>4, <1>5
<1>6. CASE ~m.urgent
  BY <1>1, <1>3, <1>4, <1>6
<1>7. QED BY <1>5, <1>6

LEMMA TakeDelivers ==
    ASSUME QueueInv, NEW limit \in Nat, NEW locking \in LockingModes,
           Take(limit, locking)
    PROVE  Promise!Deliver
<1> DEFINE batch == Front(limit)
<1>1. /\ input_data' = input_data \ batch
      /\ taken' = taken \cup batch
      /\ batch \subseteq input_data
      /\ cancelled' = cancelled /\ posted' = posted
  BY DEF Take, Front
<1>2. Letters(input_data') = Letters(input_data) \ Letters(batch)
  BY <1>1, LettersOfDifference DEF QueueInv, Numbered
<1>3. Letters(batch) \subseteq Letters(input_data)
  BY <1>1 DEF Letters
<1>4. Letters(taken') = Letters(taken) \cup (Letters(input_data) \ Letters(input_data'))
  BY <1>1, <1>2, <1>3, LettersOfUnion
<1>5. \A m \in Letters(input_data) \ Letters(input_data'), n \in Letters(input_data') :
          Promise!Precedes(m, n)
  <2>1. SUFFICES ASSUME NEW k \in batch, NEW l \in input_data \ batch
                 PROVE  Promise!Precedes(
                          [id |-> k.id, key |-> k.key, urgent |-> k.urgent],
                          [id |-> l.id, key |-> l.key, urgent |-> l.urgent])
    BY <1>1, <1>2, <1>3 DEF Letters
  <2>2. QED BY BatchPrecedes DEF Promise!Precedes
<1>6. Letters(cancelled') = Letters(cancelled)
  BY <1>1
<1>7. QED BY <1>1, <1>2, <1>4, <1>5, <1>6 DEF Promise!Deliver

LEMMA CancelWithdraws ==
    ASSUME QueueInv, NEW key \in Keys, RemoveInputKey(key)
    PROVE  Promise!Withdraw
<1>1. /\ input_data' = input_data \ WithKey(key)
      /\ cancelled' = cancelled \cup WithKey(key)
      /\ WithKey(key) \subseteq input_data
      /\ taken' = taken /\ posted' = posted
  BY DEF RemoveInputKey, WithKey
<1>2. Letters(input_data') = Letters(input_data) \ Letters(WithKey(key))
  BY <1>1, LettersOfDifference DEF QueueInv, Numbered
<1>3. Letters(input_data') = {m \in Letters(input_data) : m.key # key}
  BY <1>1 DEF Letters, WithKey
<1>4. Letters(cancelled') =
          Letters(cancelled) \cup (Letters(input_data) \ Letters(input_data'))
  <2>1. Letters(WithKey(key)) \subseteq Letters(input_data)
    BY <1>1 DEF Letters
  <2>2. QED BY <1>1, <1>2, <2>1, LettersOfUnion
<1>5. QED BY <1>1, <1>3, <1>4 DEF Promise!Withdraw

LEMMA AddPosts ==
    ASSUME QueueInv, QueueAssumption,
           NEW count \in 1 .. MaxBatch, NEW key \in Keys, NEW urgent \in BOOLEAN,
           AddInput(count, key, urgent)
    PROVE  Promise!Post
<1> DEFINE new == {Node(i, key, urgent) : i \in posted + 1 .. posted + count}
<1>1. /\ posted' = posted + count /\ posted \in Nat /\ count \in Nat /\ count > 0
      /\ input_data' = input_data \cup new
      /\ taken' = taken /\ cancelled' = cancelled
  BY DEF AddInput, QueueInv, QueueTypeOK, QueueAssumption
<1>2. Letters(new) =
          {[id |-> i, key |-> key, urgent |-> urgent] : i \in posted + 1 .. posted'}
  <2>1. \A i : /\ Node(i, key, urgent).id = i
               /\ Node(i, key, urgent).key = key
               /\ Node(i, key, urgent).urgent = urgent
    BY DEF Node
  <2>2. Letters(new) =
            {[id |-> i, key |-> key, urgent |-> urgent] : i \in posted + 1 .. posted + count}
    BY <2>1 DEF Letters
  <2>3. QED BY <1>1, <2>2
<1>3. Letters(input_data') = Letters(input_data) \cup Letters(new)
  BY <1>1, LettersOfUnion
<1>4. /\ posted' \in Nat /\ posted' > posted
      /\ Letters(input_data)' = Letters(input_data) \cup
             {[id |-> i, key |-> key, urgent |-> urgent] : i \in posted + 1 .. posted'}
  <2>1. posted' \in Nat /\ posted' > posted
    BY <1>1
  <2>2. Letters(input_data)' = Letters(input_data')
    BY DEF Letters
  <2>3. QED BY <1>2, <1>3, <2>1, <2>2
<1>5. UNCHANGED <<Letters(taken), Letters(cancelled)>>
  BY <1>1 DEF Letters
<1>6. QED BY <1>4, <1>5 DEF Promise!Post

LEMMA StepImplements ==
    ASSUME QueueInv, [QueueNext]_queueVars
    PROVE  [Promise!Next]_(Promise!mailboxVars)
<1> USE QueueAssumption
<1>1. CASE Post
  BY <1>1, AddPosts DEF Post, Promise!Next
<1>2. CASE Cancel
  BY <1>2, CancelWithdraws DEF Cancel, Promise!Next
<1>3. CASE taken' # taken
  BY <1>3, HandOver, TakeDelivers DEF Promise!Next
<1>4. CASE UNCHANGED <<input_data, taken, cancelled, posted>>
  BY <1>4 DEF Promise!mailboxVars, Letters
<1>5. CASE taken' = taken /\ (Get \/ Retry)
  <2>1. CASE \E limit \in Nat, locking \in LockingModes : Take(limit, locking)
    BY <2>1, TakeDelivers DEF Promise!Next
  <2>2. CASE \E limit \in Limits, locking \in Lockings : FoundEmpty(limit, locking)
    BY <2>2, <1>4 DEF FoundEmpty, history
  <2>3. QED
    BY <1>5, <2>1, <2>2 DEF Get, GetInputAll, Retry, QueueInv, QueueTypeOK, LockingModes,
       QueueAssumption
<1>6. QED
  BY <1>1, <1>2, <1>3, <1>4, <1>5 DEF QueueNext, WorkerStep, Wait, Timeout, SpuriousWakeup,
     GetInputSemaphore, SemaphoreSocketRead, history, queueVars

\* Whatever the interleaving of posters, cancellations, waits and wake-ups, the
\* queue behaves as the abstract mailbox.
THEOREM QueueImplementsMailbox == QueueSpec => ImplementsMailbox
<1>1. QueueInit => Promise!Init
  BY DEF QueueInit, Promise!Init, Letters
<1>2. QED
  BY <1>1, StepImplements, QueueInvariant, PTL DEF QueueSpec, ImplementsMailbox
================================================================================
