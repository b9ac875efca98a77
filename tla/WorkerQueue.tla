------------------------------ MODULE WorkerQueue ------------------------------
(******************************************************************************)
(* The input queue of one worker thread: the class ThreadMetaContainer of     *)
(* modules/standard.lib.thread/src/main.cpp with the SimpleQueue, CondWait    *)
(* and eventfd it owns.  Any thread may post (AddInput, AddWorkerDataAll) or  *)
(* cancel (RemoveInputKey); only the worker itself takes (GetInput,           *)
(* GetInputAll) and reads the semaphore.                                      *)
(*                                                                            *)
(* Every critical section of input_lock is one action: whatever it touches is *)
(* only touched under that lock.  What happens between two critical sections  *)
(* is not: a worker that found the queue empty releases input_lock before it  *)
(* enters pthread_cond_wait, and nothing tests the queue again in between.    *)
(*                                                                            *)
(* The linked list is the set of its nodes.  A node carries its place as a    *)
(* rank: push gives the highest rank so far, push_front the lowest.           *)
(******************************************************************************)
EXTENDS Integers, FiniteSets

CONSTANTS
    Keys,        \* keys a message can be posted with (the client's socket, or 0)
    Limits,      \* max_elements of the worker's calls; 0 is "no limit"
    Lockings,    \* waiting modes of the worker's calls, a subset of LockingModes
    MaxPosts,    \* bound: messages posted in a behaviour
    MaxBatch     \* bound: messages of one AddWorkerDataAll

LockingModes == {"none", "timed", "forever"}

ASSUME QueueAssumption ==
    /\ 0 \in Keys
    /\ Limits \subseteq Nat
    /\ Lockings \subseteq LockingModes
    /\ MaxPosts \in Nat
    /\ MaxBatch \in Nat

VARIABLES
    input_data,        \* the nodes of the linked list
    input_cond_wait,   \* "a taker may be waiting": set by the taker, read by posters
    semaphore_open,    \* the eventfd exists (GetWorkerInputSemaphore was called)
    semaphore,         \* the count of the eventfd
    pc,                \* where the worker is inside GetInput / GetInputAll
    call,              \* arguments of the call in progress
    result,            \* what the last finished call gave back: array and size
    posted,            \* number of messages posted so far (history)
    taken,             \* messages handed to the worker (history)
    cancelled          \* messages deleted by RemoveInputKey (history)

history   == <<posted, taken, cancelled>>
semvars   == <<semaphore_open, semaphore>>
queueVars == <<input_data, input_cond_wait, semaphore_open, semaphore, pc, call,
               result, posted, taken, cancelled>>

Message == [id : Nat, key : Keys, urgent : BOOLEAN, rank : Int]

--------------------------------------------------------------------------------
(* SimpleQueue.                                                               *)

\* Mutated forms: every node at the head, and priority not looked at.
Node_AllInFront(i, key, urgent) ==
    [id |-> i, key |-> key, urgent |-> urgent, rank |-> -i]
Node_NoPriority(i, key, urgent) ==
    [id |-> i, key |-> key, urgent |-> urgent, rank |-> i]

\* The i-th message posted, as SimpleQueue links it: push_front (priority > 0)
\* puts it before every node, push after every node.
Node(i, key, urgent) ==
    [id |-> i, key |-> key, urgent |-> urgent, rank |-> IF urgent THEN -i ELSE i]

Ahead(m) == {n \in input_data : n.rank < m.rank}

\* The first n nodes of the list; all of it when n is 0 (max_elements not given).
Front(n) == {m \in input_data : n = 0 \/ Cardinality(Ahead(m)) < n}

WithKey(key) == {m \in input_data : m.key = key}

\* Mutated form: the count taken without looking whether there is one.
Drained_Blind(count, k) == count - k

\* resetSemaphore, k times: a non-blocking read of an EFD_SEMAPHORE descriptor
\* takes one from the count and fails at zero.
Drained(count, k) == IF count > k THEN count - k ELSE 0

--------------------------------------------------------------------------------
(* Posting and cancelling: any thread.                                        *)

\* AddInput, and the AddInputNoLock loop of AddWorkerDataAll under one lock.
\* pthread_cond_signal wakes the worker only if it is already blocked.
AddInput(count, key, urgent) ==
    /\ posted + count <= MaxPosts
    /\ posted' = posted + count
    /\ input_data' = input_data \cup
                        {Node(i, key, urgent) : i \in posted + 1 .. posted + count}
    /\ pc' = IF input_cond_wait /\ pc = "blocked" THEN "woken" ELSE pc
    /\ semaphore' = IF semaphore_open THEN semaphore + count ELSE semaphore
    /\ UNCHANGED <<input_cond_wait, semaphore_open, call, result, taken, cancelled>>

\* Mutated form: the search stops at the first node of the key.
RemoveInputKey_First(key) ==
    \E m \in WithKey(key) :
        /\ \A n \in WithKey(key) : m.rank <= n.rank
        /\ input_data' = input_data \ {m}
        /\ cancelled' = cancelled \cup {m}
        /\ UNCHANGED <<input_cond_wait, semvars, pc, call, result, posted, taken>>

\* RemoveWorkerData: deletes the nodes of a key; the eventfd keeps its count.
RemoveInputKey(key) ==
    /\ WithKey(key) # {}
    /\ input_data' = input_data \ WithKey(key)
    /\ cancelled' = cancelled \cup WithKey(key)
    /\ UNCHANGED <<input_cond_wait, semvars, pc, call, result, posted, taken>>

--------------------------------------------------------------------------------
(* Taking: the worker's own thread.                                           *)

\* Mutated form: the limit is tested after one more node has been popped.
Take_PopsOneMore(limit, locking) ==
    /\ input_data # {} \/ locking = "none"
    /\ input_data' = input_data \ Front(IF limit = 0 THEN 0 ELSE limit + 1)
    /\ taken' = taken \cup Front(limit)
    /\ semaphore' = Drained(semaphore, Cardinality(Front(limit)))
    /\ result' = [data |-> Front(limit), size |-> Cardinality(input_data)]
    /\ input_cond_wait' = (input_cond_wait \/ locking # "none")
    /\ pc' = "running"
    /\ UNCHANGED <<semaphore_open, call, posted, cancelled>>

\* The critical section of GetInput (limit 1) and GetInputAll on a non-empty
\* queue, and on an empty one when the caller does not wait.
Take(limit, locking) ==
    /\ input_data # {} \/ locking = "none"
    /\ input_data' = input_data \ Front(limit)
    /\ taken' = taken \cup Front(limit)
    /\ semaphore' = Drained(semaphore, Cardinality(Front(limit)))
    /\ result' = [data |-> Front(limit), size |-> Cardinality(input_data)]
    /\ input_cond_wait' = (input_cond_wait \/ locking # "none")
    /\ pc' = "running"
    /\ UNCHANGED <<semaphore_open, call, posted, cancelled>>

\* Mutated form: the flag is raised only when there was something to take.
FoundEmpty_NoFlag(limit, locking) ==
    /\ input_data = {}
    /\ locking # "none"
    /\ call' = [limit |-> limit, locking |-> locking]
    /\ pc' = "unlocked"
    /\ UNCHANGED <<input_data, input_cond_wait, semvars, result, history>>

\* The same critical section when the queue is empty and the caller waits: the
\* flag is raised and the lock released, and only then does the worker wait.
FoundEmpty(limit, locking) ==
    /\ input_data = {}
    /\ locking # "none"
    /\ input_cond_wait' = TRUE
    /\ call' = [limit |-> limit, locking |-> locking]
    /\ pc' = "unlocked"
    /\ UNCHANGED <<input_data, semvars, result, history>>

GetInputAll(limit, locking) ==
    /\ pc = "running"
    /\ Take(limit, locking) \/ FoundEmpty(limit, locking)

GetInput(locking) == GetInputAll(1, locking)

\* pthread_cond_wait or pthread_cond_timedwait: the worker is blocked from here.
Wait ==
    /\ pc = "unlocked"
    /\ pc' = "blocked"
    /\ UNCHANGED <<input_data, input_cond_wait, semvars, call, result, history>>

\* Mutated form: the test of CondWait::wait on timeout_ms inverted.
Timeout_Inverted ==
    /\ pc = "blocked" /\ call.locking = "forever"
    /\ pc' = "woken"
    /\ UNCHANGED <<input_data, input_cond_wait, semvars, call, result, history>>

\* pthread_cond_timedwait returns ETIMEDOUT.
Timeout ==
    /\ pc = "blocked" /\ call.locking = "timed"
    /\ pc' = "woken"
    /\ UNCHANGED <<input_data, input_cond_wait, semvars, call, result, history>>

\* A wait may return without a signal; the code does not tell the difference.
SpuriousWakeup ==
    /\ pc = "blocked"
    /\ pc' = "woken"
    /\ UNCHANGED <<input_data, input_cond_wait, semvars, call, result, history>>

\* After the wait the call runs once more without waiting, and may return empty.
Retry == pc = "woken" /\ Take(call.limit, "none")

--------------------------------------------------------------------------------
(* The eventfd, polled by the workers that also serve sockets.                *)

GetInputSemaphore ==
    /\ pc = "running" /\ ~semaphore_open
    /\ semaphore_open' = TRUE
    /\ UNCHANGED <<input_data, input_cond_wait, semaphore, pc, call, result, history>>

SemaphoreSocketRead ==
    /\ pc = "running" /\ semaphore > 0
    /\ semaphore' = semaphore - 1
    /\ UNCHANGED <<input_data, input_cond_wait, semaphore_open, pc, call, result, history>>

--------------------------------------------------------------------------------
(* The container with an arbitrary worker and arbitrary posters.              *)

QueueInit ==
    /\ input_data = {}
    /\ input_cond_wait = FALSE
    /\ semaphore_open = FALSE
    /\ semaphore = 0
    /\ pc = "running"
    /\ call = [limit |-> 0, locking |-> "none"]
    /\ result = [data |-> {}, size |-> 0]
    /\ posted = 0
    /\ taken = {}
    /\ cancelled = {}

Post == \E count \in 1 .. MaxBatch, key \in Keys, urgent \in BOOLEAN :
            AddInput(count, key, urgent)

Cancel == \E key \in Keys : RemoveInputKey(key)

Get == \E limit \in Limits, locking \in Lockings : GetInputAll(limit, locking)

WorkerStep == Get \/ Wait \/ Retry

QueueNext ==
    \/ Post
    \/ Cancel
    \/ WorkerStep
    \/ Timeout
    \/ SpuriousWakeup
    \/ GetInputSemaphore
    \/ SemaphoreSocketRead

QueueSpec == QueueInit /\ [][QueueNext]_queueVars

\* The scheduler keeps running the worker, and a timed wait expires.  Nothing
\* obliges anyone to post, nor a wait to return spuriously.
QueueFairness == WF_queueVars(WorkerStep) /\ WF_queueVars(Timeout)

LiveQueueSpec == QueueSpec /\ QueueFairness

--------------------------------------------------------------------------------
(* What the queue promises.  A letter of the abstract mailbox is a node       *)
(* without its place in the list.                                             *)

Letters(S) == {[id |-> m.id, key |-> m.key, urgent |-> m.urgent] : m \in S}

Promise == INSTANCE Mailbox WITH
    pending <- Letters(input_data), delivered <- Letters(taken),
    withdrawn <- Letters(cancelled), count <- posted

\* Seen from its posters and its taker the queue is that mailbox: the waiting,
\* the batch limits and the places in the list change nothing of what is
\* delivered, in which order, or withdrawn.
ImplementsMailbox == Promise!Init /\ [][Promise!Next]_(Promise!mailboxVars)

--------------------------------------------------------------------------------
(* Properties.                                                                *)

QueueTypeOK ==
    /\ input_data \in SUBSET Message
    /\ IsFiniteSet(input_data)
    /\ input_cond_wait \in BOOLEAN
    /\ semaphore_open \in BOOLEAN
    /\ semaphore \in Nat
    /\ pc \in {"running", "unlocked", "blocked", "woken"}
    /\ call \in [limit : Nat, locking : LockingModes]
    /\ result \in [data : SUBSET Message, size : Nat]
    /\ posted \in Nat
    /\ taken \in SUBSET Message
    /\ cancelled \in SUBSET Message

Ids(S) == {m.id : m \in S}

\* Every message is in exactly one place: still queued, handed to the worker, or
\* cancelled.  None is lost by a batch limit or a cancellation, none is invented
\* and none is handed over twice.
Conservation ==
    /\ Ids(input_data) \cup Ids(taken) \cup Ids(cancelled) = 1 .. posted
    /\ Ids(input_data) \cap Ids(taken) = {}
    /\ Ids(input_data) \cap Ids(cancelled) = {}
    /\ Ids(taken) \cap Ids(cancelled) = {}

\* Messages of normal priority reach the worker in the order they were posted,
\* whoever posted them, whatever was cancelled or pushed in front meanwhile.
PostedOrder ==
    \A m \in taken, n \in input_data :
        ~m.urgent /\ ~n.urgent => m.id < n.id

\* A call that hands over a message of normal priority leaves no urgent one behind.
UrgentFirst ==
    [][\A m \in taken' \ taken :
          ~m.urgent => \A n \in input_data' : ~n.urgent]_queueVars

\* Posting to a worker that is already blocked wakes it: the flag the posters
\* test is up whenever the worker is in the wait.
PostWakesSleeper ==
    [][pc = "blocked" /\ ~(input_data' \subseteq input_data) => pc' # "blocked"]_queueVars

\* A worker whose waits have a timeout gets every message, or it is cancelled.
EveryPostTaken ==
    \A i \in 1 .. MaxPosts : (i <= posted) ~> (i \in Ids(taken \cup cancelled))
================================================================================
