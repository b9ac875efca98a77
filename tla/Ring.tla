-------------------------------- MODULE Ring --------------------------------
(***************************************************************************)
(* The cluster ring: one QuerySyncWorker per node, each sending what its   *)
(* node changed to the next node of the ring (TinDB.con, class             *)
(* QuerySyncWorker), together with the part of StorageWorker that executes *)
(* an update that came from the ring and hands it on.                      *)
(*                                                                         *)
(* Node n sends to Next(n) and stops for the 3-byte answer after every     *)
(* frame.  A frame is one update, or a Bulk of the updates one batch of    *)
(* the input queue held.  While it waits for the answer a node keeps       *)
(* polling its sockets, and may acknowledge frames of its own predecessor. *)
(*                                                                         *)
(* Abstractions.  All updates are "U" queries of full objects on the same  *)
(* object, which every node has.  The query workers and the storage      *)
(* worker behind each are one queue; the forward and the reply a storage   *)
(* worker posts are one step.  A batch stays under MAX_OP_SIZE / 2.  The   *)
(* sync journal is the list notSynced itself: it is written as that list   *)
(* changes and read back by the same key, so a restart restores it.        *)
(***************************************************************************)
EXTENDS Integers, Sequences, FiniteSets, SequencesExt

CONSTANTS N,            \* the nodes of the ring
          Writers,      \* the nodes whose clients update the object
          Workers,      \* QueryWorkers of a node
          MaxUpdates,   \* bound: updates the clients make
          MaxClock,     \* bound: the last second of the shared clock
          MaxFails,     \* bound: broken or timed out connections
          MaxCrashes,   \* bound: crashes of a node
          DiesAnswering \* whether a node may die between an answer and its journal

ASSUME RingAssumption ==
    /\ N \in Nat \ {0, 1}
    /\ Workers \in Nat \ {0}
    /\ Writers \subseteq 0..(N - 1)
    /\ MaxUpdates \in Nat /\ MaxClock \in Nat
    /\ MaxFails \in Nat /\ MaxCrashes \in Nat
    /\ DiesAnswering \in BOOLEAN

VARIABLES
    pc,             \* where the loop of QuerySyncWorker is
    inbox,          \* the worker's input queue: updates to send, replies to confirm
    notSynced,      \* NotSynced: frames for the next node, oldest first
    conn,           \* the number of the connection to the next node
    waiting,        \* a frame is sent and its answer awaited
    wire,           \* frames sent by a node and not read, with their connection
    answer,         \* "\x02OK" is on its way back on the current connection
    notWritten,     \* NotWritten: frames received and not executed
    notConfirmed,   \* NotConfirmed: updates executed, their reply awaited
    localJournal,   \* the frames the "syncwrite" journal holds with flag 1
    turn,           \* QueryWorkerIndex
    jobs,           \* updates at each query worker
    store,          \* the object: the update that wrote it and its $v
    clock,          \* TinDBOid's time
    made,           \* history: when and where each update was made
    logged,         \* history: updates a node has taken on to send
    acked,          \* history: updates a node has acknowledged
    done,           \* history: updates a node's storage has handled
    fails, crashes

workerVars == <<pc, inbox, notSynced, notWritten, notConfirmed, localJournal, turn>>
linkVars == <<conn, waiting, wire, answer, fails>>
storeVars == <<jobs, store, clock, made, done>>
vars == <<workerVars, linkVars, storeVars, logged, acked, crashes>>

Nodes == 0..(N - 1)
Next(n) == (n + 1) % N
Prev(n) == (n + N - 1) % N
Distance(o, n) == (n + N - o) % N

UpdateIds == 1..MaxUpdates
Version == [time : 0..MaxClock, server : Nodes]
NoVersion == [time |-> -1, server |-> -1]
Versions == Version \cup {NoVersion}

(* A query as the ring carries it: what it writes, where it comes from     *)
(* (origp) and the version it carries (Q.version).                         *)
Query == [update : UpdateIds, origin : Nodes, version : Versions]
Reply(q) == [kind |-> "R", query |-> q]
Forward(q) == [kind |-> "Q", query |-> q]
Item == [kind : {"R", "Q"}, query : Query]

Init ==
    /\ pc = [n \in Nodes |-> "poll"]
    /\ inbox = [n \in Nodes |-> << >>]
    /\ notSynced = [n \in Nodes |-> << >>]
    /\ conn = [n \in Nodes |-> 0]
    /\ waiting = [n \in Nodes |-> FALSE]
    /\ wire = [n \in Nodes |-> << >>]
    /\ answer = [n \in Nodes |-> FALSE]
    /\ notWritten = [n \in Nodes |-> << >>]
    /\ notConfirmed = [n \in Nodes |-> << >>]
    /\ localJournal = [n \in Nodes |-> << >>]
    /\ turn = [n \in Nodes |-> 1]
    /\ jobs = [n \in Nodes |-> [w \in 1..Workers |-> << >>]]
    /\ store = [n \in Nodes |-> [update |-> 0, version |-> NoVersion]]
    /\ clock = 0
    /\ made = << >>
    /\ logged = [n \in Nodes |-> {}]
    /\ acked = [n \in Nodes |-> {}]
    /\ done = [n \in Nodes |-> {}]
    /\ fails = 0
    /\ crashes = 0

-----------------------------------------------------------------------------
(* The storage worker *)

Tick ==
    /\ clock < MaxClock
    /\ clock' = clock + 1
    /\ UNCHANGED <<workerVars, linkVars, jobs, store, made, done, logged, acked, crashes>>

Now(n) == [time |-> clock, server |-> n]

(* A client's update: the object gets a version of this node, and a new Q  *)
(* with the whole object goes to the sync worker.  FullObjectCache copies  *)
(* the fields of the query but not its version; origp is set by the sync   *)
(* worker when the query has none.                                         *)
ClientUpdate(n) ==
    /\ n \in Writers
    /\ Len(made) < MaxUpdates
    /\ LET u == Len(made) + 1 IN
       /\ made' = Append(made, [time |-> clock, server |-> n])
       /\ store' = [store EXCEPT ![n] = [update |-> u, version |-> Now(n)]]
       /\ inbox' = [inbox EXCEPT ![n] =
            Append(@, Forward([update |-> u, origin |-> n, version |-> NoVersion]))]
       /\ done' = [done EXCEPT ![n] = @ \cup {u}]
    /\ UNCHANGED <<pc, notSynced, notWritten, notConfirmed, localJournal, turn,
                   linkVars, jobs, clock, logged, acked, crashes>>

(* MakeSafe, which Execute applies to every query of the ring, resets the  *)
(* version; origp is put back.  A job below is the query as it was         *)
(* received, whose hash its reply will name.                               *)
MakeSafe(q) == [q EXCEPT !.version = NoVersion]

(* The version the update is executed with: its own, or one made here.     *)
VersionOf(q, n) == IF q.version = NoVersion THEN Now(n) ELSE q.version

(* Mutant: an object of the same second counts as newer, whoever wrote it. *)
CheckVersion_SameSecond(object, version) ==
    object # NoVersion /\ version.time <= object.time

(* CheckVersion: the object is newer, and its version another server's.    *)
CheckVersion(object, version) ==
    /\ object # NoVersion
    /\ version.time < object.time
    /\ version.server # object.server

(* An update of the ring: ignored when older, otherwise written and handed *)
(* on with the version it was executed with.  Its reply goes back to the   *)
(* sync worker either way.                                                 *)
ExecuteUpdate(n, w) ==
    /\ jobs[n][w] # << >>
    /\ LET q == Head(jobs[n][w])
           v == VersionOf(MakeSafe(q), n)
           older == CheckVersion(store[n].version, v)
           forward == IF older THEN << >> ELSE <<Forward([q EXCEPT !.version = v])>>
       IN
       /\ jobs' = [jobs EXCEPT ![n][w] = Tail(@)]
       /\ done' = [done EXCEPT ![n] = @ \cup {q.update}]
       /\ store' = [store EXCEPT ![n] =
            IF older THEN @ ELSE [update |-> q.update, version |-> v]]
       /\ inbox' = [inbox EXCEPT ![n] = @ \o forward \o <<Reply(q)>>]
    /\ UNCHANGED <<pc, notSynced, notWritten, notConfirmed, localJournal, turn,
                   linkVars, clock, made, logged, acked, crashes>>

-----------------------------------------------------------------------------
(* The loop of the sync worker *)

(* The members of a sequence at some positions, in their order.  It stands *)
(* for SelectSeq, whose definition a proof cannot expand.                  *)
Kept(s, positions) ==
    FlattenSeq([i \in 1..Len(s) |-> IF i \in positions THEN <<s[i]>> ELSE << >>])

Queries(items, kind) ==
    FlattenSeq([i \in 1..Len(items) |->
                  IF items[i].kind = kind THEN <<items[i].query>> ELSE << >>])

UpdatesOf(frame) == {frame[i].update : i \in 1..Len(frame)}

(* Mutant: one reply is confirmed per batch.                               *)
Unconfirmed_FirstReply(waitingFor, replies) ==
    Kept(waitingFor, {i \in 1..Len(waitingFor) :
                        replies = << >> \/ Head(replies) # waitingFor[i]})

(* ConfirmMessage, once for every reply of a batch: each removes the       *)
(* updates with its hash, and the journal is reset whenever none is left.  *)
Unconfirmed(waitingFor, replies) ==
    Kept(waitingFor, {i \in 1..Len(waitingFor) : waitingFor[i] \notin Range(replies)})

(* PendingAll takes the whole input queue.  What is to be sent becomes one *)
(* frame, a Bulk when there is more than one.                              *)
TakeBatch(n) ==
    /\ pc[n] = "poll"
    /\ inbox[n] # << >>
    /\ LET replies == Queries(inbox[n], "R")
           updates == Queries(inbox[n], "Q")
           left == Unconfirmed(notConfirmed[n], replies)
       IN
       /\ notConfirmed' = [notConfirmed EXCEPT ![n] = left]
       /\ localJournal' = IF replies # << >> /\ left = << >>
                          THEN [localJournal EXCEPT ![n] = << >>]
                          ELSE localJournal
       /\ \/ /\ updates = << >>
             /\ pc' = [pc EXCEPT ![n] = IF notSynced[n] = << >> THEN "write" ELSE "sync"]
             /\ UNCHANGED <<notSynced, logged>>
          \/ /\ updates # << >>
             /\ notSynced' = [notSynced EXCEPT ![n] = Append(@, updates)]
             /\ pc' = [pc EXCEPT ![n] = "notify"]
             /\ logged' = [logged EXCEPT ![n] = @ \cup UpdatesOf(updates)]
    /\ inbox' = [inbox EXCEPT ![n] = << >>]
    /\ UNCHANGED <<notWritten, turn, linkVars, storeVars, acked, crashes>>

(* An iteration without input still tries to send and to execute.          *)
NoBatch(n) ==
    /\ pc[n] = "poll"
    /\ inbox[n] = << >>
    /\ notSynced[n] # << >> \/ notWritten[n] # << >>
    /\ pc' = [pc EXCEPT ![n] = IF notSynced[n] = << >> THEN "write" ELSE "sync"]
    /\ UNCHANGED <<inbox, notSynced, notWritten, notConfirmed, localJournal, turn,
                   linkVars, storeVars, logged, acked, crashes>>

(* NotifyNeighbours ends with a Sync, and the loop makes another, which    *)
(* has nothing to do unless the first one failed.  WriteSync is next.      *)
AfterFailure(n) == IF pc[n] = "sync" THEN "write" ELSE "sync"

Syncing(n) == pc[n] \in {"notify", "sync"}

SendFrame(n) ==
    /\ Syncing(n) /\ ~waiting[n]
    /\ notSynced[n] # << >>
    /\ wire' = [wire EXCEPT ![n] =
         Append(@, [frame |-> Head(notSynced[n]), conn |-> conn[n]])]
    /\ waiting' = [waiting EXCEPT ![n] = TRUE]
    /\ UNCHANGED <<workerVars, conn, answer, fails, storeVars, logged, acked, crashes>>

(* Mutant: whether it was the last frame is asked before it is taken out.  *)
FrameAcknowledged_AsksFirst(n) ==
    /\ waiting[n] /\ answer[n]
    /\ pc' = [pc EXCEPT ![n] = IF notSynced[n] = << >> THEN "write" ELSE @]
    /\ notSynced' = [notSynced EXCEPT ![n] = Tail(@)]
    /\ waiting' = [waiting EXCEPT ![n] = FALSE]
    /\ answer' = [answer EXCEPT ![n] = FALSE]
    /\ UNCHANGED <<inbox, notWritten, notConfirmed, localJournal, turn,
                   conn, wire, fails, storeVars, logged, acked, crashes>>

(* The answer was read: the frame is logged as sent and the next one taken.*)
FrameAcknowledged(n) ==
    /\ waiting[n] /\ answer[n]
    /\ notSynced' = [notSynced EXCEPT ![n] = Tail(@)]
    /\ waiting' = [waiting EXCEPT ![n] = FALSE]
    /\ answer' = [answer EXCEPT ![n] = FALSE]
    /\ pc' = [pc EXCEPT ![n] =
         IF Tail(notSynced[n]) = << >> THEN "write" ELSE @]
    /\ UNCHANGED <<inbox, notWritten, notConfirmed, localJournal, turn,
                   conn, wire, fails, storeVars, logged, acked, crashes>>

(* Mutants: the frame that failed is dropped, or put behind the others.    *)
KeptAfterFailure_Dropped(frames) == Tail(frames)
KeptAfterFailure_Behind(frames) == Append(Tail(frames), Head(frames))

(* What is left of NotSynced when a frame could not be sent.               *)
KeptAfterFailure(frames) == frames

(* The socket is removed: the frame and all after it stay in NotSynced for *)
(* the next Sync, which makes a new connection.                            *)
DropConnection(n) ==
    /\ notSynced' = [notSynced EXCEPT ![n] = KeptAfterFailure(@)]
    /\ conn' = [conn EXCEPT ![n] = @ + 1]
    /\ waiting' = [waiting EXCEPT ![n] = FALSE]
    /\ answer' = [answer EXCEPT ![n] = FALSE]
    /\ pc' = [pc EXCEPT ![n] = AfterFailure(n)]
    /\ UNCHANGED <<inbox, notWritten, notConfirmed, localJournal, turn, wire,
                   storeVars, logged, acked, crashes>>

(* The connection cannot be made, or breaks, or the next node is too slow. *)
SendFails(n) ==
    /\ Syncing(n)
    /\ notSynced[n] # << >>
    /\ fails < MaxFails
    /\ fails' = fails + 1
    /\ DropConnection(n)

(* The answer cannot come any more: the frame was lost with the next node. *)
AnswerTimesOut(n) ==
    /\ waiting[n] /\ ~answer[n]
    /\ \A i \in 1..Len(wire[n]) : wire[n][i].conn # conn[n]
    /\ DropConnection(n)
    /\ UNCHANGED fails

(* Mutant: a node does not read while it waits for an answer itself.       *)
Polls_Idle(m) == pc[m] = "poll"

(* PollSockets runs at the top of the loop and while an answer is awaited. *)
Polls(m) == pc[m] = "poll" \/ waiting[m]

(* Dispatch: node m reads the next frame of its predecessor, answers, logs *)
(* the frame as it was received and keeps it for WriteSync.  The answer    *)
(* reaches the predecessor if it is still on that connection.              *)
Dispatch(m) ==
    LET n == Prev(m) IN
    /\ Polls(m)
    /\ wire[n] # << >>
    /\ LET frame == Head(wire[n]).frame IN
       /\ wire' = [wire EXCEPT ![n] = Tail(@)]
       /\ answer' = [answer EXCEPT ![n] =
            @ \/ (waiting[n] /\ Head(wire[n]).conn = conn[n])]
       /\ localJournal' = [localJournal EXCEPT ![m] = Append(@, frame)]
       /\ notWritten' = [notWritten EXCEPT ![m] =
            Append(@, [frame |-> frame, packed |-> FALSE])]
       /\ acked' = [acked EXCEPT ![m] = @ \cup UpdatesOf(frame)]
    /\ UNCHANGED <<pc, inbox, notSynced, notConfirmed, turn, conn, waiting, fails,
                   storeVars, logged, crashes>>

(* A frame of a connection its sender has given up: the connection is      *)
(* reset, or replaced by AddSocket, or the answer cannot be written.       *)
FrameLost(m) ==
    LET n == Prev(m) IN
    /\ wire[n] # << >>
    /\ Head(wire[n]).conn # conn[n]
    /\ wire' = [wire EXCEPT ![n] = Tail(@)]
    /\ UNCHANGED <<workerVars, conn, waiting, answer, fails, storeVars, logged, acked, crashes>>

(* Mutant: only the first update of a Bulk is executed.                    *)
ToExecute_BulkHead(n, received) ==
    LET firsts == [i \in 1..Len(received) |-> Head(received[i].frame)]
    IN  Kept(firsts, {i \in 1..Len(firsts) : firsts[i].origin # n})

(* The updates of the received frames that Execute posts.  A frame read    *)
(* back from the journal is still compressed: it is no object, and nothing *)
(* is executed.  An update of this node has come full circle.              *)
ToExecute(n, received) ==
    LET all == FlattenSeq([i \in 1..Len(received) |->
                 IF received[i].packed THEN << >> ELSE received[i].frame])
    IN  Kept(all, {i \in 1..Len(all) : all[i].origin # n})

(* Mutant: the index of the query workers is not wrapped.                  *)
WorkerFor_NoWrap(n, i) == turn[n] + i - 1

(* The i-th posted update goes to the query worker after the (i-1)-th's.   *)
WorkerFor(n, i) == ((turn[n] + i - 2) % Workers) + 1

PostAll(n, queries) ==
    [w \in 1..Workers |->
       jobs[n][w] \o Kept(queries, {i \in 1..Len(queries) : WorkerFor(n, i) = w})]

(* A frame that was read back is logged with flag 3 as it stands, which    *)
(* cancels it; the flag 3 record of any other frame is of the uncompressed *)
(* data, whose key no flag 1 record has.                                   *)
StillLogged(log, received) ==
    Kept(log, {i \in 1..Len(log) : \A j \in 1..Len(received) :
                 ~(received[j].packed /\ received[j].frame = log[i])})

WriteSync(n) ==
    /\ pc[n] = "write"
    /\ LET queries == ToExecute(n, notWritten[n])
           unconfirmed == notConfirmed[n] \o queries
       IN
       /\ jobs' = [jobs EXCEPT ![n] = PostAll(n, queries)]
       /\ turn' = [turn EXCEPT ![n] = WorkerFor(n, Len(queries) + 1)]
       /\ notConfirmed' = [notConfirmed EXCEPT ![n] = unconfirmed]
       /\ localJournal' = [localJournal EXCEPT ![n] =
            IF unconfirmed = << >> THEN << >> ELSE StillLogged(@, notWritten[n])]
    /\ notWritten' = [notWritten EXCEPT ![n] = << >>]
    /\ pc' = [pc EXCEPT ![n] = "poll"]
    /\ UNCHANGED <<inbox, notSynced, linkVars, store, clock, made, done,
                   logged, acked, crashes>>

(* The constructor: NotSynced and NotWritten are what the journals hold.   *)
LoadJournal(log) == [i \in 1..Len(log) |-> [frame |-> log[i], packed |-> TRUE]]

(* The server of a node dies and is started again.  Its connections end,   *)
(* its predecessor's with the frames that were not read.                   *)
Restart(n) ==
    /\ crashes < MaxCrashes
    /\ crashes' = crashes + 1
    /\ inbox' = [inbox EXCEPT ![n] = << >>]
    /\ jobs' = [jobs EXCEPT ![n] = [w \in 1..Workers |-> << >>]]
    /\ notConfirmed' = [notConfirmed EXCEPT ![n] = << >>]
    /\ notWritten' = [notWritten EXCEPT ![n] = LoadJournal(localJournal[n])]
    /\ turn' = [turn EXCEPT ![n] = 1]
    /\ pc' = [pc EXCEPT ![n] = "poll"]
    /\ conn' = [conn EXCEPT ![n] = @ + 1]
    /\ waiting' = [waiting EXCEPT ![n] = FALSE]
    /\ wire' = [wire EXCEPT ![Prev(n)] = << >>]
    /\ UNCHANGED <<notSynced, localJournal, fails, store, clock, made, done, logged>>

Crash(n) ==
    /\ Restart(n)
    /\ answer' = [answer EXCEPT ![n] = FALSE]
    /\ UNCHANGED acked

(* It dies in the middle of Dispatch: the answer is written, the frame not *)
(* logged yet.                                                             *)
CrashAnswered(m) ==
    LET n == Prev(m) IN
    /\ DiesAnswering
    /\ Polls(m)
    /\ wire[n] # << >>
    /\ Restart(m)
    /\ answer' = [answer EXCEPT ![m] = FALSE,
         ![n] = @ \/ (waiting[n] /\ Head(wire[n]).conn = conn[n])]
    /\ acked' = [acked EXCEPT ![m] = @ \cup UpdatesOf(Head(wire[n]).frame)]

SyncStep(n) ==
    \/ TakeBatch(n) \/ NoBatch(n)
    \/ SendFrame(n) \/ FrameAcknowledged(n) \/ AnswerTimesOut(n)
    \/ WriteSync(n)

Step ==
    \/ Tick
    \/ \E n \in Nodes :
         \/ ClientUpdate(n)
         \/ SyncStep(n)
         \/ SendFails(n)
         \/ Dispatch(n)
         \/ FrameLost(n)
         \/ Crash(n)
         \/ CrashAnswered(n)
         \/ \E w \in 1..Workers : ExecuteUpdate(n, w)

Spec == Init /\ [][Step]_vars

(* The loop of each sync worker runs: it never waits for longer than a     *)
(* second, for its queue or its sockets, and its poll hands out every      *)
(* readable socket.  Nothing is assumed of ExecuteUpdate: a storage worker *)
(* and a query worker without sockets wait without a limit and may sleep   *)
(* beside their messages (EveryPostTaken of WorkerQueue fails for such a   *)
(* wait).  Clients, the clock and failures are not obliged to happen.      *)
Fairness ==
    \A n \in Nodes :
        /\ WF_vars(SyncStep(n))
        /\ WF_vars(Dispatch(n))

FairSpec == Spec /\ Fairness

-----------------------------------------------------------------------------
(* Properties *)

IsFrame(f) == f \in Seq(Query) /\ f # << >>

(* Type correctness of the state of every node and of every link.          *)
TypeOK ==
    /\ pc \in [Nodes -> {"poll", "notify", "sync", "write"}]
    /\ clock \in 0..MaxClock
    /\ fails \in 0..MaxFails /\ crashes \in 0..MaxCrashes
    /\ made \in Seq([time : 0..MaxClock, server : Writers])
    /\ \A n \in Nodes :
        /\ inbox[n] \in Seq(Item)
        /\ notConfirmed[n] \in Seq(Query)
        /\ \A i \in 1..Len(notSynced[n]) : IsFrame(notSynced[n][i])
        /\ \A i \in 1..Len(localJournal[n]) : IsFrame(localJournal[n][i])
        /\ \A i \in 1..Len(wire[n]) :
             IsFrame(wire[n][i].frame) /\ wire[n][i].conn \in 0..conn[n]
        /\ \A i \in 1..Len(notWritten[n]) :
             IsFrame(notWritten[n][i].frame) /\ notWritten[n][i].packed \in BOOLEAN
        /\ \A w \in 1..Workers : jobs[n][w] \in Seq(Query)
        /\ turn[n] \in 1..Workers
        /\ waiting[n] \in BOOLEAN /\ answer[n] \in BOOLEAN
        /\ store[n] \in [update : 0..MaxUpdates, version : Versions]
        /\ logged[n] \subseteq UpdateIds
        /\ acked[n] \subseteq UpdateIds
        /\ done[n] \subseteq UpdateIds

Issued == 1..Len(made)

InFrames(u, frames) == \E i \in 1..Len(frames) : u \in UpdatesOf(frames[i])

(* An update a node has received and not executed. *)
ToBeExecuted(u, n) ==
    \/ \E i \in 1..Len(notWritten[n]) : u \in UpdatesOf(notWritten[n][i].frame)
    \/ \E w \in 1..Workers : u \in UpdatesOf(jobs[n][w])

(* An update a node will still send to the next one. *)
ToBeSent(u, n) ==
    \/ u \in UpdatesOf(Queries(inbox[n], "Q"))
    \/ InFrames(u, notSynced[n])

(* A node lets go of an update only when the next node has it: across      *)
(* broken connections and restarts, what was once logged in the sync       *)
(* journal is still to be sent, or has been received.                      *)
SentUntilReceived ==
    \A n \in Nodes : \A u \in logged[n] :
        InFrames(u, notSynced[n]) \/ u \in acked[Next(n)]

(* What a node has acknowledged is not lost: it is executed, or waits to   *)
(* be.  The sender has forgotten it, so nobody else could bring it again.  *)
AckedNotLost ==
    \A n \in Nodes : \A u \in acked[n] :
        made[u].server # n => u \in done[n] \/ ToBeExecuted(u, n)

(* Every update reaches every node: if a node has not executed it, it is   *)
(* waiting there, or on some node between its origin and this one.  Broken *)
(* connections, repeated frames and Bulks lose nothing, and no node keeps  *)
(* an update it takes for older from the next one.  A crash does lose some *)
(* of them: the input queue of the sync worker is in no journal.           *)
NothingLost ==
    crashes = 0 => \A u \in Issued : \A n \in Nodes :
        LET o == made[u].server IN
        \/ u \in done[n]
        \/ n # o /\ ToBeExecuted(u, n)
        \/ \E k \in Nodes :
             /\ Distance(o, k) < Distance(o, n)
             /\ \/ ToBeSent(u, k)
                \/ k # o /\ ToBeExecuted(u, k)

(* The next node receives the updates of a client's node in the order they *)
(* were made there, whatever connections break in between: no update is    *)
(* received before an older one that node had taken on to send.            *)
LinkKeepsOrder ==
    \A o \in Nodes : \A u, v \in Issued :
        /\ u < v /\ made[u].server = o /\ made[v].server = o
        /\ u \in logged[o]
        /\ v \in acked[Next(o)]
        => u \in acked[Next(o)]

(* An update waits for its confirmation only while a worker has it or its  *)
(* reply is on the way: the local journal cannot keep it for ever.         *)
ConfirmationsComing ==
    \A n \in Nodes : \A i \in 1..Len(notConfirmed[n]) :
        LET q == notConfirmed[n][i] IN
        \/ \E w \in 1..Workers : \E j \in 1..Len(jobs[n][w]) : jobs[n][w][j] = q
        \/ Reply(q) \in Range(inbox[n])

(* An update received from the ring never replaces what a later update of  *)
(* another server wrote (the purpose of CheckVersion).                     *)
OlderIgnored ==
    [][\A n \in Nodes :
         LET before == store[n].update
             after == store'[n].update
         IN  (before # 0 /\ after \in Issued /\ after # before) =>
               ~ /\ made[after].time < made[before].time
                 /\ made[after].server # made[before].server]_vars

HeldByWorker(q, n) == \E w \in 1..Workers : q \in Range(jobs[n][w])

AtRest ==
    \A n \in Nodes :
        /\ pc[n] = "poll" /\ ~waiting[n]
        /\ inbox[n] = << >> /\ notSynced[n] = << >>
        /\ wire[n] = << >> /\ notWritten[n] = << >>
        /\ \A q \in Range(notConfirmed[n]) : HeldByWorker(q, n)

(* No update goes round for ever, and nodes that all wait for an answer    *)
(* still answer each other: with no more client updates the sync workers   *)
(* come to rest, every frame acknowledged and handed out, and no update    *)
(* unconfirmed but those that a sleeping worker has not taken.             *)
RingComesToRest == <>[]AtRest
=============================================================================
