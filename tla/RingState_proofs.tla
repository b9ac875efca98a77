--------------------------- MODULE RingState_proofs ---------------------------
(****************************************************************************)
(* What holds of the whole ring, for any number of nodes, workers, updates, *)
(* failures and crashes: type correctness, the order of the updates on a    *)
(* link, the confirmations a node waits for, and, while no node crashes,    *)
(* that no update is lost between its origin and any other node.            *)
(*                                                                          *)
(* The last is proved from what holds of one node and its successor: what a *)
(* node has executed it still has to send, or its successor has it, and what*)
(* a node has acknowledged it has executed or will.  Following an update    *)
(* from its origin to the first node that has not executed it finds where   *)
(* it waits.                                                                *)
(****************************************************************************)
EXTENDS Ring_proofs, Members_proofs

(* The queries the ring can carry: each names an update that was made, and  *)
(* the node it was made on.                                                 *)
Known == {q \in Query : q.update \in Issued /\ q.origin = made[q.update].server}
Foreign(n) == {q \in Known : q.origin # n}
Frames == {f \in Seq(Known) : f # << >>}

Items == [kind : {"R", "Q"}, query : Known]
Sent == [frame : Frames, conn : Nat]
Received == [frame : Frames, packed : BOOLEAN]

WorkerTypes ==
    /\ pc \in [Nodes -> {"poll", "notify", "sync", "write"}]
    /\ inbox \in [Nodes -> Seq(Items)]
    /\ notSynced \in [Nodes -> Seq(Frames)]
    /\ notWritten \in [Nodes -> Seq(Received)]
    /\ notConfirmed \in [Nodes -> Seq(Known)]
    /\ localJournal \in [Nodes -> Seq(Frames)]
    /\ turn \in [Nodes -> 1..Workers]

WireTypes ==
    /\ conn \in [Nodes -> Nat]
    /\ waiting \in [Nodes -> BOOLEAN]
    /\ wire \in [Nodes -> Seq(Sent)]
    /\ answer \in [Nodes -> BOOLEAN]
    /\ fails \in 0..MaxFails

StoreTypes ==
    /\ DOMAIN jobs = Nodes
    /\ \A n \in Nodes : jobs[n] \in [1..Workers -> Seq(Foreign(n))]
    /\ store \in [Nodes -> [update : 0..MaxUpdates, version : Versions]]
    /\ clock \in 0..MaxClock
    /\ made \in Seq([time : 0..MaxClock, server : Writers])
    /\ Len(made) <= MaxUpdates
    /\ done \in [Nodes -> SUBSET Issued]

HistoryTypes ==
    /\ logged \in [Nodes -> SUBSET Issued]
    /\ acked \in [Nodes -> SUBSET Issued]
    /\ crashes \in 0..MaxCrashes

RingTypes == WorkerTypes /\ WireTypes /\ StoreTypes /\ HistoryTypes

-----------------------------------------------------------------------------
(* The updates a node made itself wait in the order they were made. *)
Own(o) == {u \in Issued : made[u].server = o}

QueuedLater(o) ==
    \A u \in logged[o] \cap Own(o) :
        \A v \in UpdatesOf(Queries(inbox[o], "Q")) \cap Own(o) : u < v

FramesInOrder(o) ==
    \A i, j \in 1..Len(notSynced[o]) : i < j =>
        \A u \in UpdatesOf(notSynced[o][i]) \cap Own(o) :
            \A v \in UpdatesOf(notSynced[o][j]) \cap Own(o) : u < v

(* Only what was logged is sent, and only what was sent is received. *)
LoggedFirst(o) ==
    /\ \A i \in 1..Len(notSynced[o]) : UpdatesOf(notSynced[o][i]) \subseteq logged[o]
    /\ acked[Next(o)] \subseteq logged[o]

(* A frame on the way is the head still, or was received before. *)
HeadOrReceived(o) ==
    \A i \in 1..Len(wire[o]) :
        \/ notSynced[o] # << >> /\ wire[o][i].frame = Head(notSynced[o])
        \/ UpdatesOf(wire[o][i].frame) \subseteq acked[Next(o)]

ReceivedInOrder(o) ==
    \A u, v \in Own(o) :
        u < v /\ u \in logged[o] /\ v \in acked[Next(o)] => u \in acked[Next(o)]

OrderInv ==
    \A o \in Nodes : /\ QueuedLater(o) /\ FramesInOrder(o) /\ LoggedFirst(o)
                     /\ HeadOrReceived(o) /\ ReceivedInOrder(o)

-----------------------------------------------------------------------------
(* No object is newer than the clock. *)
StoreNotAhead == \A n \in Nodes : store[n].version.time <= clock

(* While no node has crashed, nothing was read back from a journal, a client's *)
(* update was executed where it was made, and what a node has executed the     *)
(* next one has received, or will be sent.                                     *)
NothingPacked == \A n \in Nodes : \A i \in 1..Len(notWritten[n]) : ~notWritten[n][i].packed
MadeIsDone == \A u \in Issued : u \in done[made[u].server]
DoneIsHandedOn ==
    \A n \in Nodes : \A u \in done[n] : ToBeSent(u, n) \/ u \in acked[Next(n)]

HandOver == NothingPacked /\ AckedNotLost /\ MadeIsDone /\ DoneIsHandedOn

-----------------------------------------------------------------------------
(* What the operators of the loop return. *)

LEMMA KeptMembers ==
    ASSUME NEW S, NEW s \in Seq(S), NEW P
    PROVE  /\ Kept(s, P) \in Seq(S)
           /\ Members(Kept(s, P)) = {s[i] : i \in {j \in 1..Len(s) : j \in P}}
<1> DEFINE pieces == [i \in 1..Len(s) |-> IF i \in P THEN <<s[i]>> ELSE << >>]
<1>1. Len(s) \in Nat /\ \A i \in 1..Len(s) : s[i] \in S
    BY LenProperties, ElementOfSeq
<1>2. \A i \in 1..Len(s) : pieces[i] \in Seq(S)
    BY <1>1
<1>3. pieces \in Seq(Seq(S)) /\ Len(pieces) = Len(s)
    BY <1>1, <1>2, IsASeq
<1>4. \A i \in 1..Len(s) : Members(pieces[i]) = IF i \in P THEN {s[i]} ELSE {}
  <2>1. \A e : Len(<<e>>) = 1 /\ <<e>>[1] = e /\ 1..1 = {1}
    OBVIOUS
  <2>2. Len(<< >>) = 0 /\ 1..0 = {}
    BY EmptySeq
  <2> QED
    BY <2>1, <2>2 DEF Members
<1>5. Kept(s, P) = FlattenSeq(pieces)
    BY DEF Kept
<1> HIDE DEF pieces
<1>6. UNION {Members(pieces[i]) : i \in 1..Len(pieces)}
        = {s[i] : i \in {j \in 1..Len(s) : j \in P}}
    BY <1>3, <1>4
<1> QED
    BY <1>3, <1>5, <1>6, FlattenMembers

LEMMA QueriesMembers ==
    ASSUME NEW S, NEW items \in Seq([kind : {"R", "Q"}, query : S]), NEW kind
    PROVE  /\ Queries(items, kind) \in Seq(S)
           /\ Members(Queries(items, kind))
                = {items[i].query : i \in {j \in 1..Len(items) : items[j].kind = kind}}
<1> DEFINE pieces == [i \in 1..Len(items) |->
                        IF items[i].kind = kind THEN <<items[i].query>> ELSE << >>]
<1>1. Len(items) \in Nat /\ \A i \in 1..Len(items) : items[i].query \in S
  <2>1. \A i \in 1..Len(items) : items[i] \in [kind : {"R", "Q"}, query : S]
    BY ElementOfSeq
  <2> QED
    BY <2>1, LenProperties
<1>2. \A i \in 1..Len(items) : pieces[i] \in Seq(S)
    BY <1>1
<1>3. pieces \in Seq(Seq(S)) /\ Len(pieces) = Len(items)
    BY <1>1, <1>2, IsASeq
<1>4. \A i \in 1..Len(items) :
        Members(pieces[i]) = IF items[i].kind = kind THEN {items[i].query} ELSE {}
  <2>1. \A e : Len(<<e>>) = 1 /\ <<e>>[1] = e /\ 1..1 = {1}
    OBVIOUS
  <2>2. Len(<< >>) = 0 /\ 1..0 = {}
    BY EmptySeq
  <2> QED
    BY <2>1, <2>2 DEF Members
<1>5. Queries(items, kind) = FlattenSeq(pieces)
    BY DEF Queries
<1> HIDE DEF pieces
<1>6. UNION {Members(pieces[i]) : i \in 1..Len(pieces)}
        = {items[i].query : i \in {j \in 1..Len(items) : items[j].kind = kind}}
  <2> DEFINE chosen == {j \in 1..Len(items) : items[j].kind = kind}
  <2>1. ASSUME NEW i \in 1..Len(pieces), NEW q \in Members(pieces[i])
        PROVE  i \in chosen /\ q = items[i].query
    BY <1>3, <1>4, <2>1
  <2>2. ASSUME NEW i \in chosen
        PROVE  i \in 1..Len(pieces) /\ items[i].query \in Members(pieces[i])
    BY <1>3, <1>4, <2>2
  <2> HIDE DEF chosen
  <2>3. UNION {Members(pieces[i]) : i \in 1..Len(pieces)} = {items[i].query : i \in chosen}
    BY <2>1, <2>2
  <2> QED
    BY <2>3 DEF chosen
<1> QED
    BY <1>3, <1>5, <1>6, FlattenMembers

(* The replies of a batch take their queries out, and nothing else. *)
LEMMA UnconfirmedMembers ==
    ASSUME NEW S, NEW waitingFor \in Seq(S), NEW replies \in Seq(S)
    PROVE  /\ Unconfirmed(waitingFor, replies) \in Seq(S)
           /\ Members(Unconfirmed(waitingFor, replies))
                = Members(waitingFor) \ Members(replies)
<1> DEFINE left == {i \in 1..Len(waitingFor) : waitingFor[i] \notin Range(replies)}
<1>1. Range(replies) = Members(replies)
    BY LenProperties DEF Range, Members
<1>2. Unconfirmed(waitingFor, replies) = Kept(waitingFor, left)
    BY DEF Unconfirmed
<1>3. {i \in 1..Len(waitingFor) : i \in left} = left
    OBVIOUS
<1>4. /\ Kept(waitingFor, left) \in Seq(S)
      /\ Members(Kept(waitingFor, left)) = {waitingFor[i] : i \in left}
    BY <1>3, KeptMembers
<1>5. {waitingFor[i] : i \in left} = Members(waitingFor) \ Members(replies)
    BY <1>1 DEF Members
<1> QED
    BY <1>2, <1>4, <1>5

(* The queries to execute are those of readable frames, of other nodes. *)
LEMMA ToExecuteMembers ==
    ASSUME NEW S, NEW n,
           NEW received \in Seq([frame : {f \in Seq(S) : f # << >>}, packed : BOOLEAN])
    PROVE  /\ ToExecute(n, received) \in Seq(S)
           /\ \A q \in Members(ToExecute(n, received)) : q \in S /\ q.origin # n
           /\ \A i \in 1..Len(received) : ~received[i].packed =>
                \A q \in Members(received[i].frame) :
                    q.origin # n => q \in Members(ToExecute(n, received))
<1> DEFINE pieces == [i \in 1..Len(received) |->
                        IF received[i].packed THEN << >> ELSE received[i].frame]
           all == FlattenSeq(pieces)
           others == {i \in 1..Len(all) : all[i].origin # n}
<1>1. Len(received) \in Nat /\ \A i \in 1..Len(received) : received[i].frame \in Seq(S)
  <2>1. \A i \in 1..Len(received) :
          received[i] \in [frame : {f \in Seq(S) : f # << >>}, packed : BOOLEAN]
    BY ElementOfSeq
  <2> QED
    BY <2>1, LenProperties
<1>2. \A i \in 1..Len(received) : pieces[i] \in Seq(S)
    BY <1>1
<1>3. pieces \in Seq(Seq(S)) /\ Len(pieces) = Len(received)
    BY <1>1, <1>2, IsASeq
<1>4. \A i \in 1..Len(received) : ~received[i].packed => pieces[i] = received[i].frame
    OBVIOUS
<1>5. ToExecute(n, received) = Kept(all, others)
    BY DEF ToExecute
<1> HIDE DEF pieces
<1>6. all \in Seq(S) /\ Members(all) = UNION {Members(pieces[i]) : i \in 1..Len(pieces)}
    BY <1>3, FlattenMembers
<1> HIDE DEF all
<1>7. /\ ToExecute(n, received) \in Seq(S)
      /\ Members(ToExecute(n, received)) = {all[i] : i \in others}
    BY <1>5, <1>6, KeptMembers
<1>8. \A q \in Members(ToExecute(n, received)) : q \in S /\ q.origin # n
    BY <1>7, MembersSeq
<1>9. ASSUME NEW i \in 1..Len(received), ~received[i].packed,
             NEW q \in Members(received[i].frame), q.origin # n
      PROVE  q \in Members(ToExecute(n, received))
  <2>1. q \in Members(all)
    BY <1>3, <1>4, <1>6, <1>9
  <2> QED
    BY <1>7, <1>9, <2>1 DEF Members
<1> QED
    BY <1>7, <1>8, <1>9

LEMMA WorkerChosen ==
    ASSUME NEW n, turn[n] \in 1..Workers, NEW i \in Nat \ {0}
    PROVE  WorkerFor(n, i) \in 1..Workers
<1>1. turn[n] + i - 2 \in Nat /\ Workers \in Nat \ {0}
    BY RingAssumption
<1>2. (turn[n] + i - 2) % Workers \in 0..(Workers - 1)
    BY <1>1, Z3
<1> QED
    BY <1>1, <1>2 DEF WorkerFor

(* Every query is posted to one of the workers, behind what it has. *)
LEMMA PostedMembers ==
    ASSUME NEW S, NEW n, turn[n] \in 1..Workers,
           jobs[n] \in [1..Workers -> Seq(S)], NEW queries \in Seq(S)
    PROVE  /\ PostAll(n, queries) \in [1..Workers -> Seq(S)]
           /\ \A w \in 1..Workers : Members(jobs[n][w]) \subseteq Members(PostAll(n, queries)[w])
           /\ \A q \in Members(queries) : \E w \in 1..Workers :
                q \in Members(PostAll(n, queries)[w])
<1> DEFINE for(w) == {i \in 1..Len(queries) : WorkerFor(n, i) = w}
<1>1. \A w \in 1..Workers :
        /\ Kept(queries, for(w)) \in Seq(S)
        /\ Members(Kept(queries, for(w))) = {queries[i] : i \in for(w)}
  <2>1. TAKE w \in 1..Workers
  <2>2. {i \in 1..Len(queries) : i \in for(w)} = for(w)
    OBVIOUS
  <2> HIDE DEF for
  <2> QED
    BY <2>2, KeptMembers
<1> HIDE DEF for
<1>2. \A w \in 1..Workers : PostAll(n, queries)[w] = jobs[n][w] \o Kept(queries, for(w))
    BY DEF PostAll, for
<1>3. \A w \in 1..Workers :
        /\ PostAll(n, queries)[w] \in Seq(S)
        /\ Members(PostAll(n, queries)[w])
             = Members(jobs[n][w]) \cup {queries[i] : i \in for(w)}
  <2>1. TAKE w \in 1..Workers
  <2>2. jobs[n][w] \in Seq(S) /\ Kept(queries, for(w)) \in Seq(S)
    BY <1>1
  <2>3. /\ jobs[n][w] \o Kept(queries, for(w)) \in Seq(S)
        /\ Members(jobs[n][w] \o Kept(queries, for(w)))
             = Members(jobs[n][w]) \cup Members(Kept(queries, for(w)))
    BY <2>2, MembersConcat
  <2> QED
    BY <1>1, <1>2, <2>3
<1>4. PostAll(n, queries) \in [1..Workers -> Seq(S)]
    BY <1>3 DEF PostAll
<1>5. ASSUME NEW q \in Members(queries)
      PROVE  \E w \in 1..Workers : q \in Members(PostAll(n, queries)[w])
  <2>1. PICK i \in 1..Len(queries) : q = queries[i]
    BY DEF Members
  <2>2. i \in for(WorkerFor(n, i)) /\ WorkerFor(n, i) \in 1..Workers
    BY LenProperties, WorkerChosen DEF for
  <2> QED
    BY <1>3, <2>1, <2>2
<1> QED
    BY <1>3, <1>4, <1>5

-----------------------------------------------------------------------------
(* Type correctness. *)

LEMMA SameKnown ==
    ASSUME made' = made
    PROVE  /\ Known' = Known /\ Issued' = Issued /\ \A n : Foreign(n)' = Foreign(n)
           /\ Frames' = Frames /\ Items' = Items /\ Sent' = Sent /\ Received' = Received
    BY DEF Known, Issued, Foreign, Frames, Items, Sent, Received

LEMMA MoreKnown ==
    ASSUME NEW S, made \in Seq(S), NEW e \in S, made' = Append(made, e)
    PROVE  /\ Len(made) \in Nat /\ Len(made') = Len(made) + 1
           /\ made'[Len(made) + 1] = e /\ \A u \in Issued : made'[u] = made[u]
           /\ Issued' = Issued \cup {Len(made) + 1} /\ Len(made) + 1 \notin Issued
           /\ Known \subseteq Known' /\ \A n : Foreign(n) \subseteq Foreign(n)'
           /\ Frames \subseteq Frames' /\ Items \subseteq Items'
           /\ Sent \subseteq Sent' /\ Received \subseteq Received'
<1>1. /\ Len(made) \in Nat /\ Len(made') = Len(made) + 1
      /\ made'[Len(made) + 1] = e /\ \A u \in 1..Len(made) : made'[u] = made[u]
    BY AppendProperties, LenProperties
<1>2. Issued' = Issued \cup {Len(made) + 1} /\ Len(made) + 1 \notin Issued
    BY <1>1 DEF Issued
<1>3. Known \subseteq Known'
    BY <1>1, <1>2 DEF Known, Issued
<1>4. \A n : Foreign(n) \subseteq Foreign(n)'
    BY <1>3 DEF Foreign
<1>5. Frames \subseteq Frames'
    BY <1>3, SeqMonotonic DEF Frames
<1> QED
    BY <1>1, <1>2, <1>3, <1>4, <1>5 DEF Issued, Items, Sent, Received

LEMMA ModuloNodes == \A n \in Nodes : Next(n) \in Nodes /\ Prev(n) \in Nodes
    BY Neighbours

LEMMA TickTypes ==
    ASSUME RingTypes, Tick
    PROVE  RingTypes'
<1>1. /\ UNCHANGED <<workerVars, linkVars, jobs, store, made, done, logged, acked, crashes>>
      /\ clock' \in 0..MaxClock
    BY RingAssumption DEF Tick, RingTypes, StoreTypes
<1> QED
    BY <1>1, SameKnown
       DEF RingTypes, WorkerTypes, WireTypes, StoreTypes, HistoryTypes, workerVars, linkVars

LEMMA ClientUpdateTypes ==
    ASSUME RingTypes, NEW n \in Nodes, ClientUpdate(n)
    PROVE  RingTypes'
<1> DEFINE u == Len(made) + 1
           q == [update |-> u, origin |-> n, version |-> NoVersion]
           Times == [time : 0..MaxClock, server : Writers]
<1>1. /\ n \in Writers /\ Len(made) < MaxUpdates
      /\ made' = Append(made, [time |-> clock, server |-> n])
      /\ store' = [store EXCEPT ![n] = [update |-> u, version |-> Now(n)]]
      /\ inbox' = [inbox EXCEPT ![n] = Append(@, Forward(q))]
      /\ done' = [done EXCEPT ![n] = @ \cup {u}]
      /\ UNCHANGED <<pc, notSynced, notWritten, notConfirmed, localJournal, turn,
                     linkVars, jobs, clock, logged, acked, crashes>>
    BY DEF ClientUpdate
<1>2. [time |-> clock, server |-> n] \in Times /\ made \in Seq(Times)
    BY <1>1 DEF RingTypes, StoreTypes
<1>3. /\ Len(made) \in Nat /\ Len(made') = Len(made) + 1
      /\ made'[Len(made) + 1] = [time |-> clock, server |-> n]
      /\ Issued' = Issued \cup {u}
      /\ Known \subseteq Known' /\ \A k : Foreign(k) \subseteq Foreign(k)'
      /\ Frames \subseteq Frames' /\ Items \subseteq Items'
      /\ Sent \subseteq Sent' /\ Received \subseteq Received'
    BY <1>1, <1>2, MoreKnown
<1>4. made' \in Seq(Times) /\ Len(made') <= MaxUpdates
    BY <1>1, <1>2, <1>3, AppendProperties, RingAssumption
<1>5. u \in UpdateIds /\ u \in 0..MaxUpdates
    BY <1>1, <1>3, RingAssumption DEF UpdateIds
<1>6. Forward(q) \in Items'
  <2>1. q \in Query
    BY <1>5 DEF Query, Versions
  <2>2. q \in Known'
    BY <1>3, <2>1 DEF Known, Issued
  <2> QED
    BY <2>2 DEF Forward, Items
<1>7. [update |-> u, version |-> Now(n)] \in [update : 0..MaxUpdates, version : Versions]
    BY <1>5 DEF Now, Version, Versions, RingTypes, StoreTypes
<1> HIDE DEF u, q, Times
<1>8. WorkerTypes'
  <2>1. inbox' \in [Nodes -> Seq(Items')]
    <3>1. \A k \in Nodes : inbox[k] \in Seq(Items')
      BY <1>3, SeqMonotonic DEF RingTypes, WorkerTypes
    <3>2. Append(inbox[n], Forward(q)) \in Seq(Items')
      BY <1>6, <3>1, AppendProperties
    <3> QED
      BY <1>1, <3>1, <3>2 DEF RingTypes, WorkerTypes
  <2>2. /\ \A k \in Nodes : notSynced[k] \in Seq(Frames') /\ localJournal[k] \in Seq(Frames')
        /\ \A k \in Nodes : notWritten[k] \in Seq(Received')
        /\ \A k \in Nodes : notConfirmed[k] \in Seq(Known')
    BY <1>3, SeqMonotonic DEF RingTypes, WorkerTypes
  <2> QED
    BY <1>1, <2>1, <2>2 DEF RingTypes, WorkerTypes
<1>9. WireTypes'
  <2>1. \A k \in Nodes : wire[k] \in Seq(Sent')
    BY <1>3, SeqMonotonic DEF RingTypes, WireTypes
  <2> QED
    BY <1>1, <2>1 DEF RingTypes, WireTypes, linkVars
<1>10. StoreTypes'
  <2>1. \A k \in Nodes : jobs[k] \in [1..Workers -> Seq(Foreign(k)')]
    <3>1. TAKE k \in Nodes
    <3>2. jobs[k] \in [1..Workers -> Seq(Foreign(k))]
      BY DEF RingTypes, StoreTypes
    <3>3. \A w \in 1..Workers : jobs[k][w] \in Seq(Foreign(k)')
      BY <1>3, <3>2, SeqMonotonic
    <3> QED
      BY <3>2, <3>3
  <2>2. store' \in [Nodes -> [update : 0..MaxUpdates, version : Versions]]
    BY <1>1, <1>7 DEF RingTypes, StoreTypes
  <2>3. done' \in [Nodes -> SUBSET Issued']
    BY <1>1, <1>3 DEF RingTypes, StoreTypes
  <2>4. DOMAIN jobs' = Nodes /\ jobs' = jobs /\ clock' \in 0..MaxClock
    BY <1>1 DEF RingTypes, StoreTypes
  <2>5. \A k \in Nodes : jobs'[k] \in [1..Workers -> Seq(Foreign(k)')]
    BY <2>1, <2>4
  <2> QED
    BY <1>4, <2>2, <2>3, <2>4, <2>5 DEF StoreTypes, Times
<1>11. HistoryTypes'
    BY <1>1, <1>3 DEF RingTypes, HistoryTypes
<1> QED
    BY <1>8, <1>9, <1>10, <1>11 DEF RingTypes

LEMMA ExecuteUpdateTypes ==
    ASSUME RingTypes, NEW n \in Nodes, NEW w \in 1..Workers, ExecuteUpdate(n, w)
    PROVE  RingTypes'
<1> DEFINE q == Head(jobs[n][w])
           v == VersionOf(MakeSafe(q), n)
           older == CheckVersion(store[n].version, v)
           forward == IF older THEN << >> ELSE <<Forward([q EXCEPT !.version = v])>>
<1>1. /\ jobs[n][w] # << >>
      /\ jobs' = [jobs EXCEPT ![n][w] = Tail(@)]
      /\ done' = [done EXCEPT ![n] = @ \cup {q.update}]
      /\ store' = [store EXCEPT ![n] =
           IF older THEN @ ELSE [update |-> q.update, version |-> v]]
      /\ inbox' = [inbox EXCEPT ![n] = @ \o forward \o <<Reply(q)>>]
      /\ UNCHANGED <<pc, notSynced, notWritten, notConfirmed, localJournal, turn,
                     linkVars, clock, made, logged, acked, crashes>>
    BY DEF ExecuteUpdate
<1>2. jobs[n] \in [1..Workers -> Seq(Foreign(n))]
    BY DEF RingTypes, StoreTypes
<1>3. q \in Foreign(n) /\ Tail(jobs[n][w]) \in Seq(Foreign(n))
    BY <1>1, <1>2, HeadTailProperties
<1>4. v \in Versions
    BY DEF VersionOf, MakeSafe, Now, Versions, Version, RingTypes, StoreTypes
<1>5. [q EXCEPT !.version = v] \in Known /\ q \in Known
    BY <1>3, <1>4 DEF Foreign, Known, Query
<1>6. forward \in Seq(Items) /\ <<Reply(q)>> \in Seq(Items)
  <2>1. Reply(q) \in Items /\ Forward([q EXCEPT !.version = v]) \in Items
    BY <1>5 DEF Reply, Forward, Items
  <2> HIDE DEF q, v, older
  <2>2. << >> \in Seq(Items) /\ \A e \in Items : <<e>> \in Seq(Items)
    OBVIOUS
  <2> QED
    BY <2>1, <2>2
<1>7. q.update \in Issued /\ q.update \in 0..MaxUpdates
    BY <1>5, RingAssumption DEF Known, Query, UpdateIds
<1> HIDE DEF q, v, older, forward
<1>8. WorkerTypes'
  <2>1. inbox[n] \o forward \o <<Reply(q)>> \in Seq(Items)
    BY <1>6, ConcatProperties DEF RingTypes, WorkerTypes
  <2> QED
    BY <1>1, <2>1, SameKnown DEF RingTypes, WorkerTypes
<1>9. WireTypes' /\ HistoryTypes'
    BY <1>1, SameKnown DEF RingTypes, WireTypes, HistoryTypes, linkVars
<1>10. StoreTypes'
  <2>1. \A k \in Nodes : jobs'[k] \in [1..Workers -> Seq(Foreign(k))]
    BY <1>1, <1>3 DEF RingTypes, StoreTypes
  <2>2. store' \in [Nodes -> [update : 0..MaxUpdates, version : Versions]]
    BY <1>1, <1>4, <1>7 DEF RingTypes, StoreTypes
  <2>3. done' \in [Nodes -> SUBSET Issued]
    BY <1>1, <1>7 DEF RingTypes, StoreTypes
  <2>4. DOMAIN jobs' = Nodes
    BY <1>1 DEF RingTypes, StoreTypes
  <2> QED
    BY <1>1, <2>1, <2>2, <2>3, <2>4, SameKnown DEF RingTypes, StoreTypes
<1> QED
    BY <1>8, <1>9, <1>10 DEF RingTypes

(* The updates of queries that name updates that were made. *)
LEMMA KnownUpdates ==
    ASSUME NEW s \in Seq(Known)
    PROVE  UpdatesOf(s) = {q.update : q \in Members(s)} /\ UpdatesOf(s) \subseteq Issued
<1>1. UpdatesOf(s) = {q.update : q \in Members(s)}
    BY DEF UpdatesOf, Members
<1>2. \A q \in Members(s) : q.update \in Issued
    BY MembersSeq DEF Known
<1> QED
    BY <1>1, <1>2

LEMMA TakeBatchTypes ==
    ASSUME RingTypes, NEW n \in Nodes, TakeBatch(n)
    PROVE  RingTypes'
<1> DEFINE replies == Queries(inbox[n], "R")
           updates == Queries(inbox[n], "Q")
           left == Unconfirmed(notConfirmed[n], replies)
<1>1. /\ notConfirmed' = [notConfirmed EXCEPT ![n] = left]
      /\ \/ localJournal' = [localJournal EXCEPT ![n] = << >>]
         \/ localJournal' = localJournal
      /\ \E p \in {"write", "sync", "notify"} : pc' = [pc EXCEPT ![n] = p]
      /\ \/ UNCHANGED <<notSynced, logged>>
         \/ /\ updates # << >>
            /\ notSynced' = [notSynced EXCEPT ![n] = Append(@, updates)]
            /\ logged' = [logged EXCEPT ![n] = @ \cup UpdatesOf(updates)]
      /\ inbox' = [inbox EXCEPT ![n] = << >>]
      /\ UNCHANGED <<notWritten, turn, linkVars, storeVars, acked, crashes>>
    BY DEF TakeBatch
<1>2. replies \in Seq(Known) /\ updates \in Seq(Known)
    BY QueriesMembers DEF RingTypes, WorkerTypes, Items
<1>3. left \in Seq(Known)
    BY <1>2, UnconfirmedMembers DEF RingTypes, WorkerTypes
<1>4. UpdatesOf(updates) \subseteq Issued
    BY <1>2, KnownUpdates
<1> HIDE DEF replies, updates, left
<1>5. made' = made
    BY <1>1 DEF storeVars
<1>6. WorkerTypes'
  <2>1. notSynced' \in [Nodes -> Seq(Frames)]
    <3>1. CASE notSynced' = notSynced
      BY <3>1 DEF RingTypes, WorkerTypes
    <3>2. CASE /\ updates # << >>
               /\ notSynced' = [notSynced EXCEPT ![n] = Append(@, updates)]
      <4>1. updates \in Frames
        BY <1>2, <3>2 DEF Frames
      <4>2. Append(notSynced[n], updates) \in Seq(Frames)
        BY <4>1, AppendProperties DEF RingTypes, WorkerTypes
      <4> QED
        BY <3>2, <4>2 DEF RingTypes, WorkerTypes
    <3> QED
      BY <1>1, <3>1, <3>2
  <2>2. \A S : << >> \in Seq(S)
    BY EmptySeq
  <2>3. inbox' \in [Nodes -> Seq(Items)]
    BY <1>1, <2>2 DEF RingTypes, WorkerTypes
  <2>4. localJournal' \in [Nodes -> Seq(Frames)]
    <3>1. << >> \in Seq(Frames)
      BY <2>2
    <3>2. CASE localJournal' = localJournal
      BY <3>2 DEF RingTypes, WorkerTypes
    <3>3. CASE localJournal' = [localJournal EXCEPT ![n] = << >>]
      BY <3>1, <3>3 DEF RingTypes, WorkerTypes
    <3> QED
      BY <1>1, <3>2, <3>3
  <2>5. notConfirmed' \in [Nodes -> Seq(Known)]
    BY <1>1, <1>3 DEF RingTypes, WorkerTypes
  <2>6. pc' \in [Nodes -> {"poll", "notify", "sync", "write"}]
    BY <1>1 DEF RingTypes, WorkerTypes
  <2> QED
    BY <1>1, <1>5, <2>1, <2>3, <2>4, <2>5, <2>6, SameKnown DEF RingTypes, WorkerTypes
<1>7. HistoryTypes'
    BY <1>1, <1>4, <1>5, SameKnown DEF RingTypes, HistoryTypes
<1>8. WireTypes'
    BY <1>1, <1>5, SameKnown DEF RingTypes, WireTypes, linkVars
<1>9. StoreTypes'
    BY <1>1, <1>5, SameKnown DEF RingTypes, StoreTypes, storeVars
<1> QED
    BY <1>6, <1>7, <1>8, <1>9 DEF RingTypes

(* The steps of the link: what is sent and received was known. *)
LEMMA LinkStepTypes ==
    ASSUME RingTypes, RingInv, NEW n \in Nodes,
           NoBatch(n) \/ SendFrame(n) \/ FrameAcknowledged(n)
    PROVE  RingTypes'
<1> DEFINE sent == [frame |-> Head(notSynced[n]), conn |-> conn[n]]
<1>1. /\ UNCHANGED <<inbox, notWritten, notConfirmed, localJournal, turn, conn, fails,
                     storeVars, logged, acked, crashes>>
      /\ \/ pc' = pc
         \/ \E p \in {"write", "sync", pc[n]} : pc' = [pc EXCEPT ![n] = p]
      /\ \/ UNCHANGED waiting
         \/ \E b \in BOOLEAN : waiting' = [waiting EXCEPT ![n] = b]
      /\ \/ UNCHANGED answer
         \/ answer' = [answer EXCEPT ![n] = FALSE]
      /\ \/ UNCHANGED notSynced
         \/ waiting[n] /\ notSynced' = [notSynced EXCEPT ![n] = Tail(@)]
      /\ \/ UNCHANGED wire
         \/ notSynced[n] # << >> /\ wire' = [wire EXCEPT ![n] = Append(@, sent)]
    BY DEF NoBatch, SendFrame, FrameAcknowledged, workerVars, linkVars
<1>2. waiting[n] => notSynced[n] # << >>
    BY DEF RingInv, LinkInv, WaitsForHead
<1>3. notSynced[n] # << >> =>
        Tail(notSynced[n]) \in Seq(Frames) /\ Head(notSynced[n]) \in Frames
    BY HeadTailProperties DEF RingTypes, WorkerTypes
<1>4. notSynced[n] # << >> => sent \in Sent
    BY <1>3 DEF Sent, RingTypes, WireTypes
<1>5. notSynced[n] # << >> => Append(wire[n], sent) \in Seq(Sent)
    BY <1>4, AppendProperties DEF RingTypes, WireTypes
<1> HIDE DEF sent
<1>6. made' = made
    BY <1>1 DEF storeVars
<1>7. WorkerTypes'
  <2>1. notSynced' \in [Nodes -> Seq(Frames)]
    BY <1>1, <1>2, <1>3 DEF RingTypes, WorkerTypes
  <2>2. pc' \in [Nodes -> {"poll", "notify", "sync", "write"}]
    BY <1>1 DEF RingTypes, WorkerTypes
  <2> QED
    BY <1>1, <1>6, <2>1, <2>2, SameKnown DEF RingTypes, WorkerTypes
<1>8. WireTypes'
  <2>1. wire' \in [Nodes -> Seq(Sent)]
    BY <1>1, <1>5 DEF RingTypes, WireTypes
  <2>2. waiting' \in [Nodes -> BOOLEAN] /\ answer' \in [Nodes -> BOOLEAN]
    BY <1>1 DEF RingTypes, WireTypes
  <2> QED
    BY <1>1, <1>6, <2>1, <2>2, SameKnown DEF RingTypes, WireTypes
<1>9. StoreTypes' /\ HistoryTypes'
    BY <1>1, <1>6, SameKnown DEF RingTypes, StoreTypes, HistoryTypes, storeVars
<1> QED
    BY <1>7, <1>8, <1>9 DEF RingTypes

LEMMA DropTypes ==
    ASSUME RingTypes, NEW n \in Nodes, SendFails(n) \/ AnswerTimesOut(n)
    PROVE  RingTypes'
<1>1. /\ notSynced' = [notSynced EXCEPT ![n] = @]
      /\ conn' = [conn EXCEPT ![n] = @ + 1]
      /\ waiting' = [waiting EXCEPT ![n] = FALSE]
      /\ answer' = [answer EXCEPT ![n] = FALSE]
      /\ \E p \in {"write", "sync"} : pc' = [pc EXCEPT ![n] = p]
      /\ fails' = fails \/ (fails < MaxFails /\ fails' = fails + 1)
      /\ UNCHANGED <<inbox, notWritten, notConfirmed, localJournal, turn, wire,
                     storeVars, logged, acked, crashes>>
    BY DEF SendFails, AnswerTimesOut, DropConnection, KeptAfterFailure, AfterFailure
<1>2. made' = made
    BY <1>1 DEF storeVars
<1>3. WorkerTypes'
    BY <1>1, <1>2, SameKnown DEF RingTypes, WorkerTypes
<1>4. WireTypes'
  <2>1. fails' \in 0..MaxFails
    BY <1>1, RingAssumption DEF RingTypes, WireTypes
  <2> QED
    BY <1>1, <1>2, <2>1, SameKnown DEF RingTypes, WireTypes
<1>5. StoreTypes' /\ HistoryTypes'
    BY <1>1, <1>2, SameKnown DEF RingTypes, StoreTypes, HistoryTypes, storeVars
<1> QED
    BY <1>3, <1>4, <1>5 DEF RingTypes

LEMMA DispatchTypes ==
    ASSUME RingTypes, NEW m \in Nodes, Dispatch(m)
    PROVE  RingTypes'
<1> DEFINE n == Prev(m)
           frame == Head(wire[n]).frame
<1>1. /\ wire[n] # << >>
      /\ wire' = [wire EXCEPT ![n] = Tail(@)]
      /\ answer' = [answer EXCEPT ![n] = @ \/ (waiting[n] /\ Head(wire[n]).conn = conn[n])]
      /\ localJournal' = [localJournal EXCEPT ![m] = Append(@, frame)]
      /\ notWritten' = [notWritten EXCEPT ![m] = Append(@, [frame |-> frame, packed |-> FALSE])]
      /\ acked' = [acked EXCEPT ![m] = @ \cup UpdatesOf(frame)]
      /\ UNCHANGED <<pc, inbox, notSynced, notConfirmed, turn, conn, waiting, fails,
                     storeVars, logged, crashes>>
    BY DEF Dispatch
<1>2. n \in Nodes
    BY ModuloNodes
<1>3. Tail(wire[n]) \in Seq(Sent) /\ Head(wire[n]) \in Sent
    BY <1>1, <1>2, HeadTailProperties DEF RingTypes, WireTypes
<1>4. frame \in Frames
    BY <1>3 DEF Sent
<1>5. UpdatesOf(frame) \subseteq Issued
    BY <1>4, KnownUpdates DEF Frames
<1>6. [frame |-> frame, packed |-> FALSE] \in Received
    BY <1>4 DEF Received
<1>7. made' = made
    BY <1>1 DEF storeVars
<1> HIDE DEF n, frame
<1>8. WorkerTypes'
  <2>1. Append(localJournal[m], frame) \in Seq(Frames)
    BY <1>4, AppendProperties DEF RingTypes, WorkerTypes
  <2>2. Append(notWritten[m], [frame |-> frame, packed |-> FALSE]) \in Seq(Received)
    BY <1>6, AppendProperties DEF RingTypes, WorkerTypes
  <2>3. /\ localJournal' \in [Nodes -> Seq(Frames)]
        /\ notWritten' \in [Nodes -> Seq(Received)]
    BY <1>1, <2>1, <2>2 DEF RingTypes, WorkerTypes
  <2> QED
    BY <1>1, <1>7, <2>3, SameKnown DEF RingTypes, WorkerTypes
<1>9. WireTypes'
  <2>1. wire' \in [Nodes -> Seq(Sent)] /\ answer' \in [Nodes -> BOOLEAN]
    BY <1>1, <1>2, <1>3 DEF RingTypes, WireTypes
  <2> QED
    BY <1>1, <1>7, <2>1, SameKnown DEF RingTypes, WireTypes
<1>10. StoreTypes' /\ HistoryTypes'
    BY <1>1, <1>5, <1>7, SameKnown DEF RingTypes, StoreTypes, HistoryTypes, storeVars
<1> QED
    BY <1>8, <1>9, <1>10 DEF RingTypes

LEMMA FrameLostTypes ==
    ASSUME RingTypes, NEW m \in Nodes, FrameLost(m)
    PROVE  RingTypes'
<1> DEFINE n == Prev(m)
<1>1. /\ wire[n] # << >> /\ wire' = [wire EXCEPT ![n] = Tail(@)] /\ n \in Nodes
      /\ UNCHANGED <<workerVars, conn, waiting, answer, fails, storeVars, logged, acked, crashes>>
    BY ModuloNodes DEF FrameLost
<1> HIDE DEF n
<1>2. Tail(wire[n]) \in Seq(Sent) /\ made' = made
    BY <1>1, HeadTailProperties DEF RingTypes, WireTypes, storeVars
<1>3. WireTypes'
    BY <1>1, <1>2, SameKnown DEF RingTypes, WireTypes
<1> QED
    BY <1>1, <1>2, <1>3, SameKnown
       DEF RingTypes, WorkerTypes, StoreTypes, HistoryTypes, storeVars, workerVars

LEMMA WriteSyncTypes ==
    ASSUME RingTypes, NEW n \in Nodes, WriteSync(n)
    PROVE  RingTypes'
<1> DEFINE queries == ToExecute(n, notWritten[n])
           unconfirmed == notConfirmed[n] \o queries
           next == WorkerFor(n, Len(queries) + 1)
           log == StillLogged(localJournal[n], notWritten[n])
<1>1. /\ jobs' = [jobs EXCEPT ![n] = PostAll(n, queries)]
      /\ turn' = [turn EXCEPT ![n] = next]
      /\ notConfirmed' = [notConfirmed EXCEPT ![n] = unconfirmed]
      /\ \E j \in {<< >>, log} : localJournal' = [localJournal EXCEPT ![n] = j]
      /\ notWritten' = [notWritten EXCEPT ![n] = << >>]
      /\ pc' = [pc EXCEPT ![n] = "poll"]
      /\ UNCHANGED <<inbox, notSynced, linkVars, store, clock, made, done,
                     logged, acked, crashes>>
    BY DEF WriteSync
<1>2. /\ queries \in Seq(Known)
      /\ \A q \in Members(queries) : q \in Known /\ q.origin # n
    BY ToExecuteMembers DEF RingTypes, WorkerTypes, Received, Frames
<1>3. queries \in Seq(Foreign(n))
    BY <1>2, MembersSeq DEF Foreign
<1>4. turn[n] \in 1..Workers /\ jobs[n] \in [1..Workers -> Seq(Foreign(n))]
    BY DEF RingTypes, WorkerTypes, StoreTypes
<1>5. PostAll(n, queries) \in [1..Workers -> Seq(Foreign(n))]
    BY <1>3, <1>4, PostedMembers
<1>6. next \in 1..Workers
    BY <1>2, <1>4, WorkerChosen, LenProperties
<1>7. unconfirmed \in Seq(Known)
    BY <1>2, ConcatProperties DEF RingTypes, WorkerTypes
<1>8. log \in Seq(Frames) /\ << >> \in Seq(Frames) /\ << >> \in Seq(Received)
    BY KeptMembers, EmptySeq DEF StillLogged, RingTypes, WorkerTypes
<1> HIDE DEF queries, unconfirmed, next, log
<1>9. WorkerTypes'
  <2>1. localJournal' \in [Nodes -> Seq(Frames)] /\ notWritten' \in [Nodes -> Seq(Received)]
    BY <1>1, <1>8 DEF RingTypes, WorkerTypes
  <2>2. notConfirmed' \in [Nodes -> Seq(Known)] /\ turn' \in [Nodes -> 1..Workers]
    BY <1>1, <1>6, <1>7 DEF RingTypes, WorkerTypes
  <2> QED
    BY <1>1, <2>1, <2>2, SameKnown DEF RingTypes, WorkerTypes
<1>10. StoreTypes'
  <2>1. DOMAIN jobs' = Nodes /\ \A k \in Nodes : jobs'[k] \in [1..Workers -> Seq(Foreign(k))]
    BY <1>1, <1>5 DEF RingTypes, StoreTypes
  <2> QED
    BY <1>1, <2>1, SameKnown DEF RingTypes, StoreTypes
<1>11. WireTypes' /\ HistoryTypes'
    BY <1>1, SameKnown DEF RingTypes, WireTypes, HistoryTypes, linkVars
<1> QED
    BY <1>9, <1>10, <1>11 DEF RingTypes

(* A node that was started again was stopped. *)
LEMMA RestartCounts ==
    ASSUME RingTypes, NEW n \in Nodes, Restart(n)
    PROVE  crashes' # 0
<1>1. crashes \in 0..MaxCrashes /\ crashes' = crashes + 1 /\ MaxCrashes \in Nat
    BY RingAssumption DEF Restart, RingTypes, HistoryTypes
<1> QED
    BY <1>1

LEMMA CrashTypes ==
    ASSUME RingTypes, NEW n \in Nodes, Crash(n) \/ CrashAnswered(n)
    PROVE  RingTypes'
<1>1. /\ crashes < MaxCrashes /\ crashes' = crashes + 1
      /\ inbox' = [inbox EXCEPT ![n] = << >>]
      /\ jobs' = [jobs EXCEPT ![n] = [w \in 1..Workers |-> << >>]]
      /\ notConfirmed' = [notConfirmed EXCEPT ![n] = << >>]
      /\ notWritten' = [notWritten EXCEPT ![n] = LoadJournal(localJournal[n])]
      /\ turn' = [turn EXCEPT ![n] = 1]
      /\ pc' = [pc EXCEPT ![n] = "poll"]
      /\ conn' = [conn EXCEPT ![n] = @ + 1]
      /\ waiting' = [waiting EXCEPT ![n] = FALSE]
      /\ wire' = [wire EXCEPT ![Prev(n)] = << >>]
      /\ UNCHANGED <<notSynced, localJournal, fails, store, clock, made, done, logged>>
    BY DEF Crash, CrashAnswered, Restart
<1>2. \A S : << >> \in Seq(S)
    BY EmptySeq
<1>3. LoadJournal(localJournal[n]) \in Seq(Received)
  <2> DEFINE log == localJournal[n]
             read(i) == [frame |-> log[i], packed |-> TRUE]
  <2>1. log \in Seq(Frames)
    BY DEF RingTypes, WorkerTypes
  <2> HIDE DEF log
  <2>2. Len(log) \in Nat /\ \A i \in 1..Len(log) : read(i) \in Received
    BY <2>1, LenProperties, ElementOfSeq DEF Received
  <2> HIDE DEF read
  <2>3. [i \in 1..Len(log) |-> read(i)] \in Seq(Received)
    BY <2>2, IsASeq
  <2> QED
    BY <2>3 DEF log, read, LoadJournal
<1>4. WorkerTypes'
  <2>1. /\ inbox' \in [Nodes -> Seq(Items)] /\ notWritten' \in [Nodes -> Seq(Received)]
        /\ notConfirmed' \in [Nodes -> Seq(Known)]
    BY <1>1, <1>2, <1>3 DEF RingTypes, WorkerTypes
  <2>2. turn' \in [Nodes -> 1..Workers]
    BY <1>1, RingAssumption DEF RingTypes, WorkerTypes
  <2> QED
    BY <1>1, <2>1, <2>2, SameKnown DEF RingTypes, WorkerTypes
<1>5. WireTypes'
  <2>1. wire' \in [Nodes -> Seq(Sent)]
    BY <1>1, <1>2 DEF RingTypes, WireTypes
  <2>2. answer' \in [Nodes -> BOOLEAN]
    BY DEF Crash, CrashAnswered, RingTypes, WireTypes
  <2> QED
    BY <1>1, <2>1, <2>2, SameKnown DEF RingTypes, WireTypes
<1>6. StoreTypes'
  <2>1. DOMAIN jobs' = Nodes /\ \A k \in Nodes : jobs'[k] \in [1..Workers -> Seq(Foreign(k))]
    BY <1>1, <1>2 DEF RingTypes, StoreTypes
  <2> QED
    BY <1>1, <2>1, SameKnown DEF RingTypes, StoreTypes
<1>7. HistoryTypes'
  <2>1. acked' \in [Nodes -> SUBSET Issued]
    <3>1. CASE CrashAnswered(n)
      <4> DEFINE first == Head(wire[Prev(n)])
      <4>1. wire[Prev(n)] # << >> /\ acked' = [acked EXCEPT ![n] = @ \cup UpdatesOf(first.frame)]
        BY <3>1 DEF CrashAnswered
      <4>2. first \in Sent
        BY <4>1, ModuloNodes, HeadTailProperties DEF RingTypes, WireTypes
      <4> HIDE DEF first
      <4>3. UpdatesOf(first.frame) \subseteq Issued
        BY <4>2, KnownUpdates DEF Sent, Frames
      <4> QED
        BY <4>1, <4>3 DEF RingTypes, HistoryTypes
    <3>2. CASE acked' = acked
      BY <3>2 DEF RingTypes, HistoryTypes
    <3> QED
      BY <3>1, <3>2 DEF Crash
  <2> QED
    BY <1>1, <2>1, SameKnown, RingAssumption DEF RingTypes, HistoryTypes
<1> QED
    BY <1>4, <1>5, <1>6, <1>7 DEF RingTypes

LEMMA TypesInit == Init => RingTypes
<1> SUFFICES ASSUME Init PROVE RingTypes
    OBVIOUS
<1>1. \A S : << >> \in Seq(S)
    BY EmptySeq
<1>2. WorkerTypes
    BY <1>1, RingAssumption DEF Init, WorkerTypes
<1>3. WireTypes
    BY <1>1, RingAssumption DEF Init, WireTypes
<1>4. StoreTypes
  <2>1. \A n \in Nodes : jobs[n] \in [1..Workers -> Seq(Foreign(n))]
    BY <1>1 DEF Init
  <2>2. made = << >> /\ Len(made) = 0
    BY EmptySeq DEF Init
  <2>3. store \in [Nodes -> [update : 0..MaxUpdates, version : Versions]]
    BY RingAssumption DEF Init, Versions, NoVersion
  <2> QED
    BY <1>1, <2>1, <2>2, <2>3, RingAssumption DEF Init, StoreTypes
<1>5. HistoryTypes
    BY RingAssumption DEF Init, HistoryTypes
<1> QED
    BY <1>2, <1>3, <1>4, <1>5 DEF RingTypes

LEMMA TypesStep == RingInv /\ RingTypes /\ [Step]_vars => RingTypes'
<1> SUFFICES ASSUME RingInv, RingTypes, [Step]_vars
             PROVE  RingTypes'
    OBVIOUS
<1>1. CASE Tick
    BY <1>1, TickTypes
<1>2. ASSUME NEW n \in Nodes, ClientUpdate(n)
      PROVE  RingTypes'
    BY <1>2, ClientUpdateTypes
<1>3. ASSUME NEW n \in Nodes, SyncStep(n) \/ SendFails(n)
      PROVE  RingTypes'
    BY <1>3, TakeBatchTypes, LinkStepTypes, DropTypes, WriteSyncTypes DEF SyncStep
<1>4. ASSUME NEW n \in Nodes, Dispatch(n) \/ FrameLost(n) \/ Crash(n) \/ CrashAnswered(n)
      PROVE  RingTypes'
    BY <1>4, DispatchTypes, FrameLostTypes, CrashTypes
<1>5. ASSUME NEW n \in Nodes, NEW w \in 1..Workers, ExecuteUpdate(n, w)
      PROVE  RingTypes'
    BY <1>5, ExecuteUpdateTypes
<1>6. CASE UNCHANGED vars
    BY <1>6, SameKnown DEF vars, workerVars, linkVars, storeVars,
       RingTypes, WorkerTypes, WireTypes, StoreTypes, HistoryTypes
<1> QED
    BY <1>1, <1>2, <1>3, <1>4, <1>5, <1>6 DEF Step

LEMMA TypesImplyTypeOK ==
    ASSUME RingInv, RingTypes
    PROVE  TypeOK
<1>1. Issued \subseteq UpdateIds
  <2>1. Len(made) \in Nat
    BY LenProperties DEF RingTypes, StoreTypes
  <2> QED
    BY <2>1, RingAssumption DEF Issued, UpdateIds, RingTypes, StoreTypes
<1>2. Known \subseteq Query /\ Items \subseteq Item
    BY DEF Known, Items, Item
<1>3. \A f \in Frames : IsFrame(f)
    BY <1>2, SeqMonotonic DEF Frames, IsFrame
<1>4. ASSUME NEW n \in Nodes
      PROVE  /\ inbox[n] \in Seq(Item)
             /\ notConfirmed[n] \in Seq(Query)
             /\ \A i \in 1..Len(notSynced[n]) : IsFrame(notSynced[n][i])
             /\ \A i \in 1..Len(localJournal[n]) : IsFrame(localJournal[n][i])
             /\ \A i \in 1..Len(wire[n]) :
                  IsFrame(wire[n][i].frame) /\ wire[n][i].conn \in 0..conn[n]
             /\ \A i \in 1..Len(notWritten[n]) :
                  IsFrame(notWritten[n][i].frame) /\ notWritten[n][i].packed \in BOOLEAN
             /\ \A w \in 1..Workers : jobs[n][w] \in Seq(Query)
  <2>1. inbox[n] \in Seq(Item) /\ notConfirmed[n] \in Seq(Query)
    BY <1>2, SeqMonotonic DEF RingTypes, WorkerTypes
  <2>2. /\ \A i \in 1..Len(notSynced[n]) : notSynced[n][i] \in Frames
        /\ \A i \in 1..Len(localJournal[n]) : localJournal[n][i] \in Frames
        /\ \A i \in 1..Len(notWritten[n]) : notWritten[n][i] \in Received
        /\ \A i \in 1..Len(wire[n]) : wire[n][i] \in Sent
    BY ElementOfSeq DEF RingTypes, WorkerTypes, WireTypes
  <2>3. \A i \in 1..Len(wire[n]) : wire[n][i].conn \in 0..conn[n]
    BY DEF RingInv, LinkInv, OneInFlight
  <2>4. \A w \in 1..Workers : jobs[n][w] \in Seq(Query)
    <3>1. Foreign(n) \subseteq Query
      BY <1>2 DEF Foreign
    <3>2. \A w \in 1..Workers : jobs[n][w] \in Seq(Foreign(n))
      BY DEF RingTypes, StoreTypes
    <3> QED
      BY <3>1, <3>2, SeqMonotonic
  <2> QED
    BY <1>3, <2>1, <2>2, <2>3, <2>4 DEF Received, Sent
<1>5. ASSUME NEW n \in Nodes
      PROVE  /\ turn[n] \in 1..Workers
             /\ waiting[n] \in BOOLEAN /\ answer[n] \in BOOLEAN
             /\ store[n] \in [update : 0..MaxUpdates, version : Versions]
             /\ logged[n] \subseteq UpdateIds
             /\ acked[n] \subseteq UpdateIds
             /\ done[n] \subseteq UpdateIds
    BY <1>1 DEF RingTypes, WorkerTypes, WireTypes, StoreTypes, HistoryTypes
<1>6. /\ pc \in [Nodes -> {"poll", "notify", "sync", "write"}]
      /\ clock \in 0..MaxClock
      /\ fails \in 0..MaxFails /\ crashes \in 0..MaxCrashes
      /\ made \in Seq([time : 0..MaxClock, server : Writers])
    BY DEF RingTypes, WorkerTypes, WireTypes, StoreTypes, HistoryTypes
<1> QED
    BY <1>4, <1>5, <1>6 DEF TypeOK

(* Every queue, frame and journal of every node holds queries of updates    *)
(* that were made, under the name of the node that made them, however many  *)
(* connections break and nodes crash.                                       *)
THEOREM RingTyping == Spec => [](RingInv /\ RingTypes)
<1>1. Init => RingInv /\ RingTypes
    BY RingInit, TypesInit
<1>2. RingInv /\ RingTypes /\ [Step]_vars => (RingInv /\ RingTypes)'
    BY RingStep, TypesStep
<1> QED
    BY <1>1, <1>2, PTL DEF Spec

THEOREM RingTypeOK == Spec => []TypeOK
<1>1. RingInv /\ RingTypes => TypeOK
    BY TypesImplyTypeOK
<1> QED
    BY <1>1, RingTyping, PTL

-----------------------------------------------------------------------------
(* The order of a node's own updates on the way to the next node. *)

Queued(n) == UpdatesOf(Queries(inbox[n], "Q"))

(* The updates of the queries that wait in a queue. *)
LEMMA UpdatesQueued ==
    ASSUME NEW S, NEW items \in Seq([kind : {"R", "Q"}, query : S])
    PROVE  UpdatesOf(Queries(items, "Q"))
             = {m.query.update : m \in {k \in Members(items) : k.kind = "Q"}}
<1>1. Members(Queries(items, "Q"))
        = {items[i].query : i \in {j \in 1..Len(items) : items[j].kind = "Q"}}
    BY QueriesMembers
<1>2. UpdatesOf(Queries(items, "Q")) = {q.update : q \in Members(Queries(items, "Q"))}
    BY DEF UpdatesOf, Members
<1>3. Members(Queries(items, "Q")) = {m.query : m \in {k \in Members(items) : k.kind = "Q"}}
    BY <1>1 DEF Members
<1> QED
    BY <1>2, <1>3

LEMMA UpdatesAppended ==
    ASSUME NEW S, NEW items \in Seq([kind : {"R", "Q"}, query : S]),
           NEW e \in [kind : {"R", "Q"}, query : S]
    PROVE  UpdatesOf(Queries(Append(items, e), "Q"))
             = UpdatesOf(Queries(items, "Q")) \cup IF e.kind = "Q" THEN {e.query.update} ELSE {}
<1> DEFINE I == [kind : {"R", "Q"}, query : S]
           Q(s) == {k \in Members(s) : k.kind = "Q"}
<1>1. Append(items, e) \in Seq(I) /\ Members(Append(items, e)) = Members(items) \cup {e}
  <2>1. items \in Seq(I) /\ e \in I
    OBVIOUS
  <2> HIDE DEF I
  <2> QED
    BY <2>1, MembersAppend
<1>2. /\ UpdatesOf(Queries(items, "Q")) = {m.query.update : m \in Q(items)}
      /\ UpdatesOf(Queries(Append(items, e), "Q"))
           = {m.query.update : m \in Q(Append(items, e))}
    BY <1>1, UpdatesQueued
<1>3. Q(Append(items, e)) = Q(items) \cup IF e.kind = "Q" THEN {e} ELSE {}
    BY <1>1
<1> HIDE DEF Q
<1> QED
    BY <1>2, <1>3

LEMMA ReplyAppended ==
    ASSUME NEW items \in Seq(Items), NEW e \in Items, e.kind # "Q"
    PROVE  UpdatesOf(Queries(Append(items, e), "Q")) = UpdatesOf(Queries(items, "Q"))
<1>1. UpdatesOf(Queries(Append(items, e), "Q"))
        = UpdatesOf(Queries(items, "Q")) \cup IF e.kind = "Q" THEN {e.query.update} ELSE {}
    BY UpdatesAppended DEF Items
<1> QED
    BY <1>1

LEMMA SameQueued == ASSUME NEW n, inbox'[n] = inbox[n] PROVE Queued(n)' = Queued(n)
    BY DEF Queued, Queries, UpdatesOf

LEMMA NoneQueued == ASSUME NEW n, inbox'[n] = << >> PROVE Queued(n)' = {}
<1>1. << >> \in Seq(Items) /\ Members(<< >>) = {}
    BY EmptySeq DEF Members
<1>2. UpdatesOf(Queries(<< >>, "Q")) = {m.query.update : m \in {k \in Members(<< >>) : k.kind = "Q"}}
    BY <1>1, UpdatesQueued DEF Items
<1> QED
    BY <1>1, <1>2 DEF Queued

LEMMA QueuedUpdates ==
    ASSUME RingTypes, NEW n \in Nodes
    PROVE  Queued(n) \subseteq Issued
<1>1. Queries(inbox[n], "Q") \in Seq(Known)
    BY QueriesMembers DEF RingTypes, WorkerTypes, Items
<1> QED
    BY <1>1, KnownUpdates DEF Queued

LEMMA FrameUpdates ==
    ASSUME RingTypes, NEW n \in Nodes
    PROVE  /\ Len(notSynced[n]) \in Nat
           /\ \A i \in 1..Len(notSynced[n]) : UpdatesOf(notSynced[n][i]) \subseteq Issued
           /\ \A i \in 1..Len(wire[n]) : UpdatesOf(wire[n][i].frame) \subseteq Issued
<1>1. /\ Len(notSynced[n]) \in Nat
      /\ \A i \in 1..Len(notSynced[n]) : notSynced[n][i] \in Frames
      /\ \A i \in 1..Len(wire[n]) : wire[n][i] \in Sent
    BY LenProperties, ElementOfSeq DEF RingTypes, WorkerTypes, WireTypes
<1> QED
    BY <1>1, KnownUpdates DEF Frames, Sent

OrderOf(o) == /\ QueuedLater(o) /\ FramesInOrder(o) /\ LoggedFirst(o)
              /\ HeadOrReceived(o) /\ ReceivedInOrder(o)

(* Steps that take nothing from what a node has to send, and bring it no *)
(* update of its own.                                                    *)
LEMMA OrderStays ==
    ASSUME NEW o \in Nodes, OrderOf(o), made' = made,
           logged'[o] = logged[o], notSynced'[o] = notSynced[o],
           Queued(o)' \cap Own(o) \subseteq Queued(o),
           acked'[Next(o)] = acked[Next(o)],
           \A i \in 1..Len(wire'[o]) :
             \/ \E j \in 1..Len(wire[o]) : wire'[o][i] = wire[o][j]
             \/ notSynced[o] # << >> /\ wire'[o][i].frame = Head(notSynced[o])
    PROVE  OrderOf(o)'
<1>1. Own(o)' = Own(o)
    BY DEF Own, Issued
<1>2. QueuedLater(o)'
    BY <1>1 DEF OrderOf, QueuedLater, Queued
<1>3. FramesInOrder(o)'
  <2>1. \A i : UpdatesOf(notSynced'[o][i]) = UpdatesOf(notSynced[o][i])
    OBVIOUS
  <2> QED
    BY <1>1, <2>1 DEF OrderOf, FramesInOrder
<1>4. HeadOrReceived(o)'
    BY DEF OrderOf, HeadOrReceived, UpdatesOf
<1>5. ReceivedInOrder(o)'
    BY <1>1 DEF OrderOf, ReceivedInOrder
<1>6. LoggedFirst(o)'
    BY DEF OrderOf, LoggedFirst, UpdatesOf
<1> QED
    BY <1>2, <1>3, <1>4, <1>5, <1>6 DEF OrderOf

LEMMA OrderAside ==
    ASSUME RingTypes, OrderInv,
           UNCHANGED <<made, logged, inbox, notSynced, wire, acked>>
    PROVE  OrderInv'
<1>1. ASSUME NEW o \in Nodes
      PROVE  OrderOf(o)'
  <2>1. OrderOf(o)
    BY DEF OrderInv, OrderOf
  <2>2. Queued(o)' = Queued(o)
    BY DEF Queued, Queries, UpdatesOf
  <2> QED
    BY <2>1, <2>2, OrderStays
<1> QED
    BY <1>1 DEF OrderInv, OrderOf

(* A client's update is later than all that its node has logged. *)
LEMMA OrderClientUpdate ==
    ASSUME RingTypes, RingTypes', OrderInv, NEW n \in Nodes, ClientUpdate(n)
    PROVE  OrderInv'
<1> DEFINE u == Len(made) + 1
           q == [update |-> u, origin |-> n, version |-> NoVersion]
<1>1. /\ n \in Writers
      /\ made' = Append(made, [time |-> clock, server |-> n])
      /\ inbox' = [inbox EXCEPT ![n] = Append(@, Forward(q))]
      /\ UNCHANGED <<notSynced, linkVars, logged, acked>>
      /\ Forward(q).kind = "Q" /\ Forward(q).query.update = u
    BY DEF ClientUpdate, Forward
<1> HIDE DEF q
<1>2. /\ Len(made) \in Nat /\ made'[u] = [time |-> clock, server |-> n]
      /\ \A v \in Issued : made'[v] = made[v]
      /\ Issued' = Issued \cup {u} /\ u \notin Issued
      /\ \A v \in Issued : v < u
  <2>1. [time |-> clock, server |-> n] \in [time : 0..MaxClock, server : Writers]
    BY <1>1 DEF RingTypes, StoreTypes
  <2>2. made \in Seq([time : 0..MaxClock, server : Writers])
    BY DEF RingTypes, StoreTypes
  <2>3. Len(made) \in Nat
    BY <2>2, LenProperties
  <2> QED
    BY <1>1, <2>1, <2>2, <2>3, MoreKnown DEF Issued
<1>3. ASSUME NEW o \in Nodes
      PROVE  OrderOf(o)'
  <2>1. /\ OrderOf(o) /\ notSynced'[o] = notSynced[o] /\ wire'[o] = wire[o]
        /\ logged'[o] = logged[o] /\ acked' = acked
    BY <1>1 DEF OrderInv, OrderOf, linkVars
  <2>2. Own(o)' \cap Issued = Own(o) /\ (o # n => Own(o)' = Own(o))
    BY <1>2 DEF Own
  <2>3. Queued(o)' = IF o = n THEN Queued(o) \cup {u} ELSE Queued(o)
    <3>1. CASE o # n
      <4>1. inbox'[o] = inbox[o]
        BY <1>1, <3>1 DEF RingTypes, WorkerTypes
      <4> QED
        BY <3>1, <4>1 DEF Queued, Queries, UpdatesOf
    <3>2. CASE o = n
      <4>1. Items \subseteq Items' /\ Forward(q) \in Items'
        <5>1. Items \subseteq Items'
          BY <1>2 DEF Items, Known
        <5>2. inbox'[n] \in Seq(Items') /\ inbox'[n] = Append(inbox[n], Forward(q))
          BY <1>1 DEF RingTypes, WorkerTypes
        <5>3. inbox[n] \in Seq(Items \cup {Forward(q)})
          BY SeqMonotonic DEF RingTypes, WorkerTypes
        <5>4. Len(inbox[n]) + 1 \in 1..Len(inbox'[n]) /\ inbox'[n][Len(inbox[n]) + 1] = Forward(q)
          BY <5>2, <5>3, AppendProperties, LenProperties
        <5> QED
          BY <5>1, <5>2, <5>4, ElementOfSeq
      <4>2. inbox[n] \in Seq(Items') /\ inbox'[n] = Append(inbox[n], Forward(q))
        BY <1>1, <4>1, SeqMonotonic DEF RingTypes, WorkerTypes
      <4>3. UpdatesOf(Queries(inbox'[n], "Q")) = UpdatesOf(Queries(inbox[n], "Q")) \cup {u}
        BY <1>1, <4>1, <4>2, UpdatesAppended DEF Items
      <4> QED
        BY <3>2, <4>3 DEF Queued
    <3> QED
      BY <3>1, <3>2
  <2>4. /\ logged[o] \subseteq Issued /\ Queued(o) \subseteq Issued
        /\ acked[Next(o)] \subseteq Issued
        /\ \A i \in 1..Len(notSynced[o]) : UpdatesOf(notSynced[o][i]) \subseteq Issued
    BY QueuedUpdates, FrameUpdates, ModuloNodes DEF RingTypes, HistoryTypes
  <2>5. QueuedLater(o)'
    <3>1. ASSUME NEW l \in logged[o] \cap Own(o)', NEW v \in Queued(o)' \cap Own(o)'
          PROVE  l < v
      <4>1. l \in Issued /\ l \in Own(o)
        BY <2>2, <2>4
      <4>2. CASE v = u
        BY <1>2, <4>1, <4>2
      <4>3. CASE v # u
        BY <2>1, <2>2, <2>3, <2>4, <4>1, <4>3 DEF OrderOf, QueuedLater, Queued
      <4> QED
        BY <4>2, <4>3
    <3> QED
      BY <2>1, <3>1 DEF QueuedLater, Queued
  <2>6. FramesInOrder(o)'
    <3>1. ASSUME NEW i \in 1..Len(notSynced[o]), NEW j \in 1..Len(notSynced[o]), i < j,
                 NEW l \in UpdatesOf(notSynced[o][i]) \cap Own(o)',
                 NEW v \in UpdatesOf(notSynced[o][j]) \cap Own(o)'
          PROVE  l < v
      <4>1. l \in Own(o) /\ v \in Own(o)
        BY <2>2, <2>4
      <4> QED
        BY <2>1, <3>1, <4>1 DEF OrderOf, FramesInOrder
    <3> QED
      BY <2>1, <3>1 DEF FramesInOrder, UpdatesOf
  <2>9. LoggedFirst(o)'
    BY <2>1 DEF OrderOf, LoggedFirst, UpdatesOf
  <2>7. HeadOrReceived(o)'
    BY <2>1 DEF OrderOf, HeadOrReceived, UpdatesOf
  <2>8. ReceivedInOrder(o)'
    BY <2>1, <2>2, <2>4 DEF OrderOf, ReceivedInOrder
  <2> QED
    BY <2>5, <2>6, <2>7, <2>8, <2>9 DEF OrderOf
<1> QED
    BY <1>3 DEF OrderInv, OrderOf

(* An update executed here was made elsewhere: the inbox gets none of the  *)
(* node's own.                                                             *)
LEMMA ExecutedInbox ==
    ASSUME RingTypes, NEW n \in Nodes, NEW w \in 1..Workers, ExecuteUpdate(n, w)
    PROVE  LET q == Head(jobs[n][w])
               older == CheckVersion(store[n].version, VersionOf(MakeSafe(q), n))
           IN  /\ q \in Foreign(n)
               /\ Queued(n)' = Queued(n) \cup IF older THEN {} ELSE {q.update}
               /\ Queued(n)' \subseteq Queued(n) \cup {q.update}
               /\ Queued(n) \subseteq Queued(n)'
               /\ ~older => q.update \in Queued(n)'
               /\ Members(inbox[n]) \subseteq Members(inbox'[n])
               /\ Reply(q) \in Members(inbox'[n])
               /\ \A k \in Nodes : k # n => inbox'[k] = inbox[k]
<1> DEFINE q == Head(jobs[n][w])
           v == VersionOf(MakeSafe(q), n)
           older == CheckVersion(store[n].version, v)
           e == Forward([q EXCEPT !.version = v])
           forward == IF older THEN << >> ELSE <<e>>
<1>1. /\ jobs[n][w] # << >>
      /\ inbox' = [inbox EXCEPT ![n] = @ \o forward \o <<Reply(q)>>]
    BY DEF ExecuteUpdate
<1>2. q \in Foreign(n)
  <2>1. jobs[n][w] \in Seq(Foreign(n))
    BY DEF RingTypes, StoreTypes
  <2> QED
    BY <1>1, <2>1, HeadTailProperties
<1>3. [q EXCEPT !.version = v] \in Known /\ q \in Known /\ [q EXCEPT !.version = v].update = q.update
  <2>1. v \in Versions
    BY DEF VersionOf, MakeSafe, Now, Versions, Version, RingTypes, StoreTypes
  <2> HIDE DEF v
  <2> QED
    BY <1>2, <2>1 DEF Foreign, Known, Query
<1>4. e \in Items /\ e.kind = "Q" /\ e.query.update = q.update
    BY <1>3 DEF Forward, Items
<1>5. Reply(q) \in Items /\ Reply(q).kind = "R"
    BY <1>3 DEF Reply, Items
<1>6. inbox[n] \in Seq(Items) /\ inbox'[n] = inbox[n] \o forward \o <<Reply(q)>>
    BY <1>1 DEF RingTypes, WorkerTypes
<1> HIDE DEF v, e, older
<1>7. CASE older
  <2>1. inbox'[n] = Append(inbox[n], Reply(q))
    BY <1>5, <1>6, <1>7, ConcatEmptySeq, AppendIsConcat
  <2>2. Members(Append(inbox[n], Reply(q))) = Members(inbox[n]) \cup {Reply(q)}
    BY <1>5, <1>6, MembersAppend
  <2>3. UpdatesOf(Queries(Append(inbox[n], Reply(q)), "Q")) = UpdatesOf(Queries(inbox[n], "Q"))
    <3>1. Reply(q).kind # "Q"
      BY <1>5
    <3> QED
      BY <1>5, <1>6, <3>1, ReplyAppended
  <2>4. Queued(n)' = Queued(n)
    BY <2>1, <2>3 DEF Queued
  <2>5. Members(inbox'[n]) = Members(inbox[n]) \cup {Reply(q)}
    BY <2>1, <2>2
  <2> QED
    BY <1>1, <1>2, <1>7, <2>4, <2>5 DEF RingTypes, WorkerTypes, older, v, e
<1>8. CASE ~older
  <2> DEFINE more == Append(inbox[n], e)
  <2>1. more \in Seq(Items) /\ Members(more) = Members(inbox[n]) \cup {e}
    BY <1>4, <1>6, MembersAppend
  <2>2. inbox'[n] = Append(more, Reply(q))
    BY <1>4, <1>5, <1>6, <1>8, <2>1, AppendIsConcat
  <2>3. UpdatesOf(Queries(more, "Q")) = Queued(n) \cup {q.update}
    BY <1>4, <1>6, UpdatesAppended DEF Queued, Items
  <2> HIDE DEF more
  <2>4. Members(inbox'[n]) = Members(more) \cup {Reply(q)}
    BY <1>5, <2>1, <2>2, MembersAppend
  <2>5. Queued(n)' = UpdatesOf(Queries(more, "Q"))
    <3>1. Reply(q).kind # "Q"
      BY <1>5
    <3>2. UpdatesOf(Queries(Append(more, Reply(q)), "Q")) = UpdatesOf(Queries(more, "Q"))
      BY <1>5, <2>1, <3>1, ReplyAppended
    <3> QED
      BY <2>2, <3>2 DEF Queued
  <2>6. Members(inbox'[n]) = Members(inbox[n]) \cup {Reply(q)} \cup {e}
    BY <2>1, <2>4
  <2> QED
    BY <1>1, <1>2, <1>8, <2>3, <2>5, <2>6 DEF RingTypes, WorkerTypes, older, v, e
<1> QED
    BY <1>7, <1>8

LEMMA OrderExecuteUpdate ==
    ASSUME RingTypes, OrderInv, NEW n \in Nodes, NEW w \in 1..Workers, ExecuteUpdate(n, w)
    PROVE  OrderInv'
<1>1. /\ UNCHANGED <<notSynced, wire, made, logged, acked>>
    BY DEF ExecuteUpdate, linkVars
<1>2. ASSUME NEW o \in Nodes
      PROVE  Queued(o)' \cap Own(o) \subseteq Queued(o)
  <2>1. CASE o = n
    <3>1. Head(jobs[n][w]) \in Foreign(n)
      BY ExecutedInbox
    <3>2. Head(jobs[n][w]).update \notin Own(n)
      BY <3>1 DEF Foreign, Known, Own
    <3>3. Queued(n)' \subseteq Queued(n) \cup {Head(jobs[n][w]).update}
      BY ExecutedInbox
    <3> QED
      BY <2>1, <3>2, <3>3
  <2>2. CASE o # n
    <3>1. inbox'[o] = inbox[o]
      BY <2>2, ExecutedInbox
    <3> QED
      BY <3>1, SameQueued
  <2> QED
    BY <2>1, <2>2
<1>3. ASSUME NEW o \in Nodes
      PROVE  OrderOf(o)'
    BY <1>1, <1>2, OrderStays DEF OrderInv, OrderOf
<1> QED
    BY <1>3 DEF OrderInv, OrderOf

(* A batch goes behind what is to be sent: its own updates are later ones. *)
LEMMA OrderTakeBatch ==
    ASSUME RingTypes, OrderInv, NEW n \in Nodes, TakeBatch(n)
    PROVE  OrderInv'
<1> DEFINE updates == Queries(inbox[n], "Q")
<1>1. /\ \/ UNCHANGED <<notSynced, logged>>
         \/ /\ notSynced' = [notSynced EXCEPT ![n] = Append(@, updates)]
            /\ logged' = [logged EXCEPT ![n] = @ \cup UpdatesOf(updates)]
      /\ inbox' = [inbox EXCEPT ![n] = << >>]
      /\ UNCHANGED <<made, wire, acked>>
      /\ UpdatesOf(updates) = Queued(n)
    BY DEF TakeBatch, linkVars, storeVars, Queued
<1> HIDE DEF updates
<1>2. Queued(n)' = {}
    BY <1>1, NoneQueued DEF RingTypes, WorkerTypes
<1>3. ASSUME NEW o \in Nodes, o # n \/ UNCHANGED <<notSynced, logged>>
      PROVE  OrderOf(o)'
  <2>1. /\ notSynced'[o] = notSynced[o] /\ logged'[o] = logged[o]
        /\ o # n => inbox'[o] = inbox[o]
    BY <1>1, <1>3 DEF RingTypes, WorkerTypes, HistoryTypes
  <2>2. Queued(o)' \subseteq Queued(o)
    BY <1>2, <2>1, SameQueued
  <2> QED
    BY <1>1, <2>1, <2>2, OrderStays DEF OrderInv, OrderOf
<1>4. ASSUME notSynced' = [notSynced EXCEPT ![n] = Append(@, updates)],
             logged' = [logged EXCEPT ![n] = @ \cup UpdatesOf(updates)]
      PROVE  OrderOf(n)'
  <2> DEFINE last == Len(notSynced[n]) + 1
  <2>1. /\ OrderOf(n) /\ logged'[n] = logged[n] \cup Queued(n)
        /\ notSynced'[n] = Append(notSynced[n], updates)
    BY <1>1, <1>4 DEF OrderInv, OrderOf, RingTypes, WorkerTypes, HistoryTypes
  <2>2. /\ Len(notSynced[n]) \in Nat /\ Len(notSynced'[n]) = last
        /\ \A i \in 1..Len(notSynced[n]) : notSynced'[n][i] = notSynced[n][i]
        /\ notSynced'[n][last] = updates
        /\ notSynced[n] # << >> => Head(notSynced'[n]) = Head(notSynced[n]) /\ notSynced'[n] # << >>
    <3>1. IsSequence(notSynced[n])
      BY LenProperties, SeqOfRange DEF IsSequence, RingTypes, WorkerTypes
    <3>2. /\ Len(notSynced[n]) \in Nat /\ Len(notSynced'[n]) = last
          /\ \A i \in 1..Len(notSynced[n]) : notSynced'[n][i] = notSynced[n][i]
          /\ notSynced'[n][last] = updates
          /\ Head(notSynced'[n]) = notSynced'[n][1] /\ notSynced'[n] # << >>
      <4> DEFINE s == notSynced[n]
                 t == Append(notSynced[n], updates)
      <4>1. /\ Len(s) \in Nat /\ Len(t) = Len(s) + 1 /\ IsSequence(t) /\ t # << >>
            /\ \A i \in 1..Len(s) : t[i] = s[i]
            /\ t[Len(s) + 1] = updates
        BY <3>1, SequenceAppend, SequenceTail
      <4> HIDE DEF t
      <4>2. Head(t) = t[1]
        BY <4>1, SequenceTail
      <4> QED
        BY <2>1, <4>1, <4>2 DEF t
    <3>4. notSynced[n] # << >> => Head(notSynced[n]) = notSynced[n][1] /\ 1 \in 1..Len(notSynced[n])
      BY <3>1, SequenceTail
    <3> QED
      BY <3>2, <3>4
  <2>3. Own(n)' = Own(n)
    BY <1>1 DEF Own, Issued
  <2>4. \A l \in logged[n] \cap Own(n), v \in Queued(n) \cap Own(n) : l < v
    BY <2>1 DEF OrderOf, QueuedLater, Queued
  <2>5. \A i \in 1..Len(notSynced[n]) : UpdatesOf(notSynced[n][i]) \subseteq logged[n]
    BY <2>1 DEF OrderOf, LoggedFirst
  <2>6. acked[Next(n)] \subseteq logged[n] /\ acked'[Next(n)] = acked[Next(n)]
    BY <1>1, <2>1 DEF OrderOf, LoggedFirst
  <2>7. QueuedLater(n)'
    BY <1>2, <2>3 DEF QueuedLater, Queued
  <2>8. FramesInOrder(n)'
    <3>1. ASSUME NEW i \in 1..last, NEW j \in 1..last, i < j,
                 NEW l \in UpdatesOf(notSynced'[n][i]) \cap Own(n),
                 NEW v \in UpdatesOf(notSynced'[n][j]) \cap Own(n)
          PROVE  l < v
      <4>1. i \in 1..Len(notSynced[n]) /\ (j \in 1..Len(notSynced[n]) \/ j = last)
        BY <2>2, <3>1
      <4>2. CASE j = last
        BY <1>1, <2>2, <2>4, <2>5, <3>1, <4>1, <4>2
      <4>3. CASE j \in 1..Len(notSynced[n])
        BY <2>1, <2>2, <3>1, <4>1, <4>3 DEF OrderOf, FramesInOrder
      <4> QED
        BY <4>1, <4>2, <4>3
    <3>2. \A i : UpdatesOf(notSynced[n][i])' = UpdatesOf(notSynced'[n][i])
      BY DEF UpdatesOf
    <3> QED
      BY <2>2, <2>3, <3>1, <3>2 DEF FramesInOrder
  <2>9. LoggedFirst(n)'
    <3>1. ASSUME NEW i \in 1..last
          PROVE  UpdatesOf(notSynced'[n][i]) \subseteq logged'[n]
      <4>1. i \in 1..Len(notSynced[n]) \/ i = last
        BY <2>2
      <4> QED
        BY <1>1, <2>1, <2>2, <2>5, <4>1
    <3> QED
      BY <2>1, <2>2, <2>6, <3>1 DEF LoggedFirst, UpdatesOf
  <2>10. HeadOrReceived(n)'
    BY <1>1, <2>1, <2>2 DEF OrderOf, HeadOrReceived, UpdatesOf
  <2>11. ReceivedInOrder(n)'
    <3>1. ASSUME NEW l \in Own(n), NEW v \in Own(n), l < v,
                 l \in logged'[n], v \in acked[Next(n)]
          PROVE  l \in acked[Next(n)]
      <4>1. v \in logged[n] /\ v \in Nat /\ l \in Nat
        BY <2>6, <3>1 DEF Own, Issued
      <4>2. l \notin Queued(n)
        BY <2>4, <3>1, <4>1
      <4> QED
        BY <2>1, <3>1, <4>2 DEF OrderOf, ReceivedInOrder
    <3> QED
      BY <2>3, <2>6, <3>1 DEF ReceivedInOrder
  <2> QED
    BY <2>7, <2>8, <2>9, <2>10, <2>11 DEF OrderOf
<1> QED
    BY <1>1, <1>3, <1>4 DEF OrderInv, OrderOf

(* What goes out is the head; what leaves the wire needs no order. *)
LEMMA OrderWire ==
    ASSUME RingTypes, OrderInv, NEW n \in Nodes,
           SendFrame(n) \/ FrameLost(n) \/ Crash(n)
    PROVE  OrderInv'
<1>1. UNCHANGED <<made, logged, notSynced, acked>>
    BY DEF SendFrame, FrameLost, Crash, Restart, storeVars, workerVars
<1>2. ASSUME NEW o \in Nodes
      PROVE  Queued(o)' \subseteq Queued(o)
  <2>1. inbox'[o] = inbox[o] \/ inbox'[o] = << >>
    BY DEF SendFrame, FrameLost, Crash, Restart, workerVars, RingTypes, WorkerTypes
  <2> QED
    BY <2>1, SameQueued, NoneQueued
<1>3. ASSUME NEW o \in Nodes, NEW i \in 1..Len(wire'[o])
      PROVE  \/ \E j \in 1..Len(wire[o]) : wire'[o][i] = wire[o][j]
             \/ notSynced[o] # << >> /\ wire'[o][i].frame = Head(notSynced[o])
  <2>1. wire[o] \in Seq(Sent) /\ Len(wire[o]) \in Nat
    BY LenProperties DEF RingTypes, WireTypes
  <2>2. CASE wire'[o] = wire[o]
    BY <2>2
  <2>3. CASE wire'[o] = << >>
    BY <2>3, EmptySeq
  <2>4. CASE wire[o] # << >> /\ wire'[o] = Tail(wire[o])
    <3>1. /\ Len(wire'[o]) = Len(wire[o]) - 1
          /\ wire'[o][i] = wire[o][i + 1]
      BY <2>1, <2>4, HeadTailProperties
    <3>2. i + 1 \in 1..Len(wire[o])
      BY <2>1, <3>1
    <3> QED
      BY <3>1, <3>2
  <2>5. CASE /\ notSynced[o] # << >>
             /\ wire'[o] = Append(wire[o], [frame |-> Head(notSynced[o]), conn |-> conn[o]])
    <3> DEFINE e == [frame |-> Head(notSynced[o]), conn |-> conn[o]]
    <3>1. e.frame = Head(notSynced[o]) /\ wire'[o] = Append(wire[o], e)
      BY <2>5
    <3> HIDE DEF e
    <3>2. wire[o] \in Seq(Sent \cup {e})
      BY <2>1, SeqMonotonic
    <3>3. /\ Len(wire'[o]) = Len(wire[o]) + 1
          /\ \A j \in 1..Len(wire[o]) : wire'[o][j] = wire[o][j]
          /\ wire'[o][Len(wire[o]) + 1] = e
      BY <3>1, <3>2, AppendProperties
    <3>4. i \in 1..Len(wire[o]) \/ i = Len(wire[o]) + 1
      BY <2>1, <3>3
    <3> QED
      BY <2>5, <3>1, <3>3, <3>4
  <2> QED
    BY <2>2, <2>3, <2>4, <2>5 DEF SendFrame, FrameLost, Crash, Restart, RingTypes, WireTypes
<1>4. ASSUME NEW o \in Nodes
      PROVE  OrderOf(o)'
    BY <1>1, <1>2, <1>3, OrderStays DEF OrderInv, OrderOf
<1> QED
    BY <1>4 DEF OrderInv, OrderOf

(* The head was received when it is taken out; the others stay in order. *)
LEMMA OrderAcknowledged ==
    ASSUME RingTypes, RingInv, OrderInv, NEW n \in Nodes, FrameAcknowledged(n)
    PROVE  OrderInv'
<1>1. /\ waiting[n] /\ answer[n]
      /\ notSynced' = [notSynced EXCEPT ![n] = Tail(@)]
      /\ UNCHANGED <<inbox, wire, made, logged, acked>>
    BY DEF FrameAcknowledged, storeVars
<1>2. ASSUME NEW o \in Nodes, o # n
      PROVE  OrderOf(o)'
  <2>1. notSynced'[o] = notSynced[o] /\ inbox'[o] = inbox[o]
    BY <1>1, <1>2 DEF RingTypes, WorkerTypes
  <2> QED
    BY <1>1, <2>1, SameQueued, OrderStays DEF OrderInv, OrderOf
<1>3. OrderOf(n)'
  <2>1. OrderOf(n)
    BY DEF OrderInv, OrderOf
  <2>2. notSynced[n] # << >> /\ UpdatesOf(Head(notSynced[n])) \subseteq acked[Next(n)]
    BY <1>1 DEF RingInv, LinkInv, WaitsForHead, AnswerMeansReceived
  <2>3. /\ notSynced'[n] = Tail(notSynced[n]) /\ IsSequence(notSynced[n])
        /\ Len(notSynced[n]) \in Nat /\ Len(notSynced'[n]) = Len(notSynced[n]) - 1
        /\ \A i \in 1..Len(notSynced'[n]) : notSynced'[n][i] = notSynced[n][i + 1]
    BY <1>1, <2>2, SequenceTail DEF RingTypes, WorkerTypes, RingInv, LinkInv, LinkTypes
  <2>4. \A i \in 1..Len(notSynced'[n]) : i + 1 \in 1..Len(notSynced[n])
    BY <2>3
  <2>5. Own(n)' = Own(n)
    BY <1>1 DEF Own, Issued
  <2>6. \A i : UpdatesOf(notSynced[n][i])' = UpdatesOf(notSynced'[n][i])
    BY DEF UpdatesOf
  <2>7. Queued(n)' = Queued(n)
    BY <1>1, SameQueued
  <2>8. QueuedLater(n)'
    BY <1>1, <2>1, <2>5, <2>7 DEF OrderOf, QueuedLater, Queued
  <2>9. FramesInOrder(n)'
    <3>1. ASSUME NEW i \in 1..Len(notSynced'[n]), NEW j \in 1..Len(notSynced'[n]), i < j,
                 NEW l \in UpdatesOf(notSynced'[n][i]) \cap Own(n),
                 NEW v \in UpdatesOf(notSynced'[n][j]) \cap Own(n)
          PROVE  l < v
      <4>1. /\ i + 1 \in 1..Len(notSynced[n]) /\ j + 1 \in 1..Len(notSynced[n]) /\ i + 1 < j + 1
            /\ notSynced'[n][i] = notSynced[n][i + 1] /\ notSynced'[n][j] = notSynced[n][j + 1]
        BY <2>3, <2>4, <3>1
      <4> QED
        BY <2>1, <3>1, <4>1 DEF OrderOf, FramesInOrder
    <3> QED
      BY <2>5, <2>6, <3>1 DEF FramesInOrder
  <2>10. LoggedFirst(n)'
    BY <1>1, <2>1, <2>3, <2>4, <2>6 DEF OrderOf, LoggedFirst
  <2>11. HeadOrReceived(n)'
    BY <1>1, <2>1, <2>2 DEF OrderOf, HeadOrReceived, UpdatesOf
  <2>12. ReceivedInOrder(n)'
    BY <1>1, <2>1, <2>5 DEF OrderOf, ReceivedInOrder
  <2> QED
    BY <2>8, <2>9, <2>10, <2>11, <2>12 DEF OrderOf
<1> QED
    BY <1>2, <1>3 DEF OrderInv, OrderOf

(* The frame received is the head of what the predecessor has to send, or *)
(* was received before: an older update is not behind it.                 *)
LEMMA OrderDispatch ==
    ASSUME RingTypes, OrderInv, RingInv, NEW m \in Nodes, Dispatch(m) \/ CrashAnswered(m)
    PROVE  OrderInv'
<1> DEFINE n == Prev(m)
           frame == Head(wire[n]).frame
<1>1. /\ wire[n] # << >>
      /\ wire' = [wire EXCEPT ![n] = Tail(@)] \/ wire' = [wire EXCEPT ![n] = << >>]
      /\ acked' = [acked EXCEPT ![m] = @ \cup UpdatesOf(frame)]
      /\ inbox' = inbox \/ inbox' = [inbox EXCEPT ![m] = << >>]
      /\ UNCHANGED <<notSynced, made, logged>>
    BY DEF Dispatch, CrashAnswered, Restart, storeVars
<1>2. n \in Nodes /\ n # m /\ Next(n) = m /\ \A k \in Nodes : Next(k) = m => k = n
    BY Neighbours
<1> HIDE DEF n
<1>3. ASSUME NEW o \in Nodes, o # n
      PROVE  OrderOf(o)'
  <2>1. /\ acked'[Next(o)] = acked[Next(o)] /\ wire'[o] = wire[o]
        /\ inbox'[o] = inbox[o] \/ inbox'[o] = << >>
    BY <1>1, <1>2, <1>3, ModuloNodes DEF RingTypes, WireTypes, WorkerTypes, HistoryTypes
  <2>2. Queued(o)' \subseteq Queued(o)
    BY <2>1, SameQueued, NoneQueued
  <2> QED
    BY <1>1, <2>1, <2>2, OrderStays DEF OrderInv, OrderOf
<1>4. OrderOf(n)'
  <2>1. OrderOf(n) /\ wire[n] \in Seq(Sent) /\ notSynced[n] \in Seq(Frames)
    BY <1>2 DEF OrderInv, OrderOf, RingTypes, WireTypes, WorkerTypes
  <2>2. /\ Len(wire[n]) \in Nat /\ Head(wire[n]) = wire[n][1] /\ 1 \in 1..Len(wire[n])
        /\ \A i \in 1..Len(wire'[n]) : i + 1 \in 1..Len(wire[n]) /\ wire'[n][i] = wire[n][i + 1]
    <3>1. /\ Len(wire[n]) \in Nat /\ Len(wire[n]) > 0 /\ Head(wire[n]) = wire[n][1]
          /\ Len(Tail(wire[n])) = Len(wire[n]) - 1
          /\ \A i \in 1..Len(Tail(wire[n])) : Tail(wire[n])[i] = wire[n][i + 1]
      BY <1>1, <1>2, SequenceTail DEF RingInv, LinkInv, LinkTypes
    <3>2. wire'[n] = Tail(wire[n]) \/ wire'[n] = << >>
      BY <1>1, <1>2 DEF RingTypes, WireTypes
    <3>3. CASE wire'[n] = Tail(wire[n])
      <4>1. \A i \in 1..Len(wire'[n]) : i + 1 \in 1..Len(wire[n])
        BY <3>1, <3>3
      <4> QED
        BY <3>1, <3>3, <4>1
    <3>4. CASE wire'[n] = << >>
      <4>1. \A i \in 1..Len(wire'[n]) : FALSE
        BY <3>4, EmptySeq
      <4> QED
        BY <3>1, <4>1
    <3> QED
      BY <3>2, <3>3, <3>4
  <2>3. /\ acked'[Next(n)] = acked[Next(n)] \cup UpdatesOf(frame)
        /\ acked[Next(n)] \subseteq acked'[Next(n)]
    BY <1>1, <1>2 DEF RingTypes, HistoryTypes
  <2>4. \/ notSynced[n] # << >> /\ frame = Head(notSynced[n])
        \/ UpdatesOf(frame) \subseteq acked[Next(n)]
    BY <2>1, <2>2 DEF OrderOf, HeadOrReceived
  <2> HIDE DEF frame
  <2>5. /\ Own(n)' = Own(n) /\ Queued(n)' = Queued(n)
        /\ notSynced'[n] = notSynced[n] /\ logged'[n] = logged[n]
    <3>1. inbox'[n] = inbox[n]
      BY <1>1, <1>2 DEF RingTypes, WorkerTypes
    <3> QED
      BY <1>1, <3>1, SameQueued DEF Own, Issued
  <2>6. notSynced[n] # << >> =>
          Head(notSynced[n]) = notSynced[n][1] /\ 1 \in 1..Len(notSynced[n]) /\ Len(notSynced[n]) \in Nat
    BY <2>1, HeadTailProperties, LenProperties, EmptySeq
  <2>7. UpdatesOf(frame) \subseteq logged[n]
    BY <2>1, <2>4, <2>6 DEF OrderOf, LoggedFirst
  <2>8. QueuedLater(n)'
    BY <2>1, <2>5 DEF OrderOf, QueuedLater, Queued
  <2>9. \A i : UpdatesOf(notSynced[n][i])' = UpdatesOf(notSynced'[n][i])
    BY DEF UpdatesOf
  <2>10. FramesInOrder(n)'
    BY <2>1, <2>5, <2>9 DEF OrderOf, FramesInOrder
  <2>11. LoggedFirst(n)'
    BY <2>1, <2>3, <2>5, <2>7, <2>9 DEF OrderOf, LoggedFirst
  <2>12. HeadOrReceived(n)'
    <3>1. ASSUME NEW i \in 1..Len(wire'[n])
          PROVE  \/ notSynced'[n] # << >> /\ wire'[n][i].frame = Head(notSynced'[n])
                 \/ UpdatesOf(wire'[n][i].frame) \subseteq acked'[Next(n)]
      BY <2>1, <2>2, <2>3, <2>5 DEF OrderOf, HeadOrReceived
    <3>2. \A i : UpdatesOf(wire[n][i].frame)' = UpdatesOf(wire'[n][i].frame)
      BY DEF UpdatesOf
    <3> QED
      BY <3>1, <3>2 DEF HeadOrReceived
  <2>13. ReceivedInOrder(n)'
    <3>1. ASSUME NEW u \in Own(n), NEW v \in Own(n), u < v, u \in logged[n], v \in acked'[Next(n)]
          PROVE  u \in acked'[Next(n)]
      <4>1. CASE v \in acked[Next(n)]
        BY <2>1, <2>3, <3>1, <4>1 DEF OrderOf, ReceivedInOrder
      <4>2. CASE notSynced[n] # << >> /\ frame = Head(notSynced[n]) /\ v \in UpdatesOf(frame)
        <5>1. InFrames(u, notSynced[n]) \/ u \in acked[Next(n)]
          BY <1>2, <3>1 DEF RingInv, LinkInv, KeptUntilReceived
        <5>2. ASSUME NEW i \in 1..Len(notSynced[n]), u \in UpdatesOf(notSynced[n][i])
              PROVE  u \in UpdatesOf(frame)
          <6>1. CASE i = 1
            BY <2>6, <4>2, <5>2, <6>1
          <6>2. CASE i # 1
            <7>1. 1 < i
              BY <2>6, <4>2, <5>2, <6>2
            <7>2. v < u
              BY <2>1, <2>6, <3>1, <4>2, <5>2, <7>1 DEF OrderOf, FramesInOrder
            <7> QED
              BY <3>1, <7>2 DEF Own, Issued
          <6> QED
            BY <6>1, <6>2
        <5> QED
          BY <2>3, <5>1, <5>2 DEF InFrames
      <4> QED
        BY <2>3, <2>4, <3>1, <4>1, <4>2
    <3> QED
      BY <2>5, <3>1 DEF ReceivedInOrder
  <2> QED
    BY <2>8, <2>10, <2>11, <2>12, <2>13 DEF OrderOf
<1> QED
    BY <1>3, <1>4 DEF OrderInv, OrderOf

LEMMA OrderInit == Init => OrderInv
<1> SUFFICES ASSUME Init PROVE OrderInv
    OBVIOUS
<1>1. ASSUME NEW o \in Nodes
      PROVE  /\ logged[o] = {} /\ notSynced[o] = << >> /\ wire[o] = << >> /\ acked[Next(o)] = {}
    BY ModuloNodes DEF Init
<1>2. Len(<< >>) = 0
    BY EmptySeq
<1> QED
    BY <1>1, <1>2
       DEF OrderInv, QueuedLater, FramesInOrder, LoggedFirst, HeadOrReceived, ReceivedInOrder

LEMMA OrderStep == RingInv /\ RingTypes /\ OrderInv /\ [Step]_vars => OrderInv'
<1> SUFFICES ASSUME RingInv, RingTypes, OrderInv, [Step]_vars
             PROVE  OrderInv'
    OBVIOUS
<1>1. RingTypes'
    BY TypesStep
<1>2. CASE Tick
    BY <1>2, OrderAside DEF Tick, workerVars, linkVars
<1>3. ASSUME NEW n \in Nodes, ClientUpdate(n)
      PROVE  OrderInv'
    BY <1>1, <1>3, OrderClientUpdate
<1>4. ASSUME NEW n \in Nodes, SyncStep(n) \/ SendFails(n)
      PROVE  OrderInv'
  <2>1. CASE TakeBatch(n)
    BY <2>1, OrderTakeBatch
  <2>2. CASE NoBatch(n) \/ WriteSync(n)
    BY <2>2, OrderAside DEF NoBatch, WriteSync, linkVars, storeVars
  <2>3. CASE SendFrame(n)
    BY <2>3, OrderWire
  <2>4. CASE FrameAcknowledged(n)
    BY <2>4, OrderAcknowledged
  <2>5. CASE DropConnection(n)
    <3>1. notSynced' = notSynced
      <4>1. notSynced' = [notSynced EXCEPT ![n] = @]
        BY <2>5 DEF DropConnection, KeptAfterFailure
      <4> QED
        BY <4>1 DEF RingTypes, WorkerTypes
    <3> QED
      BY <2>5, <3>1, OrderAside DEF DropConnection, storeVars
  <2> QED
    BY <1>4, <2>1, <2>2, <2>3, <2>4, <2>5 DEF SyncStep, SendFails, AnswerTimesOut
<1>5. ASSUME NEW n \in Nodes, Dispatch(n) \/ FrameLost(n) \/ Crash(n) \/ CrashAnswered(n)
      PROVE  OrderInv'
    BY <1>5, OrderDispatch, OrderWire
<1>6. ASSUME NEW n \in Nodes, NEW w \in 1..Workers, ExecuteUpdate(n, w)
      PROVE  OrderInv'
    BY <1>6, OrderExecuteUpdate
<1>7. CASE UNCHANGED vars
    BY <1>7, OrderAside DEF vars, workerVars, linkVars, storeVars
<1> QED
    BY <1>2, <1>3, <1>4, <1>5, <1>6, <1>7 DEF Step

(* The next node receives a node's own updates in the order they were made *)
(* (NotSynced is sent from its head, and a frame that fails stays there),  *)
(* in a ring of any size, whatever connections break and nodes crash.      *)
THEOREM RingKeepsOrder == Spec => []LinkKeepsOrder
<1>1. Init => RingInv /\ RingTypes /\ OrderInv
    BY RingInit, TypesInit, OrderInit
<1>2. RingInv /\ RingTypes /\ OrderInv /\ [Step]_vars => (RingInv /\ RingTypes /\ OrderInv)'
    BY RingStep, TypesStep, OrderStep
<1>3. OrderInv => LinkKeepsOrder
    BY DEF OrderInv, ReceivedInOrder, Own, LinkKeepsOrder
<1> QED
    BY <1>1, <1>2, <1>3, PTL DEF Spec

-----------------------------------------------------------------------------
(* The updates a node waits to have confirmed. *)

Answering(n, q) ==
    \/ \E w \in 1..Workers : q \in Members(jobs[n][w])
    \/ Reply(q) \in Members(inbox[n])

ConfirmInv == \A n \in Nodes : \A q \in Members(notConfirmed[n]) : Answering(n, q)

LEMMA MembersAppendAny ==
    ASSUME NEW S, NEW s \in Seq(S), NEW e
    PROVE  Members(Append(s, e)) = Members(s) \cup {e}
<1>1. s \in Seq(S \cup {e}) /\ e \in S \cup {e}
    BY SeqMonotonic
<1> QED
    BY <1>1, MembersAppend

LEMMA ConfirmAside ==
    ASSUME ConfirmInv, UNCHANGED <<notConfirmed, jobs, inbox>>
    PROVE  ConfirmInv'
    BY DEF ConfirmInv, Answering, Members, Reply

LEMMA ConfirmClientUpdate ==
    ASSUME RingTypes, ConfirmInv, NEW n \in Nodes, ClientUpdate(n)
    PROVE  ConfirmInv'
<1>1. /\ UNCHANGED <<notConfirmed, jobs>>
      /\ \E e : inbox' = [inbox EXCEPT ![n] = Append(@, e)]
    BY DEF ClientUpdate
<1>2. ASSUME NEW k \in Nodes
      PROVE  Members(inbox[k]) \subseteq Members(inbox'[k])
    BY <1>1, MembersAppendAny DEF RingTypes, WorkerTypes
<1>3. ASSUME NEW k \in Nodes, NEW q \in Members(notConfirmed[k])
      PROVE  Answering(k, q)'
    BY <1>1, <1>2, <1>3 DEF ConfirmInv, Answering, Members, Reply
<1> QED
    BY <1>1, <1>3 DEF ConfirmInv, Members

LEMMA ConfirmExecuteUpdate ==
    ASSUME RingTypes, ConfirmInv, NEW n \in Nodes, NEW w \in 1..Workers, ExecuteUpdate(n, w)
    PROVE  ConfirmInv'
<1> DEFINE h == Head(jobs[n][w])
<1>1. /\ jobs[n][w] # << >> /\ notConfirmed' = notConfirmed
      /\ jobs' = [jobs EXCEPT ![n][w] = Tail(@)]
    BY DEF ExecuteUpdate
<1>2. Members(jobs[n][w]) = Members(Tail(jobs[n][w])) \cup {h}
    BY <1>1, MembersTail DEF RingTypes, StoreTypes
<1>3. Reply(h) \in Members(inbox'[n]) /\ Members(inbox[n]) \subseteq Members(inbox'[n])
    BY ExecutedInbox
<1>4. \A k \in Nodes : k # n => inbox'[k] = inbox[k]
    BY ExecutedInbox
<1>5. /\ \A k \in Nodes : k # n => jobs'[k] = jobs[k]
      /\ \A x \in 1..Workers : x # w => jobs'[n][x] = jobs[n][x]
      /\ jobs'[n][w] = Tail(jobs[n][w])
    BY <1>1 DEF RingTypes, StoreTypes
<1> HIDE DEF h
<1>6. ASSUME NEW k \in Nodes, NEW q \in Members(notConfirmed[k])
      PROVE  \/ \E x \in 1..Workers : q \in Members(jobs'[k][x])
             \/ Reply(q) \in Members(inbox'[k])
  <2>1. \/ \E x \in 1..Workers : q \in Members(jobs[k][x])
        \/ Reply(q) \in Members(inbox[k])
    BY DEF ConfirmInv, Answering
  <2>2. CASE k # n
    BY <1>4, <1>5, <2>1, <2>2
  <2>3. CASE k = n
    BY <1>2, <1>3, <1>5, <2>1, <2>3
  <2> QED
    BY <2>2, <2>3
<1> QED
    BY <1>1, <1>6 DEF ConfirmInv, Answering, Members, Reply

(* A reply in the queue is one of the batch's replies. *)
LEMMA RepliedQuery ==
    ASSUME NEW S, NEW items \in Seq([kind : {"R", "Q"}, query : S]),
           NEW q, Reply(q) \in Members(items)
    PROVE  q \in Members(Queries(items, "R"))
<1>1. Members(Queries(items, "R"))
        = {items[i].query : i \in {j \in 1..Len(items) : items[j].kind = "R"}}
    BY QueriesMembers
<1>2. PICK i \in 1..Len(items) : items[i] = Reply(q)
    BY DEF Members
<1>3. items[i].kind = "R" /\ items[i].query = q
    BY <1>2 DEF Reply
<1> QED
    BY <1>1, <1>3

LEMMA ConfirmTakeBatch ==
    ASSUME RingTypes, ConfirmInv, NEW n \in Nodes, TakeBatch(n)
    PROVE  ConfirmInv'
<1> DEFINE replies == Queries(inbox[n], "R")
           left == Unconfirmed(notConfirmed[n], replies)
<1>1. /\ notConfirmed' = [notConfirmed EXCEPT ![n] = left]
      /\ inbox' = [inbox EXCEPT ![n] = << >>]
      /\ jobs' = jobs
    BY DEF TakeBatch, storeVars
<1>2. inbox[n] \in Seq([kind : {"R", "Q"}, query : Known]) /\ replies \in Seq(Known)
  <2>1. inbox[n] \in Seq([kind : {"R", "Q"}, query : Known])
    BY DEF RingTypes, WorkerTypes, Items
  <2> QED
    BY <2>1, QueriesMembers
<1>3. Members(left) = Members(notConfirmed[n]) \ Members(replies)
    BY <1>2, UnconfirmedMembers DEF RingTypes, WorkerTypes
<1>4. ASSUME NEW q \in Members(left)
      PROVE  \E w \in 1..Workers : q \in Members(jobs[n][w])
  <2>1. ASSUME Reply(q) \in Members(inbox[n])
        PROVE  FALSE
    BY <1>2, <1>3, <1>4, <2>1, RepliedQuery
  <2> QED
    BY <1>3, <2>1 DEF ConfirmInv, Answering
<1> HIDE DEF left
<1>5. notConfirmed'[n] = left /\ \A k \in Nodes : k # n =>
        notConfirmed'[k] = notConfirmed[k] /\ inbox'[k] = inbox[k]
    BY <1>1 DEF RingTypes, WorkerTypes
<1>6. ASSUME NEW k \in Nodes, NEW q \in Members(notConfirmed'[k])
      PROVE  \/ \E x \in 1..Workers : q \in Members(jobs'[k][x])
             \/ Reply(q) \in Members(inbox'[k])
  <2>1. CASE k = n
    BY <1>1, <1>4, <1>5, <1>6, <2>1
  <2>2. CASE k # n
    BY <1>1, <1>5, <1>6, <2>2 DEF ConfirmInv, Answering
  <2> QED
    BY <2>1, <2>2
<1> QED
    BY <1>6 DEF ConfirmInv, Answering, Members, Reply

LEMMA ConfirmWriteSync ==
    ASSUME RingTypes, ConfirmInv, NEW n \in Nodes, WriteSync(n)
    PROVE  ConfirmInv'
<1> DEFINE queries == ToExecute(n, notWritten[n])
<1>1. /\ jobs' = [jobs EXCEPT ![n] = PostAll(n, queries)]
      /\ notConfirmed' = [notConfirmed EXCEPT ![n] = @ \o queries]
      /\ inbox' = inbox
    BY DEF WriteSync
<1>2. /\ queries \in Seq(Known)
      /\ \A q \in Members(queries) : q \in Known /\ q.origin # n
    BY ToExecuteMembers DEF RingTypes, WorkerTypes, Received, Frames
<1>3. queries \in Seq(Foreign(n))
    BY <1>2, MembersSeq DEF Foreign
<1> HIDE DEF queries
<1>4. turn[n] \in 1..Workers /\ jobs[n] \in [1..Workers -> Seq(Foreign(n))]
    BY DEF RingTypes, WorkerTypes, StoreTypes
<1>5. /\ \A w \in 1..Workers : Members(jobs[n][w]) \subseteq Members(PostAll(n, queries)[w])
      /\ \A q \in Members(queries) : \E w \in 1..Workers :
           q \in Members(PostAll(n, queries)[w])
    BY <1>3, <1>4, PostedMembers
<1>6. Members(notConfirmed[n] \o queries) = Members(notConfirmed[n]) \cup Members(queries)
    BY <1>2, MembersConcat DEF RingTypes, WorkerTypes
<1>7. /\ notConfirmed'[n] = notConfirmed[n] \o queries
      /\ jobs'[n] = PostAll(n, queries)
      /\ \A k \in Nodes : k # n => notConfirmed'[k] = notConfirmed[k] /\ jobs'[k] = jobs[k]
    BY <1>1 DEF RingTypes, WorkerTypes, StoreTypes
<1>8. ASSUME NEW k \in Nodes, NEW q \in Members(notConfirmed'[k])
      PROVE  \/ \E x \in 1..Workers : q \in Members(jobs'[k][x])
             \/ Reply(q) \in Members(inbox'[k])
  <2>1. CASE k = n
    <3>1. q \in Members(notConfirmed[n]) \/ q \in Members(queries)
      BY <1>6, <1>7, <1>8, <2>1
    <3>2. q \in Members(notConfirmed[n]) =>
            \/ \E x \in 1..Workers : q \in Members(jobs[n][x])
            \/ Reply(q) \in Members(inbox[n])
      BY DEF ConfirmInv, Answering
    <3> QED
      BY <1>1, <1>5, <1>7, <2>1, <3>1, <3>2
  <2>2. CASE k # n
    BY <1>1, <1>7, <1>8, <2>2 DEF ConfirmInv, Answering
  <2> QED
    BY <2>1, <2>2
<1> QED
    BY <1>8 DEF ConfirmInv, Answering, Members, Reply

LEMMA ConfirmCrash ==
    ASSUME RingTypes, ConfirmInv, NEW n \in Nodes, Restart(n)
    PROVE  ConfirmInv'
<1>1. /\ notConfirmed'[n] = << >>
      /\ \A k \in Nodes : k # n =>
           /\ notConfirmed'[k] = notConfirmed[k] /\ jobs'[k] = jobs[k] /\ inbox'[k] = inbox[k]
    BY DEF Restart, RingTypes, WorkerTypes, StoreTypes
<1>2. Members(<< >>) = {}
    BY EmptySeq DEF Members
<1>3. ASSUME NEW k \in Nodes, NEW q \in Members(notConfirmed'[k])
      PROVE  \/ \E x \in 1..Workers : q \in Members(jobs'[k][x])
             \/ Reply(q) \in Members(inbox'[k])
    BY <1>1, <1>2, <1>3 DEF ConfirmInv, Answering
<1> QED
    BY <1>3 DEF ConfirmInv, Answering, Members, Reply

LEMMA ConfirmStep == RingTypes /\ ConfirmInv /\ [Step]_vars => ConfirmInv'
<1> SUFFICES ASSUME RingTypes, ConfirmInv, [Step]_vars
             PROVE  ConfirmInv'
    OBVIOUS
<1>1. CASE Tick
    BY <1>1, ConfirmAside DEF Tick, workerVars
<1>2. ASSUME NEW n \in Nodes, ClientUpdate(n)
      PROVE  ConfirmInv'
    BY <1>2, ConfirmClientUpdate
<1>3. ASSUME NEW n \in Nodes, SyncStep(n) \/ SendFails(n)
      PROVE  ConfirmInv'
  <2>1. CASE TakeBatch(n)
    BY <2>1, ConfirmTakeBatch
  <2>2. CASE WriteSync(n)
    BY <2>2, ConfirmWriteSync
  <2>3. CASE NoBatch(n) \/ SendFrame(n) \/ FrameAcknowledged(n) \/ DropConnection(n)
    BY <2>3, ConfirmAside
       DEF NoBatch, SendFrame, FrameAcknowledged, DropConnection, storeVars, workerVars
  <2> QED
    BY <1>3, <2>1, <2>2, <2>3 DEF SyncStep, SendFails, AnswerTimesOut
<1>4. ASSUME NEW n \in Nodes, Dispatch(n) \/ FrameLost(n)
      PROVE  ConfirmInv'
    BY <1>4, ConfirmAside DEF Dispatch, FrameLost, storeVars, workerVars
<1>5. ASSUME NEW n \in Nodes, Crash(n) \/ CrashAnswered(n)
      PROVE  ConfirmInv'
    BY <1>5, ConfirmCrash DEF Crash, CrashAnswered
<1>6. ASSUME NEW n \in Nodes, NEW w \in 1..Workers, ExecuteUpdate(n, w)
      PROVE  ConfirmInv'
    BY <1>6, ConfirmExecuteUpdate
<1>7. CASE UNCHANGED vars
    BY <1>7, ConfirmAside DEF vars, workerVars, storeVars
<1> QED
    BY <1>1, <1>2, <1>3, <1>4, <1>5, <1>6, <1>7 DEF Step

(* What keeps a node's local journal from being emptied goes away: every   *)
(* update whose confirmation is awaited is with a query worker, or its     *)
(* reply is in the queue (WriteSync, Execute and ConfirmMessage).          *)
THEOREM RingConfirms == Spec => []ConfirmationsComing
<1>1. Init => ConfirmInv
  <2>1. Members(<< >>) = {}
    BY EmptySeq DEF Members
  <2> QED
    BY <2>1 DEF Init, ConfirmInv
<1>2. RingTypes /\ ConfirmInv => ConfirmationsComing
  <2> SUFFICES ASSUME RingTypes, ConfirmInv, NEW n \in Nodes, NEW i \in 1..Len(notConfirmed[n])
               PROVE  LET q == notConfirmed[n][i] IN
                      \/ \E w \in 1..Workers : \E j \in 1..Len(jobs[n][w]) : jobs[n][w][j] = q
                      \/ Reply(q) \in Range(inbox[n])
    BY DEF ConfirmationsComing
  <2>1. notConfirmed[n][i] \in Members(notConfirmed[n])
    BY DEF Members
  <2>2. Answering(n, notConfirmed[n][i])
    BY <2>1 DEF ConfirmInv
  <2>3. Range(inbox[n]) = Members(inbox[n])
    BY LenProperties DEF Range, Members, RingTypes, WorkerTypes
  <2> QED
    BY <2>2, <2>3 DEF Answering, Members
<1>3. Spec => []RingTypes
    BY RingTyping, PTL
<1> QED
    BY <1>1, <1>2, <1>3, ConfirmStep, PTL DEF Spec

-----------------------------------------------------------------------------
(* What a node has acknowledged. *)

NodeKeeps(n) ==
    \A u \in acked[n] : made[u].server # n => u \in done[n] \/ ToBeExecuted(u, n)

LEMMA UpdatesMembers ==
    ASSUME NEW f
    PROVE  UpdatesOf(f) = {q.update : q \in Members(f)}
    BY DEF UpdatesOf, Members

LEMMA MadeBefore ==
    ASSUME RingTypes, NEW n \in Nodes, ClientUpdate(n)
    PROVE  /\ \A u \in Issued : made'[u] = made[u]
           /\ Issued' = Issued \cup {Len(made) + 1}
           /\ made'[Len(made) + 1].server = n
<1>1. /\ made' = Append(made, [time |-> clock, server |-> n]) /\ n \in Writers
    BY DEF ClientUpdate
<1>2. /\ [time |-> clock, server |-> n] \in [time : 0..MaxClock, server : Writers]
      /\ made \in Seq([time : 0..MaxClock, server : Writers])
    BY <1>1 DEF RingTypes, StoreTypes
<1>3. /\ \A u \in Issued : made'[u] = made[u]
      /\ Issued' = Issued \cup {Len(made) + 1}
      /\ made'[Len(made) + 1] = [time |-> clock, server |-> n]
    BY <1>1, <1>2, MoreKnown
<1> QED
    BY <1>3

(* A node that keeps its queues, and may execute more, loses nothing. *)
LEMMA KeepsStays ==
    ASSUME RingTypes, NEW n \in Nodes, NodeKeeps(n),
           acked'[n] = acked[n], done[n] \subseteq done'[n],
           notWritten'[n] = notWritten[n], jobs'[n] = jobs[n],
           \A u \in Issued : made'[u] = made[u]
    PROVE  NodeKeeps(n)'
<1>1. acked[n] \subseteq Issued
    BY DEF RingTypes, HistoryTypes
<1>2. \A u : ToBeExecuted(u, n)' <=> ToBeExecuted(u, n)
    BY DEF ToBeExecuted, UpdatesOf
<1> QED
    BY <1>1, <1>2 DEF NodeKeeps

LEMMA KeepsExecuteUpdate ==
    ASSUME RingTypes, NEW n \in Nodes, NEW w \in 1..Workers, ExecuteUpdate(n, w), NodeKeeps(n)
    PROVE  NodeKeeps(n)'
<1> DEFINE h == Head(jobs[n][w])
<1>1. /\ jobs[n][w] # << >> /\ UNCHANGED <<made, acked, notWritten>>
      /\ jobs' = [jobs EXCEPT ![n][w] = Tail(@)]
      /\ done' = [done EXCEPT ![n] = @ \cup {h.update}]
    BY DEF ExecuteUpdate
<1>2. Members(jobs[n][w]) = Members(Tail(jobs[n][w])) \cup {h}
    BY <1>1, MembersTail DEF RingTypes, StoreTypes
<1> HIDE DEF h
<1>3. /\ done'[n] = done[n] \cup {h.update}
      /\ \A x \in 1..Workers : x # w => jobs'[n][x] = jobs[n][x]
      /\ jobs'[n][w] = Tail(jobs[n][w])
    BY <1>1 DEF RingTypes, StoreTypes
<1>4. UpdatesOf(jobs[n][w]) = UpdatesOf(Tail(jobs[n][w])) \cup {h.update}
    BY <1>2, UpdatesMembers
<1>5. ASSUME NEW u, ToBeExecuted(u, n)
      PROVE  u = h.update \/ ToBeExecuted(u, n)'
  <2>1. CASE \E i \in 1..Len(notWritten[n]) : u \in UpdatesOf(notWritten[n][i].frame)
    BY <1>1, <2>1 DEF ToBeExecuted, UpdatesOf
  <2>2. ASSUME NEW x \in 1..Workers, u \in UpdatesOf(jobs[n][x])
        PROVE  u = h.update \/ u \in UpdatesOf(jobs'[n][x])
    BY <1>3, <1>4, <2>2
  <2>3. \A x : UpdatesOf(jobs[n][x])' = UpdatesOf(jobs'[n][x])
    BY DEF UpdatesOf
  <2> QED
    BY <1>5, <2>1, <2>2, <2>3 DEF ToBeExecuted
<1> QED
    BY <1>1, <1>3, <1>5 DEF NodeKeeps

LEMMA KeepsDispatch ==
    ASSUME RingTypes, NEW n \in Nodes, Dispatch(n), NodeKeeps(n)
    PROVE  NodeKeeps(n)'
<1> DEFINE frame == Head(wire[Prev(n)]).frame
           e == [frame |-> frame, packed |-> FALSE]
<1>1. /\ notWritten' = [notWritten EXCEPT ![n] = Append(@, e)]
      /\ acked' = [acked EXCEPT ![n] = @ \cup UpdatesOf(frame)]
      /\ UNCHANGED <<made, done, jobs>>
    BY DEF Dispatch, storeVars
<1>2. e.frame = frame
    OBVIOUS
<1> HIDE DEF frame, e
<1>3. /\ acked'[n] = acked[n] \cup UpdatesOf(frame)
      /\ notWritten'[n] = Append(notWritten[n], e)
    BY <1>1 DEF RingTypes, WorkerTypes, HistoryTypes
<1>4. Members(notWritten'[n]) = Members(notWritten[n]) \cup {e}
    BY <1>3, MembersAppendAny DEF RingTypes, WorkerTypes
<1>5. ASSUME NEW u
      PROVE  /\ ToBeExecuted(u, n) => ToBeExecuted(u, n)'
             /\ u \in UpdatesOf(frame) => ToBeExecuted(u, n)'
  <2>1. ToBeExecuted(u, n) <=>
             \/ \E m \in Members(notWritten[n]) : u \in UpdatesOf(m.frame)
             \/ \E w \in 1..Workers : u \in UpdatesOf(jobs[n][w])
    BY DEF ToBeExecuted, Members
  <2>2. \A f : UpdatesOf(f) = {f[i].update : i \in 1..Len(f)}
    BY DEF UpdatesOf
  <2>3. ToBeExecuted(u, n)' <=>
             \/ \E i \in 1..Len(notWritten'[n]) : u \in UpdatesOf(notWritten'[n][i].frame)
             \/ \E w \in 1..Workers : u \in UpdatesOf(jobs[n][w])
    BY <1>1, <2>2 DEF ToBeExecuted, UpdatesOf
  <2>4. ToBeExecuted(u, n)' <=>
             \/ \E m \in Members(notWritten'[n]) : u \in UpdatesOf(m.frame)
             \/ \E w \in 1..Workers : u \in UpdatesOf(jobs[n][w])
    BY <2>3 DEF Members
  <2> QED
    BY <1>2, <1>4, <2>1, <2>4
<1> QED
    BY <1>1, <1>3, <1>5 DEF NodeKeeps

(* All that waits in readable frames goes to the query workers. *)
LEMMA KeepsWriteSync ==
    ASSUME RingTypes, NothingPacked, NEW n \in Nodes, WriteSync(n), NodeKeeps(n)
    PROVE  NodeKeeps(n)'
<1> DEFINE queries == ToExecute(n, notWritten[n])
<1>1. /\ jobs' = [jobs EXCEPT ![n] = PostAll(n, queries)]
      /\ UNCHANGED <<made, acked, done>>
    BY DEF WriteSync
<1>2. notWritten[n] \in Seq([frame : {f \in Seq(Known) : f # << >>}, packed : BOOLEAN])
    BY DEF RingTypes, WorkerTypes, Received, Frames
<1>3. /\ queries \in Seq(Known)
      /\ \A q \in Members(queries) : q \in Known /\ q.origin # n
      /\ \A i \in 1..Len(notWritten[n]) : ~notWritten[n][i].packed =>
           \A q \in Members(notWritten[n][i].frame) : q.origin # n => q \in Members(queries)
    BY <1>2, ToExecuteMembers
<1>4. queries \in Seq(Foreign(n))
    BY <1>3, MembersSeq DEF Foreign
<1> HIDE DEF queries
<1>5. turn[n] \in 1..Workers /\ jobs[n] \in [1..Workers -> Seq(Foreign(n))]
    BY DEF RingTypes, WorkerTypes, StoreTypes
<1>6. /\ \A w \in 1..Workers : Members(jobs[n][w]) \subseteq Members(PostAll(n, queries)[w])
      /\ \A q \in Members(queries) : \E w \in 1..Workers :
           q \in Members(PostAll(n, queries)[w])
    BY <1>4, <1>5, PostedMembers
<1>7. jobs'[n] = PostAll(n, queries)
    BY <1>1 DEF RingTypes, StoreTypes
<1>8. ASSUME NEW u \in acked[n], made[u].server # n, ToBeExecuted(u, n)
      PROVE  \E w \in 1..Workers : u \in UpdatesOf(jobs'[n][w])
  <2>1. ASSUME NEW w \in 1..Workers, u \in UpdatesOf(jobs[n][w])
        PROVE  u \in UpdatesOf(jobs'[n][w])
    BY <1>6, <1>7, <2>1, UpdatesMembers
  <2>2. ASSUME NEW i \in 1..Len(notWritten[n]), u \in UpdatesOf(notWritten[n][i].frame)
        PROVE  \E w \in 1..Workers : u \in UpdatesOf(jobs'[n][w])
    <3>1. PICK q \in Members(notWritten[n][i].frame) : u = q.update
      BY <2>2, UpdatesMembers
    <3>2. notWritten[n][i] \in Received
      BY ElementOfSeq DEF RingTypes, WorkerTypes
    <3>3. q \in Known
      BY <3>2, MembersSeq DEF Received, Frames
    <3>4. q.origin # n
      BY <1>8, <3>1, <3>3 DEF Known
    <3>5. q \in Members(queries)
      BY <1>3, <3>4 DEF NothingPacked
    <3> QED
      BY <1>6, <1>7, <3>1, <3>5, UpdatesMembers
  <2> QED
    BY <1>8, <2>1, <2>2 DEF ToBeExecuted
<1>9. \A w : UpdatesOf(jobs[n][w])' = UpdatesOf(jobs'[n][w])
    BY DEF UpdatesOf
<1>10. ASSUME NEW u \in acked[n], made[u].server # n
       PROVE  u \in done[n] \/ ToBeExecuted(u, n)'
    BY <1>8, <1>9, <1>10 DEF NodeKeeps, ToBeExecuted
<1> QED
    BY <1>1, <1>10 DEF NodeKeeps

LEMMA KeepsStep ==
    ASSUME RingTypes, NothingPacked, AckedNotLost, [Step]_vars, crashes' = 0
    PROVE  AckedNotLost'
<1>1. \A k \in Nodes : NodeKeeps(k)
    BY DEF AckedNotLost, NodeKeeps
<1>2. SUFFICES ASSUME NEW k \in Nodes PROVE NodeKeeps(k)'
  <2> HIDE DEF NodeKeeps
  <2>1. \A k \in Nodes : NodeKeeps(k)'
    BY <1>2
  <2> QED
    BY <2>1 DEF NodeKeeps, AckedNotLost
<1>3. CASE Tick
    BY <1>1, <1>3, KeepsStays DEF Tick, workerVars
<1>4. ASSUME NEW n \in Nodes, ClientUpdate(n)
      PROVE  NodeKeeps(k)'
  <2>1. /\ UNCHANGED <<acked, notWritten, jobs>> /\ done[k] \subseteq done'[k]
    BY <1>4 DEF ClientUpdate, RingTypes, StoreTypes
  <2> QED
    BY <1>1, <1>4, <2>1, MadeBefore, KeepsStays
<1>5. ASSUME NEW n \in Nodes, SyncStep(n) \/ SendFails(n)
      PROVE  NodeKeeps(k)'
  <2>1. CASE \/ TakeBatch(n) \/ NoBatch(n) \/ SendFrame(n) \/ FrameAcknowledged(n)
             \/ DropConnection(n)
    <3>1. UNCHANGED <<acked, done, notWritten, jobs, made>>
      BY <2>1 DEF TakeBatch, NoBatch, SendFrame, FrameAcknowledged, DropConnection,
                  workerVars, storeVars
    <3> QED
      BY <1>1, <3>1, KeepsStays
  <2>2. CASE WriteSync(n)
    <3>1. CASE k = n
      BY <1>1, <2>2, <3>1, KeepsWriteSync
    <3>2. CASE k # n
      <4>1. /\ UNCHANGED <<acked, done, made>>
            /\ notWritten'[k] = notWritten[k] /\ jobs'[k] = jobs[k]
        BY <2>2, <3>2 DEF WriteSync, RingTypes, WorkerTypes, StoreTypes
      <4> QED
        BY <1>1, <4>1, KeepsStays
    <3> QED
      BY <3>1, <3>2
  <2> QED
    BY <1>5, <2>1, <2>2 DEF SyncStep, SendFails, AnswerTimesOut
<1>6. ASSUME NEW n \in Nodes, Dispatch(n)
      PROVE  NodeKeeps(k)'
  <2>1. CASE k = n
    BY <1>1, <1>6, <2>1, KeepsDispatch
  <2>2. CASE k # n
    <3>1. /\ UNCHANGED <<done, jobs, made>>
          /\ notWritten'[k] = notWritten[k] /\ acked'[k] = acked[k]
      BY <1>6, <2>2 DEF Dispatch, storeVars, RingTypes, WorkerTypes, HistoryTypes
    <3> QED
      BY <1>1, <3>1, KeepsStays
  <2> QED
    BY <2>1, <2>2
<1>7. ASSUME NEW n \in Nodes, FrameLost(n)
      PROVE  NodeKeeps(k)'
  <2>1. UNCHANGED <<acked, done, notWritten, jobs, made>>
    BY <1>7 DEF FrameLost, workerVars, storeVars
  <2> QED
    BY <1>1, <2>1, KeepsStays
<1>8. ASSUME NEW n \in Nodes, Crash(n) \/ CrashAnswered(n)
      PROVE  FALSE
    BY <1>8, RestartCounts DEF Crash, CrashAnswered
<1>9. ASSUME NEW n \in Nodes, NEW w \in 1..Workers, ExecuteUpdate(n, w)
      PROVE  NodeKeeps(k)'
  <2>1. CASE k = n
    BY <1>1, <1>9, <2>1, KeepsExecuteUpdate
  <2>2. CASE k # n
    <3>1. /\ UNCHANGED <<acked, notWritten, made>>
          /\ done'[k] = done[k] /\ jobs'[k] = jobs[k]
      BY <1>9, <2>2 DEF ExecuteUpdate, RingTypes, StoreTypes
    <3> QED
      BY <1>1, <3>1, KeepsStays
  <2> QED
    BY <2>1, <2>2
<1>10. CASE UNCHANGED vars
    BY <1>1, <1>10, KeepsStays DEF vars, workerVars, storeVars
<1> QED
    BY <1>3, <1>4, <1>5, <1>6, <1>7, <1>8, <1>9, <1>10 DEF Step

-----------------------------------------------------------------------------
(* What a node has executed goes to the next one. *)

NodeHandsOn(n) == \A u \in done[n] : ToBeSent(u, n) \/ u \in acked[Next(n)]

LEMMA HandsOnStays ==
    ASSUME NEW n, NodeHandsOn(n), done'[n] = done[n],
           acked[Next(n)] \subseteq acked'[Next(n)],
           inbox'[n] = inbox[n], notSynced'[n] = notSynced[n]
    PROVE  NodeHandsOn(n)'
<1>1. \A u : ToBeSent(u, n)' <=> ToBeSent(u, n)
    BY SameQueued DEF ToBeSent, Queued, InFrames, UpdatesOf
<1> QED
    BY <1>1 DEF NodeHandsOn

(* The object is never newer than now, so that nothing is taken for older: *)
(* CheckVersion compares it with a version made in this step.              *)
LEMMA NeverOlder ==
    ASSUME RingTypes, StoreNotAhead, NEW n \in Nodes, NEW q
    PROVE  ~CheckVersion(store[n].version, VersionOf(MakeSafe(q), n))
           \/ MakeSafe(q).version # NoVersion
<1>1. store[n].version.time <= clock
    BY DEF StoreNotAhead
<1>2. store[n].version.time \in Int /\ clock \in Int
  <2>1. store[n].version \in Versions /\ clock \in 0..MaxClock
    BY DEF RingTypes, StoreTypes
  <2>2. NoVersion.time \in Int
    BY DEF NoVersion
  <2>3. \A v \in Version : v.time \in Int
    BY DEF Version
  <2> QED
    BY <2>1, <2>2, <2>3 DEF Versions
<1>3. ASSUME MakeSafe(q).version = NoVersion
      PROVE  VersionOf(MakeSafe(q), n).time = clock
    BY <1>3 DEF VersionOf, Now
<1> QED
    BY <1>1, <1>2, <1>3 DEF CheckVersion

LEMMA HandsOnExecuteUpdate ==
    ASSUME RingTypes, StoreNotAhead, NEW n \in Nodes, NEW w \in 1..Workers,
           ExecuteUpdate(n, w), NodeHandsOn(n)
    PROVE  NodeHandsOn(n)'
<1> DEFINE q == Head(jobs[n][w])
<1>1. /\ UNCHANGED <<notSynced, acked>>
      /\ done' = [done EXCEPT ![n] = @ \cup {q.update}]
    BY DEF ExecuteUpdate
<1>2. done'[n] = done[n] \cup {q.update}
    BY <1>1 DEF RingTypes, StoreTypes
<1>3. ~CheckVersion(store[n].version, VersionOf(MakeSafe(q), n))
  <2>1. q \in Foreign(n)
    BY ExecutedInbox
  <2>2. MakeSafe(q).version = NoVersion
    BY <2>1 DEF MakeSafe, Foreign, Known, Query
  <2> QED
    BY <2>2, NeverOlder
<1>4. Queued(n) \subseteq Queued(n)' /\ q.update \in Queued(n)'
    BY <1>3, ExecutedInbox
<1> HIDE DEF q
<1>5. \A u : ToBeSent(u, n) \/ u = q.update => ToBeSent(u, n)'
    BY <1>1, <1>4 DEF ToBeSent, Queued, InFrames, UpdatesOf
<1> QED
    BY <1>1, <1>2, <1>5 DEF NodeHandsOn

LEMMA HandsOnClientUpdate ==
    ASSUME RingTypes, NEW n \in Nodes, ClientUpdate(n), NodeHandsOn(n)
    PROVE  NodeHandsOn(n)'
<1> DEFINE u == Len(made) + 1
           q == [update |-> u, origin |-> n, version |-> NoVersion]
<1>1. /\ UNCHANGED <<notSynced, acked>>
      /\ done' = [done EXCEPT ![n] = @ \cup {u}]
      /\ inbox' = [inbox EXCEPT ![n] = Append(@, Forward(q))]
      /\ Len(made) < MaxUpdates
    BY DEF ClientUpdate, linkVars
<1>2. Forward(q).kind = "Q" /\ Forward(q).query.update = u
    BY DEF Forward
<1>3. Forward(q) \in [kind : {"R", "Q"}, query : Known \cup {q}]
    BY DEF Forward
<1> HIDE DEF q, u
<1>4. done'[n] = done[n] \cup {u} /\ inbox'[n] = Append(inbox[n], Forward(q))
    BY <1>1 DEF RingTypes, StoreTypes, WorkerTypes
<1>5. inbox[n] \in Seq([kind : {"R", "Q"}, query : Known \cup {q}])
  <2> DEFINE I == [kind : {"R", "Q"}, query : Known \cup {q}]
  <2>1. Items \subseteq I
    BY DEF Items
  <2>2. inbox[n] \in Seq(Items)
    BY DEF RingTypes, WorkerTypes
  <2> HIDE DEF I
  <2>3. inbox[n] \in Seq(I)
    BY <2>1, <2>2, SeqMonotonic
  <2> QED
    BY <2>3 DEF I
<1>6. Queued(n)' = Queued(n) \cup {u}
  <2>1. UpdatesOf(Queries(Append(inbox[n], Forward(q)), "Q"))
          = UpdatesOf(Queries(inbox[n], "Q"))
            \cup IF Forward(q).kind = "Q" THEN {Forward(q).query.update} ELSE {}
    BY <1>3, <1>5, UpdatesAppended
  <2>2. UpdatesOf(Queries(Append(inbox[n], Forward(q)), "Q"))
          = UpdatesOf(Queries(inbox[n], "Q")) \cup {u}
    BY <1>2, <2>1
  <2>3. Queued(n)' = UpdatesOf(Queries(Append(inbox[n], Forward(q)), "Q"))
    BY <1>4 DEF Queued, UpdatesOf, Queries
  <2> QED
    BY <2>2, <2>3 DEF Queued
<1>7. \A v : ToBeSent(v, n) \/ v = u => ToBeSent(v, n)'
    BY <1>1, <1>6 DEF ToBeSent, Queued, InFrames, UpdatesOf
<1> QED
    BY <1>1, <1>4, <1>7 DEF NodeHandsOn

(* The batch that is taken becomes a frame to send. *)
LEMMA HandsOnTakeBatch ==
    ASSUME RingTypes, NEW n \in Nodes, TakeBatch(n), NodeHandsOn(n)
    PROVE  NodeHandsOn(n)'
<1> DEFINE updates == Queries(inbox[n], "Q")
<1>1. /\ \/ updates = << >> /\ notSynced' = notSynced
         \/ notSynced' = [notSynced EXCEPT ![n] = Append(@, updates)]
      /\ UNCHANGED <<done, acked>>
      /\ UpdatesOf(updates) = Queued(n)
    BY DEF TakeBatch, storeVars, Queued
<1> HIDE DEF updates
<1>2. \/ Queued(n) = {} /\ notSynced'[n] = notSynced[n]
      \/ notSynced'[n] = Append(notSynced[n], updates)
  <2>1. updates = << >> => UpdatesOf(updates) = {}
    BY EmptySeq DEF UpdatesOf
  <2> QED
    BY <1>1, <2>1 DEF RingTypes, WorkerTypes
<1>3. ASSUME NEW u, ToBeSent(u, n)
      PROVE  InFrames(u, notSynced'[n])
  <2>1. u \in Queued(n) \/ \E f \in Members(notSynced[n]) : u \in UpdatesOf(f)
    BY <1>3 DEF ToBeSent, Queued, InFrames, Members
  <2>2. CASE Queued(n) = {} /\ notSynced'[n] = notSynced[n]
    BY <2>1, <2>2 DEF InFrames, Members
  <2>3. CASE notSynced'[n] = Append(notSynced[n], updates)
    <3>1. Members(notSynced'[n]) = Members(notSynced[n]) \cup {updates}
      BY <2>3, MembersAppendAny DEF RingTypes, WorkerTypes
    <3>2. \E f \in Members(notSynced'[n]) : u \in UpdatesOf(f)
      BY <1>1, <2>1, <3>1
    <3> QED
      BY <3>2 DEF InFrames, Members
  <2> QED
    BY <1>2, <2>2, <2>3
<1>4. \A u : InFrames(u, notSynced'[n]) => ToBeSent(u, n)'
    BY DEF ToBeSent, InFrames, UpdatesOf
<1> QED
    BY <1>1, <1>3, <1>4 DEF NodeHandsOn

(* The frame that is taken out was received by the next node. *)
LEMMA HandsOnAcknowledged ==
    ASSUME RingTypes, RingInv, NEW n \in Nodes, FrameAcknowledged(n), NodeHandsOn(n)
    PROVE  NodeHandsOn(n)'
<1>1. /\ waiting[n] /\ answer[n]
      /\ notSynced' = [notSynced EXCEPT ![n] = Tail(@)]
      /\ UNCHANGED <<inbox, done, acked>>
    BY DEF FrameAcknowledged, storeVars
<1>2. notSynced[n] # << >> /\ UpdatesOf(Head(notSynced[n])) \subseteq acked[Next(n)]
    BY <1>1 DEF RingInv, LinkInv, WaitsForHead, AnswerMeansReceived
<1>3. notSynced'[n] = Tail(notSynced[n])
    BY <1>1 DEF RingTypes, WorkerTypes
<1>4. Members(notSynced[n]) = Members(notSynced'[n]) \cup {Head(notSynced[n])}
    BY <1>2, <1>3, MembersTail DEF RingTypes, WorkerTypes
<1>5. ASSUME NEW u, InFrames(u, notSynced[n])
      PROVE  InFrames(u, notSynced'[n]) \/ u \in acked[Next(n)]
  <2>1. PICK f \in Members(notSynced[n]) : u \in UpdatesOf(f)
    BY <1>5 DEF InFrames, Members
  <2>2. f \in Members(notSynced'[n]) => InFrames(u, notSynced'[n])
    BY <2>1 DEF InFrames, Members
  <2> QED
    BY <1>2, <1>4, <2>1, <2>2
<1>6. Queued(n)' = Queued(n)
    BY <1>1, SameQueued
<1>7. \A u : InFrames(u, notSynced'[n]) \/ u \in Queued(n) => ToBeSent(u, n)'
    BY <1>6 DEF ToBeSent, InFrames, UpdatesOf, Queued
<1> QED
    BY <1>1, <1>5, <1>7 DEF NodeHandsOn, ToBeSent, Queued

LEMMA HandsOnStep ==
    ASSUME RingTypes, RingInv, StoreNotAhead, DoneIsHandedOn, [Step]_vars, crashes' = 0
    PROVE  DoneIsHandedOn'
<1>1. \A k \in Nodes : NodeHandsOn(k)
    BY DEF DoneIsHandedOn, NodeHandsOn
<1>2. SUFFICES ASSUME NEW k \in Nodes PROVE NodeHandsOn(k)'
  <2> HIDE DEF NodeHandsOn
  <2>1. \A k \in Nodes : NodeHandsOn(k)'
    BY <1>2
  <2> QED
    BY <2>1 DEF NodeHandsOn, DoneIsHandedOn
<1>3. CASE UNCHANGED <<done, acked, inbox, notSynced>>
    BY <1>1, <1>3, HandsOnStays
<1>4. CASE Tick \/ UNCHANGED vars
    BY <1>3, <1>4 DEF Tick, vars, workerVars, storeVars
<1>5. ASSUME NEW n \in Nodes, ClientUpdate(n)
      PROVE  NodeHandsOn(k)'
  <2>1. CASE k = n
    BY <1>1, <1>5, <2>1, HandsOnClientUpdate
  <2>2. CASE k # n
    <3>1. /\ UNCHANGED <<acked, notSynced>>
          /\ done'[k] = done[k] /\ inbox'[k] = inbox[k]
      BY <1>5, <2>2 DEF ClientUpdate, RingTypes, StoreTypes, WorkerTypes
    <3> QED
      BY <1>1, <3>1, HandsOnStays
  <2> QED
    BY <2>1, <2>2
<1>6. ASSUME NEW n \in Nodes, SyncStep(n) \/ SendFails(n)
      PROVE  NodeHandsOn(k)'
  <2>1. CASE TakeBatch(n) \/ FrameAcknowledged(n)
    <3>1. CASE k = n
      BY <1>1, <2>1, <3>1, HandsOnTakeBatch, HandsOnAcknowledged
    <3>2. CASE k # n
      <4>1. /\ UNCHANGED <<acked, done>>
            /\ notSynced'[k] = notSynced[k] /\ inbox'[k] = inbox[k]
        BY <2>1, <3>2 DEF TakeBatch, FrameAcknowledged, storeVars, RingTypes, WorkerTypes
      <4> QED
        BY <1>1, <4>1, HandsOnStays
    <3> QED
      BY <3>1, <3>2
  <2>2. CASE NoBatch(n) \/ SendFrame(n) \/ WriteSync(n)
    BY <1>3, <2>2 DEF NoBatch, SendFrame, WriteSync, workerVars, storeVars
  <2>3. CASE DropConnection(n)
    <3>1. UNCHANGED <<done, acked, inbox>> /\ notSynced'[k] = notSynced[k]
      BY <2>3 DEF DropConnection, KeptAfterFailure, storeVars, RingTypes, WorkerTypes
    <3> QED
      BY <1>1, <3>1, HandsOnStays
  <2> QED
    BY <1>6, <2>1, <2>2, <2>3 DEF SyncStep, SendFails, AnswerTimesOut
<1>7. ASSUME NEW n \in Nodes, Dispatch(n) \/ FrameLost(n)
      PROVE  NodeHandsOn(k)'
  <2>1. /\ UNCHANGED <<done, inbox, notSynced>>
        /\ acked[Next(k)] \subseteq acked'[Next(k)]
    BY <1>7, ModuloNodes
       DEF Dispatch, FrameLost, workerVars, storeVars, RingTypes, HistoryTypes
  <2> QED
    BY <1>1, <2>1, HandsOnStays
<1>8. ASSUME NEW n \in Nodes, Crash(n) \/ CrashAnswered(n)
      PROVE  FALSE
    BY <1>8, RestartCounts DEF Crash, CrashAnswered
<1>9. ASSUME NEW n \in Nodes, NEW w \in 1..Workers, ExecuteUpdate(n, w)
      PROVE  NodeHandsOn(k)'
  <2>1. CASE k = n
    BY <1>1, <1>9, <2>1, HandsOnExecuteUpdate
  <2>2. CASE k # n
    <3>1. /\ UNCHANGED <<acked, notSynced>> /\ done'[k] = done[k]
      BY <1>9, <2>2 DEF ExecuteUpdate, RingTypes, StoreTypes
    <3>2. inbox'[k] = inbox[k]
      BY <1>9, <2>2, ExecutedInbox
    <3> QED
      BY <1>1, <3>1, <3>2, HandsOnStays
  <2> QED
    BY <2>1, <2>2
<1> QED
    BY <1>4, <1>5, <1>6, <1>7, <1>8, <1>9 DEF Step

-----------------------------------------------------------------------------
(* While no node crashes. *)

LEMMA StoreStep ==
    ASSUME RingTypes, StoreNotAhead, [Step]_vars
    PROVE  StoreNotAhead'
<1>1. /\ clock \in Int /\ clock' \in Int /\ clock <= clock'
      /\ \A n \in Nodes : store[n].version.time \in Int
  <2>1. clock \in 0..MaxClock
    BY DEF RingTypes, StoreTypes
  <2>2. clock' = clock \/ clock' = clock + 1
    <3>1. ASSUME Tick PROVE clock' = clock + 1
      BY <3>1 DEF Tick
    <3>2. ASSUME NEW n \in Nodes, ClientUpdate(n) PROVE clock' = clock
      BY <3>2 DEF ClientUpdate, storeVars
    <3>3. ASSUME NEW n \in Nodes, SyncStep(n) PROVE clock' = clock
      BY <3>3 DEF SyncStep, TakeBatch, NoBatch, SendFrame, FrameAcknowledged,
              AnswerTimesOut, DropConnection, WriteSync, storeVars
    <3>4. ASSUME NEW n \in Nodes, SendFails(n) PROVE clock' = clock
      BY <3>4 DEF SendFails, DropConnection, storeVars
    <3>5. ASSUME NEW n \in Nodes, Dispatch(n) \/ FrameLost(n) \/ Crash(n) \/ CrashAnswered(n)
          PROVE  clock' = clock
      BY <3>5 DEF Dispatch, FrameLost, Crash, CrashAnswered, Restart, storeVars
    <3>6. ASSUME NEW n \in Nodes, NEW w \in 1..Workers, ExecuteUpdate(n, w) PROVE clock' = clock
      BY <3>6 DEF ExecuteUpdate
    <3> QED
      BY <3>1, <3>2, <3>3, <3>4, <3>5, <3>6 DEF Step, vars, storeVars
  <2>3. ASSUME NEW n \in Nodes
        PROVE  store[n].version.time \in Int
    <3>1. store[n].version \in Versions
      BY DEF RingTypes, StoreTypes
    <3>2. NoVersion.time \in Int /\ \A v \in Version : v.time \in Int
      BY DEF NoVersion, Version
    <3> QED
      BY <3>1, <3>2 DEF Versions
  <2> QED
    BY <2>1, <2>2, <2>3
<1>2. ASSUME NEW k \in Nodes
      PROVE  store'[k] = store[k] \/ store'[k].version.time = clock
  <2>1. ASSUME NEW n \in Nodes, ClientUpdate(n)
        PROVE  store'[k] = store[k] \/ store'[k].version.time = clock
    BY <2>1 DEF ClientUpdate, Now, RingTypes, StoreTypes
  <2>2. ASSUME NEW n \in Nodes, NEW w \in 1..Workers, ExecuteUpdate(n, w)
        PROVE  store'[k] = store[k] \/ store'[k].version.time = clock
    <3>1. Head(jobs[n][w]) \in Foreign(n)
      BY <2>2, ExecutedInbox
    <3>2. VersionOf(MakeSafe(Head(jobs[n][w])), n).time = clock
      BY <3>1 DEF VersionOf, MakeSafe, Now, Foreign, Known, Query
    <3> QED
      BY <2>2, <3>2 DEF ExecuteUpdate, RingTypes, StoreTypes
  <2>3. CASE store' = store
    BY <2>3
  <2> QED
    BY <2>1, <2>2, <2>3
       DEF Step, SyncStep, Tick, TakeBatch, NoBatch, SendFrame, FrameAcknowledged,
           AnswerTimesOut, SendFails, DropConnection, WriteSync, Dispatch, FrameLost, Crash,
           CrashAnswered, Restart, vars, storeVars
<1>3. \A k \in Nodes : store'[k].version.time <= clock'
    BY <1>1, <1>2 DEF StoreNotAhead
<1> QED
    BY <1>3 DEF StoreNotAhead

LEMMA PackedStep ==
    ASSUME RingTypes, NothingPacked, [Step]_vars, crashes' = 0
    PROVE  NothingPacked'
<1>1. SUFFICES ASSUME NEW k \in Nodes, NEW r \in Members(notWritten'[k])
               PROVE  ~r.packed
    BY <1>1 DEF NothingPacked, Members
<1>2. CASE notWritten'[k] = notWritten[k]
    BY <1>1, <1>2 DEF NothingPacked, Members
<1>3. ASSUME NEW n \in Nodes, WriteSync(n)
      PROVE  ~r.packed
  <2>1. notWritten'[k] = notWritten[k] \/ notWritten'[k] = << >>
    BY <1>3 DEF WriteSync, RingTypes, WorkerTypes
  <2>2. Members(<< >>) = {}
    BY EmptySeq DEF Members
  <2> QED
    BY <1>1, <1>2, <2>1, <2>2
<1>4. ASSUME NEW n \in Nodes, Dispatch(n)
      PROVE  ~r.packed
  <2> DEFINE e == [frame |-> Head(wire[Prev(n)]).frame, packed |-> FALSE]
  <2>1. /\ ~e.packed
        /\ notWritten'[k] = notWritten[k] \/ notWritten'[k] = Append(notWritten[k], e)
    BY <1>4 DEF Dispatch, RingTypes, WorkerTypes
  <2> HIDE DEF e
  <2>2. Members(Append(notWritten[k], e)) = Members(notWritten[k]) \cup {e}
    BY MembersAppendAny DEF RingTypes, WorkerTypes
  <2>3. \A m \in Members(notWritten[k]) : ~m.packed
    BY DEF NothingPacked, Members
  <2> QED
    BY <1>1, <2>1, <2>2, <2>3
<1>5. ASSUME NEW n \in Nodes, Crash(n) \/ CrashAnswered(n)
      PROVE  FALSE
    BY <1>5, RestartCounts DEF Crash, CrashAnswered
<1> QED
    BY <1>2, <1>3, <1>4, <1>5
       DEF Step, SyncStep, Tick, ClientUpdate, TakeBatch, NoBatch, SendFrame, FrameAcknowledged,
           AnswerTimesOut, SendFails, DropConnection, FrameLost, ExecuteUpdate,
           vars, workerVars

LEMMA MadeStep ==
    ASSUME RingTypes, MadeIsDone, [Step]_vars
    PROVE  MadeIsDone'
<1>1. CASE made' = made /\ \A n \in Nodes : done[n] \subseteq done'[n]
  <2>1. \A u \in Issued : made[u] \in [time : 0..MaxClock, server : Writers]
    BY ElementOfSeq DEF RingTypes, StoreTypes, Issued
  <2>2. \A u \in Issued : made[u].server \in Nodes
    BY <2>1, RingAssumption DEF Nodes
  <2> QED
    BY <1>1, <2>2 DEF MadeIsDone, Issued
<1>2. ASSUME NEW n \in Nodes, ClientUpdate(n)
      PROVE  MadeIsDone'
  <2>1. /\ \A u \in Issued : made'[u] = made[u]
        /\ Issued' = Issued \cup {Len(made) + 1}
        /\ made'[Len(made) + 1].server = n
    BY <1>2, MadeBefore
  <2>2. Len(made) + 1 \in done'[n] /\ \A k \in Nodes : done[k] \subseteq done'[k]
    BY <1>2 DEF ClientUpdate, RingTypes, StoreTypes
  <2>3. \A u \in Issued : made[u] \in [time : 0..MaxClock, server : Writers]
    BY ElementOfSeq DEF RingTypes, StoreTypes, Issued
  <2>4. \A u \in Issued : made[u].server \in Nodes
    BY <2>3, RingAssumption DEF Nodes
  <2>5. \A u \in Issued' : u \in done'[made'[u].server]
    BY <2>1, <2>2, <2>4 DEF MadeIsDone
  <2> QED
    BY <2>5 DEF MadeIsDone
<1>3. ASSUME NEW n \in Nodes, NEW w \in 1..Workers, ExecuteUpdate(n, w)
      PROVE  MadeIsDone'
    BY <1>1, <1>3 DEF ExecuteUpdate, RingTypes, StoreTypes
<1>4. CASE UNCHANGED <<made, done>>
    BY <1>1, <1>4
<1> QED
    BY <1>2, <1>3, <1>4
       DEF Step, SyncStep, Tick, TakeBatch, NoBatch, SendFrame, FrameAcknowledged,
           AnswerTimesOut, SendFails, DropConnection, WriteSync, Dispatch, FrameLost, Crash,
           CrashAnswered, Restart, vars, storeVars

HandOverInv == StoreNotAhead /\ (crashes = 0 => HandOver)

LEMMA HandOverInit == Init => HandOverInv
<1> SUFFICES ASSUME Init PROVE HandOverInv
    OBVIOUS
<1>1. Len(<< >>) = 0
    BY EmptySeq
<1>2. StoreNotAhead /\ NothingPacked
    BY <1>1 DEF Init, StoreNotAhead, NothingPacked, NoVersion
<1>3. MadeIsDone
    BY <1>1 DEF Init, MadeIsDone, Issued
<1>4. AckedNotLost /\ DoneIsHandedOn
    BY DEF Init, AckedNotLost, DoneIsHandedOn
<1> QED
    BY <1>2, <1>3, <1>4 DEF HandOverInv, HandOver

LEMMA HandOverStep == RingInv /\ RingTypes /\ HandOverInv /\ [Step]_vars => HandOverInv'
<1> SUFFICES ASSUME RingInv, RingTypes, HandOverInv, [Step]_vars
             PROVE  HandOverInv'
    OBVIOUS
<1>1. crashes' = 0 => crashes = 0
  <2>1. ASSUME Tick PROVE crashes' = crashes
    BY <2>1 DEF Tick
  <2>2. ASSUME NEW n \in Nodes, ClientUpdate(n) PROVE crashes' = crashes
    BY <2>2 DEF ClientUpdate, storeVars
  <2>3. ASSUME NEW n \in Nodes, SyncStep(n) PROVE crashes' = crashes
    BY <2>3 DEF SyncStep, TakeBatch, NoBatch, SendFrame, FrameAcknowledged,
              AnswerTimesOut, DropConnection, WriteSync, storeVars
  <2>4. ASSUME NEW n \in Nodes, SendFails(n) PROVE crashes' = crashes
    BY <2>4 DEF SendFails, DropConnection, storeVars
  <2>5. ASSUME NEW n \in Nodes, Dispatch(n) \/ FrameLost(n) PROVE crashes' = crashes
    BY <2>5 DEF Dispatch, FrameLost, storeVars
  <2>6. ASSUME NEW n \in Nodes, NEW w \in 1..Workers, ExecuteUpdate(n, w) PROVE crashes' = crashes
    BY <2>6 DEF ExecuteUpdate
  <2>7. ASSUME NEW n \in Nodes, Crash(n) \/ CrashAnswered(n) PROVE crashes' # 0
    BY <2>7, RestartCounts DEF Crash, CrashAnswered
  <2> QED
    BY <2>1, <2>2, <2>3, <2>4, <2>5, <2>6, <2>7 DEF Step, vars
<1>2. StoreNotAhead'
    BY StoreStep DEF HandOverInv
<1>3. ASSUME crashes' = 0
      PROVE  HandOver'
  <2>1. StoreNotAhead /\ HandOver
    BY <1>1, <1>3 DEF HandOverInv
  <2>2. NothingPacked' /\ MadeIsDone'
    BY <1>3, <2>1, PackedStep, MadeStep DEF HandOver
  <2>3. AckedNotLost' /\ DoneIsHandedOn'
    BY <1>3, <2>1, KeepsStep, HandsOnStep DEF HandOver
  <2> QED
    BY <2>2, <2>3 DEF HandOver
<1> QED
    BY <1>2, <1>3 DEF HandOverInv

(* While no node crashes, what a node has acknowledged it has executed, or *)
(* holds for its query workers (Dispatch and WriteSync); the predecessor   *)
(* has forgotten it.                                                       *)
THEOREM RingKeepsAcked == Spec => [](crashes = 0 => AckedNotLost)
<1>1. Init => RingInv /\ RingTypes /\ HandOverInv
    BY RingInit, TypesInit, HandOverInit
<1>2. RingInv /\ RingTypes /\ HandOverInv /\ [Step]_vars => (RingInv /\ RingTypes /\ HandOverInv)'
    BY RingStep, TypesStep, HandOverStep
<1>3. HandOverInv => (crashes = 0 => AckedNotLost)
    BY DEF HandOverInv, HandOver
<1> QED
    BY <1>1, <1>2, <1>3, PTL DEF Spec

-----------------------------------------------------------------------------
(* Every update is on its way to every node. *)

LEMMA Distances ==
    ASSUME NEW o \in Nodes, NEW n \in Nodes
    PROVE  /\ Distance(o, n) \in Nat
           /\ \A k \in Nodes : Distance(o, k) = Distance(o, n) => k = n
           /\ n # o => /\ Prev(n) \in Nodes /\ Next(Prev(n)) = n
                       /\ Distance(o, Prev(n)) < Distance(o, n)
<1>1. /\ N \in Nat /\ N > 1 /\ o \in Nat /\ n \in Nat /\ o < N /\ n < N
    BY RingAssumption DEF Nodes
<1>2. ASSUME NEW k \in Nodes
      PROVE  Distance(o, k) = IF k < o THEN k + N - o ELSE k - o
  <2> DEFINE a == k + N - o
  <2>1. k \in Nat /\ a \in Nat /\ a < N + N
    BY <1>1 DEF Nodes
  <2>2. Distance(o, k) = a % N
    BY DEF Distance
  <2> HIDE DEF a
  <2>3. Distance(o, k) = IF a < N THEN a ELSE a - N
    BY <2>1, <2>2, Remainder
  <2> QED
    BY <1>1, <2>1, <2>3 DEF a
<1>3. Prev(n) = IF n = 0 THEN N - 1 ELSE n - 1
  <2>1. n + N - 1 \in Nat /\ n + N - 1 < N + N
    BY <1>1
  <2> QED
    BY <1>1, <2>1, Remainder DEF Prev
<1>4. Prev(n) \in Nodes /\ Next(Prev(n)) = n
    BY Neighbours
<1>5. ASSUME NEW k \in Nodes, Distance(o, k) = Distance(o, n)
      PROVE  k = n
  <2>1. k \in Nat /\ k < N
    BY <1>1 DEF Nodes
  <2> QED
    BY <1>1, <1>2, <1>5, <2>1
<1>6. ASSUME n # o
      PROVE  Distance(o, Prev(n)) < Distance(o, n)
    BY <1>1, <1>2, <1>3, <1>4, <1>6
<1>7. Distance(o, n) \in Nat
    BY <1>1, <1>2
<1> QED
    BY <1>4, <1>5, <1>6, <1>7

(* A node that has not executed an update has one before it that holds it: *)
(* the first that has not, or the one before that, which has.              *)
LEMMA OnItsWay ==
    ASSUME RingTypes, HandOver, NEW u \in Issued, NEW n \in Nodes, u \notin done[n]
    PROVE  LET o == made[u].server IN
           \/ n # o /\ ToBeExecuted(u, n)
           \/ \E k \in Nodes :
                /\ Distance(o, k) < Distance(o, n)
                /\ ToBeSent(u, k) \/ (k # o /\ ToBeExecuted(u, k))
<1> DEFINE o == made[u].server
           lacking == {k \in Nodes : u \notin done[k]}
           D == {Distance(o, k) : k \in lacking}
<1>1. o \in Nodes
  <2>1. made[u] \in [time : 0..MaxClock, server : Writers]
    BY ElementOfSeq DEF RingTypes, StoreTypes, Issued
  <2> QED
    BY <2>1, RingAssumption DEF Nodes
<1>2. u \in done[o]
    BY DEF HandOver, MadeIsDone
<1> HIDE DEF o
<1>3. PICK k \in lacking : \A j \in lacking : Distance(o, k) <= Distance(o, j)
  <2>1. D \in SUBSET Nat /\ D # {}
    BY <1>1, Distances
  <2>2. PICK d \in D : \A e \in D : d <= e
    BY <2>1, LeastNatural
  <2> QED
    BY <2>2
<1>4. k \in Nodes /\ k # o /\ u \notin done[k] /\ Distance(o, k) <= Distance(o, n)
    BY <1>2, <1>3
<1> DEFINE p == Prev(k)
<1>5. p \in Nodes /\ Next(p) = k /\ Distance(o, p) < Distance(o, k)
    BY <1>1, <1>4, Distances
<1>7. Distance(o, p) \in Nat /\ Distance(o, k) \in Nat /\ Distance(o, n) \in Nat
    BY <1>1, <1>4, <1>5, Distances
<1> HIDE DEF p
<1>8. u \in done[p]
    BY <1>3, <1>5, <1>7
<1>9. ASSUME ToBeSent(u, p)
      PROVE  Distance(o, p) < Distance(o, n)
    BY <1>4, <1>5, <1>7
<1>10. ASSUME u \in acked[k]
       PROVE  ToBeExecuted(u, k) /\ (k = n \/ Distance(o, k) < Distance(o, n))
  <2>1. ToBeExecuted(u, k)
    BY <1>4, <1>10 DEF HandOver, AckedNotLost, o
  <2>2. Distance(o, k) = Distance(o, n) => k = n
    BY <1>1, <1>4, Distances
  <2> QED
    BY <1>4, <1>7, <2>1, <2>2
<1>11. ToBeSent(u, p) \/ u \in acked[k]
    BY <1>5, <1>8 DEF HandOver, DoneIsHandedOn
<1>12. \/ n # o /\ ToBeExecuted(u, n)
       \/ \E j \in Nodes :
            /\ Distance(o, j) < Distance(o, n)
            /\ ToBeSent(u, j) \/ (j # o /\ ToBeExecuted(u, j))
  <2>1. CASE ToBeSent(u, p)
    BY <1>5, <1>9, <2>1
  <2>2. CASE u \in acked[k] /\ k = n
    BY <1>4, <1>10, <2>2
  <2>3. CASE u \in acked[k] /\ k # n
    BY <1>4, <1>10, <2>3
  <2> QED
    BY <1>11, <2>1, <2>2, <2>3
<1> QED
    BY <1>12 DEF o

(* While no node crashes every update made reaches every node: where it is *)
(* not executed, it waits there, or on a node between its origin and this  *)
(* one (the hand-over of NotSynced, NotWritten and the query workers).     *)
THEOREM RingLosesNothing == Spec => []NothingLost
<1>1. Init => RingInv /\ RingTypes /\ HandOverInv
    BY RingInit, TypesInit, HandOverInit
<1>2. RingInv /\ RingTypes /\ HandOverInv /\ [Step]_vars => (RingInv /\ RingTypes /\ HandOverInv)'
    BY RingStep, TypesStep, HandOverStep
<1>3. RingTypes /\ HandOverInv => NothingLost
    BY OnItsWay DEF HandOverInv, NothingLost
<1> QED
    BY <1>1, <1>2, <1>3, PTL DEF Spec
=============================================================================
