----------------------------- MODULE Ring_proofs -----------------------------
(****************************************************************************)
(* What holds of a link of the ring for any number of nodes, updates,       *)
(* failures and crashes: what a node has logged to send is kept until the   *)
(* next node has received it.                                               *)
(*                                                                          *)
(* The invariant is about one link: at most one frame of the current        *)
(* connection is on its way, it is the head of notSynced, and an answer on  *)
(* its way back means that the next node has that frame.                    *)
(****************************************************************************)
EXTENDS Ring, TLAPS, SequenceTheorems

IsSequence(s) == s \in Seq(Range(s))

(* Every function of the state is defined for the nodes of the ring. *)
OfNodes(f) == DOMAIN f = Nodes

NodeState ==
    /\ OfNodes(pc) /\ OfNodes(notSynced) /\ OfNodes(conn) /\ OfNodes(waiting)
    /\ OfNodes(wire) /\ OfNodes(answer) /\ OfNodes(logged) /\ OfNodes(acked)

LinkTypes(n) ==
    /\ conn[n] \in Nat
    /\ IsSequence(notSynced[n])
    /\ IsSequence(wire[n])

Current(n, i) == wire[n][i].conn = conn[n]

(* A node waits only in Sync, for the head of what it has to send. *)
WaitsForHead(n) ==
    /\ waiting[n] => Syncing(n) /\ notSynced[n] # << >>
    /\ answer[n] => waiting[n]

(* The frames of the current connection: one, the head, while unanswered. *)
OneInFlight(n) ==
    \A i \in 1..Len(wire[n]) :
        /\ wire[n][i].conn \in 0..conn[n]
        /\ Current(n, i) =>
             waiting[n] /\ ~answer[n] /\ wire[n][i].frame = Head(notSynced[n])
        /\ \A j \in 1..Len(wire[n]) : Current(n, i) /\ Current(n, j) => i = j

AnswerMeansReceived(n) ==
    answer[n] => UpdatesOf(Head(notSynced[n])) \subseteq acked[Next(n)]

KeptUntilReceived(n) ==
    \A u \in logged[n] : InFrames(u, notSynced[n]) \/ u \in acked[Next(n)]

LinkInv(n) ==
    /\ LinkTypes(n)
    /\ WaitsForHead(n)
    /\ OneInFlight(n)
    /\ AnswerMeansReceived(n)
    /\ KeptUntilReceived(n)

RingInv == NodeState /\ \A n \in Nodes : LinkInv(n)

-----------------------------------------------------------------------------
(* Sequences of anything. *)

(* An empty sequence is one, and so is what is left of one. *)
LEMMA SequenceTail ==
    ASSUME NEW s, IsSequence(s)
    PROVE  /\ Len(s) \in Nat
           /\ s # << >> =>
                /\ IsSequence(Tail(s))
                /\ Len(s) > 0
                /\ Len(Tail(s)) = Len(s) - 1
                /\ Head(s) = s[1]
                /\ \A i \in 1..Len(Tail(s)) : Tail(s)[i] = s[i + 1]
<1>1. Len(s) \in Nat
    BY LenProperties DEF IsSequence
<1>2. ASSUME s # << >>
      PROVE  /\ Tail(s) \in Seq(Range(s))
             /\ Len(s) > 0
             /\ Len(Tail(s)) = Len(s) - 1
             /\ Head(s) = s[1]
             /\ \A i \in 1..Len(Tail(s)) : Tail(s)[i] = s[i + 1]
    BY <1>1, <1>2, HeadTailProperties, EmptySeq DEF IsSequence
<1> QED
    BY <1>1, <1>2, SeqOfRange DEF IsSequence

LEMMA SequenceEmpty == IsSequence(<< >>) /\ Len(<< >>) = 0
    BY EmptySeq, SeqOfRange DEF IsSequence

(* A sequence with one element more. *)
LEMMA SequenceAppend ==
    ASSUME NEW s, NEW e, IsSequence(s)
    PROVE  /\ IsSequence(Append(s, e))
           /\ Append(s, e) # << >>
           /\ Len(Append(s, e)) = Len(s) + 1
           /\ \A i \in 1..Len(s) : Append(s, e)[i] = s[i]
           /\ Append(s, e)[Len(s) + 1] = e
<1> DEFINE T == Range(s) \cup {e}
<1>1. s \in Seq(T) /\ e \in T
    BY SeqMonotonic DEF IsSequence
<1> HIDE DEF T
<1>2. Append(s, e) \in Seq(T)
    BY <1>1, AppendProperties
<1>3. IsSequence(Append(s, e))
    BY <1>2, SeqOfRange DEF IsSequence
<1> QED
    BY <1>1, <1>3, AppendProperties
-----------------------------------------------------------------------------
(* What the steps of a node do to a link. *)

(* Steps that leave a link alone, or only add to what the next node has. *)
LEMMA LinkStays ==
    ASSUME NEW n \in Nodes, LinkInv(n),
           notSynced'[n] = notSynced[n], conn'[n] = conn[n],
           waiting'[n] = waiting[n], wire'[n] = wire[n], answer'[n] = answer[n], logged'[n] = logged[n],
           acked[Next(n)] \subseteq acked'[Next(n)],
           waiting[n] => pc'[n] = pc[n]
    PROVE  LinkInv(n)'
<1>1. LinkTypes(n)' /\ WaitsForHead(n)'
    BY DEF LinkInv, LinkTypes, WaitsForHead, Syncing, IsSequence
<1>2. OneInFlight(n)'
    BY DEF LinkInv, OneInFlight, Current
<1>3. AnswerMeansReceived(n)'
    BY DEF LinkInv, AnswerMeansReceived, UpdatesOf
<1>4. KeptUntilReceived(n)'
    BY DEF LinkInv, KeptUntilReceived, InFrames, UpdatesOf
<1> QED
    BY <1>1, <1>2, <1>3, <1>4 DEF LinkInv

(* A new connection: nothing on the wire is of it, and nothing is awaited. *)
LEMMA LinkDropped ==
    ASSUME NEW n \in Nodes, LinkInv(n),
           notSynced'[n] = notSynced[n], conn'[n] = conn[n] + 1,
           waiting'[n] = FALSE, wire'[n] = wire[n] \/ wire'[n] = << >>, answer'[n] = FALSE,
           logged'[n] = logged[n], acked'[Next(n)] = acked[Next(n)]
    PROVE  LinkInv(n)'
<1>1. LinkTypes(n)'
  <2>1. conn'[n] \in Nat /\ IsSequence(notSynced'[n])
    BY DEF LinkInv, LinkTypes
  <2>2. IsSequence(wire'[n])
    BY SequenceEmpty DEF LinkInv, LinkTypes
  <2> QED
    BY <2>1, <2>2 DEF LinkTypes, IsSequence
<1>2. WaitsForHead(n)' /\ AnswerMeansReceived(n)'
    BY DEF WaitsForHead, AnswerMeansReceived
<1>3. OneInFlight(n)'
  <2>1. ASSUME NEW i \in 1..Len(wire'[n])
        PROVE  wire'[n][i].conn \in 0..conn'[n] /\ ~Current(n, i)'
    <3>1. wire'[n] = wire[n]
        BY <2>1, SequenceEmpty
    <3>2. wire[n][i].conn \in 0..conn[n] /\ conn[n] \in Nat
        BY <2>1, <3>1 DEF LinkInv, LinkTypes, OneInFlight
    <3>3. wire[n][i].conn \in 0..(conn[n] + 1) /\ wire[n][i].conn # conn[n] + 1
        BY <3>2
    <3> QED
        BY <3>1, <3>3 DEF Current
  <2> QED
    BY <2>1 DEF OneInFlight
<1>4. KeptUntilReceived(n)'
    BY DEF LinkInv, KeptUntilReceived, InFrames, UpdatesOf
<1> QED
    BY <1>1, <1>2, <1>3, <1>4 DEF LinkInv

(* The frames on the way are gone, the sender does not know it yet. *)
LEMMA LinkEmptied ==
    ASSUME NEW n \in Nodes, LinkInv(n),
           notSynced'[n] = notSynced[n], conn'[n] = conn[n],
           waiting'[n] = waiting[n], wire'[n] = << >>, answer'[n] = answer[n], logged'[n] = logged[n],
           acked'[Next(n)] = acked[Next(n)], pc'[n] = pc[n]
    PROVE  LinkInv(n)'
<1>1. LinkTypes(n)' /\ WaitsForHead(n)'
    BY SequenceEmpty DEF LinkInv, LinkTypes, WaitsForHead, Syncing, IsSequence
<1>2. OneInFlight(n)'
    BY SequenceEmpty DEF OneInFlight
<1>3. AnswerMeansReceived(n)'
    BY DEF LinkInv, AnswerMeansReceived, UpdatesOf
<1>4. KeptUntilReceived(n)'
    BY DEF LinkInv, KeptUntilReceived, InFrames, UpdatesOf
<1> QED
    BY <1>1, <1>2, <1>3, <1>4 DEF LinkInv

(* A frame of an old connection, or the one awaited, leaves the wire.      *)
LEMMA WireShorter ==
    ASSUME NEW n \in Nodes, LinkTypes(n), OneInFlight(n), wire[n] # << >>,
           wire'[n] = Tail(wire[n]), conn'[n] = conn[n]
    PROVE  /\ IsSequence(wire'[n])
           /\ 1 \in 1..Len(wire[n]) /\ Head(wire[n]) = wire[n][1]
           /\ \A i \in 1..Len(wire'[n]) :
                i + 1 \in 1..Len(wire[n]) /\ wire'[n][i] = wire[n][i + 1]
           /\ \A i \in 1..Len(wire'[n]) : \A j \in 1..Len(wire'[n]) :
                wire'[n][i].conn = conn[n] /\ wire'[n][j].conn = conn[n] => i = j
<1>1. /\ IsSequence(wire'[n]) /\ Head(wire[n]) = wire[n][1]
      /\ Len(wire[n]) \in Nat /\ Len(wire[n]) > 0
      /\ Len(wire'[n]) = Len(wire[n]) - 1
      /\ \A i \in 1..Len(wire'[n]) : wire'[n][i] = wire[n][i + 1]
    BY SequenceTail DEF LinkTypes
<1>2. \A i \in 1..Len(wire'[n]) : i + 1 \in 1..Len(wire[n])
    BY <1>1
<1>3. ASSUME NEW i \in 1..Len(wire'[n]), NEW j \in 1..Len(wire'[n]),
             wire'[n][i].conn = conn[n], wire'[n][j].conn = conn[n]
      PROVE  i = j
  <2>1. i + 1 = j + 1
    BY <1>1, <1>2, <1>3 DEF OneInFlight, Current
  <2> QED
    BY <2>1, <1>1
<1> QED
    BY <1>1, <1>2, <1>3

-----------------------------------------------------------------------------
(* The neighbours of a node. *)

(* Remainders of what is less than two rounds of the ring. *)
LEMMA Remainder ==
    ASSUME NEW a \in Nat, a < N + N
    PROVE  a % N = IF a < N THEN a ELSE a - N
    BY RingAssumption, Z3

LEMMA Neighbours ==
    ASSUME NEW m \in Nodes
    PROVE  /\ Prev(m) \in Nodes /\ Next(m) \in Nodes /\ Prev(m) # m
           /\ Next(Prev(m)) = m
           /\ \A k \in Nodes : Next(k) = m => k = Prev(m)
<1>1. N \in Nat /\ N > 1 /\ m \in 0..(N - 1)
    BY RingAssumption DEF Nodes
<1>2. Prev(m) = IF m = 0 THEN N - 1 ELSE m - 1
    BY <1>1, Remainder DEF Prev
<1>3. \A k \in Nodes : Next(k) = IF k = N - 1 THEN 0 ELSE k + 1
    BY <1>1, Remainder DEF Next, Nodes
<1> QED
    BY <1>1, <1>2, <1>3 DEF Nodes

-----------------------------------------------------------------------------
(* One lemma per kind of step: the invariant is kept on every link. *)

(* The steps of the clients, of the storage and those that only move on. *)
LEMMA AsidePreserves ==
    ASSUME RingInv, NEW n \in Nodes,
           \/ Tick \/ ClientUpdate(n) \/ NoBatch(n) \/ WriteSync(n)
           \/ \E w \in 1..Workers : ExecuteUpdate(n, w)
    PROVE  RingInv'
<1>1. UNCHANGED <<notSynced, linkVars, logged, acked>>
    BY DEF Tick, ClientUpdate, NoBatch, WriteSync, ExecuteUpdate, workerVars
<1>2. \/ pc' = pc
      \/ /\ pc[n] \in {"poll", "write"}
         /\ \E p : pc' = [pc EXCEPT ![n] = p]
    BY DEF Tick, ClientUpdate, NoBatch, WriteSync, ExecuteUpdate, workerVars
<1>3. NodeState'
    BY <1>1, <1>2 DEF RingInv, NodeState, OfNodes, linkVars
<1>4. ASSUME NEW k \in Nodes
      PROVE  LinkInv(k)'
  <2>1. waiting[k] => pc'[k] = pc[k]
    BY <1>2 DEF RingInv, NodeState, OfNodes, LinkInv, WaitsForHead, Syncing
  <2> QED
    BY <1>1, <2>1, LinkStays DEF RingInv, linkVars
<1> QED
    BY <1>3, <1>4 DEF RingInv

(* A batch is put behind what is to be sent, when nothing is awaited. *)
LEMMA TakeBatchPreserves ==
    ASSUME RingInv, NEW n \in Nodes, TakeBatch(n)
    PROVE  RingInv'
<1> DEFINE updates == Queries(inbox[n], "Q")
<1>1. /\ UNCHANGED <<linkVars, acked>>
      /\ pc[n] = "poll"
      /\ \E p : pc' = [pc EXCEPT ![n] = p]
      /\ \/ UNCHANGED <<notSynced, logged>>
         \/ /\ notSynced' = [notSynced EXCEPT ![n] = Append(@, updates)]
            /\ logged' = [logged EXCEPT ![n] = @ \cup UpdatesOf(updates)]
    BY DEF TakeBatch
<1> HIDE DEF updates
<1>2. NodeState'
    BY <1>1 DEF RingInv, NodeState, OfNodes, linkVars
<1>3. ~waiting[n] /\ ~answer[n]
    BY <1>1 DEF RingInv, LinkInv, WaitsForHead, Syncing
<1>4. ASSUME NEW k \in Nodes,
             k # n \/ UNCHANGED <<notSynced, logged>>
      PROVE  LinkInv(k)'
  <2>1. /\ notSynced'[k] = notSynced[k] /\ logged'[k] = logged[k]
        /\ waiting[k] => pc'[k] = pc[k]
    BY <1>1, <1>3, <1>4 DEF RingInv, NodeState, OfNodes
  <2> QED
    BY <1>1, <2>1, LinkStays DEF RingInv, linkVars
<1>5. ASSUME notSynced' = [notSynced EXCEPT ![n] = Append(@, updates)],
             logged' = [logged EXCEPT ![n] = @ \cup UpdatesOf(updates)]
      PROVE  LinkInv(n)'
  <2>1. /\ notSynced'[n] = Append(notSynced[n], updates)
        /\ logged'[n] = logged[n] \cup UpdatesOf(updates)
        /\ LinkInv(n)
    BY <1>5 DEF RingInv, NodeState, OfNodes
  <2>2. UNCHANGED <<conn, waiting, wire, answer, acked>>
    BY <1>1 DEF linkVars
  <2>3. /\ IsSequence(notSynced[n]) /\ Len(notSynced[n]) \in Nat
        /\ IsSequence(notSynced'[n])
        /\ Len(notSynced'[n]) = Len(notSynced[n]) + 1
        /\ \A i \in 1..Len(notSynced[n]) : notSynced'[n][i] = notSynced[n][i]
        /\ notSynced'[n][Len(notSynced[n]) + 1] = updates
    BY <2>1, SequenceTail, SequenceAppend DEF LinkInv, LinkTypes
  <2>4. LinkTypes(n)' /\ WaitsForHead(n)' /\ AnswerMeansReceived(n)'
    BY <1>3, <2>1, <2>2, <2>3
       DEF LinkInv, LinkTypes, IsSequence, WaitsForHead, AnswerMeansReceived
  <2>5. OneInFlight(n)'
    BY <1>3, <2>1, <2>2 DEF LinkInv, OneInFlight, Current
  <2>6. KeptUntilReceived(n)'
    <3>1. ASSUME NEW u \in logged'[n]
          PROVE  InFrames(u, notSynced'[n]) \/ u \in acked'[Next(n)]
      <4>1. CASE u \in UpdatesOf(updates)
        <5>1. Len(notSynced[n]) + 1 \in 1..Len(notSynced'[n])
          BY <2>3
        <5> QED
          BY <2>3, <4>1, <5>1 DEF InFrames
      <4>2. CASE u \in logged[n] /\ u \in acked[Next(n)]
        BY <2>2, <4>2
      <4>3. CASE InFrames(u, notSynced[n])
        <5>1. PICK i \in 1..Len(notSynced[n]) : u \in UpdatesOf(notSynced[n][i])
          BY <4>3 DEF InFrames
        <5>2. i \in 1..Len(notSynced'[n]) /\ notSynced'[n][i] = notSynced[n][i]
          BY <2>3
        <5> QED
          BY <5>1, <5>2 DEF InFrames
      <4> QED
        BY <2>1, <4>1, <4>2, <4>3 DEF LinkInv, KeptUntilReceived
    <3> QED
      BY <3>1 DEF KeptUntilReceived
  <2> QED
    BY <2>4, <2>5, <2>6 DEF LinkInv
<1> QED
    BY <1>1, <1>2, <1>4, <1>5 DEF RingInv

(* The head goes out; no other frame of the connection is on the way. *)
LEMMA SendFramePreserves ==
    ASSUME RingInv, NEW n \in Nodes, SendFrame(n)
    PROVE  RingInv'
<1> DEFINE sent == [frame |-> Head(notSynced[n]), conn |-> conn[n]]
<1>1. /\ UNCHANGED <<workerVars, conn, answer, logged, acked>>
      /\ Syncing(n) /\ ~waiting[n] /\ notSynced[n] # << >>
      /\ wire' = [wire EXCEPT ![n] = Append(@, sent)]
      /\ waiting' = [waiting EXCEPT ![n] = TRUE]
      /\ sent.conn = conn[n] /\ sent.frame = Head(notSynced[n])
    BY DEF SendFrame
<1> HIDE DEF sent
<1>2. NodeState'
    BY <1>1 DEF RingInv, NodeState, OfNodes, workerVars
<1>3. ASSUME NEW k \in Nodes, k # n
      PROVE  LinkInv(k)'
  <2>1. wire'[k] = wire[k] /\ waiting'[k] = waiting[k]
    BY <1>1, <1>3 DEF RingInv, NodeState, OfNodes
  <2> QED
    BY <1>1, <2>1, LinkStays DEF RingInv, workerVars
<1>4. LinkInv(n)'
  <2>1. /\ wire'[n] = Append(wire[n], sent) /\ waiting'[n] = TRUE /\ LinkInv(n)
        /\ UNCHANGED <<pc, notSynced, conn, answer, logged, acked>>
    BY <1>1 DEF RingInv, NodeState, OfNodes, workerVars
  <2>2. /\ IsSequence(wire'[n]) /\ Len(wire[n]) \in Nat
        /\ Len(wire'[n]) = Len(wire[n]) + 1
        /\ \A i \in 1..Len(wire[n]) : wire'[n][i] = wire[n][i]
        /\ wire'[n][Len(wire[n]) + 1] = sent
    BY <2>1, SequenceTail, SequenceAppend DEF LinkInv, LinkTypes
  <2>3. LinkTypes(n)' /\ WaitsForHead(n)'
    BY <1>1, <2>1, <2>2
       DEF LinkInv, LinkTypes, WaitsForHead, Syncing, IsSequence
  <2>4. AnswerMeansReceived(n)' /\ KeptUntilReceived(n)'
    BY <1>1, <2>1
       DEF LinkInv, AnswerMeansReceived, KeptUntilReceived, WaitsForHead,
           InFrames, UpdatesOf
  <2>5. \A i \in 1..Len(wire[n]) :
          wire[n][i].conn \in 0..conn[n] /\ wire[n][i].conn # conn[n]
    BY <1>1, <2>1 DEF LinkInv, OneInFlight, Current
  <2>6. OneInFlight(n)'
    <3>1. \A i \in 1..Len(wire'[n]) :
            i \in 1..Len(wire[n]) \/ i = Len(wire[n]) + 1
      BY <2>2
    <3>2. conn[n] \in 0..conn[n] /\ ~answer[n]
      BY <1>1, <2>1 DEF LinkInv, LinkTypes, WaitsForHead
    <3> QED
      BY <1>1, <2>1, <2>2, <2>5, <3>1, <3>2 DEF OneInFlight, Current
  <2> QED
    BY <2>3, <2>4, <2>6 DEF LinkInv
<1> QED
    BY <1>2, <1>3, <1>4 DEF RingInv

(* The head is forgotten, and the answer says that the next node has it. *)
LEMMA FrameAcknowledgedPreserves ==
    ASSUME RingInv, NEW n \in Nodes, FrameAcknowledged(n)
    PROVE  RingInv'
<1>1. /\ UNCHANGED <<conn, wire, logged, acked>>
      /\ waiting[n] /\ answer[n]
      /\ notSynced' = [notSynced EXCEPT ![n] = Tail(@)]
      /\ waiting' = [waiting EXCEPT ![n] = FALSE]
      /\ answer' = [answer EXCEPT ![n] = FALSE]
      /\ \E p : pc' = [pc EXCEPT ![n] = p]
    BY DEF FrameAcknowledged
<1>2. NodeState'
    BY <1>1 DEF RingInv, NodeState, OfNodes
<1>3. ASSUME NEW k \in Nodes, k # n
      PROVE  LinkInv(k)'
  <2>1. /\ notSynced'[k] = notSynced[k] /\ waiting'[k] = waiting[k]
        /\ answer'[k] = answer[k] /\ pc'[k] = pc[k]
    BY <1>1, <1>3 DEF RingInv, NodeState, OfNodes
  <2> QED
    BY <1>1, <2>1, LinkStays DEF RingInv
<1>4. LinkInv(n)'
  <2>1. /\ notSynced'[n] = Tail(notSynced[n]) /\ LinkInv(n)
        /\ waiting'[n] = FALSE /\ answer'[n] = FALSE
    BY <1>1 DEF RingInv, NodeState, OfNodes
  <2>2. /\ notSynced[n] # << >>
        /\ UpdatesOf(Head(notSynced[n])) \subseteq acked[Next(n)]
    BY <1>1, <2>1 DEF LinkInv, WaitsForHead, AnswerMeansReceived
  <2>3. /\ IsSequence(notSynced'[n]) /\ Len(notSynced[n]) \in Nat
        /\ Len(notSynced[n]) > 0 /\ Len(notSynced'[n]) = Len(notSynced[n]) - 1
        /\ Head(notSynced[n]) = notSynced[n][1]
        /\ \A i \in 1..Len(notSynced'[n]) : notSynced'[n][i] = notSynced[n][i + 1]
    BY <2>1, <2>2, SequenceTail DEF LinkInv, LinkTypes
  <2>4. LinkTypes(n)' /\ WaitsForHead(n)' /\ AnswerMeansReceived(n)'
    BY <1>1, <2>1, <2>3
       DEF LinkInv, LinkTypes, WaitsForHead, AnswerMeansReceived, IsSequence
  <2>5. OneInFlight(n)'
    BY <1>1, <2>1 DEF LinkInv, OneInFlight, Current
  <2>6. KeptUntilReceived(n)'
    <3>1. ASSUME NEW u \in logged[n], u \notin acked[Next(n)]
          PROVE  InFrames(u, notSynced'[n])
      <4>1. PICK i \in 1..Len(notSynced[n]) : u \in UpdatesOf(notSynced[n][i])
        BY <2>1, <3>1 DEF LinkInv, KeptUntilReceived, InFrames
      <4>2. i # 1
        BY <2>2, <2>3, <3>1, <4>1
      <4>3. i - 1 \in 1..Len(notSynced'[n]) /\ (i - 1) + 1 = i
        BY <2>3, <4>1, <4>2
      <4>4. notSynced'[n][i - 1] = notSynced[n][i]
        BY <2>3, <4>3
      <4> QED
        BY <4>1, <4>3, <4>4 DEF InFrames
    <3> QED
      BY <1>1, <3>1 DEF KeptUntilReceived
  <2> QED
    BY <2>4, <2>5, <2>6 DEF LinkInv
<1> QED
    BY <1>2, <1>3, <1>4 DEF RingInv

(* A connection that is given up keeps the frame it could not send. *)
LEMMA DropPreserves ==
    ASSUME RingInv, NEW n \in Nodes, DropConnection(n)
    PROVE  RingInv'
<1>1. /\ UNCHANGED <<wire, logged, acked>>
      /\ notSynced' = [notSynced EXCEPT ![n] = @]
      /\ conn' = [conn EXCEPT ![n] = @ + 1]
      /\ waiting' = [waiting EXCEPT ![n] = FALSE]
      /\ answer' = [answer EXCEPT ![n] = FALSE]
      /\ \E p : pc' = [pc EXCEPT ![n] = p]
    BY DEF DropConnection, KeptAfterFailure
<1>2. NodeState'
    BY <1>1 DEF RingInv, NodeState, OfNodes
<1>3. ASSUME NEW k \in Nodes
      PROVE  LinkInv(k)'
  <2>1. CASE k # n
    <3>1. /\ notSynced'[k] = notSynced[k] /\ conn'[k] = conn[k]
          /\ waiting'[k] = waiting[k] /\ answer'[k] = answer[k]
          /\ pc'[k] = pc[k]
      BY <1>1, <2>1 DEF RingInv, NodeState, OfNodes
    <3> QED
      BY <1>1, <3>1, LinkStays DEF RingInv
  <2>2. CASE k = n
    <3>1. /\ notSynced'[n] = notSynced[n] /\ conn'[n] = conn[n] + 1
          /\ waiting'[n] = FALSE /\ answer'[n] = FALSE
      BY <1>1 DEF RingInv, NodeState, OfNodes
    <3> QED
      BY <1>1, <2>2, <3>1, LinkDropped DEF RingInv
  <2> QED
    BY <2>1, <2>2
<1> QED
    BY <1>2, <1>3 DEF RingInv

(* A node reads a frame: its predecessor's is the only link that changes.  *)
(* The answer counts only if the frame is of the connection awaited, and   *)
(* then it is the head of what the predecessor sends.                      *)
LEMMA DispatchPreserves ==
    ASSUME RingInv, NEW m \in Nodes, Dispatch(m)
    PROVE  RingInv'
<1> DEFINE n == Prev(m)
           first == Head(wire[n])
<1>1. /\ UNCHANGED <<pc, notSynced, conn, waiting, logged>>
      /\ wire[n] # << >>
      /\ wire' = [wire EXCEPT ![n] = Tail(@)]
      /\ answer' = [answer EXCEPT ![n] =
                      @ \/ (waiting[n] /\ first.conn = conn[n])]
      /\ acked' = [acked EXCEPT ![m] = @ \cup UpdatesOf(first.frame)]
    BY DEF Dispatch
<1>2. n \in Nodes /\ Next(n) = m
    BY Neighbours
<1> HIDE DEF n
<1>3. NodeState'
    BY <1>1 DEF RingInv, NodeState, OfNodes
<1>4. \A k \in Nodes : acked[k] \subseteq acked'[k]
    BY <1>1 DEF RingInv, NodeState, OfNodes
<1>5. ASSUME NEW k \in Nodes, k # n
      PROVE  LinkInv(k)'
  <2>1. /\ wire'[k] = wire[k] /\ answer'[k] = answer[k]
        /\ acked[Next(k)] \subseteq acked'[Next(k)]
    BY <1>1, <1>4, <1>5, Neighbours DEF RingInv, NodeState, OfNodes
  <2> QED
    BY <1>1, <2>1, LinkStays DEF RingInv
<1>6. LinkInv(n)'
  <2>1. /\ LinkInv(n) /\ wire'[n] = Tail(wire[n])
        /\ answer'[n] = (answer[n] \/ (waiting[n] /\ first.conn = conn[n]))
        /\ acked'[m] = acked[m] \cup UpdatesOf(first.frame)
    BY <1>1, <1>2 DEF RingInv, NodeState, OfNodes
  <2>2. /\ IsSequence(wire'[n])
        /\ 1 \in 1..Len(wire[n]) /\ first = wire[n][1]
        /\ \A i \in 1..Len(wire'[n]) :
             i + 1 \in 1..Len(wire[n]) /\ wire'[n][i] = wire[n][i + 1]
        /\ \A i \in 1..Len(wire'[n]) : \A j \in 1..Len(wire'[n]) :
             wire'[n][i].conn = conn[n] /\ wire'[n][j].conn = conn[n] => i = j
    BY <1>1, <1>2, <2>1, WireShorter DEF LinkInv
  <2> HIDE DEF first
  <2>3. first.conn = conn[n] =>
          waiting[n] /\ ~answer[n] /\ first.frame = Head(notSynced[n])
    BY <2>1, <2>2 DEF LinkInv, OneInFlight, Current
  <2>4. LinkTypes(n)' /\ WaitsForHead(n)'
    BY <1>1, <2>1, <2>2
       DEF LinkInv, LinkTypes, WaitsForHead, Syncing, IsSequence
  <2>5. OneInFlight(n)'
    <3>1. ASSUME NEW i \in 1..Len(wire'[n]), wire'[n][i].conn = conn[n]
          PROVE  /\ waiting[n] /\ ~answer'[n]
                 /\ wire'[n][i].frame = Head(notSynced[n])
      <4>1. i + 1 \in 1..Len(wire[n]) /\ wire'[n][i] = wire[n][i + 1]
        BY <2>2
      <4>2. /\ waiting[n] /\ ~answer[n]
            /\ wire[n][i + 1].frame = Head(notSynced[n])
        BY <2>1, <3>1, <4>1 DEF LinkInv, OneInFlight, Current
      <4>3. first.conn # conn[n]
        <5>1. i + 1 # 1
          BY <3>1
        <5> QED
          BY <2>1, <2>2, <3>1, <4>1, <5>1 DEF LinkInv, OneInFlight, Current
      <4> QED
        BY <2>1, <4>1, <4>2, <4>3
    <3>2. \A i \in 1..Len(wire'[n]) : wire'[n][i].conn \in 0..conn[n]
      BY <2>1, <2>2 DEF LinkInv, OneInFlight
    <3> QED
      BY <1>1, <2>2, <3>1, <3>2 DEF OneInFlight, Current
  <2>6. AnswerMeansReceived(n)'
    <3>1. CASE answer[n]
      BY <1>1, <1>2, <2>1, <3>1 DEF LinkInv, AnswerMeansReceived, UpdatesOf
    <3>2. CASE waiting[n] /\ first.conn = conn[n]
      BY <1>1, <1>2, <2>1, <2>3, <3>2 DEF AnswerMeansReceived, UpdatesOf
    <3> QED
      BY <2>1, <3>1, <3>2 DEF AnswerMeansReceived
  <2>7. KeptUntilReceived(n)'
    BY <1>1, <1>2, <2>1 DEF LinkInv, KeptUntilReceived, InFrames, UpdatesOf
  <2> QED
    BY <2>4, <2>5, <2>6, <2>7 DEF LinkInv
<1> QED
    BY <1>3, <1>5, <1>6 DEF RingInv

(* A frame of an old connection disappears from the wire. *)
LEMMA FrameLostPreserves ==
    ASSUME RingInv, NEW m \in Nodes, FrameLost(m)
    PROVE  RingInv'
<1> DEFINE n == Prev(m)
<1>1. /\ UNCHANGED <<workerVars, conn, waiting, answer, logged, acked>>
      /\ wire[n] # << >>
      /\ wire' = [wire EXCEPT ![n] = Tail(@)]
    BY DEF FrameLost
<1>2. n \in Nodes
    BY Neighbours
<1> HIDE DEF n
<1>3. NodeState'
    BY <1>1 DEF RingInv, NodeState, OfNodes, workerVars
<1>4. ASSUME NEW k \in Nodes, k # n
      PROVE  LinkInv(k)'
  <2>1. wire'[k] = wire[k]
    BY <1>1, <1>4 DEF RingInv, NodeState, OfNodes
  <2> QED
    BY <1>1, <2>1, LinkStays DEF RingInv, workerVars
<1>5. LinkInv(n)'
  <2>1. /\ LinkInv(n) /\ wire'[n] = Tail(wire[n])
        /\ UNCHANGED <<pc, notSynced, conn, waiting, answer, logged, acked>>
    BY <1>1, <1>2 DEF RingInv, NodeState, OfNodes, workerVars
  <2>2. /\ IsSequence(wire'[n])
        /\ \A i \in 1..Len(wire'[n]) :
             i + 1 \in 1..Len(wire[n]) /\ wire'[n][i] = wire[n][i + 1]
        /\ \A i \in 1..Len(wire'[n]) : \A j \in 1..Len(wire'[n]) :
             wire'[n][i].conn = conn[n] /\ wire'[n][j].conn = conn[n] => i = j
    BY <1>1, <1>2, <2>1, WireShorter DEF LinkInv
  <2>3. LinkTypes(n)' /\ WaitsForHead(n)'
    BY <2>1, <2>2 DEF LinkInv, LinkTypes, WaitsForHead, Syncing, IsSequence
  <2>4. OneInFlight(n)'
    BY <2>1, <2>2 DEF LinkInv, OneInFlight, Current
  <2>5. AnswerMeansReceived(n)' /\ KeptUntilReceived(n)'
    BY <2>1
       DEF LinkInv, AnswerMeansReceived, KeptUntilReceived, InFrames, UpdatesOf
  <2> QED
    BY <2>3, <2>4, <2>5 DEF LinkInv
<1> QED
    BY <1>3, <1>4, <1>5 DEF RingInv

(* A crash ends both connections of a node: its own, whose frames are sent *)
(* again, and its predecessor's, whose frames are lost without an answer.  *)
LEMMA CrashPreserves ==
    ASSUME RingInv, NEW n \in Nodes, Crash(n)
    PROVE  RingInv'
<1>1. /\ UNCHANGED <<notSynced, logged, acked>>
      /\ pc' = [pc EXCEPT ![n] = "poll"]
      /\ conn' = [conn EXCEPT ![n] = @ + 1]
      /\ waiting' = [waiting EXCEPT ![n] = FALSE]
      /\ answer' = [answer EXCEPT ![n] = FALSE]
      /\ wire' = [wire EXCEPT ![Prev(n)] = << >>]
    BY DEF Crash, Restart
<1>2. Prev(n) \in Nodes /\ Prev(n) # n
    BY Neighbours
<1>3. NodeState'
    BY <1>1 DEF RingInv, NodeState, OfNodes
<1>4. ASSUME NEW k \in Nodes
      PROVE  LinkInv(k)'
  <2>1. CASE k = n
    <3>1. /\ conn'[n] = conn[n] + 1 /\ waiting'[n] = FALSE
          /\ answer'[n] = FALSE /\ wire'[n] = wire[n]
      BY <1>1, <1>2 DEF RingInv, NodeState, OfNodes
    <3> QED
      BY <1>1, <2>1, <3>1, LinkDropped DEF RingInv
  <2>2. CASE k # n
    <3>1. /\ pc'[k] = pc[k] /\ conn'[k] = conn[k]
          /\ waiting'[k] = waiting[k] /\ answer'[k] = answer[k]
      BY <1>1, <2>2 DEF RingInv, NodeState, OfNodes
    <3>2. CASE k = Prev(n)
      <4>1. wire'[k] = << >>
        BY <1>1, <3>2 DEF RingInv, NodeState, OfNodes
      <4> QED
        BY <1>1, <3>1, <4>1, LinkEmptied DEF RingInv
    <3>3. CASE k # Prev(n)
      <4>1. wire'[k] = wire[k]
        BY <1>1, <3>3 DEF RingInv, NodeState, OfNodes
      <4> QED
        BY <1>1, <3>1, <4>1, LinkStays DEF RingInv
    <3> QED
      BY <3>2, <3>3
  <2> QED
    BY <2>1, <2>2
<1> QED
    BY <1>3, <1>4 DEF RingInv

(* A node that dies with the answer written and nothing logged: to its     *)
(* predecessor it has the frame, which is the head of what that one sends. *)
LEMMA CrashAnsweredPreserves ==
    ASSUME RingInv, NEW m \in Nodes, CrashAnswered(m)
    PROVE  RingInv'
<1> DEFINE n == Prev(m)
           first == Head(wire[n])
<1>1. /\ UNCHANGED <<notSynced, logged>>
      /\ pc' = [pc EXCEPT ![m] = "poll"]
      /\ conn' = [conn EXCEPT ![m] = @ + 1]
      /\ waiting' = [waiting EXCEPT ![m] = FALSE]
      /\ answer' = [answer EXCEPT ![m] = FALSE,
                      ![n] = @ \/ (waiting[n] /\ first.conn = conn[n])]
      /\ acked' = [acked EXCEPT ![m] = @ \cup UpdatesOf(first.frame)]
      /\ wire' = [wire EXCEPT ![n] = << >>]
      /\ wire[n] # << >>
    BY DEF CrashAnswered, Restart
<1>2. n \in Nodes /\ n # m /\ Next(n) = m
      /\ \A k \in Nodes : Next(k) \in Nodes /\ (Next(k) = m => k = n)
    BY Neighbours
<1> HIDE DEF n
<1>3. NodeState'
    BY <1>1 DEF RingInv, NodeState, OfNodes
<1>4. ASSUME NEW k \in Nodes, k # n
      PROVE  LinkInv(k)'
  <2>1. wire'[k] = wire[k] /\ acked'[Next(k)] = acked[Next(k)]
    BY <1>1, <1>2, <1>4 DEF RingInv, NodeState, OfNodes
  <2>2. CASE k = m
    <3>1. /\ conn'[m] = conn[m] + 1 /\ waiting'[m] = FALSE /\ answer'[m] = FALSE
      BY <1>1, <1>2 DEF RingInv, NodeState, OfNodes
    <3> QED
      BY <1>1, <2>1, <2>2, <3>1, LinkDropped DEF RingInv
  <2>3. CASE k # m
    <3>1. /\ pc'[k] = pc[k] /\ conn'[k] = conn[k]
          /\ waiting'[k] = waiting[k] /\ answer'[k] = answer[k]
      BY <1>1, <1>4, <2>3 DEF RingInv, NodeState, OfNodes
    <3> QED
      BY <1>1, <2>1, <3>1, LinkStays DEF RingInv
  <2> QED
    BY <2>2, <2>3
<1>5. LinkInv(n)'
  <2>1. /\ LinkInv(n) /\ wire'[n] = << >> /\ notSynced'[n] = notSynced[n]
        /\ pc'[n] = pc[n] /\ conn'[n] = conn[n] /\ waiting'[n] = waiting[n]
        /\ answer'[n] = (answer[n] \/ (waiting[n] /\ first.conn = conn[n]))
        /\ acked'[m] = acked[m] \cup UpdatesOf(first.frame)
    BY <1>1, <1>2 DEF RingInv, NodeState, OfNodes
  <2>2. 1 \in 1..Len(wire[n]) /\ first = wire[n][1]
    BY <1>1, <1>2, <2>1, WireShorter DEF LinkInv
  <2> HIDE DEF first
  <2>3. first.conn = conn[n] => waiting[n] /\ first.frame = Head(notSynced[n])
    BY <2>1, <2>2 DEF LinkInv, OneInFlight, Current
  <2>4. LinkTypes(n)' /\ WaitsForHead(n)' /\ OneInFlight(n)'
    <3>1. LinkTypes(n)'
      BY <2>1, SequenceEmpty DEF LinkInv, LinkTypes, IsSequence
    <3>2. WaitsForHead(n)'
      BY <2>1 DEF LinkInv, WaitsForHead, Syncing
    <3>3. OneInFlight(n)'
      BY <2>1, SequenceEmpty DEF OneInFlight
    <3> QED
      BY <3>1, <3>2, <3>3
  <2>5. AnswerMeansReceived(n)'
    <3>1. CASE answer[n]
      BY <1>1, <1>2, <2>1, <3>1 DEF LinkInv, AnswerMeansReceived, UpdatesOf
    <3>2. CASE waiting[n] /\ first.conn = conn[n]
      BY <1>1, <1>2, <2>1, <2>3, <3>2 DEF AnswerMeansReceived, UpdatesOf
    <3> QED
      BY <2>1, <3>1, <3>2 DEF AnswerMeansReceived
  <2>6. KeptUntilReceived(n)'
    BY <1>1, <1>2, <2>1 DEF LinkInv, KeptUntilReceived, InFrames, UpdatesOf
  <2> QED
    BY <2>4, <2>5, <2>6 DEF LinkInv
<1> QED
    BY <1>3, <1>4, <1>5 DEF RingInv

-----------------------------------------------------------------------------
(* The invariant holds of every reachable state. *)

LEMMA RingInit == Init => RingInv
<1> SUFFICES ASSUME Init PROVE RingInv
    OBVIOUS
<1>1. NodeState
    BY DEF Init, NodeState, OfNodes
<1>2. ASSUME NEW n \in Nodes
      PROVE  LinkInv(n)
  <2>1. /\ notSynced[n] = << >> /\ wire[n] = << >> /\ conn[n] = 0
        /\ waiting[n] = FALSE /\ answer[n] = FALSE /\ logged[n] = {}
    BY DEF Init
  <2>2. LinkTypes(n) /\ OneInFlight(n)
    BY <2>1, SequenceEmpty DEF LinkTypes, OneInFlight
  <2>3. WaitsForHead(n) /\ AnswerMeansReceived(n) /\ KeptUntilReceived(n)
    BY <2>1 DEF WaitsForHead, AnswerMeansReceived, KeptUntilReceived
  <2> QED
    BY <2>2, <2>3 DEF LinkInv
<1> QED
    BY <1>1, <1>2 DEF RingInv

LEMMA RingStutter ==
    ASSUME RingInv, UNCHANGED vars
    PROVE  RingInv'
<1>1. UNCHANGED <<pc, notSynced, conn, waiting, wire, answer, logged, acked>>
    BY DEF vars, workerVars, linkVars
<1>2. \A n \in Nodes : LinkInv(n)'
    BY <1>1, LinkStays DEF RingInv
<1> QED
    BY <1>1, <1>2 DEF RingInv, NodeState, OfNodes

LEMMA RingStep == RingInv /\ [Step]_vars => RingInv'
<1> SUFFICES ASSUME RingInv, [Step]_vars
             PROVE  RingInv'
    OBVIOUS
<1>1. CASE Tick
  <2>1. 0 \in Nodes
    BY RingAssumption DEF Nodes
  <2> QED
    BY <1>1, <2>1, AsidePreserves
<1>2. ASSUME NEW n \in Nodes, ClientUpdate(n)
      PROVE  RingInv'
    BY <1>2, AsidePreserves
<1>3. ASSUME NEW n \in Nodes, SyncStep(n)
      PROVE  RingInv'
  <2>1. CASE NoBatch(n) \/ WriteSync(n)
    BY <2>1, AsidePreserves
  <2>2. CASE TakeBatch(n)
    BY <2>2, TakeBatchPreserves
  <2>3. CASE SendFrame(n)
    BY <2>3, SendFramePreserves
  <2>4. CASE FrameAcknowledged(n)
    BY <2>4, FrameAcknowledgedPreserves
  <2>5. CASE AnswerTimesOut(n)
    BY <2>5, DropPreserves DEF AnswerTimesOut
  <2> QED
    BY <1>3, <2>1, <2>2, <2>3, <2>4, <2>5 DEF SyncStep
<1>4. ASSUME NEW n \in Nodes, SendFails(n)
      PROVE  RingInv'
    BY <1>4, DropPreserves DEF SendFails
<1>5. ASSUME NEW n \in Nodes, Dispatch(n)
      PROVE  RingInv'
    BY <1>5, DispatchPreserves
<1>6. ASSUME NEW n \in Nodes, FrameLost(n)
      PROVE  RingInv'
    BY <1>6, FrameLostPreserves
<1>7. ASSUME NEW n \in Nodes, Crash(n) \/ CrashAnswered(n)
      PROVE  RingInv'
    BY <1>7, CrashPreserves, CrashAnsweredPreserves
<1>8. ASSUME NEW n \in Nodes, NEW w \in 1..Workers, ExecuteUpdate(n, w)
      PROVE  RingInv'
    BY <1>8, AsidePreserves
<1>9. CASE UNCHANGED vars
    BY <1>9, RingStutter
<1> QED
    BY <1>1, <1>2, <1>3, <1>4, <1>5, <1>6, <1>7, <1>8, <1>9 DEF Step

(* What is sent, awaited and answered on every link agrees, in every state *)
(* of a ring of any size, with any number of broken connections and        *)
(* crashes (Sync, PollSockets and Dispatch of QuerySyncWorker).            *)
THEOREM RingInvariant == Spec => []RingInv
    BY RingInit, RingStep, PTL DEF Spec

(* A node lets go of an update it has logged to send only when the next    *)
(* node has received it, whatever fails in between (Sync and LogSync).     *)
THEOREM RingSendsUntilReceived == Spec => []SentUntilReceived
<1>1. RingInv => SentUntilReceived
    BY DEF RingInv, LinkInv, KeptUntilReceived, SentUntilReceived
<1> QED
    BY <1>1, RingInvariant, PTL
=============================================================================
