--------------------------- MODULE Connections_proofs ---------------------------
(* What holds of the connections for any number of clients, workers and       *)
(* descriptors: an answer reaches the client that asked, a disconnection      *)
(* withdraws nothing of a client that is still there, and the writes go to    *)
(* one worker and keep their order.                                           *)
EXTENDS Connections, TLAPS

-----------------------------------------------------------------------------
(* Types. *)

LEMMA InTurn ==
    ASSUME NEW i \in Nat, NEW n \in Nat \ {0}
    PROVE  (i % n) + 1 \in 1 .. n
BY SMT

LEMMA WorkersInTurn ==
    /\ \A c \in Clients : WorkerOf(c) \in QueryWorkers
    /\ \A w \in StorageWorkers : (w % NumStorageWorkers) + 1 \in StorageWorkers
BY ConnectionsAssumption, InTurn DEF Clients, QueryWorkers, StorageWorkers, WorkerOf

LEMMA TypesAtStart == Init => TypeOK
<1> SUFFICES ASSUME Init PROVE TypeOK
    OBVIOUS
<1>1. next_worker \in [QueryWorkers -> StorageWorkers]
  <2> SUFFICES ASSUME NEW q \in QueryWorkers
               PROVE  ((q - 1) % NumStorageWorkers) + 1 \in StorageWorkers
      BY DEF Init
  <2>1. q - 1 \in Nat /\ NumStorageWorkers \in Nat \ {0}
      BY ConnectionsAssumption DEF QueryWorkers
  <2> QED
      BY <2>1, InTurn DEF StorageWorkers
<1>2. requests \in Seq(Request) /\ Len(requests) = 0
      /\ executed \in Seq([request : Request, worker : StorageWorkers])
      /\ aggregator \in Seq([tag : {"request", "result"}, body : Request])
      /\ input \in [QueryWorkers -> Seq(Arrival)]
    BY DEF Init
<1>3. MaxRequests \in Nat
    BY ConnectionsAssumption
<1>4. /\ queue \in [StorageWorkers -> SUBSET [at : Nat, msg : Job]]
      /\ posted \in [StorageWorkers -> Nat]
      /\ job \in [StorageWorkers -> SUBSET Job]
      /\ delivered \subseteq [to : Clients, request : Request]
    BY DEF Init
<1>5. /\ client \in [Clients -> {"out", "in", "left", "closed"}]
      /\ descriptor \in [Clients -> Sockets \cup {0}]
      /\ buffers \in [QueryWorkers -> [Sockets -> Clients \cup {0}]]
      /\ closing \in [QueryWorkers -> Clients \cup {0}]
    BY DEF Init
<1>6. /\ context \in StorageWorkers \cup {0}
      /\ storage_dbs_w \in [QueryWorkers -> StorageWorkers \cup {0}]
      /\ storage_dbs \in [QueryWorkers -> StorageWorkers \cup {0}]
      /\ cleared \in BOOLEAN
    BY DEF Init
<1> QED
    BY <1>1, <1>2, <1>3, <1>4, <1>5, <1>6 DEF TypeOK

(* A read, a write and a part of a join are posted to a storage worker. *)
LEMMA JobPosted ==
    ASSUME TypeOK, NEW w \in StorageWorkers, NEW m \in Job, PostJob(w, m)
    PROVE  /\ queue' \in [StorageWorkers -> SUBSET [at : Nat, msg : Job]]
           /\ posted' \in [StorageWorkers -> Nat]
           /\ job' = job /\ executed' = executed
BY DEF TypeOK, PostJob

LEMMA WritePosted ==
    ASSUME TypeOK, NEW q \in QueryWorkers, NEW m \in Job, PostWrite(q, m)
    PROVE  /\ Writer(q) \in StorageWorkers /\ PostJob(Writer(q), m)
           /\ storage_dbs_w' = [storage_dbs_w EXCEPT ![q] = Writer(q)]
           /\ context' \in StorageWorkers \cup {0}
           /\ next_worker' \in [QueryWorkers -> StorageWorkers]
           /\ storage_dbs' = storage_dbs /\ cleared' = cleared
<1>1. Writer(q) \in StorageWorkers
    BY DEF TypeOK, Writer, WriterWorker
<1>2. next_worker[q] \in StorageWorkers
    BY DEF TypeOK
<1>3. (next_worker[q] % NumStorageWorkers) + 1 \in StorageWorkers
    BY <1>2, WorkersInTurn
<1> QED
    BY <1>1, <1>3 DEF TypeOK, PostWrite, Advance

LEMMA ReadPosted ==
    ASSUME TypeOK, NEW q \in QueryWorkers, NEW m \in Job, PostRead(q, m)
    PROVE  /\ \E w \in StorageWorkers : PostJob(w, m)
           /\ storage_dbs' \in [QueryWorkers -> StorageWorkers \cup {0}]
           /\ next_worker' \in [QueryWorkers -> StorageWorkers]
           /\ context' = context /\ storage_dbs_w' = storage_dbs_w /\ cleared' = cleared
<1>1. next_worker[q] \in StorageWorkers /\ storage_dbs[q] \in StorageWorkers \cup {0}
    BY DEF TypeOK
<1>2. (next_worker[q] % NumStorageWorkers) + 1 \in StorageWorkers
    BY <1>1, WorkersInTurn
<1> QED
    BY <1>1, <1>2 DEF TypeOK, PostRead, Advance

(* What arrives at a query worker, and what is taken. *)
LEMMA Posted ==
    ASSUME input \in [QueryWorkers -> Seq(Arrival)],
           NEW q \in QueryWorkers, NEW m \in Arrival, Post(q, m)
    PROVE  /\ input' \in [QueryWorkers -> Seq(Arrival)]
           /\ \A p \in QueryWorkers : p # q => input'[p] = input[p]
           /\ Len(input'[q]) = Len(input[q]) + 1
           /\ \A i \in 1 .. Len(input[q]) : input'[q][i] = input[q][i]
           /\ input'[q][Len(input[q]) + 1] = m
BY DEF Post

LEMMA Consumed ==
    ASSUME input \in [QueryWorkers -> Seq(Arrival)],
           NEW q \in QueryWorkers, input[q] # << >>, Consume(q)
    PROVE  /\ input' \in [QueryWorkers -> Seq(Arrival)]
           /\ \A p \in QueryWorkers : p # q => input'[p] = input[p]
           /\ Len(input'[q]) = Len(input[q]) - 1 /\ Len(input[q]) > 0
           /\ \A i \in 1 .. Len(input'[q]) : input'[q][i] = input[q][i + 1]
           /\ Head(input[q]) = input[q][1] /\ Head(input[q]) \in Arrival
BY DEF Consume

(* A client that was accepted has a descriptor, and no other is being closed. *)
Described ==
    /\ \A c \in Clients : client[c] # "out" => descriptor[c] \in Sockets
    /\ \A q \in QueryWorkers : closing[q] # 0 => client[closing[q]] # "out"

TypeInv == TypeOK /\ Described

(* What each part of a step has to keep. *)
SocketTypes ==
    /\ client \in [Clients -> {"out", "in", "left", "closed"}]
    /\ descriptor \in [Clients -> Sockets \cup {0}]
    /\ buffers \in [QueryWorkers -> [Sockets -> Clients \cup {0}]]
    /\ closing \in [QueryWorkers -> Clients \cup {0}]
    /\ Described

StorageTypes ==
    /\ queue \in [StorageWorkers -> SUBSET [at : Nat, msg : Job]]
    /\ posted \in [StorageWorkers -> Nat]
    /\ job \in [StorageWorkers -> SUBSET Job]
    /\ executed \in Seq([request : Request, worker : StorageWorkers])

RouteTypes ==
    /\ context \in StorageWorkers \cup {0}
    /\ storage_dbs_w \in [QueryWorkers -> StorageWorkers \cup {0}]
    /\ storage_dbs \in [QueryWorkers -> StorageWorkers \cup {0}]
    /\ next_worker \in [QueryWorkers -> StorageWorkers]
    /\ cleared \in BOOLEAN

InputTypes == input \in [QueryWorkers -> Seq(Arrival)]
AggregatorTypes == aggregator \in Seq([tag : {"request", "result"}, body : Request])
RequestTypes == requests \in Seq(Request) /\ Len(requests) <= MaxRequests
AnswerTypes == delivered \subseteq [to : Clients, request : Request]

LEMMA TypeParts ==
    TypeInv <=> /\ SocketTypes /\ StorageTypes /\ RouteTypes /\ InputTypes
                /\ AggregatorTypes /\ RequestTypes /\ AnswerTypes
BY DEF TypeInv, TypeOK, SocketTypes, StorageTypes, RouteTypes, InputTypes, AggregatorTypes,
       RequestTypes, AnswerTypes

LEMMA TypePartsNext ==
    TypeInv' <=> /\ SocketTypes' /\ StorageTypes' /\ RouteTypes' /\ InputTypes'
                 /\ AggregatorTypes' /\ RequestTypes' /\ AnswerTypes'
BY DEF TypeInv, TypeOK, SocketTypes, StorageTypes, RouteTypes, InputTypes, AggregatorTypes,
       RequestTypes, AnswerTypes

(* Steps that leave a part alone. *)
LEMMA TypesUnchanged ==
    ASSUME TypeInv
    PROVE  /\ UNCHANGED socketVars => SocketTypes'
           /\ UNCHANGED storageVars => StorageTypes'
           /\ UNCHANGED routeVars => RouteTypes'
           /\ UNCHANGED input => InputTypes'
           /\ UNCHANGED aggregator => AggregatorTypes'
           /\ UNCHANGED requests => RequestTypes'
           /\ UNCHANGED delivered => AnswerTypes'
<1> SocketTypes /\ StorageTypes /\ RouteTypes /\ InputTypes /\ AggregatorTypes
    /\ RequestTypes /\ AnswerTypes
    BY TypeParts
<1>1. UNCHANGED socketVars => SocketTypes'
    BY DEF SocketTypes, socketVars, Described
<1>2. UNCHANGED storageVars => StorageTypes'
    BY DEF StorageTypes, storageVars
<1>3. UNCHANGED routeVars => RouteTypes'
    BY DEF RouteTypes, routeVars
<1> QED
    BY <1>1, <1>2, <1>3 DEF InputTypes, AggregatorTypes, RequestTypes, AnswerTypes

LEMMA TypesOnAccept ==
    ASSUME TypeInv, NEW c \in Clients, Accept(c)
    PROVE  TypeInv'
<1>1. PICK s \in Sockets :
          /\ descriptor' = [descriptor EXCEPT ![c] = s]
          /\ Post(WorkerOf(c), Message("connect", [client |-> c, socket |-> s]))
    BY DEF Accept
<1>2. Message("connect", [client |-> c, socket |-> s]) \in Arrival
    BY DEF Message, Arrival, Connection
<1>3. InputTypes'
    BY <1>1, <1>2, Posted, WorkersInTurn DEF TypeInv, TypeOK, InputTypes
<1>4. SocketTypes'
    BY <1>1 DEF Accept, TypeInv, TypeOK, Described, SocketTypes
<1> QED
    BY <1>3, <1>4, TypePartsNext, TypesUnchanged DEF Accept

LEMMA TypesOnHangUp ==
    ASSUME TypeInv, NEW c \in Clients, HangUp(c)
    PROVE  TypeInv'
<1>1. SocketTypes'
    BY DEF HangUp, TypeInv, TypeOK, Described, SocketTypes
<1> QED
    BY <1>1, TypePartsNext, TypesUnchanged DEF HangUp

LEMMA TypesOnClose ==
    ASSUME TypeInv, NEW q \in QueryWorkers, CloseSocket(q)
    PROVE  TypeInv'
<1>1. closing[q] \in Clients
    BY DEF TypeInv, TypeOK, CloseSocket
<1>2. /\ client' \in [Clients -> {"out", "in", "left", "closed"}]
      /\ buffers' \in [QueryWorkers -> [Sockets -> Clients \cup {0}]]
      /\ closing' \in [QueryWorkers -> Clients \cup {0}]
      /\ descriptor' = descriptor
    BY <1>1 DEF CloseSocket, RemoveSocket, TypeInv, TypeOK
<1>3. Described'
    BY <1>1 DEF CloseSocket, RemoveSocket, TypeInv, TypeOK, Described
<1>4. SocketTypes'
    BY <1>2, <1>3 DEF TypeInv, TypeOK, SocketTypes
<1> QED
    BY <1>4, TypePartsNext, TypesUnchanged DEF CloseSocket

LEMMA TypesOnReadFailure ==
    ASSUME TypeInv, NEW q \in QueryWorkers, ReadFails(q)
    PROVE  TypeInv'
<1>1. PICK c \in Clients : RemoveFromQueue(c) /\ closing' = [closing EXCEPT ![q] = c]
    BY DEF ReadFails
<1>2. SocketTypes'
    BY <1>1 DEF ReadFails, TypeInv, TypeOK, Described, SocketTypes
<1>3. StorageTypes'
    BY <1>1 DEF ReadFails, RemoveFromQueue, TypeInv, TypeOK, StorageTypes
<1> QED
    BY <1>2, <1>3, TypePartsNext, TypesUnchanged DEF ReadFails

LEMMA TypesOnWrite ==
    ASSUME TypeInv, NEW q \in QueryWorkers, NEW m \in Job, PostWrite(q, m)
    PROVE  StorageTypes' /\ RouteTypes'
<1> TypeOK
    BY DEF TypeInv
<1>1. StorageTypes'
    BY WritePosted, JobPosted DEF TypeOK, StorageTypes
<1>2. RouteTypes'
    BY WritePosted DEF TypeOK, RouteTypes
<1> QED
    BY <1>1, <1>2

LEMMA TypesOnRead ==
    ASSUME TypeInv, NEW q \in QueryWorkers, NEW m \in Job, PostRead(q, m)
    PROVE  StorageTypes' /\ RouteTypes'
<1> TypeOK
    BY DEF TypeInv
<1>1. StorageTypes'
    BY ReadPosted, JobPosted DEF TypeOK, StorageTypes
<1>2. RouteTypes'
    BY ReadPosted DEF TypeOK, RouteTypes
<1> QED
    BY <1>1, <1>2

(* A dispatched request, with the properties that say where its answer goes. *)
LEMMA Dispatched ==
    ASSUME TypeInv, NEW q \in QueryWorkers, Dispatch(q)
    PROVE  \E c \in Clients, r \in Request :
              /\ client[c] = "in" /\ buffers[q][descriptor[c]] = c
              /\ r.id = Len(requests) + 1 /\ r.client = c
              /\ r.socket = descriptor[c] /\ r.io = q
              /\ Message("request", r) \in Job
              /\ requests' = Append(requests, r) /\ Len(requests) < MaxRequests
              /\ \/ r.kind = "write" /\ PostWrite(q, Message("request", r)) /\ UNCHANGED aggregator
                 \/ r.kind = "read" /\ PostRead(q, Message("request", r)) /\ UNCHANGED aggregator
                 \/ /\ r.kind = "join" /\ aggregator' = Append(aggregator, Message("request", r))
                    /\ UNCHANGED <<storageVars, routeVars>>
<1>1. PICK c \in Clients, k \in Kinds :
          LET r == [id |-> Len(requests) + 1, client |-> c, kind |-> k,
                    socket |-> descriptor[c], io |-> q]
              m == Message("request", r)
          IN /\ client[c] = "in" /\ buffers[q][descriptor[c]] = c
             /\ requests' = Append(requests, r)
             /\ \/ k = "write" /\ PostWrite(q, m) /\ UNCHANGED aggregator
                \/ k = "read" /\ PostRead(q, m) /\ UNCHANGED aggregator
                \/ k = "join" /\ aggregator' = Append(aggregator, m)
                   /\ UNCHANGED <<storageVars, routeVars>>
    BY DEF Dispatch
<1> DEFINE r == [id |-> Len(requests) + 1, client |-> c, kind |-> k,
                 socket |-> descriptor[c], io |-> q]
<1>2. Len(requests) < MaxRequests /\ Len(requests) \in Nat /\ MaxRequests \in Nat
    BY ConnectionsAssumption DEF Dispatch, TypeInv, TypeOK
<1>3. descriptor[c] \in Sockets
    BY <1>1 DEF TypeInv, Described
<1>4. r \in Request
    BY <1>2, <1>3 DEF Request
<1>5. Message("request", r) \in Job
    BY <1>4 DEF Message, Job
<1> QED
    BY <1>1, <1>2, <1>4, <1>5

LEMMA TypesOnDispatch ==
    ASSUME TypeInv, NEW q \in QueryWorkers, Dispatch(q)
    PROVE  TypeInv'
<1>1. PICK c \in Clients, r \in Request :
          /\ Message("request", r) \in Job
          /\ requests' = Append(requests, r) /\ Len(requests) < MaxRequests
          /\ \/ r.kind = "write" /\ PostWrite(q, Message("request", r)) /\ UNCHANGED aggregator
             \/ r.kind = "read" /\ PostRead(q, Message("request", r)) /\ UNCHANGED aggregator
             \/ /\ r.kind = "join" /\ aggregator' = Append(aggregator, Message("request", r))
                /\ UNCHANGED <<storageVars, routeVars>>
    BY Dispatched
<1>2. RequestTypes'
  <2>1. requests \in Seq(Request) /\ MaxRequests \in Nat
      BY ConnectionsAssumption DEF TypeInv, TypeOK
  <2> QED
      BY <1>1, <2>1 DEF RequestTypes
<1>3. StorageTypes' /\ RouteTypes' /\ AggregatorTypes'
  <2>1. CASE PostWrite(q, Message("request", r)) /\ UNCHANGED aggregator
      BY <1>1, <2>1, TypesOnWrite, TypesUnchanged
  <2>2. CASE PostRead(q, Message("request", r)) /\ UNCHANGED aggregator
      BY <1>1, <2>2, TypesOnRead, TypesUnchanged
  <2>3. CASE /\ aggregator' = Append(aggregator, Message("request", r))
             /\ UNCHANGED <<storageVars, routeVars>>
    <3>1. Message("request", r) \in [tag : {"request", "result"}, body : Request]
        BY DEF Message
    <3>2. AggregatorTypes'
        BY <2>3, <3>1 DEF TypeInv, TypeOK, AggregatorTypes
    <3> QED
        BY <2>3, <3>2, TypesUnchanged
  <2> QED
      BY <1>1, <2>1, <2>2, <2>3
<1> QED
    BY <1>2, <1>3, TypePartsNext, TypesUnchanged DEF Dispatch

(* A request that arrives, as an answer or as a part of a join. *)
LEMMA Arrived ==
    ASSUME TypeInv, NEW q \in QueryWorkers, NEW t, Received(q, t), Consume(q)
    PROVE  /\ InputTypes'
           /\ Incoming(q) = input[q][1].body /\ input[q][1].tag = t
           /\ t = "connect" => Incoming(q) \in Connection
           /\ t \in {"reply", "postback", "part"} => Incoming(q) \in Request
<1>1. input[q] # << >> /\ Head(input[q]).tag = t
    BY DEF Received
<1>2. InputTypes' /\ Head(input[q]) = input[q][1] /\ Head(input[q]) \in Arrival
    BY <1>1, Consumed DEF TypeInv, TypeOK, InputTypes
<1>3. t = "connect" => Head(input[q]).body \in Connection
    BY <1>1, <1>2 DEF Arrival
<1>4. t \in {"reply", "postback", "part"} => Head(input[q]).body \in Request
    BY <1>1, <1>2 DEF Arrival
<1> QED
    BY <1>1, <1>2, <1>3, <1>4 DEF Incoming

LEMMA TypesOnConnection ==
    ASSUME TypeInv, NEW q \in QueryWorkers, AddConnection(q)
    PROVE  TypeInv'
<1>1. InputTypes' /\ Incoming(q) \in Connection
    BY Arrived DEF AddConnection
<1>2. SocketTypes'
    BY <1>1 DEF AddConnection, Connection, TypeInv, TypeOK, Described, SocketTypes
<1> QED
    BY <1>1, <1>2, TypePartsNext, TypesUnchanged DEF AddConnection

LEMMA TypesOnSend ==
    ASSUME TypeInv, NEW s, NEW r \in Request, SendTo(s, r)
    PROVE  AnswerTypes'
BY DEF SendTo, TypeInv, TypeOK, AnswerTypes

LEMMA TypesOnAnswer ==
    ASSUME TypeInv, NEW q \in QueryWorkers, Reply(q) \/ Postback(q)
    PROVE  TypeInv'
<1>1. InputTypes' /\ Incoming(q) \in Request
    BY Arrived DEF Reply, Postback
<1>2. AnswerTypes'
    BY <1>1, TypesOnSend, TypesUnchanged DEF Reply, Postback
<1> QED
    BY <1>1, <1>2, TypePartsNext, TypesUnchanged DEF Reply, Postback

LEMMA TypesOnPostbackFailure ==
    ASSUME TypeInv, NEW q \in QueryWorkers, PostbackFails(q)
    PROVE  TypeInv'
<1>1. InputTypes'
    BY Arrived DEF PostbackFails
<1>2. PICK c \in Clients : client[c] = "left" /\ RemoveSocket(q, c)
    BY DEF PostbackFails
<1>3. SocketTypes'
    BY <1>2 DEF PostbackFails, RemoveSocket, TypeInv, TypeOK, Described, SocketTypes
<1> QED
    BY <1>1, <1>3, TypePartsNext, TypesUnchanged DEF PostbackFails

LEMMA TypesOnPart ==
    ASSUME TypeInv, NEW q \in QueryWorkers, DispatchPart(q)
    PROVE  /\ TypeInv' /\ Incoming(q) \in Request
           /\ Message("part", Incoming(q)) \in Job
<1>1. InputTypes' /\ Incoming(q) \in Request
    BY Arrived DEF DispatchPart
<1>2. Message("part", Incoming(q)) \in Job
    BY <1>1 DEF Message, Job
<1>3. StorageTypes' /\ RouteTypes'
    BY <1>2, TypesOnRead DEF DispatchPart
<1> QED
    BY <1>1, <1>2, <1>3, TypePartsNext, TypesUnchanged DEF DispatchPart

LEMMA TypesOnTake ==
    ASSUME TypeInv, NEW w \in StorageWorkers, TakeJob(w)
    PROVE  TypeInv'
<1>1. PICK n \in queue[w] :
          /\ job' = [job EXCEPT ![w] = {n.msg}]
          /\ queue' = [queue EXCEPT ![w] = @ \ {n}]
    BY DEF TakeJob
<1>2. n.msg \in Job
    BY DEF TypeInv, TypeOK
<1>3. StorageTypes'
    BY <1>1, <1>2 DEF TakeJob, TypeInv, TypeOK, StorageTypes
<1> QED
    BY <1>3, TypePartsNext, TypesUnchanged DEF TakeJob

LEMMA TypesOnExecute ==
    ASSUME TypeInv, NEW w \in StorageWorkers, ExecuteJob(w)
    PROVE  TypeInv'
<1>1. PICK m \in job[w] :
          /\ executed' = IF m.body.kind = "write"
                         THEN Append(executed, [request |-> m.body, worker |-> w]) ELSE executed
          /\ IF m.tag = "part"
             THEN aggregator' = Append(aggregator, Message("result", m.body)) /\ UNCHANGED input
             ELSE Post(m.body.io, Message("reply", m.body)) /\ UNCHANGED aggregator
    BY DEF ExecuteJob
<1>2. m \in Job /\ m.body \in Request /\ m.body.io \in QueryWorkers
    BY DEF TypeInv, TypeOK, Job, Request
<1>3. StorageTypes'
  <2>1. [request |-> m.body, worker |-> w] \in [request : Request, worker : StorageWorkers]
      BY <1>2
  <2>2. executed \in Seq([request : Request, worker : StorageWorkers])
      BY DEF TypeInv, TypeOK
  <2>3. \/ executed' = Append(executed, [request |-> m.body, worker |-> w])
        \/ executed' = executed
      BY <1>1
  <2>4. executed' \in Seq([request : Request, worker : StorageWorkers])
    <3> DEFINE S == [request : Request, worker : StorageWorkers]
               e == [request |-> m.body, worker |-> w]
    <3>1. e \in S /\ executed \in Seq(S) /\ (executed' = Append(executed, e) \/ executed' = executed)
        BY <2>1, <2>2, <2>3
    <3> HIDE DEF S, e
    <3>2. executed' \in Seq(S)
        BY <3>1
    <3> QED
        BY <3>2 DEF S
  <2> QED
      BY <2>4 DEF ExecuteJob, TypeInv, TypeOK, StorageTypes
<1>4. InputTypes' /\ AggregatorTypes'
  <2>1. Message("reply", m.body) \in Arrival
      BY <1>2 DEF Message, Arrival
  <2>2. Message("result", m.body) \in [tag : {"request", "result"}, body : Request]
      BY <1>2 DEF Message
  <2>3. CASE m.tag = "part"
    <3> DEFINE S == [tag : {"request", "result"}, body : Request]
               e == Message("result", m.body)
    <3>1. aggregator' = Append(aggregator, e) /\ UNCHANGED input
        BY <1>1, <2>3
    <3>2. aggregator \in Seq(S) /\ e \in S
        BY <2>2 DEF TypeInv, TypeOK
    <3> HIDE DEF S, e
    <3>3. aggregator' \in Seq(S)
        BY <3>1, <3>2
    <3> QED
        BY <3>1, <3>3, TypesUnchanged DEF S, AggregatorTypes
  <2>4. CASE m.tag # "part"
    <3>1. Post(m.body.io, Message("reply", m.body)) /\ UNCHANGED aggregator
        BY <1>1, <2>4
    <3>2. InputTypes /\ AggregatorTypes
        BY TypeParts
    <3>3. InputTypes'
        BY <1>2, <2>1, <3>1, <3>2, Posted DEF InputTypes
    <3> QED
        BY <3>1, <3>2, <3>3 DEF AggregatorTypes
  <2> QED
      BY <2>3, <2>4
<1> QED
    BY <1>3, <1>4, TypePartsNext, TypesUnchanged DEF ExecuteJob

LEMMA TypesOnAggregate ==
    ASSUME TypeInv, Aggregate
    PROVE  TypeInv'
<1>1. aggregator \in Seq([tag : {"request", "result"}, body : Request]) /\ aggregator # << >>
    BY DEF TypeInv, TypeOK, Aggregate
<1>2. AggregatorTypes' /\ Head(aggregator) \in [tag : {"request", "result"}, body : Request]
  <2> DEFINE S == [tag : {"request", "result"}, body : Request]
  <2>1. aggregator \in Seq(S) /\ aggregator # << >>
      BY <1>1
  <2>2. aggregator' = Tail(aggregator)
      BY DEF Aggregate
  <2> HIDE DEF S
  <2>3. Tail(aggregator) \in Seq(S) /\ Head(aggregator) \in S
      BY <2>1
  <2> QED
      BY <2>2, <2>3 DEF S, AggregatorTypes
<1> DEFINE r == Head(aggregator).body
<1>3. r \in Request /\ r.io \in QueryWorkers
    BY <1>2 DEF Request
<1>4. Message("part", r) \in Arrival /\ Message("postback", r) \in Arrival
    BY <1>3 DEF Message, Arrival
<1>5. \E q \in QueryWorkers : Post(q, Message("part", r)) \/ Post(q, Message("postback", r))
    BY <1>3 DEF Aggregate
<1>6. InputTypes'
    BY <1>4, <1>5, Posted DEF TypeInv, TypeOK, InputTypes
<1> QED
    BY <1>2, <1>6, TypePartsNext, TypesUnchanged DEF Aggregate

LEMMA TypesOnClear ==
    ASSUME TypeInv, ClearContext
    PROVE  TypeInv'
<1>1. RouteTypes'
    BY DEF ClearContext, TypeInv, TypeOK, RouteTypes
<1> QED
    BY <1>1, TypePartsNext, TypesUnchanged DEF ClearContext

LEMMA TypesKept == TypeInv /\ [Next]_vars => TypeInv'
<1> SUFFICES ASSUME TypeInv, [Next]_vars PROVE TypeInv'
    OBVIOUS
<1>1. ASSUME NEW c \in Clients, Accept(c) \/ HangUp(c) PROVE TypeInv'
    BY <1>1, TypesOnAccept, TypesOnHangUp
<1>2. ASSUME NEW q \in QueryWorkers, Iteration(q) \/ Dispatch(q) \/ ReadFails(q)
      PROVE TypeInv'
    BY <1>2, TypesOnConnection, TypesOnAnswer, TypesOnPostbackFailure, TypesOnPart,
       TypesOnClose, TypesOnDispatch, TypesOnReadFailure DEF Iteration
<1>3. ASSUME NEW w \in StorageWorkers, TakeJob(w) \/ ExecuteJob(w) PROVE TypeInv'
    BY <1>3, TypesOnTake, TypesOnExecute
<1>4. CASE UNCHANGED vars
    BY <1>4, TypePartsNext, TypesUnchanged DEF vars
<1> QED
    BY <1>1, <1>2, <1>3, <1>4, TypesOnAggregate, TypesOnClear DEF Next

(* Every reachable state is well typed: what a query worker asks or remembers is  *)
(* one of the storage workers, and a descriptor is known to belong to a client.   *)
THEOREM ConnectionTypes == Spec => []TypeOK
<1>1. Init => TypeInv
    BY TypesAtStart DEF TypeInv, Described, Init
<1>2. TypeInv => TypeOK
    BY DEF TypeInv
<1> QED
    BY <1>1, <1>2, TypesKept, PTL DEF Spec

-----------------------------------------------------------------------------
(* Descriptors.                                                             *)

(* Clients are accepted in order. *)
InOrder ==
    \A c, d \in Clients : c < d /\ client[d] # "out" => client[c] # "out"

(* Of two clients that were given the same descriptor the first is gone. *)
LaterOwner ==
    \A c, d \in Clients :
        c < d /\ client[c] # "out" /\ client[d] # "out" /\ descriptor[c] = descriptor[d]
            => client[c] = "closed"

(* What a query worker knows of a descriptor is true. *)
KnownOpen ==
    \A q \in QueryWorkers, s \in Sockets :
        LET c == buffers[q][s] IN
        c # 0 => IsOpen(c) /\ descriptor[c] = s /\ WorkerOf(c) = q

TableInv == InOrder /\ LaterOwner /\ KnownOpen

(* A connection is announced once, to its worker, which does not know it yet. *)
Announces(q, i) == input[q][i].tag = "connect"

NotYetKnown(q, b) ==
    /\ b.client \in Clients /\ b.socket \in Sockets
    /\ IsOpen(b.client) /\ descriptor[b.client] = b.socket /\ WorkerOf(b.client) = q
    /\ buffers[q][b.socket] # b.client

ArrivalInv ==
    \A q \in QueryWorkers : \A i \in 1 .. Len(input[q]) :
        Announces(q, i) =>
            /\ NotYetKnown(q, input[q][i].body)
            /\ \A j \in 1 .. Len(input[q]) :
                  Announces(q, j) /\ input[q][j].body.client = input[q][i].body.client => i = j

(* A worker closes the socket of a client of its own that has left. *)
ClosingInv ==
    \A q \in QueryWorkers :
        closing[q] # 0 =>
            client[closing[q]] = "left" /\ buffers[q][descriptor[closing[q]]] = closing[q]

SocketInv == TableInv /\ ArrivalInv /\ ClosingInv

LEMMA NoClientIsZero == 0 \notin Clients
BY DEF Clients

LEMMA SocketsAtStart == Init => SocketInv
<1> SUFFICES ASSUME Init PROVE SocketInv
    OBVIOUS
<1>1. TableInv
    BY DEF Init, TableInv, InOrder, LaterOwner, KnownOpen
<1>2. ArrivalInv
  <2>1. \A q \in QueryWorkers : Len(input[q]) = 0
      BY DEF Init
  <2> QED
      BY <2>1 DEF ArrivalInv
<1>3. ClosingInv
    BY DEF Init, ClosingInv
<1> QED
    BY <1>1, <1>2, <1>3 DEF SocketInv

(* Steps that announce no connection. *)
LEMMA ArrivalsTaken ==
    ASSUME TypeInv, SocketInv, NEW q \in QueryWorkers, input[q] # << >>, Consume(q),
           \A p \in QueryWorkers : \A b : NotYetKnown(p, b) => NotYetKnown(p, b)'
    PROVE  ArrivalInv'
<1>1. /\ \A p \in QueryWorkers : p # q => input'[p] = input[p]
      /\ Len(input'[q]) = Len(input[q]) - 1 /\ Len(input[q]) > 0
      /\ \A i \in 1 .. Len(input'[q]) : input'[q][i] = input[q][i + 1]
    BY Consumed DEF TypeInv, TypeOK
<1>2. Len(input[q]) \in Nat
    BY DEF TypeInv, TypeOK
<1> SUFFICES ASSUME NEW p \in QueryWorkers, NEW i \in 1 .. Len(input'[p]), Announces(p, i)'
             PROVE  /\ NotYetKnown(p, input[p][i].body)'
                    /\ \A j \in 1 .. Len(input'[p]) :
                          Announces(p, j)' /\ input'[p][j].body.client = input'[p][i].body.client
                              => i = j
    BY DEF ArrivalInv
<1>3. CASE p # q
  <2>1. input'[p] = input[p] /\ Announces(p, i)
      BY <1>1, <1>3 DEF Announces
  <2>2. PICK b : b = input[p][i].body /\ b = input'[p][i].body
      BY <2>1
  <2>3. NotYetKnown(p, b)
      BY <2>1, <2>2 DEF SocketInv, ArrivalInv
  <2>4. NotYetKnown(p, b)'
      BY <2>3
  <2>5. NotYetKnown(p, input[p][i].body)'
      BY <2>2, <2>4 DEF NotYetKnown
  <2> QED
      BY <2>1, <2>5 DEF SocketInv, ArrivalInv, Announces
<1>4. CASE p = q
  <2>1. i + 1 \in 1 .. Len(input[q]) /\ \A j \in 1 .. Len(input'[q]) : j + 1 \in 1 .. Len(input[q])
      BY <1>1, <1>2, <1>4
  <2>2. Announces(q, i + 1)
      BY <1>1, <1>4 DEF Announces
  <2>3. /\ NotYetKnown(q, input[q][i + 1].body)
        /\ \A j \in 1 .. Len(input[q]) :
              Announces(q, j) /\ input[q][j].body.client = input[q][i + 1].body.client => i + 1 = j
      BY <2>1, <2>2 DEF SocketInv, ArrivalInv
  <2>4. NotYetKnown(p, input[p][i].body)'
    <3>1. PICK b : b = input[q][i + 1].body /\ b = input'[p][i].body
        BY <1>1, <1>4
    <3>2. NotYetKnown(p, b)
        BY <2>3, <3>1, <1>4
    <3>3. NotYetKnown(p, b)'
        BY <3>2
    <3> QED
        BY <3>1, <3>3 DEF NotYetKnown
  <2>5. ASSUME NEW j \in 1 .. Len(input'[q]),
               Announces(q, j)', input'[q][j].body.client = input'[q][i].body.client
        PROVE  i = j
    <3>1. Announces(q, j + 1) /\ input[q][j + 1].body.client = input[q][i + 1].body.client
        BY <1>1, <1>4, <2>5 DEF Announces
    <3>2. i + 1 = j + 1
        BY <2>1, <2>3, <3>1
    <3>3. i \in Int /\ j \in Int
        BY <1>4
    <3> QED
        BY <3>2, <3>3
  <2> QED
      BY <1>4, <2>4, <2>5
<1> QED
    BY <1>3, <1>4

LEMMA ArrivalsAdded ==
    ASSUME TypeInv, SocketInv, NEW q \in QueryWorkers, NEW m \in Arrival, m.tag # "connect",
           Post(q, m), client' = client, descriptor' = descriptor, buffers' = buffers
    PROVE  ArrivalInv'
<1>1. /\ \A p \in QueryWorkers : p # q => input'[p] = input[p]
      /\ Len(input'[q]) = Len(input[q]) + 1
      /\ \A i \in 1 .. Len(input[q]) : input'[q][i] = input[q][i]
      /\ input'[q][Len(input[q]) + 1] = m
    BY Posted DEF TypeInv, TypeOK
<1>2. Len(input[q]) \in Nat
    BY DEF TypeInv, TypeOK
<1>3. \A p \in QueryWorkers : \A i \in 1 .. Len(input'[p]) :
          Announces(p, i)' => i \in 1 .. Len(input[p]) /\ input'[p][i] = input[p][i]
    BY <1>1, <1>2 DEF Announces
<1>4. \A p \in QueryWorkers : \A i \in 1 .. Len(input'[p]) :
          Announces(p, i)' => Announces(p, i)
    BY <1>3 DEF Announces
<1>5. \A p \in QueryWorkers : \A b : NotYetKnown(p, b) => NotYetKnown(p, b)'
    BY DEF NotYetKnown, IsOpen
<1> QED
    BY <1>3, <1>4, <1>5 DEF SocketInv, ArrivalInv

(* A client is accepted. *)
LEMMA SocketsOnAccept ==
    ASSUME TypeInv, SocketInv, NEW c \in Clients, Accept(c)
    PROVE  SocketInv'
<1> DEFINE q == WorkerOf(c)
<1>1. PICK s \in Sockets :
          /\ Unused(s)
          /\ descriptor' = [descriptor EXCEPT ![c] = s]
          /\ Post(q, Message("connect", [client |-> c, socket |-> s]))
    BY DEF Accept
<1>2. /\ client[c] = "out" /\ client' = [client EXCEPT ![c] = "in"]
      /\ \A d \in Clients : d < c => client[d] # "out"
      /\ buffers' = buffers /\ closing' = closing /\ q \in QueryWorkers
    BY WorkersInTurn DEF Accept
<1>3. /\ client'[c] = "in" /\ descriptor'[c] = s
      /\ \A d \in Clients : d # c => client'[d] = client[d] /\ descriptor'[d] = descriptor[d]
    BY <1>1, <1>2 DEF TypeInv, TypeOK
<1>4. \A d \in Clients : IsOpen(d) => d # c /\ IsOpen(d)'
    BY <1>2, <1>3 DEF IsOpen
<1>5. InOrder'
    BY <1>2, <1>3 DEF SocketInv, TableInv, InOrder
<1>6. LaterOwner'
  <2> SUFFICES ASSUME NEW b \in Clients, NEW d \in Clients, b < d, client'[b] # "out",
                      client'[d] # "out", descriptor'[b] = descriptor'[d]
               PROVE  client'[b] = "closed"
      BY DEF LaterOwner
  <2>1. CASE b # c /\ d # c
      BY <2>1, <1>3 DEF SocketInv, TableInv, LaterOwner
  <2>2. CASE d = c
    <3>1. b # c /\ client'[b] = client[b] /\ descriptor[b] = s
        BY <2>2, <1>3 DEF Clients
    <3>2. client[b] \in {"out", "in", "left", "closed"}
        BY DEF TypeInv, TypeOK
    <3> QED
        BY <3>1, <3>2, <1>1 DEF Unused, IsOpen
  <2>3. CASE b = c
    <3>1. d # c /\ client[d] # "out"
        BY <2>3, <1>3 DEF Clients
    <3> QED
        BY <3>1, <2>3, <1>2 DEF SocketInv, TableInv, InOrder
  <2> QED
      BY <2>1, <2>2, <2>3
<1>7. KnownOpen'
  <2> SUFFICES ASSUME NEW p \in QueryWorkers, NEW t \in Sockets, buffers[p][t] # 0
               PROVE  /\ IsOpen(buffers[p][t])' /\ descriptor'[buffers[p][t]] = t
                      /\ WorkerOf(buffers[p][t]) = p
      BY <1>2 DEF KnownOpen, IsOpen
  <2>1. buffers[p][t] \in Clients
      BY DEF TypeInv, TypeOK
  <2>2. IsOpen(buffers[p][t]) /\ descriptor[buffers[p][t]] = t /\ WorkerOf(buffers[p][t]) = p
      BY DEF SocketInv, TableInv, KnownOpen
  <2> QED
      BY <2>1, <2>2, <1>2, <1>3, <1>4 DEF IsOpen
<1>8. ClosingInv'
  <2>1. \A p \in QueryWorkers : closing[p] # 0 => closing[p] \in Clients
      BY DEF TypeInv, TypeOK
  <2> QED
      BY <2>1, <1>2, <1>3 DEF SocketInv, ClosingInv
<1>9. ArrivalInv'
  <2> DEFINE m == Message("connect", [client |-> c, socket |-> s])
             n == Len(input[q]) + 1
  <2>1. m \in Arrival /\ m.tag = "connect" /\ m.body.client = c /\ m.body.socket = s
      BY DEF Message, Arrival, Connection
  <2>2. /\ \A p \in QueryWorkers : p # q => input'[p] = input[p]
        /\ Len(input'[q]) = n /\ input'[q][n] = m
        /\ \A i \in 1 .. Len(input[q]) : input'[q][i] = input[q][i]
      BY <1>1, <1>2, <2>1, Posted DEF TypeInv, TypeOK
  <2>3. Len(input[q]) \in Nat
      BY <1>2 DEF TypeInv, TypeOK
  <2>4. \A p \in QueryWorkers : \A i \in 1 .. Len(input'[p]) :
            \/ p = q /\ i = n
            \/ i \in 1 .. Len(input[p]) /\ input'[p][i] = input[p][i]
      BY <2>2, <2>3
  <2>5. NotYetKnown(q, m.body)'
    <3>1. buffers[q][s] # c
      <4> SUFFICES ASSUME buffers[q][s] = c PROVE FALSE
          OBVIOUS
      <4>1. c # 0
          BY NoClientIsZero
      <4> QED
          BY <4>1, <1>2, <1>4 DEF SocketInv, TableInv, KnownOpen
    <3> QED
        BY <3>1, <2>1, <1>2, <1>3 DEF NotYetKnown, IsOpen
  <2>6. \A p \in QueryWorkers : \A b : NotYetKnown(p, b) => NotYetKnown(p, b)' /\ b.client # c
      BY <1>2, <1>3, <1>4 DEF NotYetKnown
  <2>7. \A p \in QueryWorkers : \A i \in 1 .. Len(input[p]) :
            Announces(p, i) => input[p][i].body.client # c
      BY <2>6 DEF SocketInv, ArrivalInv
  <2> HIDE DEF m, n
  <2> SUFFICES ASSUME NEW p \in QueryWorkers, NEW i \in 1 .. Len(input'[p]), Announces(p, i)'
               PROVE  /\ NotYetKnown(p, input[p][i].body)'
                      /\ \A j \in 1 .. Len(input'[p]) :
                            Announces(p, j)' /\ input'[p][j].body.client = input'[p][i].body.client
                                => i = j
      BY DEF ArrivalInv
  <2>8. CASE p = q /\ i = n
    <3>1. \A j \in 1 .. Len(input'[p]) : Announces(p, j)' /\ j # n => input'[p][j].body.client # c
        BY <2>8, <2>4, <2>7 DEF Announces
    <3> QED
        BY <3>1, <2>1, <2>2, <2>5, <2>8
  <2>9. CASE i \in 1 .. Len(input[p]) /\ input'[p][i] = input[p][i]
    <3>1. Announces(p, i)
        BY <2>9 DEF Announces
    <3>2. NotYetKnown(p, input[p][i].body) /\ input[p][i].body.client # c
        BY <3>1, <2>6, <2>9 DEF SocketInv, ArrivalInv
    <3>3. NotYetKnown(p, input[p][i].body)'
        BY <3>2, <2>9, <1>2, <1>3 DEF NotYetKnown, IsOpen
    <3>4. ASSUME NEW j \in 1 .. Len(input'[p]), Announces(p, j)',
                 input'[p][j].body.client = input'[p][i].body.client
          PROVE  i = j
      <4>1. input'[p][j].body.client # c
          BY <3>2, <3>4, <2>9
      <4>2. j \in 1 .. Len(input[p]) /\ input'[p][j] = input[p][j]
          BY <4>1, <2>1, <2>2, <2>4
      <4>3. Announces(p, j)
          BY <3>4, <4>2 DEF Announces
      <4> QED
          BY <3>1, <3>4, <4>2, <4>3, <2>9 DEF SocketInv, ArrivalInv
    <3> QED
        BY <3>3, <3>4
  <2> QED
      BY <2>4, <2>8, <2>9
<1> QED
    BY <1>5, <1>6, <1>7, <1>8, <1>9 DEF SocketInv, TableInv

(* A worker reads the announcement and knows the client. *)
LEMMA SocketsOnConnection ==
    ASSUME TypeInv, SocketInv, NEW q \in QueryWorkers, AddConnection(q)
    PROVE  SocketInv'
<1> DEFINE c == Incoming(q).client
           s == Incoming(q).socket
<1>1. /\ closing[q] = 0 /\ input[q] # << >> /\ Consume(q)
      /\ buffers' = [buffers EXCEPT ![q][s] = c]
      /\ client' = client /\ descriptor' = descriptor /\ closing' = closing
    BY DEF AddConnection, Received
<1>2. Incoming(q) = input[q][1].body /\ input[q][1].tag = "connect" /\ Incoming(q) \in Connection
    BY Arrived DEF AddConnection
<1>3. /\ \A p \in QueryWorkers : p # q => input'[p] = input[p]
      /\ Len(input'[q]) = Len(input[q]) - 1 /\ Len(input[q]) > 0 /\ Len(input[q]) \in Nat
      /\ \A i \in 1 .. Len(input'[q]) : input'[q][i] = input[q][i + 1]
    BY <1>1, Consumed DEF TypeInv, TypeOK
<1>4. Announces(q, 1) /\ 1 \in 1 .. Len(input[q])
    BY <1>2, <1>3 DEF Announces
<1>5. /\ NotYetKnown(q, Incoming(q))
      /\ \A j \in 1 .. Len(input[q]) : Announces(q, j) /\ input[q][j].body.client = c => j = 1
    BY <1>2, <1>4 DEF SocketInv, ArrivalInv
<1>6. c \in Clients /\ s \in Sockets /\ IsOpen(c) /\ descriptor[c] = s /\ WorkerOf(c) = q
    BY <1>5 DEF NotYetKnown
<1>7. /\ buffers'[q][s] = c
      /\ \A p \in QueryWorkers, t \in Sockets : p # q \/ t # s => buffers'[p][t] = buffers[p][t]
    BY <1>1, <1>6 DEF TypeInv, TypeOK
<1> HIDE DEF c, s
<1>8. KnownOpen'
    BY <1>1, <1>6, <1>7 DEF SocketInv, TableInv, KnownOpen, IsOpen
<1>9. InOrder' /\ LaterOwner'
    BY <1>1 DEF SocketInv, TableInv, InOrder, LaterOwner
<1>10. ClosingInv'
  <2> SUFFICES ASSUME NEW p \in QueryWorkers, closing[p] # 0
               PROVE  /\ client[closing[p]] = "left"
                      /\ buffers'[p][descriptor[closing[p]]] = closing[p]
      BY <1>1 DEF ClosingInv
  <2>1. p # q /\ closing[p] \in Clients
      BY <1>1 DEF TypeInv, TypeOK
  <2>2. client[closing[p]] = "left" /\ buffers[p][descriptor[closing[p]]] = closing[p]
      BY DEF SocketInv, ClosingInv
  <2>3. descriptor[closing[p]] \in Sockets
      BY <2>1, <2>2 DEF TypeInv, Described
  <2> QED
      BY <2>1, <2>2, <2>3, <1>7
<1>11. ArrivalInv'
  <2> SUFFICES ASSUME NEW p \in QueryWorkers, NEW i \in 1 .. Len(input'[p]), Announces(p, i)'
               PROVE  /\ NotYetKnown(p, input[p][i].body)'
                      /\ \A j \in 1 .. Len(input'[p]) :
                            Announces(p, j)' /\ input'[p][j].body.client = input'[p][i].body.client
                                => i = j
      BY DEF ArrivalInv
  <2>1. CASE p # q
    <3>1. input'[p] = input[p] /\ Announces(p, i)
        BY <2>1, <1>3 DEF Announces
    <3>2. NotYetKnown(p, input[p][i].body)
        BY <3>1 DEF SocketInv, ArrivalInv
    <3>3. NotYetKnown(p, input[p][i].body)'
        BY <3>1, <3>2, <2>1, <1>1, <1>7 DEF NotYetKnown, IsOpen
    <3> QED
        BY <3>1, <3>3 DEF SocketInv, ArrivalInv, Announces
  <2>2. CASE p = q
    <3>1. /\ i + 1 \in 1 .. Len(input[q]) /\ i + 1 # 1
          /\ \A j \in 1 .. Len(input'[q]) : j + 1 \in 1 .. Len(input[q])
        BY <1>3, <2>2
    <3>2. Announces(q, i + 1) /\ input'[q][i] = input[q][i + 1]
        BY <1>3, <2>2 DEF Announces
    <3>3. /\ NotYetKnown(q, input[q][i + 1].body)
          /\ \A j \in 1 .. Len(input[q]) :
                Announces(q, j) /\ input[q][j].body.client = input[q][i + 1].body.client
                    => i + 1 = j
        BY <3>1, <3>2 DEF SocketInv, ArrivalInv
    <3>4. input[q][i + 1].body.client # c
        BY <3>1, <3>2, <1>5
    <3>5. NotYetKnown(p, input[p][i].body)'
        BY <3>2, <3>3, <3>4, <2>2, <1>1, <1>7 DEF NotYetKnown, IsOpen
    <3>6. ASSUME NEW j \in 1 .. Len(input'[q]),
                 Announces(q, j)', input'[q][j].body.client = input'[q][i].body.client
          PROVE  i = j
      <4>1. Announces(q, j + 1) /\ input[q][j + 1].body.client = input[q][i + 1].body.client
          BY <1>3, <2>2, <3>6 DEF Announces
      <4>2. i + 1 = j + 1
          BY <3>1, <3>3, <4>1
      <4>3. i \in Int /\ j \in Int
          BY <2>2
      <4> QED
          BY <4>2, <4>3
    <3> QED
        BY <2>2, <3>5, <3>6
  <2> QED
      BY <2>1, <2>2
<1> QED
    BY <1>8, <1>9, <1>10, <1>11 DEF SocketInv, TableInv

(* Nothing arrives. *)
LEMMA ArrivalsStay ==
    ASSUME SocketInv, input' = input,
           \A p \in QueryWorkers : \A b : NotYetKnown(p, b) => NotYetKnown(p, b)'
    PROVE  ArrivalInv'
<1> SUFFICES ASSUME NEW p \in QueryWorkers, NEW i \in 1 .. Len(input[p]), Announces(p, i)
             PROVE  /\ NotYetKnown(p, input[p][i].body)'
                    /\ \A j \in 1 .. Len(input[p]) :
                          Announces(p, j) /\ input[p][j].body.client = input[p][i].body.client
                              => i = j
    BY DEF ArrivalInv, Announces
<1>1. NotYetKnown(p, input[p][i].body)
    BY DEF SocketInv, ArrivalInv
<1>2. NotYetKnown(p, input[p][i].body)'
    BY <1>1 DEF NotYetKnown
<1> QED
    BY <1>2 DEF SocketInv, ArrivalInv

(* Steps that touch no socket. *)
LEMMA SocketsUntouched ==
    ASSUME SocketInv, UNCHANGED socketVars
    PROVE  /\ TableInv' /\ ClosingInv'
           /\ \A p \in QueryWorkers : \A b : NotYetKnown(p, b) => NotYetKnown(p, b)'
BY DEF socketVars, SocketInv, TableInv, InOrder, LaterOwner, KnownOpen, IsOpen, ClosingInv,
       NotYetKnown

(* A client hangs up: its socket stays open. *)
LEMMA SocketsOnHangUp ==
    ASSUME TypeInv, SocketInv, NEW c \in Clients, HangUp(c)
    PROVE  SocketInv'
<1>1. /\ client[c] = "in" /\ client' = [client EXCEPT ![c] = "left"]
      /\ descriptor' = descriptor /\ buffers' = buffers /\ closing' = closing /\ input' = input
    BY DEF HangUp
<1>2. /\ client'[c] = "left"
      /\ \A d \in Clients : d # c => client'[d] = client[d]
    BY <1>1 DEF TypeInv, TypeOK
<1>3. InOrder' /\ LaterOwner'
    BY <1>1, <1>2 DEF SocketInv, TableInv, InOrder, LaterOwner
<1>4. KnownOpen'
  <2>1. \A p \in QueryWorkers, s \in Sockets : buffers[p][s] # 0 => buffers[p][s] \in Clients
      BY DEF TypeInv, TypeOK
  <2> QED
      BY <2>1, <1>1, <1>2 DEF SocketInv, TableInv, KnownOpen, IsOpen
<1>5. ClosingInv'
  <2>1. \A p \in QueryWorkers : closing[p] # 0 => closing[p] \in Clients
      BY DEF TypeInv, TypeOK
  <2> QED
      BY <2>1, <1>1, <1>2 DEF SocketInv, ClosingInv
<1>6. ArrivalInv'
    BY <1>1, <1>2, ArrivalsStay DEF NotYetKnown, IsOpen
<1> QED
    BY <1>3, <1>4, <1>5, <1>6 DEF SocketInv, TableInv

(* Reading fails: only what the worker is about to close changes. *)
LEMMA SocketsOnReadFailure ==
    ASSUME TypeInv, SocketInv, NEW q \in QueryWorkers, ReadFails(q)
    PROVE  SocketInv'
<1>1. PICK c \in Clients :
          /\ client[c] = "left" /\ buffers[q][descriptor[c]] = c
          /\ closing' = [closing EXCEPT ![q] = c]
    BY DEF ReadFails
<1>2. client' = client /\ descriptor' = descriptor /\ buffers' = buffers /\ input' = input
    BY DEF ReadFails
<1>3. TableInv'
    BY <1>2 DEF SocketInv, TableInv, InOrder, LaterOwner, KnownOpen, IsOpen
<1>4. ArrivalInv'
    BY <1>2, ArrivalsStay DEF NotYetKnown, IsOpen
<1>5. ClosingInv'
    BY <1>1, <1>2 DEF TypeInv, TypeOK, SocketInv, ClosingInv
<1> QED
    BY <1>3, <1>4, <1>5 DEF SocketInv

(* A socket is closed: nobody else is known by it, or announced. *)
LEMMA SocketRemoved ==
    ASSUME TypeInv, SocketInv, NEW q \in QueryWorkers, NEW c \in Clients,
           client[c] = "left", buffers[q][descriptor[c]] = c, RemoveSocket(q, c),
           descriptor' = descriptor,
           closing[q] \in {0, c}, closing' = [closing EXCEPT ![q] = 0]
    PROVE  /\ TableInv' /\ ClosingInv'
           /\ \A p \in QueryWorkers : \A b : NotYetKnown(p, b) => NotYetKnown(p, b)'
<1> DEFINE s == descriptor[c]
<1>1. s \in Sockets /\ c # 0
    BY NoClientIsZero DEF TypeInv, Described
<1>2. WorkerOf(c) = q
    BY <1>1 DEF SocketInv, TableInv, KnownOpen
<1>3. /\ client'[c] = "closed"
      /\ \A d \in Clients : d # c => client'[d] = client[d]
    BY DEF RemoveSocket, TypeInv, TypeOK
<1>4. /\ buffers'[q][s] = 0
      /\ \A p \in QueryWorkers, t \in Sockets : p # q \/ t # s => buffers'[p][t] = buffers[p][t]
    BY <1>1 DEF RemoveSocket, TypeInv, TypeOK
<1> HIDE DEF s
<1>5. InOrder' /\ LaterOwner'
    BY <1>3 DEF SocketInv, TableInv, InOrder, LaterOwner
<1>6. KnownOpen'
  <2> SUFFICES ASSUME NEW p \in QueryWorkers, NEW t \in Sockets, buffers'[p][t] # 0
               PROVE  /\ client'[buffers'[p][t]] \in {"in", "left"}
                      /\ descriptor[buffers'[p][t]] = t /\ WorkerOf(buffers'[p][t]) = p
      BY DEF KnownOpen, IsOpen
  <2>1. (p # q \/ t # s) /\ buffers'[p][t] = buffers[p][t]
      BY <1>4
  <2>2. buffers[p][t] \in Clients
      BY <2>1 DEF TypeInv, TypeOK
  <2>3. /\ client[buffers[p][t]] \in {"in", "left"}
        /\ descriptor[buffers[p][t]] = t /\ WorkerOf(buffers[p][t]) = p
      BY <2>1 DEF SocketInv, TableInv, KnownOpen, IsOpen
  <2>4. buffers[p][t] # c
      BY <2>1, <2>3, <1>2 DEF s
  <2> QED
      BY <2>1, <2>2, <2>3, <2>4, <1>3
<1>7. ClosingInv'
  <2> SUFFICES ASSUME NEW p \in QueryWorkers, closing'[p] # 0
               PROVE  /\ client'[closing'[p]] = "left"
                      /\ buffers'[p][descriptor[closing'[p]]] = closing'[p]
      BY DEF ClosingInv
  <2>1. p # q /\ closing'[p] = closing[p] /\ closing[p] \in Clients
      BY DEF TypeInv, TypeOK
  <2>2. client[closing[p]] = "left" /\ buffers[p][descriptor[closing[p]]] = closing[p]
      BY <2>1 DEF SocketInv, ClosingInv
  <2>3. descriptor[closing[p]] \in Sockets
      BY <2>1, <2>2 DEF TypeInv, Described
  <2>4. WorkerOf(closing[p]) = p
      BY <2>1, <2>2, <2>3 DEF SocketInv, TableInv, KnownOpen
  <2>5. closing[p] # c
      BY <2>1, <2>4, <1>2
  <2> QED
      BY <2>1, <2>2, <2>3, <2>5, <1>3, <1>4
<1>8. ASSUME NEW p \in QueryWorkers, NEW b, NotYetKnown(p, b)
      PROVE  NotYetKnown(p, b)'
  <2>1. b.client # c
      BY <1>8, <1>2 DEF NotYetKnown
  <2>2. b.client # 0
      BY <1>8, NoClientIsZero DEF NotYetKnown
  <2> QED
      BY <1>8, <2>1, <2>2, <1>3, <1>4 DEF NotYetKnown, IsOpen
<1> QED
    BY <1>5, <1>6, <1>7, <1>8 DEF TableInv

LEMMA SocketsOnClose ==
    ASSUME TypeInv, SocketInv, NEW q \in QueryWorkers, CloseSocket(q)
    PROVE  SocketInv'
<1> DEFINE c == closing[q]
<1>1. c \in Clients /\ closing[q] # 0
    BY DEF TypeInv, TypeOK, CloseSocket
<1>2. client[c] = "left" /\ buffers[q][descriptor[c]] = c
    BY <1>1 DEF SocketInv, ClosingInv
<1>3. /\ RemoveSocket(q, c) /\ descriptor' = descriptor /\ input' = input
      /\ closing' = [closing EXCEPT ![q] = 0]
    BY DEF CloseSocket
<1>4. /\ TableInv' /\ ClosingInv'
      /\ \A p \in QueryWorkers : \A b : NotYetKnown(p, b) => NotYetKnown(p, b)'
    BY <1>1, <1>2, <1>3, SocketRemoved
<1> QED
    BY <1>3, <1>4, ArrivalsStay DEF SocketInv

LEMMA SocketsOnPostbackFailure ==
    ASSUME TypeInv, SocketInv, NEW q \in QueryWorkers, PostbackFails(q)
    PROVE  SocketInv'
<1>1. PICK c \in Clients :
          client[c] = "left" /\ buffers[q][descriptor[c]] = c /\ RemoveSocket(q, c)
    BY DEF PostbackFails
<1>2. /\ closing[q] = 0 /\ descriptor' = descriptor /\ closing' = closing
      /\ input[q] # << >> /\ Consume(q)
    BY DEF PostbackFails, Received
<1>3. closing' = [closing EXCEPT ![q] = 0]
    BY <1>2 DEF TypeInv, TypeOK
<1>4. /\ TableInv' /\ ClosingInv'
      /\ \A p \in QueryWorkers : \A b : NotYetKnown(p, b) => NotYetKnown(p, b)'
    BY <1>1, <1>2, <1>3, SocketRemoved
<1> QED
    BY <1>2, <1>4, ArrivalsTaken DEF SocketInv

LEMMA SocketsKept == TypeInv /\ SocketInv /\ [Next]_vars => SocketInv'
<1> SUFFICES ASSUME TypeInv, SocketInv, [Next]_vars PROVE SocketInv'
    OBVIOUS
<1>1. ASSUME NEW c \in Clients, Accept(c) \/ HangUp(c) PROVE SocketInv'
    BY <1>1, SocketsOnAccept, SocketsOnHangUp
<1>2. ASSUME NEW q \in QueryWorkers, Iteration(q) PROVE SocketInv'
  <2>1. CASE AddConnection(q)
      BY <2>1, SocketsOnConnection
  <2>2. CASE Reply(q) \/ Postback(q) \/ DispatchPart(q)
    <3>1. UNCHANGED socketVars /\ input[q] # << >> /\ Consume(q)
        BY <2>2 DEF Reply, Postback, DispatchPart, Received
    <3> QED
        BY <3>1, SocketsUntouched, ArrivalsTaken DEF SocketInv
  <2>3. CASE PostbackFails(q) \/ CloseSocket(q)
      BY <2>3, SocketsOnPostbackFailure, SocketsOnClose
  <2> QED
      BY <1>2, <2>1, <2>2, <2>3 DEF Iteration
<1>3. ASSUME UNCHANGED <<socketVars, input>> PROVE SocketInv'
    BY <1>3, SocketsUntouched, ArrivalsStay DEF SocketInv
<1>4. ASSUME NEW q \in QueryWorkers, NEW m \in Arrival, m.tag # "connect",
             Post(q, m), UNCHANGED socketVars
      PROVE  SocketInv'
  <2>1. client' = client /\ descriptor' = descriptor /\ buffers' = buffers
      BY <1>4 DEF socketVars
  <2> QED
      BY <1>4, <2>1, SocketsUntouched, ArrivalsAdded DEF SocketInv
<1>5. ASSUME NEW q \in QueryWorkers, Dispatch(q) \/ ReadFails(q) PROVE SocketInv'
    BY <1>5, <1>3, SocketsOnReadFailure DEF Dispatch
<1>6. ASSUME NEW w \in StorageWorkers, TakeJob(w) PROVE SocketInv'
    BY <1>6, <1>3 DEF TakeJob
<1>7. ASSUME NEW w \in StorageWorkers, ExecuteJob(w) PROVE SocketInv'
  <2>1. PICK m \in job[w] : UNCHANGED input \/ Post(m.body.io, Message("reply", m.body))
      BY <1>7 DEF ExecuteJob
  <2>2. m.body \in Request /\ m.body.io \in QueryWorkers
      BY DEF TypeInv, TypeOK, Job, Request
  <2>3. Message("reply", m.body) \in Arrival /\ Message("reply", m.body).tag # "connect"
      BY <2>2 DEF Message, Arrival
  <2>4. UNCHANGED socketVars
      BY <1>7 DEF ExecuteJob
  <2> QED
      BY <2>1, <2>2, <2>3, <2>4, <1>3, <1>4
<1>8. CASE Aggregate
  <2> DEFINE r == Head(aggregator).body
  <2>1. Head(aggregator) \in [tag : {"request", "result"}, body : Request]
    <3> DEFINE S == [tag : {"request", "result"}, body : Request]
    <3>1. aggregator \in Seq(S) /\ aggregator # << >>
        BY <1>8 DEF Aggregate, TypeInv, TypeOK
    <3> HIDE DEF S
    <3>2. Head(aggregator) \in S
        BY <3>1
    <3> QED
        BY <3>2 DEF S
  <2>2. r \in Request /\ r.io \in QueryWorkers
      BY <2>1 DEF Request
  <2>3. /\ Message("part", r) \in Arrival /\ Message("part", r).tag # "connect"
        /\ Message("postback", r) \in Arrival /\ Message("postback", r).tag # "connect"
      BY <2>2 DEF Message, Arrival
  <2>4. \E q \in QueryWorkers : Post(q, Message("part", r)) \/ Post(q, Message("postback", r))
      BY <1>8, <2>2 DEF Aggregate
  <2>5. UNCHANGED socketVars
      BY <1>8 DEF Aggregate
  <2> QED
      BY <2>3, <2>4, <2>5, <1>4
<1>9. CASE ClearContext \/ UNCHANGED vars
    BY <1>9, <1>3 DEF ClearContext, vars
<1> QED
    BY <1>1, <1>2, <1>5, <1>6, <1>7, <1>8, <1>9 DEF Next

-----------------------------------------------------------------------------
(* Answers.                                                                   *)

(* What a request says of its client is true: its descriptor and its worker. *)
Asked(r) ==
    /\ client[r.client] # "out" /\ descriptor[r.client] = r.socket
    /\ WorkerOf(r.client) = r.io

HonestJob(m) == Asked(m.body) /\ (m.tag = "part" => m.body.kind = "join")

HonestArrival(q, m) ==
    m.tag # "connect" =>
        /\ Asked(m.body)
        /\ m.tag # "part" => m.body.io = q
        /\ m.tag # "reply" => m.body.kind = "join"

HonestJobs ==
    \A w \in StorageWorkers :
        (\A n \in queue[w] : HonestJob(n.msg)) /\ (\A m \in job[w] : HonestJob(m))

HonestInput == \A q \in QueryWorkers : \A i \in 1 .. Len(input[q]) : HonestArrival(q, input[q][i])

HonestAggregator ==
    \A i \in 1 .. Len(aggregator) :
        Asked(aggregator[i].body) /\ aggregator[i].body.kind = "join"

\* An answer went to the client that asked, or to a later one in its place.
Rightly(d) ==
    /\ Asked(d.request) /\ client[d.to] # "out"
    /\ \/ d.to = d.request.client
       \/ /\ d.request.kind = "join"
          /\ client[d.request.client] = "closed" /\ d.to > d.request.client
          /\ descriptor[d.to] = d.request.socket /\ WorkerOf(d.to) = d.request.io

HonestAnswers == \A d \in delivered : Rightly(d)

AnswerInv == HonestJobs /\ HonestInput /\ HonestAggregator /\ HonestAnswers

(* Nobody is accepted twice or given another descriptor, and closed is closed. *)
SocketStep ==
    /\ \A c \in Clients :
          client[c] # "out" => client'[c] # "out" /\ descriptor'[c] = descriptor[c]
    /\ \A c \in Clients : client[c] = "closed" => client'[c] = "closed"

LEMMA SocketsMove == TypeInv /\ [Next]_vars => SocketStep
<1> SUFFICES ASSUME TypeInv, [Next]_vars PROVE SocketStep
    OBVIOUS
<1>1. ASSUME UNCHANGED <<client, descriptor>> PROVE SocketStep
    BY <1>1 DEF SocketStep
<1>2. ASSUME NEW c \in Clients, Accept(c) PROVE SocketStep
    BY <1>2 DEF Accept, SocketStep, TypeInv, TypeOK
<1>3. ASSUME NEW c \in Clients, HangUp(c) PROVE SocketStep
    BY <1>3 DEF HangUp, SocketStep, TypeInv, TypeOK
<1>4. ASSUME NEW q \in QueryWorkers, PostbackFails(q) PROVE SocketStep
    BY <1>4 DEF PostbackFails, RemoveSocket, SocketStep, TypeInv, TypeOK
<1>5. ASSUME NEW q \in QueryWorkers, CloseSocket(q) PROVE SocketStep
    BY <1>5 DEF CloseSocket, RemoveSocket, SocketStep, TypeInv, TypeOK
<1>6. ASSUME NEW q \in QueryWorkers, AddConnection(q) \/ ReadFails(q) PROVE SocketStep
    BY <1>6, <1>1 DEF AddConnection, ReadFails
<1>7. ASSUME NEW q \in QueryWorkers, Reply(q) \/ Postback(q) \/ DispatchPart(q) \/ Dispatch(q)
      PROVE SocketStep
    BY <1>7, <1>1 DEF Reply, Postback, DispatchPart, Dispatch, socketVars
<1>8. ASSUME NEW w \in StorageWorkers, TakeJob(w) \/ ExecuteJob(w) PROVE SocketStep
    BY <1>8, <1>1 DEF TakeJob, ExecuteJob, socketVars
<1>9. CASE Aggregate \/ ClearContext \/ UNCHANGED vars
    BY <1>9, <1>1 DEF Aggregate, ClearContext, vars, socketVars
<1> QED
    BY <1>2, <1>3, <1>4, <1>5, <1>6, <1>7, <1>8, <1>9 DEF Next, Iteration

(* So what was honest stays honest. *)
LEMMA AskedKept ==
    ASSUME SocketStep
    PROVE  \A r \in Request : Asked(r) => Asked(r)'
BY DEF SocketStep, Asked, Request

LEMMA JobsKept ==
    ASSUME SocketStep
    PROVE  \A m \in Job : HonestJob(m) => HonestJob(m)'
BY DEF SocketStep, HonestJob, Asked, Request, Job

(* Jobs that are withdrawn, taken or done. *)
LEMMA HonestJobsFewer ==
    ASSUME TypeInv, AnswerInv, SocketStep,
           \A w \in StorageWorkers :
              /\ queue'[w] \subseteq queue[w]
              /\ \A m \in job'[w] : m \in job[w] \/ \E n \in queue[w] : m = n.msg
    PROVE  HonestJobs'
<1> SUFFICES ASSUME NEW w \in StorageWorkers
             PROVE  (\A n \in queue'[w] : HonestJob(n.msg)') /\ (\A m \in job'[w] : HonestJob(m)')
    BY DEF HonestJobs
<1>1. \A n \in queue[w] : n.msg \in Job /\ HonestJob(n.msg)
    BY DEF TypeInv, TypeOK, AnswerInv, HonestJobs
<1>2. \A m \in job[w] : m \in Job /\ HonestJob(m)
    BY DEF TypeInv, TypeOK, AnswerInv, HonestJobs
<1>3. \A n \in queue'[w] : HonestJob(n.msg)'
    BY <1>1, JobsKept
<1>4. \A m \in job'[w] : HonestJob(m)'
    BY <1>1, <1>2, JobsKept
<1> QED
    BY <1>3, <1>4

(* A job that is posted. *)
LEMMA HonestJobPosted ==
    ASSUME TypeInv, AnswerInv, SocketStep, NEW w \in StorageWorkers,
           NEW m \in Job, HonestJob(m), PostJob(w, m)
    PROVE  HonestJobs'
<1> SUFFICES ASSUME NEW v \in StorageWorkers
             PROVE  (\A n \in queue'[v] : HonestJob(n.msg)') /\ (\A k \in job'[v] : HonestJob(k)')
    BY DEF HonestJobs
<1>1. \A n \in queue[v] : n.msg \in Job /\ HonestJob(n.msg)
    BY DEF TypeInv, TypeOK, AnswerInv, HonestJobs
<1>2. \A k \in job[v] : k \in Job /\ HonestJob(k)
    BY DEF TypeInv, TypeOK, AnswerInv, HonestJobs
<1>3. \A n \in queue'[v] : n.msg = m \/ n \in queue[v]
    BY DEF PostJob, TypeInv, TypeOK
<1>4. \A n \in queue'[v] : HonestJob(n.msg)'
    BY <1>1, <1>3, JobsKept
<1>5. \A k \in job'[v] : HonestJob(k)'
    BY <1>2, JobsKept DEF PostJob
<1> QED
    BY <1>4, <1>5

(* What arrives, and what is taken from what has arrived. *)
LEMMA ArrivalsKept ==
    ASSUME SocketStep
    PROVE  \A q \in QueryWorkers, m \in Arrival : HonestArrival(q, m) => HonestArrival(q, m)'
<1> SUFFICES ASSUME NEW q \in QueryWorkers, NEW m \in Arrival, HonestArrival(q, m),
                    m.tag # "connect"
             PROVE  Asked(m.body)'
    BY DEF HonestArrival
<1>1. m.body \in Request
    BY DEF Arrival
<1> QED
    BY <1>1, AskedKept DEF HonestArrival

LEMMA HonestInputStays ==
    ASSUME TypeInv, AnswerInv, SocketStep, UNCHANGED input
    PROVE  HonestInput'
<1> SUFFICES ASSUME NEW q \in QueryWorkers, NEW i \in 1 .. Len(input[q])
             PROVE  HonestArrival(q, input[q][i])'
    BY DEF HonestInput
<1>1. PICK m : m = input[q][i] /\ m = input'[q][i]
    OBVIOUS
<1>2. m \in Arrival /\ HonestArrival(q, m)
    BY <1>1 DEF TypeInv, TypeOK, AnswerInv, HonestInput
<1>3. HonestArrival(q, m)'
    BY <1>2, ArrivalsKept
<1> QED
    BY <1>1, <1>3 DEF HonestArrival, Asked

LEMMA HonestInputTaken ==
    ASSUME TypeInv, AnswerInv, SocketStep, NEW q \in QueryWorkers, input[q] # << >>, Consume(q)
    PROVE  HonestInput'
<1>1. /\ \A p \in QueryWorkers : p # q => input'[p] = input[p]
      /\ Len(input'[q]) = Len(input[q]) - 1 /\ Len(input[q]) \in Nat
      /\ \A i \in 1 .. Len(input'[q]) : input'[q][i] = input[q][i + 1]
    BY Consumed DEF TypeInv, TypeOK
<1> SUFFICES ASSUME NEW p \in QueryWorkers, NEW i \in 1 .. Len(input'[p])
             PROVE  HonestArrival(p, input[p][i])'
    BY DEF HonestInput
<1>2. PICK j \in 1 .. Len(input[p]) : input'[p][i] = input[p][j]
  <2>1. CASE p # q
      BY <1>1, <2>1
  <2>2. CASE p = q
    <3>1. i + 1 \in 1 .. Len(input[p])
        BY <1>1, <2>2
    <3> QED
        BY <1>1, <2>2, <3>1
  <2> QED
      BY <2>1, <2>2
<1>3. PICK m : m = input[p][j] /\ m = input'[p][i]
    BY <1>2
<1>4. m \in Arrival /\ HonestArrival(p, m)
  <2>1. input[p] \in Seq(Arrival)
      BY DEF TypeInv, TypeOK
  <2>2. input[p][j] \in Arrival
      BY <2>1
  <2>3. HonestArrival(p, input[p][j])
      BY DEF AnswerInv, HonestInput
  <2> QED
      BY <1>3, <2>2, <2>3
<1>5. HonestArrival(p, m)'
    BY <1>4, ArrivalsKept
<1> QED
    BY <1>3, <1>5 DEF HonestArrival, Asked

LEMMA HonestInputAdded ==
    ASSUME TypeInv, AnswerInv, SocketStep, NEW q \in QueryWorkers,
           NEW m \in Arrival, HonestArrival(q, m), Post(q, m)
    PROVE  HonestInput'
<1>1. /\ \A p \in QueryWorkers : p # q => input'[p] = input[p]
      /\ Len(input'[q]) = Len(input[q]) + 1 /\ Len(input[q]) \in Nat
      /\ \A i \in 1 .. Len(input[q]) : input'[q][i] = input[q][i]
      /\ input'[q][Len(input[q]) + 1] = m
    BY Posted DEF TypeInv, TypeOK
<1> SUFFICES ASSUME NEW p \in QueryWorkers, NEW i \in 1 .. Len(input'[p])
             PROVE  HonestArrival(p, input[p][i])'
    BY DEF HonestInput
<1>2. PICK k : k = input'[p][i]
    OBVIOUS
<1>3. k \in Arrival /\ HonestArrival(p, k)
  <2>1. CASE i \in 1 .. Len(input[p]) /\ input'[p][i] = input[p][i]
      BY <1>2, <2>1 DEF TypeInv, TypeOK, AnswerInv, HonestInput
  <2>2. CASE p = q /\ i = Len(input[q]) + 1
      BY <1>1, <1>2, <2>2
  <2> QED
      BY <1>1, <2>1, <2>2
<1>4. HonestArrival(p, k)'
    BY <1>3, ArrivalsKept
<1> QED
    BY <1>2, <1>4 DEF HonestArrival, Asked

(* The aggregator. *)
LEMMA HonestAggregatorKept ==
    ASSUME TypeInv, AnswerInv, SocketStep,
           \A i \in 1 .. Len(aggregator') :
              \/ \E j \in 1 .. Len(aggregator) : aggregator'[i] = aggregator[j]
              \/ /\ aggregator'[i].body \in Request
                 /\ Asked(aggregator'[i].body) /\ aggregator'[i].body.kind = "join"
    PROVE  HonestAggregator'
<1> SUFFICES ASSUME NEW i \in 1 .. Len(aggregator')
             PROVE  Asked(aggregator[i].body)' /\ aggregator'[i].body.kind = "join"
    BY DEF HonestAggregator
<1>1. PICK r : r = aggregator'[i].body
    OBVIOUS
<1>2. r \in Request /\ Asked(r) /\ r.kind = "join"
  <2>1. CASE \E j \in 1 .. Len(aggregator) : aggregator'[i] = aggregator[j]
    <3>1. PICK j \in 1 .. Len(aggregator) : aggregator'[i] = aggregator[j]
        BY <2>1
    <3>2. aggregator[j] \in [tag : {"request", "result"}, body : Request]
      <4> DEFINE S == [tag : {"request", "result"}, body : Request]
      <4>1. aggregator \in Seq(S)
          BY DEF TypeInv, TypeOK
      <4> HIDE DEF S
      <4>2. aggregator[j] \in S
          BY <4>1
      <4> QED
          BY <4>2 DEF S
    <3>3. Asked(aggregator[j].body) /\ aggregator[j].body.kind = "join"
        BY DEF AnswerInv, HonestAggregator
    <3> QED
        BY <1>1, <3>1, <3>2, <3>3
  <2>2. CASE /\ aggregator'[i].body \in Request
             /\ Asked(aggregator'[i].body) /\ aggregator'[i].body.kind = "join"
      BY <1>1, <2>2
  <2> QED
      BY <2>1, <2>2
<1>3. Asked(r)'
    BY <1>2, AskedKept
<1> QED
    BY <1>1, <1>2, <1>3 DEF Asked

(* What was delivered to the right client stays so. *)
LEMMA AnswersKept ==
    ASSUME SocketStep
    PROVE  \A d \in [to : Clients, request : Request] : Rightly(d) => Rightly(d)'
<1> SUFFICES ASSUME NEW d \in [to : Clients, request : Request], Rightly(d)
             PROVE  Rightly(d)'
    OBVIOUS
<1>1. d.request \in Request /\ d.to \in Clients /\ d.request.client \in Clients
    BY DEF Request
<1>2. Asked(d.request)'
    BY <1>1, AskedKept DEF Rightly
<1> QED
    BY <1>1, <1>2 DEF SocketStep, Rightly

LEMMA HonestAnswersStay ==
    ASSUME TypeInv, AnswerInv, SocketStep, UNCHANGED delivered
    PROVE  HonestAnswers'
BY AnswersKept DEF TypeInv, TypeOK, AnswerInv, HonestAnswers

(* Of two clients with one descriptor one at most is still connected. *)
LEMMA OneOwner ==
    ASSUME TypeInv, SocketInv, NEW c \in Clients, NEW d \in Clients,
           IsOpen(c), client[d] # "out", descriptor[c] = descriptor[d]
    PROVE  \/ c = d
           \/ d < c /\ client[d] = "closed"
BY DEF Clients, IsOpen, SocketInv, TableInv, LaterOwner

(* The context of the descriptor has the key of the request. *)
LEMMA ReplyIsRight ==
    ASSUME TypeInv, SocketInv, NEW q \in QueryWorkers, NEW r \in Request,
           Asked(r), KeyMatches(q, r),
           NEW c \in Clients, client[c] = "in", descriptor[c] = r.socket
    PROVE  Rightly([to |-> c, request |-> r])
<1>1. r.client \in Clients /\ r.socket \in Sockets /\ r.client # 0
    BY NoClientIsZero DEF Request
<1>2. IsOpen(r.client) /\ descriptor[r.client] = r.socket
    BY <1>1 DEF KeyMatches, SocketInv, TableInv, KnownOpen
<1>3. IsOpen(c) /\ client[r.client] # "closed"
    BY <1>2 DEF IsOpen
<1>4. c = r.client
    BY <1>1, <1>2, <1>3, OneOwner DEF Asked
<1> QED
    BY <1>4 DEF Rightly

(* The descriptor is one the worker knows. *)
LEMMA PostbackIsRight ==
    ASSUME TypeInv, SocketInv, NEW q \in QueryWorkers, NEW r \in Request,
           Asked(r), r.io = q, r.kind = "join", buffers[q][r.socket] # 0,
           NEW c \in Clients, client[c] = "in", descriptor[c] = r.socket
    PROVE  Rightly([to |-> c, request |-> r])
<1> DEFINE b == buffers[q][r.socket]
<1>1. r.client \in Clients /\ r.socket \in Sockets /\ b \in Clients
    BY DEF Request, TypeInv, TypeOK
<1>2. IsOpen(b) /\ descriptor[b] = r.socket /\ WorkerOf(b) = q
    BY <1>1 DEF SocketInv, TableInv, KnownOpen
<1>3. IsOpen(c) /\ client[c] # "closed" /\ client[b] # "out"
    BY <1>2 DEF IsOpen
<1>4. b = c
    BY <1>1, <1>2, <1>3, OneOwner DEF IsOpen
<1>5. r.client = c \/ (r.client < c /\ client[r.client] = "closed")
    BY <1>1, <1>3, OneOwner DEF Asked
<1>6. r.client < c => c > r.client
    BY <1>1 DEF Clients
<1> QED
    BY <1>2, <1>4, <1>5, <1>6 DEF Rightly

LEMMA HonestAnswersSent ==
    ASSUME TypeInv, SocketInv, AnswerInv, SocketStep, NEW r \in Request,
           \A c \in Clients : client[c] = "in" /\ descriptor[c] = r.socket
                                => Rightly([to |-> c, request |-> r]),
           SendTo(r.socket, r)
    PROVE  HonestAnswers'
<1> SUFFICES ASSUME NEW d \in delivered' PROVE Rightly(d)'
    BY DEF HonestAnswers
<1>1. CASE d \in delivered
    BY <1>1, AnswersKept DEF TypeInv, TypeOK, AnswerInv, HonestAnswers
<1>2. CASE d \notin delivered
  <2>1. PICK c \in Clients : /\ client[c] = "in" /\ descriptor[c] = r.socket
                             /\ d = [to |-> c, request |-> r]
      BY <1>2 DEF SendTo
  <2>2. Rightly(d) /\ d \in [to : Clients, request : Request]
      BY <2>1
  <2> QED
      BY <2>2, AnswersKept
<1> QED
    BY <1>1, <1>2

(* What a query worker takes from its queue. *)
LEMMA IncomingIsHonest ==
    ASSUME TypeInv, AnswerInv, NEW q \in QueryWorkers,
           NEW t \in {"reply", "postback", "part"}, Received(q, t)
    PROVE  /\ Incoming(q) \in Request /\ Asked(Incoming(q))
           /\ t # "part" => Incoming(q).io = q
           /\ t # "reply" => Incoming(q).kind = "join"
<1>1. input[q] \in Seq(Arrival) /\ input[q] # << >> /\ Head(input[q]).tag = t
    BY DEF TypeInv, TypeOK, Received
<1>2. Head(input[q]) = input[q][1] /\ 1 \in 1 .. Len(input[q]) /\ input[q][1] \in Arrival
    BY <1>1
<1>3. HonestArrival(q, input[q][1])
    BY <1>2 DEF AnswerInv, HonestInput
<1> QED
    BY <1>1, <1>2, <1>3 DEF Incoming, HonestArrival, Arrival

LEMMA AnswersOnReply ==
    ASSUME TypeInv, SocketInv, AnswerInv, SocketStep, NEW q \in QueryWorkers, Reply(q)
    PROVE  HonestAnswers'
<1>1. Incoming(q) \in Request /\ Asked(Incoming(q))
    BY IncomingIsHonest DEF Reply
<1>2. CASE KeyMatches(q, Incoming(q)) /\ SendTo(Incoming(q).socket, Incoming(q))
    BY <1>1, <1>2, ReplyIsRight, HonestAnswersSent
<1>3. CASE UNCHANGED delivered
    BY <1>3, HonestAnswersStay
<1> QED
    BY <1>2, <1>3 DEF Reply

LEMMA AnswersOnPostback ==
    ASSUME TypeInv, SocketInv, AnswerInv, SocketStep, NEW q \in QueryWorkers, Postback(q)
    PROVE  HonestAnswers'
<1>1. /\ Incoming(q) \in Request /\ Asked(Incoming(q))
      /\ Incoming(q).io = q /\ Incoming(q).kind = "join"
    BY IncomingIsHonest DEF Postback
<1>2. CASE buffers[q][Incoming(q).socket] # 0 /\ SendTo(Incoming(q).socket, Incoming(q))
    BY <1>1, <1>2, PostbackIsRight, HonestAnswersSent
<1>3. CASE UNCHANGED delivered
    BY <1>3, HonestAnswersStay
<1> QED
    BY <1>2, <1>3 DEF Postback

(* What a step leaves alone stays honest. *)
LEMMA HonestUntouched ==
    ASSUME TypeInv, AnswerInv, SocketStep
    PROVE  /\ UNCHANGED <<queue, job>> => HonestJobs'
           /\ UNCHANGED input => HonestInput'
           /\ UNCHANGED aggregator => HonestAggregator'
           /\ UNCHANGED delivered => HonestAnswers'
<1>1. UNCHANGED <<queue, job>> => HonestJobs'
    BY HonestJobsFewer
<1>2. UNCHANGED aggregator => HonestAggregator'
    BY HonestAggregatorKept
<1> QED
    BY <1>1, <1>2, HonestInputStays, HonestAnswersStay

LEMMA AnswersOnAccept ==
    ASSUME TypeInv, SocketInv, AnswerInv, SocketStep, NEW c \in Clients, Accept(c)
    PROVE  AnswerInv'
<1>1. PICK s \in Sockets : Post(WorkerOf(c), Message("connect", [client |-> c, socket |-> s]))
    BY DEF Accept
<1> DEFINE m == Message("connect", [client |-> c, socket |-> s])
<1>2. m \in Arrival /\ m.tag = "connect" /\ WorkerOf(c) \in QueryWorkers
    BY WorkersInTurn DEF Message, Arrival, Connection
<1>3. HonestArrival(WorkerOf(c), m)
    BY <1>2 DEF HonestArrival
<1>4. HonestInput'
    BY <1>1, <1>2, <1>3, HonestInputAdded
<1>5. UNCHANGED <<queue, job, aggregator, delivered>>
    BY DEF Accept, storageVars
<1> QED
    BY <1>4, <1>5, HonestUntouched DEF AnswerInv

LEMMA AnswersOnReadFailure ==
    ASSUME TypeInv, SocketInv, AnswerInv, SocketStep, NEW q \in QueryWorkers, ReadFails(q)
    PROVE  AnswerInv'
<1>1. UNCHANGED <<job, input, aggregator, delivered>>
    BY DEF ReadFails
<1>2. \A w \in StorageWorkers : queue'[w] \subseteq queue[w]
    BY DEF ReadFails, RemoveFromQueue
<1>3. HonestJobs'
    BY <1>1, <1>2, HonestJobsFewer
<1> QED
    BY <1>1, <1>3, HonestUntouched DEF AnswerInv

LEMMA AnswersOnDispatch ==
    ASSUME TypeInv, SocketInv, AnswerInv, SocketStep, NEW q \in QueryWorkers, Dispatch(q)
    PROVE  AnswerInv'
<1>1. PICK c \in Clients, r \in Request :
          /\ client[c] = "in" /\ buffers[q][descriptor[c]] = c
          /\ r.client = c /\ r.socket = descriptor[c] /\ r.io = q
          /\ Message("request", r) \in Job
          /\ \/ PostWrite(q, Message("request", r)) /\ UNCHANGED aggregator
             \/ PostRead(q, Message("request", r)) /\ UNCHANGED aggregator
             \/ /\ r.kind = "join" /\ aggregator' = Append(aggregator, Message("request", r))
                /\ UNCHANGED storageVars
    BY Dispatched
<1> DEFINE m == Message("request", r)
<1>2. Asked(r)
  <2>1. descriptor[c] \in Sockets /\ c # 0
      BY <1>1, NoClientIsZero DEF Request
  <2>2. WorkerOf(c) = q
      BY <1>1, <2>1 DEF SocketInv, TableInv, KnownOpen
  <2> QED
      BY <1>1, <2>2 DEF Asked
<1>3. m \in Job /\ HonestJob(m) /\ m.body = r
    BY <1>1, <1>2 DEF Message, HonestJob
<1>4. UNCHANGED <<input, delivered>>
    BY DEF Dispatch
<1> HIDE DEF m
<1>5. CASE PostWrite(q, m) /\ UNCHANGED aggregator
  <2>1. Writer(q) \in StorageWorkers /\ PostJob(Writer(q), m)
      BY <1>3, <1>5, WritePosted DEF TypeInv
  <2>2. HonestJobs'
      BY <1>3, <2>1, HonestJobPosted
  <2> QED
      BY <1>4, <1>5, <2>2, HonestUntouched DEF AnswerInv
<1>6. CASE PostRead(q, m) /\ UNCHANGED aggregator
  <2>1. \E w \in StorageWorkers : PostJob(w, m)
      BY <1>3, <1>6, ReadPosted DEF TypeInv
  <2>2. HonestJobs'
      BY <1>3, <2>1, HonestJobPosted
  <2> QED
      BY <1>4, <1>6, <2>2, HonestUntouched DEF AnswerInv
<1>7. CASE r.kind = "join" /\ aggregator' = Append(aggregator, m) /\ UNCHANGED storageVars
  <2>1. \A i \in 1 .. Len(aggregator') :
            \/ \E j \in 1 .. Len(aggregator) : aggregator'[i] = aggregator[j]
            \/ aggregator'[i] = m
    <3> DEFINE S == [tag : {"request", "result"}, body : Request]
    <3>1. aggregator \in Seq(S)
        BY DEF TypeInv, TypeOK
    <3> HIDE DEF S
    <3>2. /\ Len(aggregator') = Len(aggregator) + 1 /\ Len(aggregator) \in Nat
          /\ \A i \in 1 .. Len(aggregator) : aggregator'[i] = aggregator[i]
          /\ aggregator'[Len(aggregator) + 1] = m
        BY <1>7, <3>1
    <3> QED
        BY <3>2
  <2>2. HonestAggregator'
      BY <2>1, <1>2, <1>3, <1>7, HonestAggregatorKept
  <2>3. UNCHANGED <<queue, job>>
      BY <1>7 DEF storageVars
  <2> QED
      BY <1>4, <2>2, <2>3, HonestUntouched DEF AnswerInv
<1> QED
    BY <1>1, <1>5, <1>6, <1>7 DEF m

LEMMA AnswersOnPart ==
    ASSUME TypeInv, SocketInv, AnswerInv, SocketStep, NEW q \in QueryWorkers, DispatchPart(q)
    PROVE  AnswerInv'
<1> DEFINE m == Message("part", Incoming(q))
<1>1. Asked(Incoming(q)) /\ Incoming(q).kind = "join"
    BY IncomingIsHonest DEF DispatchPart
<1>2. m \in Job /\ HonestJob(m)
    BY <1>1, TypesOnPart DEF Message, HonestJob
<1>3. \E w \in StorageWorkers : PostJob(w, m)
    BY <1>2, ReadPosted DEF DispatchPart, TypeInv
<1> HIDE DEF m
<1>4. HonestJobs'
    BY <1>2, <1>3, HonestJobPosted
<1>5. HonestInput'
    BY HonestInputTaken DEF DispatchPart, Received
<1>6. UNCHANGED <<aggregator, delivered>>
    BY DEF DispatchPart
<1> QED
    BY <1>4, <1>5, <1>6, HonestUntouched DEF AnswerInv

LEMMA AnswersOnTake ==
    ASSUME TypeInv, SocketInv, AnswerInv, SocketStep, NEW w \in StorageWorkers, TakeJob(w)
    PROVE  AnswerInv'
<1>1. PICK n \in queue[w] :
          job' = [job EXCEPT ![w] = {n.msg}] /\ queue' = [queue EXCEPT ![w] = @ \ {n}]
    BY DEF TakeJob
<1>2. \A v \in StorageWorkers :
          /\ queue'[v] \subseteq queue[v]
          /\ \A m \in job'[v] : m \in job[v] \/ \E k \in queue[v] : m = k.msg
    BY <1>1 DEF TypeInv, TypeOK
<1>3. HonestJobs'
    BY <1>2, HonestJobsFewer
<1>4. UNCHANGED <<input, aggregator, delivered>>
    BY DEF TakeJob
<1> QED
    BY <1>3, <1>4, HonestUntouched DEF AnswerInv

LEMMA AnswersOnExecute ==
    ASSUME TypeInv, SocketInv, AnswerInv, SocketStep, NEW w \in StorageWorkers, ExecuteJob(w)
    PROVE  AnswerInv'
<1>1. PICK m \in job[w] :
          IF m.tag = "part"
          THEN aggregator' = Append(aggregator, Message("result", m.body)) /\ UNCHANGED input
          ELSE Post(m.body.io, Message("reply", m.body)) /\ UNCHANGED aggregator
    BY DEF ExecuteJob
<1>2. m \in Job /\ m.body \in Request /\ m.body.io \in QueryWorkers /\ HonestJob(m)
    BY DEF TypeInv, TypeOK, Job, Request, AnswerInv, HonestJobs
<1>3. HonestJobs'
  <2>1. \A v \in StorageWorkers : queue'[v] = queue[v] /\ job'[v] \subseteq job[v]
      BY DEF ExecuteJob, TypeInv, TypeOK
  <2> QED
      BY <2>1, HonestJobsFewer
<1>4. UNCHANGED delivered
    BY DEF ExecuteJob
<1>5. CASE m.tag = "part"
  <2> DEFINE k == Message("result", m.body)
  <2>1. \A i \in 1 .. Len(aggregator') :
            \/ \E j \in 1 .. Len(aggregator) : aggregator'[i] = aggregator[j]
            \/ aggregator'[i] = k
    <3> DEFINE S == [tag : {"request", "result"}, body : Request]
    <3>1. aggregator \in Seq(S)
        BY DEF TypeInv, TypeOK
    <3> HIDE DEF S, k
    <3>2. /\ Len(aggregator') = Len(aggregator) + 1 /\ Len(aggregator) \in Nat
          /\ \A i \in 1 .. Len(aggregator) : aggregator'[i] = aggregator[i]
          /\ aggregator'[Len(aggregator) + 1] = k
        BY <1>1, <1>5, <3>1 DEF k
    <3> QED
        BY <3>2
  <2>2. k.body \in Request /\ Asked(k.body) /\ k.body.kind = "join"
      BY <1>2, <1>5 DEF Message, HonestJob
  <2> HIDE DEF k
  <2>3. HonestAggregator'
      BY <2>1, <2>2, HonestAggregatorKept
  <2> QED
      BY <1>1, <1>3, <1>4, <1>5, <2>3, HonestUntouched DEF AnswerInv
<1>6. CASE m.tag # "part"
  <2> DEFINE k == Message("reply", m.body)
  <2>1. k \in Arrival /\ HonestArrival(m.body.io, k)
      BY <1>2 DEF Message, Arrival, HonestArrival, HonestJob
  <2>2. Post(m.body.io, k) /\ UNCHANGED aggregator
      BY <1>1, <1>6
  <2> HIDE DEF k
  <2>3. HonestInput'
      BY <1>2, <2>1, <2>2, HonestInputAdded
  <2> QED
      BY <1>3, <1>4, <2>2, <2>3, HonestUntouched DEF AnswerInv
<1> QED
    BY <1>5, <1>6

LEMMA AnswersOnAggregate ==
    ASSUME TypeInv, SocketInv, AnswerInv, SocketStep, Aggregate
    PROVE  AnswerInv'
<1> DEFINE S == [tag : {"request", "result"}, body : Request]
           r == Head(aggregator).body
<1>1. aggregator \in Seq(S) /\ aggregator # << >> /\ aggregator' = Tail(aggregator)
    BY DEF Aggregate, TypeInv, TypeOK
<1>2. Head(aggregator) = aggregator[1] /\ 1 \in 1 .. Len(aggregator) /\ Head(aggregator) \in S
  <2> HIDE DEF S
  <2> QED
      BY <1>1
<1>3. /\ Len(aggregator') = Len(aggregator) - 1 /\ Len(aggregator) \in Nat
      /\ \A i \in 1 .. Len(aggregator') : aggregator'[i] = aggregator[i + 1]
  <2> HIDE DEF S
  <2> QED
      BY <1>1
<1>4. HonestAggregator'
  <2>1. \A i \in 1 .. Len(aggregator') : i + 1 \in 1 .. Len(aggregator)
      BY <1>3
  <2>2. \A i \in 1 .. Len(aggregator') : \E j \in 1 .. Len(aggregator) :
            aggregator'[i] = aggregator[j]
      BY <1>3, <2>1
  <2> QED
      BY <2>2, HonestAggregatorKept
<1>5. r \in Request /\ r.io \in QueryWorkers /\ Asked(r) /\ r.kind = "join"
    BY <1>2 DEF Request, AnswerInv, HonestAggregator
<1>6. \E q \in QueryWorkers, m \in Arrival : HonestArrival(q, m) /\ Post(q, m)
  <2>1. CASE \E q \in QueryWorkers : Post(q, Message("part", r))
    <3>1. Message("part", r) \in Arrival
        BY <1>5 DEF Message, Arrival
    <3>2. \A q \in QueryWorkers : HonestArrival(q, Message("part", r))
        BY <1>5 DEF Message, HonestArrival
    <3> QED
        BY <2>1, <3>1, <3>2
  <2>2. CASE Post(r.io, Message("postback", r))
    <3>1. Message("postback", r) \in Arrival /\ HonestArrival(r.io, Message("postback", r))
        BY <1>5 DEF Message, Arrival, HonestArrival
    <3> QED
        BY <1>5, <2>2, <3>1
  <2> QED
      BY <2>1, <2>2 DEF Aggregate
<1>7. HonestInput'
    BY <1>6, HonestInputAdded
<1>8. UNCHANGED <<queue, job, delivered>>
    BY DEF Aggregate, storageVars
<1> QED
    BY <1>4, <1>7, <1>8, HonestUntouched DEF AnswerInv

LEMMA AnswersRemain ==
    TypeInv /\ SocketInv /\ AnswerInv /\ [Next]_vars => AnswerInv'
<1> SUFFICES ASSUME TypeInv, SocketInv, AnswerInv, [Next]_vars PROVE AnswerInv'
    OBVIOUS
<1> SocketStep
    BY SocketsMove
<1>1. ASSUME UNCHANGED <<input, queue, job, aggregator, delivered>> PROVE AnswerInv'
    BY <1>1, HonestUntouched DEF AnswerInv
<1>2. ASSUME NEW q \in QueryWorkers, input[q] # << >>, Consume(q), HonestAnswers',
             UNCHANGED <<queue, job, aggregator>>
      PROVE  AnswerInv'
    BY <1>2, HonestInputTaken, HonestUntouched DEF AnswerInv
<1>3. ASSUME NEW c \in Clients, Accept(c) \/ HangUp(c) PROVE AnswerInv'
    BY <1>3, <1>1, AnswersOnAccept DEF HangUp, storageVars
<1>4. ASSUME NEW q \in QueryWorkers, Iteration(q) PROVE AnswerInv'
  <2>1. CASE AddConnection(q) \/ PostbackFails(q)
    <3>1. input[q] # << >> /\ Consume(q) /\ UNCHANGED <<queue, job, aggregator, delivered>>
        BY <2>1 DEF AddConnection, PostbackFails, Received, storageVars
    <3> QED
        BY <3>1, <1>2, HonestUntouched
  <2>2. CASE Reply(q)
      BY <2>2, <1>2, AnswersOnReply DEF Reply, Received, storageVars
  <2>3. CASE Postback(q)
      BY <2>3, <1>2, AnswersOnPostback DEF Postback, Received, storageVars
  <2>4. CASE DispatchPart(q)
      BY <2>4, AnswersOnPart
  <2>5. CASE CloseSocket(q)
      BY <2>5, <1>1 DEF CloseSocket, storageVars
  <2> QED
      BY <1>4, <2>1, <2>2, <2>3, <2>4, <2>5 DEF Iteration
<1>5. ASSUME NEW q \in QueryWorkers, Dispatch(q) \/ ReadFails(q) PROVE AnswerInv'
    BY <1>5, AnswersOnDispatch, AnswersOnReadFailure
<1>6. ASSUME NEW w \in StorageWorkers, TakeJob(w) \/ ExecuteJob(w) PROVE AnswerInv'
    BY <1>6, AnswersOnTake, AnswersOnExecute
<1>7. CASE ClearContext \/ UNCHANGED vars
    BY <1>7, <1>1 DEF ClearContext, vars, storageVars
<1> QED
    BY <1>3, <1>4, <1>5, <1>6, <1>7, AnswersOnAggregate DEF Next

LEMMA AnswersAtStart == Init => AnswerInv
<1> SUFFICES ASSUME Init PROVE AnswerInv
    OBVIOUS
<1>1. /\ \A w \in StorageWorkers : queue[w] = {} /\ job[w] = {}
      /\ \A q \in QueryWorkers : Len(input[q]) = 0
      /\ Len(aggregator) = 0 /\ delivered = {}
    BY DEF Init
<1> QED
    BY <1>1 DEF AnswerInv, HonestJobs, HonestInput, HonestAggregator, HonestAnswers

(* An answer is delivered to the client that asked and to no other, for any number of   *)
(* clients, descriptors and workers: what the key of the connection protects in Reply   *)
(* and does not in Postback.                                                            *)
THEOREM AnswersGoHome == Spec => []AnswersReachAsker
<1> DEFINE Inv == TypeInv /\ SocketInv /\ AnswerInv
<1>1. Init => Inv
    BY TypesAtStart, SocketsAtStart, AnswersAtStart DEF TypeInv, Described, Init
<1>2. Inv /\ [Next]_vars => Inv'
    BY TypesKept, SocketsKept, AnswersRemain
<1>3. Inv => AnswersReachAsker
    BY DEF AnswerInv, HonestAnswers, Rightly, AnswersReachAsker
<1> QED
    BY <1>1, <1>2, <1>3, PTL DEF Spec

(* Of two that were given one descriptor, who asked first is gone. *)
LEMMA WithdrawnAreDeparted ==
    ASSUME TypeInv, SocketInv, AnswerInv, NEW c \in Clients, client[c] = "left",
           NEW r \in Request, Asked(r), r.socket = descriptor[c]
    PROVE  client[r.client] \in {"left", "closed"}
<1>1. r.client \in Clients /\ IsOpen(c)
    BY DEF Request, IsOpen
<1>2. r.client = c \/ client[r.client] = "closed"
    BY <1>1, OneOwner DEF Asked
<1> QED
    BY <1>2

(* A disconnection withdraws reads of clients that are gone, never a write and never a  *)
(* request of somebody who was given the descriptor later.                              *)
THEOREM DisconnectionsSpareOthers == Spec => WithdrawsOnlyDeparted
<1> DEFINE Inv == TypeInv /\ SocketInv /\ AnswerInv
<1>1. Init => Inv
    BY TypesAtStart, SocketsAtStart, AnswersAtStart DEF TypeInv, Described, Init
<1>2. Inv /\ [Next]_vars => Inv'
    BY TypesKept, SocketsKept, AnswersRemain
<1>3. Inv /\ [Next]_vars =>
         [\A w \in StorageWorkers : \A n \in queue[w] :
             \/ n \in queue'[w] \/ n.msg \in job'[w]
             \/ n.msg.body.kind = "read" /\ client[n.msg.body.client] \in {"left", "closed"}]_vars
  <2> SUFFICES ASSUME TypeInv, SocketInv, AnswerInv, [Next]_vars,
                      NEW w \in StorageWorkers, NEW n \in queue[w]
               PROVE  \/ n \in queue'[w] \/ n.msg \in job'[w]
                      \/ /\ n.msg.body.kind = "read"
                         /\ client[n.msg.body.client] \in {"left", "closed"}
      OBVIOUS
  <2>1. ASSUME queue' = queue PROVE n \in queue'[w]
      BY <2>1
  <2>2. ASSUME NEW v, NEW m, PostJob(v, m) PROVE n \in queue'[w]
      BY <2>2 DEF PostJob, TypeInv, TypeOK
  <2>3. ASSUME NEW q \in QueryWorkers, ReadFails(q)
        PROVE  \/ n \in queue'[w]
               \/ n.msg.body.kind = "read" /\ client[n.msg.body.client] \in {"left", "closed"}
    <3>1. PICK c \in Clients : client[c] = "left" /\ RemoveFromQueue(c)
        BY <2>3 DEF ReadFails
    <3>2. n \in queue'[w] \/ Withdrawable(descriptor[c], n.msg)
        BY <3>1 DEF RemoveFromQueue
    <3>3. n.msg.body \in Request /\ Asked(n.msg.body)
        BY DEF TypeInv, TypeOK, Job, AnswerInv, HonestJobs, HonestJob
    <3> QED
        BY <3>1, <3>2, <3>3, WithdrawnAreDeparted DEF Withdrawable
  <2>4. ASSUME NEW q \in QueryWorkers, Dispatch(q) PROVE n \in queue'[w]
      BY <2>1, <2>2, <2>4 DEF Dispatch, PostWrite, PostRead, storageVars
  <2>5. ASSUME NEW q \in QueryWorkers, DispatchPart(q) PROVE n \in queue'[w]
      BY <2>2, <2>5 DEF DispatchPart, PostRead
  <2>6. ASSUME NEW v \in StorageWorkers, TakeJob(v) PROVE n \in queue'[w] \/ n.msg \in job'[w]
      BY <2>6 DEF TakeJob, TypeInv, TypeOK
  <2>7. ASSUME NEW q \in QueryWorkers,
               AddConnection(q) \/ Reply(q) \/ Postback(q) \/ PostbackFails(q) \/ CloseSocket(q)
        PROVE  n \in queue'[w]
      BY <2>1, <2>7 DEF AddConnection, Reply, Postback, PostbackFails, CloseSocket, storageVars
  <2>8. ASSUME NEW c \in Clients, Accept(c) \/ HangUp(c) PROVE n \in queue'[w]
      BY <2>1, <2>8 DEF Accept, HangUp, storageVars
  <2>9. ASSUME NEW v \in StorageWorkers, ExecuteJob(v) PROVE n \in queue'[w]
      BY <2>1, <2>9 DEF ExecuteJob
  <2>10. CASE Aggregate \/ ClearContext \/ UNCHANGED vars
      BY <2>1, <2>10 DEF Aggregate, ClearContext, vars, storageVars
  <2> QED
      BY <2>3, <2>4, <2>5, <2>6, <2>7, <2>8, <2>9, <2>10 DEF Next, Iteration
<1> QED
    BY <1>1, <1>2, <1>3, PTL DEF Spec, WithdrawsOnlyDeparted

-----------------------------------------------------------------------------
(* Writes.                                                                    *)

(* Until the shared context is cleared whoever remembers a writer remembers the *)
(* one it has, and the writes are there.                                        *)
WriterInv ==
    ~cleared =>
        /\ \A q \in QueryWorkers : storage_dbs_w[q] \in {0, context}
        /\ \A w \in StorageWorkers :
              /\ \A n \in queue[w] : n.msg.body.kind = "write" => w = context
              /\ \A m \in job[w] : m.body.kind = "write" => w = context
        /\ \A i \in 1 .. Len(executed) : executed[i].worker = context

(* The places in a queue. *)
PlaceInv ==
    \A w \in StorageWorkers : \A n \in queue[w] :
        n.at <= posted[w] /\ \A m \in queue[w] : n.at = m.at => n = m

(* The writes of a query worker are where it remembers, also after the clearing. *)
At(r, w) == storage_dbs_w[r.io] = w /\ r.id <= Len(requests)

HomeInv ==
    /\ \A w \in StorageWorkers :
          /\ \A n \in queue[w] : n.msg.body.kind = "write" => At(n.msg.body, w)
          /\ \A m \in job[w] : m.body.kind = "write" => At(m.body, w)
    /\ \A i \in 1 .. Len(executed) :
          executed[i].request.kind = "write" /\ At(executed[i].request, executed[i].worker)

(* They are executed, in hand and queued in the order of their numbers. *)
Before(r, s) == r.kind = "write" /\ s.kind = "write" /\ r.client = s.client => r.id < s.id

LineInv ==
    /\ \A w \in StorageWorkers :
          /\ \A n, m \in queue[w] : n.at < m.at => Before(n.msg.body, m.msg.body)
          /\ \A k \in job[w], n \in queue[w] : Before(k.body, n.msg.body)
          /\ \A i \in 1 .. Len(executed) :
                /\ \A k \in job[w] : Before(executed[i].request, k.body)
                /\ \A n \in queue[w] : Before(executed[i].request, n.msg.body)
    /\ \A i, j \in 1 .. Len(executed) : i < j => Before(executed[i].request, executed[j].request)

WriteInv == WriterInv /\ PlaceInv /\ HomeInv /\ LineInv

LEMMA WritesAtStart == Init => WriteInv
<1> SUFFICES ASSUME Init PROVE WriteInv
    OBVIOUS
<1>1. /\ \A w \in StorageWorkers : queue[w] = {} /\ job[w] = {}
      /\ \A q \in QueryWorkers : storage_dbs_w[q] = 0
      /\ Len(executed) = 0
    BY DEF Init
<1> QED
    BY <1>1 DEF WriteInv, WriterInv, PlaceInv, HomeInv, LineInv

(* Jobs that are withdrawn, and steps that concern no job. *)
LEMMA WritesFewer ==
    ASSUME TypeInv, WriteInv,
           \A w \in StorageWorkers : queue'[w] \subseteq queue[w],
           UNCHANGED <<posted, job, executed, storage_dbs_w, requests>>,
           cleared' \/ (cleared' = cleared /\ context' = context)
    PROVE  WriteInv'
<1>1. WriterInv'
    BY DEF WriteInv, WriterInv
<1>2. PlaceInv'
    BY DEF WriteInv, PlaceInv
<1>3. HomeInv'
    BY DEF WriteInv, HomeInv, At
<1>4. LineInv'
    BY DEF WriteInv, LineInv
<1> QED
    BY <1>1, <1>2, <1>3, <1>4 DEF WriteInv

(* A job is posted: a write goes to the writer and has the highest number. *)
LEMMA WritesPosted ==
    ASSUME TypeInv, WriteInv, NEW w \in StorageWorkers, NEW m \in Job, PostJob(w, m),
           Len(requests) \in Nat, Len(requests') \in Nat, Len(requests) <= Len(requests'),
           m.body.kind = "write" =>
               /\ m.body.id = Len(requests) + 1 /\ m.body.id <= Len(requests')
               /\ storage_dbs_w'[m.body.io] = w,
           \A p \in QueryWorkers : storage_dbs_w[p] # 0 => storage_dbs_w'[p] = storage_dbs_w[p],
           ~cleared' =>
               /\ ~cleared /\ (context # 0 => context' = context)
               /\ \A p \in QueryWorkers : storage_dbs_w'[p] \in {storage_dbs_w[p], context'}
               /\ m.body.kind = "write" => w = context'
    PROVE  WriteInv'
<1> DEFINE new == [at |-> posted[w] + 1, msg |-> m]
<1>1. /\ queue'[w] = queue[w] \cup {new}
      /\ posted'[w] = posted[w] + 1 /\ posted[w] \in Nat
      /\ \A v \in StorageWorkers : v # w => queue'[v] = queue[v] /\ posted'[v] = posted[v]
      /\ job' = job /\ executed' = executed
    BY DEF PostJob, TypeInv, TypeOK
<1>2. new.at = posted[w] + 1 /\ new.msg = m
    OBVIOUS
<1> HIDE DEF new
<1>3. 0 \notin StorageWorkers
    BY DEF StorageWorkers
<1>4. \A v \in StorageWorkers : \A n \in queue'[v] : n \in queue[v] \/ (v = w /\ n = new)
    BY <1>1
<1>5. \A v \in StorageWorkers : \A n \in queue[v] :
          n.at \in Nat /\ n.msg \in Job /\ n.msg.body \in Request
    BY DEF TypeInv, TypeOK, Job
<1>6. \A v \in StorageWorkers : \A k \in job[v] : k.body \in Request
    BY DEF TypeInv, TypeOK, Job
<1>7. /\ \A r \in Request : r.io \in QueryWorkers /\ r.id \in Nat
      /\ m.body \in Request
    BY ConnectionsAssumption DEF Request, Job
<1>8. \A i \in 1 .. Len(executed) :
          executed[i].request \in Request /\ executed[i].worker \in StorageWorkers
  <2> DEFINE S == [request : Request, worker : StorageWorkers]
  <2>1. executed \in Seq(S)
      BY DEF TypeInv, TypeOK
  <2> HIDE DEF S
  <2>2. \A i \in 1 .. Len(executed) : executed[i] \in S
      BY <2>1
  <2> QED
      BY <2>2 DEF S
<1>9. WriterInv'
  <2> SUFFICES ASSUME ~cleared' PROVE WriterInv'
      BY DEF WriterInv
  <2>1. \A q \in QueryWorkers : storage_dbs_w[q] # 0 => context # 0 /\ storage_dbs_w[q] = context
      BY DEF WriteInv, WriterInv
  <2>2. \A q \in QueryWorkers : storage_dbs_w'[q] \in {0, context'}
      BY <2>1
  <2>3. \A v \in StorageWorkers : v = context => v = context'
      BY <1>3
  <2>4. \A v \in StorageWorkers :
            /\ \A n \in queue'[v] : n.msg.body.kind = "write" => v = context'
            /\ \A k \in job'[v] : k.body.kind = "write" => v = context'
      BY <1>1, <1>2, <1>4, <2>3 DEF WriteInv, WriterInv
  <2>5. \A i \in 1 .. Len(executed') : executed'[i].worker = context'
      BY <1>1, <1>8, <2>3 DEF WriteInv, WriterInv
  <2> QED
      BY <2>2, <2>4, <2>5 DEF WriterInv
<1>10. PlaceInv'
  <2>1. \A v \in StorageWorkers : posted[v] \in Nat
      BY DEF TypeInv, TypeOK
  <2>2. \A v \in StorageWorkers : \A n \in queue[v] :
            n.at <= posted[v] /\ \A k \in queue[v] : n.at = k.at => n = k
      BY DEF WriteInv, PlaceInv
  <2> SUFFICES ASSUME NEW v \in StorageWorkers, NEW n \in queue'[v]
               PROVE  n.at <= posted'[v] /\ \A k \in queue'[v] : n.at = k.at => n = k
      BY DEF PlaceInv
  <2>3. CASE v # w
      BY <1>1, <2>2, <2>3
  <2>4. CASE v = w
    <3>1. \A k \in queue[w] : k.at < new.at
        BY <1>1, <1>2, <1>5, <2>2
    <3>2. new.at \in Nat /\ new.at <= posted'[w]
        BY <1>1, <1>2
    <3>3. n.at <= posted'[v]
        BY <1>1, <1>5, <2>2, <2>4, <3>2
    <3>4. \A k \in queue'[w] : n.at = k.at => n = k
        BY <1>1, <1>5, <2>2, <2>4, <3>1, <3>2
    <3> QED
        BY <2>4, <3>3, <3>4
  <2> QED
      BY <2>3, <2>4
<1>11. \A r \in Request, v \in StorageWorkers : At(r, v) => At(r, v)'
    BY <1>3, <1>7 DEF At
<1>12. HomeInv'
  <2>1. \A v \in StorageWorkers : \A n \in queue[v] :
            n.msg.body.kind = "write" => At(n.msg.body, v)'
      BY <1>5, <1>11 DEF WriteInv, HomeInv
  <2>2. m.body.kind = "write" => At(m.body, w)'
      BY DEF At
  <2>3. \A v \in StorageWorkers : \A n \in queue'[v] :
            n.msg.body.kind = "write" => At(n.msg.body, v)'
      BY <1>2, <1>4, <2>1, <2>2
  <2>4. \A v \in StorageWorkers : \A k \in job[v] : k.body.kind = "write" => At(k.body, v)'
      BY <1>6, <1>11 DEF WriteInv, HomeInv
  <2>5. \A i \in 1 .. Len(executed) :
            /\ executed[i].request.kind = "write"
            /\ storage_dbs_w'[executed[i].request.io] = executed[i].worker
            /\ executed[i].request.id <= Len(requests')
      BY <1>3, <1>7, <1>8 DEF WriteInv, HomeInv, At
  <2> QED
      BY <1>1, <2>3, <2>4, <2>5 DEF HomeInv, At
<1>13. LineInv'
  <2>1. \A v \in StorageWorkers : \A n \in queue[v] : Before(n.msg.body, m.body)
      BY <1>5, <1>7 DEF WriteInv, HomeInv, At, Before
  <2>2. \A v \in StorageWorkers : \A k \in job[v] : Before(k.body, m.body)
      BY <1>6, <1>7 DEF WriteInv, HomeInv, At, Before
  <2>3. \A i \in 1 .. Len(executed) : Before(executed[i].request, m.body)
      BY <1>7, <1>8 DEF WriteInv, HomeInv, At, Before
  <2>4. \A v \in StorageWorkers : \A n, k \in queue'[v] : n.at < k.at => Before(n.msg.body, k.msg.body)
    <3> SUFFICES ASSUME NEW v \in StorageWorkers, NEW n \in queue'[v], NEW k \in queue'[v],
                        n.at < k.at
                 PROVE  Before(n.msg.body, k.msg.body)
        OBVIOUS
    <3>1. CASE n \in queue[v] /\ k \in queue[v]
        BY <3>1 DEF WriteInv, LineInv
    <3>2. CASE n \in queue[v] /\ k = new
        BY <3>2, <2>1, <1>2
    <3>3. CASE v = w /\ n = new
      <4>1. n.at = posted[w] + 1 /\ (k \in queue[w] \/ k = new)
          BY <3>3, <1>2, <1>4
      <4>2. \A j \in queue[w] : j.at <= posted[w]
          BY DEF WriteInv, PlaceInv
      <4> QED
          BY <4>1, <4>2, <3>3, <1>1, <1>2, <1>5
    <3> QED
        BY <1>4, <3>1, <3>2, <3>3
  <2>5. \A v \in StorageWorkers : \A k \in job[v], n \in queue'[v] : Before(k.body, n.msg.body)
      BY <1>2, <1>4, <2>2 DEF WriteInv, LineInv
  <2>6. \A v \in StorageWorkers : \A i \in 1 .. Len(executed) :
            /\ \A k \in job[v] : Before(executed[i].request, k.body)
            /\ \A n \in queue'[v] : Before(executed[i].request, n.msg.body)
      BY <1>2, <1>4, <2>3 DEF WriteInv, LineInv
  <2>7. \A i, j \in 1 .. Len(executed) : i < j => Before(executed[i].request, executed[j].request)
      BY DEF WriteInv, LineInv
  <2> QED
      BY <1>1, <2>4, <2>5, <2>6, <2>7 DEF LineInv, Before
<1> QED
    BY <1>9, <1>10, <1>12, <1>13 DEF WriteInv

(* The first of the queue is taken. *)
LEMMA WritesTaken ==
    ASSUME TypeInv, WriteInv, NEW w \in StorageWorkers, TakeJob(w)
    PROVE  WriteInv'
<1>1. PICK n \in queue[w] :
          /\ \A m \in queue[w] : n.at <= m.at
          /\ job' = [job EXCEPT ![w] = {n.msg}]
          /\ queue' = [queue EXCEPT ![w] = @ \ {n}]
    BY DEF TakeJob
<1>2. /\ queue'[w] = queue[w] \ {n} /\ job'[w] = {n.msg}
      /\ \A v \in StorageWorkers : v # w => queue'[v] = queue[v] /\ job'[v] = job[v]
    BY <1>1 DEF TypeInv, TypeOK
<1>3. UNCHANGED <<posted, executed, context, storage_dbs_w, cleared, requests>>
    BY DEF TakeJob, routeVars
<1>4. \A v \in StorageWorkers :
          /\ queue'[v] \subseteq queue[v]
          /\ \A k \in job'[v] : k \in job[v] \/ (v = w /\ k = n.msg)
    BY <1>2
<1>5. WriterInv'
    BY <1>3, <1>4 DEF WriteInv, WriterInv
<1>6. PlaceInv'
    BY <1>3, <1>4 DEF WriteInv, PlaceInv
<1>7. HomeInv'
  <2>1. \A v \in StorageWorkers : \A k \in job'[v] : k.body.kind = "write" => At(k.body, v)
      BY <1>4 DEF WriteInv, HomeInv
  <2>2. \A v \in StorageWorkers : \A k \in queue'[v] : k.msg.body.kind = "write" => At(k.msg.body, v)
      BY <1>4 DEF WriteInv, HomeInv
  <2>3. \A i \in 1 .. Len(executed) :
            executed[i].request.kind = "write" /\ At(executed[i].request, executed[i].worker)
      BY DEF WriteInv, HomeInv
  <2> QED
      BY <1>3, <2>1, <2>2, <2>3 DEF HomeInv, At
<1>8. LineInv'
  <2>1. \A k \in queue'[w] : n.at < k.at
    <3> SUFFICES ASSUME NEW k \in queue'[w] PROVE n.at < k.at
        OBVIOUS
    <3>1. k \in queue[w] /\ k # n
        BY <1>2
    <3>2. n.at \in Nat /\ k.at \in Nat
        BY <3>1 DEF TypeInv, TypeOK
    <3>3. n.at <= k.at /\ n.at # k.at
        BY <1>1, <3>1 DEF WriteInv, PlaceInv
    <3> QED
        BY <3>2, <3>3
  <2>2. \A k \in queue'[w] : Before(n.msg.body, k.msg.body)
      BY <2>1, <1>4 DEF WriteInv, LineInv
  <2>3. \A v \in StorageWorkers : \A k \in job'[v], m \in queue'[v] : Before(k.body, m.msg.body)
      BY <1>4, <2>2 DEF WriteInv, LineInv
  <2>4. \A v \in StorageWorkers : \A m, k \in queue'[v] : m.at < k.at => Before(m.msg.body, k.msg.body)
      BY <1>4 DEF WriteInv, LineInv
  <2>5. \A v \in StorageWorkers : \A i \in 1 .. Len(executed) :
            /\ \A k \in job'[v] : Before(executed[i].request, k.body)
            /\ \A m \in queue'[v] : Before(executed[i].request, m.msg.body)
      BY <1>4 DEF WriteInv, LineInv
  <2>6. \A i, j \in 1 .. Len(executed) : i < j => Before(executed[i].request, executed[j].request)
      BY DEF WriteInv, LineInv
  <2> QED
      BY <1>3, <2>3, <2>4, <2>5, <2>6 DEF LineInv, Before
<1> QED
    BY <1>5, <1>6, <1>7, <1>8 DEF WriteInv

(* The writes of a client are all at one worker, since they come through one. *)
LEMMA OneHome ==
    ASSUME NEW r \in Request, NEW s \in Request, Asked(r), Asked(s), r.client = s.client,
           NEW v, NEW w, At(r, v), At(s, w)
    PROVE  v = w
BY DEF Asked, At

(* The job in hand is executed: nothing its client sent before is still waiting. *)
LEMMA WritesExecuted ==
    ASSUME TypeInv, AnswerInv, WriteInv, NEW w \in StorageWorkers, ExecuteJob(w)
    PROVE  WriteInv'
<1>1. PICK m \in job[w] :
          executed' = IF m.body.kind = "write"
                      THEN Append(executed, [request |-> m.body, worker |-> w]) ELSE executed
    BY DEF ExecuteJob
<1>2. UNCHANGED <<queue, posted, context, storage_dbs_w, cleared, requests>>
    BY DEF ExecuteJob, routeVars
<1>3. /\ job'[w] = {}
      /\ \A v \in StorageWorkers : v # w => job'[v] = job[v]
    BY DEF ExecuteJob, TypeInv, TypeOK
<1>4. \A v \in StorageWorkers : \A k \in job'[v] : v # w /\ k \in job[v]
    BY <1>3
<1>5. m.body \in Request /\ Asked(m.body)
    BY DEF TypeInv, TypeOK, Job, AnswerInv, HonestJobs, HonestJob
<1> DEFINE e == [request |-> m.body, worker |-> w]
<1>6. \/ m.body.kind # "write" /\ executed' = executed
      \/ /\ m.body.kind = "write" /\ Len(executed') = Len(executed) + 1
         /\ \A i \in 1 .. Len(executed) : executed'[i] = executed[i]
         /\ executed'[Len(executed) + 1] = e
  <2> DEFINE S == [request : Request, worker : StorageWorkers]
  <2>1. executed \in Seq(S) /\ e \in S
      BY <1>5 DEF TypeInv, TypeOK
  <2>2. executed' = IF m.body.kind = "write" THEN Append(executed, e) ELSE executed
      BY <1>1
  <2> HIDE DEF S, e
  <2> QED
      BY <2>1, <2>2
<1>7. Len(executed) \in Nat /\ e.request = m.body /\ e.worker = w
    BY DEF TypeInv, TypeOK
<1> HIDE DEF e
<1>8. \A i \in 1 .. Len(executed') :
          \/ i \in 1 .. Len(executed) /\ executed'[i] = executed[i]
          \/ /\ m.body.kind = "write" /\ executed'[i] = e
             /\ i = Len(executed) + 1 /\ Len(executed') = Len(executed) + 1
    BY <1>6, <1>7
<1>9. WriterInv'
  <2> SUFFICES ASSUME ~cleared PROVE WriterInv'
      BY <1>2 DEF WriterInv
  <2>1. m.body.kind = "write" => w = context
      BY DEF WriteInv, WriterInv
  <2>2. \A i \in 1 .. Len(executed') : executed'[i].worker = context
      BY <1>7, <1>8, <2>1 DEF WriteInv, WriterInv
  <2> QED
      BY <1>2, <1>4, <2>2 DEF WriteInv, WriterInv
<1>10. PlaceInv'
    BY <1>2 DEF WriteInv, PlaceInv
<1>11. HomeInv'
  <2>1. m.body.kind = "write" => At(m.body, w)
      BY DEF WriteInv, HomeInv
  <2>2. \A i \in 1 .. Len(executed') :
            executed'[i].request.kind = "write" /\ At(executed'[i].request, executed'[i].worker)
      BY <1>7, <1>8, <2>1 DEF WriteInv, HomeInv
  <2>3. \A v \in StorageWorkers :
            /\ \A k \in queue[v] : k.msg.body.kind = "write" => At(k.msg.body, v)
            /\ \A k \in job'[v] : k.body.kind = "write" => At(k.body, v)
      BY <1>4 DEF WriteInv, HomeInv
  <2> QED
      BY <1>2, <2>2, <2>3 DEF HomeInv, At
<1>12. LineInv'
  <2>1. \A v \in StorageWorkers : \A n \in queue[v] : Before(m.body, n.msg.body)
    <3> SUFFICES ASSUME NEW v \in StorageWorkers, NEW n \in queue[v],
                        m.body.kind = "write", n.msg.body.kind = "write",
                        m.body.client = n.msg.body.client
                 PROVE  m.body.id < n.msg.body.id
        BY DEF Before
    <3>1. n.msg.body \in Request /\ Asked(n.msg.body)
        BY DEF TypeInv, TypeOK, Job, AnswerInv, HonestJobs, HonestJob
    <3>2. At(m.body, w) /\ At(n.msg.body, v)
        BY DEF WriteInv, HomeInv
    <3>3. v = w
        BY <1>5, <3>1, <3>2, OneHome
    <3> QED
        BY <3>3 DEF WriteInv, LineInv, Before
  <2>2. \A v \in StorageWorkers : \A k \in job'[v] : Before(m.body, k.body)
    <3> SUFFICES ASSUME NEW v \in StorageWorkers, NEW k \in job'[v],
                        m.body.kind = "write", k.body.kind = "write",
                        m.body.client = k.body.client
                 PROVE  FALSE
        BY DEF Before
    <3>1. v # w /\ k \in job[v]
        BY <1>4
    <3>2. k.body \in Request /\ Asked(k.body)
        BY <3>1 DEF TypeInv, TypeOK, Job, AnswerInv, HonestJobs, HonestJob
    <3>3. At(m.body, w) /\ At(k.body, v)
        BY <3>1 DEF WriteInv, HomeInv
    <3> QED
        BY <1>5, <3>1, <3>2, <3>3, OneHome
  <2>3. \A i \in 1 .. Len(executed) : Before(executed[i].request, m.body)
      BY DEF WriteInv, LineInv
  <2>4. \A v \in StorageWorkers : \A i \in 1 .. Len(executed') :
            /\ \A k \in job'[v] : Before(executed'[i].request, k.body)
            /\ \A n \in queue[v] : Before(executed'[i].request, n.msg.body)
      BY <1>4, <1>7, <1>8, <2>1, <2>2 DEF WriteInv, LineInv
  <2>5. \A i, j \in 1 .. Len(executed') : i < j => Before(executed'[i].request, executed'[j].request)
    <3> SUFFICES ASSUME NEW i \in 1 .. Len(executed'), NEW j \in 1 .. Len(executed'), i < j
                 PROVE  Before(executed'[i].request, executed'[j].request)
        OBVIOUS
    <3>1. i \in 1 .. Len(executed) /\ executed'[i] = executed[i]
        BY <1>7, <1>8
    <3>2. CASE j \in 1 .. Len(executed) /\ executed'[j] = executed[j]
        BY <3>1, <3>2 DEF WriteInv, LineInv
    <3>3. CASE executed'[j] = e
        BY <3>1, <3>3, <2>3, <1>7
    <3> QED
        BY <1>8, <3>2, <3>3
  <2>6. \A v \in StorageWorkers :
            /\ \A n, k \in queue[v] : n.at < k.at => Before(n.msg.body, k.msg.body)
            /\ \A k \in job'[v], n \in queue[v] : Before(k.body, n.msg.body)
      BY <1>4 DEF WriteInv, LineInv
  <2> QED
      BY <1>2, <2>4, <2>5, <2>6 DEF LineInv, Before
<1> QED
    BY <1>9, <1>10, <1>11, <1>12 DEF WriteInv

(* A request is dispatched: a write gets the next number, and the writer. *)
LEMMA WritesOnDispatch ==
    ASSUME TypeInv, WriteInv, NEW q \in QueryWorkers, Dispatch(q)
    PROVE  WriteInv'
<1>1. PICK r \in Request :
          /\ r.id = Len(requests) + 1 /\ r.io = q
          /\ Message("request", r) \in Job
          /\ requests' = Append(requests, r)
          /\ \/ r.kind = "write" /\ PostWrite(q, Message("request", r))
             \/ r.kind = "read" /\ PostRead(q, Message("request", r))
             \/ UNCHANGED <<storageVars, routeVars>>
    BY Dispatched
<1> DEFINE m == Message("request", r)
<1>2. Len(requests) \in Nat /\ Len(requests') = Len(requests) + 1
  <2>1. requests \in Seq(Request)
      BY DEF TypeInv, TypeOK
  <2> QED
      BY <1>1, <2>1
<1>3. m \in Job /\ m.body = r
    BY <1>1 DEF Message
<1> HIDE DEF m
<1>4. CASE r.kind = "write" /\ PostWrite(q, m)
  <2> DEFINE w == Writer(q)
  <2>1. /\ w \in StorageWorkers /\ PostJob(w, m)
        /\ storage_dbs_w' = [storage_dbs_w EXCEPT ![q] = w] /\ cleared' = cleared
      BY <1>3, <1>4, WritePosted DEF TypeInv
  <2>2. /\ storage_dbs_w'[q] = w
        /\ \A p \in QueryWorkers : p # q => storage_dbs_w'[p] = storage_dbs_w[p]
      BY <2>1 DEF TypeInv, TypeOK
  <2>3. storage_dbs_w[q] # 0 => w = storage_dbs_w[q] /\ context' = context
      BY <1>4 DEF PostWrite, Writer
  <2>4. storage_dbs_w[q] = 0 => context' = w /\ (context # 0 => w = context)
      BY <1>4 DEF PostWrite, Writer, WriterWorker
  <2>5. ~cleared => storage_dbs_w[q] \in {0, context}
      BY DEF WriteInv, WriterInv
  <2> HIDE DEF w
  <2>6. ~cleared' =>
            /\ ~cleared /\ (context # 0 => context' = context) /\ w = context'
            /\ \A p \in QueryWorkers : storage_dbs_w'[p] \in {storage_dbs_w[p], context'}
      BY <2>1, <2>2, <2>3, <2>4, <2>5
  <2>7. \A p \in QueryWorkers : storage_dbs_w[p] # 0 => storage_dbs_w'[p] = storage_dbs_w[p]
      BY <2>2, <2>3
  <2> QED
      BY <1>1, <1>2, <1>3, <2>1, <2>2, <2>6, <2>7, WritesPosted
<1>5. CASE r.kind = "read" /\ PostRead(q, m)
  <2>1. /\ \E w \in StorageWorkers : PostJob(w, m)
        /\ context' = context /\ storage_dbs_w' = storage_dbs_w /\ cleared' = cleared
      BY <1>3, <1>5, ReadPosted DEF TypeInv
  <2> QED
      BY <1>2, <1>3, <1>5, <2>1, WritesPosted
<1>6. CASE UNCHANGED <<storageVars, routeVars>>
  <2>1. UNCHANGED <<queue, posted, job, executed, storage_dbs_w, context, cleared>>
      BY <1>6 DEF storageVars, routeVars
  <2>2. WriterInv' /\ PlaceInv' /\ LineInv'
      BY <2>1 DEF WriteInv, WriterInv, PlaceInv, LineInv
  <2>3. \A s \in Request : \A w : At(s, w) => At(s, w)'
    <3>1. \A s \in Request : s.id \in Nat
        BY ConnectionsAssumption DEF Request
    <3> QED
        BY <1>2, <2>1, <3>1 DEF At
  <2>4. HomeInv'
    <3>1. \A w \in StorageWorkers :
              (\A n \in queue[w] : n.msg.body \in Request) /\ (\A k \in job[w] : k.body \in Request)
        BY DEF TypeInv, TypeOK, Job
    <3>2. \A i \in 1 .. Len(executed) : executed[i].request \in Request
      <4> DEFINE S == [request : Request, worker : StorageWorkers]
      <4>1. executed \in Seq(S)
          BY DEF TypeInv, TypeOK
      <4> HIDE DEF S
      <4>2. \A i \in 1 .. Len(executed) : executed[i] \in S
          BY <4>1
      <4> QED
          BY <4>2 DEF S
    <3>3. \A s \in Request : s.id \in Nat
        BY ConnectionsAssumption DEF Request
    <3> QED
        BY <1>2, <2>1, <3>1, <3>2, <3>3 DEF WriteInv, HomeInv, At
  <2> QED
      BY <2>2, <2>4 DEF WriteInv
<1> QED
    BY <1>1, <1>4, <1>5, <1>6 DEF m

LEMMA WritesOnPart ==
    ASSUME TypeInv, AnswerInv, WriteInv, NEW q \in QueryWorkers, DispatchPart(q)
    PROVE  WriteInv'
<1> DEFINE m == Message("part", Incoming(q))
<1>1. Incoming(q).kind = "join"
    BY IncomingIsHonest DEF DispatchPart
<1>2. m \in Job /\ m.body.kind = "join"
    BY <1>1, TypesOnPart DEF Message
<1>3. /\ \E w \in StorageWorkers : PostJob(w, m)
      /\ context' = context /\ storage_dbs_w' = storage_dbs_w /\ cleared' = cleared
    BY <1>2, ReadPosted DEF DispatchPart, TypeInv
<1>4. requests' = requests /\ Len(requests) \in Nat
    BY DEF DispatchPart, TypeInv, TypeOK
<1> HIDE DEF m
<1> QED
    BY <1>2, <1>3, <1>4, WritesPosted

LEMMA WritesKept ==
    TypeInv /\ AnswerInv /\ WriteInv /\ [Next]_vars => WriteInv'
<1> SUFFICES ASSUME TypeInv, AnswerInv, WriteInv, [Next]_vars PROVE WriteInv'
    OBVIOUS
<1>1. ASSUME UNCHANGED <<storageVars, requests, storage_dbs_w>>,
             cleared' \/ (cleared' = cleared /\ context' = context)
      PROVE  WriteInv'
    BY <1>1, WritesFewer DEF storageVars
<1>2. ASSUME NEW c \in Clients, Accept(c) \/ HangUp(c) PROVE WriteInv'
    BY <1>2, <1>1 DEF Accept, HangUp, routeVars
<1>3. ASSUME NEW q \in QueryWorkers,
             AddConnection(q) \/ Reply(q) \/ Postback(q) \/ PostbackFails(q) \/ CloseSocket(q)
      PROVE  WriteInv'
    BY <1>3, <1>1 DEF AddConnection, Reply, Postback, PostbackFails, CloseSocket, routeVars
<1>4. ASSUME NEW q \in QueryWorkers, ReadFails(q) PROVE WriteInv'
    BY <1>4, WritesFewer DEF ReadFails, RemoveFromQueue, routeVars
<1>5. CASE Aggregate \/ ClearContext \/ UNCHANGED vars
    BY <1>5, <1>1 DEF Aggregate, ClearContext, vars, routeVars
<1> QED
    BY <1>2, <1>3, <1>4, <1>5, WritesTaken, WritesExecuted, WritesOnDispatch, WritesOnPart
    DEF Next, Iteration

LEMMA ConnectionsInvariant ==
    Spec => [](TypeInv /\ SocketInv /\ AnswerInv /\ WriteInv)
<1>1. Init => TypeInv /\ SocketInv /\ AnswerInv /\ WriteInv
    BY TypesAtStart, SocketsAtStart, AnswersAtStart, WritesAtStart DEF TypeInv, Described, Init
<1> QED
    BY <1>1, TypesKept, SocketsKept, AnswersRemain, WritesKept, PTL DEF Spec

(* As long as the shared context is not cleared all writes are executed by one worker, for *)
(* any number of query workers that ask the context for it and remember what it said.      *)
THEOREM OneWriterExecutes == Spec => []OneWriter
<1>1. TypeInv /\ WriteInv => OneWriter
  <2> SUFFICES ASSUME TypeInv, WriteInv, ~cleared,
                      NEW i \in DOMAIN executed, NEW j \in DOMAIN executed
               PROVE  executed[i].worker = executed[j].worker
      BY DEF OneWriter
  <2>1. DOMAIN executed = 1 .. Len(executed)
      BY DEF TypeInv, TypeOK
  <2> QED
      BY <2>1 DEF WriteInv, WriterInv
<1> QED
    BY <1>1, ConnectionsInvariant, PTL

(* The writes of a client are executed in the order it sent them: they go through one   *)
(* query worker, which remembers the writer even when the shared context is cleared.    *)
THEOREM WritesExecuteInOrder == Spec => []WritesInOrder
<1>1. TypeInv /\ WriteInv => WritesInOrder
  <2> SUFFICES ASSUME TypeInv, WriteInv, NEW i \in DOMAIN executed, NEW j \in DOMAIN executed,
                      i < j, executed[i].request.client = executed[j].request.client
               PROVE  executed[i].request.id < executed[j].request.id
      BY DEF WritesInOrder
  <2>1. DOMAIN executed = 1 .. Len(executed)
      BY DEF TypeInv, TypeOK
  <2>2. executed[i].request.kind = "write" /\ executed[j].request.kind = "write"
      BY <2>1 DEF WriteInv, HomeInv
  <2> QED
      BY <2>1, <2>2 DEF WriteInv, LineInv, Before
<1> QED
    BY <1>1, ConnectionsInvariant, PTL
=============================================================================
