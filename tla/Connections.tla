------------------------------ MODULE Connections ------------------------------
(* The clients of TinDB, the query workers that own their sockets, and the    *)
(* storage workers and the aggregator that answer them.  Workers share only   *)
(* queues: an answer comes back as a message that names a descriptor, and by  *)
(* then the descriptor may belong to another client.                          *)
(*                                                                            *)
(* Clients are numbered as they are accepted.  The random key of a connection *)
(* is the number of its client: two connections never draw the same key.      *)
(* Connections are authenticated, and all requests are for one collection.    *)
EXTENDS Integers, Sequences

CONSTANTS
    NumClients, NumQueryWorkers, NumStorageWorkers,
    Sockets,        \* the descriptors, positive numbers
    MaxRequests     \* bound on the requests

ASSUME ConnectionsAssumption ==
    /\ {NumClients, NumQueryWorkers, NumStorageWorkers} \subseteq Nat \ {0}
    /\ Sockets \subseteq Nat \ {0}
    /\ MaxRequests \in Nat

Clients == 1 .. NumClients
QueryWorkers == 1 .. NumQueryWorkers
StorageWorkers == 1 .. NumStorageWorkers

VARIABLES
    client,         \* per client: "out", "in", "left" (it hung up) or "closed" (so did we)
    descriptor,     \* per client: its descriptor, while the server has it open and after
    buffers,        \* per query worker: the client of each descriptor it knows, or 0
    closing,        \* per query worker: the client it is about to close, or 0
    input,          \* per query worker: its queue
    queue,          \* per storage worker: its queue, messages and the places they have
    posted,         \* per storage worker: the place of the last message
    job,            \* per storage worker: the job in hand, if any
    aggregator,     \* the queue of the aggregator
    context,        \* the shared context's writer of the collection, or 0
    storage_dbs_w,  \* per query worker: the writer it remembers, or 0
    storage_dbs,    \* per query worker: the worker of its reads, or 0
    next_worker,    \* per query worker: whom it asks next
    requests,       \* history: what was dispatched, in order
    executed,       \* history: the writes that were executed, in order, and by whom
    delivered,      \* history: which client got the answer to which request
    cleared         \* history: whether the shared context was cleared

socketVars  == <<client, descriptor, buffers, closing>>
storageVars == <<queue, posted, job, executed>>
routeVars   == <<context, storage_dbs_w, storage_dbs, next_worker, cleared>>
vars == <<socketVars, input, storageVars, aggregator, routeVars, requests, delivered>>

Kinds == {"read", "write", "join"}

\* A query (class Q): obj.socket, obj.io and the key say where the answer goes.
Request == [id : 1..MaxRequests, client : Clients, kind : Kinds,
            socket : Sockets, io : QueryWorkers]

\* What is in a queue: a new connection, a request, a part of a join, an answer.
Message(tag, body) == [tag |-> tag, body |-> body]

Post(q, m) == input' = [input EXCEPT ![q] = Append(@, m)]

\* As in WorkerQueue the list is a set of nodes, because what lies between two
\* others may be withdrawn.
PostJob(w, m) ==
    /\ posted' = [posted EXCEPT ![w] = @ + 1]
    /\ queue' = [queue EXCEPT ![w] = @ \cup {[at |-> posted[w] + 1, msg |-> m]}]
    /\ UNCHANGED <<job, executed>>

\* Connections are handed to the query workers in turn.
WorkerOf(c) == ((c - 1) % NumQueryWorkers) + 1

IsOpen(c) == client[c] \in {"in", "left"}

--------------------------------------------------------------------------------
(* Sockets.                                                                   *)

Unused(s) == \A c \in Clients : IsOpen(c) => descriptor[c] # s

\* The accept loop: the system gives the lowest descriptor that is not open.
Accept(c) ==
    /\ client[c] = "out" /\ \A d \in Clients : d < c => client[d] # "out"
    /\ \E s \in Sockets :
          /\ Unused(s) /\ \A x \in Sockets : x < s => ~Unused(x)
          /\ descriptor' = [descriptor EXCEPT ![c] = s]
          /\ Post(WorkerOf(c), Message("connect", [client |-> c, socket |-> s]))
    /\ client' = [client EXCEPT ![c] = "in"]
    /\ UNCHANGED <<buffers, closing, storageVars, aggregator, routeVars, requests, delivered>>

HangUp(c) ==
    /\ client[c] = "in"
    /\ client' = [client EXCEPT ![c] = "left"]
    /\ UNCHANGED <<descriptor, buffers, closing, input, storageVars, aggregator, routeVars,
                   requests, delivered>>

\* RemoveSocket: the descriptor is free for the next client.
RemoveSocket(q, c) ==
    /\ client' = [client EXCEPT ![c] = "closed"]
    /\ buffers' = [buffers EXCEPT ![q][descriptor[c]] = 0]

\* Mutated form: writes are posted with the descriptor as their key too.
Withdrawable_Writes(s, m) ==
    m.tag = "request" /\ m.body.kind # "join" /\ m.body.socket = s

\* Mutated form: all reads have one key.
Withdrawable_AnyRead(s, m) == m.tag = "request" /\ m.body.kind = "read"

\* Reads are posted with the descriptor as their key; writes, and what an
\* aggregator asks for, with a key no disconnection withdraws.
Withdrawable(s, m) ==
    m.tag = "request" /\ m.body.kind = "read" /\ m.body.socket = s

RemoveFromQueue(c) ==
    queue' = [w \in StorageWorkers |->
                 {n \in queue[w] : ~Withdrawable(descriptor[c], n.msg)}]

\* Reading fails: the client's reads are withdrawn ...
ReadFails(q) ==
    /\ closing[q] = 0
    /\ \E c \in Clients :
          /\ client[c] = "left" /\ buffers[q][descriptor[c]] = c
          /\ RemoveFromQueue(c)
          /\ closing' = [closing EXCEPT ![q] = c]
    /\ UNCHANGED <<client, descriptor, buffers, input, posted, job, executed, aggregator,
                   routeVars, requests, delivered>>

\* ... and only then is the socket closed.
CloseSocket(q) ==
    /\ closing[q] # 0
    /\ RemoveSocket(q, closing[q])
    /\ closing' = [closing EXCEPT ![q] = 0]
    /\ UNCHANGED <<descriptor, input, storageVars, aggregator, routeVars, requests, delivered>>

--------------------------------------------------------------------------------
(* Dispatch.                                                                  *)

\* Mutated form: the index is not wrapped.
Advance_NoWrap(q) == next_worker' = [next_worker EXCEPT ![q] = @ + 1]

Advance(q) == next_worker' = [next_worker EXCEPT ![q] = (@ % NumStorageWorkers) + 1]

\* Mutated form: the map is not asked what it holds.
WriterWorker_Suggests(suggested) == suggested

\* Worker::GetSet: the first suggestion is everybody's writer.
WriterWorker(suggested) == IF context = 0 THEN suggested ELSE context

\* Mutated form: the worker does not remember the answer.
Writer_Asked(q) == WriterWorker(next_worker[q])

Writer(q) ==
    IF storage_dbs_w[q] # 0 THEN storage_dbs_w[q] ELSE WriterWorker(next_worker[q])

PostWrite(q, m) ==
    LET w == Writer(q)
    IN /\ PostJob(w, m)
       /\ storage_dbs_w' = [storage_dbs_w EXCEPT ![q] = w]
       /\ IF storage_dbs_w[q] # 0 THEN UNCHANGED <<context, next_worker>>
          ELSE context' = w /\ Advance(q)
       /\ UNCHANGED <<storage_dbs, cleared>>

PostRead(q, m) ==
    LET w == IF storage_dbs[q] # 0 THEN storage_dbs[q] ELSE next_worker[q]
    IN /\ PostJob(w, m)
       /\ storage_dbs' = [storage_dbs EXCEPT ![q] = w]
       /\ IF storage_dbs[q] # 0 THEN UNCHANGED next_worker ELSE Advance(q)
       /\ UNCHANGED <<context, storage_dbs_w, cleared>>

\* A frame of a client is read and dispatched.
Dispatch(q) ==
    /\ closing[q] = 0 /\ Len(requests) < MaxRequests
    /\ \E c \in Clients, k \in Kinds :
          LET r == [id |-> Len(requests) + 1, client |-> c, kind |-> k,
                    socket |-> descriptor[c], io |-> q]
              m == Message("request", r)
          IN /\ client[c] = "in" /\ buffers[q][descriptor[c]] = c
             /\ requests' = Append(requests, r)
             /\ \/ k = "write" /\ PostWrite(q, m) /\ UNCHANGED aggregator
                \/ k = "read" /\ PostRead(q, m) /\ UNCHANGED aggregator
                \/ k = "join" /\ aggregator' = Append(aggregator, m)
                   /\ UNCHANGED <<storageVars, routeVars>>
    /\ UNCHANGED <<socketVars, input, delivered>>

\* "INFO clear" empties the shared context; what the query workers remember stays.
ClearContext ==
    /\ ~cleared /\ context # 0
    /\ cleared' = TRUE
    /\ context' = 0
    /\ UNCHANGED <<socketVars, input, storageVars, aggregator, storage_dbs_w, storage_dbs,
                   next_worker, requests, delivered>>

--------------------------------------------------------------------------------
(* The input queue of a query worker.                                         *)

Received(q, tag) == closing[q] = 0 /\ input[q] # << >> /\ Head(input[q]).tag = tag
Incoming(q) == Head(input[q]).body
Consume(q) == input' = [input EXCEPT ![q] = Tail(@)]

\* What is written to a descriptor reaches whoever it belongs to, if still there.
SendTo(s, r) ==
    delivered' = delivered \cup
        {[to |-> c, request |-> r] : c \in {d \in Clients : client[d] = "in" /\ descriptor[d] = s}}

AddConnection(q) ==
    /\ Received(q, "connect") /\ Consume(q)
    /\ buffers' = [buffers EXCEPT ![q][Incoming(q).socket] = Incoming(q).client]
    /\ UNCHANGED <<client, descriptor, closing, storageVars, aggregator, routeVars,
                   requests, delivered>>

\* Mutated form: the key is not compared.
KeyMatches_Known(q, r) == buffers[q][r.socket] # 0

KeyMatches(q, r) == buffers[q][r.socket] = r.client

\* An answer of a storage worker: the context of the descriptor must have the key.
Reply(q) ==
    /\ Received(q, "reply") /\ Consume(q)
    /\ IF KeyMatches(q, Incoming(q)) THEN SendTo(Incoming(q).socket, Incoming(q))
       ELSE UNCHANGED delivered
    /\ UNCHANGED <<socketVars, storageVars, aggregator, routeVars, requests>>

\* An answer of the aggregator: the descriptor must be one the worker knows.
Postback(q) ==
    LET s == Incoming(q).socket IN
    /\ Received(q, "postback") /\ Consume(q)
    /\ IF buffers[q][s] # 0 THEN SendTo(s, Incoming(q)) ELSE UNCHANGED delivered
    /\ UNCHANGED <<socketVars, storageVars, aggregator, routeVars, requests>>

\* The client left and the write fails: the socket is closed, its reads stay queued.
PostbackFails(q) ==
    /\ Received(q, "postback") /\ Consume(q)
    /\ \E c \in Clients :
          /\ client[c] = "left" /\ descriptor[c] = Incoming(q).socket
          /\ buffers[q][descriptor[c]] = c
          /\ RemoveSocket(q, c)
    /\ UNCHANGED <<descriptor, closing, storageVars, aggregator, routeVars, requests,
                   delivered>>

\* A query the aggregator needs for a join.
DispatchPart(q) ==
    /\ Received(q, "part") /\ Consume(q)
    /\ PostRead(q, Message("part", Incoming(q)))
    /\ UNCHANGED <<socketVars, aggregator, requests, delivered>>

--------------------------------------------------------------------------------
(* Storage workers and the aggregator.                                        *)

TakeJob(w) ==
    /\ job[w] = {}
    /\ \E n \in queue[w] :
          /\ \A m \in queue[w] : n.at <= m.at
          /\ job' = [job EXCEPT ![w] = {n.msg}]
          /\ queue' = [queue EXCEPT ![w] = @ \ {n}]
    /\ UNCHANGED <<socketVars, input, posted, executed, aggregator, routeVars, requests, delivered>>

\* The job is executed and answered: to the query worker it came through, with the
\* key of the connection, or to the aggregator.
ExecuteJob(w) ==
    /\ job' = [job EXCEPT ![w] = {}]
    /\ \E m \in job[w] :
          /\ executed' = IF m.body.kind = "write"
                         THEN Append(executed, [request |-> m.body, worker |-> w]) ELSE executed
          /\ IF m.tag = "part"
             THEN aggregator' = Append(aggregator, Message("result", m.body)) /\ UNCHANGED input
             ELSE Post(m.body.io, Message("reply", m.body)) /\ UNCHANGED aggregator
    /\ UNCHANGED <<socketVars, queue, posted, routeVars, requests, delivered>>

\* A join of one collection: its query goes to some query worker, its result back
\* to the one that has the client.
Aggregate ==
    /\ aggregator # << >> /\ aggregator' = Tail(aggregator)
    /\ LET m == Head(aggregator) IN
       IF m.tag = "request"
       THEN \E q \in QueryWorkers : Post(q, Message("part", m.body))
       ELSE Post(m.body.io, Message("postback", m.body))
    /\ UNCHANGED <<socketVars, storageVars, routeVars, requests, delivered>>

--------------------------------------------------------------------------------
Init ==
    /\ client = [c \in Clients |-> "out"] /\ descriptor = [c \in Clients |-> 0]
    /\ buffers = [q \in QueryWorkers |-> [s \in Sockets |-> 0]]
    /\ closing = [q \in QueryWorkers |-> 0]
    /\ input = [q \in QueryWorkers |-> << >>]
    /\ queue = [w \in StorageWorkers |-> {}] /\ job = [w \in StorageWorkers |-> {}]
    /\ posted = [w \in StorageWorkers |-> 0]
    /\ aggregator = << >>
    /\ context = 0
    /\ storage_dbs_w = [q \in QueryWorkers |-> 0] /\ storage_dbs = [q \in QueryWorkers |-> 0]
    /\ next_worker = [q \in QueryWorkers |-> ((q - 1) % NumStorageWorkers) + 1]
    /\ requests = << >> /\ executed = << >>
    /\ delivered = {} /\ cleared = FALSE

\* What a query worker does with what has arrived.
Iteration(q) ==
    \/ AddConnection(q) \/ Reply(q) \/ Postback(q) \/ PostbackFails(q) \/ DispatchPart(q)
    \/ CloseSocket(q)

Next ==
    \/ \E c \in Clients : Accept(c) \/ HangUp(c)
    \/ \E q \in QueryWorkers : Iteration(q) \/ Dispatch(q) \/ ReadFails(q)
    \/ \E w \in StorageWorkers : TakeJob(w) \/ ExecuteJob(w)
    \/ Aggregate
    \/ ClearContext

HasSockets(q) == \E s \in Sockets : buffers[q][s] # 0

\* A worker goes on with what it has begun.  A query worker that has sockets waits a
\* second at most for its sockets and its queue.  One that has none, the storage workers and
\* the aggregator wait without a limit: such a worker may sleep beside its messages
\* (EveryPostTaken of WorkerQueue fails for it), so that nothing is assumed of
\* TakeJob, of Aggregate and of the Iteration of a query worker without sockets.
\* Clients do as they like.
Fairness ==
    /\ \A q \in QueryWorkers : WF_vars(HasSockets(q) /\ Iteration(q))
    /\ \A w \in StorageWorkers : WF_vars(ExecuteJob(w))

Spec == Init /\ [][Next]_vars /\ Fairness

--------------------------------------------------------------------------------
(* Properties.                                                                *)

Connection == [client : Clients, socket : Sockets]
Arrival == [tag : {"connect"}, body : Connection]
              \cup [tag : {"reply", "postback", "part"}, body : Request]
Job == [tag : {"request", "part"}, body : Request]

TypeOK ==
    /\ client \in [Clients -> {"out", "in", "left", "closed"}]
    /\ descriptor \in [Clients -> Sockets \cup {0}]
    /\ buffers \in [QueryWorkers -> [Sockets -> Clients \cup {0}]]
    /\ closing \in [QueryWorkers -> Clients \cup {0}]
    /\ input \in [QueryWorkers -> Seq(Arrival)]
    /\ queue \in [StorageWorkers -> SUBSET [at : Nat, msg : Job]]
    /\ posted \in [StorageWorkers -> Nat]
    /\ job \in [StorageWorkers -> SUBSET Job]
    /\ aggregator \in Seq([tag : {"request", "result"}, body : Request])
    /\ context \in StorageWorkers \cup {0}
    /\ storage_dbs_w \in [QueryWorkers -> StorageWorkers \cup {0}]
    /\ storage_dbs \in [QueryWorkers -> StorageWorkers \cup {0}]
    /\ next_worker \in [QueryWorkers -> StorageWorkers]
    /\ requests \in Seq(Request) /\ Len(requests) <= MaxRequests
    /\ executed \in Seq([request : Request, worker : StorageWorkers])
    /\ delivered \subseteq [to : Clients, request : Request] /\ cleared \in BOOLEAN

\* An answer reaches the client that asked and no other, however often its
\* descriptor changed hands meanwhile.  Joins are the exception: their answers are
\* written to whoever has the descriptor in the same query worker by then.
AnswersReachAsker ==
    \A d \in delivered :
        \/ d.to = d.request.client
        \/ /\ d.request.kind = "join"
           /\ client[d.request.client] = "closed" /\ d.to > d.request.client
           /\ descriptor[d.to] = d.request.socket /\ WorkerOf(d.to) = d.request.io

\* A disconnection withdraws reads of the client that left, and of one that had the
\* descriptor before; never a write, never what a later client asked.
WithdrawsOnlyDeparted ==
    [][\A w \in StorageWorkers : \A n \in queue[w] :
          \/ n \in queue'[w] \/ n.msg \in job'[w]
          \/ n.msg.body.kind = "read" /\ client[n.msg.body.client] \in {"left", "closed"}]_vars

\* All writes to the collection are executed by one storage worker, whichever query
\* workers they came through, as long as nobody clears the shared context.
OneWriter ==
    ~cleared => \A i, j \in DOMAIN executed : executed[i].worker = executed[j].worker

\* The writes of a client are executed in the order it sent them, even if the
\* shared context is cleared between them.
WritesInOrder ==
    \A i, j \in DOMAIN executed :
        i < j /\ executed[i].request.client = executed[j].request.client
            => executed[i].request.id < executed[j].request.id

\* A write that was not executed, or an answer that a client still waits for.
Pending(i) ==
    /\ i \in DOMAIN requests
    /\ \/ /\ requests[i].kind = "write"
          /\ ~\E j \in DOMAIN executed : executed[j].request.id = i
       \/ /\ client[requests[i].client] = "in"
          /\ ~\E d \in delivered : d.request.id = i /\ d.to = requests[i].client

\* A message of the request lies before a worker that may sleep beside it.
BeforeSleeper(i) ==
    \/ \E w \in StorageWorkers : \E n \in queue[w] : n.msg.body.id = i
    \/ \E k \in DOMAIN aggregator : aggregator[k].body.id = i
    \/ \E q \in QueryWorkers : ~HasSockets(q) /\ \E k \in DOMAIN input[q] :
           input[q][k].tag # "connect" /\ input[q][k].body.id = i

\* Every write is executed in the end, also when its client is gone, and a client
\* that stays gets an answer to everything it asked, whoever else comes and goes,
\* unless a worker that waits without a limit sleeps beside a message of the request:
\* nothing else can keep a request, and no request is lost.
RequestsServed == \A i \in 1 .. MaxRequests : <>[](Pending(i) => BeforeSleeper(i))
================================================================================
