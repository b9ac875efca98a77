# TinDB and its worker threads in TLA+

The Concept Application Server is a virtual machine for the Concept language, a
set of native modules, and programs written in the language. The program with a
concurrent core of its own is the document database TinDB
(`src/core/server/TinDB.con` with `src/core/server/Include/*.con`). It runs as
worker threads that share nothing but message queues and one context of keys and
values; both are in the native module `src/modules/standard.lib.thread`. This
directory models the queues, the storage workers, one collection as several
workers share it, its data file and the journals with crashes and restarts, the
connections of clients with the dispatch of what they ask, and the ring that joins
several servers. "main.cpp" below is the source file of `standard.lib.thread`.

## The system

### Components, their state and how they interact

| Component | State | Operations | What is hard about it |
|---|---|---|---|
| Worker input queue (main.cpp 86-767, 1272-1612, 1887-1942; `Include/Worker.con`) | a linked list with priorities, a condition variable with a flag, an optional eventfd | post one or several, urgent or not; take one or many, waiting or not; withdraw by key | posting races with falling asleep; two priorities, batches and withdrawals must lose and duplicate nothing |
| Shared context (main.cpp 1640-1800; `Worker::Set`, `Get`, ...) | a map guarded by a lock | set, get, remove, clear, refill | `GetKey` hands out a pointer and gives the lock back before the bytes are copied |
| Storage worker, the loop (TinDB.con 3560-3730) | the batch in hand, the count of unflushed writes | take a batch, execute, flush, sleep | jobs disappear from the batch's queue while it is executed; a flush must not be forgotten |
| Storage worker, the jobs (TinDB.con 2532-3560) | open collections, query cache in the shared context, triggers | Q, I, U, D, S, X, Y, ... | several workers on one collection; a trigger that fails half way; scripts that query inside a job |
| Collection file and its lock (`BinFile.con`, rwlock of main.cpp) | the file, a read-write lock per collection, a flag for nesting | lock, unlock, store, delete | nesting is a flag and not a count; the error paths must give the lock back |
| Data file (BinFile.con 1800-2200, 2520-2600, 2860-3020) | blocks of a page with a link to the next, chains of them, a list of free blocks | insert, update, delete, each several writes | the process ends between two writes; what a worker remembers of the free list is stale |
| Query workers (TinDB.con 1000-1800) | a connection table keyed by descriptor, which storage worker writes which collection | accept, read frames, dispatch, reply, ping, disconnect | descriptors are used again while replies for the old client are under way |
| JavaScript query worker, query aggregator (TinDB.con 3740-4000) | running scripts; partial results | dispatch without a client; joins | an answer takes several hops, and is sent without the key of its connection |
| Journals (TinDB.con 300-780) | one append-only file per storage worker, two for the ring | log, read, clean, delete the records of an object, reset; the check at start | a crash between the log and the write, or while a journal is rewritten; records of one second |
| Ring (`QuerySyncWorker`, TinDB.con 4009-4700) | frames to send, frames received, updates not confirmed, two journals, one outgoing connection | notify, sync, dispatch, write, confirm, restart | lost answers, repeated frames, crashes, nodes that wait for each other, updates that cross |
| Startup (TinDB.con 4720-4850) | the workers and their peers | create workers, tell each its peers | a worker runs before it has been told its peers |
| Generators, object identifiers (`TinBase.con`, `TinDBOid.con`) | a counter file; seconds and a 16-bit counter | next value | creation without a lock; the counter wraps |
| Data structures (`BTree.con`, `BM25.con`, `InvertedIndex.con`, `BinFile.con`) | pages of files | insert, remove, search | sequential algorithms |

A query arrives at a query worker, which posts it to a storage worker with the
client's descriptor as its key (a write with key 0), so that a disconnection can
withdraw the reads. The storage worker takes the collection's lock, executes, and
keeps or drops cached results in the shared context; its reply goes to the socket,
or back to the query worker. A write is also posted to the sync worker, which
sends it round the ring; there the sync worker of each node posts it to a query
worker, whose storage worker executes it, answers the sync worker (the
confirmation), and posts it to the sync worker again, to be sent on.

The virtual machine, the compiler, the application server that forks sessions,
the other native modules, the clients and the framework classes are listed in
`PROJECT.json` and are not modelled: they keep little shared state of their own,
or are single-threaded libraries, or are beyond a model of this size.

### What makes each component correct

* Queue: every message posted is queued, taken or withdrawn, once; normal
  messages keep their order and urgent ones go first; a post wakes a sleeping
  worker; what is posted is taken in the end.
* Storage loop: jobs are executed in the order they were posted, no write is
  withdrawn with its client, and what stays unflushed while the worker rests is
  little, and only behind jobs that were withdrawn from it.
* Collection: a worker that changes the data is alone; the cache never holds what
  an acknowledged write has replaced; the cache stays near its limit; nobody waits
  for ever.
* Ring: what a node acknowledges it executes; what a node takes on to send reaches
  the next node, in order; every update reaches every node and is confirmed there;
  the sync workers come to rest; an older update does not overwrite a later one.
* Connections: an answer reaches the client that asked, or nobody; a disconnection
  touches only what belonged to the client that left; writes keep their order and
  go to one worker; a request is served unless it waits for a sleeping worker.
* Data file: no block is free and in use, none is part of two objects, none is lost.
* Journals: a server starts after a stop that interrupted nothing, and what the
  check at start vouches for reads back as it was logged.

## The modules

| Module | Models | Composes |
|---|---|---|
| `Mailbox` | what a worker's queue promises: messages posted, delivered in order with the urgent first, withdrawn | |
| `WorkerQueue` | the queue of main.cpp with its lock, its condition variable and its eventfd | implements `Mailbox` |
| `StorageLoop` | `StorageWorker.Iteration` and `Flush` | extends `WorkerQueue`: its queue is that queue |
| `CollectionStore` | one collection: lock, jobs, cache, triggers, hits of query workers | |
| `Ring` | `QuerySyncWorker` on every node, and the part of the storage workers that executes and forwards | |
| `Journal` | class `Journal`, for the journals of the storage workers and one collection | |
| `BinFile` | the writes to the data file of one collection, in their order | extends `Journal`: a write is logged before it is made |
| `Recovery` | the server ends and starts again | extends `BinFile` |
| `Connections` | accept loop, query workers, storage workers, aggregator, clients | |
| `MCWorkerQueue`, `MCStorageLoop`, `MCCollectionStore`, `MCRing`, `MCRecovery`, `MCConnections` | instances for TLC | |
| `WorkerQueue_proofs`, `StorageLoop_proofs`, `CollectionStore_proofs`, `Connections_proofs` | the theorems about these modules | |
| `Ring_proofs` | the theorems about one link of the ring | |
| `Members_proofs` | lemmas about sequences and their members, which the next two use | |
| `RingState_proofs` | the theorems about the whole ring | extends `Ring_proofs` |
| `Recovery_proofs` | the theorems about the data file, the journals and the restarts | |

### WorkerQueue

`input_data` is the list as a set of nodes with ranks: `push` gives the highest
rank so far, `push_front` the lowest. The critical section of `GetInput` and
`GetInputAll` is one action (`Take` when something is there, `FoundEmpty` when not);
what follows is not, because the code gives `input_lock` back before it waits:
`FoundEmpty` sets the flag `input_cond_wait` and leaves the worker in "unlocked",
`Wait` blocks it, `Timeout` and `SpuriousWakeup` wake it, and `Retry` looks once
more. `AddInput` signals only a blocked worker. The count of the eventfd is kept
apart from the length of the list, as in the code.

### StorageLoop

The worker takes a batch with `PendingAll` and executes its jobs one by one.
`Execute` covers reads, writes that count towards the next flush, and deletes,
which flush at once; more than `BUSY_FSYNC_LIMIT` unflushed writes flush as well. A
job counts every record it writes, an insert of many or an update of all that match
(`WriteJob`; `MaxCount` is the bound for TLC, and the theorems hold for any), and
the limit is looked at only after it. `behind` remembers which jobs the batch in
hand left in the queue; it is a history variable for `IdleIsFlushed`. The time
since the last fsync is abstracted to a choice at each job. `EndOfBatch` is the
flush after a batch, which the code makes only when the batch was the whole queue.
`RemoveFromQueue` is a disconnection: it withdraws a client's reads.

### CollectionStore

One collection with its read-write lock (`writer`, `readers`), BinFile's flag
`locked`, the data as a version number, and the query cache as a map from queries
to the version they were computed from. A query locks for reading, computes,
caches (or clears the cache and caches again when there are too many entries),
unlocks and answers. A write locks, stores, invalidates the cache, unlocks and
acknowledges. The error paths are actions: an insert whose trigger fails leaves
the lock taken and the cache as it was; an update whose trigger fails goes on; a
write that changes nothing may invalidate all the same, for `R.id` starts as -1.
A query worker reads the cache without the lock: `HitLookup` finds the entry,
`HitCopy` copies it, and in between it may be freed: then the bytes it copies are
`Garbage` or what they were. `ClearContext` is `INFO clear`. `ReduceSpec` adds the
query that a reduce script makes of its own collection.

### Ring

Every node runs the loop of `QuerySyncWorker`: `TakeBatch` takes the input queue,
confirms, and makes one frame of what is to be sent (a Bulk when there is more
than one update); `SendFrame`, `FrameAcknowledged`, `SendFails` and
`AnswerTimesOut` are `Sync`, which stops for an answer after each frame;
`WriteSync` posts what was received to the query workers in turn. `Dispatch` reads
a frame, answers, logs and keeps it; it is enabled at the top of the loop and while
the node waits for an answer itself, which is when the code polls its sockets.
A frame of a connection its sender has given up may still be read or may be lost.
`ExecuteUpdate` is the storage worker: it compares versions, writes, forwards and
replies. `Crash` restarts a node with what its two journals hold. `Dispatch` answers
before it logs, so that a node may die between the two: `CrashAnswered` is that
crash, which `DiesAnswering` admits. `made`, `logged`, `acked` and `done` are history
variables for the properties. The code compiles the
ring in with `TIN_CLUSTER`.

Frames of the journals stand for themselves: the sync journal holds the frames of
`notSynced`, compressed under both flags, and is read back correctly; the local
journal is kept as its own list, because the code logs frames compressed and
confirmations uncompressed, so that its records never cancel each other.

### Journal, BinFile, Recovery

`journal` holds the records of each storage worker, oldest first; a record has the
second it was made in, so two records of one second differ by their place only.
`Log` appends, and may find the journal due to be cleaned. `Clean` and `DeleteOps`
both come down to `Replace` (a new journal with nothing of this collection is written
and the old one is removed) and `Rename`; between them the journal is `missing`.
`Compared` is what `CheckAll` makes of all journals: it reads them by number up to
the first that is missing, and keeps the first record of the latest second.

`file` is the sequence of blocks behind the header and `head` the first free block.
An operation under way is the record `op`, with the next write it will make; there is
at most one because it holds the write lock. One action is one `write(2)` of
`WriteBlock`, `_DeleteChain`, `PushGarbage` or `PopGarbage`, in the order of the code,
or a branch between two of them (`NextPage`, `FreeRest`). `has_garbage` is what each
worker's `BinFile` object remembers of the free list from `Reopen`, before it holds
the lock. A delete owes its worker a `DeleteOps` on its own journal, and the other
workers the message -102 (`drops`), both after the lock was given back.

`Recovery` adds `Stop`, which may come between any two writes and forgets what is in
memory, and the check: the server starts again (`RestartPasses`, which also creates
journals that are missing) or is refused. Where the damage a crash did is not of the
kind the check looks for, the model stops in status "unnoticed" and says nothing
about what such a server does.

### Connections

Clients are numbered as they are accepted, and the number stands for the random key
of their connection. `Accept` gives the lowest descriptor that is not open, as the
system does, and posts it to the query workers in turn; `buffers` is the table of a
query worker. A disconnection is `ReadFails` (the reads of the descriptor are
withdrawn from the queues of the storage workers) and then `CloseSocket`, in the
order of `RemoveSocket2`. `Dispatch` sends a write to the writer of the collection
(`Writer`: what this query worker remembers, or what the shared context says, or
its own suggestion, which then is the writer of all), a read to a storage worker of
this query worker's choice, a join to the aggregator. The aggregator posts the query
it needs to some query worker (`DispatchPart`) and its result back to the one that
owns the client (`Postback`). `Reply` compares the key of the connection;
`Postback` has none to compare. The queue of a storage worker is a set of nodes with
places, as in `WorkerQueue`, because messages are withdrawn from its middle. That it
keeps its order and loses nothing is what `WorkerQueue` is shown to promise. That a
message is taken in the end is not: `WorkerQueue` shows it for timed waits only, and
the storage workers, the aggregator and a query worker without sockets wait without a
limit. So nothing is assumed about when these take their messages, and
`RequestsServed` excepts a request that lies before one of them (`BeforeSleeper`).

## The runs

| Run | Bounds | Shows |
|---|---|---|
| `worker_queue` | 3 messages, 2 keys, posts of up to 2, limited and unlimited takes, no wait or a timed one | nothing lost or duplicated, order, priority, the wake-up of a blocked worker, refinement of `Mailbox`; every message not withdrawn is taken in the end |
| `lost_wakeup` (violation) | the same with waits without a timeout | a message posted between the look at the queue and the wait is slept through |
| `storage_loop` | 4 jobs, batches of 2, jobs that count up to 2 writes, a limit of 1 | order across batches and withdrawals, writes survive; a worker looks for more work with no more unflushed writes than the limit, and only if its last batch left jobs in the queue, each of which still waits or was withdrawn since the batch was taken |
| `collection_store` | 2 storage workers, 1 query worker, 3 queries, 2 writes, cache limit 0 | exclusion, freshness of cache and answers, the size of the cache |
| `collection_liveness` | 2 storage workers, 1 query, 2 writes, no failing trigger | nobody is kept out for ever by workers with nothing to do |
| `reduce_unlocks` (violation) | 2 storage workers, 1 write | a nested query gives the write lock back |
| `ring` | 3 nodes, 2 of them writing, 2 updates, 2 query workers each | every update reaches every node and is confirmed; the sync workers come to rest |
| `ring_failures` | 2 nodes, 2 updates, 1 broken connection, 1 crash, which may hit between an answer and its record | nothing is dropped between two nodes, in order, across failures; the sync workers come to rest |
| `ring_versions` (violation) | 2 nodes, one update each, one second apart | the older update overwrites the later one |
| `ring_restart` (violation) | 2 nodes, 1 update, 1 crash, none between an answer and its record | an acknowledged update is gone after a restart |
| `recovery` | 2 storage workers, 4 blocks, 4 operations on values of 1 and of 3 pages, 2 stops, 2 seconds, journals cleaned beyond 3 records | the chains and the free list stay apart after every single write; no block is lost without a crash; between operations every object reads back, also after crashes the check noticed nothing wrong with; a stop that interrupted nothing is refused only when the record of the last write is hidden |
| `connections` | 3 clients, 2 descriptors, 2 query workers, 2 storage workers, 2 requests | answers reach who asked, joins excepted; disconnections spare everybody else; one writer; the order of a client's writes; what is asked is served unless a worker sleeps beside it |

Why these bounds are enough to be interesting. Three messages let an urgent one
overtake a normal one while a third is withdrawn or posted into the gap before the
wait; the proofs remove the bound. Four jobs make two batches with a withdrawal
between them. With a cache limit of 0 every query of the collection runs into the
limit, and three queries with two workers reach the sizes the limit is about; two
versions are enough for an entry to be behind. In the ring three nodes give an
update two hops and a way back, and two writers let updates cross and share a
Bulk; failures concern one link at a time, so two nodes suffice for them. There a
frame can be received twice, a stale one can be read after its repetition was sent,
both nodes can wait for each other's answer, and a crash can hit between any two steps
and between an answer and its record.
Repetition over more than one hop is not covered by a run. In the data file three
pages make an object that shrinks and grows by more than one block, four blocks make
the free list as long as an object, and two workers make each other's memory of it
stale; two seconds tell records of one second from later ones; two stops let damage
of the first meet the second. Among connections three clients on two descriptors
make a descriptor change hands while its reads, its answers and a connection still
announced are under way, in one query worker and across two; the proofs remove these
bounds for everything but `RequestsServed`.

The runs of `StorageLoop`, `CollectionStore` and `WorkerQueue` check for deadlock.
Those of `Ring`, `Recovery` and `Connections` do not: the clients ask for a bounded
number of things and the server may be refused its start, after which nothing is left
to do. `RingComesToRest` and `RequestsServed` say that they rest before only where a
worker that waits without a limit has a message it was not woken for.

## Fairness

* `WorkerQueue`: weak fairness of the worker's own steps and of the timeout of its
  wait: the thread is scheduled and `pthread_cond_timedwait` returns.
* `CollectionStore`: weak fairness of every worker's next step in a job. Nothing is
  assumed about a lock that is free again and again without being obtained, because
  the pthread lock prefers readers.
* `Ring`: weak fairness of each sync worker's loop and of the reading of a frame that
  has arrived. The sync worker waits a second at most, for its queue or its sockets,
  and its poll hands out every socket that can be read. `AnswerTimesOut` is part of
  the loop: an answer that cannot come makes `SocketReadTimeout` return. Nothing is
  assumed of `ExecuteUpdate`: a storage worker waits with -1 (TinDB.con:3689), as does
  a query worker without sockets, and the run `lost_wakeup` shows that such a wait can
  sleep beside a message. `RingComesToRest` is therefore about the sync workers: they
  may stop with a confirmation missing, but only of an update that a query or storage
  worker has not taken. Client updates, the clock, failures and crashes are not
  assumed to happen.
* `Connections`: weak fairness of the iteration of each query worker that has sockets,
  because it waits for them no longer than a second, and of the job a storage worker
  has taken. Nothing is assumed of a query worker without sockets, of what a storage
  worker takes, or of the aggregator, which wait with -1 (TinDB.con:1694, 3689, 3994).
  Clients connect, ask and hang up as they like, and a hang-up need not be noticed.
* `Recovery` has no liveness property and no fairness: the server may stop anywhere.

## The proofs

All theorems are proved by TLAPS for every value of the constants that satisfies
the named assumptions, which TLC evaluates in the runs.

`WorkerQueue_proofs`. The inductive invariant `QueueInv` adds to the types and to
`Conservation` three facts: `Placed` (urgent nodes lie before normal ones, each
kind by the number of its post), `Numbered` (numbers are unique and below the
next), and `WaiterVisible` (a worker between its look and its wake-up has the flag
up). `Conservation` needs the numbers and `PostedOrder` the places, because what a
take leaves behind has to be younger than what it takes. The refinement of
`Mailbox` shows that each step is one of its steps or a stutter; `BatchPrecedes` is
the lemma that a prefix of the list may be delivered.

`StorageLoop_proofs`. `StorageUsesQueue` shows that the storage worker's behaviour
is a behaviour of its queue, so the queue's invariant is used as it is.
`StorageInv` adds that the batch in hand is what was taken last, that the number of
unflushed writes is within the limit whenever the loop has looked at it, and that the
jobs the batch left behind wait or were withdrawn as long as the worker has not taken
another one. The last is what makes `IdleIsFlushed` speak of withdrawals since the batch
was taken. It cannot speak of withdrawals since the last job was executed: jobs that
are withdrawn while the batch is executed leave the writes unflushed as well.

`CollectionStore_proofs`. `LockInv` says who owns the lock at each stage of a job,
including a worker that kept it after a failed trigger, and gives exclusion. For
freshness the invariant follows the data: `AckedInv` (acknowledged writes are in
the file), `KnownInv` (what a worker computed under its read lock is current),
`CachedInv` (a cached value includes the acknowledged writes) and `PointerInv` (so
does what a query worker copies, unless it was freed). The last needs the floor
each query is given when it is asked. `CacheBounded` is not inductive either: a
worker that has emptied the map will add an entry without looking. `SizeInv` counts
the workers at that stage with the entries there are. It counts results: a lookup of
what is not cached leaves an empty entry (`HitLookup`), and of these there may be as
many as there are queries.

`Ring_proofs`. `RingInv` is about one link, for a ring of any size: of the current
connection at most one frame is on its way, only while its answer is awaited and
none has come, and it is the head of `notSynced` (`OneInFlight`); an answer on its
way back means that the next node has that head (`AnswerMeansReceived`). Without the
connection number in the frames this is not inductive: an old frame read after the
connection was replaced would look like the head. `SentUntilReceived` alone says
nothing about what an answer is worth, which is what lets the head be forgotten. A
step changes at most two links, a node's own and its predecessor's; `LinkStays`,
`LinkDropped`, `LinkEmptied` and `WireShorter` are the ways a link can change
without losing anything, and `Neighbours` is the arithmetic of the ring.

`Connections_proofs`. `SocketInv` is about descriptors: of two clients that were
given the same one the first is closed (`LaterOwner`), what a query worker knows of a
descriptor is true (`KnownOpen`), a connection is announced once, to its own worker,
which does not know it yet (`ArrivalInv`), and a worker closes the socket of a client
of its own that has left (`ClosingInv`). `ArrivalInv` is needed because an
announcement waits in a queue while descriptors are closed and given away. With it
`AnswerInv` follows requests and answers through every queue: each names the
descriptor and the query worker of the client that asked (`HonestJobs`,
`HonestInput`, `HonestAggregator`), hence the answers delivered went home
(`HonestAnswers`). For the writes `WriteInv` says that everybody who remembers a
writer remembers the one the shared context has, until that is cleared (`WriterInv`);
that the writes of a query worker lie with the worker it remembers, also after that
(`HomeInv`); and that executed, in hand and queued writes of a client are in the
order of their numbers (`LineInv`, over the places of `PlaceInv`).

`Members_proofs`. The ring picks queries out of queues and frames with `FlattenSeq`
(`Kept` does with it what the code's filtering loops do), so the proofs need to know
which elements it leaves in. It is a recursive function, and the library's induction theorems take an operator as their parameter,
which the provers cannot instantiate. What is used instead is `LeastNatural`, which
follows from the library's `WFMin`: if a statement about the first n elements were false
for some n there would be a least one, and the step from n - 1 contradicts it. The
chains of blocks in `Recovery_proofs` (`WalkStep`, `WalkIsPath`) are dealt with in the
same way.

`RingState_proofs`, for a ring of any size, any number of clients' updates, query
workers, broken connections and crashes. `RingTypes` is stronger than `TypeOK`: every
queue, frame and journal holds queries of updates that were made, under the name of
the node that made them (`Known`), and a query worker holds none of its own node's
(`Foreign`), or else `made` could not be applied to what arrives. `LinkKeepsOrder` is
about the receiver alone and is not inductive; `OrderInv` follows a node's own updates
over the whole link: those in the input queue are later than those logged
(`QueuedLater`), those of a frame are earlier than those of the frames behind it
(`FramesInOrder`), only what was logged is sent and only what was sent is received
(`LoggedFirst`), and a frame on the wire is the head of `notSynced` or was received
before (`HeadOrReceived`). The last is what a repeated frame would break.
`ConfirmInv` says where each awaited confirmation is. `NothingLost` speaks of a path
round the ring, and its invariant `HandOverInv` of one node and the next: what a node
has executed waits to be sent or its successor has acknowledged it (`DoneIsHandedOn`),
what it has acknowledged it has executed or its query workers hold it
(`AckedNotLost`), and what a client asked for was executed where it asked
(`MadeIsDone`). Walking from the node of origin to the first one that has not executed
an update (`LeastNatural` again) finds where it waits. `NothingPacked` and `crashes = 0`
belong to this: a node that restarts drops what it reads back from its local journal
(the run `ring_restart` shows it), so neither statement is true of a ring with a crash.
`NothingLost` says so itself; `RingKeepsAcked` has it as its hypothesis. The order, the
confirmations and the types hold with crashes. `StoreNotAhead` is why no
node takes an update for an older one and keeps it from the next: `MakeSafe` gives it
the present time.

`Recovery_proofs`, for any number of workers, blocks, operations and crashes.
`Integrity` and `ReadsBack` speak of what a reader finds who follows links, which says
nothing of the blocks an operation has cut off and not yet freed, or has taken and not
yet linked. The invariant `LayoutInv` instead says that there is a layout: a list of
blocks for the free list, one for each object and one (`REST`) for what an operation has
yet to free; no block is in two places (`Apart`), each list follows the links
(`Linked`) and ends where the stage of the operation says (`Ends`), each object starts at
its own block (`Heads`), and holds the text that was stored (`Contents`); a block that is
between two lists is in none (`Transit`), and unless a crash interrupted an operation every
block is somewhere (`Covers`). Each write of the code moves one block from one list to
another, or none; there is one lemma for each (`LayoutZero`, `LayoutThread`,
`LayoutLinkPopped`, `LayoutUnlink`, ...), and `WriteKeepsLayout` puts them together.
`ChainIsPath` connects a list with what a reader computes. The lists are quantified in
the invariant, and are not part of the model: they are determined by the file only while
nothing is under way.

The stages of an update that shrinks an object are where `Integrity` says nothing
(`Shrinking`): the last block that stays is linked to blocks that are being freed, so a
reader runs from the object into the free list. `Settle` shows that at every other stage
a reader finds the lists of the layout, or those with `REST` put back behind the object
it was cut from, and these still share no block. A crash makes a layout of an operation
one of a file at rest: `RestartKeepsLayout` shows it for each kind of operation from what
the check at start has compared. That is why `NewestInv` is needed, which says that the
record logged last is the one of the operation under way or true of the collection. If
the check compared another record and lets the server start, `stored` may differ from
what the file holds; the model is then in status "unnoticed", the layout is one for some
content (`Left`), and `ReadsBack`, which is about status "up", says nothing. `Refusal`
(a server that is refused fails the check) is what `NoFalseAlarm` adds to `NewestInv`.

TLC cannot evaluate `LayoutInv`, which quantifies over all assignments of lists. The run
`recovery` checks its consequences, the five invariants.

Assumptions of the theorems: the named ones of each module (`JournalAssumption`,
`BinFileAssumption` and so on: positive sizes, values with at least one page, distinct
names), and the hypotheses a statement shows.

Only model-checked: the liveness properties, because fairness and ENABLED are beyond
this prover (`EveryPostTaken`, `WorkersMoveOn`, `RequestsServed`, `RingComesToRest`).
Every other property of a passing run is stated by a theorem.

## Findings

* A worker that waits without a timeout can sleep beside a message
  (`lost_wakeup`): the flag says that somebody is blocked before anybody is.
* A reduce script that queries its own collection releases the lock of the job it
  is part of (`reduce_unlocks`): the check that should refuse it tests a flag that
  only triggers raise.
* On the ring an older update overwrites a later one (`ring_versions`): the version
  `CheckVersion` looks at is left out by `FullObjectCache` and reset by `MakeSafe`.
* After a restart a node drops updates it had acknowledged (`ring_restart`): the
  local journal is read back without being uncompressed.

## What is not modelled, and why

* In `WorkerQueue`: the results a worker hands back (`AddOutput`, the same list the
  other way round), the removal by a filter.
* In `StorageLoop`: administrative jobs (index, trigger and UDF management), which
  do not touch the queue or the count of writes.
* In `CollectionStore`: index creation, full-text search (which takes no lock), the
  timed cache of user keys, the creation of a file.
* In `Ring`: inserts and deletes, classic (not full-object) updates, the reload of
  `ring.json` (it closes the outgoing connection, as a failure does), the size limit
  of a Bulk, how well an update compresses, and the collapse of identical frames in
  a journal. A second object would add nothing the links tell apart.
* In `Journal`, `BinFile` and `Recovery`: records and pages written in part, and the
  loss of what `write(2)` accepted in a power failure; with them `Truncate`. The
  journals of several collections in one file (`DeleteOps` keeps some records of the
  others), the counter of deleted records, indexes, compression, the creation of a
  file. What a server does with a damaged file that the check let through.
* In `Connections`: authentication, frames that are too large, results served from
  the query cache (`CollectionStore` has them), notifications, idle workers, several
  collections, and the keep-alive pings, which `TIN_PING` compiles out. Two
  connections never have the same random key. How an aggregator computes a join.
* The JavaScript query worker and promises run scripts, whose effects are theirs; the
  creation of the workers at start; generators and object identifiers: next in the
  plan.
* The B-tree, the inverted index and the ranking are sequential algorithms on files
  without an effect on what the models above tell apart.
* Files, sockets and threads below the calls: they fail where the code looks at a
  failure and are otherwise reliable.

## Plan

Done, in the order of importance: the queue and its abstraction; the storage loop
over it; the collection; the ring; connections and dispatch; the data file, the
journals and recovery; the theorems about all of these.

Next:

1. Proofs: that the ring implements an abstract one in which an update is simply
   executed by one node after the other.
2. `Generator`, a small module: the file of a generator is created and opened before
   its lock is taken, so two workers that create it may hand out a value twice.
3. `Startup`: workers run before they are told their peers.
4. The JavaScript query worker on top of `Connections`.
5. Operators for `BTree`, checked against a reference over small inputs.
