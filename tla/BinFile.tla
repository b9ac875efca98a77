-------------------------------- MODULE BinFile --------------------------------
(* The data file of one collection (BinFile.con): blocks of one page and the  *)
(* link to the next block, objects as chains of blocks, and a list of free    *)
(* blocks.  One action is one write to the file or to a journal, in the order *)
(* of the code; the worker that writes owns the write lock of the collection, *)
(* so that at most one operation is under way.                                *)
EXTENDS Journal

CONSTANTS
    Pages,      \* how many pages each value takes
    NoValue     \* no object there

ASSUME BinFileAssumption ==
    /\ Pages \in [Values -> Nat \ {0}]
    /\ NoValue \notin Values

VARIABLES
    file,           \* the blocks behind the header, in the order of the file
    head,           \* the first free block, in the header; 0 for none
    has_garbage,    \* BinFile.has_garbage, of each worker
    reopened,       \* whether a worker has read the header for its next job
    op,             \* the operation that owns the write lock
    drops,          \* per worker: messages -102 not handled yet
    owes,           \* per worker: its own deletes whose DeleteOps is to come
    stored,         \* history: the objects the finished operations have left
    ops             \* history: operations started

fileVars == <<file, head, has_garbage, reopened, op, drops, owes, stored, ops>>

\* Page k of a value.  The first byte tells first pages from continuations; a
\* block of zeros reads as a continuation without text.
Page == UNION {{v} \X (1 .. Pages[v]) : v \in Values}
Blank == <<NoValue, 0>>
Missing == -1                  \* the file ends before the block's link
Block(page, link) == [page |-> page, link |-> link]
EmptyBlock == Block(Blank, 0)

End == Len(file) + 1           \* fseek(hFile, 0, SEEK_END), ftell

\* The blocks read from b on, as far as the links lead.
Chain(b) ==
    LET walk[n \in 0 .. Len(file)] ==
          IF n = 0 THEN <<b>>
          ELSE LET s == walk[n - 1] IN
               IF file[Last(s)].link \in DOMAIN file THEN Append(s, file[Last(s)].link) ELSE s
    IN walk[Len(file)]

FreeList == IF head \in DOMAIN file THEN Chain(head) ELSE << >>

IsObject(b) == b \in DOMAIN file /\ file[b].page[2] = 1
Objects == {b \in DOMAIN file : IsObject(b)}

\* GetOne returns the text of v, apart from zeros behind it.  It throws at a link
\* that leads nowhere, at a link that is missing and at another object's first page.
Reads(b, v) ==
    /\ IsObject(b)
    /\ LET c == Chain(b) IN
       /\ file[Last(c)].link = 0
       /\ Len(c) >= Pages[v]
       /\ \A i \in DOMAIN c : file[c[i]].page = IF i <= Pages[v] THEN <<v, i>> ELSE Blank

--------------------------------------------------------------------------------
NoOp == [kind |-> "none", at |-> "none", worker |-> 0, id |-> 0, val |-> NoValue,
         page |-> 0, tail |-> 0, block |-> 0, next |-> 0]

Stages == {"none", "append", "clear", "log", "fill", "page", "end_block", "linked", "link",
           "zero", "thread", "push", "unlink"}

\* A worker takes the lock for a write after Reopen, and with nothing left to do of
\* its previous job.
MayWrite(w) == op = NoOp /\ reopened[w] /\ ~owes[w] /\ ~missing[w]

\* The operation begins, with block b to write first.
Begin(kind, stage, w, id, v, b) ==
    /\ op' = [kind |-> kind, at |-> stage, worker |-> w, id |-> id, val |-> v,
              page |-> 1, tail |-> 0, block |-> b, next |-> 0]
    /\ reopened' = [reopened EXCEPT ![w] = FALSE]
    /\ ops' = ops + 1
    /\ UNCHANGED <<drops, owes, stored>>

At(kinds, stage) == op.kind \in kinds /\ op.at = stage

\* The operation goes on.
GoTo(stage) == op' = [op EXCEPT !.at = stage]
GoOn == UNCHANGED <<reopened, drops, owes, stored, ops>>

\* The lock is given back and the client answered.
Finish(v) ==
    /\ op' = NoOp
    /\ stored' = [stored EXCEPT ![op.id] = v]
    /\ UNCHANGED <<reopened, drops, ops>>

\* Under the lock for reading, which is given back before the lock for writing is
\* asked for.  The flag is raised, never cleared: it may be stale either way when
\* the worker gets to write.
Reopen(w) ==
    /\ ~reopened[w] /\ op = NoOp /\ ~missing[w]
    /\ reopened' = [reopened EXCEPT ![w] = TRUE]
    /\ has_garbage' = [has_garbage EXCEPT ![w] = @ \/ head # 0]
    /\ UNCHANGED <<file, head, op, drops, owes, stored, ops, journalVars>>

\* Mutated form: the block stays the head of the list.
PopGarbage_Peeks(w) ==
    /\ head # 0
    /\ head' = head
    /\ has_garbage' = [has_garbage EXCEPT ![w] = file[head].link # 0]

\* PopGarbage up to its first write, the new head; ClearPopped is the second.
PopGarbage(w) ==
    /\ head # 0
    /\ head' = file[head].link
    /\ has_garbage' = [has_garbage EXCEPT ![w] = head' # 0]

--------------------------------------------------------------------------------
(* Insert: WriteBlock without an id.                                          *)

\* Mutated form: the place is logged one block too far.
InsertAtEnd_LogsNext(w, v) ==
    /\ MayWrite(w) /\ (~has_garbage[w] \/ Pages[v] > 1)
    /\ Len(file) + Pages[v] < MaxBlocks
    /\ Log(w, End + 1, v, INSERT)
    /\ Begin("insert", "append", w, End, v, 0)
    /\ UNCHANGED <<file, head, has_garbage>>

\* An object of more than NO_FRAGMENTATION_SIZE, that is of more than one page, or
\* any object while no free block is known: the whole chain goes to the end.
InsertAtEnd(w, v) ==
    /\ MayWrite(w) /\ (~has_garbage[w] \/ Pages[v] > 1)
    /\ Len(file) + Pages[v] <= MaxBlocks
    /\ Log(w, End, v, INSERT)
    /\ Begin("insert", "append", w, End, v, 0)
    /\ UNCHANGED <<file, head, has_garbage>>

\* The flag is stale: another worker took the last free block.
InsertWithoutGarbage(w, v) ==
    /\ MayWrite(w) /\ has_garbage[w] /\ Pages[v] = 1 /\ head = 0
    /\ Len(file) < MaxBlocks
    /\ Log(w, End, v, UPDATE)
    /\ Begin("insert", "append", w, End, v, 0)
    /\ UNCHANGED <<file, head, has_garbage>>

\* Mutated form: the last link leads to the next append.
NewChain_Open(v) == [k \in 1 .. Pages[v] |-> Block(<<v, k>>, Len(file) + k + 1)]

NewChain(v) ==
    [k \in 1 .. Pages[v] |-> Block(<<v, k>>, IF k < Pages[v] THEN Len(file) + k + 1 ELSE 0)]

AppendChain ==
    /\ At({"insert"}, "append")
    /\ file' = file \o NewChain(op.val)
    /\ Finish(op.val)
    /\ UNCHANGED <<head, has_garbage, owes, journalVars>>

InsertInGarbage(w, v) ==
    /\ MayWrite(w) /\ has_garbage[w] /\ Pages[v] = 1
    /\ PopGarbage(w)
    /\ Begin("insert", "clear", w, head, v, head)
    /\ UNCHANGED <<file, journalVars>>

\* The popped block is zeroed, and with it its link into the free list.
ClearPopped ==
    /\ op.at = "clear"
    /\ file' = [file EXCEPT ![op.block] = EmptyBlock]
    /\ GoTo(IF op.kind = "insert" THEN "log" ELSE "link") /\ GoOn
    /\ UNCHANGED <<head, has_garbage, journalVars>>

LogPopped ==
    /\ At({"insert"}, "log")
    /\ Log(op.worker, op.id, op.val, UPDATE)
    /\ GoTo("fill") /\ GoOn
    /\ UNCHANGED <<file, head, has_garbage>>

FillPopped ==
    /\ At({"insert"}, "fill")
    /\ file' = [file EXCEPT ![op.block] = Block(<<op.val, 1>>, 0)]
    /\ Finish(op.val)
    /\ UNCHANGED <<head, has_garbage, owes, journalVars>>

--------------------------------------------------------------------------------
(* Update: WriteBlock over the chain an object has.                           *)

\* Only what differs from what GetOne reads is written.
Update(w, id, v) ==
    /\ MayWrite(w)
    /\ \E u \in Values \ {v} : Reads(id, u)
    /\ Len(file) + Pages[v] - Len(Chain(id)) <= MaxBlocks
    /\ Log(w, id, v, UPDATE)
    /\ Begin("update", "page", w, id, v, id)
    /\ UNCHANGED <<file, head, has_garbage>>

\* The page is written and the link behind it is read; nothing is read when the
\* page is the last thing in the file.
WritePage ==
    /\ At({"update"}, "page")
    /\ LET page == <<op.val, op.page>> IN
       IF op.block = End
       THEN /\ file' = Append(file, Block(page, Missing))
            /\ op' = [op EXCEPT !.at = "end_block", !.tail = op.block]
       ELSE /\ file' = [file EXCEPT ![op.block].page = page]
            /\ op' = [op EXCEPT !.at = "linked", !.tail = op.block,
                                !.next = file[op.block].link]
    /\ GoOn
    /\ UNCHANGED <<head, has_garbage, journalVars>>

EndBlock ==
    /\ At({"update"}, "end_block")
    /\ file' = [file EXCEPT ![op.tail].link = 0]
    /\ op' = [op EXCEPT !.at = "linked", !.next = 0] /\ GoOn
    /\ UNCHANGED <<head, has_garbage, journalVars>>

More == op.page < Pages[op.val]

\* More text, and the object has a further block.
NextPage ==
    /\ At({"update"}, "linked") /\ More /\ op.next # 0
    /\ op' = [op EXCEPT !.at = "page", !.page = @ + 1, !.block = op.next] /\ GoOn
    /\ UNCHANGED <<file, head, has_garbage, journalVars>>

\* More text than the object had blocks: a free block is taken for it.
ExtendFromGarbage ==
    /\ At({"update"}, "linked") /\ More /\ op.next = 0
    /\ PopGarbage(op.worker)
    /\ op' = [op EXCEPT !.at = "clear", !.block = head] /\ GoOn
    /\ UNCHANGED <<file, journalVars>>

LinkPopped ==
    /\ At({"update"}, "link")
    /\ file' = [file EXCEPT ![op.tail].link = op.block]
    /\ op' = [op EXCEPT !.at = "page", !.page = @ + 1] /\ GoOn
    /\ UNCHANGED <<head, has_garbage, journalVars>>

\* There is no free block: the link is written to where the next page will be.
ExtendAtEnd ==
    /\ At({"update"}, "linked") /\ More /\ op.next = 0 /\ head = 0
    /\ file' = [file EXCEPT ![op.tail].link = End]
    /\ op' = [op EXCEPT !.at = "page", !.page = @ + 1, !.block = End] /\ GoOn
    /\ UNCHANGED <<head, has_garbage, journalVars>>

\* The text is written and blocks are left over: they are freed, and only then
\* does Unlink cut them off.
FreeRest ==
    /\ At({"update"}, "linked") /\ ~More /\ op.next # 0
    /\ op' = [op EXCEPT !.at = "zero", !.block = op.next] /\ GoOn
    /\ UNCHANGED <<file, head, has_garbage, journalVars>>

Unlink ==
    /\ op.at = "unlink" \/ (At({"update"}, "linked") /\ ~More /\ op.next = 0)
    /\ file' = [file EXCEPT ![op.tail].link = 0]
    /\ Finish(op.val)
    /\ UNCHANGED <<head, has_garbage, owes, journalVars>>

--------------------------------------------------------------------------------
(* Delete, and the freeing of a chain, _DeleteChain.                          *)

Delete(w, id) ==
    /\ MayWrite(w)
    /\ \E v \in Values :
          /\ Reads(id, v)
          /\ Log(w, id, v, DELETE)
          /\ Begin("delete", "zero", w, id, v, id)
    /\ UNCHANGED <<file, head, has_garbage>>

\* The link is read before the block is zeroed.
ZeroBlock ==
    /\ op.at = "zero"
    /\ file' = [file EXCEPT ![op.block] = EmptyBlock]
    /\ op' = [op EXCEPT !.at = "thread", !.next = file[op.block].link] /\ GoOn
    /\ UNCHANGED <<head, has_garbage, journalVars>>

\* Mutated form: the list behind the block is not kept.
ThreadGarbage_Fresh ==
    /\ op.at = "thread"
    /\ file' = [file EXCEPT ![op.block].link = 0]
    /\ GoTo("push") /\ GoOn
    /\ UNCHANGED <<head, has_garbage, journalVars>>

\* PushGarbage: first the block's link, then the head of the list.
ThreadGarbage ==
    /\ op.at = "thread"
    /\ file' = [file EXCEPT ![op.block].link = head]
    /\ GoTo("push") /\ GoOn
    /\ UNCHANGED <<head, has_garbage, journalVars>>

PushGarbage ==
    /\ op.at = "push"
    /\ head' = op.block
    /\ has_garbage' = [has_garbage EXCEPT ![op.worker] = TRUE]

PushAndNext ==
    /\ PushGarbage /\ op.next # 0
    /\ op' = [op EXCEPT !.at = "zero", !.block = op.next] /\ GoOn
    /\ UNCHANGED <<file, journalVars>>

PushLastOfRest ==
    /\ PushGarbage /\ op.next = 0 /\ op.kind = "update"
    /\ GoTo("unlink") /\ GoOn
    /\ UNCHANGED <<file, journalVars>>

\* The delete is done; its worker has yet to clear its journal.
PushLastOfObject ==
    /\ PushGarbage /\ op.next = 0 /\ op.kind = "delete"
    /\ Finish(NoValue)
    /\ owes' = [owes EXCEPT ![op.worker] = TRUE]
    /\ UNCHANGED <<file, journalVars>>

\* DeleteFromJournal, in the same job after the lock was given back; when the new
\* journal has its name the other workers are told with message -102.
DropOwnRecords(w) ==
    /\ owes[w] /\ ~missing[w]
    /\ DeleteOps(w)
    /\ UNCHANGED fileVars

TellOthers(w) ==
    /\ owes[w]
    /\ Rename(w)
    /\ owes' = [owes EXCEPT ![w] = FALSE]
    /\ drops' = [v \in Workers |-> IF v = w THEN drops[v] ELSE drops[v] + 1]
    /\ UNCHANGED <<file, head, has_garbage, reopened, op, stored, ops>>

\* Message -102, handled between two jobs.
DropRecords(w) ==
    /\ drops[w] > 0 /\ op.worker # w /\ ~reopened[w] /\ ~owes[w] /\ ~missing[w]
    /\ DeleteOps(w)
    /\ drops' = [drops EXCEPT ![w] = @ - 1]
    /\ UNCHANGED <<file, head, has_garbage, reopened, op, owes, stored, ops>>

\* The rest of Clean, inside an operation, or of the message -102.
RenameJournal(w) ==
    /\ ~owes[w]
    /\ Rename(w)
    /\ UNCHANGED fileVars

--------------------------------------------------------------------------------
FileInit ==
    /\ JournalInit
    /\ file = << >> /\ head = 0
    /\ has_garbage = [w \in Workers |-> FALSE]
    /\ reopened = [w \in Workers |-> FALSE]
    /\ op = NoOp
    /\ drops = [w \in Workers |-> 0]
    /\ owes = [w \in Workers |-> FALSE]
    /\ stored = [b \in Ids |-> NoValue]
    /\ ops = 0

\* What a worker does when it has a job for the collection.
Request(w) ==
    \/ \E v \in Values : InsertAtEnd(w, v) \/ InsertWithoutGarbage(w, v) \/ InsertInGarbage(w, v)
    \/ \E id \in DOMAIN file : Delete(w, id) \/ \E v \in Values : Update(w, id, v)

\* The next write of the operation under way, whose record is logged and the journal
\* in place.
WriteStep ==
    /\ op # NoOp /\ ~missing[op.worker]
    /\ \/ AppendChain \/ ClearPopped \/ LogPopped \/ FillPopped
       \/ WritePage \/ EndBlock \/ NextPage \/ ExtendFromGarbage \/ LinkPopped \/ ExtendAtEnd
       \/ FreeRest \/ Unlink
       \/ ZeroBlock \/ ThreadGarbage \/ PushAndNext \/ PushLastOfRest \/ PushLastOfObject

JournalStep(w) == DropOwnRecords(w) \/ TellOthers(w) \/ DropRecords(w) \/ RenameJournal(w)
================================================================================
