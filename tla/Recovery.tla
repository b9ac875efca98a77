------------------------------- MODULE Recovery -------------------------------
(* The server around one collection: it writes, it stops or crashes between   *)
(* any two writes, and it starts again if the check of the journals finds the *)
(* collection as it was logged (Main and Journal::CheckAll of TinDB.con).     *)
EXTENDS BinFile

CONSTANTS
    MaxOps,       \* bound on the operations
    MaxStops      \* bound on the times the server ends

VARIABLES
    status,       \* "up", "down" or "refused"
    ended         \* history: the operation that each stop interrupted, or NoOp

vars == <<fileVars, journalVars, status, ended>>

interrupted == IF ended = << >> THEN NoOp ELSE Last(ended)

\* The process ends, by a signal or a crash.  What is in memory is lost: the flags,
\* the operation under way and the messages between workers.
Stop ==
    /\ status = "up" /\ Len(ended) < MaxStops
    /\ status' = "down"
    /\ ended' = Append(ended, op)
    /\ op' = NoOp
    /\ has_garbage' = [w \in Workers |-> FALSE]
    /\ reopened' = [w \in Workers |-> FALSE]
    /\ drops' = [w \in Workers |-> 0]
    /\ owes' = [w \in Workers |-> FALSE]
    /\ UNCHANGED <<file, head, stored, ops, journalVars>>

\* Whether the object of a record is found as the record has it: after a delete
\* nothing may be read there, otherwise exactly what was logged.
MatchesLog(r) == IF r.flags = DELETE THEN ~IsObject(r.id) ELSE Reads(r.id, r.val)

\* Mutated form: an object that is absent is not looked at.
CheckAll_Absent == Compared # NoRecord /\ IsObject(Compared.id) => MatchesLog(Compared)

CheckAll == Compared # NoRecord => MatchesLog(Compared)

\* An insert into a free block is logged when the block is popped and zeroed, any
\* other operation before its first write.
Logged(o) == o # NoOp /\ ~(o.kind = "insert" /\ o.at \in {"clear", "log"})

\* Nobody waits for the answer of the interrupted operation: it counts as made if
\* the check vouches for it.
Outcome(o) == IF o.kind = "delete" THEN NoValue ELSE o.val

\* An update that shrinks an object has begun to thread the rest of its blocks into
\* the free list, and the object is still linked to them.
Shrinking(o) ==
    /\ o.kind = "update"
    /\ \/ o.at \in {"push", "unlink"}
       \/ o.at \in {"zero", "thread"} /\ file[o.tail].link # o.block

\* The check says nothing of the interrupted operation: it compares a record that
\* is not the last one logged, or the damage is to the links and not to the text.
\* What becomes of such a file is not followed.
Unnoticed(o) == (Logged(o) /\ Compared # newest) \/ Shrinking(o)

RestartPasses ==
    /\ status = "down" /\ CheckAll
    /\ status' = IF Unnoticed(interrupted) THEN "unnoticed" ELSE "up"
    /\ stored' = IF Logged(interrupted)
                 THEN [stored EXCEPT ![interrupted.id] = Outcome(interrupted)] ELSE stored
    /\ OpenJournals
    /\ UNCHANGED <<file, head, has_garbage, reopened, op, drops, owes, ops, ended>>

\* "Database seems to be corrupted".
RestartRefused ==
    /\ status = "down" /\ ~CheckAll
    /\ status' = "refused"
    /\ UNCHANGED <<fileVars, journalVars, ended>>

Running ==
    \/ \E w \in Workers : Reopen(w) \/ JournalStep(w) \/ (ops < MaxOps /\ Request(w))
    \/ WriteStep

Init == FileInit /\ status = "up" /\ ended = << >>

Next ==
    \/ status = "up" /\ Running /\ UNCHANGED <<status, ended>>
    \/ Tick /\ UNCHANGED <<fileVars, status, ended>>
    \/ Stop \/ RestartPasses \/ RestartRefused

Spec == Init /\ [][Next]_vars

--------------------------------------------------------------------------------
(* Properties.                                                                *)

Block_ == [page : Page \cup {Blank}, link : Missing .. MaxBlocks]

TypeOK ==
    /\ journal \in [Workers -> Seq(Record)] /\ since \in [Workers -> 0..MaxTime]
    /\ missing \in [Workers -> BOOLEAN]
    /\ now \in 0..MaxTime /\ newest \in Record \cup {NoRecord}
    /\ file \in Seq(Block_) /\ Len(file) <= MaxBlocks /\ head \in 0..MaxBlocks
    /\ has_garbage \in [Workers -> BOOLEAN] /\ reopened \in [Workers -> BOOLEAN]
    /\ drops \in [Workers -> Nat] /\ owes \in [Workers -> BOOLEAN]
    /\ op.at \in Stages /\ op.block \in 0..MaxBlocks /\ op.next \in 0..MaxBlocks
    /\ stored \in [Ids -> Values \cup {NoValue}]
    /\ status \in {"up", "down", "refused", "unnoticed"}

BlocksOf(b) == ToSet(Chain(b))
FreeBlocks == ToSet(FreeList)
InUse == UNION {BlocksOf(b) : b \in Objects}

\* No block is free and in use, none is part of two objects, and neither an object
\* nor the free list runs in a circle: after every single write, so wherever a
\* crash hits, but for the stages of an update that shrinks an object.
Integrity ==
    ~Shrinking(op) /\ ~Shrinking(interrupted) =>
        /\ IsInjective(FreeList)
        /\ FreeBlocks \cap InUse = {}
        /\ \A a \in Objects :
              /\ IsInjective(Chain(a))
              /\ \A b \in Objects \ {a} : BlocksOf(a) \cap BlocksOf(b) = {}

\* Unless a crash interrupted an operation no block is lost: each is part of an
\* object or free to be used again, whatever two workers believe of the free list.
NoBlockLost ==
    op = NoOp /\ ToSet(ended) \subseteq {NoOp} => FreeBlocks \cup InUse = DOMAIN file

\* Between operations the collection holds the objects the operations have left,
\* each readable where it was stored, and nothing else: also after crashes, if the
\* check let the server start and compared the operation that was interrupted.
ReadsBack ==
    status = "up" /\ op = NoOp =>
        \A b \in Ids :
            IF stored[b] = NoValue THEN ~IsObject(b) ELSE Reads(b, stored[b])

\* A server that was not interrupted starts again, unless the record the check
\* compares is not the last one logged: one of the same second hides it, a worker had
\* not heard of a delete, or a journal was missing and those behind it were not read.
NoFalseAlarm ==
    status = "refused" /\ interrupted = NoOp => Compared # newest
================================================================================
