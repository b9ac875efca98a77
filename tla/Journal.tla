-------------------------------- MODULE Journal --------------------------------
(* The journals in which the storage workers log what they are about to write *)
(* into one collection (class Journal of TinDB.con), and the check that is    *)
(* made of them before the server starts.                                     *)
(*                                                                            *)
(* Every storage worker has a file of its own, "journal0000" and so on.  A    *)
(* record holds the second it was made in, so records made in one second are  *)
(* told apart by their place only.  A crash ends the process between two      *)
(* calls of write(2): the files are unbuffered and keep what was written.     *)
EXTENDS Integers, Sequences, SequencesExt

CONSTANTS
    NumWorkers,       \* storage workers, each with a journal
    Values,           \* what an object can be
    MaxBlocks,        \* bound on the blocks of the collection's file
    MaxTime,          \* bound on the clock, in seconds
    LOG_CLEAN_LIMIT   \* records above which a journal is cleaned

ASSUME JournalAssumption ==
    /\ NumWorkers \in Nat \ {0}
    /\ MaxBlocks \in Nat /\ MaxTime \in Nat /\ LOG_CLEAN_LIMIT \in Nat

Workers == 1 .. NumWorkers
Ids == 1 .. MaxBlocks

VARIABLES
    journal,    \* what each worker's journal holds, oldest first
    since,      \* the time in the header of each journal
    missing,    \* whether a journal was removed and its successor not yet renamed
    now,        \* the clock, in seconds
    newest      \* history: the record that was logged last, by any worker

journalVars == <<journal, since, missing, now, newest>>

INSERT == 1
UPDATE == 2
DELETE == 3

Record == [time : 0..MaxTime, id : Ids, val : Values, flags : {INSERT, UPDATE, DELETE}]
NoRecord == [time |-> -1]

JournalInit ==
    /\ journal = [w \in Workers |-> << >>]
    /\ since = [w \in Workers |-> 0]
    /\ missing = [w \in Workers |-> FALSE]
    /\ now = 0
    /\ newest = NoRecord

Tick ==
    /\ now < MaxTime
    /\ now' = now + 1
    /\ UNCHANGED <<journal, since, missing, newest>>

\* A journal without records is written beside the old one, which is removed.  Until
\* Rename there is no file with the name of the journal.
Replace(w) ==
    /\ journal' = [journal EXCEPT ![w] = << >>]
    /\ since' = [since EXCEPT ![w] = now]
    /\ missing' = [missing EXCEPT ![w] = TRUE]

Rename(w) ==
    /\ missing[w]
    /\ missing' = [missing EXCEPT ![w] = FALSE]
    /\ UNCHANGED <<journal, since, now, newest>>

\* The journals a server opens when it starts: one that is missing is created.
OpenJournals ==
    /\ since' = [w \in Workers |-> IF missing[w] THEN now ELSE since[w]]
    /\ missing' = [w \in Workers |-> FALSE]
    /\ UNCHANGED <<journal, now, newest>>

\* A journal that has grown too long is cleaned right after a record was added,
\* when the last cleaning is LOG_CLEAN_TIMEOUT old (left to choice here).  Clean
\* means to keep the records of the last seconds; but it reads them from a file
\* opened for appending, "ab", where every read fails, so it keeps none: not even
\* the record just added, of a write that is yet to be made.
Clean(w) ==
    /\ Len(journal[w]) + 1 > LOG_CLEAN_LIMIT
    /\ Replace(w)

\* Journal.Log, called by BinFile before it writes.
Log(w, id, val, flags) ==
    LET record == [time |-> now, id |-> id, val |-> val, flags |-> flags]
    IN /\ newest' = record
       /\ \/ journal' = [journal EXCEPT ![w] = Append(@, record)] /\ UNCHANGED <<since, missing>>
          \/ Clean(w)
       /\ UNCHANGED now

\* Records survive only if they are of another collection and of another offset:
\* of one collection none does, whichever object was deleted.
DeleteOps(w) ==
    /\ Replace(w)
    /\ UNCHANGED <<now, newest>>

--------------------------------------------------------------------------------
(* The check at start.                                                        *)

\* Of the records seen so far the check keeps one with the latest time: the first
\* of them, because a record of the same second does not replace it.
Later(found, record) == IF found.time < record.time THEN record ELSE found

\* Journal::Check on one journal, after those before it.
Check(found, records, start) ==
    FoldLeft(Later, found, SelectSeq(records, LAMBDA r : r.time >= start))

\* The journals are read in the order of their numbers, up to the first that is
\* not there.
JournalsRead(absent) == {w \in Workers : \A v \in 1 .. w : ~absent[v]}

\* The record that is kept of the collection.
Kept(records, start, absent) ==
    FoldLeft(LAMBDA found, w : Check(found, records[w], start[w]), NoRecord,
             [w \in 1 .. Cardinality(JournalsRead(absent)) |-> w])

\* The one record CheckAll compares with the collection.
Compared == Kept(journal, since, missing)
================================================================================
