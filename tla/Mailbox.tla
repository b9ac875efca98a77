-------------------------------- MODULE Mailbox --------------------------------
(******************************************************************************)
(* What a worker's input queue promises, without locks, waits or wake-ups:    *)
(* messages are posted, withdrawn by key, or delivered from the front of one  *)
(* fixed order, in which urgent messages precede normal ones, the latest      *)
(* urgent message comes first and normal messages keep their posting order.   *)
(* WorkerQueue implements this specification.                                 *)
(******************************************************************************)
EXTENDS Integers, FiniteSets

CONSTANT Keys

VARIABLES pending, delivered, withdrawn, count

mailboxVars == <<pending, delivered, withdrawn, count>>

Letter == [id : Nat, key : Keys, urgent : BOOLEAN]

Precedes(m, n) ==
    IF m.urgent THEN n.urgent => m.id > n.id
                ELSE ~n.urgent /\ m.id < n.id

Init ==
    /\ pending = {}
    /\ delivered = {}
    /\ withdrawn = {}
    /\ count = 0

\* Letters posted together are numbered consecutively and share key and urgency.
Post ==
    \E key \in Keys, urgent \in BOOLEAN :
        /\ count' \in Nat /\ count' > count
        /\ pending' = pending \cup
              {[id |-> i, key |-> key, urgent |-> urgent] : i \in count + 1 .. count'}
        /\ UNCHANGED <<delivered, withdrawn>>

\* The delivered letters are removed from the front.
Deliver ==
    /\ pending' \subseteq pending
    /\ \A m \in pending \ pending', n \in pending' : Precedes(m, n)
    /\ delivered' = delivered \cup (pending \ pending')
    /\ UNCHANGED <<withdrawn, count>>

Withdraw ==
    \E key \in Keys :
        /\ pending' = {m \in pending : m.key # key}
        /\ withdrawn' = withdrawn \cup (pending \ pending')
        /\ UNCHANGED <<delivered, count>>

Next == Post \/ Deliver \/ Withdraw

Spec == Init /\ [][Next]_mailboxVars
================================================================================
