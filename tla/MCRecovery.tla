------------------------------- MODULE MCRecovery -------------------------------
(* Recovery on a small instance: one value is long, the others take one page. *)
EXTENDS Recovery

CONSTANTS long, LongPages

MCPages == [v \in Values |-> IF v = long THEN LongPages ELSE 1]
================================================================================
