---------------------------- MODULE MCWorkerQueue ----------------------------
(* WorkerQueue on a small instance: two keys, short batches, four messages.   *)
EXTENDS WorkerQueue

\* Client 7's socket, and the key 0 of messages that cannot be withdrawn.
MCKeys == {0, 7}
MCLimits == {0, 2}
==============================================================================
