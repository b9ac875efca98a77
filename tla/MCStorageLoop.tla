---------------------------- MODULE MCStorageLoop ----------------------------
(* StorageLoop on a small instance: writes, one client's reads, batches of two. *)
EXTENDS StorageLoop

MCKeys == {0, 7}
==============================================================================
