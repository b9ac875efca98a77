--------------------------- MODULE MCCollectionStore ---------------------------
(* CollectionStore with workers and queries as model values, for TLC.         *)
EXTENDS CollectionStore, TLC

Symmetry == Permutations(Workers) \cup Permutations(Queries)
================================================================================
