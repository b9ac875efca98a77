------------------------------- MODULE MCRing -------------------------------
(***************************************************************************)
(* Instances of Ring for TLC: small rings, few updates, bounded failures.  *)
(***************************************************************************)
EXTENDS Ring

AllNodes == Nodes
FirstNode == {0}
FirstTwo == {0, 1}
=============================================================================
