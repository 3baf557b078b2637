-------------------------- MODULE MCConcurrentTree --------------------------
(* Instances of ConcurrentTree for TLC. *)
EXTENDS ConcurrentTree
=============================================================================
