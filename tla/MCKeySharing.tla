---------------------------- MODULE MCKeySharing ----------------------------
(* Instances of KeySharing for TLC. *)
EXTENDS KeySharing, TLC

FileSymmetry == Permutations(Files)
=============================================================================
