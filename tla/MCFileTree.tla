----------------------------- MODULE MCFileTree -----------------------------
(* Instances of FileTree for TLC. *)
EXTENDS FileTree, TLC

CONSTANTS alice, bob, rootA, rootB

TwoRoots == alice :> rootA @@ bob :> rootB

TwoQuotas == alice :> 2 @@ bob :> 2

BobOwnsAlice == {<<bob, rootA, "owner">>}

IdSymmetry == Permutations(Ids)
=============================================================================
