----------------------------- MODULE MCGateways -----------------------------
(* An instance of Gateways and Views for TLC. *)
EXTENDS Views, TLC

CONSTANTS alice, rootA

OneRoot == alice :> rootA
OneQuota == alice :> 4

NoShares == {}

IdSymmetry == Permutations(Ids)
=============================================================================
