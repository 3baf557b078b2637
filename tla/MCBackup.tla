------------------------------ MODULE MCBackup ------------------------------
(* Instances of Backup for TLC. *)
EXTENDS Backup, TLC

Symmetry == Permutations(Processes) \cup Permutations(Backups)
=============================================================================
