-------------------------- MODULE BackupCatalogue --------------------------
(***************************************************************************)
(* What the backup subsystem promises an operator, without how it works:   *)
(* a backup is absent until it is begun, partial until it is verified,     *)
(* complete until it is pruned, and only a backup that was superseded by   *)
(* a later complete one is ever pruned.  The module Backup implements it.  *)
(***************************************************************************)
EXTENDS Integers, FiniteSets

CONSTANT Backups    \* backup identifiers

VARIABLES
    status,     \* of each backup
    done        \* the order in which backups finished: 0 or a position

vars == <<status, done>>

Init ==
    /\ status = [b \in Backups |-> "absent"]
    /\ done = [b \in Backups |-> 0]

Begin(b) ==
    /\ status[b] = "absent"
    /\ status' = [status EXCEPT ![b] = "partial"]
    /\ UNCHANGED done

(* A backup finishes at a moment of its own.                               *)
Complete(b) ==
    /\ status[b] = "partial"
    /\ status' = [status EXCEPT ![b] = "complete"]
    /\ done' = [done EXCEPT ![b] = done'[b]]
    /\ done'[b] > 0
    /\ \A c \in Backups \ {b} : done'[b] # done[c]

Superseded(b) == \E c \in Backups : status[c] = "complete" /\ done[c] > done[b]

(* Pruning begins: from here on the backup is not to be relied upon.       *)
Prune(b) ==
    /\ status[b] = "complete"
    /\ Superseded(b)
    /\ status' = [status EXCEPT ![b] = "pruned"]
    /\ UNCHANGED done

Next == \E b \in Backups : Begin(b) \/ Complete(b) \/ Prune(b)

Spec == Init /\ [][Next]_vars
=============================================================================
