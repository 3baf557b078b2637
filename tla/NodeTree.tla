------------------------------ MODULE NodeTree ------------------------------
(***************************************************************************)
(* The nodes table as the repository queries it (SqlNodeRepository).  A    *)
(* table t maps the id of every existing row to its record; parent is the  *)
(* only link, there is no stored path.  Walks up and down the tree are the *)
(* recursive queries of the repository, written without recursion: the     *)
(* chain of n is the least set that holds n and the parent of each member, *)
(* its subtree the least that holds n and every child of a member.         *)
(***************************************************************************)
EXTENDS Integers, FiniteSets, FiniteSetsExt

(* deleted_at IS NULL, as a stamp no deletion carries.                     *)
Never == 0

Live(t, n) == n \in DOMAIN t /\ t[n].deletedAt = Never

Trashed(t, n) == n \in DOMAIN t /\ t[n].deletedAt # Never

Children(t, n) == {m \in DOMAIN t : t[m].parent = n}

LiveChildren(t, n) == {m \in Children(t, n) : Live(t, m)}

(* S holds the parent of every row it holds.                               *)
UpClosed(t, S) == \A m \in S : t[m].parent \in DOMAIN t => t[m].parent \in S

(* n and everything above it.                                              *)
Chain(t, n) ==
    LET holding == {S \in SUBSET DOMAIN t : n \in S /\ UpClosed(t, S)}
    IN  {m \in DOMAIN t : \A S \in holding : m \in S}

ancestors(t, n) == Chain(t, n) \ {n}

is_ancestor_of(t, candidate, n) == candidate \in Chain(t, n)

(* S holds every row whose parent it holds.                                *)
DownClosed(t, S) == \A m \in DOMAIN t : t[m].parent \in S => m \in S

(* descendants(n, include_deleted) together with n itself.                 *)
Subtree(t, n) ==
    LET holding == {S \in SUBSET DOMAIN t : n \in S /\ DownClosed(t, S)}
    IN  {m \in DOMAIN t : \A S \in holding : m \in S}

(* get_child_by_name: a live child with that normalised name.              *)
get_child_by_name(t, p, name) == {m \in LiveChildren(t, p) : t[m].name = name}

(* soft_delete_subtree: the live rows of the subtree get one stamp, a row  *)
(* already in the trash keeps its own.  The variant stamps one row only.   *)
MovingAlone(t, n) == {n}

Moving(t, n) == {m \in Subtree(t, n) : Live(t, m)}

soft_delete_subtree(t, n, stamp) ==
    [m \in DOMAIN t |->
        IF m \in Moving(t, n) THEN [t[m] EXCEPT !.deletedAt = stamp] ELSE t[m]]

(* restore_subtree: the rows that carry the stamp of n, and no others.     *)
(* The variant lifts whatever it finds in the trash beneath n.             *)
AllTrashedBelow(t, n) == {m \in Subtree(t, n) : Trashed(t, m)}

Batch(t, n) == {m \in Subtree(t, n) : t[m].deletedAt = t[n].deletedAt}

restore_subtree(t, n) ==
    [m \in DOMAIN t |->
        IF m \in Batch(t, n) THEN [t[m] EXCEPT !.deletedAt = Never] ELSE t[m]]

(* _trash_entry_conditions: one entry per deletion, the topmost row.       *)
TrashEntries(t, u) ==
    {m \in DOMAIN t : /\ Trashed(t, m)
                      /\ t[m].owner = u
                      /\ Live(t, t[m].parent)}

(* delete_permanently: the row, and through ON DELETE CASCADE every row    *)
(* beneath it.                                                             *)
WithoutRows(t, gone) == [m \in DOMAIN t \ gone |-> t[m]]
=============================================================================
