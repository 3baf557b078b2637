--------------------------- MODULE ConcurrentTree ---------------------------
(***************************************************************************)
(* Requests of application/nodes.py that run at the same time on the       *)
(* folders of one owner.  Each request is one transaction at READ          *)
(* COMMITTED: it takes the advisory lock its use case asks for, reads what *)
(* is committed and decides, then writes and commits.  The database keeps  *)
(* writers of one row apart until they commit, so the writes of a request  *)
(* land together at its commit, each statement looking at its row again;   *)
(* what was read before stays as it was read.  The unique index on live    *)
(* siblings and the foreign key to the parent are checked then, and a      *)
(* request that fails them is rolled back.                                 *)
(***************************************************************************)
EXTENDS NodeTree

CONSTANTS
    Requests,       \* requests in flight
    Ids,            \* ids of folders other than the root
    Root,           \* the owner's root folder
    NoParent,       \* parent_id IS NULL
    Names,          \* normalised names
    Destinations,   \* folders the moves of this instance may name
    MaxDepth,       \* max_tree_depth
    MaxStart        \* bound: rows beside the root at the start

Nodes == Ids \cup {Root}

ASSUME ConcurrentAssumption ==
    /\ Root \notin Ids
    /\ NoParent \notin Nodes
    /\ Destinations \subseteq Nodes
    /\ MaxDepth \in Nat
    /\ MaxStart \in Nat

VARIABLES
    nodes,      \* the committed nodes table
    tx,         \* what each request has read, and how far it is
    clock       \* the latest stamp handed out by utcnow

vars == <<nodes, tx, clock>>

Row == [parent : Nodes \cup {NoParent}, name : Names \cup {NoParent}, deletedAt : Nat]

(* A request: its use case, the node and folder it names, the name it      *)
(* asks for, the rows it read that it will write, and its stamp.           *)
Tx == [phase : {"idle", "waiting", "locked", "checked", "done"},
       op : {"none", "create_folder", "rename", "move", "delete", "restore", "purge"},
       n : Nodes, d : Nodes \cup {NoParent}, name : Names \cup {NoParent},
       rows : SUBSET Nodes, stamp : Nat]

Idle == [phase |-> "idle", op |-> "none", n |-> Root, d |-> Root,
         name |-> NoParent, rows |-> {}, stamp |-> Never]

(* A finished request has read nothing any more and writes nothing.        *)
Finished(r) == [Idle EXCEPT !.phase = "done", !.op = tx[r].op, !.d = tx[r].d]

-----------------------------------------------------------------------------
(* The constraints of the nodes table.                                     *)

(* The partial unique index on (parent_id, normalized_name).               *)
uq_nodes_parent_name_live(t) ==
    \A m, n \in DOMAIN t :
        m # n /\ Live(t, m) /\ Live(t, n) /\ t[m].parent = t[n].parent
            => t[m].name # t[n].name

(* The foreign key of parent_id.                                           *)
ParentsExist(t) == \A n \in DOMAIN t : t[n].parent \in DOMAIN t \cup {NoParent}

(* What the database lets through.                                         *)
ConstraintsHold(t) == ParentsExist(t) /\ uq_nodes_parent_name_live(t)

(* The tables the use cases can leave behind one at a time: a tree whose   *)
(* trash holds whole subtrees.                                             *)
Tables ==
    LET rootRow == [parent |-> NoParent, name |-> NoParent, deletedAt |-> Never]
        table(f) == [n \in DOMAIN f \cup {Root} |-> IF n = Root THEN rootRow ELSE f[n]]
        rows == [parent : Nodes, name : Names, deletedAt : {Never, 1}]
        few == {S \in SUBSET Ids : Cardinality(S) <= MaxStart}
    IN  {t \in {table(f) : f \in UNION {[S -> rows] : S \in few}} :
            /\ ParentsExist(t)
            /\ uq_nodes_parent_name_live(t)
            /\ \A n \in DOMAIN t : Root \in Chain(t, n)
            /\ \A n \in DOMAIN t : Trashed(t, t[n].parent) => Trashed(t, n)}

Init ==
    /\ nodes \in Tables
    /\ tx = [r \in Requests |-> Idle]
    /\ clock = 1

-----------------------------------------------------------------------------
(* Locks.                                                                  *)

(* pg_advisory_xact_lock: held until commit or rollback.  The variant is a *)
(* session lock that nobody gives back.                                    *)
HoldsForGood(r, key) ==
    tx[r].op = "move" /\ tx[r].phase \in {"locked", "checked", "done"} /\ tx[r].d = key

Holds(r, key) ==
    tx[r].op = "move" /\ tx[r].phase \in {"locked", "checked"} /\ tx[r].d = key

-----------------------------------------------------------------------------
(* Reading and deciding.  A request that is refused ends there.            *)

Read(r, op, n, d, name, rows, stamp) ==
    tx' = [tx EXCEPT ![r] = [phase |-> "checked", op |-> op, n |-> n, d |-> d,
                             name |-> name, rows |-> rows, stamp |-> stamp]]

_ensure_depth(p) == Cardinality(ancestors(nodes, p)) + 1 < MaxDepth

_ensure_name_free(p, name, excluding) ==
    get_child_by_name(nodes, p, name) \subseteq {excluding}

read_create_folder(r, p, name) ==
    /\ tx[r].phase = "idle"
    /\ Live(nodes, p)
    /\ _ensure_depth(p)
    /\ get_child_by_name(nodes, p, name) = {}
    /\ Read(r, "create_folder", Root, p, name, {}, Never)
    /\ UNCHANGED <<nodes, clock>>

read_rename(r, n, name) ==
    /\ tx[r].phase = "idle"
    /\ Live(nodes, n)
    /\ n # Root
    /\ _ensure_name_free(nodes[n].parent, name, n)
    /\ Read(r, "rename", n, Root, name, {n}, Never)
    /\ UNCHANGED <<nodes, clock>>

(* A move queues for the lock of its destination before it reads.          *)
ask_move(r, n, d) ==
    /\ tx[r].phase = "idle"
    /\ tx' = [tx EXCEPT ![r] = [Idle EXCEPT !.phase = "waiting", !.op = "move",
                                            !.n = n, !.d = d]]
    /\ UNCHANGED <<nodes, clock>>

lock_subtree(r) ==
    /\ tx[r].phase = "waiting"
    /\ \A other \in Requests \ {r} : ~Holds(other, tx[r].d)
    /\ tx' = [tx EXCEPT ![r].phase = "locked"]
    /\ UNCHANGED <<nodes, clock>>

(* The checks of a move; the variant has no cycle check.                   *)
MoveUnchecked(n, d) ==
    Live(nodes, n) /\ Live(nodes, d) /\ n # Root /\ _ensure_name_free(d, nodes[n].name, n)

MoveAllowed(n, d) ==
    /\ Live(nodes, n)
    /\ Live(nodes, d)
    /\ n # Root
    /\ ~is_ancestor_of(nodes, n, d)
    /\ _ensure_depth(d)
    /\ _ensure_name_free(d, nodes[n].name, n)

read_move(r) ==
    LET n == tx[r].n
        d == tx[r].d
    IN  /\ tx[r].phase = "locked"
        /\ \/ MoveAllowed(n, d) /\ Read(r, "move", n, d, NoParent, {n}, Never)
           \/ ~MoveAllowed(n, d) /\ tx' = [tx EXCEPT ![r] = Finished(r)]
        /\ UNCHANGED <<nodes, clock>>

read_delete(r, n) ==
    /\ tx[r].phase = "idle"
    /\ Live(nodes, n)
    /\ n # Root
    /\ Read(r, "delete", n, Root, NoParent, Moving(nodes, n), clock + 1)
    /\ clock' = clock + 1
    /\ UNCHANGED nodes

(* The rows of the deletion n went with, and the root as their new home if *)
(* the parent is in the trash.  A parent that stays is not written again.  *)
read_restore(r, n) ==
    LET p == nodes[n].parent
        home == IF Live(nodes, p) THEN p ELSE Root
    IN  /\ tx[r].phase = "idle"
        /\ Trashed(nodes, n)
        /\ _ensure_name_free(home, nodes[n].name, n)
        /\ Read(r, "restore", n, IF home = p THEN NoParent ELSE home, NoParent,
                Batch(nodes, n), nodes[n].deletedAt)
        /\ UNCHANGED <<nodes, clock>>

read_purge(r, n) ==
    /\ tx[r].phase = "idle"
    /\ Trashed(nodes, n)
    /\ Read(r, "purge", n, Root, NoParent, Subtree(nodes, n), Never)
    /\ UNCHANGED <<nodes, clock>>

-----------------------------------------------------------------------------
(* Writing.  An UPDATE sets the columns the use case changed and no other; *)
(* the WHERE clause of a delete or restore is evaluated on the row as it   *)
(* is by then.                                                             *)

(* uuid4: an id no row and no request mentions.                            *)
Fresh ==
    {n \in Ids \ DOMAIN nodes :
        \A r \in Requests : n # tx[r].n /\ n # tx[r].d /\ n \notin tx[r].rows}

Inserted(r, n) ==
    [m \in DOMAIN nodes \cup {n} |->
        IF m = n THEN [parent |-> tx[r].d, name |-> tx[r].name, deletedAt |-> Never]
        ELSE nodes[m]]

Renamed(r) == [nodes EXCEPT ![tx[r].n].name = tx[r].name]

Moved(r) == [nodes EXCEPT ![tx[r].n].parent = tx[r].d]

(* soft_delete_subtree takes live rows only; the variant, all it read.     *)
DeletedAll(r) ==
    [m \in DOMAIN nodes |->
        IF m \in tx[r].rows THEN [nodes[m] EXCEPT !.deletedAt = tx[r].stamp] ELSE nodes[m]]

Deleted(r) ==
    [m \in DOMAIN nodes |->
        IF m \in tx[r].rows /\ Live(nodes, m)
        THEN [nodes[m] EXCEPT !.deletedAt = tx[r].stamp] ELSE nodes[m]]

Lifted(r) ==
    [m \in DOMAIN nodes |->
        IF m \in tx[r].rows /\ nodes[m].deletedAt = tx[r].stamp
        THEN [nodes[m] EXCEPT !.deletedAt = Never] ELSE nodes[m]]

Restored(r) ==
    IF tx[r].d = NoParent THEN Lifted(r)
    ELSE [Lifted(r) EXCEPT ![tx[r].n].parent = tx[r].d]

(* The rows go, and by cascade all rows beneath them.                      *)
PurgedRows(r) == UNION {Subtree(nodes, m) : m \in tx[r].rows \cap DOMAIN nodes}

(* The constraints hold after the writes and the request commits, or the   *)
(* database refuses and the request leaves nothing.                        *)
Write(r, new) ==
    /\ nodes' = IF ConstraintsHold(new) THEN new ELSE nodes
    /\ tx' = [tx EXCEPT ![r] = Finished(r)]
    /\ UNCHANGED clock

commit_create_folder(r, n) ==
    /\ tx[r].phase = "checked" /\ tx[r].op = "create_folder"
    /\ n \in Fresh
    /\ Write(r, Inserted(r, n))

(* The row an UPDATE by key names may be gone: StaleDataError, rolled back. *)
WriteRow(r, op, new) ==
    /\ tx[r].phase = "checked" /\ tx[r].op = op
    /\ Write(r, IF tx[r].n \in DOMAIN nodes THEN new ELSE nodes)

commit_rename(r) == WriteRow(r, "rename", Renamed(r))

commit_move(r) == WriteRow(r, "move", Moved(r))

commit_restore(r) == WriteRow(r, "restore", Restored(r))

commit_delete(r) ==
    /\ tx[r].phase = "checked" /\ tx[r].op = "delete"
    /\ Write(r, Deleted(r))

commit_purge(r) ==
    /\ tx[r].phase = "checked" /\ tx[r].op = "purge"
    /\ Write(r, WithoutRows(nodes, PurgedRows(r)))

-----------------------------------------------------------------------------
Commit(r) ==
    \/ \E n \in Ids : commit_create_folder(r, n)
    \/ commit_rename(r)
    \/ commit_move(r)
    \/ commit_delete(r)
    \/ commit_restore(r)
    \/ commit_purge(r)

Begin(r) ==
    \/ \E n \in DOMAIN nodes, name \in Names :
            read_create_folder(r, n, name) \/ read_rename(r, n, name)
    \/ \E n \in DOMAIN nodes, d \in Destinations : ask_move(r, n, d)
    \/ \E n \in DOMAIN nodes : read_delete(r, n) \/ read_restore(r, n) \/ read_purge(r, n)

Next == \E r \in Requests : Begin(r) \/ lock_subtree(r) \/ read_move(r) \/ Commit(r)

(* A request that has started is served to its end: the event loop resumes *)
(* it, and the database grants a lock that is free.                        *)
Fairness ==
    \A r \in Requests : WF_vars(lock_subtree(r)) /\ WF_vars(read_move(r)) /\ WF_vars(Commit(r))

Spec == Init /\ [][Next]_vars /\ Fairness

-----------------------------------------------------------------------------
(* The types of all state.                                                 *)
TypeOK ==
    /\ nodes \in [DOMAIN nodes -> Row]
    /\ Root \in DOMAIN nodes
    /\ DOMAIN nodes \subseteq Nodes
    /\ tx \in [Requests -> Tx]
    /\ clock \in Nat

(* Whatever overlaps, every folder is reached from the root: the tree has  *)
(* no cycle.  It holds when all moves name one destination.                *)
TreeAcyclic == \A n \in DOMAIN nodes : Root \in Chain(nodes, n)

(* Deletions that overlap stay apart.  A row in the trash keeps the stamp  *)
(* of the deletion that took it, whichever later one reached it as well,   *)
(* until a restore that read this very stamp lifts it: no deletion adopts  *)
(* the rows of another, and no restore brings back what it did not see.    *)
DeletionsKept ==
    [][\A n \in DOMAIN nodes \cap DOMAIN nodes' :
            Trashed(nodes, n) /\ nodes'[n].deletedAt # nodes[n].deletedAt
                => /\ nodes'[n].deletedAt = Never
                   /\ \E r \in Requests : /\ tx[r].phase = "checked"
                                          /\ tx[r].op = "restore"
                                          /\ tx[r].stamp = nodes[n].deletedAt]_vars

(* A request that asked for a lock ends: nobody keeps one, and no two      *)
(* requests wait for each other.                                           *)
RequestsEnd == \A r \in Requests : tx[r].phase = "waiting" ~> tx[r].phase = "done"
=============================================================================
