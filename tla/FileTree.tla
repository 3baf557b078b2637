------------------------------ MODULE FileTree ------------------------------
(***************************************************************************)
(* The file tree, its trash, its quota counters and the objects behind its *)
(* files, as the use cases of application/nodes.py, application/content.py,*)
(* application/purge.py, application/jobs.py and the transfer of ownership *)
(* in application/sharing.py change them.  A use case runs in one database *)
(* transaction, so here it is one step; what transactions do to each other *)
(* when they overlap is the subject of ConcurrentTree.                     *)
(***************************************************************************)
EXTENDS NodeTree, QuotaUsage, Sequences, Functions

CONSTANTS
    Users,          \* provisioned users
    Ids,            \* ids new rows may take
    RootOf,         \* the root folder of each user
    NoParent,       \* parent_id IS NULL
    Names,          \* normalised names
    RootName,       \* the name of a root folder
    Reserved,       \* the name 'shared', kept free at the root of a tree
    Sizes,          \* plaintext sizes of uploads
    Quota,          \* quota_bytes of each user
    Admins,         \* users with the administrator role
    Shares,         \* grants on root folders at the start
    Transferees,    \* users that may be named as recipient of a transfer
    MaxDepth,       \* max_tree_depth
    PageSize,       \* page_size_max
    Retention,      \* version_retention_count
    PurgeBudget,    \* TRASH_PURGE_NODE_BUDGET
    SweepBatch,     \* rows one run of the purge job may take
    MaxDeletes,     \* bound: deletions in one behaviour
    MaxStrays       \* bound: unreferenced objects under one node id

Roots == {RootOf[u] : u \in Users}
Nodes == Ids \cup Roots

ASSUME ConstantsAssumption ==
    /\ RootOf \in [Users -> Nodes]
    /\ \A u, v \in Users : RootOf[u] = RootOf[v] => u = v
    /\ Roots \cap Ids = {}
    /\ NoParent \notin Nodes
    /\ Sizes \subseteq Nat
    /\ Quota \in [Users -> Nat]
    /\ Admins \subseteq Users
    /\ Transferees \subseteq Users
    /\ Shares \subseteq Users \X Roots \X {"viewer", "editor", "owner"}
    /\ MaxDepth \in Nat
    /\ PageSize \in Nat \ {0}
    /\ Retention \in Nat \ {0}
    /\ PurgeBudget \in Nat \ {0}
    /\ SweepBatch \in Nat
    /\ MaxDeletes \in Nat
    /\ MaxStrays \in Nat

VARIABLES
    nodes,      \* the nodes table with the version rows of each file
    usage,      \* the quota_usage table
    objects,    \* how many objects the store holds under each node id
    grants,     \* active grants, as <<user, node, role>>
    clock       \* the stamp of the latest deletion

vars == <<nodes, usage, objects, grants, clock>>

Version == [size : Nat, owner : Users]

Row == [kind : {"folder", "file"}, owner : Users,
        parent : Nodes \cup {NoParent}, name : Names \cup {RootName},
        deletedAt : Nat, versions : Seq(Version)]

Folder(u, p, name) ==
    [kind |-> "folder", owner |-> u, parent |-> p, name |-> name,
     deletedAt |-> Never, versions |-> <<>>]

File(u, p, name, size) ==
    [kind |-> "file", owner |-> u, parent |-> p, name |-> name,
     deletedAt |-> Never, versions |-> <<[size |-> size, owner |-> u]>>]

(* size_bytes of a row: the size of its current version, zero for folders. *)
size_bytes(t, n) ==
    LET v == t[n].versions
    IN  IF v = <<>> THEN 0 ELSE v[Len(v)].size

BytesOf(t, S) == SumFunction([n \in S |-> size_bytes(t, n)])

(* The bytes of S that count for u.                                        *)
OwnedBytes(t, S, u) == BytesOf(t, {n \in S : t[n].owner = u})

(* The same row added to the table under a new id.                         *)
WithRow(t, n, row) == [m \in DOMAIN t \cup {n} |-> IF m = n THEN row ELSE t[m]]

Fresh == {n \in Ids \ DOMAIN nodes : objects[n] = 0}

(* uuid4: an id nothing mentions.  Which one is immaterial, so one is.     *)
OneOf(S) == IF S = {} THEN {} ELSE {CHOOSE x \in S : TRUE}

-----------------------------------------------------------------------------
(* Guards shared by the use cases.                                         *)

IsRoot(n) == nodes[n].parent = NoParent

IsFolder(n) == nodes[n].kind = "folder"

(* effective_role: the owner, or a grant on the node or an ancestor.       *)
HasRole(u, n, roles) ==
    \/ nodes[n].owner = u
    \/ \E g \in grants : g[1] = u /\ g[3] \in roles /\ is_ancestor_of(nodes, g[2], n)

(* _authorize / _require: a trashed node answers like a missing one.       *)
MayView(u, n) == Live(nodes, n) /\ HasRole(u, n, {"viewer", "editor", "owner"})

MayEdit(u, n) == Live(nodes, n) /\ HasRole(u, n, {"editor", "owner"})

MayOwn(u, n) == Live(nodes, n) /\ HasRole(u, n, {"owner"})

_ensure_depth(p) == Cardinality(ancestors(nodes, p)) + 1 < MaxDepth

_ensure_name_free(p, name, excluding) ==
    get_child_by_name(nodes, p, name) \subseteq {excluding}

(* Only the root keeps the name free. *)
_ensure_not_reserved_root_name(p, name) == ~(IsRoot(p) /\ name = Reserved)

Init ==
    /\ nodes = [n \in Roots |->
                    Folder(CHOOSE u \in Users : RootOf[u] = n, NoParent, RootName)]
    /\ usage = [u \in Users |-> NoUsage]
    /\ objects = [n \in Nodes |-> 0]
    /\ grants = Shares
    /\ clock = 0

-----------------------------------------------------------------------------
(* Building and rearranging the tree.                                      *)

create_folder(u, p, n, name) ==
    /\ MayEdit(u, p)
    /\ IsFolder(p)
    /\ _ensure_not_reserved_root_name(p, name)
    /\ n \in Fresh
    /\ _ensure_name_free(p, name, n)
    /\ _ensure_depth(p)
    /\ nodes' = WithRow(nodes, n, Folder(nodes[p].owner, p, name))
    /\ UNCHANGED <<usage, objects, grants, clock>>

rename(u, n, name) ==
    /\ MayEdit(u, n)
    /\ ~IsRoot(n)
    /\ _ensure_name_free(nodes[n].parent, name, n)
    /\ nodes' = [nodes EXCEPT ![n].name = name]
    /\ UNCHANGED <<usage, objects, grants, clock>>

(* The guards of a move: nothing crosses an owner, nothing goes beneath    *)
(* itself.  The two variants leave one guard out.                          *)
CanMoveBeneathItself(n, d) ==
    /\ IsFolder(d) /\ ~IsRoot(n) /\ nodes[d].owner = nodes[n].owner
    /\ _ensure_name_free(d, nodes[n].name, n)

CanMoveOntoSibling(n, d) ==
    /\ IsFolder(d) /\ ~IsRoot(n) /\ nodes[d].owner = nodes[n].owner
    /\ ~is_ancestor_of(nodes, n, d)

CanMove(n, d) ==
    /\ IsFolder(d)
    /\ ~IsRoot(n)
    /\ nodes[d].owner = nodes[n].owner
    /\ _ensure_name_free(d, nodes[n].name, n)
    /\ ~is_ancestor_of(nodes, n, d)
    /\ _ensure_depth(d)

move(u, n, d) ==
    /\ MayEdit(u, n)
    /\ MayEdit(u, d)
    /\ CanMove(n, d)
    /\ nodes' = [nodes EXCEPT ![n].parent = d]
    /\ UNCHANGED <<usage, objects, grants, clock>>

-----------------------------------------------------------------------------
(* Content.                                                                *)

(* _charge: the version that was current becomes retained history, then    *)
(* the new bytes are charged if they fit.  The variant releases it.        *)
RetiredAndReleased(t, us, n) ==
    charge_live(us[t[n].owner], -size_bytes(t, n))

Retired(t, us, n) ==
    LET size == size_bytes(t, n)
        q == us[t[n].owner]
    IN  IF t[n].versions = <<>> THEN q
        ELSE charge_versions(charge_live(q, -size), size)

_charge(q, size) == charge_live(q, size)

(* prune_beyond keeps the newest versions; _prune_versions releases the    *)
(* others from the version bucket of the owner of the node.                *)
Excess(v) == AtLeastZero(Len(v) - Retention)

prune_beyond(v) == SubSeq(v, Excess(v) + 1, Len(v))

_prune_versions(q, v) ==
    charge_versions(q, -SumFunction([i \in 1 .. Excess(v) |-> v[i].size]))

(* _store_version and the tail of restore_version, for a row that exists.  *)
_store_version(n, size) ==
    LET o == nodes[n].owner
        v == Append(nodes[n].versions, [size |-> size, owner |-> o])
    IN  /\ ~would_exceed(Retired(nodes, usage, n), Quota[o], size)
        /\ nodes' = [nodes EXCEPT ![n].versions = prune_beyond(v)]
        /\ usage' = [usage EXCEPT
                        ![o] = _prune_versions(_charge(Retired(nodes, usage, n), size), v)]
        /\ objects' = [objects EXCEPT ![n] = @ + 1 - Excess(v)]
        /\ UNCHANGED <<grants, clock>>

(* upload, when no live sibling has the name: the file belongs to the      *)
(* owner of the folder, who pays for it.                                   *)
upload_new(u, p, n, name, size) ==
    LET o == nodes[p].owner IN
    /\ MayEdit(u, p)
    /\ IsFolder(p)
    /\ get_child_by_name(nodes, p, name) = {}
    /\ n \in Fresh
    /\ ~would_exceed(usage[o], Quota[o], size)
    /\ nodes' = WithRow(nodes, n, File(o, p, name, size))
    /\ usage' = [usage EXCEPT ![o] = _charge(@, size)]
    /\ objects' = [objects EXCEPT ![n] = 1]
    /\ UNCHANGED <<grants, clock>>

(* upload onto the name of a live file the caller reaches through the      *)
(* folder; replace, which names the file itself.                           *)
upload_version(u, n, size) ==
    /\ Live(nodes, n)
    /\ nodes[n].kind = "file"
    /\ MayEdit(u, n) \/ MayEdit(u, nodes[n].parent)
    /\ _store_version(n, size)

restore_version(u, n, i) ==
    /\ MayEdit(u, n)
    /\ i \in 1 .. Len(nodes[n].versions)
    /\ _store_version(n, nodes[n].versions[i].size)

(* An upload without Content-Length that does not fit: the object is in    *)
(* the store when _charge refuses, and the transaction that would have     *)
(* named it rolls back.                                                    *)
StrayObject(n) ==
    /\ objects[n] - (IF n \in DOMAIN nodes THEN Len(nodes[n].versions) ELSE 0) < MaxStrays
    /\ objects' = [objects EXCEPT ![n] = @ + 1]
    /\ UNCHANGED <<nodes, usage, grants, clock>>

upload_new_refused(u, p, n, name, size) ==
    /\ MayEdit(u, p)
    /\ IsFolder(p)
    /\ get_child_by_name(nodes, p, name) = {}
    /\ n \in Ids \ DOMAIN nodes
    /\ would_exceed(usage[nodes[p].owner], Quota[nodes[p].owner], size)
    /\ StrayObject(n)

upload_version_refused(u, n, size) ==
    /\ Live(nodes, n)
    /\ nodes[n].kind = "file"
    /\ MayEdit(u, n) \/ MayEdit(u, nodes[n].parent)
    /\ would_exceed(Retired(nodes, usage, n), Quota[nodes[n].owner], size)
    /\ StrayObject(n)

(* list_children cuts a folder's live children to one page, folders first. *)
IsPage(page, n) ==
    LET all == LiveChildren(nodes, n)
    IN  /\ page \subseteq all
        /\ Cardinality(page) = AtMost(Cardinality(all), PageSize)
        /\ \A m \in all \ page : IsFolder(m) => \A k \in page : IsFolder(k)

(* What _copy_subtree reaches from s: one page of every folder it reaches. *)
CopiedSets(s) ==
    {S \in SUBSET Subtree(nodes, s) :
        /\ s \in S
        /\ \A n \in S : IsPage({m \in S \ {s} : nodes[m].parent = n}, n)
        /\ \A n \in S \ {s} : nodes[n].parent \in S}

(* The rows of the copy f makes of S, by their new ids.  Every file starts *)
(* with one version, the current one of its source.                        *)
CopyRow(u, s, d, name, f, n) ==
    [kind |-> nodes[n].kind, owner |-> u,
     parent |-> IF n = s THEN d ELSE f[nodes[n].parent],
     name |-> IF n = s THEN name ELSE nodes[n].name,
     deletedAt |-> Never,
     versions |-> IF nodes[n].kind = "folder" THEN <<>>
                  ELSE <<[size |-> size_bytes(nodes, n), owner |-> u]>>]

(* The guards of a copy into d.                                            *)
CanCopy(u, s, d, name) ==
    /\ MayView(u, s)
    /\ MayEdit(u, d)
    /\ IsFolder(d)
    /\ ~is_ancestor_of(nodes, s, d)
    /\ _ensure_name_free(d, name, NoParent)
    /\ _ensure_depth(d)

(* The copy belongs to the caller and is charged to them.                  *)
copy(u, s, d, name) ==
    /\ CanCopy(u, s, d, name)
    /\ \E S \in CopiedSets(s) : \E f \in OneOf(Injection(S, Fresh)) :
        LET bytes == BytesOf(nodes, S)
            source(m) == CHOOSE n \in S : f[n] = m
        IN  /\ bytes > 0 => ~would_exceed(usage[u], Quota[u], bytes)
            /\ nodes' = [m \in DOMAIN nodes \cup Range(f) |->
                            IF m \in Range(f) THEN CopyRow(u, s, d, name, f, source(m))
                            ELSE nodes[m]]
            /\ usage' = [usage EXCEPT ![u] = charge_live(@, bytes)]
            /\ objects' = [m \in Nodes |->
                            IF m \in Range(f) /\ nodes[source(m)].kind = "file"
                            THEN 1 ELSE objects[m]]
            /\ UNCHANGED <<grants, clock>>

(* Files are copied one after the other, each object before its charge: at *)
(* the first that does not fit the objects of all so far are in the store  *)
(* and the rows are rolled back.                                           *)
copy_refused(u, s, d, name) ==
    /\ MaxStrays > 0
    /\ CanCopy(u, s, d, name)
    /\ \E S \in CopiedSets(s) : \E T \in SUBSET {n \in S : size_bytes(nodes, n) > 0} :
        /\ would_exceed(usage[u], Quota[u], BytesOf(nodes, T))
        /\ \E last \in T : \/ T = {last}
                           \/ ~would_exceed(usage[u], Quota[u], BytesOf(nodes, T \ {last}))
        /\ \E f \in OneOf(Injection(T, Fresh)) :
                objects' = [m \in Nodes |-> IF m \in Range(f) THEN 1 ELSE objects[m]]
        /\ UNCHANGED <<nodes, usage, grants, clock>>

-----------------------------------------------------------------------------
(* The trash.                                                              *)

(* Only the rows that moved change buckets -- and all of them in the       *)
(* buckets of the owner of n, whoever owns the row.  The variant counts    *)
(* the whole subtree.                                                      *)
SubtreeBytes(n) == BytesOf(nodes, Subtree(nodes, n))

bytes_trashed(n) == BytesOf(nodes, Moving(nodes, n))

_move_bytes(q, size, toTrash) ==
    IF toTrash THEN move_to_trash(q, size) ELSE restore_from_trash(q, size)

delete(u, n) ==
    /\ clock < MaxDeletes
    /\ MayOwn(u, n)
    /\ ~IsRoot(n)
    /\ nodes' = soft_delete_subtree(nodes, n, clock + 1)
    /\ usage' = [usage EXCEPT ![nodes[n].owner] =
                    _move_bytes(@, bytes_trashed(n), TRUE)]
    /\ clock' = clock + 1
    /\ UNCHANGED <<objects, grants>>

(* Into the old parent if that is live, else into the caller's root.  The  *)
(* variant does not look at the parent.                                    *)
OldParent(u, n) == nodes[n].parent

RestoreTarget(u, n) ==
    IF Live(nodes, nodes[n].parent) THEN nodes[n].parent ELSE RootOf[u]

restore(u, n) ==
    LET d == RestoreTarget(u, n) IN
    /\ Trashed(nodes, n)
    /\ nodes[n].owner = u
    /\ _ensure_name_free(d, nodes[n].name, n)
    /\ nodes' = [restore_subtree(nodes, n) EXCEPT ![n].parent = d]
    /\ usage' = [usage EXCEPT ![u] =
                    _move_bytes(@, BytesOf(nodes, Batch(nodes, n)), FALSE)]
    /\ UNCHANGED <<objects, grants, clock>>

(* _strip of every row in stripped: the size of its current version leaves *)
(* the trashed bucket of its owner, the objects of all its versions leave  *)
(* the store.  Then the rows in gone disappear, with what cascades.        *)
Purged(stripped, gone) ==
    /\ nodes' = WithoutRows(nodes, gone)
    /\ usage' = [v \in Users |->
                    purge_from_trash(usage[v], OwnedBytes(nodes, stripped, v))]
    /\ objects' = [m \in Nodes |->
                    IF m \in stripped THEN objects[m] - Len(nodes[m].versions)
                    ELSE objects[m]]
    /\ grants' = {g \in grants : g[2] \notin gone}
    /\ UNCHANGED clock

(* purge_subtree: every row is stripped before any row is deleted.  The    *)
(* variant deletes a row as soon as it is stripped.                        *)
StripAndDelete(S) == \E n \in S : Purged({n}, S)

purge_subtree(S) == Purged(S, S)

(* One trashed node with all beneath it, whenever that was trashed.        *)
_destroy_entry(n) == Subtree(nodes, n)

purge(u, n) ==
    /\ Trashed(nodes, n)
    /\ nodes[n].owner = u \/ u \in Admins
    /\ purge_subtree(_destroy_entry(n))

(* delete_batch_totals counts what a restore of the entry would lift.      *)
Cost(e) == Cardinality(Batch(nodes, e))

(* Whole entries, oldest first, until the next would pass the budget; the  *)
(* oldest goes whatever it costs.                                          *)
_spend_purge_budget(u) ==
    LET E == TrashEntries(nodes, u)
        upTo(e) == {x \in E : nodes[x].deletedAt <= nodes[e].deletedAt}
    IN  {e \in E : \/ upTo(e) = {e}
                   \/ SumFunction([x \in upTo(e) |-> Cost(x)]) <= PurgeBudget}

(* The caller states the number of entries it saw, so it saw some.         *)
empty_trash(u) ==
    /\ TrashEntries(nodes, u) # {}
    /\ purge_subtree(UNION {_destroy_entry(e) : e \in _spend_purge_budget(u)})

(* The purge job lists expired rows by age, cut to a batch, and purges     *)
(* them one by one: strip the row, delete it, and with it by cascade all   *)
(* rows beneath.  A row that went by cascade before its turn is skipped.   *)
Expired(cutoff) ==
    LET old == {n \in DOMAIN nodes : Trashed(nodes, n) /\ nodes[n].deletedAt < cutoff}
    IN  {E \in SUBSET old :
            /\ Cardinality(E) = AtMost(Cardinality(old), SweepBatch)
            /\ \A n \in E : \A m \in old \ E : nodes[n].deletedAt <= nodes[m].deletedAt}

(* The rows of E that are still there when their turn comes: rows with one *)
(* stamp come in any order, so a row may go before or after its ancestor.  *)
Reached(E) ==
    {K \in SUBSET E :
        /\ \A n \in E \ K : \E m \in K \cap ancestors(nodes, n) :
                nodes[m].deletedAt <= nodes[n].deletedAt
        /\ \A n \in K : \A m \in K \cap ancestors(nodes, n) :
                nodes[n].deletedAt <= nodes[m].deletedAt}

PurgeJob(cutoff) ==
    \E E \in Expired(cutoff) \ {{}} : \E K \in Reached(E) :
        Purged(K, UNION {Subtree(nodes, n) : n \in K})

-----------------------------------------------------------------------------
(* Ownership and repair.                                                   *)

(* transfer_ownership: the subtree changes owner, trashed rows included;   *)
(* the live bucket of the recipient is charged for all of it and that of   *)
(* the caller released.  Version rows keep the owner they were made with.  *)
transfer_ownership(u, n, v, keep) ==
    LET S == Subtree(nodes, n)
        bytes == BytesOf(nodes, S)
    IN  /\ MayOwn(u, n)
        /\ u # v
        /\ v \in Transferees
        /\ bytes > 0 => ~would_exceed(usage[v], Quota[v], bytes)
        /\ keep => \A g \in grants : g[1] = u => g[2] # n
        /\ nodes' = [m \in DOMAIN nodes |->
                        IF m \in S THEN [nodes[m] EXCEPT !.owner = v] ELSE nodes[m]]
        /\ usage' = [usage EXCEPT ![v] = charge_live(@, bytes),
                                  ![u] = charge_live(@, -bytes)]
        /\ grants' = IF keep THEN grants \cup {<<u, n, "editor">>} ELSE grants
        /\ UNCHANGED <<objects, clock>>

(* recompute: node sizes by owner of the node, retained versions by owner  *)
(* of the version row.                                                     *)
recompute(t, u) ==
    LET history(n) == {i \in 1 .. Len(t[n].versions) - 1 : t[n].versions[i].owner = u}
        held(n) == SumFunction([i \in history(n) |-> t[n].versions[i].size])
    IN  [live |-> OwnedBytes(t, {n \in DOMAIN t : Live(t, n)}, u),
         trashed |-> OwnedBytes(t, {n \in DOMAIN t : Trashed(t, n)}, u),
         versions |-> SumFunction([n \in DOMAIN t |-> held(n)])]

(* One page of users is recomputed.                                        *)
ReconcileQuotasJob ==
    /\ \E page \in kSubset(AtMost(Cardinality(Users), PageSize), Users) :
            usage' = [u \in Users |-> IF u \in page THEN recompute(nodes, u) ELSE usage[u]]
    /\ UNCHANGED <<nodes, objects, grants, clock>>

Referenced(n) == IF n \in DOMAIN nodes THEN Len(nodes[n].versions) ELSE 0

(* The reaper deletes unreferenced objects past the grace period; the rest *)
(* waits for a later run.                                                  *)
OrphanReaper ==
    \E old \in SUBSET {n \in Nodes : objects[n] > Referenced(n)} :
        /\ old # {}
        /\ objects' = [n \in Nodes |-> IF n \in old THEN Referenced(n) ELSE objects[n]]
        /\ UNCHANGED <<nodes, usage, grants, clock>>

-----------------------------------------------------------------------------
(* The routers.  A handler authenticates its user, opens a unit of work,   *)
(* calls one use case and commits: a request is one step.                  *)

nodes_router(u) ==
    \E n \in DOMAIN nodes :
        \/ \E m \in OneOf(Fresh), name \in Names : create_folder(u, n, m, name)
        \/ \E name \in Names : rename(u, n, name)
        \/ \E d \in DOMAIN nodes : move(u, n, d)
        \/ \E d \in DOMAIN nodes, name \in Names : copy(u, n, d, name)
        \/ \E d \in DOMAIN nodes, name \in Names : copy_refused(u, n, d, name)
        \/ delete(u, n)
        \/ purge(u, n)
        \/ restore(u, n)

content_router(u) ==
    \E n \in DOMAIN nodes :
        \/ \E m \in OneOf(Fresh), name \in Names, size \in Sizes :
                upload_new(u, n, m, name, size) \/ upload_new_refused(u, n, m, name, size)
        \/ \E size \in Sizes : upload_version(u, n, size)
        \/ \E size \in Sizes : upload_version_refused(u, n, size)
        \/ \E i \in 1 .. Retention : restore_version(u, n, i)

trash_router(u) == empty_trash(u)

shares_router(u) ==
    \E n \in DOMAIN nodes, v \in Users, keep \in BOOLEAN : transfer_ownership(u, n, v, keep)

Next ==
    \/ \E u \in Users :
            nodes_router(u) \/ content_router(u) \/ trash_router(u) \/ shares_router(u)
    \/ \E cutoff \in 1 .. clock + 1 : PurgeJob(cutoff)
    \/ ReconcileQuotasJob
    \/ OrphanReaper

Spec == Init /\ [][Next]_vars

-----------------------------------------------------------------------------
(* Every row has the shape the schema gives it; the root folders, and only *)
(* they, have no parent, and they stay live.                               *)
RowsOK ==
    /\ nodes \in [DOMAIN nodes -> Row]
    /\ DOMAIN nodes \subseteq Nodes
    /\ Roots \subseteq DOMAIN nodes
    /\ clock \in Nat
    /\ \A n \in DOMAIN nodes :
            /\ nodes[n].parent \in DOMAIN nodes \cup {NoParent}
            /\ n \in Roots <=> nodes[n].parent = NoParent
            /\ n \in Roots => Live(nodes, n)
            /\ nodes[n].deletedAt <= clock

(* A row is reached from a root: no move, copy, restore or purge leaves a  *)
(* cycle or a row under a parent that is gone.                             *)
Rooted == \A n \in DOMAIN nodes : \E r \in Roots : r \in Chain(nodes, n)

(* Below a trashed row everything is trashed, and was trashed no later: so *)
(* the trash holds whole subtrees, no live file hides in it, and the rows  *)
(* restore_subtree finds by their stamp form one connected piece.          *)
TrashNested ==
    \A n \in DOMAIN nodes :
        Trashed(nodes, nodes[n].parent) =>
            /\ Trashed(nodes, n)
            /\ nodes[n].deletedAt <= nodes[nodes[n].parent].deletedAt

(* Two siblings that are both live, or went to the trash in one deletion,  *)
(* have different names: uq_nodes_parent_name_live never refuses what the  *)
(* use cases let through, and a restore cannot collide inside its batch.   *)
SiblingNamesUnique ==
    \A m, n \in DOMAIN nodes :
        /\ m # n
        /\ nodes[m].parent = nodes[n].parent
        /\ nodes[m].parent # NoParent
        /\ nodes[m].deletedAt = nodes[n].deletedAt
        => nodes[m].name # nodes[n].name

(* What the rows of u really occupy: every version of every row.           *)
StoredBytes(u) ==
    LET held(n) == SumFunction([i \in 1 .. Len(nodes[n].versions) |->
                                    nodes[n].versions[i].size])
    IN  SumFunction([n \in {n \in DOMAIN nodes : nodes[n].owner = u} |-> held(n)])

(* Nobody stores more than their quota, whatever sequence of trashing,     *)
(* restoring, purging and copying by collaborators moved bytes between     *)
(* buckets: the counters may drift upwards, never below what is stored.    *)
StoredWithinQuota == \A u \in Users : StoredBytes(u) <= Quota[u]

(* While every row under a root belongs to the owner of the root, the live *)
(* and trashed counters are what a recomputation would find.               *)
CountersExact ==
    \A u \in Users : /\ usage[u].live = recompute(nodes, u).live
                      /\ usage[u].trashed = recompute(nodes, u).trashed

(* The store holds exactly the objects the version rows name.              *)
ObjectsReferenced == \A n \in Nodes : objects[n] = Referenced(n)

(* A step destroys only what was in the trash before it: no purge, sweep   *)
(* or cascade takes a live row.                                            *)
LiveRowsSurvive ==
    [][\A n \in DOMAIN nodes : Live(nodes, n) => n \in DOMAIN nodes']_vars

(* A restore brings back rows of one deletion, and all of the subtree that *)
(* deletion took with the restored node: none of its rows stays behind     *)
(* under a row that is live again.                                         *)
OneDeletionRestored ==
    [][ LET back == {n \in DOMAIN nodes \cap DOMAIN nodes' :
                        Trashed(nodes, n) /\ Live(nodes', n)}
        IN  \A m, n \in back :
                /\ nodes[m].deletedAt = nodes[n].deletedAt
                /\ \A k \in DOMAIN nodes' :
                        nodes'[k].parent = n /\ Trashed(nodes', k)
                            => nodes'[k].deletedAt # nodes[n].deletedAt ]_vars
=============================================================================
