------------------------------- MODULE Views --------------------------------
(***************************************************************************)
(* What a caller is shown of the tree: the keys of an S3 listing, one's    *)
(* own and those of nodes shared with the caller, the node a key resolves  *)
(* to, the roots of shared_with_me, and what search may find.  Each view   *)
(* is built by a walk of its own; here they are functions of the table and *)
(* of the nodes G on which the caller holds an active grant.               *)
(***************************************************************************)
EXTENDS Gateways

Depth(n) == Cardinality(ancestors(nodes, n))

(* The names on the way from above, which is not part of it, down to n.    *)
NamesBelow(above, n) ==
    [i \in 1 .. Depth(n) - Depth(above) |->
        nodes[CHOOSE k \in Chain(nodes, n) : Depth(k) = Depth(above) + i].name]

(* NodePath.path: the root of the tree contributes no name.                *)
TopOf(n) == CHOOSE m \in Chain(nodes, n) : IsRoot(m)

_path_of(n) == NamesBelow(TopOf(n), n)

(* A variant that descends into the trash. *)
_walk_trash(folder, key) ==
    {[key |-> key \o NamesBelow(folder, m), node |-> m] :
        m \in {m \in Subtree(nodes, folder) \ {folder} : ~ IsFolder(m)}}

(* _walk, with _children page after page: every file that live folders     *)
(* lead to, under the key accumulated on the way.                          *)
_walk(folder, key) ==
    {[key |-> key \o NamesBelow(folder, m), node |-> m] :
        m \in {m \in Subtree(nodes, folder) \ {folder} :
                /\ ~ IsFolder(m)
                /\ \A k \in (Chain(nodes, m) \cap Subtree(nodes, folder)) \ {folder} :
                        Live(nodes, k)}}

(* _descend follows live names from a folder to what they address.         *)
_descend(start, segments) == _resolve(nodes, start, segments)

(* _gather_own, beneath the folder the prefix addresses.                   *)
_gather_own(u, dir) ==
    UNION {_walk(base, dir) : base \in {b \in _descend(RootOf[u], dir) : IsFolder(b)}}

(* The part of list_objects that is the caller's own: a prefix under the   *)
(* reserved name is one of the shared view and gathers nothing here.       *)
list_objects(u, dir) ==
    IF dir # <<>> /\ Head(dir) = Reserved THEN {} ELSE _gather_own(u, dir)

(* A variant that lists a granted node from the trash as well. *)
_shared_roots_any(G) == {n \in G : ancestors(nodes, n) \cap G = {}}

(* _shared_roots and shared_with_me: a grant covered by one further up is  *)
(* dropped, and one on a trashed node.                                     *)
_shared_roots(G) == {n \in G : Live(nodes, n) /\ ancestors(nodes, n) \cap G = {}}

(* _gather_shared: keys start with the owner, see key_for.                 *)
_gather_shared(G) ==
    UNION {IF IsFolder(n) THEN _walk(n, _path_of(n)) ELSE {[key |-> _path_of(n), node |-> n]} :
            n \in _shared_roots(G)}

(* _resolve_shared takes the first root whose path begins the key, and     *)
(* grants come in no particular order: what it may answer.                 *)
_resolve_shared(G, key) ==
    {_descend(n, SubSeq(key, Len(_path_of(n)) + 1, Len(key))) :
        n \in {n \in _shared_roots(G) : IsPrefix(_path_of(n), key)}}

(* _visible_to, the scope of search and of the tag inventory.              *)
_visible_to(u, G) == {n \in DOMAIN nodes : Live(nodes, n) /\ (nodes[n].owner = u \/ n \in G)}

(* What authorization lets a holder of these grants read.                  *)
Readable(G) == {n \in DOMAIN nodes : Live(nodes, n) /\ Chain(nodes, n) \cap G # {}}

Files(S) == {n \in S : ~ IsFolder(n)}

Listed(entries) == {e.node : e \in entries}

-----------------------------------------------------------------------------
(* Listing and authorization walk the tree in opposite directions and      *)
(* agree.  Whatever nodes are granted, nested or in the trash, a recipient *)
(* is listed exactly the files they may read, each under one key, and that *)
(* key resolves to it whichever grant is looked at first.                  *)
SharedViewExact ==
    \A G \in SUBSET DOMAIN nodes :
        LET entries == _gather_shared(G) IN
        /\ Listed(entries) = Files(Readable(G))
        /\ \A e \in entries : _resolve_shared(G, e.key) = {{e.node}}
        /\ \A e, f \in entries : e.node = f.node => e = f

(* Not hidden by the shared view, which answers for every key and prefix   *)
(* that begins with the reserved name.                                     *)
Unshadowed(key) == Head(key) # Reserved

(* An owner is listed the live files of the tree, which search can find    *)
(* all; one that does not stand under the reserved name is listed under a  *)
(* key that resolves to it, and a listing that descends to the folder of   *)
(* its prefix first misses none that has the prefix.                       *)
OwnViewExact ==
    \A u \in Users :
        LET entries == list_objects(u, <<>>) IN
        /\ Listed(entries) = Files(_visible_to(u, {}))
        /\ \A e \in entries :
                Unshadowed(e.key) => resolve_object(nodes, u, u, e.key) = {e.node}
        /\ \A dir \in Addresses :
                Unshadowed(dir) =>
                    list_objects(u, dir) = {e \in entries : IsStrictPrefix(dir, e.key)}

(* Every key an owner is listed resolves to the file it is listed for: "a  *)
(* real folder cannot shadow the shared view", as namespace.py says, since *)
(* create_folder keeps the reserved name free at the root.  But a rename,  *)
(* a move and an upload do not.                                            *)
ListedKeysResolve ==
    \A u \in Users : \A e \in list_objects(u, <<>>) :
        resolve_object(nodes, u, u, e.key) = {e.node}
=============================================================================
