------------------------------ MODULE Gateways ------------------------------
(***************************************************************************)
(* The S3 and WebDAV surfaces over the file tree.  Both address rows by    *)
(* path and turn one request into several use cases of FileTree, run one   *)
(* after the other in the request's transaction: a PUT may create folders  *)
(* first, a MOVE or COPY may trash what stands in its way, a batch deletes *)
(* key by key.  A step here is such a request, whole; a use case that      *)
(* refuses rolls all of it back.                                           *)
(***************************************************************************)
EXTENDS FileTree, SequencesExt

CONSTANTS
    MaxPath,    \* bound: names in an address
    MaxBatch,   \* bound: keys in one DeleteObjects
    NoAnswer

ASSUME GatewaysAssumption == MaxPath \in Nat /\ MaxBatch \in Nat

Addresses == UNION {[1 .. k -> Names] : k \in 1 .. MaxPath}

(* An S3 key as resolve_key reads it: whose file, which is the caller's    *)
(* own unless the key is one of the shared view, and the path.             *)
ObjectKeys == Users \X Addresses

VARIABLE answer     \* what the last request said it wrote: where, and the row

gwVars == <<nodes, usage, objects, grants, clock, answer>>

(* The guards and queries of FileTree on a table in the middle of a        *)
(* request.                                                                *)
Then(t) == INSTANCE FileTree WITH nodes <- t

Wrote(root, path, n, self) == [root |-> root, path |-> path, node |-> n, self |-> self]

-----------------------------------------------------------------------------
(* Addresses.                                                              *)

(* _resolve of WebDAV and _descend of S3: one live child per name.         *)
_resolve(t, root, path) ==
    FoldLeft(LAMBDA found, name : UNION {get_child_by_name(t, n, name) : n \in found},
             {root}, path)

(* resolve_key: which keys of u name a path of v.  A first segment that is *)
(* the reserved name makes a key one of the shared view, so what stands    *)
(* under that name at the root of the own tree has no key.                 *)
resolve_key(u, v, path) == v = u => Head(path) # Reserved

SharedWith(u) == {g[2] : g \in {g \in grants : g[1] = u}}

(* Beneath a node of v that is shared with u, and not beneath another one. *)
InSharedView(t, u, v, n) ==
    \E m \in Chain(t, n) \cap SharedWith(u) :
        t[m].owner = v /\ ancestors(t, m) \cap SharedWith(u) = {}

(* resolve_object: the file a key leads to.  Keys of the shared view have  *)
(* the path in whatever tree the shared node is in.                        *)
resolve_object(t, u, v, path) ==
    {n \in UNION {_resolve(t, r, path) : r \in IF v = u THEN {RootOf[u]} ELSE Roots} :
        /\ t[n].kind = "file"
        /\ resolve_key(u, v, path)
        /\ v # u => InSharedView(t, u, v, n)}

(* _child_or_create: the folder that is there, or a new one by the guards  *)
(* of create_folder; a file in the way refuses.                            *)
_child_or_create(u, at, name) ==
    LET t == at.t
        p == at.folder
        there == get_child_by_name(t, p, name)
        allowed == /\ Then(t)!MayEdit(u, p) /\ Then(t)!IsFolder(p)
                   /\ Then(t)!_ensure_not_reserved_root_name(p, name)
                   /\ Then(t)!_ensure_depth(p)
    IN  IF there # {}
        THEN {[t |-> t, folder |-> m] : m \in {m \in there : Then(t)!IsFolder(m)}}
        ELSE {[t |-> WithRow(t, n, Folder(t[p].owner, p, name)), folder |-> n] :
                n \in IF allowed THEN OneOf(Then(t)!Fresh) ELSE {}}

(* _ensure_parents, from the root of the owner the key names: the table    *)
(* and the folder it leads to, or nothing.                                 *)
_ensure_parents(u, root, segments) ==
    FoldLeft(LAMBDA S, name : UNION {_child_or_create(u, at, name) : at \in S},
             {[t |-> nodes, folder |-> root]}, segments)

-----------------------------------------------------------------------------
(* Content.                                                                *)

(* ContentService.upload of a new file into a table of the request.        *)
Uploaded(u, root, path, t, p, size) ==
    LET o == t[p].owner IN
    /\ Then(t)!MayEdit(u, p) /\ Then(t)!IsFolder(p)
    /\ ~ would_exceed(usage[o], Quota[o], size)
    /\ \E n \in OneOf(Then(t)!Fresh) :
        /\ nodes' = WithRow(t, n, File(o, p, Last(path), size))
        /\ objects' = [objects EXCEPT ![n] = 1]
        /\ answer' = Wrote(root, path, n, FALSE)
    /\ usage' = [usage EXCEPT ![o] = charge_live(@, size)]
    /\ UNCHANGED <<grants, clock>>

(* put_object of S3: folders on the way, then upload, onto the file that   *)
(* has the name or as a new one.  A folder with the name refuses.          *)
put_object(u, v, path, size) ==
    /\ resolve_key(u, v, path)
    /\ \E at \in _ensure_parents(u, RootOf[v], Front(path)) :
        LET existing == get_child_by_name(at.t, at.folder, Last(path)) IN
        \/ existing = {} /\ Uploaded(u, RootOf[v], path, at.t, at.folder, size)
        \/ \E n \in existing : /\ MayEdit(u, at.folder)
                               /\ upload_version(u, n, size)
                               /\ answer' = Wrote(RootOf[v], path, n, FALSE)

(* PUT of WebDAV: into a folder that exists; replace names the file, so it *)
(* is the file that must be writable.                                      *)
dav_put(u, path, size) ==
    \E p \in _resolve(nodes, RootOf[u], Front(path)) :
        LET existing == get_child_by_name(nodes, p, Last(path)) IN
        \/ existing = {} /\ Uploaded(u, RootOf[u], path, nodes, p, size)
        \/ \E n \in existing : /\ MayEdit(u, n)
                               /\ upload_version(u, n, size)
                               /\ answer' = Wrote(RootOf[u], path, n, FALSE)

dav_mkcol(u, path) ==
    \E p \in _resolve(nodes, RootOf[u], Front(path)), n \in OneOf(Fresh) :
        /\ create_folder(u, p, n, Last(path))
        /\ answer' = Wrote(RootOf[u], path, n, FALSE)

-----------------------------------------------------------------------------
(* Deletion.  An S3 key names files only, and deleting nothing succeeds.   *)

dav_delete(u, path) ==
    /\ \E n \in _resolve(nodes, RootOf[u], path) : delete(u, n)
    /\ answer' = NoAnswer

(* delete of one row in the middle of a request.                           *)
Trash(s, n) ==
    [t |-> soft_delete_subtree(s.t, n, s.clock + 1),
     usage |-> [s.usage EXCEPT ![s.t[n].owner] =
                    move_to_trash(@, Then(s.t)!bytes_trashed(n))],
     clock |-> s.clock + 1]

Before == [t |-> nodes, usage |-> usage, clock |-> clock]

(* _delete_one: a key that may not be deleted is reported and the next one *)
(* is tried.                                                               *)
_delete_one(u, s, key) ==
    LET found == resolve_object(s.t, u, key[1], key[2])
        n == CHOOSE m \in found : TRUE
    IN  IF found # {} /\ Then(s.t)!MayOwn(u, n) THEN Trash(s, n) ELSE s

delete_objects(u, keys) ==
    LET after == FoldLeft(LAMBDA s, key : _delete_one(u, s, key), Before, keys) IN
    /\ after # Before /\ after.clock <= MaxDeletes
    /\ nodes' = after.t /\ usage' = after.usage /\ clock' = after.clock
    /\ answer' = NoAnswer
    /\ UNCHANGED <<objects, grants>>

-----------------------------------------------------------------------------
(* COPY and MOVE.                                                          *)

(* NodeService.copy in the middle of a request.                            *)
Copied(u, root, path, s, from, p) ==
    /\ Then(s.t)!CanCopy(u, from, p, Last(path))
    /\ \E S \in Then(s.t)!CopiedSets(from) :
       \E f \in OneOf(Injection(S, Then(s.t)!Fresh)) :
        LET bytes == BytesOf(s.t, S)
            source(m) == CHOOSE n \in S : f[n] = m
        IN  /\ bytes > 0 => ~ would_exceed(s.usage[u], Quota[u], bytes)
            /\ nodes' = [m \in DOMAIN s.t \cup Range(f) |->
                            IF m \in Range(f)
                            THEN Then(s.t)!CopyRow(u, from, p, Last(path), f, source(m))
                            ELSE s.t[m]]
            /\ usage' = [s.usage EXCEPT ![u] = charge_live(@, bytes)]
            /\ objects' = [m \in Nodes |->
                            IF m \in Range(f) /\ s.t[source(m)].kind = "file"
                            THEN 1 ELSE objects[m]]
            /\ clock' = s.clock
            /\ answer' = Wrote(root, path, f[from], FALSE)
            /\ UNCHANGED grants

(* CopyObject of S3, which does not overwrite.  Both keys may be of the    *)
(* shared view.                                                            *)
copy_object(u, v, key, path) ==
    \E from \in resolve_object(nodes, u, key[1], key[2]) :
    \E at \in _ensure_parents(u, RootOf[v], Front(path)) :
        /\ resolve_key(u, v, path)
        /\ Copied(u, RootOf[v], path, [Before EXCEPT !.t = at.t], from, at.folder)

(* What Overwrite does: the occupant of the destination is trashed first.  *)
overwritten(u, p, name) ==
    LET clash == get_child_by_name(nodes, p, name)
    IN  IF clash = {} THEN {Before}
        ELSE {Trash(Before, c) : c \in {c \in clash : MayOwn(u, c) /\ clock < MaxDeletes}}

dav_copy(u, key, path) ==
    \E from \in _resolve(nodes, RootOf[u], key), p \in _resolve(nodes, RootOf[u], Front(path)) :
    \E s \in overwritten(u, p, Last(path)) : Copied(u, RootOf[u], path, s, from, p)

(* A variant that renames only what stays in its folder. *)
RenamesInPlace(n, p, name) == p = nodes[n].parent /\ name # nodes[n].name

Renames(n, p, name) == name # nodes[n].name

(* MOVE: a move if the folder differs from the one that was read, then a   *)
(* rename if the name does, each with its own guards.  A MOVE of a row     *)
(* onto itself needs neither: the row has gone to the trash, as occupant.  *)
dav_move(u, key, path) ==
    \E n \in _resolve(nodes, RootOf[u], key), p \in _resolve(nodes, RootOf[u], Front(path)) :
    \E s \in overwritten(u, p, Last(path)) :
        LET moves == p # nodes[n].parent
            renames == Renames(n, p, Last(path))
            moved == IF moves THEN [s.t EXCEPT ![n].parent = p] ELSE s.t
        IN  /\ moves => /\ Then(s.t)!MayEdit(u, n) /\ Then(s.t)!MayEdit(u, p)
                        /\ Then(s.t)!CanMove(n, p)
            /\ renames => /\ Then(moved)!MayEdit(u, n) /\ ~ IsRoot(n)
                          /\ Then(moved)!_ensure_name_free(p, Last(path), n)
            /\ nodes' = IF renames THEN [moved EXCEPT ![n].name = Last(path)] ELSE moved
            /\ usage' = s.usage /\ clock' = s.clock
            /\ answer' = Wrote(RootOf[u], path, n, ~ moves /\ ~ renames)
            /\ UNCHANGED <<objects, grants>>

-----------------------------------------------------------------------------
GwInit == Init /\ answer = NoAnswer

(* WebDAV, by method. *)
_handle(u, path) ==
    \/ \E size \in Sizes : dav_put(u, path, size)
    \/ dav_mkcol(u, path)
    \/ dav_delete(u, path)
    \/ \E key \in Addresses : dav_copy(u, key, path) \/ dav_move(u, key, path)

(* S3, on a key and on a bucket.  A DELETE of one key is a batch of one.   *)
_dispatch_object(u, path) ==
    \E v \in Users :
        \/ \E size \in Sizes : put_object(u, v, path, size)
        \/ \E key \in ObjectKeys : copy_object(u, v, key, path)

Batches == UNION {[1 .. k -> ObjectKeys] : k \in 1 .. MaxBatch}

_dispatch_bucket(u) == \E keys \in Batches : delete_objects(u, keys)

GwNext ==
    \/ \E u \in Users, path \in Addresses : _handle(u, path) \/ _dispatch_object(u, path)
    \/ \E u \in Users : _dispatch_bucket(u)
    \/ Next /\ answer' = NoAnswer

GwSpec == GwInit /\ [][GwNext]_gwVars

-----------------------------------------------------------------------------
(* The address of a request that was answered with success leads to the    *)
(* row it wrote, through the folders it created and past whatever it       *)
(* displaced -- but for a MOVE of a row onto itself.                       *)
WrittenIsFound ==
    answer # NoAnswer /\ ~ answer.self
        => _resolve(nodes, answer.root, answer.path) = {answer.node}
=============================================================================
