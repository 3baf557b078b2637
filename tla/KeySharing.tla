----------------------------- MODULE KeySharing -----------------------------
(***************************************************************************)
(* Who can open an encrypted file: the data keys wrapped for each user, as *)
(* uploads, conversions, shares, the job that completes large shares,      *)
(* moves, copies, transfers and the trash change them.  One folder is      *)
(* shared; every user also has a root folder nobody else reaches.  Each    *)
(* use case is one transaction; the rewrap job is one per pending grant.   *)
(* A data key is its number: a wrapped copy of it says which key its       *)
(* holder gets, and a sealed version says which key opens it.              *)
(***************************************************************************)
EXTENDS Integers, FiniteSets, Sequences, SequencesExt

CONSTANTS
    Users,          \* provisioned users
    Files,          \* ids files may take
    Docs,           \* the shared folder
    Creator,        \* who made it
    Roles,          \* the roles owners grant
    Threshold,      \* async_rewrap_threshold_nodes
    Retention,      \* version_retention_count
    MaxRequests     \* bound: requests in one behaviour; the job runs on

Ranks == [viewer |-> 1, editor |-> 2, owner |-> 3]

ASSUME KeyAssumption ==
    /\ Creator \in Users
    /\ Docs \notin Users \cup Files
    /\ Users \cap Files = {}
    /\ Roles \subseteq DOMAIN Ranks
    /\ Threshold \in Nat
    /\ Retention \in Nat \ {0}
    /\ MaxRequests \in Nat

VARIABLES
    files,      \* the rows of files
    docs,       \* the row of the folder
    keys,       \* wrapped_data_keys: the key wrapped for a user, or NoKey
    active,     \* grants that give access, as <<node, user, role>>
    pending,    \* grants that wait for the job, with created_at
    minted,     \* how many data keys there are
    requests    \* how many requests were served

vars == <<files, docs, keys, active, pending, minted, requests>>

(* A plaintext version, and a user without a wrapped key.                  *)
NoKey == 0

(* Where a file lives: the shared folder, or a user's root folder.         *)
Homes == Users \cup {Docs}

Init ==
    /\ files = << >>
    /\ docs = [owner |-> Creator, live |-> TRUE]
    /\ keys = [p \in Files \X Users |-> NoKey]
    /\ active = {}
    /\ pending = {}
    /\ minted = 0
    /\ requests = 0

-----------------------------------------------------------------------------
(* The tree and the roles on it.                                           *)

Shareable == DOMAIN files \cup {Docs}

Live(n) == IF n = Docs THEN docs.live ELSE files[n].trash = "no"

OwnerOf(n) == IF n = Docs THEN docs.owner ELSE files[n].owner

(* The files a grant on n reaches, trashed ones included.                  *)
Under(n) == IF n = Docs THEN {f \in DOMAIN files : files[f].home = Docs} ELSE {n}

LiveUnder(n) == {f \in Under(n) : Live(f)}

(* n and the shareable nodes above it.                                     *)
Above(n) == {n} \cup (IF n \in DOMAIN files /\ files[n].home = Docs THEN {Docs} ELSE {})

(* Ownership, or an active grant on the node or above it.                  *)
HasRole(u, n, role) ==
    \/ OwnerOf(n) = u
    \/ \E g \in active : g[1] \in Above(n) /\ g[2] = u /\ Ranks[g[3]] >= Ranks[role]

May(u, n, role) == n \in Shareable /\ Live(n) /\ HasRole(u, n, role)

(* A new file goes into a folder the caller may edit, and belongs to the   *)
(* owner of the folder.                                                    *)
MayFill(u, home) == IF home = Docs THEN May(u, Docs, "editor") ELSE home = u

HomeOwner(home) == IF home = Docs THEN docs.owner ELSE home

-----------------------------------------------------------------------------
(* Sealing content.                                                        *)

Current(f) == Last(files[f].versions)

(* data_key_for and open: without the key, or with another, nothing opens. *)
Opens(u, f, version) == version = NoKey \/ keys[<<f, u>>] = version

Retained(versions) ==
    SubSeq(versions, 1 + (IF Len(versions) > Retention THEN 1 ELSE 0), Len(versions))

(* ensure_data_key: whose wrapped key seals a version u writes to f.  The  *)
(* variant takes the writer's.                                             *)
KeyOfWriter(u, f) == u

KeyOfOwner(u, f) == files[f].owner

ensure_data_key(f, o) == IF keys[<<f, o>>] = NoKey THEN minted + 1 ELSE keys[<<f, o>>]

(* _store_version of a file that is encrypted or not from now on.          *)
_store_version(u, f, encrypted) ==
    LET o == KeyOfOwner(u, f)
        key == IF encrypted THEN ensure_data_key(f, o) ELSE NoKey
    IN  /\ files' = [files EXCEPT ![f].encrypted = encrypted,
                                  ![f].versions = Retained(Append(@, key))]
        /\ minted' = IF key > minted THEN key ELSE minted
        /\ keys' = IF encrypted THEN [keys EXCEPT ![<<f, o>>] = key] ELSE keys

upload_new(u, home, f, encrypted) ==
    LET o == HomeOwner(home)
        key == IF encrypted THEN minted + 1 ELSE NoKey
    IN  /\ MayFill(u, home)
        /\ f \in Files \ DOMAIN files
        /\ files' = [g \in DOMAIN files \cup {f} |->
                        IF g = f THEN [home |-> home, owner |-> o, trash |-> "no",
                                       encrypted |-> encrypted, versions |-> <<key>>]
                        ELSE files[g]]
        /\ keys' = [keys EXCEPT ![<<f, o>>] = key]
        /\ minted' = minted + (IF encrypted THEN 1 ELSE 0)
        /\ UNCHANGED <<docs, active, pending>>

(* upload onto a name that exists, and replace.                            *)
upload_version(u, f) ==
    /\ Live(f)
    /\ May(u, f, "editor") \/ MayFill(u, files[f].home)
    /\ _store_version(u, f, files[f].encrypted)
    /\ UNCHANGED <<docs, active, pending>>

(* delete_data_keys_for_node; the variant forgets it.                      *)
KeysKept(f) == keys

delete_data_keys_for_node(f) == [p \in Files \X Users |-> IF p[1] = f THEN NoKey ELSE keys[p]]

(* The current content is read under the old setting and stored under the  *)
(* new one.  Turned off, the wrapped keys go -- of all versions.           *)
set_encryption(u, f, encrypted) ==
    /\ May(u, f, "owner")
    /\ files[f].encrypted # encrypted
    /\ Opens(u, f, Current(f))
    /\ \/ encrypted /\ _store_version(u, f, TRUE)
       \/ /\ ~encrypted
          /\ files' = [files EXCEPT ![f].encrypted = FALSE,
                                    ![f].versions = Retained(Append(@, NoKey))]
          /\ keys' = delete_data_keys_for_node(f)
          /\ UNCHANGED minted
    /\ UNCHANGED <<docs, active, pending>>

(* The object is copied as it is, sealed or not.                           *)
restore_version(u, f, i) ==
    /\ May(u, f, "editor")
    /\ i \in DOMAIN files[f].versions
    /\ files' = [files EXCEPT ![f].versions = Retained(Append(@, files[f].versions[i]))]
    /\ UNCHANGED <<docs, keys, active, pending, minted>>

(* A copy has the flag of its source, the sealed bytes and, if they are    *)
(* sealed, the caller's key of the source.                                 *)
copy(u, f, home, g) ==
    /\ May(u, f, "viewer")
    /\ MayFill(u, home)
    /\ g \in Files \ DOMAIN files
    /\ Current(f) # NoKey => keys[<<f, u>>] # NoKey
    /\ files' = [h \in DOMAIN files \cup {g} |->
                    IF h = g THEN [home |-> home, owner |-> u, trash |-> "no",
                                   encrypted |-> files[f].encrypted, versions |-> <<Current(f)>>]
                    ELSE files[h]]
    /\ keys' = [keys EXCEPT ![<<g, u>>] = IF Current(f) = NoKey THEN NoKey ELSE keys[<<f, u>>]]
    /\ UNCHANGED <<docs, active, pending, minted>>

-----------------------------------------------------------------------------
(* Sharing.                                                                *)

(* What a share of n has to wrap: every live encrypted file under it.  The *)
(* variant stops at n.                                                     *)
EncryptedItself(n) == {f \in LiveUnder(n) \cap {n} : files[f].encrypted}

Encrypted(n) == {f \in LiveUnder(n) : files[f].encrypted}

(* rewrap_for gives s the owner's key of f, unless s has one; an owner     *)
(* without a key fails the transaction.                                    *)
Rewrappable(S, s) == \A f \in S : keys[<<f, s>>] # NoKey \/ keys[<<f, files[f].owner>>] # NoKey

rewrap_for(S, s) ==
    [p \in Files \X Users |->
        IF p[1] \in S /\ p[2] = s /\ keys[p] = NoKey THEN keys[<<p[1], files[p[1]].owner>>]
        ELSE keys[p]]

Names(g, n, s) == g[1] = n /\ g[2] = s

(* find: a grant in whatever state.  The variant sees active ones only.    *)
ActiveGrant(n, s) == \E g \in active : Names(g, n, s)

Granted(n, s) == \E g \in active \cup pending : Names(g, n, s)

_grant_pending(u, n, s, role) ==
    /\ May(u, n, "owner")
    /\ s # u
    /\ ~Granted(n, s)
    /\ Cardinality(Encrypted(n)) > Threshold
    /\ pending' = pending \cup {<<n, s, role, requests>>}
    /\ UNCHANGED <<files, docs, keys, active, minted>>

(* The synchronous path, also taken for a grant that exists: it gets the   *)
(* new role and stays pending if it is.                                    *)
_grant_now(u, n, s, role) ==
    /\ May(u, n, "owner")
    /\ s # u
    /\ Granted(n, s) \/ Cardinality(Encrypted(n)) <= Threshold
    /\ Rewrappable(Encrypted(n), s)
    /\ keys' = rewrap_for(Encrypted(n), s)
    /\ pending' = {IF Names(g, n, s) THEN <<n, s, role, g[4]>> ELSE g : g \in pending}
    /\ active' = IF \E g \in pending : Names(g, n, s) THEN active
                 ELSE {g \in active : ~Names(g, n, s)} \cup {<<n, s, role>>}
    /\ UNCHANGED <<files, docs, minted>>

Dropped(n, s) ==
    /\ active' = {g \in active : ~Names(g, n, s)}
    /\ pending' = {g \in pending : ~Names(g, n, s)}

(* _revoke_keys: the live files under n.                                   *)
WithoutKeys(S, s) == [p \in Files \X Users |-> IF p[1] \in S /\ p[2] = s THEN NoKey ELSE keys[p]]

(* By the owner of the node, or by the recipient.                          *)
revoke(u, n, s) ==
    /\ n \in Shareable
    /\ Live(n)
    /\ u \in {OwnerOf(n), s}
    /\ s # OwnerOf(n)
    /\ Granted(n, s)
    /\ Dropped(n, s)
    /\ keys' = WithoutKeys(LiveUnder(n), s)
    /\ UNCHANGED <<files, docs, minted>>

(* The job takes pending grants oldest first and ends at the first whose   *)
(* keys cannot be wrapped.  Keys it adds are not in the database when it   *)
(* looks whether all are there, so it activates a grant only when an       *)
(* earlier run, or somebody else, has wrapped every key.                   *)
_fully_rewrapped(n, s) == \A f \in Encrypted(n) : keys[<<f, s>>] # NoKey

(* A variant that keeps nothing of a pass that could not activate.         *)
RewrapJob_rolled_back(g) ==
    LET n == g[1]
        s == g[2]
    IN  /\ \A h \in pending : h[4] < g[4] => Rewrappable(Encrypted(h[1]), h[2])
        /\ \/ /\ ~Live(n)
              /\ Dropped(n, s)
              /\ keys' = WithoutKeys({n} \cap Files, s)
           \/ /\ Live(n)
              /\ _fully_rewrapped(n, s)
              /\ keys' = keys
              /\ active' = active \cup {<<n, s, g[3]>>}
              /\ pending' = pending \ {g}
        /\ UNCHANGED <<files, docs, minted>>

RewrapJob(g) ==
    LET n == g[1]
        s == g[2]
    IN  /\ \A h \in pending : h[4] < g[4] => Rewrappable(Encrypted(h[1]), h[2])
        /\ \/ /\ ~Live(n)
              /\ Dropped(n, s)
              /\ keys' = WithoutKeys({n} \cap Files, s)
           \/ /\ Live(n)
              /\ Rewrappable(Encrypted(n), s)
              /\ keys' = rewrap_for(Encrypted(n), s)
              /\ \/ /\ _fully_rewrapped(n, s)
                    /\ active' = active \cup {<<n, s, g[3]>>}
                    /\ pending' = pending \ {g}
                 \/ ~_fully_rewrapped(n, s) /\ UNCHANGED <<active, pending>>
        /\ UNCHANGED <<files, docs, minted>>

(* Every file under n, trashed ones too, is wrapped for the recipient      *)
(* before it changes hands.  Who keeps access as an editor is wrapped for  *)
(* through the old owner of what lies beneath n, and through the new owner *)
(* of n itself, whose key counts only if it was there before.              *)
transfer_ownership(u, n, v, keep) ==
    LET S == {f \in Under(n) : files[f].encrypted}
        source(f) == IF f = n THEN v ELSE files[f].owner
    IN  /\ May(u, n, "owner")
        /\ u # v
        /\ Rewrappable(S, v)
        /\ keep => /\ ~Granted(n, u)
                   /\ \A f \in Encrypted(n) : keys[<<f, u>>] # NoKey \/ keys[<<f, source(f)>>] # NoKey
        /\ files' = [f \in DOMAIN files |->
                        IF f \in Under(n) THEN [files[f] EXCEPT !.owner = v] ELSE files[f]]
        /\ docs' = IF n = Docs THEN [docs EXCEPT !.owner = v] ELSE docs
        /\ keys' = [p \in Files \X Users |->
                        IF keep /\ p[1] \in Encrypted(n) /\ p[2] = u /\ keys[p] = NoKey
                        THEN keys[<<p[1], source(p[1])>>] ELSE rewrap_for(S, v)[p]]
        /\ active' = IF keep THEN active \cup {<<n, u, "editor">>} ELSE active
        /\ UNCHANGED <<pending, minted>>

-----------------------------------------------------------------------------
(* Moves and the trash: no key changes hands, only a purge drops keys.     *)

move(u, f, home) ==
    /\ May(u, f, "editor")
    /\ MayFill(u, home)
    /\ HomeOwner(home) = files[f].owner
    /\ home # files[f].home
    /\ files' = [files EXCEPT ![f].home = home]
    /\ UNCHANGED <<docs, keys, active, pending, minted>>

delete(u, n) ==
    /\ May(u, n, "owner")
    /\ files' = [f \in DOMAIN files |->
                    IF f \in LiveUnder(n)
                    THEN [files[f] EXCEPT !.trash = IF n = Docs THEN "with folder" ELSE "alone"]
                    ELSE files[f]]
    /\ docs' = IF n = Docs THEN [docs EXCEPT !.live = FALSE] ELSE docs
    /\ UNCHANGED <<keys, active, pending, minted>>

restore(u, n) ==
    /\ n \in Shareable
    /\ ~Live(n)
    /\ OwnerOf(n) = u
    /\ files' = [f \in DOMAIN files |->
                    IF f = n /\ files[f].home = Docs /\ ~docs.live
                    THEN [files[f] EXCEPT !.trash = "no", !.home = u]
                    ELSE IF f = n \/ (n = Docs /\ f \in Under(n) /\ files[f].trash = "with folder")
                    THEN [files[f] EXCEPT !.trash = "no"]
                    ELSE files[f]]
    /\ docs' = IF n = Docs THEN [docs EXCEPT !.live = TRUE] ELSE docs
    /\ UNCHANGED <<keys, active, pending, minted>>

purge(u, f) ==
    /\ ~Live(f)
    /\ files[f].owner = u
    /\ files' = [g \in DOMAIN files \ {f} |-> files[g]]
    /\ keys' = delete_data_keys_for_node(f)
    /\ active' = {g \in active : g[1] # f}
    /\ pending' = {g \in pending : g[1] # f}
    /\ UNCHANGED <<docs, minted>>

-----------------------------------------------------------------------------
Contents ==
    \/ \E u \in Users, home \in Homes, g \in Files :
            \/ \E encrypted \in BOOLEAN : upload_new(u, home, g, encrypted)
            \/ \E f \in DOMAIN files : copy(u, f, home, g)
    \/ \E u \in Users, f \in DOMAIN files :
            \/ upload_version(u, f)
            \/ \E encrypted \in BOOLEAN : set_encryption(u, f, encrypted)
            \/ \E i \in 1 .. Retention : restore_version(u, f, i)

Sharing ==
    \E u \in Users, n \in Shareable, s \in Users :
        \/ \E role \in Roles : _grant_pending(u, n, s, role) \/ _grant_now(u, n, s, role)
        \/ revoke(u, n, s)
        \/ \E keep \in BOOLEAN : transfer_ownership(u, n, s, keep)

Tree ==
    \/ \E u \in Users, f \in DOMAIN files :
            \/ \E home \in Homes : move(u, f, home)
            \/ purge(u, f)
    \/ \E u \in Users, n \in Shareable : delete(u, n) \/ restore(u, n)

Request ==
    /\ requests < MaxRequests
    /\ requests' = requests + 1
    /\ Contents \/ Sharing \/ Tree

Job ==
    /\ \E g \in pending : RewrapJob(g)
    /\ UNCHANGED requests

Next == Request \/ Job

(* app.py starts the scheduler of the job with the service, whatever the   *)
(* settings; requests need never come.                                     *)
Spec == Init /\ [][Next]_vars /\ WF_vars(Job)

-----------------------------------------------------------------------------
(* A node is shared with a user at most once, pending or active: neither a *)
(* grant repeated while the job has not come to the first, nor a transfer  *)
(* that leaves its old owner a role, makes a second one.                   *)
OneGrantEach ==
    \A g, h \in active \cup pending : Names(g, h[1], h[2]) => g = h

(* No wrapped key outlives what it is for: a file that is plaintext now,   *)
(* or was purged, has none, whoever it was shared with.                    *)
PlaintextHasNoKeys ==
    \A f \in Files, u \in Users :
        keys[<<f, u>>] # NoKey => f \in DOMAIN files /\ files[f].encrypted

(* A share is usable when it appears: whenever a grant becomes active,     *)
(* directly, by the job or by a transfer, the recipient holds a key for    *)
(* every live encrypted file it reaches at that moment.                    *)
ActivationComplete ==
    [][\A g \in active' \ active : \A f \in DOMAIN files' :
            /\ g[1] \in Above(f)'
            /\ files'[f].trash = "no" /\ files'[f].encrypted
            => keys'[<<f, g[2]>>] # NoKey]_vars

(* The owner, and whoever was granted the file or the folder it is in.     *)
Entitled(u, f) ==
    \/ files[f].owner = u
    \/ \E g \in active \cup pending : g[1] \in Above(f) /\ g[2] = u

(* No step wraps a key for somebody the file is not shared with: neither   *)
(* an upload by somebody else, nor a job that runs late, nor a transfer.   *)
KeysOnlyForEntitled ==
    [][\A f \in DOMAIN files', u \in Users :
            keys'[<<f, u>>] # keys[<<f, u>>] /\ keys'[<<f, u>>] # NoKey => Entitled(u, f)']_vars

(* The job comes to an end with every deferred share, also when files are  *)
(* added, revoked, moved, trashed or transferred between its passes -- but *)
(* for an encrypted file whose owner has no key, which stops it for good,  *)
(* for the shares behind it too.                                           *)
OwnersHoldKeys ==
    \A f \in DOMAIN files :
        Live(f) /\ files[f].encrypted => keys[<<f, files[f].owner>>] # NoKey

DeferredSharesSettle == pending # {} ~> pending = {} \/ ~OwnersHoldKeys

(* The owner of a live file can open its current content.                  *)
OwnerOpensCurrent ==
    \A f \in DOMAIN files : Live(f) => Opens(files[f].owner, f, Current(f))
=============================================================================
