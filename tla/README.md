# CyberFS in TLA+

CyberFS is a multi-user file store: a FastAPI service that keeps a tree of
folders and files in Postgres, content in an S3 store (MinIO), permission
decisions in Redis, and per-file encryption keys wrapped for every user a file
is shared with. This directory models the parts of it that carry its logic,
checks them with TLC on small instances and proves the central ones with TLAPS.

All paths below are relative to `src/src/cyberfs/`; `PROJECT.json` maps each
definition to the lines it stands for.

## The system

| part | state it keeps | operations | what makes it correct |
|---|---|---|---|
| node tree and trash (`application/nodes.py`, `application/purge.py`) | `nodes` rows: parent, name, owner, `deleted_at` | create, rename, move, copy, delete, restore, purge, empty trash | the rows form trees below the root folders; live siblings have different names; the trash holds whole subtrees; a restore undoes one deletion; only trash is destroyed |
| content and versions (`application/content.py`) | `file_versions` rows, objects in the store | upload, replace, restore a version, convert, prune, download | rows and objects correspond; retention is kept; the owner can read the current version |
| quota (`domain/users.py`) | live, trashed and version bytes per user | charge, move to trash and back, purge, reconcile | nobody stores more than their quota; the live and the trashed counter equal a recomputation (that of version bytes does not, see *Known deviations*) |
| sharing (`application/sharing.py`) | `grants` rows, pending or active | grant, regrant, revoke, transfer, public links | access follows grants at once; a share that appears is usable |
| keys (`application/encryption.py`) | a wrapped data key per file and user | mint, reuse, copy, wrap, revoke, destroy, rotate | exactly the entitled hold a key; a sealed version has a key that opens it |
| cache (`application/caching.py`, `domain/cache.py`, `adapters/outbound/cache/`) | Redis entries; in-flight loads and a circuit breaker per process | get or load, invalidate | never decides by a withdrawn grant; concurrent misses load once |
| jobs (`application/jobs.py`, `infrastructure/scheduler.py`) | none | purge expired trash, reap orphans, reconcile quotas, complete pending grants, prune activity | what they remove is garbage; what they complete is complete |
| units of work (`adapters/outbound/db/`) | the transaction | begin, lock, flush, commit, roll back | overlapping requests do not corrupt the tree |
| users, access keys, public links (`application/provisioning.py`, `s3_keys.py`, `sharing.py`) | `users`, `s3_access_keys`, `public_links`; a limiter per process | provision, refresh, use, revoke, set quota, guess | one home per subject; guesses bounded per link and address; counts not inflated; requests end |
| multipart uploads (`application/s3_objects.py`) | upload and part rows, staged objects | begin, part, complete, abort, reap | what is assembled is what was listed; acknowledged parts stay; nothing is charged twice |
| S3 and WebDAV surfaces (`routers/s3.py`, `routers/webdav.py`) | none | several use cases per request | the address a request wrote leads to what it wrote; the listing, the resolver and the access rule agree |
| pages and search (`domain/pagination.py`, `adapters/outbound/db/repositories.py`) | a cursor at the client | page | a walk returns each row that stayed put, once |
| sealed content (`domain/framing.py`, `adapters/outbound/cipher.py`) | an object of frames | seal, open, open a range | only true bytes are served; an intact object opens |
| labels (`application/nodes.py`, `domain/labels.py`) | `node_tags`, `node_metadata`, a revision | replace, patch, search, inventory | what was answered is what is stored; limits hold |
| authentication (`application/authentication.py`, `adapters/outbound/auth/`) | key set, discovery and service token in memory; a limiter | verify, refetch, introspect | a withdrawn key is refused in time; the issuer is not flooded |
| backup (`application/backup.py`, `restore.py`, `infrastructure/scheduler.py`) | `backup_records`, artifacts in the backup store | dump, mirror, verify, prune, restore | a verified backup covers what was there; retention keeps the newest; runs end |
| audit, health, dashboard, migrations, HTTP parsing | see `components` in `PROJECT.json` | | |

They meet in three ways. A router opens a unit of work, calls one use case and
commits (so a use case is one transaction, and everything it does to the object
store or to Redis happens *before* the commit). Jobs run the same repository
operations from a scheduler, in any worker. Worker processes share Postgres,
Redis and the store, and nothing else.

What is hard: requests that overlap at READ COMMITTED; a decision taken on rows
that have changed by the time of the write; side effects that a rollback does
not undo; the cascade of the foreign key against purges that go row by row;
counters that are clamped at zero; keys, grants and ownership that change
independently; a cache that fails on its own; rows that every use writes back;
objects and rows that are written one after the other; an issuer that rotates
its keys; a backup taken while files come and go. `hazards` in `PROJECT.json` lists
each one at its line with the properties that watch it.

## Modules

| module | models | checked by |
|---|---|---|
| `QuotaUsage` | the arithmetic of `domain/users.py` `QuotaUsage` | used by `FileTree` |
| `NodeTree` | the queries of `SqlNodeRepository`: ancestors, subtree, children by name, soft delete, restore, cascade | used by `FileTree`, `ConcurrentTree` |
| `FileTree` | all use cases on the tree, content, quota and objects, and three jobs, one transaction per step | `MCFileTree`, `FileTreeProofs` |
| `ConcurrentTree` | six of those requests, each in up to three steps (lock, read, write and commit), overlapping | `MCOverlap`, `MCConcurrentTree`, `ConcurrentTreeProofs` |
| `PermissionCache` | one cached decision, its readers in several processes, the request that changes the grant, an unreliable Redis | `MCOverlap`, `PermissionCacheProofs` |
| `KeySharing` | who holds which data key, through content, sharing, the rewrap job, transfer and the trash | `MCKeySharing`, `EncryptionProofs` |
| `Gateways` | S3 and WebDAV requests as sequences of `FileTree` use cases in one transaction; extends `FileTree` | `MCGateways`, `GatewaysProofs` |
| `Views` | what S3 listings, the key resolver, search and shared-with-me show of a table; extends `Gateways` | `MCGateways`, `GatewaysProofs` |
| `Credentials` | local users, access keys and public links in overlapping transactions | `MCOverlap`, `SurfaceProofs` |
| `Multipart` | multipart uploads and their reaper | `MCSurface`, `SurfaceProofs` |
| `Paging` | keyset pages over a changing table | `MCSurface`, `SurfaceProofs` |
| `Framing` | sealing, framing arithmetic, whole and range reads of a store that damages objects | `MCSurface`, `EncryptionProofs` |
| `Labels` | tags and metadata, search filters and the tag inventory | `MCSurface`, `SurfaceProofs` |
| `TokenTrust` | bearer tokens against an unreliable issuer | `MCSurface`, `SurfaceProofs` |
| `Backup` | backup runs on several replicas, retention, restore | `MCBackup`, `BackupProofs` |
| `BackupCatalogue` | what backups promise an operator; `Backup` implements it | `MCBackup` and `BackupProofs`, by `INSTANCE` |
| `CommonLemmas` | lemmas on chains, subtrees and sums | TLAPS |
| `FileTreeProofs`, `GatewaysProofs`, `ConcurrentTreeProofs`, `EncryptionProofs`, `PermissionCacheProofs`, `SurfaceProofs`, `BackupProofs` | theorems, see *What is proved* | TLAPS |

### FileTree

`nodes` is the table, each row with its version rows (a version is its size and
owner); `usage` the quota rows; `objects` how many objects lie under a node id;
`grants` the active grants, with their role (a copy needs to view its source,
everything else here to edit); `clock` the stamp of the last deletion (an
integer that grows, as `utcnow()` does). Actions have the names of the methods.
An action covers the whole use case: `upload_version` retires the current
version, checks the quota, charges, stores, and prunes. Names are the normalised
names; tags, content types and audit records are left out. Refused uploads and
copies are actions too when they leave an object behind. `PurgeJob` keeps what
makes it delicate: rows in order of age, ties in any order, a batch limit, and
rows that a cascade takes before their turn. A page of `list_children` bounds
what a copy sees. Definitions that a comment calls a *variant* are faulty forms
of the definition after them, used by `mutants` in `PROJECT.json`; no action
uses them.

### ConcurrentTree

A request reads committed rows and decides in one step, and writes and commits
in another: row locks keep the writes of two transactions apart, and each UPDATE
sets only the columns the use case changed. What a request read is in `tx[r]`;
what its statements evaluate again at the time of the write (the WHERE clause of
a soft delete or a restore) is evaluated on the table as it is then. `move`
first queues for the advisory lock on its destination. At the commit the unique
index on live siblings and the foreign key are checked, and a request that
fails them leaves nothing. The initial tables are all small trees that single
requests can produce.

### PermissionCache

A reader asks, looks into Redis, joins the computation of its process or starts
one, loads from committed grants, and writes the entry. The owner's request
writes the grant, invalidates, and commits, in this order. Each process has its
own breaker; a Redis that fails while the breaker is closed fails the
invalidation and thus the request, and an open breaker skips it. `Outage` and
`Recovery` are Redis itself.

### KeySharing

One shared folder, the users' root folders, and files in them. A data key is a
number; `keys[f, u]` is the key wrapped for `u`, a version is the number of the
key that sealed it or 0. Sessions do not autoflush (`infrastructure/db.py`), so
a query does not see keys the same transaction added; `RewrapJob` and the second
pass of `transfer_ownership` depend on it, and the model has it. Pending grants
carry the moment they were made, since the job takes the oldest first; each one
it handles is a transaction, so requests may fall between two.
Quota, names and sizes are `FileTree`'s subject and absent here.

### Gateways and Views

A WebDAV or S3 request names rows by path and is several use cases in one
transaction: folders on the way and then an upload, a displaced row trashed and
then a move, keys deleted one after the other. `Gateways` extends `FileTree` and
makes each such request one step; where a use case runs on the table an earlier
one left, its guards are those of `FileTree` instantiated with that table
(`Then(t)`). `answer` is what the request said it wrote. `Views` has the walks
that decide what a caller is shown, as functions of the table: listing descends,
authorization ascends, the resolver does both. `resolve_key` and `list_objects`
dispatch on the first segment of a key or a prefix: the reserved name sends it to
the shared view, whatever stands under that name in the caller's own tree.
Sources of a copy and deleted keys go through `resolve_object`, which takes keys
of both views; `ledger` has one user, so the shared branch is reached by the
theorems and not by that run.

### Credentials

Every use of an access key, a link or an account writes its row. `Dirty` and
`Written` are the session's unit of work: a repository's `update` reads the row
again, assigns the entity's columns, and the commit writes those that differed.
A request is `idle`, has read, has written, and commits or rolls back. The user
row is inserted under a unique index, so a second first request waits
(`inserting`) and fails once the winner has committed. The limiter of passphrases is per
process and counts in fixed windows, one for each link and source address
(`Windows`), as its key is both; `guessed` and `opened` are history.

### Multipart

A part is an object at a fixed key and a row; a caller's steps are: read the
upload, put the object, commit the row; or read the rows, read objects, store
the assembled content, commit; or delete objects one by one and commit. `fails`
may end any of them between any two. A completion names its parts: any
ascending, non-empty list of parts with rows, so a client may leave some out
(`Listings`). `discarded` is history: uploads whose
objects somebody began to delete. The version a completion adds prunes no older
one (`_charge`), and two completions of one file are not made to wait for each
other by the version sequence: more behaviours than the code has.

### Paging, Framing, Labels

`Paging` walks one listing while rows come, go and move; `steady` is history.
The surfaces differ in what orders them and what the cursor holds, and `Item` is
what each returns of a row. `Framing` cuts plaintext into cells and frames,
lets the store truncate or rearrange the object and the operator change
the frame size, and reads with chunks of any size; it states `ciphertext_size`,
`frame_count` and the span of a range as the code computes them. `Labels` has
two editors that lock, decide and write deltas, a rename that takes no lock but
bumps the same revision, and the queries of search and inventory.

### TokenTrust

One worker. A request checks the limiter, looks the key up in the cached key
set, fetches under a lock if it must, and asks for introspection if the
operation wants a fresh answer; it reads the clock once, at its start. The
issuer rotates and withdraws keys, deactivates the subject and is unreachable,
at any moment. The service token has its own cache and is refreshed once on a
refusal. `decoded` looks the key up for a token of any algorithm; the code
refuses a wrong algorithm first, so the model fetches in more cases.

### Backup and BackupCatalogue

Each replica has a scheduler that runs one backup at a time. A run dumps the
rows through a queue of bounded depth into an upload, lists and mirrors the
objects, writes the manifest, compares what landed meanwhile, verifies, and
prunes old backups artifact by artifact. Verification reads the
dump and any sample of the mirrored objects. Uploads put the object before the row
commits, purges delete it before the row goes. Ports fail, replicas crash. The
restore command reads the record of any state, the manifest, the dump and the
objects, in this order, while retention may be deleting them. `steady` is
history: files that have been live since a backup started; `finish` numbers the
moments at which backups finish, which is the order retention goes by.

`BackupCatalogue` is the abstract specification: a backup is absent, partial,
complete, pruned; and only one that a later complete backup supersedes is
pruned. `Backup` defines `status` and `done` from its records and artifacts and
instantiates the catalogue with them; `ImplementsCatalogue` is that
specification, checked as a property of the runs and proved.

## What TLC checks

| run | instance | shows |
|---|---|---|
| `tree` | two users, one owning the other's tree by grant and an administrator, 3 ids, 1 name, depth 3, 2 deletions, transfers, sweeps | `Rooted`, `TrashNested`, `SiblingNamesUnique`, `LiveRowsSurvive`, `OneDeletionRestored` |
| `quota` | two users, uploads of size 1 into quotas of 2, copies, strays, sweep, reaper, reconciliation | `StoredWithinQuota` |
| `ledger` | one user, size 1, quota 4, 2 retained versions, 2 deletions, S3 and WebDAV requests over paths of two names, one of them the reserved one, and batches of two beside the use cases, no sweep | `CountersExact`, `ObjectsReferenced`, `WrittenIsFound`, `SharedViewExact`, `OwnViewExact` |
| `shadow` | as `ledger` | **violation** of `ListedKeysResolve` |
| `moves` | the requests on the tree of `overlap`, two destinations | **violation** of `TreeAcyclic` |
| `keys` | two users, two files, 6 requests, threshold 1, retention 2 | `OneGrantEach`, `PlaintextHasNoKeys`, `ActivationComplete`, `KeysOnlyForEntitled`, `DeferredSharesSettle` |
| `content` | as `keys` | **violation** of `OwnerOpensCurrent` |
| `backup` | two replicas, two backups, one file, one fault, two days | `BackupCoversSteadyFiles`, `RestoreBringsBack`, `ImplementsCatalogue` |
| `hang` | one replica, a queue of two and a dump of three chunks, one fault | **violation** of `RunsEnd` |
| `surface` | five components that share no state, side by side: bearer tokens, multipart uploads, pages, frames, labels | `WithdrawnKeyRefused`, `RefetchesBounded`, `FreshMeansActive`; `AssembledAsListed`, `AcknowledgedPartsKept`, `ChargeNeverAhead`; `WalkComplete`; `OnlyTrueBytes`, `IntactIsReadable`; `AnswersHold`, `InventoryAgrees` |
| `overlap` | three components whose requests overlap, side by side: two transactions on credentials; two readers of one process, the owner in another, 2 changes and 1 outage; two requests of any kind over all trees of up to two folders, whose moves go to one destination | `ProvisionedOnce`, `GuessesBounded`, `CountNeverAhead`, `TransactionsEnd`; `OneLoadPerProcess`, `WaitersServed`, `StaleAllowEnds`; `TreeAcyclic`, `DeletionsKept`, `RequestsEnd` |
| `guesses` | one transaction, one link, two source addresses | **violation** of `GuessesPerLink` |

The five violations are disagreements between the code and its documents; the
findings in `PROJECT.json` quote both. In short:

- *moves.* `move` locks the destination. Two moves that conflict have different
  destinations, and both pass the check.
- *content.* Turning encryption off drops keys that retained versions need.
- *hang.* When the upload of a dump fails, the run waits for a dump that waits
  for room in a queue nobody reads any more; the scheduler of that replica then
  starts no further run.
- *guesses.* Wrong passphrases are limited for a link and a source address
  (`application/sharing.py:388`), so with two addresses more are tried on the link
  than a limit per link allows. `GuessesBounded` is what holds of each pair.
- *shadow.* Only `create_folder` refuses the reserved name at the root. A rename, a
  move or an upload to it is listed under a key that `resolve_key` takes for one
  of the shared view (`domain/s3/namespace.py:69`). `OwnViewExact` excepts it.

**Bounds.** Three ids give a chain of three below a root, two siblings with a
child, or a copy of a folder with a file: enough for every nesting of two
deletions, a move out of a trashed subtree's way, and a cascade that runs ahead.
One name makes every two siblings collide; `ledger` has two, so files coexist
and paths differ. Quota 2 with size 1 puts each counter at its limit in two
uploads. Two deletions give an inner and an outer stamp. Two requests suffice
for each race listed; the theorems lift the bound where the property holds. In
`keys`, two uploads, a deferred share and three more requests, with any number
of job runs between, fit in six; `threshold 1` makes a share of one file
synchronous and of two deferred. In `overlap`: two transactions, one key, one
link and five requests let two first requests collide and an administrator and
a user write back the same row; a guess limit of 2 in windows of 2 over four
moments has a stretch across two windows, and two addresses have windows that
begin at different moments; two readers of one process share a load while the
owner changes the grant and changes it back; two requests over three ids leave
one id for what they create. In `surface`: one upload of two parts with bodies of
two sizes, two puts and two completions or aborts beside the reaper gives a part
sent again during a completion, and a quota of 5 admits one completion but not
always two; three rows in two places give ties, two changes one row behind and
one ahead of the cursor, and limits 0 to 2 an empty page; sizes 0, 1, 2, 4 and 5
with frames of 2 and 3 give empty, full and partly filled last frames, and
chunks of 1 and 4 cut inside and across frames; three tags with a maximum of 2
put two patches on either side of it; for tokens, the issuer begins with one of
two keys, windows of 1 within three
moments make copies fresh, stale and too old, and a cooldown of 2 fits once. In
`backup`, one file that is or is not steady and two backups are what the
properties quantify over; `KeepWeekly = 1` with weeks of two days makes either
backup the one to go. `MaxDeletes`, `MaxStrays`, `MaxChanges`, `MaxOutages`,
`MaxStart`, `MaxRequests`, `MaxPath`, `MaxBatch`, `MaxPuts`, `MaxCalls`,
`MaxFailures`, `MaxEdits`, `MaxStarts`, `MaxEvents`, `MaxFaults`, `LastTick`,
`LastHour`, `LastMoment` and `LastDay` are bounds of the instance, not of the
code. Symmetry is over ids and requests that only identity distinguishes; it is not
used where a liveness property is checked. Deadlock is checked in the runs of
`FileTree` and `Gateways`; elsewhere a behaviour ends when
its requests have been served and its clock has run out.

**Fairness.** `ConcurrentTree` assumes that a request that has begun takes its
next step if it can: the event loop resumes it when the database answers, and
Postgres grants a free advisory lock. Nothing obliges a request to begin.
`PermissionCache` assumes the same of readers and of the owner's request, and
that entries expire, as each is written with a TTL. `Credentials` assumes it of
transactions, one of which may wait for the insert of another. `Backup` assumes
that the event loop of a replica runs every task of a run that can go on.
`KeySharing` assumes that `RewrapJob` runs again and again, since `app.py` starts
its scheduler with the service. Redis need not recover, nobody need ask again,
and nothing is assumed of `PurgeJob`, `OrphanReaper` and `ReconcileQuotasJob`,
which nothing in the service triggers (`src/docs/operations.md:162`).

## What is proved

For any users, ids, names, quotas, grants, depth, page size, retention and
batch sizes (`ConstantsAssumption`), `FileTreeProofs` proves of `FileTree`:

- `TreeRooted`, `TrashIsNested`, `NamesUnique`: the three invariants of the
  `tree` run;
- `LiveRowsKept`, `RestoreIsOneDeletion`: its two action properties;
- `RowTypes`: rows are well formed and roots stay live;
- `TreeInvariant`: the invariant they rest on;
- `NothingMissing`: no prune, purge, cascade or reaper takes an object that a
  version row names;
- `StraysHaveASource`: an object that no row names comes from an upload or a copy
  refused after its bytes were stored, or from a cascade of `PurgeJob`, and from
  nothing else;
- `StoreExact`: with neither of these (`MaxStrays = 0`, `SweepBatch = 0`, finitely
  many ids), `ObjectsReferenced`. These are the settings of the `ledger` run;
- `QuotaHolds`: for finitely many ids, `StoredWithinQuota` in every behaviour in
  which no file changes hands (`NoTransfer`), whatever is shared;
- `CountersKeepUp`: if moreover every row belongs to the owner of its folder
  (`OneOwner`), the live counter is what a recomputation would find, and the
  trashed one at least that;
- `CountersAreExact`: `CountersExact`, if also the purge job takes nothing
  (`NoSweep`);
- `PrivateTrees`: `OneOwner` holds where nothing is shared (`Shares = {}`), which is
  the setting of the `ledger` run.

None of the three is inductive alone. A restore puts a node under its old parent
if that is live, so that its rows hang together needs `TrashNested`; that a
purge destroys trash only needs it too; that a lifted batch does not collide
with itself needs `SiblingNamesUnique` for trashed siblings of one stamp, which
is why it is stated so. `IInv` is their conjunction with `RowsOK` and
`Grounded`: the only set of rows that holds the roots and, with a row, its
children is the whole table. `Grounded` says what `Rooted` says, without a path:
chains and subtrees are least closed sets in `NodeTree`, and so a proof that a
step keeps the tree rooted exhibits a closed set instead of an induction.
`CommonLemmas` has the lemmas:
moving a row to a place outside its subtree, adding a leaf, grafting a copy and
cutting whole subtrees keep a table grounded. The step lemmas of
`FileTreeProofs` treat one operation each. The objects rest on `IInv` and
`StoreOK`: the store holds at least what the rows name. Every operation adds to
both sides, or takes an object off together with the version row that named it;
a cascade takes rows and leaves the objects, the reaper takes objects of ids
that have no row.

The accounts rest on `IInv` and `Accounted`: the three counters of a user
together are at least the bytes of all versions of the user's files, and within
the quota. One counter alone is not: a collaborator's files in a folder that is
trashed move bytes between buckets of the wrong user, and the counters, clamped
at zero, then drift upwards. `Counted` adds what one owner per tree gives:
the live counter is exact and the trashed one never behind. A transfer is left
out since it moves the file's bytes and leaves those of its versions with the old
owner (see *Known deviations*), the sweep since its cascade takes rows whose
bytes it does not give back. Sums over a table are changed one row or one set of
rows at a time; `CommonLemmas` derives what such a change does to a sum from the
induction over finite sets, stated for subsets so that no operator is a parameter.

`GatewaysProofs` extends this to the S3 and WebDAV requests, for paths and
batches of any length (`GatewaysAssumption`: the two bounds are naturals), and to
the views. Of every behaviour in which requests of the gateways and use cases
alternate it proves:

- `GatewaysKeepTree`: `Rooted`, `TrashNested` and `SiblingNamesUnique`;
- `WritesAreFound`: `WrittenIsFound`;
- `GatewaysLoseNothing`, and `GatewaysStoreExact` with the settings of
  `StoreExact`: no object is lost, and none is left over;
- `SharedListsReadable`: for grants on any nodes of any trees, what a recipient is
  listed is what authorization lets them read, each file once;
- `SharedKeysHold`: for grants in one tree, each listed key resolves to its file,
  through whichever grant;
- `SharedViewsExact`: `SharedViewExact`, which is both, where there is one tree. A key
  begins with the owner in the code; `_path_of` leaves the owner out, so between
  two trees the model's keys may coincide where the code's do not;
- `OwnTreesViewsExact`: `OwnViewExact` while every row belongs to the owner of its
  tree (`OwnTrees`; a transfer ends that), and `OwnViewsExact`, without the
  hypothesis, for one user. Both hold with rows of the reserved name at a root;
  what they say of keys and prefixes excepts those that begin with it, which
  `resolve_key` and `list_objects` send to the shared view.

A request is a fold over a path or a list of keys. `Folded` states the fold as a
function on prefixes, and `FrontInduction` then proves of all sequences what
holds of the empty one and of each whose front it holds of. Along a path the
invariant is `OnTheWay`: the table is sound, the rows that were there are in
their place, and the names passed lead to the folder reached. `AddressLeads`
says that an address leads to one live row at most, which is where
`SiblingNamesUnique` enters, and `StillLeads` that a change inside other subtrees
disturbs no address; so what a `MOVE` trashes to clear its way cannot hide what
it then writes. The guards a use case evaluates in the middle of a request are
`FileTree`'s on another table (`Then(t)`); the lemmas on tables of `FileTreeProofs`
apply to it unchanged.

The views rest on two invariants, `IInv` and `FoldersAbove`: only folders have rows
beneath them (`ViewsHold`). The way up from a row is a line with one row to each
depth (`Depths`, `ChainIsLine`), so of the grants on it one is topmost; the names on
it lead back to the row (`WayLeads`), are the only ones that do (`LeadsWay`), and any
sequence that begins them is the way to a row in between (`WayPrefix`). That a
key resolves through no other grant, and that a listing may descend to the
folder of its prefix first, both follow from this.

`ConcurrentTreeProofs` proves, for any number of requests and folders:

- `TypesKept` (with `RequestTypes`, the same for what requests remember);
- `OneDestinationAcyclic`: if all moves name one destination the tree stays
  acyclic, whatever else overlaps. The invariant adds to `Grounded` that for
  every move that has been checked the destination is not below the moved
  folder, and the proof shows that no other request can change that: creates
  add leaves, restores lift to the root, purges cut, and another move to the
  same destination moves nothing above it. The proof never uses the lock. So
  the lock on the destination serialises exactly the moves that cannot
  conflict, which is the positive half of the finding on `moves`.
- `DeletionsStayApart`: `DeletionsKept`, the action property of `overlap`. Every
  commit is looked at row by row: a deletion stamps rows that are live at the
  time of the write, whatever it read; a restore lifts the rows that bear the
  stamp it read, and no other request writes the column.

That live siblings have different names is not stated of overlapping requests:
the unique index is a guard of every write in the model, as it is in the database,
and the property would restate it.

`EncryptionProofs` proves of `KeySharing`, for any users, files, threshold and retention
(`KeyAssumption`): `OneGrantPerUser`, `NoKeyOutlivesItsUse`, and the two action
properties `SharesAppearUsable` and `OnlyEntitledGetKeys`. The invariant
`KeyInv` (`KeyInvariant`) is the types, `PlaintextHasNoKeys`, and `GrantsApart`,
which says of active grants, of pending ones and of the two together what
`OneGrantEach` says of their union. The job turns a pending grant into an active
one, and needs it in this form: two rows, one pending and one active, would
merge. Both action properties are proved of each step under `KeyInv`.

`PermissionCacheProofs` proves, for any readers and processes
(`CacheAssumption`) and whatever Redis does: `MissesCoalesce` (one load per
process) and `NobodyIsOrphaned` (whoever waits, waits for a reader of the same
process that is loading), which is what `WaitersServed` needs beside fairness.
`CacheInv` ties the in-flight table to the readers from both sides: a reader that
loads is in the table, and the table names only readers that load.

`SurfaceProofs` has five components, each for any number of requests.

- *Credentials*, any keys, links and limits (`CredentialsAssumption`):
  `SubjectProvisionedOnce` and `UsesNeverAhead`. Neither is inductive. `CInv`
  adds what a request in flight knows: the row it read is still there, its
  entity is at most one use ahead of the committed ones (and only if it is a
  use), and a request with a new user row is the one that holds the index,
  while there is no user row (`CredSide`, `UserSide`). `PassphrasesLimited`, for
  each link and source address: `GuessInv(w)` says of one of the limiter's
  windows that its count is the number of guesses since it began, and that the
  guesses before it, fewer than the limit, lie less than a window back; a
  stretch of that length meets at most two. `LimiterInv` is this for all of
  them; a guess changes one and leaves the others as they are.
- *Multipart*, any uploads, part numbers, bodies and failures
  (`MultipartAssumption`): `AcknowledgedPartsStay` and `CompletionsAsListed`.
  The invariant `MpInv` says there is a world `w` that gives each part sent at
  most once its one body, and that row, object, requests in flight and the lists
  of completions agree with it. When a completion streams, what it has read and
  what it has still to read make up its list. How long bodies are is never
  looked into: the code's own comparison before the commit gives the first half
  of `AssembledAsListed`, the world the second. `NeverChargedAhead`, for finitely
  many uploads: `ChargeInv` bounds the charge, and the total every completion in
  flight has computed, by what the versions hold now and what that completion
  adds; versions are only added, so a stale total stays below.
- *Labels*, any nodes, tags, keys and maxima (`LabelsAssumption`):
  `LabelAnswersHold`. From the lock to the commit a request that writes labels
  has the node to itself, so what it decided equals the merge on the rows as
  they are now (`EditOK`); `PatchedTags` and `PatchedPairs` show that the two
  statements of a patch come to that merge, for metadata only because no key is
  both set and removed. A rename overlaps without the lock and writes no label.
  `InventoryMatchesSearch`, for finitely many nodes: a tag has at most one row on
  a node (`RowsSingle`), so counting rows counts nodes. It assumes that a node
  may have a tag at all (`MaxTags > 0`), since a filter takes no more tags than a node.
- *Paging*, any table, filters, surfaces and limits (`PagingAssumption`):
  `WalksAreComplete`. The invariant `WalkInv`: what was returned ascends, the
  cursor is its last item, and every row that is due lies past the cursor or was
  returned. That `order_by` yields all rows in order is shown without induction,
  from the number of items before each one (`OrderedBy`). For the feed, whose
  cursor is a moment, the proof needs that a row shares its moment with no other
  row, which is how `WalkComplete` is stated.
- *TokenTrust*, any keys, tokens, requests and any TTL, stale window and cooldown
  with `Ttl <= StaleMax` (`TrustAssumption`): `WithdrawnKeysExpire`,
  `RefetchesStayBounded`, `FreshAnswersAreFresh`. A key set carries the moment
  the *request* that fetched it began, so a set may be replaced by one dated
  earlier. The invariant `TrustInv` therefore says of a request that is looking
  for its key that both the set it was handed and the set that is cached are
  good for it. Two fetches for unknown keys are a cooldown apart and so fall
  into different windows of that length. Neither the lock nor the limiter is
  used: the bounds hold without them.

`EncryptionProofs` proves of `Framing`, for plaintexts, frames, headers and chunks of any size
(`FramingAssumption`): `ServedBytesAreTrue` and `IntactObjectsOpen`. `FrameInv`
(`FramesKept`) follows a writer and a reader. While sealing, the object is the
frames so far and the buffer their continuation. Once stored, every cell that
authenticates belongs to a frame of this plaintext, and lies in its place unless
frames were rearranged. So whatever opens at an index is the whole frame of that
index, and the reader has come to the byte it begins with; a reader that
assumes another frame size can open frame 0 only, which begins at the same place
for every size. For an intact object the buffer and what the source still holds
are the cells from the next frame on, and no frame is taken for complete before
it is. `frames_for_range` is shown to give the frames and the trimming that cover
the range. An object is a concatenation of frames, about which induction over
the naturals is needed; `CountingUp` gets it for sets of numbers from the
well-foundedness of `<`.

`BackupProofs` proves, for any replicas, backups, files, faults and retention
settings (`BackupAssumption`): `VerifiedBackupsCover`, `RestoresAreComplete`, and
`BackupImplementsCatalogue`, the refinement. `BackupInv` follows a backup
through its life: a run owns its backup alone,
and nothing is taken from it while it runs, so that a verification which read a
sample only still leaves a whole one; the dump has every steady file,
the mirror with what is still to copy has their objects; a manifest seals a
mirror that no run changes again (`Sealed`), which is what a restore reads from;
a verified backup is whole or outlived by a later verified one that is; and what
a run means to prune is failed or outlived. The last two are what the catalogue
needs of a prune; every other action is a begin, a completion or a stutter of
the catalogue.

Only model-checked, with the reason:

- liveness: `WaitersServed`, `StaleAllowEnds`, `RequestsEnd`, `TransactionsEnd`,
  `DeferredSharesSettle`;
- the quota and the counters through the requests of `Gateways`: `CountersExact`
  is proved for the use cases of `FileTree`, one at a time, and checked for the
  requests composed of them in the `ledger` run.

## Known deviations

Where a promise of the repository fails in the model, the properties say what
does hold. The five that a violation run states are above; the others follow. Most are
hazards in `PROJECT.json`, with their lines.

- `PurgeJob` deletes rows one by one, and a folder's row takes the rows of its
  content with it before their objects are deleted (`application/jobs.py:115`;
  `src/openspec/specs/file-storage/spec.md:237`). `ObjectsReferenced` is therefore
  checked without the sweep.
- A purge, on demand or by the job, deletes every version of a node and gives
  back the size of the current one (`_strip`, `application/purge.py:53`): the bytes of
  past versions stay charged until a reconciliation
  (`src/openspec/specs/file-storage/spec.md:237` and `:247`, "SHALL release the
  quota"). `CountersExact` is about live and trashed bytes only.
- A purge that overlaps a restore of the same node destroys live rows
  (`application/nodes.py:746`; the same document, line 252). `LiveRowsSurvive`
  is checked and proved for one request at a time.
- An upload or a new folder can land in a folder whose deletion commits between
  the check and the write (`application/content.py:169`), so `TrashNested` holds
  for one request at a time.
- A revocation invalidates the cache before it commits
  (`application/sharing.py:279`; `src/openspec/specs/caching/spec.md:90`): a reader
  between the two puts the withdrawn decision back. `StaleAllowEnds` bounds it
  by the TTL.
- `If-Match` is compared with the row as read, and renames and label changes
  number revisions independently (`application/nodes.py:1225`), so the same
  token can name two states.
- A use that is written back after a revocation or a new quota can undo either,
  when `update` reads the row again after it
  (`adapters/outbound/db/repositories.py:663`). `CountNeverAhead` is what survives.
- Counters are written as absolute values (`adapters/outbound/db/mappers.py:348`):
  overlapping completions lose charges. `ChargeNeverAhead` says in which
  direction.
- Parts whose objects arrive while an abort or a completion deletes them stay
  in the store for good (`src/openspec/specs/s3-compatibility/spec.md:315`).
- A WebDAV `MOVE` of a row onto itself trashes it and answers success;
  `WrittenIsFound` excludes it.
- The cursors of the feed and of the audit log are a moment, and rows that share
  it are skipped (`adapters/outbound/db/repositories.py:806`); the list of
  active links ignores its cursor; `max-keys=0` of S3 reports more with no token
  to go on. `WalkComplete` excludes the first; the other two are not surfaces.
- A range read of a truncated sealed object ends short without an error, and
  range reads take the frame size from the settings, not from the object.
  `OnlyTrueBytes` states a prefix, `IntactIsReadable` the setting.
- A crash leaves a backup record that says it is running; a restore looks the
  record up in the database it restores into, and accepts a backup in any state.
- `RewrapJob` raises at a file that is marked encrypted and whose owner has no
  key (a plaintext version restored after encryption was turned on, then
  copied), in every run, so the share stays pending and so do those behind it
  (`application/jobs.py:321`). `DeferredSharesSettle` excepts this case.
- A copy of a folder takes the first page of its children and reports success
  (`application/nodes.py:1031`); the model has the cut (`CopiedSets`), no run a
  folder that exceeds a page.
- A transfer charges the recipient's live counter for trashed files too, leaves
  the bytes of past versions with the old owner, and the purge job gives back
  only what it took itself (`application/sharing.py:458`). `StoredWithinQuota` is
  checked and proved without transfers, `CountersExact` also without sweeps.
- After a transfer to a user who was shared the file, two wrapped keys name that
  user, and `key_for` takes either.

## Not modelled

Walks of the repository stop at a depth of 256; the model's do not. The audit
log is appended beside every use case and nothing depends on it. Parsing,
validation, error mapping and wiring of the HTTP surface, XML, signatures and
the name term of a search are computations on strings. Digests of plaintext,
reserved metadata keys, the user directory, reports, health, metrics, the
dashboard and the migrations keep no state the modelled parts depend on. The
limiter of S3 signatures is the class `TokenTrust` models. Rotation of user and
master keys is reached from tests only. The minute a cron expression names next
is calendar arithmetic; `Backup` lets a trigger come at any time instead.
Cancelled tasks are left out of `PermissionCache` (`application/caching.py:66`).
Ciphers, Redis, Postgres, the issuer and the stores are external and appear
only as the code uses them.

## What is left

The model has every component that keeps state the others depend on, and every
safety invariant and action property of the passing runs has a theorem. What a
next step would be: `Accounted` and `Counted` through the composite requests of
`Gateways`, as `GatewaysProofs` does for `IInv` and `StoreOK`; and the owner as part of
the keys of `Views`, so that `SharedViewExact` can be stated across trees.
