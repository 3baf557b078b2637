---------------------------- MODULE Credentials ----------------------------
(***************************************************************************)
(* Access keys, public links and local users, under overlapping            *)
(* transactions.  Every use of a key, of a link or of an account also      *)
(* writes its row: a repository reads an entity, the use case changes the  *)
(* entity, and update() reads the row once more and assigns the entity's   *)
(* columns to it; at commit the columns that differed at that second read  *)
(* are written, whatever the row holds by then.  A first request creates   *)
(* the user, the root folder, the key and the quota row in one             *)
(* transaction, under the unique index on the subject.                     *)
(***************************************************************************)
EXTENDS Integers, FiniteSets, FiniteSetsExt

CONSTANTS
    Txns,           \* requests, each with one unit of work
    Keys, Links,    \* access keys and public links
    Sources,        \* addresses links are opened from; 'anonymous' is one
    Absent,         \* no row
    Nil,            \* no request
    Quotas,         \* quotas an administrator sets
    DefaultQuota,
    PresignedUntil, \* the last moment the presigned URL of a key is valid
    LinkExpires,    \* expires_at of the links
    GuessLimit, GuessWindow,    \* the limiter of passphrases
    LastTick,       \* bound: the clock
    MaxRequests     \* bound: requests in one behaviour

Creds == Keys \cup Links

(* The keys of the passphrase limiter: the link and the source address.    *)
Windows == Links \X Sources

(* S3AccessKey and PublicLink; User.  Only columns that some use changes.  *)
CredRow == [revoked : BOOLEAN, uses : Nat]
UserRow == [quota : Nat, admin : BOOLEAN]

ASSUME CredentialsAssumption ==
    /\ Keys \cap Links = {}
    /\ Nil \notin Txns \cup Creds
    /\ Absent \notin CredRow \cup UserRow
    /\ DefaultQuota \in Nat /\ Quotas \subseteq Nat
    /\ GuessLimit \in Nat \ {0} /\ GuessWindow \in Nat \ {0}
    /\ {PresignedUntil, LinkExpires, LastTick, MaxRequests} \subseteq Nat

VARIABLES
    moment,     \* the clock
    cred,       \* s3_access_keys and public_links, one row each
    user,       \* the row of the subject in users
    homes,      \* root folders, user keys and quota rows of the subject
    inserting,  \* the transaction with an uncommitted user row
    txn,        \* each request
    guess,      \* the limiter's windows, one per link and source: [at, count]
    guessed,    \* history: wrong passphrases tried with a link, from a source,
                \* at each moment
    opened,     \* history: committed uses of each credential
    requests    \* how many requests were started

credVars == <<moment, cred, user, homes, inserting, txn, guess, guessed, opened, requests>>

limiter == <<guess, guessed>>
tables == <<cred, user, homes, opened>>

(* A request: the credential it reads and the entity it made of it, the    *)
(* user entity, and the columns of both that its commit writes.            *)
NoTxn == [phase |-> "idle", on |-> Nil, entity |-> Absent, dirty |-> {},
          person |-> Absent, stale |-> {}, new |-> FALSE, use |-> FALSE]

CredInit ==
    /\ moment = 0
    /\ cred = [c \in Creds |-> Absent]
    /\ user = Absent
    /\ homes = 0
    /\ inserting = Nil
    /\ txn = [t \in Txns |-> NoTxn]
    /\ guess = [w \in Windows |-> [at |-> 0, count |-> 0]]
    /\ guessed = [w \in Windows |-> [m \in 0..LastTick |-> 0]]
    /\ opened = [c \in Creds |-> 0]
    /\ requests = 0

-----------------------------------------------------------------------------
(* update() of a repository and the session behind it: what differs from   *)
(* the row at this read is what the flush writes.                          *)

Dirty(entity, row) == {col \in DOMAIN entity : entity[col] # row[col]}

Written(row, entity, dirty) ==
    [col \in DOMAIN row |-> IF col \in dirty THEN entity[col] ELSE row[col]]

Begins(t) == txn[t].phase = "idle" /\ requests < MaxRequests /\ requests' = requests + 1

(* A variant that leaves its uncommitted user row behind. *)
rollback_unreleased(t) ==
    /\ txn[t].phase # "idle"
    /\ txn' = [txn EXCEPT ![t] = NoTxn]
    /\ UNCHANGED <<moment, tables, limiter, inserting, requests>>

(* A variant that writes what the session had flushed. *)
rollback_flushed(t) ==
    /\ txn[t].phase # "idle"
    /\ txn' = [txn EXCEPT ![t] = NoTxn]
    /\ inserting' = IF inserting = t THEN Nil ELSE inserting
    /\ cred' = [c \in Creds |->
                   IF c = txn[t].on THEN Written(cred[c], txn[t].entity, txn[t].dirty)
                                    ELSE cred[c]]
    /\ UNCHANGED <<moment, user, homes, opened, limiter, requests>>

(* A request is refused, or fails: the session is closed without a commit. *)
rollback(t) ==
    /\ txn[t].phase # "idle"
    /\ txn' = [txn EXCEPT ![t] = NoTxn]
    /\ inserting' = IF inserting = t THEN Nil ELSE inserting
    /\ UNCHANGED <<moment, tables, limiter, requests>>

-----------------------------------------------------------------------------
(* S3AccessKeyService.mint and SharingService.create_link.                 *)

created(t, c) ==
    /\ Begins(t)
    /\ cred[c] = Absent
    /\ cred' = [cred EXCEPT ![c] = [revoked |-> FALSE, uses |-> 0]]
    /\ UNCHANGED <<moment, user, homes, inserting, txn, limiter, opened>>

mint(t, k) == k \in Keys /\ created(t, k)
create_link(t, l) == l \in Links /\ moment < LinkExpires /\ created(t, l)

(* The revocation is a change to what was read, written back at the end.   *)
Revokes(t, c) ==
    /\ Begins(t)
    /\ cred[c] # Absent
    /\ txn' = [txn EXCEPT ![t] = [NoTxn EXCEPT !.phase = "read", !.on = c,
                                     !.entity = [cred[c] EXCEPT !.revoked = TRUE]]]
    /\ UNCHANGED <<moment, tables, inserting, limiter>>

revoke_key(t, k) == k \in Keys /\ Revokes(t, k)
revoke_link(t, l) == l \in Links /\ Revokes(t, l)
revoke_public_link(t, l) == l \in Links /\ Revokes(t, l)

-----------------------------------------------------------------------------
(* A signed S3 request, a presigned URL, and Basic credentials on WebDAV:  *)
(* the key is looked up and must be active, the signature or secret right. *)
(* A wrong one writes no table (S3 counts it in a limiter of its own, like *)
(* the one below); last_used_at is not part of the entity.                 *)

Active(c) == cred[c] # Absent /\ ~ cred[c].revoked

KeyRead(t, k) ==
    /\ Begins(t)
    /\ Active(k)
    /\ txn' = [txn EXCEPT ![t] = [NoTxn EXCEPT !.phase = "read", !.on = k,
                                     !.entity = cred[k], !.use = TRUE]]
    /\ UNCHANGED <<moment, tables, inserting, limiter>>

_verify(t, k) == KeyRead(t, k)
_verify_presigned(t, k) == moment <= PresignedUntil /\ KeyRead(t, k)
_authenticate_sigv4(t, k) == _verify(t, k) \/ _verify_presigned(t, k)
webdav_authenticate(t, k) == KeyRead(t, k)

-----------------------------------------------------------------------------
(* FixedWindowLimiter, and SharingService.resolve_link with                *)
(* _check_passphrase: the check and the count are one step.                *)

GuessExpired(w, m) == guess[w].count = 0 \/ m - guess[w].at >= GuessWindow

(* A variant that begins a new window with every guess. *)
GuessRestarted(w, m) == [at |-> m, count |-> 1]

GuessRecorded(w, m) ==
    IF GuessExpired(w, m) THEN [at |-> m, count |-> 1] ELSE [guess[w] EXCEPT !.count = @ + 1]

MayGuess(w, m) == GuessExpired(w, m) \/ guess[w].count < GuessLimit

Usable(l) == Active(l) /\ moment < LinkExpires

resolve_link_wrong(t, l, a) ==
    /\ Begins(t)
    /\ Usable(l) /\ MayGuess(<<l, a>>, moment)
    /\ guess' = [guess EXCEPT ![<<l, a>>] = GuessRecorded(<<l, a>>, moment)]
    /\ guessed' = [guessed EXCEPT ![<<l, a>>][moment] = @ + 1]
    /\ UNCHANGED <<moment, tables, inserting, txn>>

resolve_link(t, l, a) ==
    /\ Begins(t)
    /\ Usable(l) /\ MayGuess(<<l, a>>, moment)
    /\ txn' = [txn EXCEPT ![t] = [NoTxn EXCEPT !.phase = "read", !.on = l, !.use = TRUE,
                                     !.entity = [cred[l] EXCEPT !.uses = @ + 1]]]
    /\ UNCHANGED <<moment, tables, inserting, limiter>>

(* update(): the second read.  A key goes on to resolve its owner. *)
update(t) ==
    /\ txn[t].phase = "read"
    /\ txn' = [txn EXCEPT
                  ![t].dirty = Dirty(txn[t].entity, cred[txn[t].on]),
                  ![t].phase = IF txn[t].on \in Keys /\ txn[t].use THEN "resolve"
                                                                   ELSE "commit"]
    /\ UNCHANGED <<moment, tables, inserting, limiter, requests>>

-----------------------------------------------------------------------------
(* ProvisioningService.resolve, for a bearer of a token and for the owner  *)
(* of a key (who is never an administrator).  Service principals are       *)
(* refused before this.                                                    *)

current_user(t) ==
    /\ Begins(t)
    /\ txn' = [txn EXCEPT ![t] = [NoTxn EXCEPT !.phase = "resolve"]]
    /\ UNCHANGED <<moment, tables, inserting, limiter>>

resolve(t) ==
    /\ txn[t].phase = "resolve"
    /\ \E admin \in IF txn[t].use THEN {FALSE} ELSE BOOLEAN :
        txn' = [txn EXCEPT
            ![t].phase = IF user = Absent THEN "provision" ELSE "found",
            ![t].person = IF user = Absent THEN [quota |-> DefaultQuota, admin |-> admin]
                                           ELSE [user EXCEPT !.admin = admin]]
    /\ UNCHANGED <<moment, tables, inserting, limiter, requests>>

(* AdminService.set_quota *)
set_quota(t, q) ==
    /\ Begins(t)
    /\ user # Absent
    /\ txn' = [txn EXCEPT ![t] = [NoTxn EXCEPT !.phase = "found",
                                     !.person = [user EXCEPT !.quota = q]]]
    /\ UNCHANGED <<moment, tables, inserting, limiter>>

(* users.update *)
_refresh(t) ==
    /\ txn[t].phase = "found"
    /\ txn' = [txn EXCEPT ![t].stale = Dirty(txn[t].person, user), ![t].phase = "commit"]
    /\ UNCHANGED <<moment, tables, inserting, limiter, requests>>

(* A variant of the flush on a table without the unique index. *)
_provision_unindexed(t) ==
    /\ txn[t].phase = "provision"
    /\ txn' = [txn EXCEPT ![t].new = TRUE, ![t].phase = "commit"]
    /\ UNCHANGED <<moment, tables, inserting, limiter, requests>>

(* The user row is flushed first.  The index makes a second one wait for   *)
(* the transaction of the first, and fail once that has committed; the     *)
(* violation is not translated and ends the request.                       *)
_provision(t) ==
    /\ txn[t].phase = "provision" /\ inserting = Nil
    /\ IF user = Absent
       THEN /\ inserting' = t
            /\ txn' = [txn EXCEPT ![t].new = TRUE, ![t].phase = "commit"]
       ELSE txn' = [txn EXCEPT ![t] = NoTxn] /\ UNCHANGED inserting
    /\ UNCHANGED <<moment, tables, limiter, requests>>

(* commit() of the unit of work: everything the session holds, at once.    *)
commit(t) ==
    /\ txn[t].phase = "commit"
    /\ cred' = [c \in Creds |->
                   IF c = txn[t].on THEN Written(cred[c], txn[t].entity, txn[t].dirty)
                                    ELSE cred[c]]
    /\ user' = IF txn[t].new THEN txn[t].person
               ELSE IF txn[t].person = Absent THEN user
               ELSE Written(user, txn[t].person, txn[t].stale)
    /\ homes' = IF txn[t].new THEN homes + 1 ELSE homes
    /\ opened' = [c \in Creds |-> IF c = txn[t].on /\ txn[t].use THEN opened[c] + 1
                                                                 ELSE opened[c]]
    /\ inserting' = IF inserting = t THEN Nil ELSE inserting
    /\ txn' = [txn EXCEPT ![t] = NoTxn]
    /\ UNCHANGED <<moment, limiter, requests>>

ticks ==
    /\ moment < LastTick
    /\ moment' = moment + 1
    /\ UNCHANGED <<tables, inserting, txn, limiter, requests>>

-----------------------------------------------------------------------------
(* Which route leads to what; every one of them commits before it answers. *)
s3_keys_router(t) == \E k \in Keys : mint(t, k) \/ revoke_key(t, k)

links_router(t) ==
    \E l \in Links :
        \/ create_link(t, l) \/ revoke_link(t, l)
        \/ \E a \in Sources : resolve_link(t, l, a) \/ resolve_link_wrong(t, l, a)

admin_router(t) ==
    \/ \E q \in Quotas : set_quota(t, q)
    \/ \E l \in Links : revoke_public_link(t, l)

Start(t) ==
    \/ s3_keys_router(t) \/ links_router(t) \/ admin_router(t)
    \/ \E k \in Keys : _authenticate_sigv4(t, k) \/ webdav_authenticate(t, k)
    \/ current_user(t)

Proceed(t) == update(t) \/ resolve(t) \/ _refresh(t) \/ _provision(t) \/ commit(t)

CredNext == (\E t \in Txns : Start(t) \/ Proceed(t) \/ rollback(t)) \/ ticks

(* The event loop runs every request that can go on; the database grants   *)
(* an insert once the one it waits for has ended.                          *)
CredFairness == \A t \in Txns : WF_credVars(Proceed(t))

CredSpec == CredInit /\ [][CredNext]_credVars /\ CredFairness

-----------------------------------------------------------------------------
(* However first requests overlap, a subject has one root folder, one key  *)
(* and one quota row, and has them exactly when the user row exists.       *)
ProvisionedOnce == homes = (IF user = Absent THEN 0 ELSE 1)

(* A stretch of time as long as the window, from m on.                     *)
Stretch(m) == {i \in 0..LastTick : m <= i /\ i < m + GuessWindow}

(* Wrong passphrases for one link from one source address: in any stretch  *)
(* as long as the window, also across the edge of two windows, fewer than  *)
(* twice the limit, whatever is tried with other links or from elsewhere.  *)
GuessesBounded ==
    \A w \in Windows, m \in 0..LastTick :
        SumFunctionOnSet(guessed[w], Stretch(m)) < 2 * GuessLimit

(* The same for a link wherever the guesses come from, which is what "rate *)
(* limited per link" in _check_passphrase says.  The key of the limiter    *)
(* has the source address in it, so two addresses get two windows.         *)
GuessesPerLink ==
    \A l \in Links, m \in 0..LastTick :
        MapThenSumSet(LAMBDA a : SumFunctionOnSet(guessed[<<l, a>>], Stretch(m)), Sources)
            < 2 * GuessLimit

(* Overlapping uses write the count of a link as an absolute value: uses   *)
(* can be lost, but the count never runs ahead of the committed uses.      *)
CountNeverAhead == \A l \in Links : cred[l] # Absent => cred[l].uses <= opened[l]

(* Every request ends, also one that waits at the unique index for the     *)
(* uncommitted user row of another.                                        *)
TransactionsEnd == \A t \in Txns : txn[t].phase # "idle" ~> txn[t].phase = "idle"
=============================================================================
