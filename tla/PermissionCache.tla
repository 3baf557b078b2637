-------------------------- MODULE PermissionCache --------------------------
(***************************************************************************)
(* The cached permission decision of one subject on one node: requests     *)
(* that read it through CacheService.get_or_load in several worker         *)
(* processes, the owner's request that grants or revokes, and a Redis that *)
(* may fail behind the circuit breaker each process keeps.  A request to   *)
(* grant or revoke drops the subject's decisions while its transaction is  *)
(* still open; the router commits afterwards.                              *)
(***************************************************************************)
EXTENDS Integers, FiniteSets

CONSTANTS
    Readers,        \* requests that need the decision
    Processes,      \* worker processes, each with its own service object
    ProcessOf,      \* the process a reader runs in
    Owner,          \* the process the owner's requests run in
    None,           \* no entry, nobody, no answer
    MaxChanges,     \* bound: grants and revocations in one behaviour
    MaxOutages      \* bound: outages of Redis in one behaviour

ASSUME CacheAssumption ==
    /\ ProcessOf \in [Readers -> Processes]
    /\ Owner \in Processes
    /\ None \notin Readers
    /\ None \notin BOOLEAN
    /\ MaxChanges \in Nat
    /\ MaxOutages \in Nat

VARIABLES
    granted,    \* committed: the subject holds a role on the node
    cache,      \* the entry in Redis: a decision or None
    up,         \* Redis answers
    breaker,    \* of each process: closed, failing or open
    inflight,   \* of each process: the reader that computes the decision
    reader,     \* each reader: how far it is, whom it waits on, its decision
    owner,      \* the owner's request: how far it is, what it will commit
    changes,    \* how many changes of the grant were begun
    outages     \* how many outages there were

cacheVars == <<granted, cache, up, breaker, inflight, reader, owner, changes, outages>>

CacheInit ==
    /\ granted \in BOOLEAN
    /\ cache = None
    /\ up = TRUE
    /\ breaker = [p \in Processes |-> "closed"]
    /\ inflight = [p \in Processes |-> None]
    /\ reader = [r \in Readers |->
                    [phase |-> "idle", on |-> None, value |-> None]]
    /\ owner = [phase |-> "idle", value |-> FALSE]
    /\ changes = 0
    /\ outages = 0

-----------------------------------------------------------------------------
(* RedisCache._run: nothing is sent while the circuit is open; an answer   *)
(* closes it; a failure is remembered, and a failure that follows another  *)
(* one long enough opens it.                                               *)

Reachable(p) == up /\ breaker[p] # "open"

AfterRun(p) ==
    IF breaker[p] = "open" THEN {"open"}
    ELSE IF up THEN {"closed"}
    ELSE {"failing"} \cup (IF breaker[p] = "closed" THEN {} ELSE {"open"})

Run(p) == \E b \in AfterRun(p) : breaker' = [breaker EXCEPT ![p] = b]

(* The cooldown is over: the next operation goes through.                  *)
allows(p) ==
    /\ breaker[p] = "open"
    /\ breaker' = [breaker EXCEPT ![p] = "closed"]
    /\ UNCHANGED <<granted, cache, up, inflight, reader, owner, changes, outages>>

Outage ==
    /\ up
    /\ outages < MaxOutages
    /\ up' = FALSE
    /\ outages' = outages + 1
    /\ UNCHANGED <<granted, cache, breaker, inflight, reader, owner, changes>>

Recovery ==
    /\ ~up
    /\ up' = TRUE
    /\ UNCHANGED <<granted, cache, breaker, inflight, reader, owner, changes, outages>>

(* The TTL every entry is written with.                                    *)
NeverExpires == FALSE

Expires == cache # None

expire ==
    /\ Expires
    /\ cache' = None
    /\ UNCHANGED <<granted, up, breaker, inflight, reader, owner, changes, outages>>

-----------------------------------------------------------------------------
(* get_or_load.                                                            *)

ask(r) ==
    /\ reader[r].phase \in {"idle", "answered", "failed"}
    /\ reader' = [reader EXCEPT ![r] =
                    [phase |-> "asking", on |-> None, value |-> None]]
    /\ UNCHANGED <<granted, cache, up, breaker, inflight, owner, changes, outages>>

(* A hit answers; a broken cache is a miss.                                *)
get(r) ==
    LET hit == Reachable(ProcessOf[r]) /\ cache # None IN
    /\ reader[r].phase = "asking"
    /\ reader' = [reader EXCEPT ![r].phase = IF hit THEN "answered" ELSE "missed",
                                ![r].value = IF hit THEN cache ELSE None]
    /\ Run(ProcessOf[r])
    /\ UNCHANGED <<granted, cache, up, inflight, owner, changes, outages>>

(* Who computes: the reader, unless another of its process already does.   *)
(* The variant does not look.                                              *)
EveryMissLoads(r) == TRUE

MustLoad(r) == inflight[ProcessOf[r]] = None

coalesce(r) ==
    LET p == ProcessOf[r] IN
    /\ reader[r].phase = "missed"
    /\ \/ /\ MustLoad(r)
          /\ reader' = [reader EXCEPT ![r].phase = "loading"]
          /\ inflight' = [inflight EXCEPT ![p] = r]
       \/ /\ ~MustLoad(r)
          /\ reader' = [reader EXCEPT ![r].phase = "waiting", ![r].on = inflight[p]]
          /\ UNCHANGED inflight
    /\ UNCHANGED <<granted, cache, up, breaker, owner, changes, outages>>

(* load: the decision as committed grants have it now.                     *)
load(r) ==
    /\ reader[r].phase = "loading"
    /\ reader[r].value = None
    /\ reader' = [reader EXCEPT ![r].value = granted]
    /\ UNCHANGED <<granted, cache, up, breaker, inflight, owner, changes, outages>>

(* The future is resolved, with a result or an exception: the loader and   *)
(* all that wait on it are through.                                        *)
Resolved(r, phase, value) ==
    [q \in Readers |->
        IF q = r \/ (reader[q].phase = "waiting" /\ reader[q].on = r)
        THEN [reader[q] EXCEPT !.phase = phase, !.on = None, !.value = value]
        ELSE reader[q]]

(* The entry is written, if Redis takes it, and everybody is answered.     *)
set(r) ==
    LET p == ProcessOf[r] IN
    /\ reader[r].phase = "loading"
    /\ reader[r].value # None
    /\ cache' = IF Reachable(p) THEN reader[r].value ELSE cache
    /\ Run(p)
    /\ reader' = Resolved(r, "answered", reader[r].value)
    /\ inflight' = [inflight EXCEPT ![p] = None]
    /\ UNCHANGED <<granted, up, owner, changes, outages>>

(* The variant forgets the waiters when the load fails.                    *)
LoaderOnly(r) == [reader EXCEPT ![r].phase = "failed", ![r].value = None]

set_exception(r) == Resolved(r, "failed", None)

load_fails(r) ==
    /\ reader[r].phase = "loading"
    /\ reader[r].value = None
    /\ reader' = set_exception(r)
    /\ inflight' = [inflight EXCEPT ![ProcessOf[r]] = None]
    /\ UNCHANGED <<granted, cache, up, breaker, owner, changes, outages>>

-----------------------------------------------------------------------------
(* grant and revoke: write, drop the decisions, commit.                    *)

change(value) ==
    /\ owner.phase = "idle"
    /\ changes < MaxChanges
    /\ granted # value
    /\ owner' = [phase |-> "written", value |-> value]
    /\ changes' = changes + 1
    /\ UNCHANGED <<granted, cache, up, breaker, inflight, reader, outages>>

(* A Redis that fails while the circuit is closed fails the request, which *)
(* rolls back; with the circuit open the request goes on without.          *)
invalidate_permissions_for_subject ==
    /\ owner.phase = "written"
    /\ Run(Owner)
    /\ cache' = IF Reachable(Owner) THEN None ELSE cache
    /\ owner' = [owner EXCEPT
                    !.phase = IF Reachable(Owner) \/ breaker'[Owner] = "open"
                              THEN "invalidated" ELSE "idle"]
    /\ UNCHANGED <<granted, up, inflight, reader, changes, outages>>

change_commit ==
    /\ owner.phase = "invalidated"
    /\ granted' = owner.value
    /\ owner' = [owner EXCEPT !.phase = "idle"]
    /\ UNCHANGED <<cache, up, breaker, inflight, reader, changes, outages>>

-----------------------------------------------------------------------------
CacheNext ==
    \/ \E r \in Readers : ask(r) \/ get(r) \/ coalesce(r) \/ load(r) \/ set(r) \/ load_fails(r)
    \/ \E value \in BOOLEAN : change(value)
    \/ invalidate_permissions_for_subject
    \/ change_commit
    \/ \E p \in Processes : allows(p)
    \/ Outage
    \/ Recovery
    \/ expire

(* A request that has begun is run to its end, and entries expire.  Nobody *)
(* has to ask, and Redis may stay down.                                    *)
CacheFairness ==
    /\ \A r \in Readers :
            /\ WF_cacheVars(get(r))
            /\ WF_cacheVars(coalesce(r))
            /\ WF_cacheVars(load(r) \/ load_fails(r))
            /\ WF_cacheVars(set(r))
    /\ WF_cacheVars(invalidate_permissions_for_subject)
    /\ WF_cacheVars(change_commit)
    /\ WF_cacheVars(expire)

CacheSpec == CacheInit /\ [][CacheNext]_cacheVars /\ CacheFairness

-----------------------------------------------------------------------------
(* Concurrent misses are coalesced: never do two requests of one process   *)
(* walk the ancestors for the same decision.                               *)
OneLoadPerProcess ==
    \A q, r \in Readers :
        /\ q # r /\ ProcessOf[q] = ProcessOf[r]
        /\ reader[q].phase = "loading"
        => reader[r].phase # "loading"

(* Whoever waits for the computation of another is answered or fails with  *)
(* it.                                                                     *)
WaitersServed ==
    \A r \in Readers : reader[r].phase = "waiting" ~> reader[r].phase # "waiting"

(* A cached allow does not outlive its grant for good: after the last      *)
(* change, and whatever failed, the entry is right from some time on.      *)
StaleAllowEnds == <>[](cache = TRUE => granted)
=============================================================================
