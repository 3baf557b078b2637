----------------------- MODULE PermissionCacheProofs ------------------------
(***************************************************************************)
(* For any number of readers and processes, whatever Redis does: the       *)
(* in-flight table of a process names exactly the reader that loads, and   *)
(* whoever waits, waits for that one.  So there is one load per process,   *)
(* and no reader waits on a future nobody is going to resolve.  That the   *)
(* loader does resolve it, and that entries expire, stays with TLC.        *)
(***************************************************************************)
EXTENDS PermissionCache, TLAPS

Phases == {"idle", "asking", "missed", "loading", "waiting", "answered", "failed"}

Decisions == BOOLEAN \cup {None}

Request == [phase : Phases, on : Readers \cup {None}, value : Decisions]

CacheTypeOK ==
    /\ granted \in BOOLEAN
    /\ cache \in Decisions
    /\ owner.value \in BOOLEAN
    /\ inflight \in [Processes -> Readers \cup {None}]
    /\ reader \in [Readers -> Request]

(* A reader that loads is in the table of its process ...                  *)
LoadsRegistered ==
    \A r \in Readers : reader[r].phase = "loading" => inflight[ProcessOf[r]] = r

(* ... and what the table of a process names is a reader of it that loads. *)
TableLoads ==
    \A p \in Processes :
        inflight[p] # None => /\ ProcessOf[inflight[p]] = p
                              /\ reader[inflight[p]].phase = "loading"

(* A reader waits on the future of a loader of its own process, which is   *)
(* still to be resolved: no failure, answer or later miss orphans it.      *)
WaitersHaveALoader ==
    \A r \in Readers :
        reader[r].phase = "waiting" =>
            /\ reader[r].on \in Readers
            /\ ProcessOf[reader[r].on] = ProcessOf[r]
            /\ reader[reader[r].on].phase = "loading"

CacheInv == CacheTypeOK /\ LoadsRegistered /\ TableLoads /\ WaitersHaveALoader

USE CacheAssumption

-----------------------------------------------------------------------------
(* Before the first request nobody loads and nobody waits.                 *)
LEMMA InitCache == CacheInit => CacheInv
<1> SUFFICES ASSUME CacheInit PROVE CacheInv
  OBVIOUS
<1>1. None \in Decisions
  BY DEF Decisions
<1>2. [phase |-> "idle", on |-> None, value |-> None] \in Request
  BY <1>1 DEF Request, Phases
<1>3. granted \in BOOLEAN /\ cache \in Decisions /\ owner.value \in BOOLEAN
  BY <1>1 DEF CacheInit
<1>4. /\ inflight = [p \in Processes |-> None]
      /\ reader = [r \in Readers |-> [phase |-> "idle", on |-> None, value |-> None]]
  BY DEF CacheInit
<1>5. /\ inflight \in [Processes -> Readers \cup {None}] /\ reader \in [Readers -> Request]
      /\ \A r \in Readers : reader[r].phase = "idle"
      /\ \A p \in Processes : inflight[p] = None
  BY <1>2, <1>4
<1> QED
  BY <1>3, <1>5, Zenon DEF CacheInv, CacheTypeOK, LoadsRegistered, TableLoads, WaitersHaveALoader

(* The fields of a request that starts to load ...                         *)
LEMMA LoadingRequest ==
    ASSUME NEW x \in Request
    PROVE  /\ [x EXCEPT !.phase = "loading"] \in Request
           /\ [x EXCEPT !.phase = "loading"].phase = "loading"
BY DEF Request, Phases

(* ... that has its decision ...                                           *)
LEMMA DecidedRequest ==
    ASSUME NEW x \in Request, NEW v \in Decisions
    PROVE  /\ [x EXCEPT !.value = v] \in Request
           /\ [x EXCEPT !.value = v].phase = x.phase
           /\ [x EXCEPT !.value = v].on = x.on
BY DEF Request

(* ... that had an answer or a miss ...                                    *)
LEMMA GotRequest ==
    ASSUME NEW x \in Request, NEW ph \in Phases, NEW v \in Decisions
    PROVE  /\ [x EXCEPT !.phase = ph, !.value = v] \in Request
           /\ [x EXCEPT !.phase = ph, !.value = v].phase = ph
BY DEF Request

(* ... and that waits.                                                     *)
LEMMA WaitingRequest ==
    ASSUME NEW x \in Request, NEW o \in Readers
    PROVE  /\ [x EXCEPT !.phase = "waiting", !.on = o] \in Request
           /\ [x EXCEPT !.phase = "waiting", !.on = o].phase = "waiting"
           /\ [x EXCEPT !.phase = "waiting", !.on = o].on = o
BY DEF Request, Phases

(* A reader that does not load, and after the step neither loads nor       *)
(* waits, does not matter to the others.                                   *)
LEMMA OwnStep ==
    ASSUME CacheInv, NEW r \in Readers, NEW x \in Request,
           reader[r].phase # "loading", x.phase \notin {"loading", "waiting"},
           reader' = [reader EXCEPT ![r] = x], inflight' = inflight,
           granted' = granted, cache' = cache, owner' = owner
    PROVE  CacheInv'
<1>1. CacheTypeOK'
  BY DEF CacheInv, CacheTypeOK
<1>2. LoadsRegistered'
  BY DEF CacheInv, CacheTypeOK, LoadsRegistered
<1>3. TableLoads'
  BY DEF CacheInv, CacheTypeOK, TableLoads
<1>4. WaitersHaveALoader'
  BY DEF CacheInv, CacheTypeOK, WaitersHaveALoader
<1> QED BY <1>1, <1>2, <1>3, <1>4 DEF CacheInv

(* A reader that changes nothing but its decision.                         *)
LEMMA LoadStep ==
    ASSUME CacheInv, NEW r \in Readers, load(r)
    PROVE  CacheInv'
<1>1. granted \in Decisions /\ reader[r] \in Request
  BY DEF CacheInv, CacheTypeOK, Decisions
<1>2. /\ reader' = [reader EXCEPT ![r].value = granted]
      /\ UNCHANGED <<inflight, granted, cache, owner>>
  BY DEF load
<1>3. reader' \in [Readers -> Request]
      /\ \A q \in Readers : reader'[q].phase = reader[q].phase /\ reader'[q].on = reader[q].on
  <2>1. PICK v \in Decisions : v = granted
    BY <1>1
  <2> DEFINE x == [reader[r] EXCEPT !.value = v]
  <2>2. x \in Request /\ x.phase = reader[r].phase /\ x.on = reader[r].on
    BY <1>1, DecidedRequest
  <2>3. reader' = [reader EXCEPT ![r] = x]
    BY <1>2, <2>1
  <2> HIDE DEF x
  <2> QED BY <2>2, <2>3 DEF CacheInv, CacheTypeOK
<1>4. CacheTypeOK'
  BY <1>2, <1>3 DEF CacheInv, CacheTypeOK
<1>5. LoadsRegistered'
  BY <1>2, <1>3 DEF CacheInv, LoadsRegistered
<1>6. TableLoads'
  BY <1>2, <1>3 DEF CacheInv, CacheTypeOK, TableLoads
<1>7. WaitersHaveALoader'
  BY <1>3 DEF CacheInv, CacheTypeOK, WaitersHaveALoader
<1> QED BY <1>4, <1>5, <1>6, <1>7 DEF CacheInv

(* A miss registers its load, or waits for the one that is registered.     *)
LEMMA CoalesceStep ==
    ASSUME CacheInv, NEW r \in Readers, coalesce(r)
    PROVE  CacheInv'
<1>1. PICK p \in Processes : p = ProcessOf[r]
  OBVIOUS
<1>2. /\ reader[r].phase = "missed" /\ UNCHANGED <<granted, cache, owner>> /\ reader[r] \in Request
      /\ reader \in [Readers -> Request] /\ inflight \in [Processes -> Readers \cup {None}]
  BY DEF coalesce, CacheInv, CacheTypeOK
<1>3. CASE inflight[p] = None
  <2> DEFINE x == [reader[r] EXCEPT !.phase = "loading"]
  <2>1. x \in Request /\ x.phase = "loading"
    BY <1>2, LoadingRequest
  <2>2. reader' = [reader EXCEPT ![r] = x] /\ inflight' = [inflight EXCEPT ![p] = r]
    BY <1>1, <1>3 DEF coalesce, MustLoad
  <2> HIDE DEF x
  <2>3. CacheTypeOK'
    BY <1>2, <2>1, <2>2 DEF CacheInv, CacheTypeOK
  <2>4. \A q \in Readers : q # r => reader'[q] = reader[q] /\ (reader[q].phase = "loading" => ProcessOf[q] # p)
    BY <1>2, <1>3, <2>2 DEF CacheInv, LoadsRegistered
  <2>5. reader'[r] = x /\ inflight'[p] = r /\ \A o \in Processes : o # p => inflight'[o] = inflight[o]
    BY <1>2, <2>2
  <2>6. LoadsRegistered'
    BY <1>1, <2>1, <2>4, <2>5 DEF CacheInv, LoadsRegistered
  <2>7. TableLoads'
    <3> SUFFICES ASSUME NEW o \in Processes, inflight'[o] # None
                 PROVE  /\ ProcessOf[inflight'[o]] = o /\ reader'[inflight'[o]].phase = "loading"
      BY DEF TableLoads
    <3>1. CASE o = p
      BY <1>1, <2>1, <2>5, <3>1
    <3>2. CASE o # p
      <4>1. PICK q \in Readers : q = inflight[o]
        BY <1>2, <2>5, <3>2
      <4>2. ProcessOf[q] = o /\ reader[q].phase = "loading"
        BY <2>5, <3>2, <4>1 DEF CacheInv, TableLoads
      <4>3. q # r
        BY <1>1, <3>2, <4>2
      <4> QED BY <2>4, <2>5, <3>2, <4>1, <4>2, <4>3
    <3> QED BY <3>1, <3>2
  <2>8. WaitersHaveALoader'
    <3> SUFFICES ASSUME NEW q \in Readers, reader'[q].phase = "waiting"
                 PROVE  /\ reader'[q].on \in Readers /\ ProcessOf[reader'[q].on] = ProcessOf[q]
                        /\ reader'[reader'[q].on].phase = "loading"
      BY DEF WaitersHaveALoader
    <3>1. q # r /\ reader'[q] = reader[q]
      BY <2>1, <2>4, <2>5
    <3>2. PICK o \in Readers : o = reader[q].on
      BY <3>1 DEF CacheInv, WaitersHaveALoader
    <3>3. ProcessOf[o] = ProcessOf[q] /\ reader[o].phase = "loading"
      BY <3>1, <3>2 DEF CacheInv, WaitersHaveALoader
    <3>4. o # r /\ reader'[o] = reader[o]
      BY <1>2, <2>4, <3>3
    <3> QED BY <3>1, <3>2, <3>3, <3>4
  <2> QED BY <2>3, <2>6, <2>7, <2>8 DEF CacheInv
<1>4. CASE inflight[p] # None
  <2>1. PICK o \in Readers : o = inflight[p] /\ ProcessOf[o] = p /\ reader[o].phase = "loading"
    BY <1>2, <1>4 DEF CacheInv, TableLoads
  <2> DEFINE x == [reader[r] EXCEPT !.phase = "waiting", !.on = o]
  <2>2. x \in Request /\ x.phase = "waiting" /\ x.on = o
    BY <1>2, WaitingRequest
  <2>3. reader' = [reader EXCEPT ![r] = x] /\ inflight' = inflight
    BY <1>1, <1>4, <2>1 DEF coalesce, MustLoad
  <2> HIDE DEF x
  <2>4. CacheTypeOK'
    BY <1>2, <2>2, <2>3 DEF CacheInv, CacheTypeOK
  <2>5. reader'[r] = x /\ \A q \in Readers : q # r => reader'[q] = reader[q]
    BY <1>2, <2>3
  <2>6. LoadsRegistered'
    BY <2>2, <2>3, <2>5 DEF CacheInv, LoadsRegistered
  <2>7. TableLoads'
    BY <1>2, <2>2, <2>3, <2>5 DEF CacheInv, TableLoads
  <2>8. WaitersHaveALoader'
    <3> SUFFICES ASSUME NEW q \in Readers, reader'[q].phase = "waiting"
                 PROVE  /\ reader'[q].on \in Readers /\ ProcessOf[reader'[q].on] = ProcessOf[q]
                        /\ reader'[reader'[q].on].phase = "loading"
      BY DEF WaitersHaveALoader
    <3>1. \A k \in Readers : reader[k].phase = "loading" => reader'[k] = reader[k]
      BY <1>2, <2>5
    <3>2. CASE q = r
      BY <1>1, <2>1, <2>2, <2>5, <3>1, <3>2
    <3>3. CASE q # r
      BY <2>5, <3>1, <3>3 DEF CacheInv, WaitersHaveALoader
    <3> QED BY <3>2, <3>3
  <2> QED BY <2>4, <2>6, <2>7, <2>8 DEF CacheInv
<1> QED BY <1>3, <1>4

(* The loader and all who wait on it are through together.                 *)
LEMMA ResolvedStep ==
    ASSUME CacheInv, NEW r \in Readers, NEW ph \in {"answered", "failed"}, NEW v \in Decisions,
           reader[r].phase = "loading", reader' = Resolved(r, ph, v),
           inflight' = [inflight EXCEPT ![ProcessOf[r]] = None],
           granted' = granted, owner' = owner, cache' \in Decisions
    PROVE  CacheInv'
<1>1. PICK p \in Processes : p = ProcessOf[r]
  OBVIOUS
<1>2. /\ reader \in [Readers -> Request] /\ inflight \in [Processes -> Readers \cup {None}]
      /\ inflight[p] = r
  BY <1>1 DEF CacheInv, CacheTypeOK, LoadsRegistered
<1>3. ASSUME NEW q \in Readers
      PROVE  /\ [reader[q] EXCEPT !.phase = ph, !.on = None, !.value = v] \in Request
             /\ [reader[q] EXCEPT !.phase = ph, !.on = None, !.value = v].phase = ph
  <2>1. PICK x \in Request : x = reader[q]
    BY <1>2
  <2>2. ph \in Phases
    BY DEF Phases
  <2>3. /\ [x EXCEPT !.phase = ph, !.on = None, !.value = v] \in Request
        /\ [x EXCEPT !.phase = ph, !.on = None, !.value = v].phase = ph
    BY <2>2 DEF Request
  <2> QED BY <2>1, <2>3, Zenon
<1>4. /\ reader' \in [Readers -> Request]
      /\ \A q \in Readers :
            \/ reader'[q].phase = ph
            \/ /\ reader'[q] = reader[q] /\ q # r
               /\ reader[q].phase = "waiting" => reader[q].on # r
      /\ reader'[r].phase = ph
  BY <1>2, <1>3 DEF Resolved
<1>5. /\ inflight' \in [Processes -> Readers \cup {None}]
      /\ inflight'[p] = None /\ \A o \in Processes : o # p => inflight'[o] = inflight[o]
  BY <1>1, <1>2
<1>6. \A q \in Readers : q # r /\ reader[q].phase = "loading" => reader'[q] = reader[q]
  BY <1>2 DEF Resolved
<1>7. CacheTypeOK'
  BY <1>4, <1>5 DEF CacheInv, CacheTypeOK
<1>8. LoadsRegistered'
  BY <1>1, <1>2, <1>4, <1>5 DEF CacheInv, LoadsRegistered
<1>9. TableLoads'
  BY <1>1, <1>2, <1>5, <1>6 DEF CacheInv, TableLoads
<1>10. WaitersHaveALoader'
  BY <1>4, <1>6 DEF CacheInv, WaitersHaveALoader
<1> QED BY <1>7, <1>8, <1>9, <1>10 DEF CacheInv

(* What the owner, Redis and the clock do reaches no reader.               *)
LEMMA OutsideStep ==
    ASSUME CacheInv, reader' = reader, inflight' = inflight,
           granted' \in BOOLEAN, cache' \in Decisions, owner'.value \in BOOLEAN
    PROVE  CacheInv'
BY DEF CacheInv, CacheTypeOK, LoadsRegistered, TableLoads, WaitersHaveALoader

(* Every step keeps the invariant.                                         *)
LEMMA CacheStep == CacheInv /\ [CacheNext]_cacheVars => CacheInv'
<1> SUFFICES ASSUME CacheInv, [CacheNext]_cacheVars PROVE CacheInv'
  OBVIOUS
<1>0. /\ granted \in BOOLEAN /\ cache \in Decisions /\ owner.value \in BOOLEAN /\ reader \in [Readers -> Request]
      /\ None \in Decisions /\ \A b \in BOOLEAN : b \in Decisions
  BY Zenon DEF CacheInv, CacheTypeOK, Decisions
<1>1. CASE UNCHANGED cacheVars
  <2>1. reader' = reader /\ inflight' = inflight /\ granted' = granted /\ cache' = cache
    BY <1>1 DEF cacheVars
  <2>2. granted' \in BOOLEAN /\ cache' \in Decisions /\ owner'.value \in BOOLEAN
    BY <1>0, <1>1, <2>1, Zenon DEF cacheVars
  <2> QED BY <2>1, <2>2, OutsideStep, Zenon
<1>2. ASSUME NEW r \in Readers, ask(r) PROVE CacheInv'
  <2> DEFINE x == [phase |-> "asking", on |-> None, value |-> None]
  <2>1. x \in Request /\ x.phase = "asking"
    BY <1>0 DEF Request, Phases
  <2>2. reader[r].phase # "loading" /\ reader' = [reader EXCEPT ![r] = x]
    BY <1>2 DEF ask
  <2>3. inflight' = inflight /\ granted' = granted /\ cache' = cache /\ owner' = owner
    BY <1>2, Zenon DEF ask
  <2> HIDE DEF x
  <2> QED BY <2>1, <2>2, <2>3, OwnStep
<1>3. ASSUME NEW r \in Readers, get(r) PROVE CacheInv'
  <2> DEFINE hit == Reachable(ProcessOf[r]) /\ cache # None
  <2>1. PICK v \in Decisions : v = IF hit THEN cache ELSE None
    BY <1>0, Zenon
  <2>2. PICK ph \in {"answered", "missed"} : ph = IF hit THEN "answered" ELSE "missed"
    OBVIOUS
  <2>3. /\ reader[r].phase = "asking"
        /\ reader' = [reader EXCEPT ![r].phase = ph, ![r].value = v]
        /\ inflight' = inflight /\ granted' = granted /\ cache' = cache /\ owner' = owner
    BY <1>3, <2>1, <2>2, Zenon DEF get
  <2> DEFINE x == [reader[r] EXCEPT !.phase = ph, !.value = v]
  <2>a. ph \in Phases
    BY DEF Phases
  <2>b. reader[r] \in Request
    BY <1>0
  <2>4. x \in Request /\ x.phase = ph
    BY <2>a, <2>b, GotRequest, Zenon
  <2>5. reader' = [reader EXCEPT ![r] = x]
    BY <1>0, <2>3, <2>4
  <2> HIDE DEF x
  <2> QED BY <2>3, <2>4, <2>5, OwnStep
<1>4. ASSUME NEW r \in Readers, coalesce(r) PROVE CacheInv'
  BY <1>4, CoalesceStep
<1>5. ASSUME NEW r \in Readers, load(r) PROVE CacheInv'
  BY <1>5, LoadStep
<1>6. ASSUME NEW r \in Readers, set(r) PROVE CacheInv'
  <2>1. PICK v \in Decisions : v = reader[r].value
    BY <1>0 DEF Request
  <2>2. cache' \in Decisions
    BY <1>0, <1>6, <2>1, Zenon DEF set
  <2>3. /\ reader[r].phase = "loading" /\ reader' = Resolved(r, "answered", v)
        /\ inflight' = [inflight EXCEPT ![ProcessOf[r]] = None]
        /\ granted' = granted /\ owner' = owner
    BY <1>6, <2>1, Zenon DEF set
  <2> QED BY <2>2, <2>3, ResolvedStep
<1>7. ASSUME NEW r \in Readers, load_fails(r) PROVE CacheInv'
  <2>1. /\ reader[r].phase = "loading" /\ reader' = Resolved(r, "failed", None)
        /\ inflight' = [inflight EXCEPT ![ProcessOf[r]] = None]
        /\ granted' = granted /\ cache' = cache /\ owner' = owner
    BY <1>7, Zenon DEF load_fails, set_exception
  <2>2. cache' \in Decisions
    BY <1>0, <2>1, Zenon
  <2> QED BY <1>0, <2>1, <2>2, ResolvedStep
<1>8. ASSUME NEW value \in BOOLEAN, change(value) PROVE CacheInv'
  <2>1. /\ reader' = reader /\ inflight' = inflight /\ granted' = granted /\ cache' = cache
        /\ owner'.value = value
    BY <1>8 DEF change
  <2>2. granted' \in BOOLEAN /\ cache' \in Decisions /\ owner'.value \in BOOLEAN
    BY <1>0, <2>1, Zenon
  <2> QED BY <2>1, <2>2, OutsideStep, Zenon
<1>9. CASE invalidate_permissions_for_subject
  <2>1. /\ reader' = reader /\ inflight' = inflight /\ granted' = granted
        /\ cache' = IF Reachable(Owner) THEN None ELSE cache
    BY <1>9, Zenon DEF invalidate_permissions_for_subject
  <2>2. owner'.value = owner.value
    BY <1>9 DEF invalidate_permissions_for_subject
  <2>3. granted' \in BOOLEAN /\ cache' \in Decisions /\ owner'.value \in BOOLEAN
    BY <1>0, <2>1, <2>2, Zenon
  <2> QED BY <2>1, <2>3, OutsideStep, Zenon
<1>10. CASE change_commit
  <2>1. /\ reader' = reader /\ inflight' = inflight /\ granted' = owner.value /\ cache' = cache
        /\ owner'.value = owner.value
    BY <1>10 DEF change_commit
  <2>2. granted' \in BOOLEAN /\ cache' \in Decisions /\ owner'.value \in BOOLEAN
    BY <1>0, <2>1, Zenon
  <2> QED BY <2>1, <2>2, OutsideStep, Zenon
<1>11. CASE (\E p \in Processes : allows(p)) \/ Outage \/ Recovery \/ expire
  <2>1. /\ reader' = reader /\ inflight' = inflight /\ granted' = granted /\ owner' = owner
        /\ cache' = cache \/ cache' = None
    BY <1>11, Zenon DEF allows, Outage, Recovery, expire
  <2>2. granted' \in BOOLEAN /\ cache' \in Decisions /\ owner'.value \in BOOLEAN
    BY <1>0, <2>1, Zenon
  <2> QED BY <2>1, <2>2, OutsideStep, Zenon
<1> QED
  BY <1>1, <1>2, <1>3, <1>4, <1>5, <1>6, <1>7, <1>8, <1>9, <1>10, <1>11 DEF CacheNext

(* In every reachable state the table and the readers agree.               *)
THEOREM CacheInvariant == CacheSpec => []CacheInv
BY InitCache, CacheStep, PTL DEF CacheSpec

(* Concurrent misses of a process share one load.                          *)
THEOREM MissesCoalesce == CacheSpec => []OneLoadPerProcess
<1>1. CacheInv => OneLoadPerProcess
  BY DEF CacheInv, LoadsRegistered, OneLoadPerProcess
<1> QED BY CacheInvariant, <1>1, PTL

(* No reader waits on a future that its loader has left behind.            *)
THEOREM NobodyIsOrphaned == CacheSpec => []WaitersHaveALoader
<1>1. CacheInv => WaitersHaveALoader
  BY DEF CacheInv
<1> QED BY CacheInvariant, <1>1, PTL
=============================================================================
