--------------------------- MODULE SurfaceProofs ----------------------------
(***************************************************************************)
(* Components at the edge of the service, each for any number of requests. *)
(*                                                                         *)
(* Credentials: a subject is provisioned once, the count of uses never     *)
(* runs ahead of the uses, and the limiter lets no more wrong passphrases  *)
(* through than it says.  The first two come from what a request in flight *)
(* knows: that rows it read are still there, that its entity is at most    *)
(* one use ahead of the committed ones, and that the only request with a   *)
(* new user row is the one that holds the index while there is no such     *)
(* row.                                                                    *)
(*                                                                         *)
(* Multipart: a part whose bytes were acknowledged is kept until the       *)
(* upload ends, an object is assembled from the parts as listed, and a     *)
(* user is never charged ahead of what is stored.  A part sent once has    *)
(* one body wherever it is found, so rows, objects and the lists of        *)
(* completions in flight agree on it.  The total a completion is about to  *)
(* write is at most what is stored by then and its own bytes.              *)
(*                                                                         *)
(* Labels: what a request answered is what the node carries, and the       *)
(* inventory of tags counts what a search for each finds.  From the        *)
(* advisory lock on a request has the node to itself, and the statements   *)
(* it runs come to the collection it decided on.                           *)
(*                                                                         *)
(* Paging: a walk that ends returned every row that stayed, once.  What it *)
(* returned is in order, the cursor is its end, and what is due lies past  *)
(* the cursor or was returned.                                             *)
(*                                                                         *)
(* TokenTrust: a withdrawn key is trusted for so long and no longer, the   *)
(* issuer is asked for unknown keys so often and no more, and a fresh      *)
(* answer is worth what it says, for any TTL, cooldown and limit.  None of *)
(* it uses the lock or the limiter.                                        *)
(***************************************************************************)
EXTENDS Credentials, Multipart, Labels, Paging, TokenTrust, CommonLemmas

-----------------------------------------------------------------------------
(* Credentials.                                                            *)
Phases == {"idle", "read", "resolve", "provision", "found", "commit"}

Txn == [phase : Phases, on : Creds \cup {Nil}, entity : CredRow \cup {Absent},
        dirty : SUBSET {"revoked", "uses"}, person : UserRow \cup {Absent},
        stale : SUBSET {"quota", "admin"}, new : BOOLEAN, use : BOOLEAN]

CredTypeOK ==
    /\ cred \in [Creds -> CredRow \cup {Absent}]
    /\ user \in UserRow \cup {Absent}
    /\ homes \in Nat
    /\ inserting \in Txns \cup {Nil}
    /\ txn \in [Txns -> Txn]
    /\ opened \in [Creds -> Nat]

(* The credential side of a request.                                       *)
Margin(x) == IF x.use THEN 1 ELSE 0

CredSide(t) ==
    txn[t].on \in Creds =>
        /\ txn[t].entity \in CredRow
        /\ cred[txn[t].on] \in CredRow
        /\ txn[t].entity.uses <= opened[txn[t].on] + Margin(txn[t])

(* The user side of a request.                                             *)
UserSide(t) ==
    /\ txn[t].phase = "read" => txn[t].on \in Creds /\ txn[t].person = Absent
    /\ txn[t].phase \in {"found", "provision"} => txn[t].person \in UserRow
    /\ txn[t].phase = "found" => user \in UserRow
    /\ txn[t].phase = "commit" /\ txn[t].person # Absent /\ ~ txn[t].new => user \in UserRow
    /\ txn[t].new => /\ txn[t].phase = "commit" /\ txn[t].person \in UserRow
                     /\ inserting = t /\ user = Absent

UsesCounted == \A c \in Creds : cred[c] # Absent => cred[c].uses <= opened[c]

CInv ==
    /\ CredTypeOK
    /\ ProvisionedOnce
    /\ UsesCounted
    /\ \A t \in Txns : CredSide(t) /\ UserSide(t)

-----------------------------------------------------------------------------
(* The columns an entity is written back with are those of its row.        *)
LEMMA WrittenCred ==
    ASSUME NEW row \in CredRow, NEW entity \in CredRow, NEW dirty
    PROVE  /\ Dirty(entity, row) \in SUBSET {"revoked", "uses"}
           /\ Written(row, entity, dirty) \in CredRow
           /\ Written(row, entity, dirty).uses \in {row.uses, entity.uses}
  BY DEF Dirty, Written, CredRow

LEMMA WrittenUser ==
    ASSUME NEW row \in UserRow, NEW entity \in UserRow, NEW dirty
    PROVE  /\ Dirty(entity, row) \in SUBSET {"quota", "admin"}
           /\ Written(row, entity, dirty) \in UserRow
  BY DEF Dirty, Written, UserRow

LEMMA NoTxnIsTxn == NoTxn \in Txn
  BY DEF NoTxn, Txn, Phases

LEMMA InitHolds == CredInit => CInv
  <1> SUFFICES ASSUME CredInit PROVE CInv
    OBVIOUS
  <1>1. CredTypeOK
    BY NoTxnIsTxn DEF CredInit, CredTypeOK
  <1>2. ProvisionedOnce /\ UsesCounted
    BY DEF CredInit, ProvisionedOnce, UsesCounted
  <1>3. \A t \in Txns : CredSide(t) /\ UserSide(t)
    BY CredentialsAssumption DEF CredInit, CredSide, UserSide, NoTxn
  <1> QED  BY <1>1, <1>2, <1>3 DEF CInv

(* A request that changes nothing but itself keeps the invariant if its    *)
(* own side of it is kept.                                                 *)
LEMMA OwnStep ==
    ASSUME CInv, NEW t \in Txns, NEW x \in Txn,
           txn' = [txn EXCEPT ![t] = x],
           UNCHANGED <<tables, inserting>>,
           CredSide(t)', UserSide(t)'
    PROVE  CInv'
  <1>1. txn' \in [Txns -> Txn] /\ \A s \in Txns : s # t => txn'[s] = txn[s]
    BY DEF CInv, CredTypeOK
  <1>2. CredTypeOK' /\ ProvisionedOnce' /\ UsesCounted'
    BY <1>1 DEF CInv, CredTypeOK, ProvisionedOnce, UsesCounted, tables
  <1>3. ASSUME NEW s \in Txns PROVE CredSide(s)' /\ UserSide(s)'
    BY <1>1 DEF CInv, CredSide, UserSide, tables, Margin
  <1> QED  BY <1>2, <1>3 DEF CInv

-----------------------------------------------------------------------------
(* A fresh request on a credential.                                        *)
LEMMA ReadStep ==
    ASSUME CInv, NEW t \in Txns, NEW c \in Creds, cred[c] \in CredRow,
           NEW x \in Txn, x.phase = "read", x.on = c, x.entity \in CredRow,
           x.entity.uses <= cred[c].uses + Margin(x), x.person = Absent, ~ x.new,
           txn' = [txn EXCEPT ![t] = x],
           UNCHANGED <<tables, inserting>>
    PROVE  CInv'
  <1>1. txn'[t] = x
    BY DEF CInv, CredTypeOK
  <1>2. /\ cred[c].uses <= opened[c] /\ opened[c] \in Nat /\ cred[c].uses \in Nat
        /\ x.entity.uses \in Nat /\ Margin(x) \in Nat
    BY CredentialsAssumption DEF CInv, UsesCounted, CredTypeOK, CredRow, Margin
  <1>3. CredSide(t)'
    BY <1>1, <1>2 DEF CredSide, Margin, tables
  <1>4. UserSide(t)'
    BY <1>1 DEF UserSide
  <1> QED  BY <1>3, <1>4, OwnStep

(* A row that a request inserts was not there, so nobody refers to it.     *)
LEMMA CreatedStep ==
    ASSUME CInv, NEW t \in Txns, NEW c \in Creds, created(t, c)
    PROVE  CInv'
  <1>1. /\ cred' = [cred EXCEPT ![c] = [revoked |-> FALSE, uses |-> 0]]
        /\ cred[c] = Absent /\ UNCHANGED <<user, homes, inserting, txn, opened>>
    BY DEF created
  <1>2. [revoked |-> FALSE, uses |-> 0] \in CredRow
    BY DEF CredRow
  <1>3. CredTypeOK' /\ ProvisionedOnce'
    BY <1>1, <1>2 DEF CInv, CredTypeOK, ProvisionedOnce
  <1>4. UsesCounted'
    BY <1>1, <1>2 DEF CInv, CredTypeOK, UsesCounted
  <1>5. ASSUME NEW s \in Txns PROVE CredSide(s)' /\ UserSide(s)'
    BY <1>1, <1>2, CredentialsAssumption DEF CInv, CredTypeOK, CredSide, UserSide, Margin
  <1> QED  BY <1>3, <1>4, <1>5 DEF CInv

(* The second read: the entity of the request is of the row it read.       *)
LEMMA UpdateStep ==
    ASSUME CInv, NEW t \in Txns, update(t)
    PROVE  CInv'
  <1> DEFINE d == Dirty(txn[t].entity, cred[txn[t].on])
             p == IF txn[t].on \in Keys /\ txn[t].use THEN "resolve" ELSE "commit"
             x == [txn[t] EXCEPT !.dirty = d, !.phase = p]
  <1>1. /\ txn[t] \in Txn /\ txn[t].phase = "read" /\ txn' = [txn EXCEPT ![t] = x]
        /\ UNCHANGED <<tables, inserting>> /\ txn'[t] = x
    BY DEF CInv, CredTypeOK, update
  <1>2. txn[t].on \in Creds /\ txn[t].person = Absent /\ CredSide(t) /\ ~ txn[t].new
    BY <1>1 DEF CInv, UserSide, Txn
  <1>3. d \in SUBSET {"revoked", "uses"} /\ p \in {"resolve", "commit"}
    BY <1>2, WrittenCred DEF CredSide
  <1> HIDE DEF d, p
  <1>4. /\ x \in Txn /\ x.phase = p /\ x.on = txn[t].on /\ x.entity = txn[t].entity
        /\ x.use = txn[t].use /\ x.person = txn[t].person /\ x.new = txn[t].new
    BY <1>1, <1>3 DEF Txn, Phases
  <1> HIDE DEF x
  <1>5. CredSide(t)'
    BY <1>1, <1>2, <1>4 DEF CredSide, Margin, tables
  <1>6. UserSide(t)'
    BY <1>1, <1>2, <1>3, <1>4 DEF UserSide
  <1> QED  BY <1>1, <1>4, <1>5, <1>6, OwnStep

LEMMA CurrentUserStep ==
    ASSUME CInv, NEW t \in Txns, current_user(t)
    PROVE  CInv'
  <1> DEFINE x == [NoTxn EXCEPT !.phase = "resolve"]
  <1>1. x \in Txn /\ x.phase = "resolve" /\ x.on = Nil /\ ~ x.new /\ x.person = Absent
    BY DEF NoTxn, Txn, Phases
  <1>2. txn' = [txn EXCEPT ![t] = x] /\ txn'[t] = x /\ UNCHANGED <<tables, inserting>>
    BY DEF CInv, CredTypeOK, current_user
  <1> HIDE DEF x
  <1>3. CredSide(t)' /\ UserSide(t)'
    BY <1>1, <1>2, CredentialsAssumption DEF CredSide, UserSide
  <1> QED  BY <1>1, <1>2, <1>3, OwnStep

LEMMA ResolveStep ==
    ASSUME CInv, NEW t \in Txns, resolve(t)
    PROVE  CInv'
  <1>1. txn[t] \in Txn /\ txn[t].phase = "resolve" /\ ~ txn[t].new /\ CredSide(t)
    BY DEF CInv, CredTypeOK, resolve, UserSide, Txn
  <1>2. PICK admin \in BOOLEAN :
            txn' = [txn EXCEPT
                ![t].phase = IF user = Absent THEN "provision" ELSE "found",
                ![t].person = IF user = Absent THEN [quota |-> DefaultQuota, admin |-> admin]
                                               ELSE [user EXCEPT !.admin = admin]]
    BY DEF resolve
  <1> DEFINE p == IF user = Absent THEN "provision" ELSE "found"
             u == IF user = Absent THEN [quota |-> DefaultQuota, admin |-> admin]
                                   ELSE [user EXCEPT !.admin = admin]
             x == [txn[t] EXCEPT !.phase = p, !.person = u]
  <1>3. u \in UserRow /\ p \in {"provision", "found"} /\ (p = "found" => user \in UserRow)
    BY CredentialsAssumption DEF CInv, CredTypeOK, UserRow
  <1>4. txn' = [txn EXCEPT ![t] = x] /\ txn'[t] = x /\ UNCHANGED <<tables, inserting>>
    BY <1>2 DEF CInv, CredTypeOK, resolve
  <1> HIDE DEF p, u
  <1>5. /\ x \in Txn /\ x.phase = p /\ x.on = txn[t].on /\ x.entity = txn[t].entity
        /\ x.use = txn[t].use /\ x.person = u /\ x.new = txn[t].new
    BY <1>1, <1>3 DEF Txn, Phases
  <1> HIDE DEF x
  <1>6. CredSide(t)'
    BY <1>1, <1>4, <1>5 DEF CredSide, Margin, tables
  <1>7. UserSide(t)'
    BY <1>1, <1>3, <1>4, <1>5 DEF UserSide, tables
  <1> QED  BY <1>4, <1>5, <1>6, <1>7, OwnStep

LEMMA SetQuotaStep ==
    ASSUME CInv, NEW t \in Txns, NEW q \in Quotas, set_quota(t, q)
    PROVE  CInv'
  <1> DEFINE u == [user EXCEPT !.quota = q]
             x == [NoTxn EXCEPT !.phase = "found", !.person = u]
  <1>1. user \in UserRow /\ u \in UserRow
    BY CredentialsAssumption DEF CInv, CredTypeOK, set_quota, UserRow
  <1>2. txn' = [txn EXCEPT ![t] = x] /\ txn'[t] = x /\ UNCHANGED <<tables, inserting>>
    BY DEF CInv, CredTypeOK, set_quota
  <1> HIDE DEF u
  <1>3. x \in Txn /\ x.phase = "found" /\ x.on = Nil /\ ~ x.new /\ x.person = u
    BY <1>1 DEF NoTxn, Txn, Phases
  <1> HIDE DEF x
  <1>4. CredSide(t)' /\ UserSide(t)'
    BY <1>1, <1>2, <1>3, CredentialsAssumption DEF CredSide, UserSide, tables
  <1> QED  BY <1>2, <1>3, <1>4, OwnStep

LEMMA RefreshStep ==
    ASSUME CInv, NEW t \in Txns, _refresh(t)
    PROVE  CInv'
  <1> DEFINE d == Dirty(txn[t].person, user)
             x == [txn[t] EXCEPT !.stale = d, !.phase = "commit"]
  <1>1. /\ txn[t] \in Txn /\ txn[t].phase = "found" /\ txn' = [txn EXCEPT ![t] = x]
        /\ UNCHANGED <<tables, inserting>> /\ txn'[t] = x
    BY DEF CInv, CredTypeOK, _refresh
  <1>2. txn[t].person \in UserRow /\ user \in UserRow /\ CredSide(t) /\ ~ txn[t].new
    BY <1>1 DEF CInv, UserSide, Txn
  <1>3. d \in SUBSET {"quota", "admin"}
    BY <1>2, WrittenUser
  <1> HIDE DEF d
  <1>4. /\ x \in Txn /\ x.phase = "commit" /\ x.on = txn[t].on /\ x.entity = txn[t].entity
        /\ x.use = txn[t].use /\ x.person = txn[t].person /\ x.new = txn[t].new
    BY <1>1, <1>3 DEF Txn, Phases
  <1> HIDE DEF x
  <1>5. CredSide(t)'
    BY <1>1, <1>2, <1>4 DEF CredSide, Margin, tables
  <1>6. UserSide(t)'
    BY <1>1, <1>2, <1>4 DEF UserSide, tables
  <1> QED  BY <1>1, <1>4, <1>5, <1>6, OwnStep

(* Only a request that finds no user row and nobody inserting one gets to  *)
(* insert; so no other request has a new row.                              *)
LEMMA ProvisionStep ==
    ASSUME CInv, NEW t \in Txns, _provision(t)
    PROVE  CInv'
  <1>1. /\ txn[t] \in Txn /\ txn[t].phase = "provision" /\ inserting = Nil
        /\ txn[t].person \in UserRow /\ UNCHANGED tables /\ CredSide(t)
    BY DEF CInv, CredTypeOK, UserSide, _provision
  <1>2. \A s \in Txns : ~ txn[s].new
    BY <1>1, CredentialsAssumption DEF CInv, UserSide, CredTypeOK, Txn
  <1>3. CASE user = Absent
    <2> DEFINE x == [txn[t] EXCEPT !.new = TRUE, !.phase = "commit"]
    <2>1. txn' = [txn EXCEPT ![t] = x] /\ txn'[t] = x /\ inserting' = t
      BY <1>3 DEF CInv, CredTypeOK, _provision
    <2>2. /\ x \in Txn /\ x.phase = "commit" /\ x.on = txn[t].on /\ x.entity = txn[t].entity
          /\ x.use = txn[t].use /\ x.person = txn[t].person /\ x.new = TRUE
      BY <1>1 DEF Txn, Phases
    <2> HIDE DEF x
    <2>3. txn' \in [Txns -> Txn] /\ \A s \in Txns : s # t => txn'[s] = txn[s]
      BY <2>1, <2>2 DEF CInv, CredTypeOK
    <2>4. CredTypeOK' /\ ProvisionedOnce' /\ UsesCounted'
      BY <1>1, <2>1, <2>3 DEF CInv, CredTypeOK, ProvisionedOnce, UsesCounted, tables
    <2>5. CredSide(t)' /\ UserSide(t)'
      BY <1>1, <1>3, <2>1, <2>2 DEF CredSide, UserSide, Margin, tables
    <2>6. ASSUME NEW s \in Txns, s # t PROVE CredSide(s)' /\ UserSide(s)'
      BY <1>1, <1>2, <2>3, <2>6 DEF CInv, CredSide, UserSide, Margin, tables
    <2> QED  BY <2>4, <2>5, <2>6 DEF CInv
  <1>4. CASE user # Absent
    <2>1. txn' = [txn EXCEPT ![t] = NoTxn] /\ txn'[t] = NoTxn /\ UNCHANGED inserting
      BY <1>4 DEF CInv, CredTypeOK, _provision
    <2>2. CredSide(t)' /\ UserSide(t)'
      BY <2>1, CredentialsAssumption DEF CredSide, UserSide, NoTxn
    <2> QED  BY <1>1, <2>1, <2>2, OwnStep, NoTxnIsTxn
  <1> QED  BY <1>3, <1>4

LEMMA RollbackStep ==
    ASSUME CInv, NEW t \in Txns, rollback(t)
    PROVE  CInv'
  <1>1. /\ txn' = [txn EXCEPT ![t] = NoTxn] /\ UNCHANGED tables
        /\ inserting' = IF inserting = t THEN Nil ELSE inserting
    BY DEF rollback
  <1>2. /\ txn' \in [Txns -> Txn] /\ txn'[t] = NoTxn
        /\ \A s \in Txns : s # t => txn'[s] = txn[s]
    BY <1>1, NoTxnIsTxn DEF CInv, CredTypeOK
  <1>3. CredTypeOK' /\ ProvisionedOnce' /\ UsesCounted'
    BY <1>1, <1>2 DEF CInv, CredTypeOK, ProvisionedOnce, UsesCounted, tables
  <1>4. CredSide(t)' /\ UserSide(t)'
    BY <1>2, CredentialsAssumption DEF CredSide, UserSide, NoTxn
  <1>5. ASSUME NEW s \in Txns, s # t PROVE CredSide(s)' /\ UserSide(s)'
    BY <1>1, <1>2, <1>5 DEF CInv, CredSide, UserSide, Margin, tables
  <1> QED  BY <1>3, <1>4, <1>5 DEF CInv

(* The commit writes both sides, and adds a use when its entity was one    *)
(* ahead.                                                                  *)
LEMMA CommitStep ==
    ASSUME CInv, NEW t \in Txns, commit(t)
    PROVE  CInv'
  <1>1. /\ txn[t] \in Txn /\ txn[t].phase = "commit" /\ CredSide(t) /\ UserSide(t)
        /\ txn' = [txn EXCEPT ![t] = NoTxn]
        /\ inserting' = IF inserting = t THEN Nil ELSE inserting
    BY DEF CInv, CredTypeOK, commit
  <1>2. /\ txn' \in [Txns -> Txn] /\ txn'[t] = NoTxn
        /\ \A s \in Txns : s # t => txn'[s] = txn[s]
    BY <1>1, NoTxnIsTxn DEF CInv, CredTypeOK
  <1>3. /\ opened' \in [Creds -> Nat]
        /\ \A c \in Creds : opened[c] \in Nat /\ opened[c] <= opened'[c]
        /\ txn[t].on \in Creds => opened'[txn[t].on] = opened[txn[t].on] + Margin(txn[t])
    BY <1>1 DEF CInv, CredTypeOK, commit, Margin, Txn
  <1>4. /\ cred' \in [Creds -> CredRow \cup {Absent}]
        /\ \A c \in Creds : cred[c] \in CredRow => cred'[c] \in CredRow
        /\ \A c \in Creds : c # txn[t].on => cred'[c] = cred[c]
    <2>1. \A c \in Creds : c # txn[t].on => cred'[c] = cred[c]
      BY DEF commit
    <2>2. txn[t].on \in Creds => cred'[txn[t].on] \in CredRow
      BY <1>1, WrittenCred DEF commit, CredSide
    <2>3. cred' = [c \in Creds |-> cred'[c]]
      BY DEF commit
    <2> QED  BY <2>1, <2>2, <2>3 DEF CInv, CredTypeOK
  <1>5. UsesCounted'
    <2> SUFFICES ASSUME NEW c \in Creds, cred'[c] # Absent PROVE cred'[c].uses <= opened'[c]
      BY DEF UsesCounted
    <2>1. CASE c # txn[t].on
      <3>1. cred'[c] = cred[c] /\ cred[c] \in CredRow /\ cred[c].uses <= opened[c]
        BY <2>1, <1>4 DEF CInv, CredTypeOK, UsesCounted
      <3>2. cred[c].uses \in Nat /\ opened'[c] \in Nat
        BY <3>1, <1>3 DEF CredRow
      <3> QED  BY <3>1, <3>2, <1>3
    <2>2. CASE c = txn[t].on
      <3> DEFINE w == Written(cred[c], txn[t].entity, txn[t].dirty)
      <3>1. cred'[c] = w
        BY <2>2 DEF commit
      <3>2. /\ txn[t].entity \in CredRow /\ cred[c] \in CredRow
            /\ txn[t].entity.uses <= opened[c] + Margin(txn[t])
            /\ cred[c].uses <= opened[c]
        BY <1>1, <2>2, CredentialsAssumption DEF CInv, CredSide, UsesCounted
      <3>3. w.uses \in {cred[c].uses, txn[t].entity.uses}
        BY <3>2, WrittenCred
      <3>4. cred[c].uses \in Nat /\ txn[t].entity.uses \in Nat
        BY <3>2 DEF CredRow
      <3>5. opened[c] \in Nat /\ opened[c] <= opened'[c] /\ opened'[c] \in Nat
            /\ opened'[c] = opened[c] + Margin(txn[t])
        BY <1>3, <2>2
      <3> HIDE DEF w
      <3> QED  BY <3>1, <3>2, <3>3, <3>4, <3>5
    <2> QED  BY <2>1, <2>2
  <1>6. CredSide(t)'
    BY <1>2, CredentialsAssumption DEF CredSide, NoTxn
  <1>7. ASSUME NEW s \in Txns, s # t PROVE CredSide(s)'
    <2> SUFFICES ASSUME txn[s].on \in Creds
                 PROVE  /\ txn[s].entity \in CredRow /\ cred'[txn[s].on] \in CredRow
                        /\ txn[s].entity.uses <= opened'[txn[s].on] + Margin(txn[s])
      BY <1>2, <1>7 DEF CredSide, Margin
    <2>1. /\ txn[s].entity \in CredRow /\ cred[txn[s].on] \in CredRow
          /\ txn[s].entity.uses <= opened[txn[s].on] + Margin(txn[s])
      BY DEF CInv, CredSide
    <2>2. opened[txn[s].on] \in Nat /\ opened'[txn[s].on] \in Nat
          /\ opened[txn[s].on] <= opened'[txn[s].on]
      BY <1>3
    <2>3. txn[s].entity.uses \in Nat /\ Margin(txn[s]) \in Nat
      BY <2>1 DEF CredRow, Margin
    <2> QED  BY <1>4, <2>1, <2>2, <2>3
  <1>8. CASE txn[t].new
    <2>1. /\ user = Absent /\ inserting = t /\ txn[t].person \in UserRow
          /\ user' = txn[t].person /\ homes' = homes + 1 /\ inserting' = Nil
      BY <1>1, <1>8 DEF UserSide, commit
    <2>2. user' \in UserRow /\ user' # Absent /\ homes = 0
      BY <2>1, CredentialsAssumption DEF CInv, ProvisionedOnce
    <2>3. CredTypeOK' /\ ProvisionedOnce'
      BY <1>2, <1>3, <1>4, <2>1, <2>2 DEF CredTypeOK, ProvisionedOnce
    <2>4. UserSide(t)'
      BY <1>2 DEF UserSide, NoTxn
    <2>5. ASSUME NEW s \in Txns, s # t PROVE UserSide(s)'
      BY <1>2, <2>1, <2>2, <2>5 DEF CInv, UserSide
    <2> QED  BY <1>5, <1>6, <1>7, <2>3, <2>4, <2>5 DEF CInv
  <1>9. CASE ~ txn[t].new
    <2>1. homes' = homes /\ user' \in UserRow \cup {Absent} /\ (user' = Absent <=> user = Absent)
      <3>1. CASE txn[t].person = Absent
        BY <1>9, <3>1 DEF CInv, CredTypeOK, commit
      <3>2. CASE txn[t].person # Absent
        <4>1. txn[t].person \in UserRow /\ user \in UserRow
          BY <1>1, <1>9, <3>2 DEF Txn, UserSide
        <4>2. user' = Written(user, txn[t].person, txn[t].stale)
          BY <1>9, <3>2 DEF commit
        <4> QED  BY <1>9, <4>1, <4>2, WrittenUser, CredentialsAssumption DEF commit
      <3> QED  BY <3>1, <3>2
    <2>2. CredTypeOK' /\ ProvisionedOnce'
      BY <1>1, <1>2, <1>3, <1>4, <2>1 DEF CInv, CredTypeOK, ProvisionedOnce
    <2>3. UserSide(t)'
      BY <1>2 DEF UserSide, NoTxn
    <2>4. ASSUME NEW s \in Txns, s # t PROVE UserSide(s)'
      BY <1>1, <1>2, <2>1, <2>4, CredentialsAssumption DEF CInv, UserSide
    <2> QED  BY <1>5, <1>6, <1>7, <2>2, <2>3, <2>4 DEF CInv
  <1> QED  BY <1>8, <1>9

-----------------------------------------------------------------------------
LEMMA StartStep ==
    ASSUME CInv, NEW t \in Txns, Start(t)
    PROVE  CInv'
  <1>1. ASSUME NEW c \in Creds, Revokes(t, c) PROVE CInv'
    <2> DEFINE e == [cred[c] EXCEPT !.revoked = TRUE]
               x == [NoTxn EXCEPT !.phase = "read", !.on = c, !.entity = e]
    <2>1. cred[c] \in CredRow /\ e \in CredRow /\ e.uses = cred[c].uses /\ e.uses \in Nat
      BY <1>1 DEF CInv, CredTypeOK, Revokes, CredRow
    <2>2. txn' = [txn EXCEPT ![t] = x] /\ UNCHANGED <<tables, inserting>>
      BY <1>1 DEF Revokes
    <2> HIDE DEF e
    <2>3. /\ x \in Txn /\ x.phase = "read" /\ x.on = c /\ x.entity = e
          /\ x.person = Absent /\ ~ x.new /\ Margin(x) = 0
      BY <2>1 DEF NoTxn, Txn, Phases, Margin
    <2>4. x.entity \in CredRow /\ x.entity.uses <= cred[c].uses + Margin(x)
      BY <2>1, <2>3
    <2> HIDE DEF x
    <2> QED  BY <2>1, <2>2, <2>3, <2>4, ReadStep
  <1>2. ASSUME NEW c \in Creds, KeyRead(t, c) PROVE CInv'
    <2> DEFINE e == cred[c]
               x == [NoTxn EXCEPT !.phase = "read", !.on = c, !.entity = e, !.use = TRUE]
    <2>1. cred[c] \in CredRow /\ cred[c].uses \in Nat
      BY <1>2 DEF CInv, CredTypeOK, KeyRead, Active, CredRow
    <2>2. txn' = [txn EXCEPT ![t] = x] /\ UNCHANGED <<tables, inserting>>
      BY <1>2 DEF KeyRead
    <2>3. /\ x \in Txn /\ x.phase = "read" /\ x.on = c /\ x.entity = cred[c]
          /\ x.person = Absent /\ ~ x.new /\ Margin(x) = 1
      BY <2>1 DEF NoTxn, Txn, Phases, Margin
    <2>4. x.entity \in CredRow /\ x.entity.uses <= cred[c].uses + Margin(x)
      BY <2>1, <2>3
    <2> HIDE DEF x
    <2> QED  BY <2>1, <2>2, <2>3, <2>4, ReadStep
  <1>3. ASSUME NEW c \in Creds, NEW a \in Sources, resolve_link(t, c, a) PROVE CInv'
    <2> DEFINE e == [cred[c] EXCEPT !.uses = @ + 1]
               x == [NoTxn EXCEPT !.phase = "read", !.on = c, !.use = TRUE, !.entity = e]
    <2>1. cred[c] \in CredRow /\ e \in CredRow /\ e.uses = cred[c].uses + 1 /\ e.uses \in Nat
      BY <1>3 DEF CInv, CredTypeOK, resolve_link, Usable, Active, CredRow
    <2>2. txn' = [txn EXCEPT ![t] = x] /\ UNCHANGED <<tables, inserting>>
      BY <1>3 DEF resolve_link
    <2> HIDE DEF e
    <2>3. /\ x \in Txn /\ x.phase = "read" /\ x.on = c /\ x.entity = e
          /\ x.person = Absent /\ ~ x.new /\ Margin(x) = 1
      BY <2>1 DEF NoTxn, Txn, Phases, Margin
    <2>4. x.entity \in CredRow /\ x.entity.uses <= cred[c].uses + Margin(x)
      BY <2>1, <2>3
    <2> HIDE DEF x
    <2> QED  BY <2>1, <2>2, <2>3, <2>4, ReadStep
  <1>4. ASSUME NEW c \in Creds, NEW a \in Sources, resolve_link_wrong(t, c, a) PROVE CInv'
    BY <1>4 DEF resolve_link_wrong, CInv, CredTypeOK, ProvisionedOnce, UsesCounted,
                CredSide, UserSide, Margin, tables
  <1>5. s3_keys_router(t) => CInv'
    BY <1>1, CreatedStep DEF s3_keys_router, mint, revoke_key, Creds
  <1>6. links_router(t) => CInv'
    BY <1>1, <1>3, <1>4, CreatedStep DEF links_router, create_link, revoke_link, Creds
  <1>7. admin_router(t) => CInv'
    BY <1>1, SetQuotaStep DEF admin_router, revoke_public_link, Creds
  <1>8. ASSUME NEW k \in Keys, _authenticate_sigv4(t, k) \/ webdav_authenticate(t, k)
        PROVE  CInv'
    BY <1>2, <1>8 DEF _authenticate_sigv4, _verify, _verify_presigned, webdav_authenticate, Creds
  <1> QED  BY <1>5, <1>6, <1>7, <1>8, CurrentUserStep DEF Start

LEMMA StepKept == CInv /\ [CredNext]_credVars => CInv'
  <1> SUFFICES ASSUME CInv, [CredNext]_credVars PROVE CInv'
    OBVIOUS
  <1>1. ASSUME NEW t \in Txns, Proceed(t) PROVE CInv'
    BY <1>1, UpdateStep, ResolveStep, RefreshStep, ProvisionStep, CommitStep DEF Proceed
  <1>2. CASE ticks \/ UNCHANGED credVars
    BY <1>2 DEF ticks, credVars, CInv, CredTypeOK, ProvisionedOnce, UsesCounted,
                CredSide, UserSide, Margin, tables
  <1> QED  BY <1>1, <1>2, StartStep, RollbackStep DEF CredNext

(* What every reachable state satisfies.                                   *)
LEMMA CredInvariant == CredSpec => []CInv
  BY InitHolds, StepKept, PTL DEF CredSpec

(* However many first requests of a subject overlap, the root folder, the  *)
(* key and the quota row are made once, with the user row: the insert      *)
(* under the unique index is the only way to them.                         *)
THEOREM SubjectProvisionedOnce == CredSpec => []ProvisionedOnce
  <1>1. CInv => ProvisionedOnce
    BY DEF CInv
  <1> QED  BY <1>1, CredInvariant, PTL

(* However many uses of a link overlap, and although each writes the count *)
(* it read plus one, the count is never above the committed uses.          *)
THEOREM UsesNeverAhead == CredSpec => []CountNeverAhead
  <1>1. CInv => CountNeverAhead
    BY DEF CInv, UsesCounted, CountNeverAhead, Creds
  <1> QED  BY <1>1, CredInvariant, PTL

-----------------------------------------------------------------------------
(* The limiter.  The count of the window is the number of guesses since it *)
(* began, the first of them at that moment; so fewer than the limit lie    *)
(* less than a window before it.                                           *)
Moments == 0 .. LastTick

Tried(w, S) == SumFunctionOnSet(guessed[w], S)

Between(m, end) == {i \in Moments : m <= i /\ i < end}

WindowOpen(w) == {i \in Moments : guess[w].at <= i}

(* In any stretch as long as the window.                                   *)
WindowBounded(w) == \A m \in Moments : Tried(w, Between(m, m + GuessWindow)) < 2 * GuessLimit

GuessInv(w) ==
    /\ moment \in Moments /\ guessed[w] \in [Moments -> Nat]
    /\ guess[w] \in [at : Moments, count : Nat] /\ guess[w].count <= GuessLimit
    /\ guess[w].at <= moment
    /\ \A i \in Moments : guessed[w][i] > 0 => i <= moment /\ i < guess[w].at + GuessWindow
    /\ Tried(w, WindowOpen(w)) = guess[w].count
    /\ IF guess[w].count = 0 THEN \A i \in Moments : guessed[w][i] = 0
                             ELSE guessed[w][guess[w].at] > 0
    /\ \A m \in Moments :
            m > guess[w].at - GuessWindow => Tried(w, Between(m, guess[w].at)) < GuessLimit
    /\ WindowBounded(w)

(* The numbers of the limiter.                                             *)
LEMMA LimiterNumbers ==
    /\ LastTick \in Nat
    /\ GuessLimit \in Nat /\ GuessLimit > 0
    /\ GuessWindow \in Nat /\ GuessWindow > 0
BY CredentialsAssumption

(* Sums over moments.                                                      *)
LEMMA MomentsFinite ==
    /\ IsFiniteSet(Moments) /\ Moments \subseteq Nat /\ 0 \in Moments
    /\ \A S \in SUBSET Moments : IsFiniteSet(S)
<1>1. IsFiniteSet(Moments) /\ Moments \subseteq Nat
  BY FS_Interval, LimiterNumbers DEF Moments
<1>2. 0 \in Moments
  BY LimiterNumbers DEF Moments
<1> QED BY <1>1, <1>2, FS_Subset

(* SumGrows for a count that goes up by one.                               *)
LEMMA GrowsByOne ==
    ASSUME NEW g, NEW h, NEW S, IsFiniteSet(S), NEW k \in S, \A x \in S : g[x] \in Nat,
           h[k] = g[k] + 1, \A x \in S \ {k} : h[x] = g[x]
    PROVE  SumFunctionOnSet(h, S) = SumFunctionOnSet(g, S) + 1
<1>1. 1 \in Nat
  OBVIOUS
<1> QED BY <1>1, SumGrows, Zenon

(* One more guess at a moment counts wherever that moment does.            *)
LEMMA OneMoreGuess ==
    ASSUME NEW w, guessed[w] \in [Moments -> Nat], NEW k \in Moments,
           guessed'[w] = [guessed[w] EXCEPT ![k] = @ + 1], NEW S \in SUBSET Moments
    PROVE  /\ Tried(w, S) \in Nat
           /\ Tried(w, S)' = IF k \in S THEN Tried(w, S) + 1 ELSE Tried(w, S)
<1>1. IsFiniteSet(S)
  BY MomentsFinite
<1>2. PICK g \in [Moments -> Nat] : g = guessed[w]
  OBVIOUS
<1>a. g[k] \in Nat
  OBVIOUS
<1>b. PICK v : v = guessed[w][k] + 1
  OBVIOUS
<1>e. v \in Nat /\ v = g[k] + 1 /\ guessed'[w] = [g EXCEPT ![k] = v]
  BY <1>2, <1>a, <1>b
<1>c. PICK h : h = [g EXCEPT ![k] = v]
  OBVIOUS
<1>d. h \in [Moments -> Nat] /\ h[k] = v /\ \A i \in Moments \ {k} : h[i] = g[i]
  BY <1>c, <1>e
<1>3. h \in [Moments -> Nat] /\ h = guessed'[w] /\ h[k] = g[k] + 1 /\ \A i \in Moments \ {k} : h[i] = g[i]
  BY <1>c, <1>d, <1>e
<1>4. SumFunctionOnSet(g, S) \in Nat /\ SumFunctionOnSet(h, S) \in Nat
  BY <1>1, <1>3, SumNat
<1>5. CASE k \in S
  <2>1. \A x \in S : g[x] \in Nat
    OBVIOUS
  <2>2. SumFunctionOnSet(h, S) = SumFunctionOnSet(g, S) + 1
    <3>1. h[k] = g[k] + 1 /\ \A x \in S \ {k} : h[x] = g[x]
      BY <1>3
    <3> QED BY <1>1, <1>5, <2>1, <3>1, GrowsByOne
  <2> QED BY <1>2, <1>3, <1>4, <1>5, <2>2 DEF Tried
<1>6. CASE k \notin S
  <2>1. SumFunctionOnSet(g, S) = SumFunctionOnSet(h, S)
    <3>1. \A x \in S : g[x] = h[x]
      BY <1>3, <1>6
    <3> QED BY <1>1, <3>1, SumEqual, Zenon
  <2> QED BY <1>2, <1>3, <1>4, <1>6, <2>1 DEF Tried
<1> QED BY <1>5, <1>6

(* Part of the guesses are no more than all of them.                       *)
LEMMA FewerGuesses ==
    ASSUME NEW w, guessed[w] \in [Moments -> Nat], NEW S \in SUBSET Moments, NEW R \in SUBSET S
    PROVE  /\ Tried(w, R) \in Nat /\ Tried(w, S) \in Nat /\ Tried(w, R) <= Tried(w, S)
           /\ Tried(w, S) = Tried(w, R) + Tried(w, S \ R)
<1>1. IsFiniteSet(S)
  BY MomentsFinite
<1>2. \A x \in S : guessed[w][x] \in Nat
  OBVIOUS
<1> QED BY <1>1, <1>2, SumSubset, SumNat DEF Tried

(* Where nobody guessed there is nothing to count.                         *)
LEMMA NoGuesses ==
    ASSUME NEW w, guessed[w] \in [Moments -> Nat], NEW S \in SUBSET Moments, \A i \in S : guessed[w][i] = 0
    PROVE  Tried(w, S) = 0
<1>1. IsFiniteSet(S)
  BY MomentsFinite
<1>2. Tried(w, S) = Cardinality({i \in S : guessed[w][i] = 1})
  BY <1>1, SumCounts DEF Tried
<1>3. {i \in S : guessed[w][i] = 1} = {}
  OBVIOUS
<1> QED BY <1>2, <1>3, FS_EmptySet

(* Once the window is over, fewer guesses than the limit are as recent as  *)
(* a window: its first is not among them.                                  *)
LEMMA LateGuesses ==
    ASSUME NEW w, GuessInv(w), NEW m \in Moments, m > guess[w].at, NEW S \in SUBSET Moments, \A i \in S : m <= i
    PROVE  Tried(w, S) \in Nat /\ Tried(w, S) < GuessLimit
<1>1. PICK a \in Moments : a = guess[w].at
  BY DEF GuessInv
<1>2. WindowOpen(w) \subseteq Moments /\ S \subseteq WindowOpen(w) \ {a} /\ a \in WindowOpen(w)
  BY <1>1, MomentsFinite DEF WindowOpen
<1>3. guessed[w] \in [Moments -> Nat] /\ Tried(w, WindowOpen(w)) <= GuessLimit /\ guess[w].count \in Nat
  BY DEF GuessInv
<1>4. /\ Tried(w, S) \in Nat /\ Tried(w, WindowOpen(w) \ {a}) \in Nat
      /\ Tried(w, S) <= Tried(w, WindowOpen(w) \ {a})
  BY <1>2, <1>3, FewerGuesses
<1>5. Tried(w, WindowOpen(w)) = guessed[w][a] + Tried(w, WindowOpen(w) \ {a})
  <2>1. IsFiniteSet(WindowOpen(w)) /\ \A x \in WindowOpen(w) : guessed[w][x] \in Nat
    BY <1>2, <1>3, MomentsFinite
  <2> QED BY <1>2, <2>1, SumSplit DEF Tried
<1>6. guessed[w][a] \in Nat
  BY <1>3
<1>7. CASE guess[w].count = 0
  <2>1. Tried(w, S) = 0
    <3>1. Tried(w, WindowOpen(w)) = 0
      BY <1>7 DEF GuessInv
    <3> QED BY <1>4, <1>5, <1>6, <3>1
  <2> QED BY <1>4, <2>1, LimiterNumbers
<1>8. CASE guess[w].count > 0
  <2>1. guessed[w][a] > 0
    BY <1>1, <1>8 DEF GuessInv
  <2> QED BY <1>3, <1>4, <1>5, <1>6, <2>1, LimiterNumbers
<1> QED BY <1>3, <1>7, <1>8

(* A wrong passphrase is counted.                                          *)
LEMMA GuessStep ==
    ASSUME NEW w, GuessInv(w), MayGuess(w, moment), guess'[w] = GuessRecorded(w, moment), moment' = moment,
           guessed'[w] = [guessed[w] EXCEPT ![moment] = @ + 1]
    PROVE  GuessInv(w)'
<1>1. PICK k \in Moments : k = moment
  BY DEF GuessInv
<1>2. PICK a \in Moments : a = guess[w].at
  BY DEF GuessInv
<1>3. PICK n \in Nat : n = guess[w].count /\ n <= GuessLimit
  BY DEF GuessInv
<1>4. /\ guess[w] = [at |-> a, count |-> n] /\ a <= k /\ Tried(w, WindowOpen(w)) = n
      /\ guessed[w] \in [Moments -> Nat]
  BY <1>1, <1>2, <1>3 DEF GuessInv
<1>5. guessed'[w] = [guessed[w] EXCEPT ![k] = @ + 1] /\ guessed'[w] \in [Moments -> Nat]
      /\ \A i \in Moments : guessed'[w][i] = IF i = k THEN guessed[w][i] + 1 ELSE guessed[w][i]
  BY <1>1, <1>4
<1>6. k \in Nat /\ a \in Nat /\ Moments \subseteq Nat
  BY MomentsFinite
<1>7. \A S \in SUBSET Moments : /\ Tried(w, S) \in Nat
                                /\ Tried(w, S)' = IF k \in S THEN Tried(w, S) + 1 ELSE Tried(w, S)
  BY <1>4, <1>5, OneMoreGuess
<1>9. \A i \in Moments : guessed[w][i] > 0 => i <= k /\ i < a + GuessWindow
  BY <1>1, <1>2 DEF GuessInv
<1>10. \A i \in Moments : guessed[w][i] \in Nat
  BY <1>4
<1>11. ASSUME NEW m \in Moments PROVE Tried(w, Between(m, m + GuessWindow)) < 2 * GuessLimit
  BY <1>11 DEF GuessInv, WindowBounded, Tried, Between, Moments
<1>12. ASSUME \A m \in Moments : Tried(w, Between(m, m + GuessWindow))' < 2 * GuessLimit
       PROVE  WindowBounded(w)'
  BY <1>12 DEF WindowBounded, Tried, Between, Moments
<1>13. CASE GuessExpired(w, k)
  <2>1. guess'[w] = [at |-> k, count |-> 1]
    BY <1>1, <1>13 DEF GuessRecorded
  <2>2. PICK late \in SUBSET Moments : late = {i \in Moments : k <= i}
    OBVIOUS
  <2>3. \A i \in late : guessed[w][i] = 0
    <3>1. CASE n = 0
      BY <1>3, <2>2, <3>1 DEF GuessInv
    <3>2. CASE k - a >= GuessWindow
      <4> SUFFICES ASSUME NEW i \in Moments, k <= i PROVE guessed[w][i] = 0
        BY <2>2
      <4>1. i \in Nat /\ ~ i < a + GuessWindow
        BY <1>6, <3>2, LimiterNumbers
      <4>2. ~ guessed[w][i] > 0 /\ guessed[w][i] \in Nat
        BY <1>9, <1>10, <4>1
      <4> QED BY <4>2
    <3> QED BY <1>4, <1>13, <3>1, <3>2 DEF GuessExpired
  <2>4. WindowOpen(w)' = late
    BY <2>1, <2>2 DEF WindowOpen
  <2>5. Tried(w, WindowOpen(w))' = 1
    <3>1. Tried(w, late) = 0
      BY <1>4, <2>3, NoGuesses
    <3>2. Tried(w, late)' = 1
      BY <1>6, <1>7, <2>2, <3>1
    <3>3. Tried(w, WindowOpen(w))' = Tried(w, late)'
      BY <2>4 DEF Tried
    <3> QED BY <3>2, <3>3
  <2>6. ASSUME NEW m \in Moments, m > k - GuessWindow, NEW end \in Int
        PROVE  Tried(w, Between(m, end)) \in Nat /\ Tried(w, Between(m, end)) < GuessLimit
    <3>1. CASE n = 0
      <4>1. \A i \in Between(m, end) : guessed[w][i] = 0
        BY <1>3, <3>1 DEF GuessInv, Between
      <4>2. Between(m, end) \in SUBSET Moments
        BY DEF Between
      <4>3. Tried(w, Between(m, end)) = 0
        BY <1>4, <4>1, <4>2, NoGuesses
      <4> QED BY <4>3, LimiterNumbers
    <3>2. CASE k - a >= GuessWindow
      <4>1. m > a
        BY <1>6, <2>6, <3>2, LimiterNumbers
      <4>2. Between(m, end) \in SUBSET Moments /\ \A i \in Between(m, end) : m <= i
        BY <1>6 DEF Between
      <4>3. m > guess[w].at
        BY <1>2, <4>1
      <4> QED BY <4>2, <4>3, LateGuesses
    <3> QED BY <1>4, <1>13, <3>1, <3>2 DEF GuessExpired
  <2>7. ASSUME NEW m \in Moments
        PROVE  Tried(w, Between(m, m + GuessWindow))' < 2 * GuessLimit
    <3>1. PICK S \in SUBSET Moments : S = Between(m, m + GuessWindow)
      BY DEF Between
    <3>2. CASE k \in S
      <4>1. m > k - GuessWindow
        BY <1>6, <3>1, <3>2, LimiterNumbers DEF Between
      <4>2. m + GuessWindow \in Int
        BY <1>6, LimiterNumbers
      <4>3. Tried(w, S) \in Nat /\ Tried(w, S) < GuessLimit
        BY <2>6, <3>1, <4>1, <4>2
      <4>4. Tried(w, S)' = Tried(w, S) + 1
        BY <1>7, <3>2
      <4>5. Tried(w, S)' < 2 * GuessLimit
        BY <4>3, <4>4, LimiterNumbers
      <4> QED BY <3>1, <4>5 DEF Tried, Between
    <3>3. CASE k \notin S
      <4>1. Tried(w, S)' = Tried(w, S) /\ Tried(w, S) < 2 * GuessLimit
        BY <1>7, <1>11, <3>1, <3>3
      <4> QED BY <3>1, <4>1 DEF Tried, Between
    <3> QED BY <3>2, <3>3
  <2>8. ASSUME NEW m \in Moments, m > k - GuessWindow
        PROVE  Tried(w, Between(m, k))' < GuessLimit
    <3>1. PICK S \in SUBSET Moments : S = Between(m, k)
      BY DEF Between
    <3>2. k \notin S
      BY <1>6, <3>1 DEF Between
    <3>3. Tried(w, S) < GuessLimit
      BY <1>6, <2>6, <2>8, <3>1
    <3>4. Tried(w, S)' = Tried(w, S)
      BY <1>7, <3>2
    <3> QED BY <3>1, <3>3, <3>4 DEF Tried, Between
  <2>9. ASSUME NEW i \in Moments, guessed'[w][i] > 0 PROVE i <= k /\ i < k + GuessWindow
    BY <1>5, <1>6, <1>9, <1>10, <2>2, <2>3, <2>9, LimiterNumbers
  <2>10. guessed'[w][k] > 0
    BY <1>5, <1>10
  <2>11. (\A m \in Moments : m > guess[w].at - GuessWindow => Tried(w, Between(m, guess[w].at)) < GuessLimit)'
    <3>1. guess'[w].at = k
      BY <2>1
    <3> QED BY <2>8, <3>1 DEF Tried, Between
  <2> QED BY <1>1, <1>5, <1>12, <2>1, <2>5, <2>7, <2>9, <2>10, <2>11, LimiterNumbers DEF GuessInv
<1>14. CASE ~ GuessExpired(w, k)
  <2>1. guess'[w] = [at |-> a, count |-> n + 1] /\ n > 0 /\ n < GuessLimit /\ k < a + GuessWindow
    BY <1>1, <1>3, <1>4, <1>6, <1>14, LimiterNumbers DEF GuessRecorded, GuessExpired, MayGuess
  <2>2. PICK open \in SUBSET Moments : open = WindowOpen(w)
    BY DEF WindowOpen
  <2>3. k \in open /\ WindowOpen(w)' = open
    BY <1>4, <1>6, <2>1, <2>2 DEF WindowOpen
  <2>4. Tried(w, open) = n /\ Tried(w, open)' = n + 1
    BY <1>4, <1>7, <2>2, <2>3
  <2>5. Tried(w, WindowOpen(w))' = n + 1
    BY <2>3, <2>4 DEF Tried
  <2>6. ASSUME NEW m \in Moments, m > a - GuessWindow
        PROVE  /\ Between(m, a) \in SUBSET Moments /\ k \notin Between(m, a)
               /\ Tried(w, Between(m, a)) \in Nat /\ Tried(w, Between(m, a)) < GuessLimit
    <3>1. Between(m, a) \in SUBSET Moments /\ k \notin Between(m, a)
      BY <1>4, <1>6 DEF Between
    <3> QED BY <1>2, <1>7, <2>6, <3>1 DEF GuessInv
  <2>7. ASSUME NEW m \in Moments
        PROVE  Tried(w, Between(m, m + GuessWindow))' < 2 * GuessLimit
    <3>1. PICK S \in SUBSET Moments : S = Between(m, m + GuessWindow)
      BY DEF Between
    <3>2. CASE k \notin S
      <4>1. Tried(w, S)' = Tried(w, S) /\ Tried(w, S) < 2 * GuessLimit
        BY <1>7, <1>11, <3>1, <3>2
      <4> QED BY <3>1, <4>1 DEF Tried, Between
    <3>3. CASE k \in S
      <4>1. m > a - GuessWindow
        BY <1>4, <1>6, <3>1, <3>3, LimiterNumbers DEF Between
      <4>2. PICK R \in SUBSET S : R = S \cap Between(m, a)
        OBVIOUS
      <4>3. S \ R \in SUBSET open /\ R \in SUBSET Between(m, a) /\ R \in SUBSET Moments
        <5>1. ASSUME NEW i \in S, i \notin R PROVE i \in open
          <6>1. i \in Moments /\ i \in Nat /\ m <= i
            BY <1>6, <3>1 DEF Between
          <6>2. ~ i < a
            BY <4>2, <5>1, <6>1 DEF Between
          <6> QED BY <1>2, <1>6, <2>2, <6>1, <6>2 DEF WindowOpen
        <5> QED BY <4>2, <5>1
      <4>4. Tried(w, S) = Tried(w, R) + Tried(w, S \ R)
        BY <1>4, FewerGuesses
      <4>5. Tried(w, R) \in Nat /\ Tried(w, R) < GuessLimit
        <5>1. Tried(w, R) \in Nat /\ Tried(w, R) <= Tried(w, Between(m, a))
          BY <1>4, <2>6, <4>1, <4>3, FewerGuesses
        <5> QED BY <2>6, <4>1, <5>1, LimiterNumbers
      <4>6. Tried(w, S \ R) \in Nat /\ Tried(w, S \ R) <= n
        <5>1. Tried(w, S \ R) \in Nat /\ Tried(w, S \ R) <= Tried(w, open)
          BY <1>4, <4>3, FewerGuesses
        <5> QED BY <2>4, <5>1
      <4>7. Tried(w, S)' = Tried(w, S) + 1
        BY <1>7, <3>3
      <4>8. Tried(w, S)' < 2 * GuessLimit
        BY <2>1, <4>4, <4>5, <4>6, <4>7, LimiterNumbers
      <4> QED BY <3>1, <4>8 DEF Tried, Between
    <3> QED BY <3>2, <3>3
  <2>8. ASSUME NEW m \in Moments, m > a - GuessWindow
        PROVE  Tried(w, Between(m, a))' < GuessLimit
    <3>1. PICK S \in SUBSET Moments : S = Between(m, a) /\ k \notin S /\ Tried(w, S) < GuessLimit
      BY <2>6, <2>8
    <3>2. Tried(w, S)' = Tried(w, S)
      BY <1>7, <3>1
    <3> QED BY <3>1, <3>2 DEF Tried, Between
  <2>9. ASSUME NEW i \in Moments, guessed'[w][i] > 0 PROVE i <= k /\ i < a + GuessWindow
    BY <1>5, <1>6, <1>9, <1>10, <2>1, <2>9, LimiterNumbers
  <2>10. guessed'[w][a] > 0
    <3>1. guessed[w][a] > 0
      BY <1>2, <1>3, <2>1 DEF GuessInv
    <3> QED BY <1>5, <1>10, <3>1
  <2>11. (\A m \in Moments : m > guess[w].at - GuessWindow => Tried(w, Between(m, guess[w].at)) < GuessLimit)'
    <3>1. guess'[w].at = a
      BY <2>1
    <3> QED BY <2>8, <3>1 DEF Tried, Between
  <2> QED BY <1>1, <1>4, <1>5, <1>12, <2>1, <2>5, <2>7, <2>9, <2>10, <2>11, LimiterNumbers DEF GuessInv
<1> QED BY <1>13, <1>14

(* Nobody has guessed.                                                     *)
LEMMA GuessInit == CredInit => \A w \in Windows : GuessInv(w)
<1> SUFFICES ASSUME CredInit, NEW w \in Windows PROVE GuessInv(w)
  OBVIOUS
<1>1. /\ moment = 0 /\ guess[w] = [at |-> 0, count |-> 0]
      /\ guessed[w] = [m \in Moments |-> 0]
  BY DEF CredInit, Moments
<1>2. guessed[w] \in [Moments -> Nat] /\ \A i \in Moments : guessed[w][i] = 0
  BY <1>1
<1>3. \A S \in SUBSET Moments : Tried(w, S) = 0
  BY <1>2, NoGuesses
<1>4. Tried(w, WindowOpen(w)) = 0 /\ \A m \in Moments : Tried(w, Between(m, guess[w].at)) = 0
  BY <1>3 DEF WindowOpen, Between
<1>5. \A m \in Moments : Tried(w, Between(m, m + GuessWindow)) = 0
  BY <1>3 DEF Between
<1>6. WindowBounded(w)
  BY <1>5, LimiterNumbers DEF WindowBounded
<1> QED BY <1>1, <1>2, <1>4, <1>6, LimiterNumbers, MomentsFinite DEF GuessInv

(* A request that begins with anything but a wrong passphrase.             *)
LEMMA OthersLeaveLimiter ==
    ASSUME NEW t \in Txns, Start(t),
           ~ \E l \in Links, a \in Sources : resolve_link_wrong(t, l, a)
    PROVE  UNCHANGED <<moment, guess, guessed>>
<1>1. ASSUME NEW c, \/ Revokes(t, c) \/ created(t, c) \/ KeyRead(t, c)
                    \/ \E a \in Sources : resolve_link(t, c, a)
      PROVE  UNCHANGED <<moment, guess, guessed>>
  BY <1>1 DEF Revokes, created, KeyRead, resolve_link, limiter
<1>2. ASSUME NEW q, set_quota(t, q) PROVE UNCHANGED <<moment, guess, guessed>>
  BY <1>2 DEF set_quota, limiter
<1>3. CASE current_user(t)
  BY <1>3 DEF current_user, limiter
<1> QED BY <1>1, <1>2, <1>3 DEF Start, s3_keys_router, links_router, admin_router, mint,
          revoke_key, create_link, revoke_link, revoke_public_link, _authenticate_sigv4, _verify,
          _verify_presigned, webdav_authenticate

(* A guess counts in the window of its link and source and in no other,    *)
(* nothing else touches the limiter, and time only closes its windows.     *)
LEMMA LimiterStep ==
    ASSUME NEW w \in Windows, GuessInv(w), [CredNext]_credVars,
           guess \in [Windows -> [at : Moments, count : Nat]],
           guessed \in [Windows -> [Moments -> Nat]]
    PROVE  GuessInv(w)'
<1>1. CASE UNCHANGED <<moment, guess[w], guessed[w]>>
  <2>1. moment' = moment /\ guess'[w] = guess[w] /\ guessed'[w] = guessed[w]
    BY <1>1
  <2> QED BY <2>1 DEF GuessInv, WindowBounded, Tried, Between, WindowOpen
<1>2. ASSUME NEW t \in Txns, NEW l \in Links, NEW a \in Sources, resolve_link_wrong(t, l, a)
      PROVE  GuessInv(w)'
  <2>1. PICK v \in Windows : v = <<l, a>>
    BY DEF Windows
  <2>2. /\ MayGuess(v, moment) /\ moment' = moment
        /\ guess' = [guess EXCEPT ![v] = GuessRecorded(v, moment)]
        /\ guessed' = [guessed EXCEPT ![v][moment] = @ + 1]
    BY <1>2, <2>1 DEF resolve_link_wrong
  <2>3. CASE v = w
    <3>1. guess'[w] = GuessRecorded(w, moment)
      BY <2>2, <2>3
    <3>2. guessed'[w] = [guessed[w] EXCEPT ![moment] = @ + 1]
      BY <2>2, <2>3
    <3> QED BY <2>2, <2>3, <3>1, <3>2, GuessStep
  <2>4. CASE v # w
    <3>1. UNCHANGED <<moment, guess[w], guessed[w]>>
      BY <2>2, <2>4
    <3> QED BY <1>1, <3>1
  <2> QED BY <2>3, <2>4
<1>3. CASE ticks
  <2>1. /\ moment \in Moments /\ moment < LastTick /\ moment' = moment + 1
        /\ UNCHANGED <<guess, guessed>>
    BY <1>3 DEF ticks, limiter, GuessInv
  <2>2. moment' \in Moments /\ \A i \in Nat : i <= moment => i <= moment'
    BY <2>1, LimiterNumbers DEF Moments
  <2>3. WindowBounded(w)'
    BY <2>1 DEF GuessInv, WindowBounded, Tried, Between
  <2> QED BY <2>1, <2>2, <2>3, MomentsFinite DEF GuessInv, Tried, Between, WindowOpen
<1>4. ASSUME NEW t \in Txns, Proceed(t) \/ rollback(t) PROVE UNCHANGED <<moment, guess, guessed>>
  BY <1>4 DEF Proceed, update, resolve, _refresh, _provision, commit, rollback, limiter
<1>5. ASSUME NEW t \in Txns, Start(t),
             ~ \E l \in Links, a \in Sources : resolve_link_wrong(t, l, a)
      PROVE  UNCHANGED <<moment, guess, guessed>>
  BY <1>5, OthersLeaveLimiter
<1>6. CASE UNCHANGED credVars
  BY <1>1, <1>6 DEF credVars
<1> QED BY <1>1, <1>2, <1>3, <1>4, <1>5, <1>6 DEF CredNext

(* The inductive invariant of the limiter: one of each window.             *)
LimiterInv ==
    /\ guess \in [Windows -> [at : Moments, count : Nat]]
    /\ guessed \in [Windows -> [Moments -> Nat]]
    /\ \A w \in Windows : GuessInv(w)

(* A step leaves one record and one count per window.                      *)
LEMMA LimiterTypes ==
    ASSUME LimiterInv, [CredNext]_credVars
    PROVE  /\ guess' \in [Windows -> [at : Moments, count : Nat]]
           /\ guessed' \in [Windows -> [Moments -> Nat]]
<1>1. ASSUME NEW w \in Windows
      PROVE  guess'[w] \in [at : Moments, count : Nat] /\ guessed'[w] \in [Moments -> Nat]
  <2>1. GuessInv(w)'
    BY LimiterStep DEF LimiterInv
  <2> QED BY <2>1 DEF GuessInv
<1>2. \/ UNCHANGED <<guess, guessed>>
      \/ \E t \in Txns, l \in Links, a \in Sources : resolve_link_wrong(t, l, a)
  <2>1. CASE ticks \/ UNCHANGED credVars
    BY <2>1 DEF ticks, limiter, credVars
  <2>2. ASSUME NEW t \in Txns, Proceed(t) \/ rollback(t) PROVE UNCHANGED <<guess, guessed>>
    BY <2>2 DEF Proceed, update, resolve, _refresh, _provision, commit, rollback, limiter
  <2>3. ASSUME NEW t \in Txns, Start(t),
               ~ \E l \in Links, a \in Sources : resolve_link_wrong(t, l, a)
        PROVE  UNCHANGED <<guess, guessed>>
    BY <2>3, OthersLeaveLimiter
  <2> QED BY <2>1, <2>2, <2>3 DEF CredNext
<1>3. CASE UNCHANGED <<guess, guessed>>
  BY <1>3 DEF LimiterInv
<1>4. ASSUME NEW t \in Txns, NEW l \in Links, NEW a \in Sources, resolve_link_wrong(t, l, a)
      PROVE  /\ guess' \in [Windows -> [at : Moments, count : Nat]]
             /\ guessed' \in [Windows -> [Moments -> Nat]]
  <2>1. /\ guess' = [guess EXCEPT ![<<l, a>>] = GuessRecorded(<<l, a>>, moment)]
        /\ guessed' = [guessed EXCEPT ![<<l, a>>][moment] = @ + 1]
    BY <1>4 DEF resolve_link_wrong
  <2>2. DOMAIN guess' = Windows /\ DOMAIN guessed' = Windows
    BY <2>1 DEF LimiterInv
  <2>3. /\ guess' = [w \in Windows |-> guess'[w]]
        /\ guessed' = [w \in Windows |-> guessed'[w]]
    BY <2>1, <2>2 DEF LimiterInv
  <2> QED BY <1>1, <2>3
<1> QED BY <1>2, <1>3, <1>4

(* For every limit and window, and however many links and addresses: in    *)
(* any stretch as long as a window, also across the edge of two, fewer     *)
(* than twice the limit of passphrases are tried on a link from one        *)
(* address, whatever requests interleave.                                  *)
THEOREM PassphrasesLimited == CredSpec => []GuessesBounded
<1>1. CredInit => LimiterInv
  <2>1. CredInit => /\ guess \in [Windows -> [at : Moments, count : Nat]]
                    /\ guessed \in [Windows -> [Moments -> Nat]]
    BY MomentsFinite DEF CredInit, Moments
  <2> QED BY <2>1, GuessInit DEF LimiterInv
<1>2. LimiterInv /\ [CredNext]_credVars => LimiterInv'
  <2> SUFFICES ASSUME LimiterInv, [CredNext]_credVars PROVE LimiterInv'
    OBVIOUS
  <2>1. ASSUME NEW w \in Windows PROVE GuessInv(w)'
    BY LimiterStep DEF LimiterInv
  <2> QED BY <2>1, LimiterTypes DEF LimiterInv, Windows
<1>3. LimiterInv => GuessesBounded
  BY DEF LimiterInv, GuessInv, WindowBounded, GuessesBounded, Tried, Between, Stretch, Moments
<1> QED BY <1>1, <1>2, <1>3, PTL DEF CredSpec

-----------------------------------------------------------------------------
(* Multipart uploads.                                                      *)
USE MultipartAssumption

(* Requests are records of these fields.                                   *)
CallFields == {"phase", "on", "number", "body", "want", "todo", "got", "new", "total", "doomed"}

Once(u) == \A n \in Numbers : puts[u][n] <= 1

(* What is sent once has one body, w[u][n], wherever it is found.          *)
Worlds == [Uploads -> [Numbers -> Bodies \cup {Missing}]]

(* A completion has what it listed so far, and what it has still to read   *)
(* was written.                                                            *)
Assembles(w, x) ==
    /\ x.on \in Uploads /\ x.doomed \subseteq Numbers
    /\ x.want \in Seq(Bodies) /\ x.got \in Seq(Bodies) /\ x.todo \in Seq(Numbers)
    /\ Len(x.got) + Len(x.todo) = Len(x.want)
    /\ \A i \in 1 .. Len(x.todo) :
            /\ puts[x.on][x.todo[i]] > 0
            /\ puts[x.on][x.todo[i]] <= 1 => x.want[Len(x.got) + i] = w[x.on][x.todo[i]]
    /\ Once(x.on) => \A i \in 1 .. Len(x.got) : x.got[i] = x.want[i]

CallOK(w, x) ==
    /\ DOMAIN x = CallFields
    /\ x.phase \in {"put", "record"} =>
            x.on \in Uploads /\ x.number \in Numbers /\ x.body \in Bodies
    /\ x.phase = "record" =>
            /\ puts[x.on][x.number] > 0
            /\ puts[x.on][x.number] <= 1 => x.body = w[x.on][x.number]
            /\ x.on \notin discarded => staged[x.on][x.number] # Missing
    /\ x.phase \in {"claim", "stream", "flush", "discard"} => Assembles(w, x)
    /\ x.phase \in {"flush", "discard"} => x.todo = <<>> /\ Bytes(x.got) = Bytes(x.want)
    /\ x.phase = "discard" => x.on \in discarded

PartOK(w, u, n) ==
    /\ puts[u][n] = 0 => part[u][n] = Missing /\ staged[u][n] = Missing
    /\ puts[u][n] <= 1 => {part[u][n], staged[u][n]} \subseteq {Missing, w[u][n]}

Assembled == [want : Seq(Bodies), got : Seq(Bodies), once : BOOLEAN]

MpTypeOK ==
    /\ part \in Worlds
    /\ staged \in Worlds
    /\ puts \in [Uploads -> [Numbers -> Nat]]
    /\ target \in [Uploads -> Seq(Assembled)]
    /\ DOMAIN call = Callers

Agree(w) ==
    /\ \A c \in Callers : CallOK(w, call[c])
    /\ \A u \in Uploads, n \in Numbers : PartOK(w, u, n)

MpInv ==
    /\ MpTypeOK
    /\ \E w \in Worlds : Agree(w)
    /\ AcknowledgedPartsKept
    /\ AssembledAsListed

(* A request that is over is fine whatever it knew.                        *)
LEMMA NoCallOK ==
    ASSUME NEW w
    PROVE  CallOK(w, NoCall)
<1>1. DOMAIN NoCall = CallFields /\ NoCall.phase = "idle"
  BY DEF NoCall, CallFields
<1> QED BY <1>1 DEF CallOK

(* Nothing is sent, nothing is assembled.                                  *)
LEMMA InitMp == MpInit => MpInv
<1> SUFFICES ASSUME MpInit PROVE MpInv
  OBVIOUS
<1>1. /\ part = [u \in Uploads |-> [n \in Numbers |-> Missing]]
      /\ staged = [u \in Uploads |-> [n \in Numbers |-> Missing]]
      /\ puts = [u \in Uploads |-> [n \in Numbers |-> 0]]
      /\ target = [u \in Uploads |-> <<>>]
      /\ call = [c \in Callers |-> NoCall]
  BY DEF MpInit
<1>2. MpTypeOK
  BY <1>1 DEF MpTypeOK, Worlds
<1>3. Agree(staged)
  <2>1. \A c \in Callers : CallOK(staged, call[c])
    BY <1>1, NoCallOK
  <2>2. \A u \in Uploads, n \in Numbers : PartOK(staged, u, n)
    BY <1>1 DEF PartOK
  <2> QED BY <2>1, <2>2 DEF Agree
<1>4. AcknowledgedPartsKept /\ AssembledAsListed
  BY <1>1 DEF AcknowledgedPartsKept, AssembledAsListed, RowsOf
<1> QED BY <1>2, <1>3, <1>4 DEF MpInv, MpTypeOK

(* A step of one request that leaves the parts alone.                      *)
LEMMA OwnCall ==
    ASSUME MpInv, NEW w \in Worlds, Agree(w), NEW c \in Callers, NEW y, CallOK(w, y),
           call' = [call EXCEPT ![c] = y],
           UNCHANGED <<part, staged, puts, target, discarded>>
    PROVE  MpInv'
<1>1. MpTypeOK'
  BY DEF MpInv, MpTypeOK
<1>2. \A x : CallOK(w, x)' <=> CallOK(w, x)
  BY DEF CallOK, Assembles, Once
<1>3. \A d \in Callers : call'[d] = IF d = c THEN y ELSE call[d]
  BY DEF MpInv, MpTypeOK
<1>4. \A d \in Callers : CallOK(w, call'[d])
  BY <1>3 DEF Agree
<1>5. \A u \in Uploads, n \in Numbers : PartOK(w, u, n)'
  BY DEF Agree, PartOK
<1>6. Agree(w)'
  BY <1>2, <1>4, <1>5 DEF Agree
<1>7. AcknowledgedPartsKept' /\ AssembledAsListed'
  BY DEF MpInv, AcknowledgedPartsKept, AssembledAsListed, RowsOf
<1> QED BY <1>1, <1>6, <1>7 DEF MpInv

(* The calls and parts stay as they are.                                   *)
LEMMA SameCalls ==
    ASSUME MpInv, UNCHANGED <<part, staged, puts, target, discarded, call>>
    PROVE  MpInv'
<1>1. PICK w \in Worlds : Agree(w)
  BY DEF MpInv
<1>2. MpTypeOK'
  BY DEF MpInv, MpTypeOK
<1>3. Agree(w)'
  <2>1. \A x : CallOK(w, x)' <=> CallOK(w, x)
    BY DEF CallOK, Assembles, Once
  <2>2. \A u \in Uploads, n \in Numbers : PartOK(w, u, n)'
    BY <1>1 DEF Agree, PartOK
  <2> QED BY <1>1, <2>1, <2>2 DEF Agree
<1>4. AcknowledgedPartsKept' /\ AssembledAsListed'
  BY DEF MpInv, AcknowledgedPartsKept, AssembledAsListed, RowsOf
<1> QED BY <1>2, <1>3, <1>4 DEF MpInv

(* The elements of a sequence.                                             *)
LEMMA ElementOf ==
    ASSUME NEW S, NEW s \in Seq(S), NEW i \in 1 .. Len(s)
    PROVE  s[i] \in S
OBVIOUS

(* A function on an initial segment is a sequence.                         *)
LEMMA ListOf ==
    ASSUME NEW S, NEW k \in Nat, NEW s \in [1 .. k -> S]
    PROVE  s \in Seq(S) /\ Len(s) = k
OBVIOUS

(* The tail of a sequence, and one more element at its end.                *)
LEMMA TailOf ==
    ASSUME NEW S, NEW s \in Seq(S), s # <<>>
    PROVE  /\ Tail(s) \in Seq(S) /\ Len(Tail(s)) \in Nat /\ Len(s) = Len(Tail(s)) + 1
           /\ \A i \in 1 .. Len(Tail(s)) : i + 1 \in 1 .. Len(s) /\ Tail(s)[i] = s[i + 1]
OBVIOUS

LEMMA AppendOf ==
    ASSUME NEW S, NEW s \in Seq(S), NEW e \in S
    PROVE  /\ Append(s, e) \in Seq(S) /\ Len(s) \in Nat /\ Len(Append(s, e)) = Len(s) + 1
           /\ \A i \in 1 .. Len(s) : Append(s, e)[i] = s[i]
           /\ Append(s, e)[Len(s) + 1] = e
OBVIOUS

(* What a request knows survives what others write: parts are only sent    *)
(* again, and objects only go once somebody said so.                       *)
LEMMA CallKept ==
    ASSUME MpTypeOK, puts' \in [Uploads -> [Numbers -> Nat]], NEW w, NEW v, NEW x, CallOK(w, x),
           discarded \subseteq discarded',
           \A u \in Uploads, n \in Numbers : puts'[u][n] >= puts[u][n],
           \A u \in Uploads, n \in Numbers :
                puts[u][n] > 0 /\ puts'[u][n] <= 1 => v[u][n] = w[u][n],
           \A u \in Uploads \ discarded', n \in Numbers :
                staged[u][n] # Missing => staged'[u][n] # Missing
    PROVE  CallOK(v, x)'
<1>0. \A u \in Uploads, n \in Numbers : puts[u][n] \in Nat /\ puts'[u][n] \in Nat
  BY DEF MpTypeOK
<1>1. \A u \in Uploads : Once(u)' => Once(u)
  BY <1>0 DEF Once
<1>2. Assembles(w, x) => Assembles(v, x)'
  <2> SUFFICES ASSUME Assembles(w, x) PROVE Assembles(v, x)'
    OBVIOUS
  <2>1. /\ x.on \in Uploads /\ x.doomed \subseteq Numbers
        /\ x.want \in Seq(Bodies) /\ x.got \in Seq(Bodies) /\ x.todo \in Seq(Numbers)
        /\ Len(x.got) + Len(x.todo) = Len(x.want)
    BY DEF Assembles
  <2>2. ASSUME NEW i \in 1 .. Len(x.todo)
        PROVE  /\ puts'[x.on][x.todo[i]] > 0
               /\ puts'[x.on][x.todo[i]] <= 1 => x.want[Len(x.got) + i] = v[x.on][x.todo[i]]
    <3>1. PICK n \in Numbers : n = x.todo[i]
      BY <2>1, ElementOf
    <3>2. puts[x.on][n] > 0 /\ (puts[x.on][n] <= 1 => x.want[Len(x.got) + i] = w[x.on][n])
      BY <3>1 DEF Assembles
    <3>3. PICK u \in Uploads : u = x.on
      BY <2>1
    <3>4. puts[u][n] \in Nat /\ puts'[u][n] \in Nat /\ puts'[u][n] >= puts[u][n]
      BY <1>0
    <3>a. puts[u][n] > 0
      BY <3>2, <3>3
    <3>5. puts'[u][n] > 0 /\ (puts'[u][n] <= 1 => puts[u][n] <= 1 /\ v[u][n] = w[u][n])
      BY <3>a, <3>4
    <3> QED BY <3>1, <3>2, <3>3, <3>5
  <2>3. Once(x.on)' => \A i \in 1 .. Len(x.got) : x.got[i] = x.want[i]
    BY <1>1, <2>1 DEF Assembles
  <2> QED BY <2>1, <2>2, <2>3 DEF Assembles
<1>3. x.phase = "record" =>
            /\ puts'[x.on][x.number] > 0
            /\ puts'[x.on][x.number] <= 1 => x.body = v[x.on][x.number]
            /\ x.on \notin discarded' => staged'[x.on][x.number] # Missing
  <2> SUFFICES ASSUME x.phase = "record"
               PROVE  /\ puts'[x.on][x.number] > 0
                      /\ puts'[x.on][x.number] <= 1 => x.body = v[x.on][x.number]
                      /\ x.on \notin discarded' => staged'[x.on][x.number] # Missing
    OBVIOUS
  <2>1. PICK u \in Uploads, n \in Numbers : u = x.on /\ n = x.number
    BY DEF CallOK
  <2>2. /\ puts[u][n] > 0 /\ (puts[u][n] <= 1 => x.body = w[u][n])
        /\ u \notin discarded => staged[u][n] # Missing
    BY <2>1 DEF CallOK
  <2>3. puts[u][n] \in Nat /\ puts'[u][n] \in Nat /\ puts'[u][n] >= puts[u][n]
    BY <1>0
  <2>4. puts'[u][n] > 0 /\ (puts'[u][n] <= 1 => puts[u][n] <= 1 /\ v[u][n] = w[u][n])
    BY <2>2, <2>3
  <2>5. u \notin discarded' => staged'[u][n] # Missing
    BY <2>2
  <2> QED BY <2>1, <2>2, <2>4, <2>5
<1> QED BY <1>2, <1>3 DEF CallOK

(* A step of one request that sends no part.                               *)
LEMMA OthersKept ==
    ASSUME MpInv, NEW w \in Worlds, Agree(w), NEW c \in Callers, NEW y, CallOK(w, y)',
           call' = [call EXCEPT ![c] = y], part' \in Worlds, staged' \in Worlds,
           puts' = puts, discarded \subseteq discarded',
           \A u \in Uploads, n \in Numbers :
                /\ part'[u][n] \in {Missing, part[u][n]}
                /\ staged'[u][n] \in {Missing, staged[u][n]},
           \A u \in Uploads \ discarded' : staged'[u] = staged[u],
           target' \in [Uploads -> Seq(Assembled)], AssembledAsListed'
    PROVE  MpInv'
<1>1. MpTypeOK'
  BY DEF MpInv, MpTypeOK
<1>2. puts \in [Uploads -> [Numbers -> Nat]]
  BY DEF MpInv, MpTypeOK
<1>3. \A d \in Callers : call'[d] = IF d = c THEN y ELSE call[d]
  BY DEF MpInv, MpTypeOK
<1>4. ASSUME NEW x, CallOK(w, x) PROVE CallOK(w, x)'
  <2>1. \A u \in Uploads, n \in Numbers : puts'[u][n] >= puts[u][n]
    BY <1>2
  <2>2. \A u \in Uploads, n \in Numbers :
             puts[u][n] > 0 /\ puts'[u][n] <= 1 => w[u][n] = w[u][n]
    OBVIOUS
  <2>3. \A u \in Uploads \ discarded', n \in Numbers :
             staged[u][n] # Missing => staged'[u][n] # Missing
    OBVIOUS
  <2> QED BY <1>1, <1>4, <2>1, <2>2, <2>3, CallKept DEF MpInv, MpTypeOK
<1>5. ASSUME NEW d \in Callers PROVE CallOK(w, call[d])'
  <2>1. PICK x : x = call'[d]
    OBVIOUS
  <2>2. CallOK(w, x)'
    <3>1. CASE d = c
      BY <1>3, <2>1, <3>1
    <3>2. CASE d # c
      <4>1. x = call[d] /\ CallOK(w, call[d])
        BY <1>3, <2>1, <3>2 DEF Agree
      <4>2. CallOK(w, x)
        BY <4>1
      <4> QED BY <1>4, <4>2
    <3> QED BY <3>1, <3>2
  <2> QED BY <2>1, <2>2
<1>6. \A u \in Uploads, n \in Numbers : PartOK(w, u, n)'
  BY DEF Agree, PartOK
<1>7. Agree(w)'
  BY <1>5, <1>6 DEF Agree
<1>8. AcknowledgedPartsKept'
  <2> SUFFICES ASSUME NEW u \in Uploads \ discarded', NEW n \in RowsOf(u)'
               PROVE  staged'[u][n] # Missing
    BY DEF AcknowledgedPartsKept
  <2>1. n \in Numbers /\ part[u][n] # Missing
    BY DEF RowsOf
  <2>2. staged[u][n] # Missing
    BY <2>1 DEF MpInv, AcknowledgedPartsKept, RowsOf
  <2> QED BY <2>2
<1>9. AssembledAsListed'
  BY DEF MpInv, AssembledAsListed
<1> QED BY <1>1, <1>7, <1>8, <1>9 DEF MpInv

(* A request begins to send a part.                                        *)
LEMMA UploadPartStep ==
    ASSUME MpInv, NEW c \in Callers, NEW u \in Uploads, NEW n \in Numbers, NEW b \in Bodies,
           upload_part(c, u, n, b)
    PROVE  MpInv'
<1>1. PICK w \in Worlds : Agree(w)
  BY DEF MpInv
<1> DEFINE y == [NoCall EXCEPT !.phase = "put", !.on = u, !.number = n, !.body = b]
<1>2. DOMAIN y = CallFields /\ y.phase = "put" /\ y.on = u /\ y.number = n /\ y.body = b
  BY DEF NoCall, CallFields
<1>3. call' = [call EXCEPT ![c] = y] /\ UNCHANGED <<part, staged, puts, target, discarded>>
  BY DEF upload_part, rowsKept
<1> HIDE DEF y
<1>4. CallOK(w, y)
  BY <1>2 DEF CallOK
<1> QED BY <1>1, <1>3, <1>4, OwnCall

(* The object of a part is written: the first time it fixes the body, any  *)
(* later time the upload is no longer one of parts sent once.              *)
LEMMA PartPutStep ==
    ASSUME MpInv, NEW c \in Callers, part_put(c)
    PROVE  MpInv'
<1>1. PICK w \in Worlds : Agree(w)
  BY DEF MpInv
<1>2. PICK x : x = call[c]
  OBVIOUS
<1>3. CallOK(w, x) /\ x.phase = "put"
  BY <1>1, <1>2 DEF Agree, part_put
<1>4. PICK u \in Uploads, n \in Numbers, b \in Bodies : u = x.on /\ n = x.number /\ b = x.body
  BY <1>3 DEF CallOK
<1> DEFINE y == [x EXCEPT !.phase = "record"]
<1>5. /\ staged' = [staged EXCEPT ![u][n] = b] /\ puts' = [puts EXCEPT ![u][n] = @ + 1]
      /\ call' = [call EXCEPT ![c] = y] /\ UNCHANGED <<part, target, discarded>>
  BY <1>2, <1>4 DEF part_put, rowsKept
<1>6. /\ DOMAIN y = CallFields /\ y.phase = "record" /\ y.on = u /\ y.number = n /\ y.body = b
  BY <1>3, <1>4 DEF CallOK, CallFields
<1>a. [w EXCEPT ![u][n] = b] \in Worlds
  BY DEF Worlds
<1>b. PICK v \in Worlds : v = IF puts[u][n] = 0 THEN [w EXCEPT ![u][n] = b] ELSE w
  BY <1>a
<1>7. /\ MpTypeOK
      /\ puts[u][n] = 0 => v[u][n] = b
      /\ puts[u][n] # 0 => v = w
      /\ \A p \in Uploads, q \in Numbers : p # u \/ q # n => v[p][q] = w[p][q]
  BY <1>1, <1>b DEF MpInv, Worlds
<1> HIDE DEF y
<1>8. /\ puts' \in [Uploads -> [Numbers -> Nat]] /\ puts'[u][n] = puts[u][n] + 1 /\ puts[u][n] \in Nat
      /\ \A p \in Uploads, q \in Numbers :
            /\ puts[p][q] \in Nat
            /\ p # u \/ q # n => puts'[p][q] = puts[p][q]
  BY <1>5, <1>7 DEF MpTypeOK
<1>9. /\ staged' \in Worlds /\ staged'[u][n] = b
      /\ \A p \in Uploads, q \in Numbers : p # u \/ q # n => staged'[p][q] = staged[p][q]
  BY <1>5, <1>7 DEF MpTypeOK, Worlds
<1>10. b # Missing
  OBVIOUS
<1>11. MpTypeOK'
  BY <1>5, <1>7, <1>8, <1>9 DEF MpTypeOK
<1>12. CallOK(v, y)'
  BY <1>6, <1>7, <1>8, <1>9, <1>10 DEF CallOK
<1>13. ASSUME NEW z, CallOK(w, z) PROVE CallOK(v, z)'
  <2>1. \A p \in Uploads, q \in Numbers : puts'[p][q] >= puts[p][q]
    BY <1>8
  <2>2. ASSUME NEW p \in Uploads, NEW q \in Numbers, puts[p][q] > 0, puts'[p][q] <= 1
        PROVE  v[p][q] = w[p][q]
    <3>1. CASE p = u /\ q = n
      BY <1>8, <2>2, <3>1
    <3>2. CASE p # u \/ q # n
      BY <1>7, <3>2
    <3> QED BY <3>1, <3>2
  <2>3. \A p \in Uploads \ discarded', q \in Numbers :
             staged[p][q] # Missing => staged'[p][q] # Missing
    BY <1>9, <1>10
  <2> QED BY <1>5, <1>7, <1>8, <1>13, <2>1, <2>2, <2>3, CallKept
<1>14. ASSUME NEW d \in Callers PROVE CallOK(v, call[d])'
  <2>1. PICK z : z = call'[d]
    OBVIOUS
  <2>2. CASE d = c
    <3>1. z = y
      BY <1>5, <1>7, <2>1, <2>2 DEF MpTypeOK
    <3> QED BY <1>12, <2>1, <3>1
  <2>3. CASE d # c
    <3>1. z = call[d]
      BY <1>5, <1>7, <2>1, <2>3 DEF MpTypeOK
    <3>2. CallOK(w, z)
      BY <1>1, <3>1 DEF Agree
    <3>3. CallOK(v, z)'
      BY <1>13, <3>2
    <3> QED BY <2>1, <3>3
  <2> QED BY <2>2, <2>3
<1>15. ASSUME NEW p \in Uploads, NEW q \in Numbers PROVE PartOK(v, p, q)'
  <2>1. PartOK(w, p, q)
    BY <1>1 DEF Agree
  <2>2. CASE p = u /\ q = n
    <3>1. puts'[u][n] # 0 /\ (puts'[u][n] <= 1 => puts[u][n] = 0)
      BY <1>8
    <3>2. puts[u][n] = 0 => part'[u][n] = Missing /\ v[u][n] = b
      BY <1>5, <1>7, <2>1, <2>2 DEF PartOK
    <3> QED BY <1>9, <2>2, <3>1, <3>2 DEF PartOK
  <2>3. CASE p # u \/ q # n
    BY <1>5, <1>7, <1>8, <1>9, <2>1, <2>3 DEF PartOK
  <2> QED BY <2>2, <2>3
<1>16. Agree(v)'
  BY <1>14, <1>15 DEF Agree
<1>17. AcknowledgedPartsKept'
  BY <1>5, <1>9, <1>10 DEF MpInv, AcknowledgedPartsKept, RowsOf
<1>18. AssembledAsListed'
  BY <1>5 DEF MpInv, AssembledAsListed
<1> QED BY <1>7, <1>11, <1>16, <1>17, <1>18 DEF MpInv

(* The row of a part follows its object.                                   *)
LEMMA AddPartStep ==
    ASSUME MpInv, NEW c \in Callers, add_part(c)
    PROVE  MpInv'
<1>1. PICK w \in Worlds : Agree(w)
  BY DEF MpInv
<1>2. PICK x : x = call[c]
  OBVIOUS
<1>3. CallOK(w, x) /\ x.phase = "record"
  BY <1>1, <1>2 DEF Agree, add_part
<1>4. PICK u \in Uploads, n \in Numbers, b \in Bodies : u = x.on /\ n = x.number /\ b = x.body
  BY <1>3 DEF CallOK
<1>5. /\ part' = [part EXCEPT ![u][n] = b] \/ part' = part
      /\ call' = [call EXCEPT ![c] = NoCall] /\ UNCHANGED <<staged, puts, target, discarded>>
  BY <1>2, <1>4 DEF add_part
<1>6. /\ puts[u][n] > 0 /\ (puts[u][n] <= 1 => b = w[u][n])
      /\ u \notin discarded => staged[u][n] # Missing
  BY <1>3, <1>4 DEF CallOK
<1>7. /\ part' \in Worlds /\ part'[u][n] \in {b, part[u][n]} /\ MpTypeOK
      /\ \A p \in Uploads, q \in Numbers : p # u \/ q # n => part'[p][q] = part[p][q]
  <2>1. part \in Worlds /\ MpTypeOK
    BY DEF MpInv, MpTypeOK
  <2>2. CASE part' = part
    BY <2>1, <2>2
  <2>3. CASE part' = [part EXCEPT ![u][n] = b]
    BY <2>1, <2>3 DEF Worlds
  <2> QED BY <1>5, <2>2, <2>3
<1>8. MpTypeOK'
  BY <1>5, <1>7 DEF MpTypeOK
<1>9. \A z : CallOK(w, z)' <=> CallOK(w, z)
  BY <1>5 DEF CallOK, Assembles, Once
<1>10. \A d \in Callers : call'[d] = IF d = c THEN NoCall ELSE call[d]
  BY <1>5, <1>7 DEF MpTypeOK
<1>11. \A d \in Callers : CallOK(w, call'[d])
  BY <1>1, <1>10, NoCallOK DEF Agree
<1>12. ASSUME NEW p \in Uploads, NEW q \in Numbers PROVE PartOK(w, p, q)'
  <2>1. PartOK(w, p, q) /\ puts[p][q] \in Nat
    BY <1>1, <1>7 DEF Agree, MpTypeOK
  <2>2. CASE p = u /\ q = n
    BY <1>5, <1>6, <1>7, <2>1, <2>2 DEF PartOK
  <2>3. CASE p # u \/ q # n
    BY <1>5, <1>7, <2>1, <2>3 DEF PartOK
  <2> QED BY <2>2, <2>3
<1>13. Agree(w)'
  BY <1>9, <1>11, <1>12 DEF Agree
<1>14. AcknowledgedPartsKept'
  BY <1>5, <1>6, <1>7 DEF MpInv, AcknowledgedPartsKept, RowsOf
<1>15. AssembledAsListed'
  BY <1>5 DEF MpInv, AssembledAsListed
<1> QED BY <1>8, <1>13, <1>14, <1>15 DEF MpInv

(* A completion lists rows, so it lists what was written.                  *)
LEMMA CompleteStep ==
    ASSUME MpInv, NEW c \in Callers, NEW u \in Uploads, NEW listed \in Listings(u),
           complete_multipart_upload(c, u, listed)
    PROVE  MpInv'
<1>1. PICK w \in Worlds : Agree(w)
  BY DEF MpInv
<1>2. PICK k \in Nat : listed \in [1 .. k -> RowsOf(u)]
  BY DEF Listings
<1>3. PICK P \in SUBSET Numbers : P = RowsOf(u)
  BY DEF RowsOf
<1>4. PICK f \in [Numbers -> Bodies \cup {Missing}] : f = part[u]
  BY DEF MpInv, MpTypeOK, Worlds
<1>5. \A n \in P : f[n] \in Bodies /\ puts[u][n] > 0 /\ (puts[u][n] <= 1 => f[n] = w[u][n])
  <2> SUFFICES ASSUME NEW n \in P
               PROVE  f[n] \in Bodies /\ puts[u][n] > 0 /\ (puts[u][n] <= 1 => f[n] = w[u][n])
    OBVIOUS
  <2>1. f[n] # Missing /\ n \in Numbers
    BY <1>3, <1>4 DEF RowsOf
  <2>2. PartOK(w, u, n) /\ puts[u][n] \in Nat
    BY <1>1, <2>1 DEF Agree, MpInv, MpTypeOK
  <2> QED BY <1>4, <2>1, <2>2 DEF PartOK
<1>6. listed \in Seq(Numbers) /\ Len(listed) = k /\ \A i \in 1 .. k : listed[i] \in P
  BY <1>2, <1>3
<1> DEFINE want == [i \in 1 .. k |-> f[listed[i]]]
<1>7. want \in Seq(Bodies) /\ Len(want) = k /\ \A i \in 1 .. k : want[i] = f[listed[i]]
  <2>1. want \in [1 .. k -> Bodies]
    BY <1>5, <1>6
  <2> QED BY <2>1, ListOf
<1>8. PICK new, doomed : new = (~ present[u]) /\ doomed = RowsOf(u)
  OBVIOUS
<1> DEFINE y == [NoCall EXCEPT !.phase = "claim", !.on = u, !.want = want, !.todo = listed,
                               !.new = new, !.doomed = doomed]
<1>9. DOMAIN listed = 1 .. k
  BY <1>2
<1>10. call' = [call EXCEPT ![c] = y] /\ UNCHANGED <<part, staged, puts, target, discarded>>
  BY <1>4, <1>8, <1>9 DEF complete_multipart_upload, reconcile_requested, rowsKept
<1> HIDE DEF want
<1>11. /\ DOMAIN y = CallFields /\ y.phase = "claim" /\ y.on = u /\ y.want = want
       /\ y.todo = listed /\ y.got = <<>> /\ y.doomed = doomed
  BY DEF NoCall, CallFields
<1> HIDE DEF y
<1>12. y.doomed \subseteq Numbers
  BY <1>3, <1>8, <1>11
<1>13. Assembles(w, y)
  <2>1. y.got \in Seq(Bodies) /\ Len(y.got) = 0
    BY <1>11
  <2>2. \A i \in 1 .. k : /\ puts[u][listed[i]] > 0
                          /\ puts[u][listed[i]] <= 1 => want[i] = w[u][listed[i]]
    BY <1>5, <1>6, <1>7
  <2>3. \A i \in 1 .. k : Len(y.got) + i = i
    BY <2>1
  <2> QED BY <1>6, <1>7, <1>11, <1>12, <2>1, <2>2, <2>3 DEF Assembles
<1>14. CallOK(w, y)
  BY <1>11, <1>13 DEF CallOK
<1> QED BY <1>1, <1>10, <1>14, OwnCall

(* A request that goes on as it is, or is over.                            *)
LEMMA PhaseStep ==
    ASSUME NEW w, NEW x, CallOK(w, x), NEW ph
    PROVE  /\ DOMAIN [x EXCEPT !.phase = ph] = CallFields
           /\ [x EXCEPT !.phase = ph].phase = ph
           /\ [x EXCEPT !.phase = ph].todo = x.todo
           /\ [x EXCEPT !.phase = ph].got = x.got
           /\ [x EXCEPT !.phase = ph].want = x.want
           /\ [x EXCEPT !.phase = ph].on = x.on
           /\ [x EXCEPT !.phase = ph].doomed = x.doomed
BY DEF CallOK, CallFields

(* The file is claimed, or the request gives up.                           *)
LEMMA NewFileStep ==
    ASSUME MpInv, NEW c \in Callers, _new_file(c)
    PROVE  MpInv'
<1>1. PICK w \in Worlds : Agree(w)
  BY DEF MpInv
<1>2. PICK x : x = call[c]
  OBVIOUS
<1>3. CallOK(w, x) /\ x.phase = "claim" /\ Assembles(w, x)
  BY <1>1, <1>2 DEF Agree, _new_file, CallOK
<1>4. UNCHANGED <<part, staged, puts, target, discarded>>
  BY DEF _new_file, rowsKept
<1>5. CASE call' = [call EXCEPT ![c] = NoCall]
  BY <1>1, <1>4, <1>5, NoCallOK, OwnCall
<1>6. CASE call' = [call EXCEPT ![c].phase = "stream"]
  <2> DEFINE y == [x EXCEPT !.phase = "stream"]
  <2>1. call' = [call EXCEPT ![c] = y]
    BY <1>2, <1>6
  <2>2. /\ DOMAIN y = CallFields /\ y.phase = "stream" /\ y.todo = x.todo /\ y.got = x.got
        /\ y.want = x.want /\ y.on = x.on /\ y.doomed = x.doomed
    BY <1>3, PhaseStep
  <2> HIDE DEF y
  <2>3. CallOK(w, y)
    BY <1>3, <2>2 DEF CallOK, Assembles
  <2> QED BY <1>1, <1>4, <2>1, <2>3, OwnCall
<1> QED BY <1>5, <1>6 DEF _new_file

(* The next object is read.                                                *)
LEMMA StreamStep ==
    ASSUME MpInv, NEW c \in Callers, _assembled_stream(c)
    PROVE  MpInv'
<1>1. PICK w \in Worlds : Agree(w)
  BY DEF MpInv
<1>2. PICK x : x = call[c]
  OBVIOUS
<1>3. CallOK(w, x) /\ x.phase = "stream" /\ x.todo # <<>> /\ Assembles(w, x)
  BY <1>1, <1>2 DEF Agree, _assembled_stream, CallOK
<1>4. UNCHANGED <<part, staged, puts, target, discarded>>
  BY DEF _assembled_stream, rowsKept
<1>5. PICK u \in Uploads, want \in Seq(Bodies), got \in Seq(Bodies), todo \in Seq(Numbers) :
           u = x.on /\ want = x.want /\ got = x.got /\ todo = x.todo
  BY <1>3 DEF Assembles
<1>6. PICK object : object = staged[u][Head(todo)]
  OBVIOUS
<1>7. CASE call' = [call EXCEPT ![c] = NoCall]
  BY <1>1, <1>4, <1>7, NoCallOK, OwnCall
<1>8. CASE object # Missing /\ call' = [call EXCEPT ![c].todo = Tail(@), ![c].got = Append(@, object)]
  <2>1. PICK n \in Numbers : n = Head(todo) /\ n = todo[1] /\ 1 \in 1 .. Len(todo)
    <3>1. todo # <<>> /\ todo \in Seq(Numbers)
      BY <1>3, <1>5
    <3>2. Len(todo) \in Nat /\ Len(todo) > 0 /\ 1 \in 1 .. Len(todo)
      BY <3>1
    <3>3. Head(todo) = todo[1] /\ todo[1] \in Numbers
      BY <3>1, <3>2
    <3> QED BY <3>2, <3>3, Zenon
  <2>2. object \in Bodies /\ object = staged[u][n]
    BY <1>6, <1>8, <2>1 DEF MpInv, MpTypeOK, Worlds
  <2> DEFINE rest == Tail(todo)
             more == Append(got, object)
             y == [x EXCEPT !.todo = rest, !.got = more]
  <2>t. todo # <<>>
    BY <1>3, <1>5
  <2>3. /\ rest \in Seq(Numbers) /\ Len(rest) \in Nat /\ Len(todo) = Len(rest) + 1
        /\ \A i \in 1 .. Len(rest) : i + 1 \in 1 .. Len(todo) /\ rest[i] = todo[i + 1]
    BY <2>t, TailOf
  <2>4. /\ more \in Seq(Bodies) /\ Len(got) \in Nat /\ Len(more) = Len(got) + 1
        /\ \A i \in 1 .. Len(got) : more[i] = got[i]
        /\ more[Len(got) + 1] = object
    BY <2>2, AppendOf
  <2>5. call' = [call EXCEPT ![c] = y]
    BY <1>2, <1>5, <1>8
  <2> HIDE DEF rest, more
  <2>6. /\ DOMAIN y = CallFields /\ y.phase = "stream" /\ y.todo = rest /\ y.got = more
        /\ y.want = want /\ y.on = u /\ y.doomed = x.doomed
    BY <1>3, <1>5 DEF CallOK, CallFields
  <2> HIDE DEF y
  <2>7. Len(got) + Len(todo) = Len(want)
    BY <1>3, <1>5 DEF Assembles
  <2>8. Len(more) + Len(rest) = Len(want)
    BY <2>3, <2>4, <2>7
  <2>9. \A i \in 1 .. Len(todo) :
             /\ puts[u][todo[i]] > 0
             /\ puts[u][todo[i]] <= 1 => want[Len(got) + i] = w[u][todo[i]]
    BY <1>3, <1>5 DEF Assembles
  <2>10. ASSUME NEW i \in 1 .. Len(rest)
         PROVE  /\ puts[u][rest[i]] > 0
                /\ puts[u][rest[i]] <= 1 => want[Len(more) + i] = w[u][rest[i]]
    <3>1. Len(more) + i = Len(got) + (i + 1)
      BY <2>4, <2>7
    <3> QED BY <2>3, <2>9, <3>1
  <2>11. ASSUME Once(u), NEW i \in 1 .. Len(more) PROVE more[i] = want[i]
    <3>1. CASE i \in 1 .. Len(got)
      BY <1>3, <1>5, <2>4, <2>11, <3>1 DEF Assembles
    <3>2. CASE i = Len(got) + 1
      <4>1. puts[u][n] <= 1
        BY <2>11 DEF Once
      <4>2. want[Len(got) + 1] = w[u][n]
        BY <2>1, <2>9, <4>1
      <4>3. object = w[u][n]
        BY <1>1, <1>8, <2>2, <4>1 DEF Agree, PartOK
      <4> QED BY <2>4, <3>2, <4>2, <4>3
    <3>3. i \in 1 .. Len(got) \/ i = Len(got) + 1
      BY <2>4
    <3> QED BY <3>1, <3>2, <3>3
  <2>12. x.doomed \subseteq Numbers
    BY <1>3 DEF Assembles
  <2>13. Assembles(w, y)
    BY <2>3, <2>4, <2>6, <2>8, <2>10, <2>11, <2>12 DEF Assembles
  <2>14. CallOK(w, y)
    BY <2>6, <2>13 DEF CallOK
  <2> QED BY <1>1, <1>4, <2>5, <2>14, OwnCall
<1> QED BY <1>2, <1>5, <1>6, <1>7, <1>8 DEF _assembled_stream

(* The length is compared with what the client listed.                     *)
LEMMA ChargeStep ==
    ASSUME MpInv, NEW c \in Callers, _charge(c)
    PROVE  MpInv'
<1>1. PICK w \in Worlds : Agree(w)
  BY DEF MpInv
<1>2. PICK x : x = call[c]
  OBVIOUS
<1>3. CallOK(w, x) /\ x.phase = "stream" /\ x.todo = <<>> /\ Assembles(w, x)
  BY <1>1, <1>2 DEF Agree, _charge, CallOK
<1>4. UNCHANGED <<part, staged, puts, target, discarded>>
  BY DEF _charge, rowsKept
<1>5. CASE call' = [call EXCEPT ![c] = NoCall]
  BY <1>1, <1>4, <1>5, NoCallOK, OwnCall
<1>6. ASSUME NEW total, Bytes(x.got) = Bytes(x.want),
             call' = [call EXCEPT ![c].phase = "flush", ![c].total = total]
      PROVE  MpInv'
  <2> DEFINE y == [x EXCEPT !.phase = "flush", !.total = total]
  <2>1. call' = [call EXCEPT ![c] = y]
    BY <1>2, <1>6
  <2>2. /\ DOMAIN y = CallFields /\ y.phase = "flush" /\ y.todo = x.todo /\ y.got = x.got
        /\ y.want = x.want /\ y.on = x.on /\ y.doomed = x.doomed
    BY <1>3 DEF CallOK, CallFields
  <2> HIDE DEF y
  <2>3. Assembles(w, y)
    BY <1>3, <2>2 DEF Assembles
  <2>4. CallOK(w, y)
    BY <1>3, <1>6, <2>2, <2>3 DEF CallOK
  <2> QED BY <1>1, <1>4, <2>1, <2>4, OwnCall
<1>7. CASE LengthMatches(c) /\ charged + Bytes(call[c].got) <= QuotaBytes
  <2>1. PICK total : total = charged + Bytes(call[c].got)
    OBVIOUS
  <2>2. call' = [call EXCEPT ![c].phase = "flush", ![c].total = total]
    BY <1>7, <2>1 DEF _charge
  <2>3. Bytes(x.got) = Bytes(x.want)
    BY <1>2, <1>7 DEF LengthMatches
  <2> QED BY <1>6, <2>2, <2>3
<1> QED BY <1>5, <1>7 DEF _charge

(* The objects are about to go.                                            *)
LEMMA FlushStep ==
    ASSUME MpInv, NEW c \in Callers, flush(c)
    PROVE  MpInv'
<1>1. PICK w \in Worlds : Agree(w)
  BY DEF MpInv
<1>2. PICK x : x = call[c]
  OBVIOUS
<1>3. /\ CallOK(w, x) /\ x.phase = "flush" /\ Assembles(w, x)
      /\ x.todo = <<>> /\ Bytes(x.got) = Bytes(x.want)
  BY <1>1, <1>2 DEF Agree, flush, CallOK
<1> DEFINE y == [x EXCEPT !.phase = "discard"]
<1>4. /\ call' = [call EXCEPT ![c] = y] /\ UNCHANGED <<part, staged, puts, target>>
      /\ discarded' = discarded \cup {x.on}
  BY <1>2 DEF flush, rowsKept
<1>5. /\ DOMAIN y = CallFields /\ y.phase = "discard" /\ y.todo = x.todo /\ y.got = x.got
      /\ y.want = x.want /\ y.on = x.on /\ y.doomed = x.doomed
  BY <1>3, PhaseStep
<1> HIDE DEF y
<1>6. Assembles(w, y)'
  BY <1>3, <1>4, <1>5 DEF Assembles, Once
<1>7. CallOK(w, y)'
  BY <1>3, <1>4, <1>5, <1>6 DEF CallOK
<1>8. /\ part' \in Worlds /\ staged' \in Worlds /\ target' \in [Uploads -> Seq(Assembled)]
      /\ AssembledAsListed'
  BY <1>4 DEF MpInv, MpTypeOK, AssembledAsListed
<1> QED BY <1>1, <1>4, <1>7, <1>8, OthersKept

(* An abort or the reaper begins to take the upload away.                  *)
LEMMA DiscardsStep ==
    ASSUME MpInv, NEW c \in Callers, NEW u \in Uploads, Discards(c, u)
    PROVE  MpInv'
<1>1. PICK w \in Worlds : Agree(w)
  BY DEF MpInv
<1>2. PICK P \in SUBSET Numbers : P = RowsOf(u)
  BY DEF RowsOf
<1> DEFINE y == [NoCall EXCEPT !.phase = "discard", !.on = u, !.doomed = P]
<1>3. /\ call' = [call EXCEPT ![c] = y] /\ UNCHANGED <<part, staged, puts, target>>
      /\ discarded' = discarded \cup {u}
  BY <1>2 DEF Discards, rowsKept
<1>4. /\ DOMAIN y = CallFields /\ y.phase = "discard" /\ y.on = u /\ y.doomed = P
      /\ y.want = <<>> /\ y.got = <<>> /\ y.todo = <<>>
  BY DEF NoCall, CallFields
<1> HIDE DEF y
<1>5. Assembles(w, y)'
  BY <1>4 DEF Assembles
<1>6. CallOK(w, y)'
  BY <1>3, <1>4, <1>5 DEF CallOK
<1>7. /\ part' \in Worlds /\ staged' \in Worlds /\ target' \in [Uploads -> Seq(Assembled)]
      /\ AssembledAsListed'
  BY <1>3 DEF MpInv, MpTypeOK, AssembledAsListed
<1> QED BY <1>1, <1>3, <1>6, <1>7, OthersKept

(* One object goes.                                                        *)
LEMMA PartDeletedStep ==
    ASSUME MpInv, NEW c \in Callers, part_deleted(c)
    PROVE  MpInv'
<1>1. PICK w \in Worlds : Agree(w)
  BY DEF MpInv
<1>2. PICK x : x = call[c]
  OBVIOUS
<1>3. /\ CallOK(w, x) /\ x.phase = "discard" /\ Assembles(w, x) /\ x.on \in discarded
      /\ x.todo = <<>> /\ Bytes(x.got) = Bytes(x.want)
  BY <1>1, <1>2 DEF Agree, part_deleted, CallOK
<1>4. PICK n \in x.doomed : /\ staged' = [staged EXCEPT ![x.on][n] = Missing]
                            /\ call' = [call EXCEPT ![c].doomed = @ \ {n}]
  BY <1>2 DEF part_deleted
<1>5. PICK u \in Uploads, m \in Numbers : u = x.on /\ m = n /\ u \in discarded
  BY <1>3 DEF Assembles
<1> DEFINE y == [x EXCEPT !.doomed = x.doomed \ {n}]
<1>6. /\ call' = [call EXCEPT ![c] = y] /\ UNCHANGED <<part, puts, target, discarded>>
  BY <1>2, <1>4 DEF part_deleted, rowsKept
<1>7. /\ DOMAIN y = CallFields /\ y.phase = "discard" /\ y.todo = x.todo /\ y.got = x.got
      /\ y.want = x.want /\ y.on = x.on /\ y.doomed = x.doomed \ {n}
  BY <1>3 DEF CallOK, CallFields
<1> HIDE DEF y
<1>8. Assembles(w, y)'
  <2>1. y.doomed \subseteq Numbers
    BY <1>3, <1>7 DEF Assembles
  <2> QED BY <1>3, <1>6, <1>7, <2>1 DEF Assembles, Once
<1>9. CallOK(w, y)'
  BY <1>3, <1>6, <1>7, <1>8 DEF CallOK
<1>10. /\ staged' \in Worlds
       /\ \A p \in Uploads, q \in Numbers : staged'[p][q] \in {Missing, staged[p][q]}
       /\ \A p \in Uploads \ discarded' : staged'[p] = staged[p]
  <2>1. staged \in Worlds
    BY DEF MpInv, MpTypeOK
  <2> QED BY <1>4, <1>5, <1>6, <2>1 DEF Worlds
<1>11. /\ part' \in Worlds /\ target' \in [Uploads -> Seq(Assembled)] /\ AssembledAsListed'
  BY <1>6 DEF MpInv, MpTypeOK, AssembledAsListed
<1> QED BY <1>1, <1>6, <1>9, <1>10, <1>11, OthersKept

(* The commit: what the version holds is what was listed.                  *)
LEMMA CommittedStep ==
    ASSUME MpInv, NEW c \in Callers, discard_committed(c)
    PROVE  MpInv'
<1>1. PICK w \in Worlds : Agree(w)
  BY DEF MpInv
<1>2. PICK x : x = call[c]
  OBVIOUS
<1>3. /\ CallOK(w, x) /\ x.phase = "discard" /\ Assembles(w, x)
      /\ x.todo = <<>> /\ Bytes(x.got) = Bytes(x.want)
  BY <1>1, <1>2 DEF Agree, discard_committed, CallOK
<1>4. PICK u \in Uploads, want \in Seq(Bodies), got \in Seq(Bodies) :
           u = x.on /\ want = x.want /\ got = x.got
  BY <1>3 DEF Assembles
<1>5. PICK once \in BOOLEAN : once = Once(u)
  BY DEF Once
<1>6. Len(got) = Len(want) /\ (Once(u) => \A i \in 1 .. Len(got) : got[i] = want[i])
  <2>1. Len(x.todo) = 0 /\ Len(got) \in Nat
    BY <1>3
  <2>2. Len(got) + Len(x.todo) = Len(want)
    BY <1>3, <1>4 DEF Assembles
  <2>3. Once(u) => \A i \in 1 .. Len(got) : got[i] = want[i]
    BY <1>3, <1>4 DEF Assembles
  <2> QED BY <2>1, <2>2, <2>3
<1>7. Once(u) => got = want
  BY <1>6, SMTT(20)
<1> DEFINE v == [want |-> want, got |-> got, once |-> once]
<1>8. v \in Assembled /\ v.want = want /\ v.got = got /\ v.once = once
  BY DEF Assembled
<1>9. /\ part' = [part EXCEPT ![u] = [n \in Numbers |-> Missing]]
      /\ target' = [target EXCEPT ![u] = Append(@, v)] \/ target' = target
      /\ call' = [call EXCEPT ![c] = NoCall]
      /\ UNCHANGED <<staged, puts, discarded>>
  BY <1>2, <1>4, <1>5 DEF discard_committed, Once
<1> HIDE DEF v
<1>10. Bytes(v.got) = Bytes(v.want) /\ (v.once => v.got = v.want)
  BY <1>3, <1>4, <1>5, <1>7, <1>8
<1>11. target' \in [Uploads -> Seq(Assembled)] /\ AssembledAsListed'
  <2>1. target \in [Uploads -> Seq(Assembled)] /\ AssembledAsListed
    BY DEF MpInv, MpTypeOK
  <2>2. CASE target' = target
    BY <2>1, <2>2 DEF AssembledAsListed
  <2>3. CASE target' = [target EXCEPT ![u] = Append(@, v)]
    <3>1. PICK s \in Seq(Assembled) : s = target[u]
      BY <2>1
    <3>2. /\ Append(s, v) \in Seq(Assembled) /\ Len(s) \in Nat /\ Len(Append(s, v)) = Len(s) + 1
          /\ \A i \in 1 .. Len(s) : Append(s, v)[i] = s[i]
          /\ Append(s, v)[Len(s) + 1] = v
      BY <1>8, AppendOf
    <3>3. target'[u] = Append(s, v) /\ \A p \in Uploads : p # u => target'[p] = target[p]
      BY <2>1, <2>3, <3>1
    <3>4. target' \in [Uploads -> Seq(Assembled)]
      BY <2>1, <2>3, <3>1, <3>2
    <3>5. ASSUME NEW p \in Uploads, NEW i \in DOMAIN target'[p]
          PROVE  LET z == target'[p][i]
                 IN  Bytes(z.got) = Bytes(z.want) /\ (z.once => z.got = z.want)
      <4>1. CASE p # u
        <5>1. i \in DOMAIN target[p] /\ target'[p][i] = target[p][i]
          BY <3>3, <4>1
        <5> QED BY <2>1, <5>1 DEF AssembledAsListed
      <4>2. CASE p = u
        <5>1. i \in 1 .. Len(s) + 1
          BY <3>2, <3>3, <4>2
        <5>2. CASE i = Len(s) + 1
          <6>1. target'[p][i] = v
            BY <3>2, <3>3, <4>2, <5>2
          <6> QED BY <1>10, <6>1
        <5>3. CASE i \in 1 .. Len(s)
          <6>1. target'[p][i] = target[p][i] /\ i \in DOMAIN target[p]
            BY <3>1, <3>2, <3>3, <4>2, <5>3
          <6> QED BY <2>1, <6>1 DEF AssembledAsListed
        <5> QED BY <3>2, <5>1, <5>2, <5>3
      <4> QED BY <4>1, <4>2
    <3> QED BY <3>4, <3>5 DEF AssembledAsListed
  <2> QED BY <1>9, <2>2, <2>3
<1>12. /\ part' \in Worlds
       /\ \A p \in Uploads, q \in Numbers : part'[p][q] \in {Missing, part[p][q]}
  <2>1. part \in Worlds
    BY DEF MpInv, MpTypeOK
  <2> QED BY <1>9, <2>1 DEF Worlds
<1>13. CallOK(w, NoCall)'
  <2>1. DOMAIN NoCall = CallFields /\ NoCall.phase = "idle"
    BY DEF NoCall, CallFields
  <2> QED BY <2>1 DEF CallOK
<1>14. staged' \in Worlds
  BY <1>9 DEF MpInv, MpTypeOK
<1> QED BY <1>1, <1>9, <1>11, <1>12, <1>13, <1>14, OthersKept

(* Every step keeps the invariant.                                         *)
LEMMA MpStep == MpInv /\ [MpNext]_mpVars => MpInv'
<1> SUFFICES ASSUME MpInv, [MpNext]_mpVars PROVE MpInv'
  OBVIOUS
<1>1. CASE UNCHANGED mpVars
  BY <1>1, SameCalls DEF mpVars
<1>2. ASSUME NEW c \in Callers, NEW u \in Uploads, create_multipart_upload(c, u) PROVE MpInv'
  BY <1>2, SameCalls DEF create_multipart_upload
<1>3. ASSUME NEW c \in Callers, NEW u \in Uploads, NEW n \in Numbers, NEW b \in Bodies,
             upload_part(c, u, n, b)
      PROVE  MpInv'
  BY <1>3, UploadPartStep
<1>4. ASSUME NEW c \in Callers, NEW u \in Uploads, NEW listed \in Listings(u),
             complete_multipart_upload(c, u, listed)
      PROVE  MpInv'
  BY <1>4, CompleteStep
<1>5. ASSUME NEW c \in Callers, NEW u \in Uploads, abort_multipart_upload(c, u) PROVE MpInv'
  BY <1>5, DiscardsStep DEF abort_multipart_upload
<1>6. ASSUME NEW u \in Uploads, _reap_abandoned_multipart(u) PROVE MpInv'
  BY <1>6, DiscardsStep DEF _reap_abandoned_multipart
<1>7. ASSUME NEW c \in Callers, fails(c) PROVE MpInv'
  <2>1. PICK w \in Worlds : Agree(w)
    BY DEF MpInv
  <2>2. call' = [call EXCEPT ![c] = NoCall] /\ UNCHANGED <<part, staged, puts, target, discarded>>
    BY <1>7 DEF fails, Fails, rowsKept
  <2> QED BY <2>1, <2>2, NoCallOK, OwnCall
<1>8. CASE hour_passes
  BY <1>8, SameCalls DEF hour_passes
<1> QED
  BY <1>1, <1>2, <1>3, <1>4, <1>5, <1>6, <1>7, <1>8, PartPutStep, AddPartStep, NewFileStep,
     StreamStep, ChargeStep, FlushStep, PartDeletedStep, CommittedStep DEF MpNext

(* In every reachable state parts, objects, rows and requests agree.       *)
THEOREM MultipartInvariant == MpSpec => []MpInv
BY InitMp, MpStep, PTL DEF MpSpec

(* A part whose row committed keeps its object until somebody begins to    *)
(* take the upload away.                                                   *)
THEOREM AcknowledgedPartsStay == MpSpec => []AcknowledgedPartsKept
<1>1. MpInv => AcknowledgedPartsKept
  BY DEF MpInv
<1> QED BY MultipartInvariant, <1>1, PTL

(* What a completion commits is as long as what the client listed, and is  *)
(* exactly that if no part was sent twice.                                 *)
THEOREM CompletionsAsListed == MpSpec => []AssembledAsListed
<1>1. MpInv => AssembledAsListed
  BY DEF MpInv
<1> QED BY MultipartInvariant, <1>1, PTL

HIDE MultipartAssumption

-----------------------------------------------------------------------------
(* What the versions hold, and what a completion that has computed a total *)
(* would charge: no more than what was held then and what it adds.         *)
StoredBy(u) == SumFunction([i \in DOMAIN target[u] |-> Bytes(target[u][i].got)])

AllStored == SumFunction([u \in Uploads |-> StoredBy(u)])

FairTotal(x) ==
    x.phase \in {"flush", "discard"} /\ x.want # <<>> =>
        x.total \in Nat /\ x.total <= AllStored + Bytes(x.got)

ChargeInv ==
    /\ charged \in Nat /\ charged <= AllStored
    /\ \A c \in Callers : FairTotal(call[c])

(* The bytes of a list of bodies, and of the versions of one upload.       *)
LEMMA BytesNat ==
    ASSUME NEW s \in Seq(Bodies)
    PROVE  Bytes(s) \in Nat
<1> DEFINE g == [i \in DOMAIN s |-> SizeOf[s[i]]]
<1>1. IsFiniteSet(DOMAIN s) /\ DOMAIN g = DOMAIN s
  <2>1. DOMAIN s = 1 .. Len(s) /\ Len(s) \in Nat
    OBVIOUS
  <2>2. IsFiniteSet(1 .. Len(s))
    BY <2>1, FS_Interval
  <2>3. DOMAIN g = DOMAIN s
    OBVIOUS
  <2> HIDE MultipartAssumption
  <2> QED BY <2>1, <2>2, <2>3
<1>2. \A i \in DOMAIN s : g[i] \in Nat
  <2>1. \A i \in DOMAIN s : s[i] \in Bodies
    BY ElementOf
  <2> QED BY <2>1, MultipartAssumption
<1> HIDE DEF g
<1>3. SumFunctionOnSet(g, DOMAIN s) \in Nat
  BY <1>1, <1>2, SumNat
<1> QED BY <1>1, <1>3 DEF Bytes, SumFunction, g

(* One version more.                                                       *)
LEMMA VersionAdded ==
    ASSUME NEW s \in Seq(Assembled), NEW v \in Assembled
    PROVE  LET sum(t) == SumFunction([i \in DOMAIN t |-> Bytes(t[i].got)])
           IN  sum(s) \in Nat /\ sum(Append(s, v)) = sum(s) + Bytes(v.got)
<1>1. PICK n \in Nat : n = Len(s)
  OBVIOUS
<1>2. PICK t : t = Append(s, v)
  OBVIOUS
<1>3. /\ DOMAIN s = 1 .. n /\ DOMAIN t = 1 .. n + 1 /\ t[n + 1] = v
      /\ \A i \in 1 .. n : t[i] = s[i]
  BY <1>1, <1>2
<1>4. \A i \in 1 .. n : Bytes(s[i].got) \in Nat
  <2>1. \A i \in 1 .. n : s[i] \in Assembled
    BY <1>1, ElementOf
  <2> QED BY <2>1, BytesNat DEF Assembled
<1>5. Bytes(v.got) \in Nat
  BY BytesNat DEF Assembled
<1> DEFINE g == [i \in 1 .. n |-> Bytes(s[i].got)]
           h == [i \in 1 .. n + 1 |-> Bytes(t[i].got)]
<1>6. /\ \A i \in 1 .. n : g[i] \in Nat /\ h[i] = g[i]
      /\ h[n + 1] = Bytes(v.got) /\ \A i \in 1 .. n + 1 : h[i] \in Nat
      /\ DOMAIN g = 1 .. n /\ DOMAIN h = 1 .. n + 1
  <2>1. \A i \in 1 .. n : g[i] = Bytes(s[i].got) /\ i \in 1 .. n + 1
    OBVIOUS
  <2>2. \A i \in 1 .. n + 1 : h[i] = Bytes(t[i].got)
    OBVIOUS
  <2>3. DOMAIN g = 1 .. n /\ DOMAIN h = 1 .. n + 1
    OBVIOUS
  <2> HIDE DEF g, h
  <2>4. \A i \in 1 .. n : g[i] \in Nat /\ h[i] = g[i]
    BY <1>3, <1>4, <2>1, <2>2
  <2>5. h[n + 1] = Bytes(v.got)
    BY <1>3, <2>2
  <2>6. \A i \in 1 .. n + 1 : i \in 1 .. n \/ i = n + 1
    OBVIOUS
  <2>7. \A i \in 1 .. n + 1 : h[i] \in Nat
    BY <1>5, <2>4, <2>5, <2>6
  <2> QED BY <2>3, <2>4, <2>5, <2>7
<1>7. IsFiniteSet(1 .. n) /\ IsFiniteSet(1 .. n + 1)
  BY FS_Interval
<1> HIDE DEF g, h
<1>8. (1 .. n + 1) \ {n + 1} = 1 .. n /\ n + 1 \in 1 .. n + 1
  OBVIOUS
<1>9. SumFunctionOnSet(h, 1 .. n + 1) = h[n + 1] + SumFunctionOnSet(h, (1 .. n + 1) \ {n + 1})
  BY <1>6, <1>7, <1>8, SumSplit
<1>10. SumFunctionOnSet(h, 1 .. n) = SumFunctionOnSet(g, 1 .. n)
  BY <1>6, <1>7, SumEqual
<1>11. SumFunctionOnSet(g, 1 .. n) \in Nat
  BY <1>6, <1>7, SumNat
<1>12. SumFunction(h) = SumFunction(g) + Bytes(v.got) /\ SumFunction(g) \in Nat
  <2>1. SumFunction(h) = SumFunctionOnSet(h, 1 .. n + 1) /\ SumFunction(g) = SumFunctionOnSet(g, 1 .. n)
    BY <1>6 DEF SumFunction
  <2>2. SumFunctionOnSet(h, 1 .. n + 1) = Bytes(v.got) + SumFunctionOnSet(g, 1 .. n)
    BY <1>6, <1>8, <1>9, <1>10
  <2>3. PICK a \in Nat, b \in Nat : a = SumFunctionOnSet(g, 1 .. n) /\ b = Bytes(v.got)
    BY <1>5, <1>11
  <2>4. a + b = b + a
    OBVIOUS
  <2> QED BY <2>1, <2>2, <2>3, <2>4
<1>13. [i \in DOMAIN s |-> Bytes(s[i].got)] = g /\ [i \in DOMAIN t |-> Bytes(t[i].got)] = h
  BY <1>3 DEF g, h
<1> QED BY <1>2, <1>12, <1>13

(* What is stored in all, and after one more version.                      *)
LEMMA StoredNat ==
    ASSUME IsFiniteSet(Uploads), target \in [Uploads -> Seq(Assembled)]
    PROVE  AllStored \in Nat /\ \A u \in Uploads : StoredBy(u) \in Nat
<1>1. \A u \in Uploads : StoredBy(u) \in Nat
  <2> SUFFICES ASSUME NEW u \in Uploads PROVE StoredBy(u) \in Nat
    OBVIOUS
  <2>1. PICK s \in Seq(Assembled) : s = target[u]
    OBVIOUS
  <2>a. <<>> \in Seq(Bodies) /\ TRUE \in BOOLEAN
    OBVIOUS
  <2>2. PICK v \in Assembled : TRUE
    <3>1. [want |-> <<>>, got |-> <<>>, once |-> TRUE] \in Assembled
      BY <2>a DEF Assembled
    <3> QED BY <3>1
  <2> QED BY <2>1, VersionAdded DEF StoredBy
<1> DEFINE g == [u \in Uploads |-> StoredBy(u)]
<1>2. DOMAIN g = Uploads /\ \A u \in Uploads : g[u] \in Nat
  BY <1>1
<1> HIDE DEF g
<1>3. SumFunctionOnSet(g, Uploads) \in Nat
  BY <1>2, SumNat
<1> QED BY <1>1, <1>2, <1>3 DEF AllStored, SumFunction, g

LEMMA StoredGrows ==
    ASSUME IsFiniteSet(Uploads), target \in [Uploads -> Seq(Assembled)], NEW u \in Uploads,
           NEW v \in Assembled, target' = [target EXCEPT ![u] = Append(@, v)]
    PROVE  AllStored' = AllStored + Bytes(v.got)
<1>1. PICK s \in Seq(Assembled) : s = target[u]
  OBVIOUS
<1>2. target'[u] = Append(s, v) /\ \A p \in Uploads \ {u} : target'[p] = target[p]
  BY <1>1
<1>3. target' \in [Uploads -> Seq(Assembled)]
  <2>1. Append(s, v) \in Seq(Assembled)
    OBVIOUS
  <2> QED BY <1>1, <2>1
<1>4. StoredBy(u)' = StoredBy(u) + Bytes(v.got) /\ Bytes(v.got) \in Nat
  BY <1>1, <1>2, VersionAdded, BytesNat DEF StoredBy, Assembled
<1>5. \A p \in Uploads \ {u} : StoredBy(p)' = StoredBy(p)
  BY <1>2 DEF StoredBy
<1>6. \A p \in Uploads : StoredBy(p) \in Nat
  BY StoredNat
<1> DEFINE g == [p \in Uploads |-> StoredBy(p)]
           h == [p \in Uploads |-> StoredBy(p)']
<1>7. /\ DOMAIN g = Uploads /\ DOMAIN h = Uploads /\ \A p \in Uploads : g[p] \in Nat /\ h[p] \in Nat
      /\ \A p \in Uploads \ {u} : g[p] = h[p]
      /\ h[u] = g[u] + Bytes(v.got)
  <2>1. \A p \in Uploads : g[p] = StoredBy(p) /\ h[p] = StoredBy(p)'
    OBVIOUS
  <2>2. DOMAIN g = Uploads /\ DOMAIN h = Uploads
    OBVIOUS
  <2> HIDE DEF g, h
  <2>3. h[u] = g[u] + Bytes(v.got) /\ h[u] \in Nat
    BY <1>4, <1>6, <2>1
  <2>4. \A p \in Uploads \ {u} : g[p] = h[p]
    BY <1>5, <2>1
  <2>5. \A p \in Uploads : g[p] \in Nat
    BY <1>6, <2>1
  <2> QED BY <2>2, <2>3, <2>4, <2>5
<1>8. AllStored = SumFunctionOnSet(g, Uploads) /\ AllStored' = SumFunctionOnSet(h, Uploads)
  BY DEF AllStored, SumFunction
<1> HIDE DEF g, h
<1>9. PICK k \in Nat : k = Bytes(v.got)
  BY <1>4
<1>10. PICK G, H : G = g /\ H = h
  OBVIOUS
<1>11. H[u] = G[u] + k
  BY <1>7, <1>9, <1>10
<1>12. \A p \in Uploads : G[p] \in Nat
  BY <1>7, <1>10
<1>13. \A p \in Uploads \ {u} : H[p] = G[p]
  BY <1>7, <1>10
<1>14. SumFunctionOnSet(H, Uploads) = SumFunctionOnSet(G, Uploads) + k
  BY <1>11, <1>12, <1>13, SumGrows
<1> QED BY <1>8, <1>9, <1>10, <1>14

(* A step of one request that commits nothing.                             *)
LEMMA NothingCharged ==
    ASSUME MpTypeOK, ChargeInv, NEW c \in Callers, NEW y, call' = [call EXCEPT ![c] = y],
           charged' = charged, target' = target, FairTotal(y)
    PROVE  ChargeInv'
<1>1. AllStored' = AllStored /\ \A x : FairTotal(x)' <=> FairTotal(x)
  BY DEF AllStored, StoredBy, FairTotal
<1>2. \A d \in Callers : call'[d] = IF d = c THEN y ELSE call[d]
  BY DEF MpTypeOK
<1>3. \A d \in Callers : FairTotal(call'[d])
  BY <1>2 DEF ChargeInv
<1> HIDE DEF FairTotal
<1> QED BY <1>1, <1>3 DEF ChargeInv

(* A request in another phase than these is fair.                          *)
LEMMA FairOtherwise ==
    ASSUME NEW x, x.phase \notin {"flush", "discard"}
    PROVE  FairTotal(x)
BY DEF FairTotal

LEMMA NoCallFair == FairTotal(NoCall)
<1>1. NoCall.phase = "idle"
  BY DEF NoCall
<1> QED BY <1>1, FairOtherwise

(* The total is computed from what is charged now.                         *)
LEMMA TotalComputed ==
    ASSUME MpInv, ChargeInv, IsFiniteSet(Uploads), NEW c \in Callers, _charge(c)
    PROVE  ChargeInv'
<1>0. charged' = charged /\ target' = target /\ MpTypeOK
  BY DEF _charge, rowsKept, MpInv
<1>1. PICK w \in Worlds : Agree(w)
  BY DEF MpInv
<1>2. PICK x : x = call[c]
  OBVIOUS
<1>3. CallOK(w, x) /\ x.phase = "stream" /\ DOMAIN x = CallFields /\ x.got \in Seq(Bodies)
  BY <1>1, <1>2 DEF Agree, _charge, CallOK, Assembles
<1>4. CASE call' = [call EXCEPT ![c] = NoCall]
  BY <1>0, <1>4, NoCallFair, NothingCharged
<1>5. CASE LengthMatches(c) /\ charged + Bytes(call[c].got) <= QuotaBytes
  <2>1. PICK total : total = charged + Bytes(x.got)
    OBVIOUS
  <2> DEFINE y == [x EXCEPT !.phase = "flush", !.total = total]
  <2>2. call' = [call EXCEPT ![c] = y]
    BY <1>2, <1>5, <2>1 DEF _charge
  <2>3. y.total = total /\ y.got = x.got
    BY <1>3 DEF CallFields
  <2> HIDE DEF y
  <2>4. AllStored \in Nat /\ charged \in Nat /\ charged <= AllStored /\ Bytes(x.got) \in Nat
    BY <1>0, <1>3, StoredNat, BytesNat DEF MpTypeOK, ChargeInv
  <2>5. total \in Nat /\ total <= AllStored + Bytes(x.got)
    BY <2>1, <2>4
  <2>6. FairTotal(y)
    BY <2>3, <2>5 DEF FairTotal
  <2> QED BY <1>0, <2>2, <2>6, NothingCharged
<1> QED BY <1>4, <1>5 DEF _charge

(* The request goes on with the total it computed.                         *)
LEMMA TotalKept ==
    ASSUME MpInv, ChargeInv, NEW c \in Callers, flush(c) \/ part_deleted(c)
    PROVE  ChargeInv'
<1>0. charged' = charged /\ target' = target /\ MpTypeOK
  BY DEF flush, part_deleted, rowsKept, MpInv
<1>1. PICK w \in Worlds : Agree(w)
  BY DEF MpInv
<1>2. PICK x : x = call[c]
  OBVIOUS
<1>3. DOMAIN x = CallFields /\ FairTotal(x) /\ x.phase \in {"flush", "discard"}
  BY <1>1, <1>2 DEF Agree, CallOK, ChargeInv, flush, part_deleted
<1>4. ASSUME NEW y, call' = [call EXCEPT ![c] = y], y.total = x.total, y.got = x.got, y.want = x.want
      PROVE  ChargeInv'
  <2>1. FairTotal(y)
    BY <1>3, <1>4 DEF FairTotal
  <2> QED BY <1>0, <1>4, <2>1, NothingCharged
<1>5. CASE flush(c)
  <2>1. PICK y : y = [x EXCEPT !.phase = "discard"]
    OBVIOUS
  <2>2. call' = [call EXCEPT ![c] = y]
    BY <1>2, <1>5, <2>1 DEF flush
  <2>3. y.total = x.total /\ y.got = x.got /\ y.want = x.want
    BY <1>3, <2>1 DEF CallFields
  <2> QED BY <1>4, <2>2, <2>3
<1>6. CASE part_deleted(c)
  <2>1. PICK P : call' = [call EXCEPT ![c].doomed = P]
    BY <1>6 DEF part_deleted
  <2>2. PICK y : y = [x EXCEPT !.doomed = P]
    OBVIOUS
  <2>3. call' = [call EXCEPT ![c] = y]
    BY <1>2, <2>1, <2>2
  <2>4. y.total = x.total /\ y.got = x.got /\ y.want = x.want
    BY <1>3, <2>2 DEF CallFields
  <2> QED BY <1>4, <2>3, <2>4
<1> QED BY <1>5, <1>6

(* The commit charges the total and adds the version.                      *)
LEMMA TotalCharged ==
    ASSUME MpInv, ChargeInv, IsFiniteSet(Uploads), NEW c \in Callers, discard_committed(c)
    PROVE  ChargeInv'
<1>0. MpTypeOK /\ target \in [Uploads -> Seq(Assembled)] /\ call' = [call EXCEPT ![c] = NoCall]
  BY DEF discard_committed, MpInv, MpTypeOK
<1>1. PICK w \in Worlds : Agree(w)
  BY DEF MpInv
<1>2. PICK x : x = call[c]
  OBVIOUS
<1>3. FairTotal(x) /\ x.phase = "discard" /\ Assembles(w, x)
  BY <1>1, <1>2 DEF Agree, CallOK, ChargeInv, discard_committed
<1>4. CASE x.want = <<>>
  <2>1. charged' = charged /\ target' = target
    BY <1>2, <1>4 DEF discard_committed
  <2> QED BY <1>0, <2>1, NoCallFair, NothingCharged
<1>5. CASE x.want # <<>>
  <2>1. PICK u \in Uploads, want \in Seq(Bodies), got \in Seq(Bodies) :
            u = x.on /\ want = x.want /\ got = x.got
    BY <1>3 DEF Assembles
  <2>2. PICK once \in BOOLEAN : once = Once(u)
    BY DEF Once
  <2>3. PICK v : v = [want |-> want, got |-> got, once |-> once]
    OBVIOUS
  <2>4. v \in Assembled /\ v.got = got
    BY <2>3 DEF Assembled
  <2>5. charged' = x.total /\ target' = [target EXCEPT ![u] = Append(@, v)]
    BY <1>2, <1>5, <2>1, <2>2, <2>3 DEF discard_committed, Once
  <2>6. AllStored' = AllStored + Bytes(got)
    BY <1>0, <2>4, <2>5, StoredGrows
  <2>7. AllStored \in Nat /\ Bytes(got) \in Nat
    BY <1>0, StoredNat, BytesNat
  <2>8. x.total \in Nat /\ x.total <= AllStored + Bytes(got)
    BY <1>3, <1>5, <2>1 DEF FairTotal
  <2>9. ASSUME NEW d \in Callers PROVE FairTotal(call[d])'
    <3>1. call'[d] = IF d = c THEN NoCall ELSE call[d]
      BY <1>0 DEF MpTypeOK
    <3>2. CASE d = c
      <4>1. call'[d].phase = "idle"
        BY <3>1, <3>2 DEF NoCall
      <4> QED BY <4>1 DEF FairTotal
    <3>3. CASE d # c
      <4>1. PICK z : z = call[d] /\ call'[d] = z /\ FairTotal(z)
        BY <3>1, <3>3 DEF ChargeInv
      <4>2. z.phase \in {"flush", "discard"} => Bytes(z.got) \in Nat
        <5>1. CallOK(w, z)
          BY <1>1, <4>1 DEF Agree
        <5> QED BY <5>1, BytesNat DEF CallOK, Assembles
      <4>3. z.phase \in {"flush", "discard"} /\ z.want # <<>> =>
                z.total \in Nat /\ z.total <= AllStored' + Bytes(z.got)
        BY <2>6, <2>7, <4>1, <4>2 DEF FairTotal
      <4> QED BY <4>1, <4>3 DEF FairTotal
    <3> QED BY <3>2, <3>3
  <2> QED BY <2>5, <2>6, <2>8, <2>9 DEF ChargeInv
<1> QED BY <1>4, <1>5

(* Every step of a request is one of these, or in a phase without a total. *)
LEMMA ChargesKept ==
    ASSUME IsFiniteSet(Uploads), MpInv, ChargeInv, [MpNext]_mpVars
    PROVE  ChargeInv'
<1>0. MpTypeOK
  BY DEF MpInv
<1>1. PICK w \in Worlds : Agree(w)
  BY DEF MpInv
<1>2. \A c \in Callers : DOMAIN call[c] = CallFields
  BY <1>1 DEF Agree, CallOK
<1>3. ASSUME NEW c \in Callers, NEW y, call' = [call EXCEPT ![c] = y],
             charged' = charged /\ target' = target, FairTotal(y)
      PROVE  ChargeInv'
  BY <1>0, <1>3, NothingCharged
<1>4. CASE UNCHANGED <<charged, target, call>>
  BY <1>4 DEF ChargeInv, FairTotal, AllStored, StoredBy
<1>5. ASSUME NEW c \in Callers, call' = [call EXCEPT ![c] = NoCall], charged' = charged /\ target' = target
      PROVE  ChargeInv'
  BY <1>3, <1>5, NoCallFair
<1>6. ASSUME NEW c \in Callers, NEW u \in Uploads, NEW n \in Numbers, NEW b \in Bodies,
             upload_part(c, u, n, b)
      PROVE  ChargeInv'
  <2>1. PICK y : y = [NoCall EXCEPT !.phase = "put", !.on = u, !.number = n, !.body = b]
    OBVIOUS
  <2>2. y.phase = "put"
    BY <2>1 DEF NoCall
  <2>3. call' = [call EXCEPT ![c] = y] /\ charged' = charged /\ target' = target
    BY <1>6, <2>1 DEF upload_part, rowsKept
  <2> QED BY <1>3, <2>2, <2>3, FairOtherwise
<1>7. ASSUME NEW c \in Callers, NEW u \in Uploads, NEW listed,
             complete_multipart_upload(c, u, listed)
      PROVE  ChargeInv'
  <2>1. PICK want, todo, new, doomed :
            call' = [call EXCEPT ![c] = [NoCall EXCEPT !.phase = "claim", !.on = u, !.want = want,
                         !.todo = todo, !.new = new, !.doomed = doomed]]
    BY <1>7 DEF complete_multipart_upload
  <2>2. PICK y : y = [NoCall EXCEPT !.phase = "claim", !.on = u, !.want = want,
                         !.todo = todo, !.new = new, !.doomed = doomed]
    OBVIOUS
  <2>3. y.phase = "claim"
    BY <2>2 DEF NoCall
  <2>4. charged' = charged /\ target' = target
    BY <1>7 DEF complete_multipart_upload, rowsKept
  <2> QED BY <1>3, <2>1, <2>2, <2>3, <2>4, FairOtherwise
<1>8. ASSUME NEW c \in Callers, NEW u \in Uploads, Discards(c, u) PROVE ChargeInv'
  <2>1. PICK P : P = RowsOf(u)
    OBVIOUS
  <2>2. PICK y : y = [NoCall EXCEPT !.phase = "discard", !.on = u, !.doomed = P]
    OBVIOUS
  <2>3. y.want = <<>>
    BY <2>2 DEF NoCall
  <2>4. call' = [call EXCEPT ![c] = y] /\ charged' = charged /\ target' = target
    BY <1>8, <2>1, <2>2 DEF Discards, rowsKept
  <2>5. FairTotal(y)
    BY <2>3 DEF FairTotal
  <2> QED BY <1>3, <2>4, <2>5
<1>9. ASSUME NEW c \in Callers, part_put(c) PROVE ChargeInv'
  <2>1. PICK y : y = [call[c] EXCEPT !.phase = "record"]
    OBVIOUS
  <2>2. y.phase = "record"
    BY <1>2, <2>1 DEF CallFields
  <2>3. call' = [call EXCEPT ![c] = y] /\ charged' = charged /\ target' = target
    BY <1>9, <2>1 DEF part_put, rowsKept
  <2> QED BY <1>3, <2>2, <2>3, FairOtherwise
<1>10. ASSUME NEW c \in Callers, _new_file(c) PROVE ChargeInv'
  <2>1. PICK y : y = [call[c] EXCEPT !.phase = "stream"]
    OBVIOUS
  <2>2. y.phase = "stream"
    BY <1>2, <2>1 DEF CallFields
  <2>3. call' = [call EXCEPT ![c] = y] \/ call' = [call EXCEPT ![c] = NoCall]
    BY <1>10, <2>1 DEF _new_file
  <2>4. charged' = charged /\ target' = target
    BY <1>10 DEF _new_file, rowsKept
  <2> QED BY <1>3, <1>5, <2>2, <2>3, <2>4, FairOtherwise
<1>11. ASSUME NEW c \in Callers, _assembled_stream(c) PROVE ChargeInv'
  <2>1. PICK todo, got : \/ call' = [call EXCEPT ![c].todo = todo, ![c].got = got]
                         \/ call' = [call EXCEPT ![c] = NoCall]
    BY <1>11 DEF _assembled_stream
  <2>2. PICK y : y = [call[c] EXCEPT !.todo = todo, !.got = got]
    OBVIOUS
  <2>3. y.phase = "stream"
    BY <1>2, <1>11, <2>2 DEF CallFields, _assembled_stream
  <2>4. call' = [call EXCEPT ![c] = y] \/ call' = [call EXCEPT ![c] = NoCall]
    BY <2>1, <2>2
  <2>5. charged' = charged /\ target' = target
    BY <1>11 DEF _assembled_stream, rowsKept
  <2> QED BY <1>3, <1>5, <2>3, <2>4, <2>5, FairOtherwise
<1>12. ASSUME NEW c \in Callers, add_part(c) \/ fails(c) PROVE ChargeInv'
  <2>1. call' = [call EXCEPT ![c] = NoCall] /\ charged' = charged /\ target' = target
    BY <1>12 DEF add_part, fails, Fails, rowsKept
  <2> QED BY <1>5, <2>1
<1>13. ASSUME NEW c \in Callers, NEW u \in Uploads, create_multipart_upload(c, u) PROVE ChargeInv'
  BY <1>4, <1>13 DEF create_multipart_upload
<1>14. CASE hour_passes \/ UNCHANGED mpVars
  BY <1>4, <1>14 DEF hour_passes, mpVars
<1>15. ASSUME NEW c \in Callers, NEW u \in Uploads, abort_multipart_upload(c, u) PROVE ChargeInv'
  BY <1>8, <1>15 DEF abort_multipart_upload
<1>16. ASSUME NEW u \in Uploads, _reap_abandoned_multipart(u) PROVE ChargeInv'
  BY <1>8, <1>16, MultipartAssumption DEF _reap_abandoned_multipart
<1> QED BY <1>6, <1>7, <1>9, <1>10, <1>11, <1>12, <1>13, <1>14, <1>15, <1>16, TotalComputed,
           TotalKept, TotalCharged DEF MpNext

(* Sending parts costs nothing and a completion at most its bytes, once,   *)
(* however completions of one owner overlap: totals computed from the same *)
(* charge may undercount, and never run ahead of the versions.             *)
THEOREM NeverChargedAhead ==
    ASSUME IsFiniteSet(Uploads)
    PROVE  MpSpec => []ChargeNeverAhead
<1>1. MpInit => ChargeInv
  <2> SUFFICES ASSUME MpInit PROVE ChargeInv
    OBVIOUS
  <2>1. target \in [Uploads -> Seq(Assembled)]
    BY InitMp DEF MpInv, MpTypeOK
  <2>2. AllStored \in Nat
    BY <2>1, StoredNat
  <2>3. charged = 0 /\ \A c \in Callers : call[c] = NoCall
    BY DEF MpInit
  <2> QED BY <2>2, <2>3, NoCallFair DEF ChargeInv
<1>2. MpInv /\ ChargeInv /\ [MpNext]_mpVars => ChargeInv'
  BY ChargesKept
<1>3. ChargeInv => ChargeNeverAhead
  BY DEF ChargeInv, ChargeNeverAhead, AllStored, StoredBy
<1> QED BY <1>1, <1>2, <1>3, MultipartInvariant, PTL DEF MpSpec

-----------------------------------------------------------------------------
(* Labels.  Requests are records of these fields.                          *)
EditFields == {"phase", "op", "n", "add", "drop", "seen", "merged"}

TagOps == {"replace_tags", "patch_tags"}

PairOps == {"replace_metadata", "patch_metadata"}

(* What a request would leave if it were applied now.                      *)
TagsAfter(x) ==
    IF x.op = "patch_tags" THEN merge_tags(tags_for(x.n), x.add, x.drop) ELSE x.add

PairsAfter(x) ==
    IF x.op = "patch_metadata" THEN merge_metadata(pairs[x.n], x.add, x.drop) ELSE x.add

(* From the lock on a request that writes labels has the node to itself,   *)
(* so what it decided stays what its statements come to.                   *)
EditOK(e, x) ==
    /\ DOMAIN x = EditFields
    /\ x.phase # "idle" => x.n \in Labelled /\ x.op \in TagOps \cup PairOps \cup {"rename"}
    /\ x.phase # "idle" /\ x.op \in TagOps => x.add \subseteq Tags
    /\ x.phase # "idle" /\ x.op \in PairOps => x.add \subseteq MetaKeys \X Values
    /\ x.phase # "idle" /\ x.op = "patch_metadata" => Named(x.add) \cap x.drop = {}
    /\ x.phase \in {"locked", "decided"} /\ x.op \in TagOps \cup PairOps => latch[x.n] = e
    /\ x.phase = "decided" /\ x.op \in TagOps =>
            x.merged = TagsAfter(x) /\ Cardinality(x.merged) <= MaxTags
    /\ x.phase = "decided" /\ x.op \in PairOps =>
            x.merged = PairsAfter(x) /\ Cardinality(x.merged) <= MaxPairs

LabelTypeOK ==
    /\ tagRows \in [Labelled -> [Tags -> Nat]]
    /\ pairs \in [Labelled -> SUBSET (MetaKeys \X Values)]
    /\ DOMAIN latch = Labelled
    /\ DOMAIN edit = Editors
    /\ DOMAIN told = Labelled

LabelInv ==
    /\ LabelTypeOK
    /\ \A e \in Editors : EditOK(e, edit[e])
    /\ AnswersHold

(* A request that is over is fine.                                         *)
LEMMA NoEditOK ==
    /\ DOMAIN NoEdit = EditFields /\ NoEdit.phase = "idle"
    /\ \A e : EditOK(e, NoEdit)
<1>1. DOMAIN NoEdit = EditFields /\ NoEdit.phase = "idle"
  BY DEF NoEdit, EditFields
<1> QED BY <1>1 DEF EditOK

(* The rows for a collection carry that collection.                        *)
LEMMA ReplacedTags ==
    ASSUME NEW S \in SUBSET Tags
    PROVE  RowsFor(S) \in [Tags -> Nat] /\ {t \in Tags : RowsFor(S)[t] > 0} = S
BY DEF RowsFor

(* The two statements of a patch of tags come to the merge ...             *)
LEMMA PatchedTags ==
    ASSUME NEW rows \in [Tags -> Nat], NEW add \in SUBSET Tags, NEW drop
    PROVE  /\ remove_tags(add_tags(rows, add), drop) \in [Tags -> Nat]
           /\ {t \in Tags : remove_tags(add_tags(rows, add), drop)[t] > 0}
                = merge_tags({t \in Tags : rows[t] > 0}, add, drop)
BY DEF remove_tags, add_tags, merge_tags

(* ... and those of a patch of metadata to theirs, since no key is both    *)
(* set and removed.                                                        *)
LEMMA PatchedPairs ==
    ASSUME NEW P, NEW add, NEW drop, Named(add) \cap drop = {}
    PROVE  remove_metadata_keys(set_metadata(P, add), drop) = merge_metadata(P, add, drop)
<1>1. \A p \in add : p[1] \in Named(add)
  BY DEF Named
<1> QED BY <1>1 DEF remove_metadata_keys, set_metadata, merge_metadata

(* At the start every node carries a valid collection, and that was told.  *)
LEMMA InitLabels == LabelInit => LabelInv
<1> SUFFICES ASSUME LabelInit PROVE LabelInv
  OBVIOUS
<1>1. PICK S \in [Labelled -> validate_tags] : tagRows = [n \in Labelled |-> RowsFor(S[n])]
  BY DEF LabelInit
<1>2. \A n \in Labelled : S[n] \in SUBSET Tags /\ Cardinality(S[n]) <= MaxTags
  BY DEF validate_tags
<1>3. \A n \in Labelled : tagRows[n] \in [Tags -> Nat] /\ tags_for(n) = S[n]
  BY <1>1, <1>2, ReplacedTags DEF tags_for
<1>4. /\ pairs \in [Labelled -> validate_metadata]
      /\ told = [n \in Labelled |-> [tags |-> tags_for(n), pairs |-> pairs[n]]]
      /\ edit = [e \in Editors |-> NoEdit] /\ latch = [n \in Labelled |-> Unheld]
  BY DEF LabelInit
<1>5. \A n \in Labelled : pairs[n] \in SUBSET (MetaKeys \X Values) /\ Cardinality(pairs[n]) <= MaxPairs
  BY <1>4 DEF validate_metadata
<1>6. LabelTypeOK
  BY <1>1, <1>3, <1>4, <1>5 DEF LabelTypeOK
<1>7. \A e \in Editors : EditOK(e, edit[e])
  BY <1>4, NoEditOK
<1>8. AnswersHold
  BY <1>2, <1>3, <1>4, <1>5 DEF AnswersHold
<1> QED BY <1>6, <1>7, <1>8 DEF LabelInv

(* A step of one request that writes no label and keeps what others hold.  *)
LEMMA OwnEdit ==
    ASSUME LabelInv, NEW e \in Editors, NEW y, EditOK(e, y)',
           edit' = [edit EXCEPT ![e] = y], DOMAIN latch' = Labelled,
           \A d \in Editors \ {e}, n \in Labelled : latch[n] = d => latch'[n] = d,
           UNCHANGED <<tagRows, pairs, told>>
    PROVE  LabelInv'
<1>1. LabelTypeOK'
  BY DEF LabelInv, LabelTypeOK
<1>2. \A n : tags_for(n)' = tags_for(n)
  BY DEF tags_for
<1>3. AnswersHold'
  BY <1>2 DEF LabelInv, AnswersHold
<1>4. ASSUME NEW d \in Editors PROVE EditOK(d, edit[d])'
  <2>1. PICK x : x = edit'[d]
    OBVIOUS
  <2>2. CASE d = e
    <3>1. x = y
      BY <2>1, <2>2 DEF LabelInv, LabelTypeOK
    <3> QED BY <2>1, <2>2, <3>1
  <2>3. CASE d # e
    <3>1. x = edit[d]
      BY <2>1, <2>3 DEF LabelInv, LabelTypeOK
    <3>2. EditOK(d, x)
      BY <3>1 DEF LabelInv
    <3>3. TagsAfter(x)' = TagsAfter(x) /\ PairsAfter(x)' = PairsAfter(x)
      BY <1>2 DEF TagsAfter, PairsAfter
    <3>4. EditOK(d, x)'
      BY <2>3, <3>2, <3>3 DEF EditOK
    <3> QED BY <2>1, <3>4
  <2> QED BY <2>2, <2>3
<1> QED BY <1>1, <1>3, <1>4 DEF LabelInv

(* A request begins.                                                       *)
LEMMA AsksStep ==
    ASSUME LabelInv, NEW e \in Editors, NEW n \in Labelled, NEW op, NEW add, NEW drop,
           Asks(e, n, op, add, drop),
           \/ op \in TagOps /\ add \subseteq Tags
           \/ /\ op \in PairOps /\ add \subseteq MetaKeys \X Values
              /\ op = "patch_metadata" => Named(add) \cap drop = {}
           \/ op = "rename"
    PROVE  LabelInv'
<1>1. PICK ph : ph = IF op = "rename" THEN "locked" ELSE "asked"
  OBVIOUS
<1> DEFINE y == [NoEdit EXCEPT !.op = op, !.n = n, !.add = add, !.drop = drop, !.phase = ph]
<1>2. edit' = [edit EXCEPT ![e] = y] /\ UNCHANGED <<tagRows, pairs, told, latch>>
  BY <1>1 DEF Asks, labels
<1>3. DOMAIN y = EditFields /\ y.op = op /\ y.n = n /\ y.add = add /\ y.drop = drop /\ y.phase = ph
  BY DEF NoEdit, EditFields
<1> HIDE DEF y
<1>4. EditOK(e, y)'
  BY <1>1, <1>3 DEF EditOK, TagOps, PairOps
<1> QED BY <1>2, <1>4, OwnEdit DEF LabelInv, LabelTypeOK

(* The end of a request.                                                   *)
LEMMA LetsGoStep ==
    ASSUME LabelInv, NEW e \in Editors, LetsGo(e), UNCHANGED <<tagRows, pairs, told>>
    PROVE  LabelInv'
<1>1. EditOK(e, NoEdit)'
  BY NoEditOK DEF EditOK
<1>2. /\ edit' = [edit EXCEPT ![e] = NoEdit]
      /\ latch' = [n \in Labelled |-> IF latch[n] = e THEN Unheld ELSE latch[n]]
  BY DEF LetsGo
<1>3. DOMAIN latch' = Labelled /\ \A d \in Editors \ {e}, n \in Labelled : latch[n] = d => latch'[n] = d
  BY <1>2
<1> QED BY <1>1, <1>2, <1>3, OwnEdit

(* The advisory lock.                                                      *)
LEMMA LockStep ==
    ASSUME LabelInv, NEW e \in Editors, lock_subtree(e)
    PROVE  LabelInv'
<1>1. PICK x : x = edit[e]
  OBVIOUS
<1>2. EditOK(e, x) /\ x.phase = "asked" /\ x.n \in Labelled /\ latch[x.n] = Unheld
  BY <1>1 DEF LabelInv, lock_subtree, EditOK
<1> DEFINE y == [x EXCEPT !.phase = "locked"]
<1>3. /\ edit' = [edit EXCEPT ![e] = y] /\ latch' = [latch EXCEPT ![x.n] = e]
      /\ UNCHANGED <<tagRows, pairs, told>>
  BY <1>1 DEF lock_subtree, labels
<1>4. /\ DOMAIN y = EditFields /\ y.phase = "locked" /\ y.op = x.op /\ y.n = x.n
      /\ y.add = x.add /\ y.drop = x.drop
  BY <1>2 DEF EditOK, EditFields
<1> HIDE DEF y
<1>5. DOMAIN latch' = Labelled /\ latch'[x.n] = e
  BY <1>2, <1>3 DEF LabelInv, LabelTypeOK
<1>6. \A d \in Editors \ {e}, n \in Labelled : latch[n] = d => latch'[n] = d
  BY <1>2, <1>3, LabelsAssumption DEF LabelInv, LabelTypeOK
<1>7. EditOK(e, y)'
  BY <1>2, <1>4, <1>5 DEF EditOK
<1> QED BY <1>3, <1>5, <1>6, <1>7, OwnEdit

(* The decision, on what is committed.                                     *)
LEMMA DecideStep ==
    ASSUME LabelInv, NEW e \in Editors, decide(e)
    PROVE  LabelInv'
<1>1. PICK x : x = edit[e]
  OBVIOUS
<1>2. EditOK(e, x) /\ x.phase = "locked" /\ UNCHANGED <<tagRows, pairs, told>>
  BY <1>1 DEF LabelInv, decide, labels
<1>3. CASE LetsGo(e)
  BY <1>2, <1>3, LetsGoStep
<1>4. CASE /\ edit' = [edit EXCEPT ![e].phase = "decided", ![e].merged = Merged(e),
                                   ![e].seen = revision[edit[e].n]]
           /\ UNCHANGED latch
  <2>1. PICK m, r : m = Merged(e) /\ r = revision[edit[e].n]
    OBVIOUS
  <2> DEFINE y == [x EXCEPT !.phase = "decided", !.merged = m, !.seen = r]
  <2>2. edit' = [edit EXCEPT ![e] = y]
    BY <1>1, <1>4, <2>1
  <2>3. /\ DOMAIN y = EditFields /\ y.phase = "decided" /\ y.op = x.op /\ y.n = x.n
        /\ y.add = x.add /\ y.drop = x.drop /\ y.merged = m
    BY <1>2 DEF EditOK, EditFields
  <2> HIDE DEF y
  <2>4. /\ x.op \in TagOps => m = TagsAfter(y)
        /\ x.op \in PairOps => m = PairsAfter(y)
    BY <1>1, <2>1, <2>3 DEF Merged, TagsAfter, PairsAfter, TagOps, PairOps
  <2>5. /\ x.op \in TagOps => Cardinality(m) <= MaxTags
        /\ x.op \in PairOps => Cardinality(m) <= MaxPairs
    BY <1>1, <2>1 DEF decide, Fits, TagOps, PairOps
  <2>6. TagsAfter(y)' = TagsAfter(y) /\ PairsAfter(y)' = PairsAfter(y)
    BY <1>2 DEF TagsAfter, PairsAfter, tags_for
  <2>7. EditOK(e, y)'
    BY <1>2, <1>4, <2>3, <2>4, <2>5, <2>6 DEF EditOK
  <2> QED BY <1>2, <1>4, <2>2, <2>7, OwnEdit DEF LabelInv, LabelTypeOK
<1> QED BY <1>3, <1>4 DEF decide

(* The statements: what they leave is what was decided and answered.       *)
LEMMA ApplyStep ==
    ASSUME LabelInv, NEW e \in Editors, _apply_label_change(e)
    PROVE  LabelInv'
<1>1. PICK x : x = edit[e]
  OBVIOUS
<1>2. EditOK(e, x) /\ x.phase = "decided"
  BY <1>1 DEF LabelInv, _apply_label_change
<1>3. PICK n \in Labelled : n = x.n
  BY <1>2 DEF EditOK
<1>4. PICK rows \in [Tags -> Nat] : rows = tagRows[n]
  BY DEF LabelInv, LabelTypeOK
<1>5. PICK P \in SUBSET (MetaKeys \X Values) : P = pairs[n]
  BY DEF LabelInv, LabelTypeOK
<1>6. PICK T : T = tags_for(n)
  OBVIOUS
<1>7. PICK rows2 : rows2 = CASE x.op = "replace_tags" -> RowsFor(x.add)
                             [] x.op = "patch_tags"   -> remove_tags(add_tags(rows, x.add), x.drop)
                             [] OTHER                 -> rows
  OBVIOUS
<1>8. PICK P2 : P2 = CASE x.op = "replace_metadata" -> x.add
                       [] x.op = "patch_metadata"   ->
                              remove_metadata_keys(set_metadata(P, x.add), x.drop)
                       [] OTHER                     -> P
  OBVIOUS
<1>9. tagRows' = [tagRows EXCEPT ![n] = rows2] /\ pairs' = [pairs EXCEPT ![n] = P2]
  BY <1>1, <1>3, <1>4, <1>5, <1>7, <1>8 DEF _apply_label_change
<1>10. PICK T2 : T2 = {t \in Tags : rows2[t] > 0}
  OBVIOUS
<1>11. /\ rows2 \in [Tags -> Nat] /\ Cardinality(T2) <= MaxTags
       /\ T2 = IF x.op \in TagOps THEN x.merged ELSE T
  <2>1. CASE x.op = "replace_tags"
    <3>1. rows2 = RowsFor(x.add) /\ x.add \in SUBSET Tags
      BY <1>2, <1>7, <2>1 DEF EditOK, TagOps
    <3>2. x.merged = x.add /\ Cardinality(x.merged) <= MaxTags
      BY <1>2, <2>1 DEF EditOK, TagsAfter, TagOps
    <3>3. RowsFor(x.add) \in [Tags -> Nat] /\ {t \in Tags : RowsFor(x.add)[t] > 0} = x.add
      BY <3>1, ReplacedTags
    <3>4. x.op \in TagOps
      BY <2>1 DEF TagOps
    <3> QED BY <1>10, <3>1, <3>2, <3>3, <3>4
  <2>2. CASE x.op = "patch_tags"
    <3>1. rows2 = remove_tags(add_tags(rows, x.add), x.drop) /\ x.add \in SUBSET Tags
      BY <1>2, <1>7, <2>2 DEF EditOK, TagOps
    <3>2. x.merged = merge_tags(tags_for(n), x.add, x.drop) /\ Cardinality(x.merged) <= MaxTags
      BY <1>2, <1>3, <2>2 DEF EditOK, TagsAfter, TagOps
    <3>3. /\ remove_tags(add_tags(rows, x.add), x.drop) \in [Tags -> Nat]
          /\ {t \in Tags : remove_tags(add_tags(rows, x.add), x.drop)[t] > 0}
               = merge_tags({t \in Tags : rows[t] > 0}, x.add, x.drop)
      BY <3>1, PatchedTags
    <3>4. tags_for(n) = {t \in Tags : rows[t] > 0}
      BY <1>4 DEF tags_for
    <3>5. x.op \in TagOps
      BY <2>2 DEF TagOps
    <3> QED BY <1>10, <3>1, <3>2, <3>3, <3>4, <3>5
  <2>3. CASE x.op \notin TagOps
    <3>1. rows2 = rows
      BY <1>7, <2>3 DEF TagOps
    <3>2. T2 = T
      BY <1>4, <1>6, <1>10, <3>1 DEF tags_for
    <3>3. Cardinality(T) <= MaxTags
      BY <1>6 DEF LabelInv, AnswersHold
    <3> QED BY <2>3, <3>1, <3>2, <3>3
  <2> QED BY <2>1, <2>2, <2>3 DEF TagOps
<1>12. /\ P2 \in SUBSET (MetaKeys \X Values) /\ Cardinality(P2) <= MaxPairs
       /\ P2 = IF x.op \in PairOps THEN x.merged ELSE P
  <2>1. CASE x.op = "replace_metadata"
    BY <1>2, <1>8, <2>1 DEF EditOK, PairsAfter, PairOps
  <2>2. CASE x.op = "patch_metadata"
    <3>1. /\ P2 = remove_metadata_keys(set_metadata(P, x.add), x.drop)
          /\ x.add \subseteq MetaKeys \X Values /\ Named(x.add) \cap x.drop = {}
      BY <1>2, <1>8, <2>2 DEF EditOK, PairOps
    <3>2. x.merged = merge_metadata(P, x.add, x.drop) /\ Cardinality(x.merged) <= MaxPairs
      BY <1>2, <1>3, <1>5, <2>2 DEF EditOK, PairsAfter, PairOps
    <3>3. remove_metadata_keys(set_metadata(P, x.add), x.drop) = merge_metadata(P, x.add, x.drop)
      BY <3>1, PatchedPairs
    <3>4. merge_metadata(P, x.add, x.drop) \subseteq MetaKeys \X Values
      BY <3>1 DEF merge_metadata
    <3>5. x.op \in PairOps
      BY <2>2 DEF PairOps
    <3> QED BY <3>1, <3>2, <3>3, <3>4, <3>5
  <2>3. CASE x.op \notin PairOps
    <3>1. P2 = P
      BY <1>8, <2>3 DEF PairOps
    <3>2. Cardinality(P) <= MaxPairs
      BY <1>5 DEF LabelInv, AnswersHold
    <3> QED BY <2>3, <3>1, <3>2
  <2> QED BY <2>1, <2>2, <2>3 DEF PairOps
<1>13. told[n] = [tags |-> T, pairs |-> P] /\ DOMAIN told = Labelled
  BY <1>5, <1>6 DEF LabelInv, LabelTypeOK, AnswersHold
<1>14. told' = [told EXCEPT ![n].tags = IF x.op \in TagOps THEN x.merged ELSE @,
                            ![n].pairs = IF x.op \in PairOps THEN x.merged ELSE @]
  BY <1>1, <1>3 DEF _apply_label_change, TagOps, PairOps
<1>15. /\ told'[n] = [tags |-> T2, pairs |-> P2] /\ DOMAIN told' = Labelled
       /\ \A m \in Labelled \ {n} : told'[m] = told[m]
  <2>1. PICK r : r = told[n]
    OBVIOUS
  <2>2. PICK a, b : /\ a = IF x.op \in TagOps THEN x.merged ELSE r.tags
                    /\ b = IF x.op \in PairOps THEN x.merged ELSE r.pairs
    OBVIOUS
  <2>3. r = [tags |-> T, pairs |-> P]
    BY <1>13, <2>1
  <2>4. a = T2 /\ b = P2
    BY <1>11, <1>12, <2>2, <2>3
  <2>5. told' = [told EXCEPT ![n] = [[r EXCEPT !.tags = a] EXCEPT !.pairs = b]]
    BY <1>13, <1>14, <2>1, <2>2, <2>3
  <2>6. [[r EXCEPT !.tags = a] EXCEPT !.pairs = b] = [tags |-> a, pairs |-> b]
    <3>1. PICK s : s = [tags |-> a, pairs |-> P]
      OBVIOUS
    <3>2. [r EXCEPT !.tags = a] = s
      BY <2>3, <3>1
    <3>3. [s EXCEPT !.pairs = b] = [tags |-> a, pairs |-> b]
      BY <3>1
    <3> QED BY <3>2, <3>3
  <2> QED BY <1>13, <2>4, <2>5, <2>6
<1>16. /\ tagRows' \in [Labelled -> [Tags -> Nat]] /\ tagRows'[n] = rows2
       /\ \A m \in Labelled \ {n} : tagRows'[m] = tagRows[m]
  BY <1>9, <1>11 DEF LabelInv, LabelTypeOK
<1>17. /\ pairs' \in [Labelled -> SUBSET (MetaKeys \X Values)] /\ pairs'[n] = P2
       /\ \A m \in Labelled \ {n} : pairs'[m] = pairs[m]
  BY <1>9, <1>12 DEF LabelInv, LabelTypeOK
<1>18. tags_for(n)' = T2 /\ \A m \in Labelled \ {n} : tags_for(m)' = tags_for(m)
  BY <1>10, <1>16 DEF tags_for
<1>19. AnswersHold'
  BY <1>11, <1>12, <1>15, <1>17, <1>18 DEF LabelInv, AnswersHold
<1>20. /\ edit' = [edit EXCEPT ![e] = NoEdit]
       /\ latch' = [m \in Labelled |-> IF latch[m] = e THEN Unheld ELSE latch[m]]
  BY DEF _apply_label_change, LetsGo
<1>21. LabelTypeOK'
  BY <1>15, <1>16, <1>17, <1>20 DEF LabelInv, LabelTypeOK
<1>22. ASSUME NEW d \in Editors PROVE EditOK(d, edit[d])'
  <2>1. PICK z : z = edit'[d]
    OBVIOUS
  <2>2. CASE d = e
    <3>1. z = NoEdit
      BY <1>20, <2>1, <2>2 DEF LabelInv, LabelTypeOK
    <3>2. EditOK(d, NoEdit)'
      BY NoEditOK DEF EditOK
    <3> QED BY <2>1, <3>1, <3>2
  <2>3. CASE d # e
    <3>1. z = edit[d]
      BY <1>20, <2>1, <2>3 DEF LabelInv, LabelTypeOK
    <3>2. EditOK(d, z)
      BY <3>1 DEF LabelInv
    <3>3. z.phase # "idle" => z.n \in Labelled
      BY <3>2 DEF EditOK
    <3>4. latch[z.n] = d /\ z.n \in Labelled => latch'[z.n] = d
      BY <1>20, <2>3
    <3>5. CASE z.phase = "decided" /\ z.op \in TagOps \cup PairOps
      <4>1. z.n \in Labelled /\ latch[z.n] = d
        BY <3>2, <3>5 DEF EditOK
      <4>2. CASE z.n # n
        <5>1. TagsAfter(z)' = TagsAfter(z) /\ PairsAfter(z)' = PairsAfter(z)
          BY <1>17, <1>18, <4>1, <4>2 DEF TagsAfter, PairsAfter
        <5> QED BY <2>1, <3>2, <3>4, <4>1, <5>1 DEF EditOK
      <4>3. CASE z.n = n
        <5>1. x.op = "rename"
          BY <1>2, <1>3, <2>3, <4>1, <4>3 DEF EditOK
        <5>2. T2 = T /\ P2 = P
          BY <1>11, <1>12, <5>1 DEF TagOps, PairOps
        <5>3. tags_for(n)' = tags_for(n) /\ pairs'[n] = pairs[n]
          BY <1>5, <1>6, <1>17, <1>18, <5>2
        <5>4. TagsAfter(z)' = TagsAfter(z) /\ PairsAfter(z)' = PairsAfter(z)
          BY <4>3, <5>3 DEF TagsAfter, PairsAfter
        <5> QED BY <2>1, <3>2, <3>4, <4>1, <5>4 DEF EditOK
      <4> QED BY <4>2, <4>3
    <3>6. CASE ~(z.phase = "decided" /\ z.op \in TagOps \cup PairOps)
      BY <2>1, <3>2, <3>3, <3>4, <3>6 DEF EditOK
    <3> QED BY <3>5, <3>6
  <2> QED BY <2>2, <2>3
<1> QED BY <1>19, <1>21, <1>22 DEF LabelInv

(* Every step keeps the invariant.                                         *)
LEMMA LabelStep == LabelInv /\ [LabelNext]_labelVars => LabelInv'
<1> SUFFICES ASSUME LabelInv, [LabelNext]_labelVars PROVE LabelInv'
  OBVIOUS
<1>1. ASSUME UNCHANGED <<tagRows, pairs, told, latch, edit>> PROVE LabelInv'
  <2>1. \A n : tags_for(n)' = tags_for(n)
    BY <1>1 DEF tags_for
  <2>2. \A x : TagsAfter(x)' = TagsAfter(x) /\ PairsAfter(x)' = PairsAfter(x)
    BY <1>1, <2>1 DEF TagsAfter, PairsAfter
  <2>3. \A e, x : EditOK(e, x)' <=> EditOK(e, x)
    BY <1>1, <2>2 DEF EditOK
  <2>4. \A e \in Editors : EditOK(e, edit[e])'
    BY <1>1, <2>3 DEF LabelInv
  <2> QED BY <1>1, <2>1, <2>4 DEF LabelInv, LabelTypeOK, AnswersHold
<1>2. CASE UNCHANGED labelVars
  BY <1>1, <1>2 DEF labelVars
<1>3. ASSUME NEW n \in Labelled, label_trashed(n) PROVE LabelInv'
  BY <1>1, <1>3 DEF label_trashed
<1>4. ASSUME NEW e \in Editors, NEW n \in Labelled, label_router(e, n) \/ label_rename(e, n)
      PROVE  LabelInv'
  <2>1. ASSUME NEW S \in validate_tags, replace_tags(e, n, S) PROVE LabelInv'
    BY <2>1, AsksStep DEF replace_tags, validate_tags, TagOps
  <2>2. ASSUME NEW P \in validate_metadata, replace_metadata(e, n, P) PROVE LabelInv'
    BY <2>2, AsksStep DEF replace_metadata, validate_metadata, PairOps
  <2>3. ASSUME NEW S \in validate_tags, NEW drop \in SUBSET Tags, patch_tags(e, n, S, drop)
        PROVE  LabelInv'
    BY <2>3, AsksStep DEF patch_tags, validate_tags, TagOps
  <2>4. ASSUME NEW P \in validate_metadata, NEW drop \in SUBSET MetaKeys,
               patch_metadata(e, n, P, drop)
        PROVE  LabelInv'
    BY <2>4, AsksStep DEF patch_metadata, validate_metadata, PairOps
  <2>5. CASE label_rename(e, n)
    BY <2>5, AsksStep DEF label_rename
  <2> QED BY <1>4, <2>1, <2>2, <2>3, <2>4, <2>5 DEF label_router
<1>5. ASSUME NEW e \in Editors, refused(e) PROVE LabelInv'
  BY <1>5, LetsGoStep DEF refused, labels
<1> QED
  BY <1>2, <1>3, <1>4, <1>5, LockStep, DecideStep, ApplyStep DEF LabelNext

(* In every reachable state the lock keeps what was decided true.          *)
THEOREM LabelInvariant == LabelSpec => []LabelInv
BY InitLabels, LabelStep, PTL DEF LabelSpec

(* What a request answered is what the node carries, within the maximum,   *)
(* however requests overlap and fail.                                      *)
THEOREM LabelAnswersHold == LabelSpec => []AnswersHold
<1>1. LabelInv => AnswersHold
  BY DEF LabelInv
<1> QED BY LabelInvariant, <1>1, PTL

(* A tag has at most one row on a node, and a search looks at nodes.       *)
RowsSingle ==
    /\ tagRows \in [Labelled -> [Tags -> {0, 1}]]
    /\ held \subseteq Labelled

(* The statements add a row only where there is none.                      *)
LEMMA SingleStep == RowsSingle /\ [LabelNext]_labelVars => RowsSingle'
<1> SUFFICES ASSUME RowsSingle, [LabelNext]_labelVars PROVE RowsSingle'
  OBVIOUS
<1>1. CASE UNCHANGED <<tagRows, held>>
  BY <1>1 DEF RowsSingle
<1>2. ASSUME NEW e \in Editors, _apply_label_change(e) PROVE RowsSingle'
  <2>1. PICK q : q = edit[e]
    OBVIOUS
  <2>2. PICK y : tagRows' = [tagRows EXCEPT ![q.n] = y]
                 /\ y = CASE q.op = "replace_tags" -> RowsFor(q.add)
                          [] q.op = "patch_tags" -> remove_tags(add_tags(tagRows[q.n], q.add), q.drop)
                          [] OTHER -> tagRows[q.n]
    BY <1>2, <2>1 DEF _apply_label_change
  <2>3. RowsFor(q.add) \in [Tags -> {0, 1}]
    BY DEF RowsFor
  <2>4. q.n \in Labelled => y \in [Tags -> {0, 1}]
    <3> SUFFICES ASSUME q.n \in Labelled PROVE y \in [Tags -> {0, 1}]
      OBVIOUS
    <3>1. PICK r \in [Tags -> {0, 1}] : r = tagRows[q.n]
      BY DEF RowsSingle
    <3>2. remove_tags(add_tags(r, q.add), q.drop) \in [Tags -> {0, 1}]
      BY DEF remove_tags, add_tags
    <3> QED BY <2>2, <2>3, <3>1, <3>2
  <2>5. held' = held
    BY <1>2 DEF _apply_label_change
  <2> HIDE <2>1
  <2> QED BY <2>2, <2>4, <2>5 DEF RowsSingle
<1>3. ASSUME NEW e \in Editors, NEW n \in Labelled, label_router(e, n) \/ label_rename(e, n)
      PROVE  UNCHANGED <<tagRows, held>>
  BY <1>3 DEF label_router, label_rename, replace_tags, replace_metadata, patch_tags,
              patch_metadata, Asks, labels
<1>4. ASSUME NEW e \in Editors, lock_subtree(e) \/ decide(e) \/ refused(e)
      PROVE  UNCHANGED <<tagRows, held>>
  BY <1>4 DEF lock_subtree, decide, refused, labels
<1>5. ASSUME NEW n \in Labelled, label_trashed(n) PROVE UNCHANGED <<tagRows, held>>
  BY <1>5 DEF label_trashed
<1>6. CASE UNCHANGED labelVars
  BY <1>1, <1>6 DEF labelVars
<1> QED BY <1>1, <1>2, <1>3, <1>4, <1>5, <1>6 DEF LabelNext

(* Where a tag has at most one row on a node, counting its rows is         *)
(* counting the nodes a search for it finds.                               *)
LEMMA CountsAgree ==
    ASSUME IsFiniteSet(Labelled), MaxTags > 0, RowsSingle
    PROVE  InventoryAgrees
<1> SUFFICES ASSUME NEW match \in TagMatch
             PROVE  LET found(t) == search([tags |-> {t}, match |-> match, key |-> Unheld, value |-> Unheld])
                    IN  tag_inventory(Tags) = {<<t, Cardinality(found(t))>> : t \in {t \in Tags : found(t) # {}}}
  BY DEF InventoryAgrees
<1> DEFINE found(t) == search([tags |-> {t}, match |-> match, key |-> Unheld, value |-> Unheld])
           Has(t) == {n \in Searchable : tagRows[n][t] = 1}
<1>0. Searchable \subseteq Labelled /\ IsFiniteSet(Searchable)
  BY FS_Subset DEF RowsSingle, Searchable
<1>1. ASSUME NEW t \in Tags PROVE found(t) = Has(t)
  <2>1. PICK f : f = [tags |-> {t}, match |-> match, key |-> Unheld, value |-> Unheld]
    OBVIOUS
  <2>2. {t} \in validate_tags
    <3>1. Cardinality({t}) = 1
      BY FS_Singleton
    <3> QED BY <3>1, LabelsAssumption DEF validate_tags
  <2>3. f \in SearchFilters
    BY <2>1, <2>2 DEF SearchFilters
  <2>4. f.tags = {t} /\ f.match = match /\ f.key = Unheld
    BY <2>1
  <2>5. \A n \in Searchable : tagRows[n][t] \in {0, 1}
    BY <1>0 DEF RowsSingle
  <2>6. \A n \in Searchable : _tag_conditions(n, {t}, match) <=> tagRows[n][t] > 0
    BY DEF _tag_conditions, TagMatch
  <2>7. search_statement(f) = Has(t)
    BY <2>4, <2>5, <2>6 DEF search_statement
  <2> QED BY <2>1, <2>3, <2>7 DEF search
<1>2. ASSUME NEW t \in Tags
      PROVE  tag_counts(t) = Cardinality(Has(t)) /\ (tag_counts(t) > 0 <=> Has(t) # {})
  <2> DEFINE g == [n \in Searchable |-> tagRows[n][t]]
  <2>1. \A n \in Searchable : g[n] \in {0, 1}
    BY <1>0 DEF RowsSingle
  <2>2. {n \in Searchable : g[n] = 1} = Has(t)
    OBVIOUS
  <2>3. tag_counts(t) = SumFunctionOnSet(g, Searchable)
    BY DEF tag_counts, SumFunction
  <2>4. SumFunctionOnSet(g, Searchable) = Cardinality({n \in Searchable : g[n] = 1})
    <3> HIDE DEF g
    <3> QED BY <1>0, <2>1, SumCounts
  <2>5. IsFiniteSet(Has(t))
    BY <1>0, FS_Subset
  <2>6. Cardinality(Has(t)) \in Nat /\ (Cardinality(Has(t)) = 0 <=> Has(t) = {})
    BY <2>5, FS_CardinalityType, FS_EmptySet
  <2> HIDE DEF g, Has
  <2> QED BY <2>2, <2>3, <2>4, <2>6
<1> HIDE DEF found, Has
<1>3. tag_inventory(Tags) = {<<t, Cardinality(found(t))>> : t \in {t \in Tags : found(t) # {}}}
  BY <1>1, <1>2 DEF tag_inventory
<1> QED BY <1>3 DEF found

(* The tag inventory offers the tags a search finds something for, each    *)
(* with the number of nodes the search returns, however label requests     *)
(* overlapped: rows are counted, and there is never a second one.          *)
THEOREM InventoryMatchesSearch ==
    ASSUME IsFiniteSet(Labelled), MaxTags > 0
    PROVE  LabelSpec => []InventoryAgrees
<1>1. LabelInit => RowsSingle
  <2> SUFFICES ASSUME LabelInit PROVE RowsSingle
    OBVIOUS
  <2>1. PICK S \in [Labelled -> validate_tags] : tagRows = [n \in Labelled |-> RowsFor(S[n])]
    BY DEF LabelInit
  <2>2. \A X : RowsFor(X) \in [Tags -> {0, 1}]
    BY DEF RowsFor
  <2> QED BY <2>1, <2>2 DEF LabelInit, RowsSingle
<1>2. RowsSingle => InventoryAgrees
  BY CountsAgree
<1> QED BY <1>1, <1>2, SingleStep, PTL DEF LabelSpec

-----------------------------------------------------------------------------
(* Pages.  Items are pairs of numbers, and Before orders them.             *)
Pairs == Nat \X Nat

Ascending(s) == \A i, j \in DOMAIN s : i < j => Before(s[i], s[j])

LEMMA BeforeOrders ==
    ASSUME NEW x \in Pairs, NEW y \in Pairs, NEW z \in Pairs
    PROVE  /\ ~ Before(x, x)
           /\ Before(x, y) /\ Before(y, z) => Before(x, z)
           /\ x # y => Before(x, y) \/ Before(y, x)
BY DEF Before, Pairs

(* ORDER BY orders: the place of an item is one more than the number of    *)
(* items before it, and no two items have the same number before them.     *)
LEMMA OrderedBy ==
    ASSUME NEW S \in SUBSET Pairs, IsFiniteSet(S)
    PROVE  /\ order_by(S) \in Seq(S) /\ Ascending(order_by(S))
           /\ \A x \in S : \E i \in 1 .. Len(order_by(S)) : order_by(S)[i] = x
<1>1. PICK n \in Nat : n = Cardinality(S)
  BY FS_CardinalityType
<1> DEFINE Less(x) == {y \in S : Before(y, x)}
           rank == [x \in S |-> Cardinality(Less(x)) + 1]
<1>2. ASSUME NEW x \in S
      PROVE  IsFiniteSet(Less(x)) /\ Cardinality(Less(x)) \in Nat /\ Cardinality(Less(x)) < n
  <2>1. Less(x) \in SUBSET S
    OBVIOUS
  <2>2. IsFiniteSet(Less(x)) /\ Cardinality(Less(x)) <= n /\ (n = Cardinality(Less(x)) => S = Less(x))
    BY <1>1, <2>1, FS_Subset
  <2>3. x \in Pairs
    OBVIOUS
  <2>4. x \notin Less(x)
    BY <2>3, BeforeOrders
  <2>5. Cardinality(Less(x)) \in Nat
    BY <2>2, FS_CardinalityType
  <2> QED BY <2>2, <2>4, <2>5
<1>3. ASSUME NEW x \in S, NEW y \in S, Before(x, y)
      PROVE  Cardinality(Less(x)) < Cardinality(Less(y))
  <2>0. x \in Pairs /\ y \in Pairs
    OBVIOUS
  <2>1. Less(x) \in SUBSET Less(y)
    BY <1>3, <2>0, BeforeOrders
  <2>2. x \in Less(y) /\ x \notin Less(x)
    BY <1>3, <2>0, BeforeOrders
  <2>3. /\ Cardinality(Less(x)) <= Cardinality(Less(y))
        /\ Cardinality(Less(y)) = Cardinality(Less(x)) => Less(y) = Less(x)
    BY <1>2, <2>1, FS_Subset
  <2>4. Cardinality(Less(x)) \in Nat /\ Cardinality(Less(y)) \in Nat
    BY <1>2
  <2> QED BY <2>2, <2>3, <2>4
<1>4. rank \in [S -> 1 .. n]
  BY <1>2
<1>5. ASSUME NEW x \in S, NEW y \in S, Before(x, y) PROVE rank[x] < rank[y]
  <2>1. PICK c, d : c = Cardinality(Less(x)) /\ d = Cardinality(Less(y))
    OBVIOUS
  <2>2. rank[x] = c + 1 /\ rank[y] = d + 1
    BY <2>1
  <2>3. c \in Nat /\ d \in Nat /\ c < d
    BY <1>2, <1>3, <1>5, <2>1
  <2> QED BY <2>2, <2>3
<1> HIDE DEF rank
<1>6. ASSUME NEW x \in S, NEW y \in S, rank[x] = rank[y] PROVE x = y
  <2>1. rank[x] \in 1 .. n /\ rank[y] \in 1 .. n
    BY <1>4
  <2>2. ~ Before(x, y) /\ ~ Before(y, x)
    BY <1>5, <1>6, <2>1
  <2>3. x \in Pairs /\ y \in Pairs
    OBVIOUS
  <2> QED BY <2>2, <2>3, BeforeOrders
<1>7. rank \in Injection(S, 1 .. n)
  BY <1>4, <1>6 DEF Injection, IsInjective
<1>8. IsFiniteSet(1 .. n) /\ Cardinality(1 .. n) = n
  BY FS_Interval
<1>9. rank \in Surjection(S, 1 .. n)
  BY <1>1, <1>7, <1>8, FS_Injection
<1>10. \A i \in 1 .. n : \E x \in S : rank[x] = i
  BY <1>9 DEF Surjection
<1> DEFINE rows == [i \in 1 .. n |-> CHOOSE x \in S : rank[x] = i]
<1>11. rows \in [1 .. n -> S] /\ \A i \in 1 .. n : rank[rows[i]] = i
  BY <1>10
<1> HIDE DEF rows
<1>12. ASSUME NEW i \in 1 .. n, NEW j \in 1 .. n, i < j PROVE Before(rows[i], rows[j])
  <2>1. rows[i] \in S /\ rows[j] \in S /\ rank[rows[i]] = i /\ rank[rows[j]] = j
    BY <1>11
  <2>2. rows[i] # rows[j] /\ ~ Before(rows[j], rows[i])
    BY <1>5, <1>12, <2>1
  <2> QED BY <2>1, <2>2, BeforeOrders
<1> DEFINE Sorts(s) == \A i, j \in DOMAIN s : i < j => Before(s[i], s[j])
<1>13. Sorts(rows)
  BY <1>11, <1>12
<1>14. order_by(S) = CHOOSE s \in [1 .. n -> S] : Sorts(s)
  BY <1>1 DEF order_by
<1>15. PICK s : s = order_by(S)
  OBVIOUS
<1>16. s \in [1 .. n -> S] /\ Sorts(s)
  BY <1>11, <1>13, <1>14, <1>15
<1>17. s \in Seq(S) /\ Len(s) = n /\ DOMAIN s = 1 .. n
  BY <1>16
<1>18. ASSUME NEW i \in 1 .. n, NEW j \in 1 .. n, s[i] = s[j] PROVE i = j
  <2>1. s[i] \in Pairs
    BY <1>16
  <2>2. ~ Before(s[i], s[j]) /\ ~ Before(s[j], s[i])
    BY <1>18, <2>1, BeforeOrders
  <2> QED BY <1>16, <1>17, <2>2
<1>19. s \in Injection(1 .. n, S)
  BY <1>16, <1>17, <1>18 DEF Injection, IsInjective
<1>20. s \in Surjection(1 .. n, S)
  BY <1>1, <1>8, <1>19, FS_Injection
<1>21. \A x \in S : \E i \in 1 .. n : s[i] = x
  BY <1>20 DEF Surjection
<1> QED BY <1>15, <1>16, <1>17, <1>21 DEF Ascending

(* A page is the beginning of the rows, and its cursor names the last of   *)
(* them.                                                                   *)
CutAt(S, rows, limit, p, k) ==
    /\ p = _paginate(rows, limit)
    /\ k = IF limit < Len(rows) THEN limit ELSE Len(rows)
    /\ k \in Nat /\ p.items \in Seq(S) /\ Len(p.items) = k
    /\ \A i \in 1 .. k : p.items[i] = rows[i]
    /\ p.more = (Len(rows) > limit)
    /\ p.cursor = IF Len(rows) > limit /\ limit # 0 THEN rows[limit] ELSE NoCursor

(* Every page is one.                                                      *)
LEMMA PageCut ==
    ASSUME NEW S, NEW rows \in Seq(S), NEW limit \in Nat
    PROVE  \E p, k : CutAt(S, rows, limit, p, k)
<1>0. PICK p, k : /\ p = _paginate(rows, limit)
                  /\ k = IF limit < Len(rows) THEN limit ELSE Len(rows)
  OBVIOUS
<1>1. Len(rows) \in Nat /\ k \in Nat /\ k <= Len(rows)
  BY <1>0
<1>2. PICK v : v = SubSeq(rows, 1, k)
  OBVIOUS
<1>3. v \in Seq(S) /\ Len(v) = k /\ \A i \in 1 .. k : v[i] = rows[i]
  BY <1>1, <1>2
<1>4. /\ p.items = v /\ p.more = (Len(rows) > limit)
      /\ p.cursor = IF Len(rows) > limit /\ v # <<>> THEN Last(v) ELSE NoCursor
  BY <1>0, <1>2 DEF _paginate
<1>5. Len(rows) > limit /\ limit # 0 => v # <<>> /\ Last(v) = rows[limit]
  BY <1>0, <1>1, <1>3 DEF Last
<1>6. limit = 0 => v = <<>>
  BY <1>0, <1>1, <1>3
<1>7. p.cursor = IF Len(rows) > limit /\ limit # 0 THEN rows[limit] ELSE NoCursor
  BY <1>4, <1>5, <1>6
<1>8. CutAt(S, rows, limit, p, k)
  BY <1>0, <1>1, <1>3, <1>4, <1>7 DEF CutAt
<1> QED BY <1>8

WalkFields == {"surface", "filter", "after", "cursor", "out", "over"}

PageTypeOK ==
    /\ place \in [Rows -> Places \cup {NoPlace}]
    /\ steady \subseteq Rows
    /\ DOMAIN walk = WalkFields
    /\ walk.out \in Seq(Pairs) /\ walk.over \in BOOLEAN

(* The rows WalkComplete speaks of, and whether the walk is past an item.  *)
Due(r) ==
    /\ r \in steady \cap Visible(walk.filter)
    /\ walk.after # NoPlace => walk.after < place[r]
    /\ walk.surface = "feed" => r \notin tied

Passed(x) ==
    \/ walk.over
    \/ walk.cursor # NoCursor /\ ~ PastCursor(walk.surface, x, walk.cursor)

Returned(x) == \E i \in 1 .. Len(walk.out) : walk.out[i] = x

(* What was returned is in order, the cursor is its end, and nothing due   *)
(* was passed over.                                                        *)
WalkInv ==
    /\ PageTypeOK
    /\ TiedNow \subseteq tied
    /\ Ascending(walk.out)
    /\ walk.cursor = NoCursor => walk.over \/ walk.out = <<>>
    /\ walk.cursor # NoCursor =>
            walk.out # <<>> /\ walk.cursor = walk.out[Len(walk.out)]
    /\ \A r \in Rows : Due(r) /\ Passed(Item(walk.surface, r)) => Returned(Item(walk.surface, r))

USE PagingAssumption

(* Items of visible rows are pairs, and there are finitely many.           *)
LEMMA ItemsFinite ==
    ASSUME PageTypeOK, NEW surface, NEW filter
    PROVE  /\ IsFiniteSet(Items(surface, filter)) /\ Items(surface, filter) \subseteq Pairs
           /\ \A r \in Visible(filter) : Item(surface, r) \in Pairs /\ place[r] \in Nat
<1>1. \A r \in Visible(filter) : r \in Rows /\ place[r] \in Nat /\ r \in Nat
  BY DEF Visible, PageTypeOK
<1>2. \A r \in Visible(filter) : Item(surface, r) \in Pairs
  BY <1>1 DEF Item, Pairs
<1> DEFINE V == Visible(filter)
           T == Items(surface, filter)
           f == [r \in V |-> Item(surface, r)]
<1>3. V \in SUBSET Rows
  BY DEF Visible
<1>4. IsFiniteSet(V)
  BY <1>3, FS_Subset
<1>5. f \in Surjection(V, T)
  <2>1. T = {Item(surface, r) : r \in V}
    BY DEF Items
  <2> HIDE DEF V, T
  <2>2. f \in [V -> T]
    BY <2>1
  <2>3. \A t \in T : \E r \in V : f[r] = t
    BY <2>1
  <2> QED BY <2>2, <2>3 DEF Surjection
<1>6. IsFiniteSet(T)
  BY <1>4, <1>5, FS_Surjection
<1> QED BY <1>1, <1>2, <1>6 DEF Items

(* Before the first page nothing was returned and nothing passed.          *)
LEMMA InitPages == PageInit => WalkInv
<1> SUFFICES ASSUME PageInit PROVE WalkInv
  OBVIOUS
<1>1. PICK surface, filter, after :
        walk = [surface |-> surface, filter |-> filter, after |-> after,
                cursor |-> NoCursor, out |-> <<>>, over |-> FALSE]
  BY DEF PageInit
<1>2. /\ DOMAIN walk = WalkFields /\ walk.cursor = NoCursor /\ walk.out = <<>>
      /\ walk.over = FALSE
  BY <1>1 DEF WalkFields
<1>3. PageTypeOK
  BY <1>2 DEF PageTypeOK, PageInit
<1>4. Ascending(walk.out)
  BY <1>2 DEF Ascending
<1>5. \A x : ~ Passed(x)
  BY <1>2 DEF Passed
<1>6. TiedNow \subseteq tied
  BY DEF PageInit
<1> QED BY <1>2, <1>3, <1>4, <1>5, <1>6 DEF WalkInv

(* A change of the table leaves what is due, if it stayed, where it was.   *)
LEMMA ChangedStep ==
    ASSUME WalkInv, NEW q \in Rows, NEW to \in Places \cup {NoPlace}, changed(q, to)
    PROVE  WalkInv'
<1>1. /\ place' = [place EXCEPT ![q] = to] /\ steady' = steady \ {q}
      /\ tied' = tied \cup TiedNow' /\ walk' = walk
  BY DEF changed
<1>2. PageTypeOK'
  BY <1>1 DEF WalkInv, PageTypeOK
<1>3. ASSUME NEW r \in Rows, Due(r)'
      PROVE  Due(r) /\ Item(walk.surface, r)' = Item(walk.surface, r)
  <2>1. r # q /\ r \in steady
    BY <1>1, <1>3 DEF Due
  <2>2. place'[r] = place[r]
    BY <1>1, <2>1 DEF WalkInv, PageTypeOK
  <2>3. r \in Visible(walk.filter)
    BY <1>1, <1>3, <2>2 DEF Due, Visible
  <2> QED BY <1>1, <1>3, <2>1, <2>2, <2>3 DEF Due, Item
<1>4. ASSUME NEW r \in Rows, Due(r)', Passed(Item(walk.surface, r))'
      PROVE  Returned(Item(walk.surface, r))'
  <2>1. Due(r) /\ Item(walk.surface, r)' = Item(walk.surface, r)
    BY <1>3, <1>4
  <2>2. Passed(Item(walk.surface, r))
    BY <1>1, <1>4, <2>1 DEF Passed, PastCursor, _feed_rows, _trash_cursor_predicate, Before
  <2>3. Returned(Item(walk.surface, r))
    BY <2>1, <2>2 DEF WalkInv
  <2> QED BY <1>1, <2>1, <2>3 DEF Returned
<1>5. (TiedNow \subseteq tied)'
  BY <1>1
<1> QED BY <1>1, <1>2, <1>4, <1>5 DEF WalkInv, Ascending, Before

(* A page continues in order, and passes only what it returns: an item     *)
(* that is due and not yet passed is among the rows, and either on the     *)
(* page or after its last row.                                             *)
LEMMA PageStep ==
    ASSUME WalkInv, NEW limit \in Limits, NEW filter \in Filters, page(limit, filter)
    PROVE  WalkInv'
<1>1. PICK w : w = walk
  OBVIOUS
<1>2. PICK out \in Seq(Pairs) : out = w.out
  BY <1>1 DEF WalkInv, PageTypeOK
<1>3. /\ DOMAIN w = WalkFields /\ w.over = FALSE /\ Ascending(out) /\ TiedNow \subseteq tied
      /\ w.cursor = NoCursor => out = <<>>
      /\ w.cursor # NoCursor => out # <<>> /\ w.cursor = out[Len(out)] /\ filter = w.filter
      /\ limit \in Nat
  BY <1>1, <1>2 DEF WalkInv, PageTypeOK, page, Accepts
<1>4. UNCHANGED <<place, steady, tied>>
  BY DEF page
<1>5. PICK S : S = {x \in Items(w.surface, filter) : _resume_after(x)}
  OBVIOUS
<1>6. S \in SUBSET Pairs /\ IsFiniteSet(S)
  <2>1. IsFiniteSet(Items(w.surface, filter)) /\ Items(w.surface, filter) \subseteq Pairs
    BY ItemsFinite DEF WalkInv
  <2>2. S \in SUBSET Items(w.surface, filter)
    BY <1>5
  <2> QED BY <2>1, <2>2, FS_Subset
<1>7. PICK rows : rows = Remaining(filter)
  OBVIOUS
<1>8. /\ rows \in Seq(S) /\ Ascending(rows) /\ \A x \in S : \E i \in 1 .. Len(rows) : rows[i] = x
  BY <1>1, <1>5, <1>6, <1>7, OrderedBy DEF Remaining
<1>9. rows \in Seq(S) /\ limit \in Nat
  BY <1>3, <1>8
<1>a. PICK p, k : CutAt(S, rows, limit, p, k)
  BY <1>9, PageCut
<1>10.   /\ p = _paginate(rows, limit)
         /\ k = IF limit < Len(rows) THEN limit ELSE Len(rows)
         /\ k \in Nat /\ p.items \in Seq(S) /\ Len(p.items) = k
         /\ \A i \in 1 .. k : p.items[i] = rows[i]
         /\ p.more = (Len(rows) > limit)
         /\ p.cursor = IF Len(rows) > limit /\ limit # 0 THEN rows[limit] ELSE NoCursor
  BY <1>a DEF CutAt
<1>11. PICK cursor : cursor = IF limit = 0 THEN w.cursor ELSE p.cursor
  OBVIOUS
<1>12. PICK out2 : out2 = out \o p.items
  OBVIOUS
<1>13. PICK over \in BOOLEAN : over = ~ (Len(rows) > limit)
  OBVIOUS
<1>14. PICK v : v = walk'
  OBVIOUS
<1>15. v = [w EXCEPT !.filter = filter, !.out = out2, !.cursor = cursor, !.over = over]
  BY <1>1, <1>2, <1>7, <1>9, <1>10, <1>11, <1>12, <1>13, <1>14 DEF page
<1>16. /\ DOMAIN v = WalkFields /\ v.surface = w.surface /\ v.after = w.after
       /\ v.filter = filter /\ v.out = out2 /\ v.cursor = cursor /\ v.over = over
  BY <1>3, <1>15 DEF WalkFields
<1>17. /\ Len(out) \in Nat /\ Len(rows) \in Nat /\ k <= Len(rows) /\ p.items \in Seq(Pairs)
       /\ out2 \in Seq(Pairs) /\ Len(out2) = Len(out) + k
       /\ \A i \in 1 .. Len(out) : out2[i] = out[i]
       /\ \A i \in 1 .. k : out2[Len(out) + i] = rows[i]
  <2>1. Len(out) \in Nat /\ Len(rows) \in Nat /\ k <= Len(rows)
    BY <1>8, <1>9, <1>10
  <2>2. p.items \in Seq(Pairs)
    BY <1>6, <1>10
  <2>3. /\ out2 \in Seq(Pairs) /\ Len(out2) = Len(out) + k
        /\ \A i \in 1 .. Len(out) : out2[i] = out[i]
        /\ \A i \in 1 .. k : out2[Len(out) + i] = p.items[i]
    <3>1. PICK t \in Seq(Pairs) : t = p.items
      BY <2>2
    <3>2. Len(t) = k /\ out2 = out \o t
      BY <1>10, <1>12, <3>1
    <3>3. out2 \in Seq(Pairs) /\ Len(out2) = Len(out) + Len(t)
      <4>1. out \o t \in Seq(Pairs) /\ Len(out \o t) = Len(out) + Len(t)
        OBVIOUS
      <4> QED BY <3>2, <4>1
    <3>4. /\ \A i \in 1 .. Len(out) : out2[i] = out[i]
          /\ \A i \in 1 .. Len(t) : out2[Len(out) + i] = t[i]
      BY <3>2
    <3> QED BY <3>1, <3>2, <3>3, <3>4
  <2> QED BY <1>10, <2>1, <2>2, <2>3
<1>18. ASSUME NEW x \in S, out # <<>> PROVE Before(out[Len(out)], x)
  <2>1. w.cursor # NoCursor /\ w.cursor = out[Len(out)]
    BY <1>3, <1>18
  <2>2. PastCursor(w.surface, x, w.cursor)
    BY <1>1, <1>5, <2>1 DEF _resume_after
  <2> QED BY <2>1, <2>2 DEF PastCursor, _feed_rows, _trash_cursor_predicate, Before
<1>19. Ascending(out2)
  <2> SUFFICES ASSUME NEW i \in 1 .. Len(out2), NEW j \in 1 .. Len(out2), i < j
               PROVE  Before(out2[i], out2[j])
    BY <1>17 DEF Ascending
  <2>1. CASE j <= Len(out)
    <3>1. i \in 1 .. Len(out) /\ j \in 1 .. Len(out)
      BY <1>17, <2>1
    <3>2. Before(out[i], out[j])
      BY <1>3, <3>1 DEF Ascending
    <3> QED BY <1>17, <3>1, <3>2
  <2>2. CASE j > Len(out)
    <3>1. PICK b \in 1 .. k : j = Len(out) + b
      <4>1. j - Len(out) \in 1 .. k /\ j = Len(out) + (j - Len(out))
        BY <1>10, <1>17, <2>2
      <4> QED BY <4>1
    <3>2. b \in 1 .. Len(rows) /\ out2[j] = rows[b] /\ rows[b] \in S /\ rows[b] \in Pairs
      <4>1. b \in 1 .. Len(rows)
        BY <1>10, <1>17
      <4>2. rows[b] \in S
        BY <1>8, <4>1
      <4> QED BY <1>6, <1>17, <3>1, <4>1, <4>2
    <3>3. CASE i > Len(out)
      <4>1. PICK a \in 1 .. k : i = Len(out) + a
        <5>1. i - Len(out) \in 1 .. k /\ i = Len(out) + (i - Len(out))
          BY <1>10, <1>17, <3>3
        <5> QED BY <5>1
      <4>2. a \in 1 .. Len(rows) /\ a < b /\ out2[i] = rows[a]
        BY <1>10, <1>17, <3>1, <4>1
      <4>3. Before(rows[a], rows[b])
        BY <1>8, <3>2, <4>2, SMTT(20) DEF Ascending
      <4> QED BY <3>2, <4>2, <4>3
    <3>4. CASE i <= Len(out)
      <4>1. i \in 1 .. Len(out) /\ Len(out) \in 1 .. Len(out) /\ out # <<>>
        BY <1>17, <3>4
      <4>2. Before(out[Len(out)], rows[b])
        BY <1>18, <3>2, <4>1
      <4>3. i = Len(out) \/ Before(out[i], out[Len(out)])
        BY <1>3, <4>1 DEF Ascending
      <4>4. out[i] \in Pairs /\ out[Len(out)] \in Pairs
        BY <4>1
      <4>5. Before(out[i], rows[b])
        BY <3>2, <4>2, <4>3, <4>4, BeforeOrders
      <4> QED BY <1>17, <3>2, <4>1, <4>5
    <3> QED BY <1>17, <3>3, <3>4
  <2> QED BY <1>17, <2>1, <2>2
<1>20. cursor = NoCursor => over \/ out2 = <<>>
  <2> SUFFICES ASSUME cursor = NoCursor, over = FALSE PROVE out2 = <<>>
    OBVIOUS
  <2>1. Len(rows) > limit
    BY <1>13
  <2>2. CASE limit = 0
    <3>1. out = <<>> /\ k = 0
      BY <1>3, <1>9, <1>10, <1>11, <2>1, <2>2
    <3> QED BY <1>17, <3>1
  <2>3. CASE limit # 0
    <3>1. rows[limit] = NoCursor /\ limit \in 1 .. Len(rows)
      BY <1>3, <1>8, <1>10, <1>11, <1>17, <2>1, <2>3
    <3>2. rows[limit] \in Nat \X Nat
      BY <1>6, <1>8, <3>1 DEF Pairs
    <3> QED BY <3>1, <3>2
  <2> QED BY <2>2, <2>3
<1>21. cursor # NoCursor => out2 # <<>> /\ cursor = out2[Len(out2)]
  <2> SUFFICES ASSUME cursor # NoCursor PROVE out2 # <<>> /\ cursor = out2[Len(out2)]
    OBVIOUS
  <2>1. CASE limit = 0
    <3>1. out # <<>> /\ cursor = out[Len(out)] /\ k = 0
      BY <1>3, <1>9, <1>10, <1>11, <1>17, <2>1
    <3> QED BY <1>17, <3>1
  <2>2. CASE limit # 0
    <3>1. cursor = rows[limit] /\ Len(rows) > limit /\ k = limit /\ limit \in 1 .. k
      BY <1>3, <1>9, <1>10, <1>11, <1>17, <2>2
    <3>2. out2[Len(out) + limit] = rows[limit] /\ Len(out2) = Len(out) + limit
      BY <1>17, <3>1
    <3> QED BY <1>3, <1>17, <3>1, <3>2
  <2> QED BY <2>1, <2>2
<1>22. ASSUME NEW r \in Rows, Due(r)', Passed(Item(walk.surface, r))'
       PROVE  Returned(Item(walk.surface, r))'
  <2>1. PICK x : x = Item(w.surface, r)
    OBVIOUS
  <2>2. Item(walk.surface, r)' = x
    BY <1>4, <1>14, <1>16, <2>1 DEF Item
  <2>3. SUFFICES \E i \in 1 .. Len(out2) : out2[i] = x
    BY <1>14, <1>16, <2>2 DEF Returned
  <2>4. /\ r \in steady /\ r \in Visible(filter)
        /\ w.after # NoPlace => w.after < place[r]
        /\ w.surface = "feed" => r \notin tied
    BY <1>4, <1>14, <1>16, <1>22 DEF Due, Visible
  <2>5. over \/ (cursor # NoCursor /\ ~ PastCursor(w.surface, x, cursor))
    BY <1>14, <1>16, <1>22, <2>2 DEF Passed, PastCursor, _feed_rows, _trash_cursor_predicate, Before
  <2>6. x \in Pairs /\ place[r] \in Nat /\ x[1] = place[r] /\ x \in Items(w.surface, filter)
    <3>1. x \in Pairs /\ place[r] \in Nat
      BY <2>1, <2>4, ItemsFinite DEF WalkInv
    <3>2. x[1] = place[r]
      BY <2>1 DEF Item
    <3>3. x \in Items(w.surface, filter)
      BY <2>1, <2>4 DEF Items
    <3> QED BY <3>1, <3>2, <3>3
  <2>7. CASE w.cursor # NoCursor /\ ~ PastCursor(w.surface, x, w.cursor)
    <3>1. Due(r) /\ Passed(x)
      BY <1>1, <1>3, <2>4, <2>7 DEF Due, Passed
    <3>2. PICK i \in 1 .. Len(out) : out[i] = x
      BY <1>1, <1>2, <2>1, <3>1 DEF WalkInv, Returned
    <3>3. i \in 1 .. Len(out2) /\ out2[i] = x
      BY <1>10, <1>17, <3>2
    <3> QED BY <3>3
  <2>8. CASE w.cursor = NoCursor \/ PastCursor(w.surface, x, w.cursor)
    <3>1. x \in S
      BY <1>1, <1>5, <2>4, <2>6, <2>8 DEF _resume_after
    <3>2. PICK j \in 1 .. Len(rows) : rows[j] = x
      BY <1>8, <3>1
    <3>3. CASE j <= k
      <4>1. j \in 1 .. k /\ Len(out) + j \in 1 .. Len(out2) /\ out2[Len(out) + j] = x
        BY <1>10, <1>17, <3>2, <3>3
      <4> QED BY <4>1
    <3>4. CASE j > k
      <4>1. Len(rows) > limit /\ k = limit /\ over = FALSE
        <5>1. j <= Len(rows) /\ j > k /\ Len(rows) \in Nat /\ limit \in Nat /\ k \in Nat
          BY <1>3, <1>10, <1>17, <3>4
        <5>2. limit < Len(rows) /\ k = limit
          BY <1>9, <1>10, <5>1
        <5> QED BY <1>3, <1>13, <5>1, <5>2
      <4>2. cursor # NoCursor /\ ~ PastCursor(w.surface, x, cursor)
        BY <2>5, <4>1
      <4>3. limit # 0
        BY <1>11, <2>8, <4>2
      <4>4. cursor = rows[limit] /\ limit \in 1 .. Len(rows) /\ limit < j
        BY <1>3, <1>10, <1>11, <3>2, <3>4, <4>1, <4>3
      <4>5. Before(cursor, x)
        BY <1>8, <3>2, <4>4 DEF Ascending
      <4>6. w.surface = "feed"
        BY <4>2, <4>5 DEF PastCursor, _trash_cursor_predicate
      <4>7. ~ (cursor[1] < x[1])
        BY <4>2, <4>6 DEF PastCursor, _feed_rows
      <4>8. cursor \in S
        BY <1>8, <4>4
      <4>9. PICK q \in Visible(filter) : cursor = Item(w.surface, q)
        BY <1>5, <4>8 DEF Items
      <4>10. cursor[1] = place[q] /\ q # r
        <5>1. ~ Before(x, x)
          BY <2>6, BeforeOrders
        <5> QED BY <2>1, <4>5, <4>9, <5>1 DEF Item
      <4>11. place[q] = place[r]
        BY <2>6, <4>5, <4>7, <4>10 DEF Before
      <4>12. r \in TiedNow
        BY <2>4, <4>9, <4>10, <4>11 DEF TiedNow, Visible
      <4> QED BY <1>3, <2>4, <4>6, <4>12
    <3> QED BY <1>10, <3>2, <3>3, <3>4
  <2> QED BY <2>7, <2>8
<1>23. PageTypeOK'
  BY <1>4, <1>14, <1>16, <1>17 DEF WalkInv, PageTypeOK
<1>24. (TiedNow \subseteq tied)'
  BY <1>3, <1>4 DEF TiedNow
<1>25. Ascending(walk.out)'
  BY <1>14, <1>16, <1>19 DEF Ascending, Before
<1> QED BY <1>14, <1>16, <1>20, <1>21, <1>22, <1>23, <1>24, <1>25 DEF WalkInv

(* In every reachable state nothing due was passed over.                   *)
THEOREM WalkInvariant == PageSpec => []WalkInv
<1>1. WalkInv /\ [PageNext]_pageVars => WalkInv'
  <2> SUFFICES ASSUME WalkInv, [PageNext]_pageVars PROVE WalkInv'
    OBVIOUS
  <2>1. CASE UNCHANGED pageVars
    BY <2>1 DEF pageVars, WalkInv, PageTypeOK, Ascending, Before, TiedNow, Due, Passed, Returned,
                Visible, Item, PastCursor, _feed_rows, _trash_cursor_predicate
  <2> QED BY <2>1, PageStep, ChangedStep DEF PageNext
<1> QED BY InitPages, <1>1, PTL DEF PageSpec

(* A walk that has come to its end returned every row that matches and     *)
(* stayed as it was, exactly once: on any surface, with any limits, and    *)
(* whatever changed around it.                                             *)
THEOREM WalksAreComplete == PageSpec => []WalkComplete
<1>1. WalkInv => WalkComplete
  <2> SUFFICES ASSUME WalkInv, walk.over, NEW r \in steady \cap Visible(walk.filter),
                      walk.after # NoPlace => walk.after < place[r],
                      walk.surface = "feed" => r \notin tied
               PROVE  Cardinality({i \in DOMAIN walk.out :
                                     walk.out[i] = Item(walk.surface, r)}) = 1
    BY DEF WalkComplete
  <2>1. PICK x : x = Item(walk.surface, r)
    OBVIOUS
  <2>2. PICK out \in Seq(Pairs) : out = walk.out
    BY DEF WalkInv, PageTypeOK
  <2>3. r \in Rows /\ Due(r) /\ Passed(x)
    BY DEF Due, Passed, Visible
  <2>4. PICK i \in 1 .. Len(out) : out[i] = x
    BY <2>1, <2>2, <2>3 DEF WalkInv, Returned
  <2>5. ASSUME NEW j \in 1 .. Len(out), out[j] = x PROVE j = i
    <3>1. x \in Pairs
      BY <2>4
    <3>2. ~ Before(x, x)
      BY <3>1, BeforeOrders
    <3>3. ~ (i < j) /\ ~ (j < i)
      BY <2>2, <2>4, <2>5, <3>2 DEF WalkInv, Ascending
    <3> QED BY <3>3
  <2>6. {j \in DOMAIN out : out[j] = x} = {i}
    BY <2>4, <2>5
  <2>7. Cardinality({i}) = 1
    BY FS_Singleton, Zenon
  <2> QED BY <2>1, <2>2, <2>6, <2>7
<1> QED BY WalkInvariant, <1>1, PTL

-----------------------------------------------------------------------------
(* TokenTrust.                                                             *)
ClockValues == 0..LastMoment

AuthRecords ==
    [phase : {"idle", "discover", "keys", "fetch", "match", "refresh", "introspect", "retry",
              "accepted"},
     kid : Kids \cup {NoMoment}, good : BOOLEAN, fresh : BOOLEAN, at : ClockValues,
     keys : SUBSET Kids, asked : BOOLEAN, held : BOOLEAN]

TrustTypeOK ==
    /\ now \in ClockValues /\ up \in BOOLEAN /\ active \in BOOLEAN
    /\ published \subseteq Kids
    /\ retired \in [Kids -> ClockValues \cup {NoMoment}]
    /\ jwks \in [keys : SUBSET Kids, at : ClockValues \cup {NoMoment}]
    /\ attempt \in ClockValues \cup {NoMoment} /\ refetches \in Nat
    /\ auth \in [Requests -> AuthRecords]

(* A key that is published was never withdrawn, and a key of the cached    *)
(* set not before the moment the set is dated -- which is when the request *)
(* that fetched it began, not when the set was read.                       *)
KeysGood ==
    /\ \A k \in published : retired[k] = NoMoment
    /\ jwks.at # NoMoment => /\ jwks.at <= now
                          /\ \A k \in jwks.keys : retired[k] = NoMoment \/ retired[k] >= jwks.at

(* Fetches for unknown keys are at least a cooldown apart, by the moments  *)
(* the requests began.                                                     *)
AttemptGood ==
    IF attempt = NoMoment THEN refetches = 0
    ELSE attempt <= now /\ refetches <= 1 + attempt \div Cooldown

(* A request that began at t may use the keys in S.                        *)
Trustworthy(S, t) == \A k \in S : retired[k] = NoMoment \/ t - retired[k] <= StaleMax

(* What holds of a request a.  While it looks for its key, the cached set  *)
(* is as good for it as the one it was given: the set may be replaced      *)
(* meanwhile by one with an earlier date.                                  *)
AuthGood(a) ==
    /\ a.at <= now
    /\ a.phase # "idle" => a.kid \in Kids
    /\ a.phase = "match" => Trustworthy(a.keys, a.at) /\ Trustworthy(jwks.keys, a.at)
    /\ a.phase \in {"introspect", "retry", "accepted"} => Trustworthy({a.kid}, a.at)
    /\ a.phase \notin {"idle", "accepted"} /\ active => a.held
    /\ a.phase = "accepted" /\ a.fresh => a.held

TrustInv ==
    /\ TrustTypeOK
    /\ KeysGood
    /\ AttemptGood
    /\ \A r \in Requests : AuthGood(auth[r])

-----------------------------------------------------------------------------
(* Arithmetic of the cooldown.                                             *)

(* ClockValues a cooldown apart lie in different windows.                      *)
LEMMA NextWindow ==
    ASSUME NEW a \in Nat, NEW b \in Nat, b - a >= Cooldown
    PROVE  b \div Cooldown >= 1 + a \div Cooldown
<1>1. Cooldown \in Nat /\ Cooldown > 0
  BY TrustAssumption
<1> QED BY <1>1

(* The number of windows only grows.                                       *)
LEMMA WindowsGrow ==
    ASSUME NEW a \in Nat, NEW b \in Nat, a <= b
    PROVE  a \div Cooldown <= b \div Cooldown /\ a \div Cooldown \in Nat
<1>1. Cooldown \in Nat /\ Cooldown > 0
  BY TrustAssumption
<1> QED BY <1>1

-----------------------------------------------------------------------------
(* The steps of a request.                                                 *)

(* A set dated no longer than StaleMax ago may be used.                    *)
LEMMA CopyTrustworthy ==
    ASSUME TrustInv, NEW t \in ClockValues, jwks.at # NoMoment, t - jwks.at <= StaleMax
    PROVE  Trustworthy(jwks.keys, t)
<1>1. /\ jwks.at \in Nat /\ StaleMax \in Nat /\ t \in Nat
      /\ retired \in [Kids -> ClockValues \cup {NoMoment}] /\ jwks.keys \subseteq Kids
      /\ \A k \in jwks.keys : retired[k] = NoMoment \/ retired[k] >= jwks.at
  BY TrustAssumption DEF TrustInv, TrustTypeOK, KeysGood, ClockValues
<1>2. ASSUME NEW k \in jwks.keys, retired[k] # NoMoment
      PROVE  t - retired[k] <= StaleMax
  <2>1. retired[k] \in Nat /\ retired[k] >= jwks.at
    BY <1>1, <1>2 DEF ClockValues
  <2> QED BY <1>1, <2>1
<1> QED BY <1>2 DEF Trustworthy

(* The issuer's set may be used by every request.                          *)
LEMMA PublishedTrustworthy ==
    ASSUME TrustInv, NEW t
    PROVE  Trustworthy(published, t)
BY DEF TrustInv, KeysGood, Trustworthy

(* A request r becomes a; the cached set stays or is replaced by r.        *)
LEMMA AuthOwnStep ==
    ASSUME TrustInv, NEW r \in Requests, NEW a \in AuthRecords,
           auth' = [auth EXCEPT ![r] = a],
           UNCHANGED issuer,
           jwks' = jwks \/ jwks' = [keys |-> published, at |-> auth[r].at],
           attempt' \in ClockValues \cup {NoMoment}, refetches' \in Nat, AttemptGood',
           AuthGood(a)'
    PROVE  TrustInv'
<1>1. /\ TrustTypeOK /\ KeysGood /\ UNCHANGED <<now, up, published, retired, active>>
      /\ \A q \in Requests : AuthGood(auth[q])
      /\ auth \in [Requests -> AuthRecords] /\ auth[r].at \in ClockValues /\ auth[r].at <= now
  BY DEF TrustInv, issuer, TrustTypeOK, AuthGood, AuthRecords
<1>2. auth' \in [Requests -> AuthRecords] /\ auth'[r] = a
      /\ \A q \in Requests \ {r} : auth'[q] = auth[q]
  BY <1>1
<1>3. jwks' \in [keys : SUBSET Kids, at : ClockValues \cup {NoMoment}]
  BY <1>1 DEF TrustTypeOK
<1>4. TrustTypeOK'
  BY <1>1, <1>2, <1>3 DEF TrustTypeOK
<1>5. KeysGood'
  <2>1. CASE jwks' = jwks
    BY <1>1, <2>1 DEF KeysGood
  <2>2. CASE jwks' = [keys |-> published, at |-> auth[r].at]
    <3>1. jwks'.keys = published /\ jwks'.at = auth[r].at
      BY <2>2
    <3> QED BY <1>1, <3>1 DEF KeysGood
  <2> QED BY <2>1, <2>2
<1>6. ASSUME NEW q \in Requests
      PROVE  AuthGood(auth[q])'
  <2>1. CASE q = r
    <3>1. auth'[q] = a
      BY <1>2, <2>1
    <3> QED BY <3>1 DEF AuthGood, Trustworthy
  <2>2. CASE q # r
    <3>1. auth'[q] = auth[q] /\ AuthGood(auth[q])
      BY <1>1, <1>2, <2>2
    <3>2. auth[q].phase = "match" => Trustworthy(jwks.keys, auth[q].at)'
      <4>1. CASE jwks' = jwks
        BY <1>1, <3>1, <4>1 DEF AuthGood, Trustworthy
      <4>2. CASE jwks' = [keys |-> published, at |-> auth[r].at]
        <5>1. jwks'.keys = published
          BY <4>2
        <5> QED BY <1>1, <5>1 DEF KeysGood, Trustworthy
      <4> QED BY <4>1, <4>2
    <3> QED BY <1>1, <3>1, <3>2 DEF AuthGood, Trustworthy
  <2> QED BY <2>1, <2>2
<1> QED BY <1>4, <1>5, <1>6 DEF TrustInv

(* A step that leaves the cached set and the cooldown alone.               *)
LEMMA QuietStep ==
    ASSUME TrustInv, NEW r \in Requests, NEW a \in AuthRecords,
           auth' = [auth EXCEPT ![r] = a],
           UNCHANGED <<issuer, jwks, attempt, refetches>>,
           AuthGood(a)
    PROVE  TrustInv'
<1>1. /\ attempt' \in ClockValues \cup {NoMoment} /\ refetches' \in Nat /\ AttemptGood'
      /\ AuthGood(a)' /\ UNCHANGED issuer /\ jwks' = jwks
  BY DEF TrustInv, TrustTypeOK, AttemptGood, AuthGood, Trustworthy, issuer
<1> QED BY <1>1, AuthOwnStep

(* A request ends without an answer, or is answered.                       *)
LEMMA EndStep ==
    ASSUME TrustInv, NEW r \in Requests, auth' = [auth EXCEPT ![r] = NoRequest],
           UNCHANGED <<issuer, jwks, attempt, refetches>>
    PROVE  TrustInv'
<1>1. NoRequest \in AuthRecords /\ NoRequest.phase = "idle" /\ NoRequest.at = 0
  BY TrustAssumption DEF NoRequest, AuthRecords, ClockValues
<1>2. AuthGood(NoRequest)
  BY <1>1 DEF TrustInv, TrustTypeOK, ClockValues, AuthGood
<1> QED BY <1>1, <1>2, QuietStep

(* A request enters another phase, and nothing else of it changes.         *)
LEMMA AuthPhaseStep ==
    ASSUME TrustInv, NEW r \in Requests,
           NEW f \in {"keys", "fetch", "introspect", "retry", "accepted"},
           auth' = [auth EXCEPT ![r].phase = f],
           auth[r].phase \notin {"idle", "accepted"},
           f \in {"introspect", "retry", "accepted"} => Trustworthy({auth[r].kid}, auth[r].at),
           f = "accepted" /\ auth[r].fresh => auth[r].held,
           UNCHANGED <<issuer, jwks, attempt, refetches>>
    PROVE  TrustInv'
<1> DEFINE a == [auth[r] EXCEPT !.phase = f]
<1>1. auth[r] \in AuthRecords /\ AuthGood(auth[r])
  BY DEF TrustInv, TrustTypeOK
<1>2. /\ a \in AuthRecords /\ a.phase = f /\ a.kid = auth[r].kid /\ a.at = auth[r].at
      /\ a.fresh = auth[r].fresh /\ a.held = auth[r].held
  BY <1>1 DEF AuthRecords
<1>3. auth' = [auth EXCEPT ![r] = a]
  BY DEF TrustInv, TrustTypeOK
<1> HIDE DEF a
<1>4. AuthGood(a)
  BY <1>1, <1>2 DEF AuthGood
<1> QED BY <1>2, <1>3, <1>4, QuietStep

(* AuthenticationService.authenticate takes a request.                     *)
LEMMA AuthenticateStep ==
    ASSUME TrustInv, NEW r \in Requests, NEW token \in Tokens, authenticate(r, token)
    PROVE  TrustInv'
<1> DEFINE a == [NoRequest EXCEPT !.phase = "discover", !.kid = token.kid, !.good = token.good,
                    !.fresh = token.fresh, !.at = now, !.held = active]
<1>1. /\ token.kid \in Kids /\ token.good \in BOOLEAN /\ token.fresh \in BOOLEAN
      /\ now \in ClockValues /\ active \in BOOLEAN
  BY TrustAssumption DEF TrustInv, TrustTypeOK
<1>2. a \in AuthRecords /\ a.phase = "discover" /\ a.kid = token.kid /\ a.at = now
      /\ a.held = active
  BY <1>1 DEF NoRequest, AuthRecords
<1>3. auth' = [auth EXCEPT ![r] = a] /\ UNCHANGED <<issuer, jwks, attempt, refetches>>
  BY DEF authenticate
<1> HIDE DEF a
<1>4. AuthGood(a)
  BY <1>1, <1>2 DEF AuthGood, ClockValues
<1> QED BY <1>2, <1>3, <1>4, QuietStep

(* The discovery document is at hand, or is not.                           *)
LEMMA MetadataStep ==
    ASSUME TrustInv, NEW r \in Requests, metadata(r)
    PROVE  TrustInv'
<1>1. auth[r].phase = "discover" /\ UNCHANGED <<issuer, jwks, attempt, refetches>>
  BY DEF metadata
<1>2. CASE Unavailable(r)
  BY <1>1, <1>2, EndStep DEF Unavailable
<1>3. CASE auth' = [auth EXCEPT ![r].phase = "keys"]
  BY <1>1, <1>3, AuthPhaseStep
<1> QED BY <1>2, <1>3 DEF metadata

(* A request gets a key set; it may use it and the cached one.             *)
LEMMA KeysStep ==
    ASSUME TrustInv, NEW r \in Requests, NEW S \in SUBSET Kids, NEW t, t = auth[r].at,
           auth' = [auth EXCEPT ![r].phase = "match", ![r].keys = S],
           auth[r].phase \notin {"idle", "accepted"},
           Trustworthy(S, t), Trustworthy(jwks.keys, t)',
           jwks' = jwks \/ jwks' = [keys |-> published, at |-> t],
           UNCHANGED <<issuer, attempt, refetches>>
    PROVE  TrustInv'
<1>1. auth[r] \in AuthRecords /\ AuthGood(auth[r]) /\ UNCHANGED <<now, retired, active>>
  BY DEF TrustInv, TrustTypeOK, issuer
<1>2. PICK a \in AuthRecords : a = [auth[r] EXCEPT !.phase = "match", !.keys = S]
  BY <1>1 DEF AuthRecords
<1>3. /\ a.phase = "match" /\ a.kid = auth[r].kid /\ a.at = t
      /\ a.keys = S /\ a.held = auth[r].held
  BY <1>1, <1>2 DEF AuthRecords
<1>4. auth' = [auth EXCEPT ![r] = a]
  BY <1>2 DEF TrustInv, TrustTypeOK
<1>5. AuthGood(a)'
  <2>1. /\ a.at <= now' /\ a.kid \in Kids
        /\ active' => a.held
    BY <1>1, <1>3 DEF AuthGood
  <2>2. Trustworthy(a.keys, a.at)' /\ Trustworthy(jwks.keys, a.at)'
    BY <1>1, <1>3 DEF Trustworthy
  <2> QED BY <1>3, <2>1, <2>2 DEF AuthGood
<1>6. attempt' \in ClockValues \cup {NoMoment} /\ refetches' \in Nat /\ AttemptGood'
  BY <1>1 DEF TrustInv, TrustTypeOK, AttemptGood
<1> QED BY <1>4, <1>5, <1>6, AuthOwnStep

(* The key set comes from the cache, from the issuer, or from the cache    *)
(* because the issuer does not answer.                                     *)
LEMMA JwksStep ==
    ASSUME TrustInv, NEW r \in Requests, jwks_served(r) \/ jwks_locked(r) \/ _fetch_jwks(r)
    PROVE  TrustInv'
<1>1. /\ auth[r].at \in ClockValues /\ auth \in [Requests -> AuthRecords]
      /\ jwks.keys \subseteq Kids /\ published \subseteq Kids
      /\ jwks.at \in ClockValues \cup {NoMoment} /\ StaleMax \in Nat /\ Ttl \in Nat /\ Ttl <= StaleMax
  BY TrustAssumption DEF TrustInv, TrustTypeOK, AuthRecords
<1>2. /\ auth[r].phase \notin {"idle", "accepted"}
      /\ UNCHANGED <<issuer, attempt, refetches>>
  BY DEF jwks_served, jwks_locked, _fetch_jwks
<1>3. UNCHANGED <<published, retired>>
  BY <1>2 DEF issuer
<1>4. PICK t \in ClockValues : t = auth[r].at
  BY <1>1
<1>5. CASE jwks_locked(r)
  BY <1>2, <1>5, AuthPhaseStep DEF jwks_locked
<1>6. ASSUME jwks.at # NoMoment, t - jwks.at <= StaleMax, jwks' = jwks,
             auth' = [auth EXCEPT ![r].phase = "match", ![r].keys = jwks.keys]
      PROVE  TrustInv'
  <2>1. PICK S \in SUBSET Kids : S = jwks.keys
    BY <1>1
  <2>2. Trustworthy(S, t) /\ Trustworthy(jwks.keys, t)
    BY <1>6, <2>1, CopyTrustworthy
  <2>3. Trustworthy(jwks.keys, t)'
    BY <1>3, <1>6, <2>2 DEF Trustworthy
  <2>4. auth' = [auth EXCEPT ![r].phase = "match", ![r].keys = S]
    BY <1>6, <2>1
  <2> QED BY <1>2, <1>4, <1>6, <2>2, <2>3, <2>4, KeysStep
<1>7. CASE jwks_served(r)
  <2>1. jwks.at # NoMoment /\ t - jwks.at < Ttl /\ jwks' = jwks
    BY <1>4, <1>7 DEF jwks_served, IsFresh
  <2>2. t - jwks.at <= StaleMax
    BY <1>1, <2>1 DEF ClockValues
  <2> QED BY <1>6, <1>7, <2>1, <2>2 DEF jwks_served
<1>8. CASE _fetch_jwks(r)
  <2>1. CASE Unavailable(r) /\ jwks' = jwks
    BY <1>2, <2>1, EndStep DEF Unavailable
  <2>2. CASE /\ IsUsable(jwks.at, t) /\ jwks' = jwks
             /\ auth' = [auth EXCEPT ![r].phase = "match", ![r].keys = jwks.keys]
    BY <1>6, <2>2 DEF IsUsable
  <2>3. CASE /\ jwks' = [keys |-> published, at |-> t]
             /\ auth' = [auth EXCEPT ![r].phase = "match", ![r].keys = published]
    <3>1. PICK S \in SUBSET Kids : S = published
      BY <1>1
    <3>2. Trustworthy(S, t)
      BY <3>1, PublishedTrustworthy
    <3>3. jwks'.keys = S
      BY <2>3, <3>1
    <3>4. Trustworthy(jwks.keys, t)'
      BY <1>3, <3>2, <3>3 DEF Trustworthy
    <3>5. auth' = [auth EXCEPT ![r].phase = "match", ![r].keys = S]
      BY <2>3, <3>1
    <3> QED BY <1>2, <1>4, <2>3, <3>2, <3>4, <3>5, KeysStep
  <2> QED BY <1>4, <1>8, <2>1, <2>2, <2>3 DEF _fetch_jwks
<1> QED BY <1>5, <1>7, <1>8

(* An unknown key: a fetch that the cooldown allows, or the set as it is.  *)
LEMMA UnknownKeyStep ==
    ASSUME TrustInv, NEW r \in Requests, refresh_jwks_for_unknown_kid(r)
    PROVE  TrustInv'
<1>1. /\ auth[r] \in AuthRecords /\ AuthGood(auth[r]) /\ auth[r].phase = "match"
      /\ jwks.keys \subseteq Kids /\ refetches \in Nat /\ AttemptGood
      /\ attempt \in ClockValues \cup {NoMoment} /\ now \in ClockValues
      /\ NoMoment \notin ClockValues /\ Cooldown \in Nat
  BY TrustAssumption DEF TrustInv, TrustTypeOK, refresh_jwks_for_unknown_kid, ClockValues
<1>2. UNCHANGED <<issuer, jwks>> /\ UNCHANGED <<now, retired, active>>
  BY DEF refresh_jwks_for_unknown_kid, issuer
<1>3. CASE MayRefresh(auth[r].at)
  <2>1. PICK a \in AuthRecords : a = [auth[r] EXCEPT !.phase = "refresh", !.asked = TRUE]
    BY <1>1 DEF AuthRecords
  <2>2. /\ a.phase = "refresh" /\ a.kid = auth[r].kid /\ a.at = auth[r].at
        /\ a.held = auth[r].held
    BY <1>1, <2>1 DEF AuthRecords
  <2>3. /\ auth' = [auth EXCEPT ![r] = a]
        /\ attempt' = auth[r].at /\ refetches' = refetches + 1
    BY <1>3, <2>1 DEF refresh_jwks_for_unknown_kid, TrustInv, TrustTypeOK
  <2>4. AuthGood(a)'
    BY <1>1, <1>2, <2>2 DEF AuthGood
  <2>5. attempt' \in ClockValues /\ attempt' # NoMoment /\ attempt' <= now' /\ refetches' \in Nat
    BY <1>1, <1>2, <2>3 DEF AuthGood, AuthRecords
  <2>6. refetches' <= 1 + attempt' \div Cooldown
    <3>1. attempt' \in Nat /\ attempt' \div Cooldown \in Nat
      BY <2>5, WindowsGrow DEF ClockValues
    <3>2. CASE attempt = NoMoment
      BY <1>1, <2>3, <3>1, <3>2 DEF AttemptGood
    <3>3. CASE attempt # NoMoment
      <4>1. attempt \in Nat /\ attempt \div Cooldown \in Nat
        BY <1>1, <3>3, WindowsGrow DEF ClockValues
      <4>2. attempt' - attempt >= Cooldown
        BY <1>3, <2>3, <3>3 DEF MayRefresh
      <4>3. attempt' \div Cooldown >= 1 + attempt \div Cooldown
        BY <3>1, <4>1, <4>2, NextWindow
      <4>4. refetches <= 1 + attempt \div Cooldown
        BY <1>1, <3>3 DEF AttemptGood
      <4> HIDE DEF AttemptGood
      <4> QED BY <1>1, <2>3, <3>1, <4>1, <4>3, <4>4
    <3> QED BY <3>2, <3>3
  <2>7. AttemptGood'
    BY <2>5, <2>6 DEF AttemptGood
  <2> QED BY <1>2, <2>3, <2>4, <2>5, <2>7, AuthOwnStep
<1>4. CASE ~ MayRefresh(auth[r].at)
  <2>1. PICK a \in AuthRecords : a = [auth[r] EXCEPT !.keys = jwks.keys, !.asked = TRUE]
    BY <1>1 DEF AuthRecords
  <2>2. /\ a.phase = "match" /\ a.kid = auth[r].kid /\ a.at = auth[r].at
        /\ a.held = auth[r].held /\ a.keys = jwks.keys
    BY <1>1, <2>1 DEF AuthRecords
  <2>3. /\ auth' = [auth EXCEPT ![r] = a]
        /\ UNCHANGED <<attempt, refetches>>
    BY <1>4, <2>1 DEF refresh_jwks_for_unknown_kid, TrustInv, TrustTypeOK
  <2>4. AuthGood(a)
    BY <1>1, <2>2 DEF AuthGood
  <2> QED BY <1>2, <2>3, <2>4, QuietStep
<1> QED BY <1>3, <1>4

(* The signature and the policy checks, and the answer to the client.      *)
LEMMA DecodedStep ==
    ASSUME TrustInv, NEW r \in Requests, decoded(r) \/ responded(r)
    PROVE  TrustInv'
<1>1. UNCHANGED <<issuer, jwks, attempt, refetches>>
  BY DEF decoded, responded
<1>2. CASE auth' = [auth EXCEPT ![r] = NoRequest]
  BY <1>1, <1>2, EndStep
<1>3. ASSUME decoded(r), auth[r].kid \in auth[r].keys,
             NEW f \in {"introspect", "accepted"}, f = "accepted" => ~ auth[r].fresh,
             auth' = [auth EXCEPT ![r].phase = f]
      PROVE  TrustInv'
  <2>1. auth[r].phase = "match" /\ AuthGood(auth[r])
    BY <1>3 DEF decoded, TrustInv
  <2>2. Trustworthy({auth[r].kid}, auth[r].at)
    BY <1>3, <2>1 DEF AuthGood, Trustworthy
  <2> QED BY <1>1, <1>3, <2>1, <2>2, AuthPhaseStep
<1> QED BY <1>2, <1>3 DEF decoded, responded, Denied, Accepted

(* Introspection: the answer, if there is one, is the issuer's own.        *)
LEMMA IntrospectStep ==
    ASSUME TrustInv, NEW r \in Requests, service_token(r) \/ introspect(r)
    PROVE  TrustInv'
<1>1. /\ UNCHANGED <<issuer, jwks, attempt, refetches>>
      /\ auth[r].phase \in {"introspect", "retry"}
  BY DEF service_token, introspect
<1>2. AuthGood(auth[r]) /\ auth[r] \in AuthRecords /\ auth \in [Requests -> AuthRecords]
  BY DEF TrustInv, TrustTypeOK
<1>3. Trustworthy({auth[r].kid}, auth[r].at) /\ (active => auth[r].held)
  BY <1>1, <1>2 DEF AuthGood
<1>4. CASE auth' = [auth EXCEPT ![r] = NoRequest]
  BY <1>1, <1>4, EndStep
<1>5. CASE auth' = auth
  <2>1. auth' = [auth EXCEPT ![r] = auth[r]]
    BY <1>2, <1>5
  <2> QED BY <1>1, <1>2, <2>1, QuietStep
<1>6. CASE auth' = [auth EXCEPT ![r].phase = "retry"]
  BY <1>1, <1>3, <1>6, AuthPhaseStep
<1>7. CASE active /\ auth' = [auth EXCEPT ![r].phase = "accepted"]
  BY <1>1, <1>3, <1>7, AuthPhaseStep
<1> QED BY <1>4, <1>5, <1>6, <1>7 DEF service_token, introspect, Unavailable, Denied, Accepted

-----------------------------------------------------------------------------
(* The steps of the issuer and the clock.                                  *)

(* A key is withdrawn now, which is no earlier than the start of any       *)
(* request and the date of the cached set.                                 *)
LEMMA RetireStep ==
    ASSUME TrustInv, issuer_retires
    PROVE  TrustInv'
<1>1. PICK k \in published : published' = published \ {k}
                             /\ retired' = [retired EXCEPT ![k] = now]
  BY DEF issuer_retires
<1>2. UNCHANGED <<now, up, active, jwks, attempt, auth, refetches>>
  BY DEF issuer_retires
<1>3. /\ TrustTypeOK /\ KeysGood /\ k \in Kids /\ now \in ClockValues /\ now \in Nat
      /\ \A r \in Requests : AuthGood(auth[r])
      /\ StaleMax \in Nat /\ NoMoment \notin ClockValues
  BY TrustAssumption DEF TrustInv, TrustTypeOK, ClockValues
<1>4. /\ retired' \in [Kids -> ClockValues \cup {NoMoment}] /\ retired'[k] = now
      /\ \A j \in Kids \ {k} : retired'[j] = retired[j]
  BY <1>1, <1>3 DEF TrustTypeOK
<1>5. TrustTypeOK'
  BY <1>1, <1>2, <1>3, <1>4 DEF TrustTypeOK
<1>6. KeysGood'
  <2>1. \A j \in published' : retired'[j] = NoMoment
    BY <1>1, <1>3, <1>4 DEF KeysGood, TrustTypeOK
  <2>2. \A j \in jwks.keys : jwks.at # NoMoment => retired'[j] = NoMoment \/ retired'[j] >= jwks.at
    BY <1>3, <1>4 DEF KeysGood, TrustTypeOK
  <2> QED BY <1>2, <1>3, <2>1, <2>2 DEF KeysGood
<1>7. ASSUME NEW r \in Requests
      PROVE  AuthGood(auth[r])'
  <2>1. /\ auth[r].at \in Nat /\ auth[r].at <= now /\ auth[r].keys \subseteq Kids
        /\ auth[r].kid \in Kids \cup {NoMoment} /\ jwks.keys \subseteq Kids
    <3>1. auth[r] \in AuthRecords /\ auth[r].at <= now /\ jwks.keys \subseteq Kids
      BY <1>3 DEF TrustTypeOK, AuthGood
    <3> QED BY <3>1 DEF AuthRecords, ClockValues
  <2>2. ASSUME NEW S \in SUBSET Kids, Trustworthy(S, auth[r].at)
        PROVE  \A j \in S : retired'[j] = NoMoment \/ auth[r].at - retired'[j] <= StaleMax
    <3>1. auth[r].at - now <= StaleMax
      BY <1>3, <2>1
    <3> QED BY <1>4, <2>2, <3>1 DEF Trustworthy
  <2>3. auth[r].phase = "match" => Trustworthy(auth[r].keys, auth[r].at)'
                                   /\ Trustworthy(jwks.keys, auth[r].at)'
    BY <1>2, <1>3, <2>1, <2>2 DEF AuthGood, Trustworthy
  <2>4. auth[r].phase \in {"introspect", "retry", "accepted"} =>
            Trustworthy({auth[r].kid}, auth[r].at)'
    <3> SUFFICES ASSUME auth[r].phase \in {"introspect", "retry", "accepted"}
                 PROVE  Trustworthy({auth[r].kid}, auth[r].at)'
      OBVIOUS
    <3>1. AuthGood(auth[r])
      BY <1>3
    <3>2. auth[r].kid \in Kids /\ Trustworthy({auth[r].kid}, auth[r].at)
      BY <3>1 DEF AuthGood
    <3>3. {auth[r].kid} \in SUBSET Kids
      BY <3>2
    <3>4. \A j \in {auth[r].kid} : retired'[j] = NoMoment \/ auth[r].at - retired'[j] <= StaleMax
      BY <2>2, <3>2, <3>3
    <3> QED BY <1>2, <3>4 DEF Trustworthy
  <2> QED BY <1>2, <1>3, <2>3, <2>4 DEF AuthGood
<1>8. AttemptGood'
  BY <1>2 DEF TrustInv, AttemptGood
<1> QED BY <1>5, <1>6, <1>7, <1>8 DEF TrustInv

(* The subject is deactivated, or activated while requests are in flight.  *)
LEMMA SubjectStep ==
    ASSUME TrustInv, issuer_changes_subject
    PROVE  TrustInv'
<1>1. UNCHANGED <<now, up, published, retired, jwks, attempt, refetches>>
  BY DEF issuer_changes_subject
<1>2. TrustTypeOK /\ KeysGood /\ AttemptGood /\ \A r \in Requests : AuthGood(auth[r])
  BY DEF TrustInv
<1>3. ASSUME NEW r \in Requests
      PROVE  /\ auth'[r] \in AuthRecords
             /\ auth'[r].phase = auth[r].phase /\ auth'[r].kid = auth[r].kid
             /\ auth'[r].at = auth[r].at /\ auth'[r].keys = auth[r].keys
             /\ auth'[r].fresh = auth[r].fresh
             /\ auth[r].phase \notin {"idle", "accepted"} /\ active' => auth'[r].held
             /\ auth[r].phase = "accepted" => auth'[r].held = auth[r].held
  <2>1. auth[r] \in AuthRecords
    BY <1>2 DEF TrustTypeOK
  <2>2. CASE r \in InFlight /\ active'
    <3>1. auth'[r] = [auth[r] EXCEPT !.held = TRUE] /\ auth[r].phase # "accepted"
      BY <2>2 DEF issuer_changes_subject, InFlight
    <3> QED BY <2>1, <3>1 DEF AuthRecords
  <2>3. CASE ~ (r \in InFlight /\ active')
    <3>1. auth'[r] = auth[r]
      BY <2>3 DEF issuer_changes_subject
    <3> QED BY <2>1, <2>3, <3>1 DEF InFlight
  <2> QED BY <2>2, <2>3
<1>4. TrustTypeOK'
  <2>1. auth' = [r \in Requests |-> auth'[r]] /\ active' \in BOOLEAN
    BY DEF issuer_changes_subject
  <2>2. auth' \in [Requests -> AuthRecords]
    BY <1>3, <2>1
  <2> QED BY <1>1, <1>2, <2>1, <2>2 DEF TrustTypeOK
<1>5. KeysGood' /\ AttemptGood'
  BY <1>1, <1>2 DEF KeysGood, AttemptGood
<1>6. ASSUME NEW r \in Requests
      PROVE  AuthGood(auth[r])'
  BY <1>1, <1>2, <1>3 DEF AuthGood, Trustworthy
<1> QED BY <1>4, <1>5, <1>6 DEF TrustInv

(* New keys, outages, a service token gone stale, the clock, and steps     *)
(* that change nothing.                                                    *)
LEMMA OtherStep ==
    ASSUME TrustInv,
           \/ issuer_rotates \/ issuer_outage \/ service_token_stale \/ clock_ticks
           \/ UNCHANGED trustVars
    PROVE  TrustInv'
<1>1. UNCHANGED <<retired, active, jwks, attempt, auth, refetches>>
  BY DEF issuer_rotates, issuer_outage, service_token_stale, clock_ticks, trustVars
<1>2. /\ TrustTypeOK /\ KeysGood /\ AttemptGood /\ \A r \in Requests : AuthGood(auth[r])
      /\ now \in Nat /\ LastMoment \in Nat
  BY TrustAssumption DEF TrustInv, TrustTypeOK, ClockValues
<1>3. now' \in ClockValues /\ now' >= now
  BY <1>2 DEF issuer_rotates, issuer_outage, service_token_stale, clock_ticks, trustVars,
              ClockValues, TrustTypeOK
<1>4. published' \subseteq Kids /\ \A k \in published' : retired[k] = NoMoment
  BY <1>2 DEF issuer_rotates, issuer_outage, service_token_stale, clock_ticks, trustVars,
              TrustTypeOK, KeysGood
<1>5. up' \in BOOLEAN
  BY <1>2 DEF issuer_rotates, issuer_outage, service_token_stale, clock_ticks, trustVars,
              TrustTypeOK
<1>6. TrustTypeOK'
  BY <1>1, <1>2, <1>3, <1>4, <1>5 DEF TrustTypeOK
<1>7. KeysGood'
  <2>1. jwks.at # NoMoment => jwks.at <= now'
    BY <1>2, <1>3 DEF KeysGood, TrustTypeOK, ClockValues
  <2> QED BY <1>1, <1>2, <1>4, <2>1 DEF KeysGood
<1>8. AttemptGood'
  <2>1. attempt # NoMoment => attempt <= now'
    BY <1>2, <1>3 DEF AttemptGood, TrustTypeOK, ClockValues
  <2> QED BY <1>1, <1>2, <2>1 DEF AttemptGood
<1>9. ASSUME NEW r \in Requests
      PROVE  AuthGood(auth[r])'
  <2>1. auth[r].at <= now'
    <3>1. auth[r] \in AuthRecords /\ auth[r].at <= now
      BY <1>2 DEF TrustTypeOK, AuthGood
    <3>2. auth[r].at \in Nat
      BY <3>1 DEF AuthRecords, ClockValues
    <3> QED BY <1>2, <1>3, <3>1, <3>2 DEF ClockValues
  <2> QED BY <1>1, <1>2, <2>1 DEF AuthGood, Trustworthy
<1> QED BY <1>6, <1>7, <1>8, <1>9 DEF TrustInv

-----------------------------------------------------------------------------
(* The theorems.                                                           *)

(* At every moment: no published key was withdrawn, the cached set is      *)
(* dated before the withdrawal of any key in it, fetches for unknown keys  *)
(* began a cooldown apart, and each request holds keys it may use and, in  *)
(* flight, knows whether the subject was active since it began.            *)
THEOREM TrustInvariant == TrustSpec => []TrustInv
<1>1. TrustInit => TrustInv
  <2> SUFFICES ASSUME TrustInit PROVE TrustInv
    OBVIOUS
  <2>1. NoRequest \in AuthRecords /\ NoRequest.phase = "idle" /\ NoRequest.at = 0
    BY TrustAssumption DEF NoRequest, AuthRecords, ClockValues
  <2>2. TrustTypeOK
    BY <2>1, TrustAssumption DEF TrustInit, TrustTypeOK, ClockValues
  <2>3. KeysGood /\ AttemptGood
    BY <2>2 DEF TrustInit, KeysGood, AttemptGood, TrustTypeOK
  <2>4. ASSUME NEW r \in Requests
        PROVE  AuthGood(auth[r])
    BY <2>1 DEF TrustInit, AuthGood
  <2> QED BY <2>2, <2>3, <2>4 DEF TrustInv
<1>2. TrustInv /\ [TrustNext]_trustVars => TrustInv'
  <2> SUFFICES ASSUME TrustInv, [TrustNext]_trustVars PROVE TrustInv'
    OBVIOUS
  <2>1. ASSUME NEW r \in Requests, Handle(r)
        PROVE  TrustInv'
    BY <2>1, MetadataStep, JwksStep, UnknownKeyStep, DecodedStep, IntrospectStep DEF Handle
  <2>2. ASSUME NEW r \in Requests, NEW token \in Tokens, authenticate(r, token)
        PROVE  TrustInv'
    BY <2>2, AuthenticateStep
  <2>3. CASE Issuer
    BY <2>3, RetireStep, SubjectStep, OtherStep DEF Issuer
  <2> QED BY <2>1, <2>2, <2>3, OtherStep DEF TrustNext
<1> QED BY <1>1, <1>2, PTL DEF TrustSpec

(* A key the issuer withdrew is trusted for at most StaleMax, whichever    *)
(* request fetched the set, and however old the date of the set is that    *)
(* replaces a newer one.                                                   *)
THEOREM WithdrawnKeysExpire == TrustSpec => []WithdrawnKeyRefused
<1>1. TrustInv => WithdrawnKeyRefused
  BY DEF TrustInv, AuthGood, Trustworthy, WithdrawnKeyRefused
<1> QED BY <1>1, TrustInvariant, PTL

(* The issuer is asked for unknown keys at most once per cooldown.         *)
THEOREM RefetchesStayBounded == TrustSpec => []RefetchesBounded
<1>1. TrustInv => RefetchesBounded
  <2> SUFFICES ASSUME TrustInv PROVE refetches <= 1 + now \div Cooldown
    BY DEF RefetchesBounded
  <2>1. now \in Nat /\ refetches \in Nat /\ AttemptGood /\ attempt \in ClockValues \cup {NoMoment}
    BY DEF TrustInv, TrustTypeOK, ClockValues
  <2>2. now \div Cooldown \in Nat
    BY <2>1, WindowsGrow
  <2>3. CASE attempt = NoMoment
    BY <2>1, <2>2, <2>3 DEF AttemptGood
  <2>4. CASE attempt # NoMoment
    <3>1. attempt \in Nat /\ attempt <= now /\ refetches <= 1 + attempt \div Cooldown
      BY <2>1, <2>4 DEF AttemptGood, ClockValues
    <3>2. attempt \div Cooldown <= now \div Cooldown /\ attempt \div Cooldown \in Nat
      BY <2>1, <3>1, WindowsGrow
    <3> QED BY <2>1, <2>2, <3>1, <3>2
  <2> QED BY <2>3, <2>4
<1> QED BY <1>1, TrustInvariant, PTL

(* What needs a fresh answer is accepted only if the subject was active at *)
(* some moment since the request began.                                    *)
THEOREM FreshAnswersAreFresh == TrustSpec => []FreshMeansActive
<1>1. TrustInv => FreshMeansActive
  BY DEF TrustInv, AuthGood, FreshMeansActive
<1> QED BY <1>1, TrustInvariant, PTL
=============================================================================
