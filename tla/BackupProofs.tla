---------------------------- MODULE BackupProofs ----------------------------
(***************************************************************************)
(* What Backup keeps for any number of replicas, backups, keys, days and   *)
(* faults, any retention settings and any depth of the bridge's queue; and *)
(* that it implements BackupCatalogue.                                     *)
(***************************************************************************)
EXTENDS Backup, TLAPS

Phases ==
    {"idle", "started", "dumping", "dumped", "mirroring", "comparing", "verifying",
     "finishing", "pruning", "deleting"}

(* The run's backup has the state running, and from the comparison on its  *)
(* manifest is written.                                                    *)
Running == {"started", "dumping", "dumped", "mirroring", "comparing", "verifying", "finishing"}
Sealing == {"comparing", "verifying", "finishing"}
Over == Sealing \cup {"pruning", "deleting"}

Records == [state : {"none", "running", "failed", "verified"}, started : Nat, day : Nat,
            nth : Nat, skew : BOOLEAN]

Runs == [phase : Phases, id : Backups \cup {None},
         pump : {"none", "dumping", "failed", "raised", "done"}, left : Nat, queue : Nat,
         upload : {"none", "putting", "stored", "failed"}, todo : SUBSET Keys,
         flight : SUBSET Keys, skew : BOOLEAN, nth : Nat, day : Nat, prune : SUBSET Backups]

Restores == [phase : {"idle", "guarded", "loading", "objects", "healthy"},
             id : Backups \cup {None}, todo : SUBSET Keys, rows : SUBSET Keys,
             objects : SUBSET Keys]

BackupTypeOK ==
    /\ day \in Nat /\ finish \in Nat /\ faults \in Nat
    /\ object \in [Keys -> {"unused", "stored", "live", "stripped", "gone"}]
    /\ landed \in [Keys -> Nat]
    /\ record \in [Backups -> Records]
    /\ artifact \in [Backups -> SUBSET (Keys \cup {Dump, Manifest})]
    /\ dumped \in [Backups -> SUBSET Keys]
    /\ mirrored \in [Backups -> SUBSET Keys]
    /\ steady \in [Backups -> SUBSET Keys]
    /\ run \in [Processes -> Runs]
    /\ restore \in Restores

(* A later verified backup has everything it needs.                        *)
Outlived(b) ==
    \E c \in Backups : /\ record[c].state = "verified" /\ Whole(c)
                       /\ record[c].nth > record[b].nth

(* What a run r relies on.                                                 *)
RunGood(r) ==
    /\ r.phase = "idle" <=> r.id = None
    /\ {r.pump, r.upload} # {"none"} => r.phase = "dumping"
    /\ r.phase # "idle" => record[r.id].state # "none"
    /\ r.phase \in Running => record[r.id].state = "running"
    /\ r.phase \in Running \ {"started"} => steady[r.id] \subseteq dumped[r.id]
    /\ r.phase = "mirroring" => steady[r.id] \subseteq mirrored[r.id] \cup r.todo
    /\ r.phase \in Sealing =>
            Manifest \in artifact[r.id] /\ steady[r.id] \subseteq mirrored[r.id]
    /\ r.phase = "finishing" =>
            /\ Whole(r.id)
            /\ r.nth > 0
            /\ \A c \in Backups : record[c].nth # r.nth
    /\ r.nth <= finish
    /\ \A c \in r.prune : /\ record[c].state \in {"failed", "verified"}
                          /\ record[c].state = "verified" => Outlived(c)

RunsApart ==
    \A p, q \in Processes : p # q =>
        /\ run[p].id = run[q].id => run[p].id = None
        /\ run[p].nth = run[q].nth => run[p].nth = 0

(* The mirror of b is final, and holds every steady file.                  *)
Sealed(b) ==
    /\ record[b].state # "none"
    /\ \A p \in Processes : run[p].id = b => run[p].phase \in Over
    /\ steady[b] \subseteq dumped[b] \cap mirrored[b]

BackupGood(b) ==
    /\ \A k \in steady[b] : object[k] = "live"
    /\ record[b].nth <= finish
    /\ record[b].state # "verified" => record[b].nth = 0
    /\ record[b].state = "verified" =>
            /\ steady[b] \subseteq dumped[b] \cap mirrored[b]
            /\ Whole(b) \/ Outlived(b)
    /\ Manifest \in artifact[b] => Sealed(b)
    /\ record[b].state \in {"none", "running"} => mirrored[b] \subseteq artifact[b]

RestoreGood ==
    /\ restore.phase # "idle" => restore.id \in Backups
    /\ restore.phase \in {"loading", "objects", "healthy"} => Sealed(restore.id)
    /\ restore.phase \in {"guarded", "loading"} => restore.objects = {}
    /\ restore.phase = "loading" => restore.todo = mirrored[restore.id]
    /\ restore.phase \in {"objects", "healthy"} =>
            /\ restore.rows = dumped[restore.id]
            /\ restore.todo \cup restore.objects = mirrored[restore.id]
    /\ restore.phase = "healthy" => restore.todo = {}

BackupInv ==
    /\ BackupTypeOK
    /\ \A p \in Processes : RunGood(run[p])
    /\ RunsApart
    /\ \A b \in Backups : BackupGood(b)
    /\ RestoreGood

-----------------------------------------------------------------------------
(* What leaves the invariant alone.                                        *)

(* A sealed backup stays sealed while its sets stay and its run goes on.   *)
LEMMA SealedKept ==
    ASSUME NEW b \in Backups, Sealed(b),
           record'[b].state # "none",
           steady'[b] \subseteq steady[b],
           dumped'[b] = dumped[b], mirrored'[b] = mirrored[b],
           \A q \in Processes : run'[q].id = b =>
               run[q].id = b /\ (run[q].phase \in Over => run'[q].phase \in Over)
    PROVE  Sealed(b)'
BY DEF Sealed

(* The run of a replica that stands still is as good as before.            *)
LEMMA OtherRunGood ==
    ASSUME BackupTypeOK, NEW q \in Processes, RunGood(run[q]), run'[q] = run[q],
           finish' \in Nat, finish' >= finish,
           \A c \in Backups : record[c].state \in {"failed", "verified"} =>
               record'[c].state = record[c].state /\ (Outlived(c) => Outlived(c)'),
           \A c \in Backups : run[q].phase = "finishing" => record'[c].nth # run[q].nth,
           run[q].id # None =>
               /\ record'[run[q].id].state = record[run[q].id].state
               /\ steady'[run[q].id] \subseteq steady[run[q].id]
               /\ dumped'[run[q].id] = dumped[run[q].id]
               /\ mirrored'[run[q].id] = mirrored[run[q].id]
               /\ record[run[q].id].state = "running" =>
                      artifact[run[q].id] \subseteq artifact'[run[q].id]
    PROVE  RunGood(run[q])'
<1> DEFINE r == run[q]
           b == r.id
<1>1. r \in Runs /\ r.nth \in Nat /\ finish \in Nat /\ r.prune \subseteq Backups
  BY DEF BackupTypeOK, Runs
<1>2. r.nth <= finish'
  BY <1>1 DEF RunGood
<1>3. \A c \in r.prune : /\ record'[c].state \in {"failed", "verified"}
                         /\ record'[c].state = "verified" => Outlived(c)'
  BY <1>1 DEF RunGood
<1>4. /\ r.phase = "idle" <=> b = None
      /\ {r.pump, r.upload} # {"none"} => r.phase = "dumping"
  BY DEF RunGood
<1>5. r.phase # "idle" => record'[b].state # "none"
  BY <1>4 DEF RunGood
<1>6. r.phase \in Running => record'[b].state = "running" /\ record[b].state = "running"
  BY <1>4 DEF RunGood, Running
<1>7. r.phase \in Running \ {"started"} => steady'[b] \subseteq dumped'[b]
  BY <1>4 DEF RunGood, Running
<1>8. r.phase = "mirroring" => steady'[b] \subseteq mirrored'[b] \cup r.todo
  BY <1>4 DEF RunGood
<1>9. r.phase \in Sealing => Manifest \in artifact'[b] /\ steady'[b] \subseteq mirrored'[b]
  BY <1>4, <1>6 DEF RunGood, Sealing, Running
<1>10. r.phase = "finishing" => /\ Whole(b)'
                                /\ r.nth > 0
                                /\ \A c \in Backups : record'[c].nth # r.nth
  BY <1>4, <1>6 DEF RunGood, Running, Whole
<1> QED
  BY <1>2, <1>3, <1>4, <1>5, <1>6, <1>7, <1>8, <1>9, <1>10 DEF RunGood

(* A backup that nothing touches is as good as before.                     *)
LEMMA OtherBackupGood ==
    ASSUME BackupTypeOK, NEW b \in Backups, BackupGood(b),
           finish' \in Nat, finish' >= finish,
           record'[b].state = record[b].state, record'[b].nth = record[b].nth,
           steady'[b] \subseteq steady[b],
           \A k \in steady'[b] : object'[k] = "live",
           dumped'[b] = dumped[b], mirrored'[b] = mirrored[b],
           record[b].state = "verified" => (Whole(b) \/ Outlived(b) => Whole(b)' \/ Outlived(b)'),
           Manifest \in artifact'[b] => Manifest \in artifact[b],
           record[b].state \in {"none", "running"} => artifact[b] \subseteq artifact'[b],
           Sealed(b) => Sealed(b)'
    PROVE  BackupGood(b)'
<1>1. record[b].nth \in Nat /\ finish \in Nat
  BY DEF BackupTypeOK, Records
<1>2. record'[b].nth <= finish'
  BY <1>1 DEF BackupGood
<1>3. record'[b].state = "verified" =>
         /\ steady'[b] \subseteq dumped'[b] \cap mirrored'[b]
         /\ Whole(b)' \/ Outlived(b)'
  BY DEF BackupGood
<1>4. Manifest \in artifact'[b] => Sealed(b)'
  BY DEF BackupGood
<1>5. record'[b].state # "verified" => record'[b].nth = 0
  BY DEF BackupGood
<1>6. record'[b].state \in {"none", "running"} => mirrored'[b] \subseteq artifact'[b]
  BY DEF BackupGood
<1> QED BY <1>2, <1>3, <1>4, <1>5, <1>6 DEF BackupGood

(* The restore stands still.                                               *)
LEMMA RestoreStays ==
    ASSUME RestoreGood, restore' = restore,
           \A b \in Backups : Sealed(b) =>
               Sealed(b)' /\ dumped'[b] = dumped[b] /\ mirrored'[b] = mirrored[b]
    PROVE  RestoreGood'
<1>1. CASE restore.phase \in {"loading", "objects", "healthy"}
  <2>1. restore.id \in Backups /\ Sealed(restore.id)
    BY <1>1 DEF RestoreGood
  <2>2. Sealed(restore.id)' /\ dumped'[restore.id] = dumped[restore.id]
                            /\ mirrored'[restore.id] = mirrored[restore.id]
    BY <2>1
  <2> QED BY <2>1, <2>2 DEF RestoreGood
<1>2. CASE restore.phase \notin {"loading", "objects", "healthy"}
  BY <1>2 DEF RestoreGood
<1> QED BY <1>1, <1>2

(* A step of the run of p, which concerns no backup but its own, b.        *)
LEMMA OwnStep ==
    ASSUME BackupInv, BackupTypeOK', NEW p \in Processes, NEW b \in Backups,
           run[p].id = b \/ (run[p].id = None /\ record[b].state = "none"),
           run'[p].id \in {b, None},
           \A q \in Processes \ {p} : run'[q] = run[q],
           \A c \in Backups \ {b} :
               /\ record'[c] = record[c] /\ artifact'[c] = artifact[c]
               /\ dumped'[c] = dumped[c] /\ mirrored'[c] = mirrored[c]
               /\ steady'[c] = steady[c],
           object' = object, restore' = restore, finish' >= finish,
           record[b].state \in {"failed", "verified"} =>
               /\ record'[b].state = record[b].state /\ record'[b].nth = record[b].nth
               /\ Whole(b) => Whole(b)',
           record'[b].nth \in {0, record[b].nth, run[p].nth},
           run'[p].nth \in {0, run[p].nth} \/ run'[p].nth > finish,
           Sealed(b) => Sealed(b)' /\ dumped'[b] = dumped[b] /\ mirrored'[b] = mirrored[b],
           RunGood(run[p])', BackupGood(b)'
    PROVE  BackupInv'
<1>1. /\ BackupTypeOK
      /\ \A q \in Processes : RunGood(run[q])
      /\ \A c \in Backups : BackupGood(c)
      /\ RunsApart
      /\ RestoreGood
      /\ None \notin Backups
  BY BackupAssumption DEF BackupInv
<1>2. \A q \in Processes \ {p} : run[q].id # b
  <2> SUFFICES ASSUME NEW q \in Processes \ {p}, run[q].id = b
               PROVE  FALSE
    OBVIOUS
  <2>1. CASE run[p].id = b
    BY <1>1, <2>1 DEF RunsApart
  <2>2. CASE record[b].state = "none"
    BY <1>1, <2>2 DEF RunGood
  <2> QED BY <2>1, <2>2
<1>3. ASSUME NEW c \in Backups, record[c].state \in {"failed", "verified"}, Outlived(c)
      PROVE  Outlived(c)'
  <2>1. PICK d \in Backups : record[d].state = "verified" /\ Whole(d) /\ record[d].nth > record[c].nth
    BY <1>3 DEF Outlived
  <2>2. record'[d].state = "verified" /\ Whole(d)' /\ record'[d].nth = record[d].nth
    <3>1. CASE d = b
      BY <2>1, <3>1
    <3>2. CASE d # b
      BY <2>1, <3>2 DEF Whole
    <3> QED BY <3>1, <3>2
  <2>3. record'[c].nth = record[c].nth
    BY <1>3
  <2> QED BY <2>1, <2>2, <2>3 DEF Outlived
<1>4. ASSUME NEW c \in Backups, Sealed(c)
      PROVE  Sealed(c)' /\ dumped'[c] = dumped[c] /\ mirrored'[c] = mirrored[c]
  <2>1. CASE c = b
    BY <1>4, <2>1
  <2>2. CASE c # b
    <3>1. record'[c].state # "none"
      BY <1>4, <2>2 DEF Sealed
    <3>2. \A q \in Processes : run'[q].id = c =>
              run[q].id = c /\ (run[q].phase \in Over => run'[q].phase \in Over)
      <4> SUFFICES ASSUME NEW q \in Processes, run'[q].id = c
                   PROVE  run'[q] = run[q]
        OBVIOUS
      <4>1. q # p
        BY <1>1, <2>2
      <4> QED BY <4>1
    <3>3. Sealed(c)'
      BY <1>4, <2>2, <3>1, <3>2, SealedKept
    <3> QED BY <2>2, <3>3
  <2> QED BY <2>1, <2>2
<1>5. ASSUME NEW q \in Processes \ {p}
      PROVE  RunGood(run[q])'
  <2> DEFINE c == run[q].id
  <2>1. finish \in Nat /\ finish' \in Nat
    BY <1>1 DEF BackupTypeOK
  <2>2. c # None => c \in Backups \ {b}
    BY <1>1, <1>2 DEF BackupTypeOK, Runs
  <2>3. c # None =>
            /\ record'[c].state = record[c].state
            /\ steady'[c] \subseteq steady[c]
            /\ dumped'[c] = dumped[c]
            /\ mirrored'[c] = mirrored[c]
            /\ record[c].state = "running" => artifact[c] \subseteq artifact'[c]
    BY <2>2
  <2>4. ASSUME NEW d \in Backups, run[q].phase = "finishing"
        PROVE  record'[d].nth # run[q].nth
    <3>1. run[q].nth \in Nat /\ run[q].nth > 0 /\ record[d].nth # run[q].nth
      BY <1>1, <2>4 DEF RunGood, BackupTypeOK, Runs
    <3>2. CASE d # b
      BY <3>1, <3>2
    <3>3. CASE d = b
      <4>1. run[p].nth # run[q].nth
        BY <1>1, <3>1 DEF RunsApart
      <4> QED BY <3>1, <3>3, <4>1
    <3> QED BY <3>2, <3>3
  <2>5. \A d \in Backups : record[d].state \in {"failed", "verified"} =>
            record'[d].state = record[d].state /\ (Outlived(d) => Outlived(d)')
    BY <1>3
  <2>6. RunGood(run[q]) /\ run'[q] = run[q]
    BY <1>1
  <2> QED BY <1>1, <2>1, <2>3, <2>4, <2>5, <2>6, OtherRunGood
<1>6. ASSUME NEW c \in Backups \ {b}
      PROVE  BackupGood(c)'
  <2>1. /\ finish' \in Nat /\ BackupGood(c)
        /\ record'[c] = record[c] /\ artifact'[c] = artifact[c]
        /\ dumped'[c] = dumped[c] /\ mirrored'[c] = mirrored[c] /\ steady'[c] = steady[c]
        /\ Sealed(c) => Sealed(c)'
    BY <1>1, <1>4 DEF BackupTypeOK
  <2>2. \A k \in steady'[c] : object'[k] = "live"
    BY <2>1 DEF BackupGood
  <2>3. record[c].state = "verified" => (Whole(c) \/ Outlived(c) => Whole(c)' \/ Outlived(c)')
    BY <1>3, <2>1 DEF Whole
  <2> QED BY <1>1, <2>1, <2>2, <2>3, OtherBackupGood
<1>7. RestoreGood'
  <2>1. \A c \in Backups : Sealed(c) =>
            Sealed(c)' /\ dumped'[c] = dumped[c] /\ mirrored'[c] = mirrored[c]
    BY <1>4
  <2>2. RestoreGood /\ restore' = restore
    BY <1>1
  <2> QED BY <2>1, <2>2, RestoreStays
<1>8. RunsApart'
  <2> SUFFICES ASSUME NEW q \in Processes \ {p}
               PROVE  /\ run'[p].id = run'[q].id => run'[p].id = None
                      /\ run'[p].nth = run'[q].nth => run'[p].nth = 0
    BY <1>1 DEF RunsApart
  <2>1. run'[q] = run[q]
    OBVIOUS
  <2>2. run'[p].id = run'[q].id => run'[p].id = None
    BY <1>2, <2>1
  <2>3. run[q].nth <= finish /\ run[q].nth \in Nat /\ finish \in Nat /\ run'[p].nth \in Nat
    BY <1>1 DEF RunGood, BackupTypeOK, Runs
  <2>4. run[p].nth = run[q].nth => run[p].nth = 0
    BY <1>1 DEF RunsApart
  <2> QED BY <2>1, <2>2, <2>3, <2>4
<1>9. \A q \in Processes : RunGood(run[q])'
  BY <1>5
<1>10. \A c \in Backups : BackupGood(c)'
  BY <1>6
<1> QED BY <1>7, <1>8, <1>9, <1>10 DEF BackupInv

-----------------------------------------------------------------------------
(* The catalogue.                                                          *)

(* The catalogue does not see a step that verifies nothing, and takes      *)
(* nothing from a verified backup.                                         *)
LEMMA CatalogueStutters ==
    ASSUME \A c \in Backups :
               /\ record'[c].state = record[c].state
                     \/ {"none", "verified"} \cap {record'[c].state, record[c].state} = {}
               /\ record'[c].nth = record[c].nth
               /\ record[c].state = "verified" => (Whole(c)' <=> Whole(c))
    PROVE  UNCHANGED <<status, done>>
<1>1. done' = done
  BY DEF done
<1>2. status' = status
  BY DEF status
<1> QED BY <1>1, <1>2

(* What every step is shown to do.                                         *)
StepGood == BackupInv' /\ (Catalogue!Next \/ UNCHANGED <<status, done>>)

-----------------------------------------------------------------------------
(* Steps that change nothing but the run they belong to.                   *)

(* Nothing changes but the run of p, which stays good.                     *)
LEMMA RunOnly ==
    ASSUME BackupInv, NEW p \in Processes, run[p].phase # "idle",
           run' \in [Processes -> Runs],
           \A q \in Processes \ {p} : run'[q] = run[q],
           run'[p].id \in {run[p].id, None},
           run[p].phase \in Over => run'[p].phase \in Over \cup {"idle"},
           run'[p].nth \in {0, run[p].nth} \/ run'[p].nth > finish,
           UNCHANGED <<day, object, landed, record, artifact, dumped, mirrored, steady, restore>>,
           finish' \in Nat, finish' >= finish, faults' \in Nat,
           RunGood(run[p])'
    PROVE  StepGood
<1>1. /\ BackupTypeOK
      /\ \A q \in Processes : RunGood(run[q])
      /\ RunsApart
      /\ \A c \in Backups : BackupGood(c)
      /\ None \notin Backups
  BY BackupAssumption DEF BackupInv
<1>2. PICK b \in Backups : b = run[p].id /\ b # None
  BY <1>1 DEF RunGood, BackupTypeOK, Runs
<1>3. BackupTypeOK'
  BY <1>1 DEF BackupTypeOK
<1>4. \A c \in Backups : Whole(c)' <=> Whole(c)
  BY DEF Whole
<1>5. ASSUME NEW c \in Backups
      PROVE  Outlived(c)' <=> Outlived(c)
  BY <1>4 DEF Outlived
<1>6. ASSUME Sealed(b)
      PROVE  Sealed(b)'
  <2>1. record'[b].state # "none" /\ steady'[b] \subseteq steady[b]
    BY <1>6 DEF Sealed
  <2>2. \A q \in Processes : run'[q].id = b =>
            run[q].id = b /\ (run[q].phase \in Over => run'[q].phase \in Over)
    <3> SUFFICES ASSUME NEW q \in Processes, run'[q].id = b
                 PROVE  run[q].id = b /\ (run[q].phase \in Over => run'[q].phase \in Over)
      OBVIOUS
    <3>1. CASE q # p
      BY <3>1
    <3>2. CASE q = p
      <4>1. run'[p].phase # "idle"
        BY <1>2, <3>2 DEF RunGood
      <4> QED BY <1>2, <3>2, <4>1
    <3> QED BY <3>1, <3>2
  <2>3. dumped'[b] = dumped[b] /\ mirrored'[b] = mirrored[b]
    OBVIOUS
  <2> QED BY <1>2, <1>6, <2>1, <2>2, <2>3, SealedKept
<1>7. BackupGood(b)'
  <2>1. finish \in Nat /\ BackupGood(b)
    BY <1>1, <1>2 DEF BackupTypeOK
  <2>2. \A k \in steady'[b] : object'[k] = "live"
    BY <2>1 DEF BackupGood
  <2>3. record[b].state = "verified" => (Whole(b) \/ Outlived(b) => Whole(b)' \/ Outlived(b)')
    BY <1>2, <1>4, <1>5
  <2>4. Sealed(b) => Sealed(b)'
    BY <1>6
  <2> QED BY <1>1, <1>2, <2>1, <2>2, <2>3, <2>4, OtherBackupGood
<1>8. BackupInv'
  <2>1. run[p].id = b /\ run'[p].id \in {b, None}
    BY <1>2
  <2>2. Whole(b) => Whole(b)'
    BY <1>2, <1>4
  <2>3. \A c \in Backups \ {b} :
            /\ record'[c] = record[c] /\ artifact'[c] = artifact[c]
            /\ dumped'[c] = dumped[c] /\ mirrored'[c] = mirrored[c]
            /\ steady'[c] = steady[c]
    OBVIOUS
  <2>4. Sealed(b) => Sealed(b)' /\ dumped'[b] = dumped[b] /\ mirrored'[b] = mirrored[b]
    BY <1>6
  <2>5. record'[b].nth \in {0, record[b].nth, run[p].nth}
    OBVIOUS
  <2> QED BY <1>2, <1>3, <1>7, <2>1, <2>2, <2>3, <2>4, <2>5, OwnStep
<1>9. UNCHANGED <<status, done>>
  BY <1>4, CatalogueStutters
<1> QED BY <1>8, <1>9 DEF StepGood

(* A run that goes on in its phase.                                        *)
LEMMA SamePhase ==
    ASSUME BackupInv, NEW p \in Processes, run[p].phase # "idle",
           run' \in [Processes -> Runs],
           \A q \in Processes \ {p} : run'[q] = run[q],
           run'[p].phase = run[p].phase, run'[p].id = run[p].id, run'[p].todo = run[p].todo,
           run'[p].nth = run[p].nth, run'[p].prune \subseteq run[p].prune,
           {run'[p].pump, run'[p].upload} # {"none"} => run[p].phase = "dumping",
           UNCHANGED <<day, object, landed, record, artifact, dumped, mirrored, steady, restore>>,
           finish' = finish, faults' \in Nat
    PROVE  StepGood
<1>1. RunGood(run[p]) /\ BackupTypeOK
  BY DEF BackupInv
<1>2. \A c \in Backups : Whole(c)' <=> Whole(c)
  BY DEF Whole
<1>3. ASSUME NEW c \in Backups
      PROVE  Outlived(c)' <=> Outlived(c)
  BY <1>2 DEF Outlived
<1>4. run[p].id # None => run[p].id \in Backups
  BY <1>1 DEF BackupTypeOK, Runs
<1>5. run[p].prune \subseteq Backups /\ finish \in Nat
  BY <1>1 DEF BackupTypeOK, Runs
<1>6. RunGood(run[p])'
  <2>1. \A c \in run'[p].prune : /\ record'[c].state \in {"failed", "verified"}
                                 /\ record'[c].state = "verified" => Outlived(c)'
    BY <1>1, <1>3, <1>5 DEF RunGood
  <2>2. run'[p].phase = "finishing" => Whole(run[p].id)'
    BY <1>1 DEF RunGood, Whole
  <2> QED BY <1>1, <2>1, <2>2 DEF RunGood
<1>7. finish' \in Nat /\ finish' >= finish
  BY <1>5
<1> QED BY <1>6, <1>7, RunOnly

(* A run that ends, whatever it was at.                                    *)
LEMMA RunEnds ==
    ASSUME BackupInv, NEW p \in Processes, run[p].phase # "idle",
           run' = [run EXCEPT ![p] = Idle],
           UNCHANGED <<day, object, landed, record, artifact, dumped, mirrored, steady, restore>>,
           finish' = finish, faults' \in Nat
    PROVE  StepGood
<1>1. BackupTypeOK /\ finish \in Nat /\ None \notin Backups
  BY BackupAssumption DEF BackupInv, BackupTypeOK
<1>2. /\ Idle \in Runs /\ Idle.phase = "idle" /\ Idle.id = None /\ Idle.nth = 0
      /\ Idle.prune = {} /\ Idle.pump = "none" /\ Idle.upload = "none"
  BY DEF Idle, Runs, Phases
<1>3. /\ run' \in [Processes -> Runs]
      /\ \A q \in Processes \ {p} : run'[q] = run[q]
      /\ run'[p] = Idle
  BY <1>1, <1>2 DEF BackupTypeOK
<1>4. RunGood(run[p])'
  BY <1>1, <1>2, <1>3 DEF RunGood, Running, Sealing
<1>5. finish' \in Nat /\ finish' >= finish
  BY <1>1
<1> QED BY <1>2, <1>3, <1>4, <1>5, RunOnly

(* The bridge of the dump: chunks go in, the dump ends or fails, the       *)
(* upload fails; chunks come out.                                          *)
LEMMA BridgeGood ==
    ASSUME BackupInv, NEW p \in Processes,
           \/ bridge_write(p) \/ dump_fails(p) \/ bridge_close(p) \/ upload_fails(p)
    PROVE  StepGood
<1>1. run \in [Processes -> Runs] /\ run[p] \in Runs /\ finish \in Nat /\ faults \in Nat
  BY DEF BackupInv, BackupTypeOK
<1>2. run[p].phase = "dumping"
  BY DEF BackupInv, RunGood, bridge_write, dump_fails, bridge_close, upload_fails
<1>3. /\ run' \in [Processes -> Runs]
      /\ \A q \in Processes \ {p} : run'[q] = run[q]
      /\ run'[p].phase = run[p].phase /\ run'[p].id = run[p].id /\ run'[p].todo = run[p].todo
      /\ run'[p].nth = run[p].nth /\ run'[p].prune = run[p].prune
  <2>1. CASE bridge_write(p)
    BY <1>1, <2>1 DEF bridge_write, Runs
  <2>2. CASE dump_fails(p)
    BY <1>1, <2>2 DEF dump_fails, Runs
  <2>3. CASE bridge_close(p)
    BY <1>1, <2>3 DEF bridge_close, Runs
  <2>4. CASE upload_fails(p)
    BY <1>1, <2>4 DEF upload_fails, Runs
  <2> QED BY <2>1, <2>2, <2>3, <2>4
<1>4. /\ UNCHANGED <<day, object, landed, record, artifact, dumped, mirrored, steady, restore>>
      /\ finish' = finish /\ faults' \in Nat
  BY <1>1 DEF bridge_write, dump_fails, bridge_close, upload_fails, clock, store, copies
<1> QED BY <1>2, <1>3, <1>4, SamePhase

(* A replica crashes, or a pruning run ends or fails.                      *)
LEMMA EndGood ==
    ASSUME BackupInv, NEW p \in Processes,
           retention_ends(p) \/ retention_fails(p) \/ crash(p)
    PROVE  StepGood
<1>1. finish \in Nat /\ faults \in Nat
  BY DEF BackupInv, BackupTypeOK
<1>2. /\ run[p].phase # "idle"
      /\ run' = [run EXCEPT ![p] = Idle]
      /\ UNCHANGED <<day, object, landed, record, artifact, dumped, mirrored, steady, restore>>
      /\ finish' = finish /\ faults' \in Nat
  BY <1>1 DEF retention_ends, retention_fails, crash, clock, store, copies
<1> QED BY <1>2, RunEnds

(* A run that enters its next phase.                                       *)
LEMMA NextPhase ==
    ASSUME BackupInv, NEW p \in Processes, NEW r \in Runs, run[p].phase # "idle",
           run' = [run EXCEPT ![p] = r],
           r.phase # "idle", r.id = run[p].id, r.pump = "none", r.upload = "none",
           run[p].phase \in Over => r.phase \in Over,
           r.phase \in Running => record[r.id].state = "running",
           r.phase \in Running \ {"started"} => steady[r.id] \subseteq dumped[r.id],
           r.phase = "mirroring" => steady[r.id] \subseteq mirrored[r.id] \cup r.todo,
           r.phase \in Sealing =>
               Manifest \in artifact[r.id] /\ steady[r.id] \subseteq mirrored[r.id],
           r.phase = "finishing" => Whole(r.id) /\ r.nth > finish /\ finish' = r.nth,
           r.phase # "finishing" => r.nth = run[p].nth /\ finish' = finish,
           \A c \in r.prune : /\ record[c].state \in {"failed", "verified"}
                              /\ record[c].state = "verified" => Outlived(c),
           UNCHANGED <<day, object, landed, record, artifact, dumped, mirrored, steady, restore>>,
           faults' \in Nat
    PROVE  StepGood
<1>1. /\ BackupTypeOK /\ RunGood(run[p]) /\ finish \in Nat
      /\ \A c \in Backups : BackupGood(c)
      /\ None \notin Backups
  BY BackupAssumption DEF BackupInv, BackupTypeOK
<1>2. /\ run' \in [Processes -> Runs]
      /\ run'[p] = r
      /\ \A q \in Processes \ {p} : run'[q] = run[q]
  BY <1>1 DEF BackupTypeOK
<1>3. r.id \in Backups /\ r.prune \subseteq Backups /\ r.nth \in Nat
  BY <1>1 DEF RunGood, Runs, BackupTypeOK
<1>4. finish' \in Nat /\ finish' >= finish
  BY <1>1, <1>3
<1>5. ASSUME NEW c \in Backups
      PROVE  Outlived(c)' <=> Outlived(c)
  BY DEF Outlived, Whole
<1>6. RunGood(run[p])'
  <2>1. r.phase = "finishing" =>
            /\ Whole(r.id)'
            /\ r.nth > 0
            /\ \A c \in Backups : record[c].nth # r.nth
    <3> SUFFICES ASSUME r.phase = "finishing"
                 PROVE  /\ Whole(r.id)'
                        /\ r.nth > 0
                        /\ \A c \in Backups : record[c].nth # r.nth
      OBVIOUS
    <3>1. Whole(r.id)'
      BY DEF Whole
    <3>2. \A c \in Backups : record[c].nth \in Nat /\ record[c].nth <= finish
      BY <1>1 DEF BackupGood, BackupTypeOK, Records
    <3> QED BY <1>1, <1>3, <3>1, <3>2
  <2>2. r.nth <= finish'
    BY <1>1, <1>3 DEF RunGood
  <2>3. \A c \in r.prune : /\ record'[c].state \in {"failed", "verified"}
                           /\ record'[c].state = "verified" => Outlived(c)'
    BY <1>3, <1>5
  <2>4. record[r.id].state # "none"
    BY <1>1 DEF RunGood
  <2> QED BY <1>1, <1>2, <1>3, <2>1, <2>2, <2>3, <2>4 DEF RunGood
<1>7. run'[p].nth \in {0, run[p].nth} \/ run'[p].nth > finish
  BY <1>1, <1>2
<1> QED BY <1>2, <1>4, <1>6, <1>7, RunOnly

(* The dump is stored and the run goes on to the mirror.                   *)
LEMMA JoinedGood ==
    ASSUME BackupInv, NEW p \in Processes, run[p].phase = "dumping",
           run' = [run EXCEPT ![p] = [Idle EXCEPT !.phase = "dumped", !.id = run[p].id]],
           UNCHANGED <<clock, store, record, artifact, copies, restore, faults>>
    PROVE  StepGood
<1> DEFINE r == [Idle EXCEPT !.phase = "dumped", !.id = run[p].id]
<1>1. BackupTypeOK /\ RunGood(run[p]) /\ run[p] \in Runs
  BY DEF BackupInv, BackupTypeOK
<1>2. /\ r \in Runs /\ r.phase = "dumped" /\ r.id = run[p].id /\ r.pump = "none"
      /\ r.upload = "none" /\ r.nth = 0 /\ r.prune = {}
  BY <1>1 DEF Idle, Runs, Phases
<1>3. record[r.id].state = "running" /\ steady[r.id] \subseteq dumped[r.id]
  BY <1>1, <1>2 DEF RunGood, Running
<1>4. run[p].phase \notin Over /\ r.phase \notin Sealing
  BY <1>2 DEF Over, Sealing
<1>5. /\ UNCHANGED <<day, object, landed, record, artifact, dumped, mirrored, steady, restore>>
      /\ finish' = finish /\ faults' \in Nat
  BY <1>1 DEF clock, store, copies, BackupTypeOK
<1>6. run' = [run EXCEPT ![p] = r]
  OBVIOUS
<1> HIDE DEF r
<1>7. /\ run' \in [Processes -> Runs]
      /\ run'[p] = r
      /\ \A q \in Processes \ {p} : run'[q] = run[q]
  BY <1>1, <1>2, <1>6 DEF BackupTypeOK
<1>8. RunGood(run[p])'
  <2>1. r.id # None /\ finish \in Nat
    BY <1>1, <1>2 DEF RunGood, BackupTypeOK
  <2>2. record'[r.id].state = "running" /\ steady'[r.id] \subseteq dumped'[r.id]
    BY <1>3, <1>5
  <2>3. r.nth <= finish' /\ {r.pump, r.upload} = {"none"}
    BY <1>2, <1>5, <2>1
  <2> QED BY <1>2, <1>4, <1>7, <2>1, <2>2, <2>3 DEF RunGood
<1>9. finish' \in Nat /\ finish' >= finish
  BY <1>1, <1>5 DEF BackupTypeOK
<1> QED BY <1>2, <1>4, <1>5, <1>7, <1>8, <1>9, RunOnly

(* The listing names every steady file.                                    *)
LEMMA ListsGood ==
    ASSUME BackupInv, NEW p \in Processes, mirror_lists(p)
    PROVE  StepGood
<1> DEFINE r == [run[p] EXCEPT !.phase = "mirroring", !.todo = {k \in Keys : HasObject(k)}]
<1>1. BackupTypeOK /\ RunGood(run[p]) /\ run[p] \in Runs /\ run[p].phase = "dumped"
  BY DEF BackupInv, BackupTypeOK, mirror_lists
<1>2. /\ r \in Runs /\ r.phase = "mirroring" /\ r.id = run[p].id /\ r.pump = run[p].pump
      /\ r.upload = run[p].upload /\ r.nth = run[p].nth /\ r.prune = run[p].prune
      /\ r.todo = {k \in Keys : HasObject(k)}
  BY <1>1 DEF Runs, Phases
<1>3. run' = [run EXCEPT ![p] = r]
  BY <1>1 DEF mirror_lists, BackupTypeOK
<1>4. /\ UNCHANGED <<day, object, landed, record, artifact, dumped, mirrored, steady, restore>>
      /\ finish' = finish /\ faults' \in Nat
  BY <1>1 DEF mirror_lists, clock, store, copies, BackupTypeOK
<1> HIDE DEF r
<1>5. /\ run[p].id \in Backups /\ run[p].pump = "none" /\ run[p].upload = "none"
      /\ record[run[p].id].state = "running" /\ steady[run[p].id] \subseteq dumped[run[p].id]
  BY <1>1 DEF RunGood, Running, Runs
<1>6. steady[run[p].id] \subseteq r.todo
  <2>1. BackupGood(run[p].id) /\ steady[run[p].id] \subseteq Keys
    BY <1>1, <1>5 DEF BackupInv, BackupTypeOK
  <2> QED BY <1>2, <2>1 DEF BackupGood, HasObject
<1>7. \A c \in r.prune : /\ record[c].state \in {"failed", "verified"}
                         /\ record[c].state = "verified" => Outlived(c)
  BY <1>1, <1>2 DEF RunGood
<1>8. r.phase \notin Sealing /\ run[p].phase \notin Over
  BY <1>1, <1>2 DEF Sealing, Over
<1> QED BY <1>1, <1>2, <1>3, <1>4, <1>5, <1>6, <1>7, <1>8, NextPhase

(* The comparison with the live database.                                  *)
LEMMA ComparedGood ==
    ASSUME BackupInv, NEW p \in Processes, skew_compared(p)
    PROVE  StepGood
<1> DEFINE s == ~ NoSkew(mirrored[run[p].id], {k \in Keys : HasRow(k)}, run[p].flight)
           r == [run[p] EXCEPT !.phase = "verifying", !.flight = {}, !.skew = s]
<1>1. BackupTypeOK /\ RunGood(run[p]) /\ run[p] \in Runs /\ run[p].phase = "comparing"
  BY DEF BackupInv, BackupTypeOK, skew_compared
<1>2. s \in BOOLEAN
  BY DEF NoSkew
<1>3. run' = [run EXCEPT ![p] = r]
  BY <1>1 DEF skew_compared, BackupTypeOK
<1> HIDE DEF s
<1>4. /\ r \in Runs /\ r.phase = "verifying" /\ r.id = run[p].id /\ r.pump = run[p].pump
      /\ r.upload = run[p].upload /\ r.nth = run[p].nth /\ r.prune = run[p].prune
  BY <1>1, <1>2 DEF Runs, Phases
<1>5. /\ UNCHANGED <<day, object, landed, record, artifact, dumped, mirrored, steady, restore>>
      /\ finish' = finish /\ faults' \in Nat
  BY <1>1 DEF skew_compared, clock, store, copies, BackupTypeOK
<1> HIDE DEF r
<1>6. /\ run[p].id \in Backups /\ run[p].pump = "none" /\ run[p].upload = "none"
      /\ record[run[p].id].state = "running" /\ steady[run[p].id] \subseteq dumped[run[p].id]
      /\ Manifest \in artifact[run[p].id] /\ steady[run[p].id] \subseteq mirrored[run[p].id]
      /\ \A c \in run[p].prune : /\ record[c].state \in {"failed", "verified"}
                                 /\ record[c].state = "verified" => Outlived(c)
  BY <1>1 DEF RunGood, Running, Sealing, Runs
<1>7. r.phase \in Over
  BY <1>4 DEF Over, Sealing
<1> QED BY <1>1, <1>3, <1>4, <1>5, <1>6, <1>7, NextPhase

(* A verification that succeeds has read the dump and a sample.  The       *)
(* backup is whole, as nothing was taken from it while it ran; and it gets *)
(* a finish time that no other backup or run has.                          *)
LEMMA VerifiedGood ==
    ASSUME BackupInv, NEW p \in Processes, verified(p), ~ Fail(p)
    PROVE  StepGood
<1> DEFINE t == finish + 1
           r == [run[p] EXCEPT !.phase = "finishing", !.nth = t, !.day = day]
<1>1. /\ BackupTypeOK /\ RunGood(run[p]) /\ run[p] \in Runs /\ finish \in Nat /\ day \in Nat
      /\ run[p].phase = "verifying"
  BY DEF BackupInv, BackupTypeOK, verified
<1>2. t \in Nat /\ finish' = t
  BY <1>1 DEF verified
<1>3. run' = [run EXCEPT ![p] = r]
  <2> HIDE DEF t
  <2> QED BY <1>1, <1>2 DEF BackupTypeOK, verified
<1>4. /\ r \in Runs /\ r.phase = "finishing" /\ r.id = run[p].id /\ r.pump = run[p].pump
      /\ r.upload = run[p].upload /\ r.nth = t /\ r.prune = run[p].prune
  <2> HIDE DEF t
  <2> QED BY <1>1, <1>2 DEF Runs, Phases
<1>5. /\ UNCHANGED <<day, object, landed, record, artifact, dumped, mirrored, steady, restore>>
      /\ faults' \in Nat
  BY <1>1 DEF verified, store, copies, BackupTypeOK
<1> HIDE DEF r
<1>6. /\ run[p].id \in Backups /\ run[p].pump = "none" /\ run[p].upload = "none"
      /\ record[run[p].id].state = "running" /\ steady[run[p].id] \subseteq dumped[run[p].id]
      /\ Manifest \in artifact[run[p].id] /\ steady[run[p].id] \subseteq mirrored[run[p].id]
      /\ \A c \in run[p].prune : /\ record[c].state \in {"failed", "verified"}
                                 /\ record[c].state = "verified" => Outlived(c)
  BY <1>1 DEF RunGood, Running, Sealing, Runs
<1>7. r.phase \in Over
  BY <1>4 DEF Over, Sealing
<1>8. Whole(r.id) /\ r.nth > finish /\ finish' = r.nth
  <2>1. mirrored[run[p].id] \subseteq artifact[run[p].id]
    BY <1>6 DEF BackupInv, BackupGood
  <2>2. Dump \in artifact[run[p].id]
    BY DEF verified
  <2> QED BY <1>1, <1>2, <1>4, <1>6, <2>1, <2>2 DEF Whole
<1> QED BY <1>1, <1>3, <1>4, <1>5, <1>6, <1>7, <1>8, NextPhase

(* Retention takes a verified backup only if there is a later one, and     *)
(* that one, or a still later one, is complete.                            *)
LEMMA DecidedGood ==
    ASSUME BackupInv, NEW p \in Processes, retention_decided(p)
    PROVE  StepGood
<1> DEFINE history == {b \in Backups : /\ record[b].state # "none"
                                       /\ record[b].started >= day - HistoryDays}
           whole == {b \in history : record[b].state = "verified"}
           prune == (whole \ Kept(whole)) \cup ExpiredFailed(history)
           r == [run[p] EXCEPT !.phase = "deleting", !.prune = prune]
<1>1. BackupTypeOK /\ RunGood(run[p]) /\ run[p] \in Runs /\ run[p].phase = "pruning"
  BY DEF BackupInv, BackupTypeOK, retention_decided
<1>2. run' = [run EXCEPT ![p] = r]
  BY <1>1 DEF retention_decided, BackupTypeOK
<1>3. prune \subseteq Backups
  BY DEF ExpiredFailed
<1>4. ASSUME NEW c \in prune
      PROVE  /\ record[c].state \in {"failed", "verified"}
             /\ record[c].state = "verified" => Outlived(c)
  <2>1. CASE c \in ExpiredFailed(history)
    BY <2>1 DEF ExpiredFailed
  <2>2. CASE c \in whole \ Kept(whole)
    <3>1. c \in whole /\ c \notin Newest(whole)
      BY <2>2 DEF Kept
    <3>2. PICK d \in whole : ~(record[d].nth <= record[c].nth)
      BY <3>1 DEF Newest
    <3>3. /\ c \in Backups /\ d \in Backups
          /\ record[c].nth \in Nat /\ record[d].nth \in Nat
          /\ record[c].state = "verified" /\ record[d].state = "verified"
      BY <1>1, <3>1, <3>2 DEF BackupTypeOK, Records
    <3>4. record[d].nth > record[c].nth
      BY <3>2, <3>3
    <3>5. Whole(d) \/ Outlived(d)
      BY <3>3 DEF BackupInv, BackupGood
    <3>6. CASE Whole(d)
      BY <3>3, <3>4, <3>6 DEF Outlived
    <3>7. CASE Outlived(d)
      <4>1. PICK e \in Backups : /\ record[e].state = "verified" /\ Whole(e)
                                 /\ record[e].nth > record[d].nth
        BY <3>7 DEF Outlived
      <4>2. record[e].nth \in Nat
        BY <1>1 DEF BackupTypeOK, Records
      <4>3. record[e].nth > record[c].nth
        BY <3>3, <3>4, <4>1, <4>2
      <4> QED BY <3>3, <4>1, <4>3 DEF Outlived
    <3> QED BY <3>5, <3>6, <3>7
  <2> QED BY <2>1, <2>2
<1> HIDE DEF prune
<1>5. /\ r \in Runs /\ r.phase = "deleting" /\ r.id = run[p].id /\ r.pump = run[p].pump
      /\ r.upload = run[p].upload /\ r.nth = run[p].nth /\ r.prune = prune
  BY <1>1, <1>3 DEF Runs, Phases
<1>6. /\ UNCHANGED <<day, object, landed, record, artifact, dumped, mirrored, steady, restore>>
      /\ finish' = finish /\ faults' \in Nat
  BY <1>1 DEF retention_decided, clock, store, copies, BackupTypeOK
<1> HIDE DEF r
<1>7. run[p].pump = "none" /\ run[p].upload = "none"
  BY <1>1 DEF RunGood
<1>8. r.phase \in Over /\ r.phase \notin Running /\ r.phase \notin Sealing
  BY <1>5 DEF Over, Running, Sealing
<1> QED BY <1>1, <1>2, <1>4, <1>5, <1>6, <1>7, <1>8, NextPhase

-----------------------------------------------------------------------------
(* Steps of a run on its own backup.                                       *)

(* The backup of a run that is under way.                                  *)
LEMMA OwnBackup ==
    ASSUME BackupInv, NEW p \in Processes, run[p].phase \in Running
    PROVE  \E b \in Backups :
             /\ b = run[p].id /\ b # None
             /\ record[b].state = "running" /\ record[b].nth = 0
             /\ BackupGood(b) /\ RunGood(run[p])
             /\ run[p].phase \notin Over => ~Sealed(b) /\ Manifest \notin artifact[b]
             /\ \A q \in Processes \ {p} : run[q].id # b
<1>1. /\ BackupTypeOK /\ RunGood(run[p]) /\ None \notin Backups
      /\ \A c \in Backups : BackupGood(c)
      /\ RunsApart
  BY BackupAssumption DEF BackupInv
<1>2. run[p].phase # "idle"
  BY DEF Running
<1>3. run[p].id \in Backups /\ record[run[p].id].state = "running"
  BY <1>1, <1>2 DEF RunGood, BackupTypeOK, Runs
<1>4. BackupGood(run[p].id)
  BY <1>1, <1>3
<1>5. record[run[p].id].nth = 0
  BY <1>3, <1>4 DEF BackupGood
<1>6. run[p].phase \notin Over => ~Sealed(run[p].id)
  BY DEF Sealed
<1>7. \A q \in Processes \ {p} : run[q].id # run[p].id
  BY <1>1, <1>3 DEF RunsApart
<1> QED BY <1>1, <1>3, <1>4, <1>5, <1>6, <1>7 DEF BackupGood

(* A run fails.                                                            *)
LEMMA FailGood ==
    ASSUME BackupInv, NEW p \in Processes, run[p].phase \in Running, Fail(p),
           UNCHANGED <<day, finish, object, landed, artifact, dumped, mirrored, steady, restore>>,
           faults' \in Nat
    PROVE  StepGood
<1>1. BackupTypeOK /\ finish \in Nat /\ None \notin Backups
  BY BackupAssumption DEF BackupInv, BackupTypeOK
<1>2. PICK b \in Backups :
             /\ b = run[p].id /\ b # None
             /\ record[b].state = "running" /\ record[b].nth = 0
             /\ BackupGood(b) /\ RunGood(run[p])
             /\ run[p].phase \notin Over => ~Sealed(b) /\ Manifest \notin artifact[b]
             /\ \A q \in Processes \ {p} : run[q].id # b
  BY OwnBackup
<1>3. /\ Idle \in Runs /\ Idle.phase = "idle" /\ Idle.id = None /\ Idle.nth = 0
      /\ Idle.prune = {} /\ Idle.pump = "none" /\ Idle.upload = "none"
  BY DEF Idle, Runs, Phases
<1>4. /\ run' \in [Processes -> Runs]
      /\ \A q \in Processes \ {p} : run'[q] = run[q]
      /\ run'[p] = Idle
  BY <1>1, <1>3 DEF BackupTypeOK, Fail
<1>5. /\ record' \in [Backups -> Records]
      /\ record'[b].state = "failed" /\ record'[b].nth = record[b].nth
      /\ \A c \in Backups \ {b} : record'[c] = record[c]
  <2>1. record' = [record EXCEPT ![b].state = "failed", ![b].day = day]
    BY <1>2 DEF Fail
  <2>2. record \in [Backups -> Records] /\ day \in Nat
    BY <1>1 DEF BackupTypeOK
  <2> QED BY <2>1, <2>2 DEF Records
<1>6. BackupTypeOK'
  BY <1>1, <1>4, <1>5 DEF BackupTypeOK
<1>7. RunGood(run[p])'
  BY <1>1, <1>3, <1>4 DEF RunGood, Running, Sealing
<1>8. ASSUME Sealed(b)
      PROVE  Sealed(b)'
  <2>1. \A q \in Processes : run'[q].id # b
    BY <1>2, <1>3, <1>4
  <2> QED BY <1>5, <1>8, <2>1 DEF Sealed
<1>9. BackupGood(b)'
  <2>1. \A k \in steady'[b] : object'[k] = "live"
    BY <1>2 DEF BackupGood
  <2>2. Manifest \in artifact'[b] => Sealed(b)'
    BY <1>2, <1>8 DEF BackupGood
  <2> QED BY <1>1, <1>2, <1>5, <2>1, <2>2 DEF BackupGood
<1>10. BackupInv'
  <2>1. Sealed(b) => Sealed(b)' /\ dumped'[b] = dumped[b] /\ mirrored'[b] = mirrored[b]
    BY <1>8
  <2>2. finish' >= finish
    BY <1>1
  <2> QED BY <1>2, <1>3, <1>4, <1>5, <1>6, <1>7, <1>9, <2>1, <2>2, OwnStep
<1>11. UNCHANGED <<status, done>>
  <2>1. \A c \in Backups : Whole(c)' <=> Whole(c)
    BY DEF Whole
  <2>2. \A c \in Backups :
               /\ record'[c].state = record[c].state
                     \/ {"none", "verified"} \cap {record'[c].state, record[c].state} = {}
               /\ record'[c].nth = record[c].nth
    BY <1>2, <1>5
  <2> QED BY <2>1, <2>2, CatalogueStutters
<1> QED BY <1>10, <1>11 DEF StepGood

(* A run begins.                                                           *)
LEMMA TriggerGood ==
    ASSUME BackupInv, NEW p \in Processes, trigger(p)
    PROVE  StepGood
<1>1. /\ BackupTypeOK /\ finish \in Nat /\ None \notin Backups /\ day \in Nat
      /\ RunGood(run[p])
      /\ \A q \in Processes : RunGood(run[q])
  BY BackupAssumption DEF BackupInv, BackupTypeOK
<1>2. PICK b \in Backups :
        /\ run[p].phase = "idle"
        /\ record[b].state = "none"
        /\ run' = [run EXCEPT ![p] = [Idle EXCEPT !.phase = "started", !.id = b]]
        /\ record' = [record EXCEPT ![b].state = "running", ![b].started = day]
        /\ steady' = [steady EXCEPT ![b] = {k \in Keys : object[k] = "live"}]
        /\ UNCHANGED <<clock, store, artifact, dumped, mirrored, restore, faults>>
  BY DEF trigger
<1> DEFINE r == [Idle EXCEPT !.phase = "started", !.id = b]
<1>3. /\ r \in Runs /\ r.phase = "started" /\ r.id = b /\ r.nth = 0
      /\ r.prune = {} /\ r.pump = "none" /\ r.upload = "none"
  BY DEF Idle, Runs, Phases
<1> HIDE DEF r
<1>4. /\ run' \in [Processes -> Runs]
      /\ \A q \in Processes \ {p} : run'[q] = run[q]
      /\ run'[p] = r
  BY <1>1, <1>2, <1>3 DEF BackupTypeOK, r
<1>5. /\ record' \in [Backups -> Records]
      /\ record'[b].state = "running" /\ record'[b].nth = record[b].nth
      /\ \A c \in Backups \ {b} : record'[c] = record[c]
  <2>1. record \in [Backups -> Records] /\ record[b] \in Records
    BY <1>1 DEF BackupTypeOK
  <2>2. PICK z : z = [record[b] EXCEPT !.state = "running", !.started = day]
    OBVIOUS
  <2>3. z \in Records /\ z.state = "running" /\ z.nth = record[b].nth
    BY <1>1, <2>1, <2>2 DEF Records
  <2>4. record' = [record EXCEPT ![b] = z]
    BY <1>2, <2>1, <2>2
  <2> QED BY <2>1, <2>3, <2>4
<1>6. /\ steady' \in [Backups -> SUBSET Keys]
      /\ \A k \in steady'[b] : object[k] = "live"
      /\ \A c \in Backups \ {b} : steady'[c] = steady[c]
  BY <1>1, <1>2 DEF BackupTypeOK
<1>7. UNCHANGED <<day, finish, object, landed, artifact, dumped, mirrored, restore, faults>>
  BY <1>2 DEF clock, store
<1>8. BackupTypeOK'
  BY <1>1, <1>4, <1>5, <1>6, <1>7 DEF BackupTypeOK
<1>9. RunGood(run[p])'
  BY <1>1, <1>3, <1>4, <1>5, <1>7 DEF RunGood, Running, Sealing
<1>10. BackupGood(b) /\ ~Sealed(b) /\ run[p].id = None
  BY <1>1, <1>2 DEF BackupInv, Sealed, RunGood
<1>11. BackupGood(b)'
  BY <1>1, <1>2, <1>5, <1>6, <1>7, <1>10 DEF BackupGood
<1>12. BackupInv'
  <2>1. finish' >= finish
    BY <1>1, <1>7
  <2>2. \A c \in Backups \ {b} :
               /\ record'[c] = record[c] /\ artifact'[c] = artifact[c]
               /\ dumped'[c] = dumped[c] /\ mirrored'[c] = mirrored[c]
               /\ steady'[c] = steady[c]
    BY <1>5, <1>6, <1>7
  <2>3. /\ object' = object /\ restore' = restore /\ run'[p].id = b /\ run'[p].nth = 0
        /\ record[b].state = "none"
    BY <1>2, <1>3, <1>4, <1>7
  <2> QED BY <1>4, <1>5, <1>8, <1>9, <1>10, <1>11, <2>1, <2>2, <2>3, OwnStep
<1>13. Catalogue!Begin(b)
  <2>1. \A c \in Backups : Whole(c)' <=> Whole(c)
    BY <1>7 DEF Whole
  <2>2. status[b] = "absent" /\ done' = done
    BY <1>2, <1>5 DEF status, done
  <2>3. status' = [status EXCEPT ![b] = "partial"]
    BY <1>2, <1>5, <2>1 DEF status
  <2> QED BY <2>2, <2>3 DEF Catalogue!Begin
<1> QED BY <1>12, <1>13 DEF StepGood, Catalogue!Next

(* The dump reads its snapshot: every live row.                            *)
LEMMA DumpStartedGood ==
    ASSUME BackupInv, NEW p \in Processes, dump_started(p)
    PROVE  StepGood
<1>1. BackupTypeOK /\ run[p] \in Runs /\ finish \in Nat /\ run[p].phase = "started"
  BY DEF BackupInv, BackupTypeOK, dump_started
<1>2. PICK b \in Backups :
             /\ b = run[p].id /\ b # None
             /\ record[b].state = "running" /\ record[b].nth = 0
             /\ BackupGood(b) /\ RunGood(run[p])
             /\ run[p].phase \notin Over => ~Sealed(b) /\ Manifest \notin artifact[b]
             /\ \A q \in Processes \ {p} : run[q].id # b
  BY <1>1, OwnBackup DEF Running
<1>3. /\ run' \in [Processes -> Runs]
      /\ \A q \in Processes \ {p} : run'[q] = run[q]
      /\ run'[p].phase = "dumping" /\ run'[p].id = run[p].id
      /\ run'[p].nth = run[p].nth /\ run'[p].prune = run[p].prune
  BY <1>1, BackupAssumption DEF dump_started, BackupTypeOK, Runs, Phases
<1>4. UNCHANGED <<day, finish, object, landed, record, artifact, mirrored, steady, restore, faults>>
  BY DEF dump_started, clock, store
<1>5. /\ dumped' \in [Backups -> SUBSET Keys]
      /\ dumped'[b] = {k \in Keys : HasRow(k)}
      /\ \A c \in Backups \ {b} : dumped'[c] = dumped[c]
  BY <1>1, <1>2 DEF dump_started, BackupTypeOK
<1>6. BackupTypeOK'
  BY <1>1, <1>3, <1>4, <1>5 DEF BackupTypeOK
<1>7. steady'[b] \subseteq dumped'[b]
  BY <1>1, <1>2, <1>4, <1>5 DEF BackupGood, HasRow, BackupTypeOK
<1>8. run[p].phase \notin Over
  BY <1>1 DEF Over, Sealing
<1>9. RunGood(run[p])'
  <2>1. ASSUME NEW c \in Backups
        PROVE  Outlived(c)' <=> Outlived(c)
    BY <1>4 DEF Outlived, Whole
  <2>2. \A c \in run'[p].prune : /\ record'[c].state \in {"failed", "verified"}
                                 /\ record'[c].state = "verified" => Outlived(c)'
    BY <1>1, <1>2, <1>3, <1>4, <2>1 DEF RunGood, Runs
  <2>3. run'[p].nth <= finish' /\ record'[run'[p].id].state = "running" /\ run'[p].id # None
        /\ steady'[run'[p].id] \subseteq dumped'[run'[p].id]
    BY <1>2, <1>3, <1>4, <1>7 DEF RunGood
  <2> QED BY <1>3, <2>2, <2>3 DEF RunGood, Sealing
<1>10. BackupGood(b)'
  BY <1>2, <1>4, <1>8 DEF BackupGood
<1>11. BackupInv'
  <2>1. finish' >= finish
    BY <1>1, <1>4
  <2>2. \A c \in Backups \ {b} :
               /\ record'[c] = record[c] /\ artifact'[c] = artifact[c]
               /\ dumped'[c] = dumped[c] /\ mirrored'[c] = mirrored[c]
               /\ steady'[c] = steady[c]
    BY <1>4, <1>5
  <2>3. /\ object' = object /\ restore' = restore /\ run'[p].id = b /\ run[p].id = b
        /\ record'[b].nth = 0 /\ ~Sealed(b)
    BY <1>2, <1>3, <1>4, <1>8
  <2> QED BY <1>2, <1>3, <1>6, <1>9, <1>10, <2>1, <2>2, <2>3, OwnStep
<1>12. UNCHANGED <<status, done>>
  BY <1>4, CatalogueStutters DEF Whole
<1> QED BY <1>11, <1>12 DEF StepGood

(* A run of which nothing is sealed yet adds an artifact, and perhaps a    *)
(* mirrored object, to its backup.                                         *)
LEMMA ArtifactAdded ==
    ASSUME BackupInv, NEW p \in Processes, NEW a \in Keys \cup {Dump}, NEW M \in SUBSET Keys,
           M \subseteq {a}, run[p].phase \in Running, run[p].phase \notin Over,
           run' \in [Processes -> Runs],
           \A q \in Processes \ {p} : run'[q] = run[q],
           run'[p].phase = run[p].phase, run'[p].id = run[p].id,
           run'[p].nth = run[p].nth, run'[p].prune = run[p].prune,
           {run'[p].pump, run'[p].upload} # {"none"} => run[p].phase = "dumping",
           run[p].todo \subseteq run'[p].todo \cup M,
           artifact' = [artifact EXCEPT ![run[p].id] = @ \cup {a}],
           mirrored' = [mirrored EXCEPT ![run[p].id] = @ \cup M],
           UNCHANGED <<day, finish, object, landed, record, dumped, steady, restore, faults>>
    PROVE  StepGood
<1>1. /\ BackupTypeOK /\ run[p] \in Runs /\ finish \in Nat /\ a # Manifest
      /\ a \in Keys \cup {Dump, Manifest}
  BY BackupAssumption DEF BackupInv, BackupTypeOK
<1>2. PICK b \in Backups :
             /\ b = run[p].id /\ b # None
             /\ record[b].state = "running" /\ record[b].nth = 0
             /\ BackupGood(b) /\ RunGood(run[p])
             /\ run[p].phase \notin Over => ~Sealed(b) /\ Manifest \notin artifact[b]
             /\ \A q \in Processes \ {p} : run[q].id # b
  BY OwnBackup
<1>3. /\ artifact' \in [Backups -> SUBSET (Keys \cup {Dump, Manifest})]
      /\ artifact'[b] = artifact[b] \cup {a}
      /\ \A c \in Backups \ {b} : artifact'[c] = artifact[c]
  BY <1>1, <1>2 DEF BackupTypeOK
<1>4. /\ mirrored' \in [Backups -> SUBSET Keys]
      /\ mirrored'[b] = mirrored[b] \cup M
      /\ \A c \in Backups \ {b} : mirrored'[c] = mirrored[c]
  BY <1>1, <1>2 DEF BackupTypeOK
<1>5. BackupTypeOK'
  BY <1>1, <1>3, <1>4 DEF BackupTypeOK
<1>6. \A c \in Backups : record[c].state # "running" => (Whole(c)' <=> Whole(c))
  BY <1>2, <1>3, <1>4 DEF Whole
<1>7. RunGood(run[p])'
  <2>1. ASSUME NEW c \in Backups, Outlived(c)
        PROVE  Outlived(c)'
    BY <1>6, <2>1 DEF Outlived
  <2>2. \A c \in run'[p].prune : /\ record'[c].state \in {"failed", "verified"}
                                 /\ record'[c].state = "verified" => Outlived(c)'
    BY <1>1, <1>2, <2>1 DEF RunGood, Runs
  <2>3. run'[p].phase \in Running \ {"started"} => steady'[b] \subseteq dumped'[b]
    BY <1>2 DEF RunGood
  <2>4. run'[p].phase = "mirroring" => steady'[b] \subseteq mirrored'[b] \cup run'[p].todo
    BY <1>2, <1>4 DEF RunGood
  <2>5. run'[p].phase \notin Sealing /\ run'[p].phase # "finishing"
    BY DEF Over, Sealing
  <2>6. run'[p].phase # "idle" /\ run'[p].id = b /\ run'[p].nth <= finish'
    BY <1>2 DEF RunGood, Running
  <2> QED BY <1>2, <2>2, <2>3, <2>4, <2>5, <2>6 DEF RunGood
<1>8. BackupGood(b)'
  BY <1>1, <1>2, <1>3, <1>4 DEF BackupGood
<1>9. BackupInv'
  <2>1. finish' >= finish
    BY <1>1
  <2>2. \A c \in Backups \ {b} :
               /\ record'[c] = record[c] /\ artifact'[c] = artifact[c]
               /\ dumped'[c] = dumped[c] /\ mirrored'[c] = mirrored[c]
               /\ steady'[c] = steady[c]
    BY <1>3, <1>4
  <2>3. /\ object' = object /\ restore' = restore /\ run'[p].id = b /\ run[p].id = b
        /\ record'[b].nth = 0 /\ ~Sealed(b)
    BY <1>2
  <2> QED BY <1>2, <1>5, <1>7, <1>8, <2>1, <2>2, <2>3, OwnStep
<1>10. UNCHANGED <<status, done>>
  BY <1>6, CatalogueStutters
<1> QED BY <1>9, <1>10 DEF StepGood

(* The upload takes a chunk, or the end marker.                            *)
LEMMA BridgeReadGood ==
    ASSUME BackupInv, NEW p \in Processes, bridge_read(p)
    PROVE  StepGood
<1>1. /\ BackupTypeOK /\ run \in [Processes -> Runs] /\ run[p] \in Runs
      /\ faults \in Nat /\ RunGood(run[p])
  BY DEF BackupInv, BackupTypeOK
<1>2. run[p].phase = "dumping"
  BY <1>1 DEF RunGood, bridge_read
<1>3. /\ run' \in [Processes -> Runs]
      /\ \A q \in Processes \ {p} : run'[q] = run[q]
      /\ run'[p].phase = run[p].phase /\ run'[p].id = run[p].id /\ run'[p].todo = run[p].todo
      /\ run'[p].nth = run[p].nth /\ run'[p].prune = run[p].prune
  <2>1. PICK u \in {"stored", run[p].upload} :
            run' = [run EXCEPT ![p].queue = run[p].queue - 1, ![p].upload = u]
    BY DEF bridge_read
  <2>2. u \in {"none", "putting", "stored", "failed"} /\ run[p].queue > 0
    BY <1>1 DEF Runs, bridge_read
  <2>3. run[p].queue - 1 \in Nat
    BY <1>1, <2>2 DEF Runs
  <2> QED BY <1>1, <2>1, <2>2, <2>3 DEF Runs
<1>4. UNCHANGED <<day, finish, object, landed, record, dumped, mirrored, steady, restore, faults>>
  BY DEF bridge_read, clock, store, copies
<1>5. CASE artifact' = artifact
  BY <1>1, <1>2, <1>3, <1>4, <1>5, SamePhase
<1>6. CASE artifact' = [artifact EXCEPT ![run[p].id] = @ \cup {Dump}]
  <2>4. PICK M \in SUBSET Keys : M = {}
    OBVIOUS
  <2>1. mirrored' = [mirrored EXCEPT ![run[p].id] = @ \cup M]
    BY <1>1, <1>4, <2>4 DEF BackupTypeOK
  <2>2. run[p].phase \in Running /\ run[p].phase \notin Over
    BY <1>2 DEF Running, Over, Sealing
  <2>3. run[p].todo \subseteq run'[p].todo \cup M /\ M \subseteq {Dump}
    BY <1>3, <2>4
  <2> QED BY <1>2, <1>3, <1>4, <1>6, <2>1, <2>2, <2>3, ArtifactAdded
<1> QED BY <1>5, <1>6 DEF bridge_read

(* One object is mirrored, or is gone.                                     *)
LEMMA MirrorGood ==
    ASSUME BackupInv, NEW p \in Processes, _mirror_one(p)
    PROVE  StepGood
<1>1. /\ BackupTypeOK /\ run \in [Processes -> Runs] /\ run[p] \in Runs /\ faults \in Nat
      /\ RunGood(run[p]) /\ run[p].phase = "mirroring"
  BY DEF BackupInv, BackupTypeOK, _mirror_one
<1>2. run[p].phase \in Running /\ run[p].phase \notin Over
  BY <1>1 DEF Running, Over, Sealing
<1>3. UNCHANGED <<day, finish, object, landed, dumped, steady, restore, faults>>
  BY DEF _mirror_one, clock, store
<1>4. CASE Fail(p) /\ UNCHANGED <<artifact, mirrored>>
  BY <1>1, <1>2, <1>3, <1>4, FailGood
<1>5. CASE \E k \in run[p].todo :
             /\ artifact' = [artifact EXCEPT ![run[p].id] = @ \cup {k}]
             /\ mirrored' = [mirrored EXCEPT ![run[p].id] = @ \cup {k}]
             /\ run' = [run EXCEPT ![p].todo = @ \ {k},
                           ![p].flight = IF IsInFlight(k, run[p].id) THEN @ \cup {k} ELSE @]
             /\ UNCHANGED record
  <2>1. PICK k \in run[p].todo :
             /\ artifact' = [artifact EXCEPT ![run[p].id] = @ \cup {k}]
             /\ mirrored' = [mirrored EXCEPT ![run[p].id] = @ \cup {k}]
             /\ run' = [run EXCEPT ![p].todo = @ \ {k},
                           ![p].flight = IF IsInFlight(k, run[p].id) THEN @ \cup {k} ELSE @]
             /\ UNCHANGED record
    BY <1>5
  <2>2. k \in Keys
    BY <1>1 DEF Runs
  <2>3. PICK M \in SUBSET Keys : M = {k}
    BY <2>2
  <2>4. PICK F \in SUBSET Keys : run' = [run EXCEPT ![p].todo = @ \ {k}, ![p].flight = F]
    <3>1. CASE IsInFlight(k, run[p].id)
      BY <1>1, <2>1, <2>2, <3>1 DEF Runs
    <3>2. CASE ~IsInFlight(k, run[p].id)
      BY <1>1, <2>1, <2>2, <3>2 DEF Runs
    <3> QED BY <3>1, <3>2
  <2>5. /\ run' \in [Processes -> Runs]
        /\ \A q \in Processes \ {p} : run'[q] = run[q]
        /\ run'[p].phase = run[p].phase /\ run'[p].id = run[p].id
        /\ run'[p].todo = run[p].todo \ {k} /\ run'[p].pump = run[p].pump
        /\ run'[p].nth = run[p].nth /\ run'[p].prune = run[p].prune
        /\ run'[p].upload = run[p].upload
    BY <1>1, <2>4 DEF Runs
  <2>6. {run'[p].pump, run'[p].upload} # {"none"} => run[p].phase = "dumping"
    BY <1>1, <2>5 DEF RunGood
  <2>7. /\ artifact' = [artifact EXCEPT ![run[p].id] = @ \cup {k}]
        /\ mirrored' = [mirrored EXCEPT ![run[p].id] = @ \cup M]
        /\ run[p].todo \subseteq run'[p].todo \cup M /\ M \subseteq {k}
        /\ UNCHANGED record
    BY <2>1, <2>3, <2>5
  <2> QED BY <1>2, <1>3, <2>2, <2>5, <2>6, <2>7, ArtifactAdded
<1> QED BY <1>4, <1>5 DEF _mirror_one

(* The manifest seals the backup.                                          *)
LEMMA ManifestGood ==
    ASSUME BackupInv, NEW p \in Processes, manifest_written(p)
    PROVE  StepGood
<1>1. /\ BackupTypeOK /\ run \in [Processes -> Runs] /\ run[p] \in Runs /\ finish \in Nat
      /\ run[p].phase = "mirroring" /\ run[p].todo = {}
  BY DEF BackupInv, BackupTypeOK, manifest_written
<1>2. PICK b \in Backups :
             /\ b = run[p].id /\ b # None
             /\ record[b].state = "running" /\ record[b].nth = 0
             /\ BackupGood(b) /\ RunGood(run[p])
             /\ run[p].phase \notin Over => ~Sealed(b) /\ Manifest \notin artifact[b]
             /\ \A q \in Processes \ {p} : run[q].id # b
  BY <1>1, OwnBackup DEF Running
<1>3. /\ run' \in [Processes -> Runs]
      /\ \A q \in Processes \ {p} : run'[q] = run[q]
      /\ run'[p].phase = "comparing" /\ run'[p].id = run[p].id /\ run'[p].todo = run[p].todo
      /\ run'[p].nth = run[p].nth /\ run'[p].prune = run[p].prune
      /\ run'[p].pump = run[p].pump /\ run'[p].upload = run[p].upload
  BY <1>1 DEF manifest_written, Runs, Phases
<1>4. UNCHANGED <<day, finish, object, landed, record, dumped, mirrored, steady, restore, faults>>
  BY DEF manifest_written, clock, store, copies
<1>5. /\ artifact' \in [Backups -> SUBSET (Keys \cup {Dump, Manifest})]
      /\ artifact'[b] = artifact[b] \cup {Manifest}
      /\ \A c \in Backups \ {b} : artifact'[c] = artifact[c]
  BY <1>1, <1>2 DEF manifest_written, BackupTypeOK
<1>6. BackupTypeOK'
  BY <1>1, <1>3, <1>4, <1>5 DEF BackupTypeOK
<1>7. \A c \in Backups : record[c].state # "running" => (Whole(c)' <=> Whole(c))
  BY <1>2, <1>4, <1>5 DEF Whole
<1>8. steady[b] \subseteq dumped[b] \cap mirrored[b]
  BY <1>1, <1>2 DEF RunGood, Running
<1>9. RunGood(run[p])'
  <2>1. ASSUME NEW c \in Backups, Outlived(c)
        PROVE  Outlived(c)'
    BY <1>4, <1>7, <2>1 DEF Outlived
  <2>2. \A c \in run'[p].prune : /\ record'[c].state \in {"failed", "verified"}
                                 /\ record'[c].state = "verified" => Outlived(c)'
    BY <1>1, <1>2, <1>3, <1>4, <2>1 DEF RunGood, Runs
  <2>3. run'[p].id = b /\ run'[p].nth <= finish' /\ {run'[p].pump, run'[p].upload} = {"none"}
    BY <1>1, <1>2, <1>3, <1>4 DEF RunGood
  <2> QED BY <1>2, <1>3, <1>4, <1>5, <1>8, <2>2, <2>3 DEF RunGood
<1>10. Sealed(b)'
  <2>1. \A q \in Processes : run'[q].id = b => run'[q].phase \in Over
    BY <1>2, <1>3 DEF Over, Sealing
  <2> QED BY <1>2, <1>4, <1>8, <2>1 DEF Sealed
<1>11. BackupGood(b)'
  BY <1>2, <1>4, <1>5, <1>10 DEF BackupGood
<1>12. BackupInv'
  <2>1. finish' >= finish
    BY <1>1, <1>4
  <2>2. \A c \in Backups \ {b} :
               /\ record'[c] = record[c] /\ artifact'[c] = artifact[c]
               /\ dumped'[c] = dumped[c] /\ mirrored'[c] = mirrored[c]
               /\ steady'[c] = steady[c]
    BY <1>4, <1>5
  <2>3. /\ object' = object /\ restore' = restore /\ run'[p].id = b /\ run[p].id = b
        /\ record'[b].nth = 0
        /\ Sealed(b) => Sealed(b)' /\ dumped'[b] = dumped[b] /\ mirrored'[b] = mirrored[b]
    BY <1>2, <1>3, <1>4, <1>10
  <2> QED BY <1>2, <1>3, <1>6, <1>9, <1>11, <2>1, <2>2, <2>3, OwnStep
<1>13. UNCHANGED <<status, done>>
  BY <1>4, <1>7, CatalogueStutters
<1> QED BY <1>12, <1>13 DEF StepGood

(* The run commits its backup as verified: it is complete.                 *)
LEMMA FinishedGood ==
    ASSUME BackupInv, NEW p \in Processes, finished(p)
    PROVE  StepGood
<1>1. /\ BackupTypeOK /\ run \in [Processes -> Runs] /\ run[p] \in Runs /\ finish \in Nat
      /\ run[p].phase = "finishing" /\ record \in [Backups -> Records] /\ run[p].nth \in Nat
  BY DEF BackupInv, BackupTypeOK, finished, Runs
<1>2. PICK b \in Backups :
             /\ b = run[p].id /\ b # None
             /\ record[b].state = "running" /\ record[b].nth = 0
             /\ BackupGood(b) /\ RunGood(run[p])
             /\ run[p].phase \notin Over => ~Sealed(b) /\ Manifest \notin artifact[b]
             /\ \A q \in Processes \ {p} : run[q].id # b
  BY <1>1, OwnBackup DEF Running
<1> DEFINE r == [Idle EXCEPT !.phase = "pruning", !.id = b]
<1>3. /\ r \in Runs /\ r.phase = "pruning" /\ r.id = b /\ r.nth = 0
      /\ r.prune = {} /\ r.pump = "none" /\ r.upload = "none"
  BY DEF Idle, Runs, Phases
<1>4. run' = [run EXCEPT ![p] = r]
  BY <1>2 DEF finished
<1> HIDE DEF r
<1>5. /\ run' \in [Processes -> Runs]
      /\ \A q \in Processes \ {p} : run'[q] = run[q]
      /\ run'[p] = r
  BY <1>1, <1>3, <1>4
<1>6. UNCHANGED <<day, finish, object, landed, artifact, dumped, mirrored, steady, restore, faults>>
  BY DEF finished, clock, store, copies
<1>7. /\ record' \in [Backups -> Records]
      /\ record'[b].state = "verified" /\ record'[b].nth = run[p].nth
      /\ \A c \in Backups \ {b} : record'[c] = record[c]
  <2>1. record' = [record EXCEPT ![b].state = "verified", ![b].day = run[p].day,
                                 ![b].nth = run[p].nth, ![b].skew = run[p].skew]
    BY <1>2 DEF finished
  <2>2. run[p].day \in Nat /\ run[p].skew \in BOOLEAN
    BY <1>1 DEF Runs
  <2>3. PICK d \in Nat, n \in Nat, k \in BOOLEAN :
            d = run[p].day /\ n = run[p].nth /\ k = run[p].skew
    BY <1>1, <2>2
  <2> DEFINE z == [record[b] EXCEPT !.state = "verified", !.day = d, !.nth = n, !.skew = k]
  <2>4. z \in Records /\ z.state = "verified" /\ z.nth = n
    BY <1>1 DEF Records
  <2>5. record' = [record EXCEPT ![b] = z]
    BY <1>1, <2>1, <2>3
  <2> HIDE DEF z
  <2> QED BY <1>1, <2>3, <2>4, <2>5
<1>8. BackupTypeOK'
  BY <1>1, <1>5, <1>6, <1>7 DEF BackupTypeOK
<1>9. /\ Whole(b) /\ run[p].nth > 0 /\ run[p].nth <= finish
      /\ \A c \in Backups : record[c].nth # run[p].nth
      /\ steady[b] \subseteq dumped[b] \cap mirrored[b]
  BY <1>1, <1>2 DEF RunGood, Sealing, Running
<1>10. Whole(b)'
  BY <1>6, <1>9 DEF Whole
<1>11. RunGood(run[p])'
  <2>1. r.nth <= finish' /\ {r.pump, r.upload} = {"none"} /\ r.id # None
    BY <1>1, <1>2, <1>3, <1>6
  <2> QED BY <1>2, <1>3, <1>5, <1>7, <2>1 DEF RunGood, Running, Sealing
<1>12. Sealed(b)'
  <2>1. \A q \in Processes : run'[q].id = b => run'[q].phase \in Over
    BY <1>2, <1>3, <1>5 DEF Over
  <2> QED BY <1>6, <1>7, <1>9, <2>1 DEF Sealed
<1>13. BackupGood(b)'
  BY <1>2, <1>6, <1>7, <1>9, <1>10, <1>12 DEF BackupGood
<1>14. BackupInv'
  <2>1. finish' >= finish
    BY <1>1, <1>6
  <2>2. \A c \in Backups \ {b} :
               /\ record'[c] = record[c] /\ artifact'[c] = artifact[c]
               /\ dumped'[c] = dumped[c] /\ mirrored'[c] = mirrored[c]
               /\ steady'[c] = steady[c]
    BY <1>6, <1>7
  <2>3. /\ object' = object /\ restore' = restore /\ run'[p].id = b /\ run[p].id = b
        /\ run'[p].nth = 0
        /\ Sealed(b) => Sealed(b)' /\ dumped'[b] = dumped[b] /\ mirrored'[b] = mirrored[b]
    BY <1>2, <1>3, <1>5, <1>6, <1>12
  <2> QED BY <1>2, <1>5, <1>7, <1>8, <1>11, <1>13, <2>1, <2>2, <2>3, OwnStep
<1>15. Catalogue!Complete(b)
  <2>1. \A c \in Backups : Whole(c)' <=> Whole(c)
    BY <1>6 DEF Whole
  <2>2. status[b] = "partial"
    BY <1>2 DEF status
  <2>3. status' = [status EXCEPT ![b] = "complete"]
    BY <1>7, <1>10, <2>1 DEF status
  <2>4. done'[b] > 0 /\ \A c \in Backups \ {b} : done'[c] = done[c] /\ done'[b] # done[c]
    BY <1>7, <1>9 DEF done
  <2>5. done' = [done EXCEPT ![b] = done'[b]]
    BY <2>4 DEF done
  <2> QED BY <2>2, <2>3, <2>4, <2>5 DEF Catalogue!Complete
<1> QED BY <1>14, <1>15 DEF StepGood, Catalogue!Next

-----------------------------------------------------------------------------
(* Retention deletes.                                                      *)

(* An artifact of a backup that may be pruned goes.                        *)
LEMMA ArtifactGone ==
    ASSUME BackupInv, NEW c \in Backups, NEW a,
           record[c].state \in {"failed", "verified"},
           record[c].state = "verified" => Outlived(c),
           artifact' = [artifact EXCEPT ![c] = @ \ {a}],
           UNCHANGED <<day, finish, object, landed, record, dumped, mirrored, steady, run, restore,
                       faults>>
    PROVE  StepGood
<1>1. /\ BackupTypeOK /\ finish \in Nat /\ None \notin Backups
      /\ \A q \in Processes : RunGood(run[q])
      /\ \A b \in Backups : BackupGood(b)
      /\ RunsApart /\ RestoreGood
  BY BackupAssumption DEF BackupInv, BackupTypeOK
<1>2. /\ artifact' \in [Backups -> SUBSET (Keys \cup {Dump, Manifest})]
      /\ artifact'[c] = artifact[c] \ {a}
      /\ \A b \in Backups \ {c} : artifact'[b] = artifact[b]
  BY <1>1 DEF BackupTypeOK
<1>3. BackupTypeOK'
  BY <1>1, <1>2 DEF BackupTypeOK
<1>4. /\ \A b \in Backups \ {c} : Whole(b)' <=> Whole(b)
      /\ Whole(c)' => Whole(c)
  BY <1>2 DEF Whole
<1>5. \A b \in Backups : record[b].nth \in Nat
  BY <1>1 DEF BackupTypeOK, Records
<1>6. ASSUME NEW b \in Backups, Outlived(b)
      PROVE  Outlived(b)'
  <2>1. PICK d \in Backups : record[d].state = "verified" /\ Whole(d) /\ record[d].nth > record[b].nth
    BY <1>6 DEF Outlived
  <2>2. CASE d # c
    BY <1>4, <2>1, <2>2 DEF Outlived
  <2>3. CASE d = c
    <3>1. PICK e \in Backups : record[e].state = "verified" /\ Whole(e) /\ record[e].nth > record[c].nth
      BY <2>1, <2>3 DEF Outlived
    <3>2. record[e].nth > record[b].nth /\ e # c
      BY <1>5, <2>1, <2>3, <3>1
    <3> QED BY <1>4, <3>1, <3>2 DEF Outlived
  <2> QED BY <2>2, <2>3
<1>7. ASSUME NEW b \in Backups, Sealed(b)
      PROVE  Sealed(b)'
  BY <1>7 DEF Sealed
<1>8. ASSUME NEW q \in Processes
      PROVE  RunGood(run[q])'
  <2>1. run[q].id # None => run[q].id \in Backups
    BY <1>1 DEF BackupTypeOK, Runs
  <2>2. run[q].id # None => (record[run[q].id].state = "running" =>
                                 artifact[run[q].id] \subseteq artifact'[run[q].id])
    BY <1>2, <2>1
  <2>3. finish' \in Nat /\ finish' >= finish
    BY <1>1
  <2>4. \A d \in Backups : run[q].phase = "finishing" => record'[d].nth # run[q].nth
    BY <1>1 DEF RunGood
  <2>5. \A d \in Backups : record[d].state \in {"failed", "verified"} =>
            record'[d].state = record[d].state /\ (Outlived(d) => Outlived(d)')
    BY <1>6
  <2>6. RunGood(run[q]) /\ run'[q] = run[q]
    BY <1>1
  <2> QED BY <1>1, <2>2, <2>3, <2>4, <2>5, <2>6, OtherRunGood
<1>9. ASSUME NEW b \in Backups
      PROVE  BackupGood(b)'
  <2>1. finish' \in Nat /\ finish' >= finish /\ BackupGood(b)
    BY <1>1
  <2>2. \A k \in steady'[b] : object'[k] = "live"
    BY <2>1 DEF BackupGood
  <2>3. record[b].state = "verified" => (Whole(b) \/ Outlived(b) => Whole(b)' \/ Outlived(b)')
    BY <1>4, <1>6
  <2>4. Manifest \in artifact'[b] => Manifest \in artifact[b]
    BY <1>2
  <2>5. Sealed(b) => Sealed(b)'
    BY <1>7
  <2> QED BY <1>1, <2>1, <2>2, <2>3, <2>4, <2>5, OtherBackupGood
<1>10. RestoreGood'
  BY <1>1, <1>7, RestoreStays
<1>11. RunsApart'
  BY <1>1 DEF RunsApart
<1>12. BackupInv'
  BY <1>3, <1>8, <1>9, <1>10, <1>11 DEF BackupInv
<1>13. CASE record[c].state = "verified" => (Whole(c)' <=> Whole(c))
  <2>1. UNCHANGED <<status, done>>
    BY <1>4, <1>13, CatalogueStutters
  <2> QED BY <1>12, <2>1 DEF StepGood
<1>14. CASE record[c].state = "verified" /\ Whole(c) /\ ~Whole(c)'
  <2>1. status[c] = "complete" /\ done' = done
    BY <1>14 DEF status, done
  <2>2. status' = [status EXCEPT ![c] = "pruned"]
    BY <1>4, <1>14 DEF status
  <2>3. Catalogue!Superseded(c)
    <3>1. PICK d \in Backups : record[d].state = "verified" /\ Whole(d) /\ record[d].nth > record[c].nth
      BY <1>14 DEF Outlived
    <3>2. status[d] = "complete" /\ done[d] > done[c]
      BY <3>1 DEF status, done
    <3> QED BY <3>2 DEF Catalogue!Superseded
  <2>4. Catalogue!Prune(c)
    BY <2>1, <2>2, <2>3 DEF Catalogue!Prune
  <2> QED BY <1>12, <2>4 DEF StepGood, Catalogue!Next
<1> QED BY <1>4, <1>13, <1>14

(* Pruning takes the next artifact, or leaves a backup that has none left. *)
LEMMA DeletedGood ==
    ASSUME BackupInv, NEW p \in Processes, artifact_deleted(p)
    PROVE  StepGood
<1>1. /\ BackupTypeOK /\ run \in [Processes -> Runs] /\ run[p] \in Runs /\ RunGood(run[p])
      /\ faults \in Nat /\ run[p].phase = "deleting"
  BY DEF BackupInv, BackupTypeOK, artifact_deleted
<1>2. UNCHANGED <<day, finish, object, landed, record, dumped, mirrored, steady, restore, faults>>
  BY DEF artifact_deleted, clock, store, copies
<1>3. PICK c \in run[p].prune :
        IF artifact[c] = {}
        THEN run' = [run EXCEPT ![p].prune = @ \ {c}] /\ UNCHANGED artifact
        ELSE /\ \E a \in NextArtifact(c) : artifact' = [artifact EXCEPT ![c] = @ \ {a}]
             /\ UNCHANGED run
  BY DEF artifact_deleted
<1>4. /\ c \in Backups
      /\ record[c].state \in {"failed", "verified"}
      /\ record[c].state = "verified" => Outlived(c)
  BY <1>1 DEF RunGood, Runs
<1>5. CASE artifact[c] # {}
  BY <1>2, <1>3, <1>4, <1>5, ArtifactGone
<1>6. CASE artifact[c] = {}
  <2>1. run' = [run EXCEPT ![p].prune = @ \ {c}] /\ UNCHANGED artifact
    BY <1>3, <1>6
  <2>2. /\ run' \in [Processes -> Runs]
        /\ \A q \in Processes \ {p} : run'[q] = run[q]
        /\ run'[p].phase = run[p].phase /\ run'[p].id = run[p].id /\ run'[p].todo = run[p].todo
        /\ run'[p].nth = run[p].nth /\ run'[p].prune = run[p].prune \ {c}
        /\ run'[p].pump = run[p].pump /\ run'[p].upload = run[p].upload
    BY <1>1, <2>1 DEF Runs
  <2>3. {run'[p].pump, run'[p].upload} # {"none"} => run[p].phase = "dumping"
    BY <1>1, <2>2 DEF RunGood
  <2>4. run'[p].prune \subseteq run[p].prune
    BY <2>2
  <2> QED BY <1>1, <1>2, <2>1, <2>2, <2>3, <2>4, SamePhase
<1> QED BY <1>5, <1>6

-----------------------------------------------------------------------------
(* The steps that may fail the run.                                        *)

(* The dump and the upload are joined, the backup is verified, or a port   *)
(* raises.                                                                 *)
LEMMA MayFailGood ==
    ASSUME BackupInv, NEW p \in Processes, dump_joined(p) \/ verified(p) \/ port_fails(p)
    PROVE  StepGood
<1>1. run[p].phase \in Running /\ faults \in Nat
  BY DEF BackupInv, BackupTypeOK, Running, dump_joined, verified, port_fails
<1>2. CASE dump_joined(p)
  <2>1. UNCHANGED <<day, finish, object, landed, artifact, dumped, mirrored, steady, restore, faults>>
    BY <1>2 DEF dump_joined, clock, store, copies
  <2>2. CASE Fail(p)
    BY <1>1, <2>1, <2>2, FailGood
  <2>3. CASE /\ run' = [run EXCEPT ![p] = [Idle EXCEPT !.phase = "dumped", !.id = run[p].id]]
             /\ UNCHANGED record
    <3>1. UNCHANGED <<clock, store, record, artifact, copies, restore, faults>>
      BY <2>1, <2>3 DEF clock, store, copies
    <3>2. run[p].phase = "dumping"
      BY <1>2 DEF dump_joined
    <3> QED BY <2>3, <3>1, <3>2, JoinedGood
  <2> QED BY <1>2, <2>2, <2>3 DEF dump_joined
<1>3. CASE verified(p)
  <2>1. CASE ~ Fail(p)
    BY <1>3, <2>1, VerifiedGood
  <2>2. CASE Fail(p)
    <3>1. /\ Fail(p)
          /\ UNCHANGED <<day, finish, object, landed, artifact, dumped, mirrored, steady, restore,
                         faults>>
      <4>1. finish' = finish
        <5>1. run \in [Processes -> Runs]
          BY DEF BackupInv, BackupTypeOK
        <5>2. run'[p].phase = "idle"
          BY <2>2, <5>1 DEF Fail, Idle
        <5> QED BY <1>3, <5>1, <5>2 DEF verified, Runs
      <4> QED BY <1>3, <2>2, <4>1 DEF verified, store, copies
    <3> QED BY <1>1, <3>1, FailGood
  <2> QED BY <2>1, <2>2
<1>4. CASE port_fails(p)
  <2>1. /\ Fail(p) /\ faults' \in Nat
        /\ UNCHANGED <<day, finish, object, landed, artifact, dumped, mirrored, steady, restore>>
    BY <1>1, <1>4 DEF port_fails, clock, store, copies
  <2> QED BY <1>1, <2>1, FailGood
<1> QED BY <1>2, <1>3, <1>4

-----------------------------------------------------------------------------
(* The live system and the restore.                                        *)

(* Whatever happens apart from the runs, a backup counts as steady only    *)
(* files that are still live.                                              *)
LEMMA ElsewhereGood ==
    ASSUME BackupInv, BackupTypeOK',
           UNCHANGED <<finish, record, artifact, dumped, mirrored, run>>,
           \A b \in Backups : /\ steady'[b] \subseteq steady[b]
                              /\ \A k \in steady'[b] : object'[k] = "live",
           restore' = restore \/ RestoreGood'
    PROVE  StepGood
<1>1. /\ BackupTypeOK /\ finish \in Nat
      /\ \A q \in Processes : RunGood(run[q])
      /\ \A b \in Backups : BackupGood(b)
      /\ RunsApart /\ RestoreGood
  BY DEF BackupInv, BackupTypeOK
<1>2. ASSUME NEW b \in Backups
      PROVE  Whole(b)' <=> Whole(b)
  BY DEF Whole
<1>3. ASSUME NEW b \in Backups
      PROVE  Outlived(b)' <=> Outlived(b)
  BY <1>2 DEF Outlived
<1>4. ASSUME NEW b \in Backups, Sealed(b)
      PROVE  Sealed(b)'
  BY <1>4 DEF Sealed
<1>5. ASSUME NEW q \in Processes
      PROVE  RunGood(run[q])'
  <2>1. run[q].id # None => run[q].id \in Backups
    BY <1>1 DEF BackupTypeOK, Runs
  <2>2. run[q].id # None => steady'[run[q].id] \subseteq steady[run[q].id]
    BY <2>1
  <2>3. finish' \in Nat /\ finish' >= finish
    BY <1>1
  <2>4. \A d \in Backups : run[q].phase = "finishing" => record'[d].nth # run[q].nth
    BY <1>1 DEF RunGood
  <2>5. \A d \in Backups : record[d].state \in {"failed", "verified"} =>
            record'[d].state = record[d].state /\ (Outlived(d) => Outlived(d)')
    BY <1>3
  <2>6. RunGood(run[q]) /\ run'[q] = run[q]
    BY <1>1
  <2> QED BY <1>1, <2>2, <2>3, <2>4, <2>5, <2>6, OtherRunGood
<1>6. ASSUME NEW b \in Backups
      PROVE  BackupGood(b)'
  <2>1. finish' \in Nat /\ finish' >= finish /\ BackupGood(b)
    BY <1>1
  <2>2. record[b].state = "verified" => (Whole(b) \/ Outlived(b) => Whole(b)' \/ Outlived(b)')
    BY <1>2, <1>3
  <2>3. Sealed(b) => Sealed(b)'
    BY <1>4
  <2> QED BY <1>1, <2>1, <2>2, <2>3, OtherBackupGood
<1>7. RestoreGood'
  BY <1>1, <1>4, RestoreStays
<1>8. RunsApart'
  BY <1>1 DEF RunsApart
<1>9. BackupInv'
  BY <1>5, <1>6, <1>7, <1>8 DEF BackupInv
<1>10. UNCHANGED <<status, done>>
  BY <1>2, CatalogueStutters
<1> QED BY <1>9, <1>10 DEF StepGood

(* Uploads, purges and the clock.                                          *)
LEMMA LiveGood ==
    ASSUME BackupInv, Live
    PROVE  StepGood
<1>1. BackupTypeOK /\ \A b \in Backups : BackupGood(b)
  BY DEF BackupInv
<1>2. \A b \in Backups : steady[b] \subseteq Keys
  BY <1>1 DEF BackupTypeOK
<1>3. \A b \in Backups : \A k \in steady[b] : object[k] = "live"
  BY <1>1 DEF BackupGood
<1>4. CASE tick
  <2>1. UNCHANGED <<finish, record, artifact, dumped, mirrored, run, steady, object, restore>>
    BY <1>4 DEF tick, store, copies
  <2>2. BackupTypeOK'
    BY <1>1, <1>4 DEF BackupTypeOK, tick, store, copies
  <2> QED BY <1>3, <2>1, <2>2, ElsewhereGood
<1>5. ASSUME NEW k \in Keys, upload_put(k) \/ upload_commit(k) \/ purge_commit(k)
      PROVE  StepGood
  <2>1. UNCHANGED <<finish, record, artifact, dumped, mirrored, run, steady, restore>>
    BY <1>5 DEF upload_put, upload_commit, purge_commit, clock, copies
  <2>2. BackupTypeOK'
    BY <1>1, <1>5 DEF BackupTypeOK, upload_put, upload_commit, purge_commit, clock, copies
  <2>3. object[k] # "live" /\ \A j \in Keys \ {k} : object'[j] = object[j]
    BY <1>1, <1>5 DEF BackupTypeOK, upload_put, upload_commit, purge_commit
  <2>4. \A b \in Backups : \A j \in steady'[b] : object'[j] = "live"
    BY <1>2, <1>3, <2>1, <2>3
  <2> QED BY <2>1, <2>2, <2>4, ElsewhereGood
<1>6. ASSUME NEW k \in Keys, purge_object(k)
      PROVE  StepGood
  <2>1. UNCHANGED <<finish, record, artifact, dumped, mirrored, run, restore>>
    BY <1>6 DEF purge_object, clock
  <2>2. BackupTypeOK'
    BY <1>1, <1>6 DEF BackupTypeOK, purge_object, clock
  <2>3. \A b \in Backups : steady'[b] = steady[b] \ {k}
    BY <1>6 DEF purge_object
  <2>4. \A j \in Keys \ {k} : object'[j] = object[j]
    BY <1>1, <1>6 DEF BackupTypeOK, purge_object
  <2>5. \A b \in Backups : /\ steady'[b] \subseteq steady[b]
                           /\ \A j \in steady'[b] : object'[j] = "live"
    BY <1>2, <1>3, <2>3, <2>4
  <2> QED BY <2>1, <2>2, <2>5, ElsewhereGood
<1> QED BY <1>4, <1>5, <1>6 DEF Live

(* The restore reads what the manifest names from a sealed backup.         *)
LEMMA RestoreStepGood ==
    ASSUME BackupInv, Restore
    PROVE  StepGood
<1>1. /\ BackupTypeOK /\ RestoreGood /\ restore \in Restores
      /\ \A b \in Backups : BackupGood(b)
      /\ dumped \in [Backups -> SUBSET Keys] /\ mirrored \in [Backups -> SUBSET Keys]
  BY DEF BackupInv, BackupTypeOK
<1>2. UNCHANGED <<day, finish, object, landed, record, artifact, dumped, mirrored, steady, run,
                  faults>>
  BY DEF Restore, restore_started, restore_manifest, restore_dump, _restore_one,
         restore_reported, clock, store, copies
<1>3. \A b \in Backups : \A k \in steady'[b] : object'[k] = "live"
  BY <1>1, <1>2 DEF BackupGood
<1>4. \A b \in Backups : Sealed(b)' <=> Sealed(b)
  BY <1>2 DEF Sealed
<1>5. SUFFICES restore' \in Restores /\ RestoreGood'
  <2> SUFFICES ASSUME restore' \in Restores, RestoreGood'
               PROVE  StepGood
    OBVIOUS
  <2>1. BackupTypeOK'
    BY <1>1, <1>2 DEF BackupTypeOK
  <2> QED BY <1>2, <1>3, <2>1, ElsewhereGood
<1>6. CASE RestoreFails
  <2>1. NoRestore \in Restores /\ NoRestore.phase = "idle"
    BY DEF NoRestore, Restores
  <2> QED BY <1>6, <2>1 DEF RestoreFails, RestoreGood
<1>7. ASSUME NEW b \in Backups, NEW found, NEW destructive, NEW empty,
             restore_started(b, found, destructive, empty)
      PROVE  restore' \in Restores /\ RestoreGood'
  <2>1. /\ restore' \in Restores
        /\ restore'.phase = "guarded" /\ restore'.id = b /\ restore'.objects = {}
    BY <1>7 DEF restore_started, NoRestore, Restores
  <2> QED BY <2>1 DEF RestoreGood
<1>8. CASE restore_manifest
  <2>1. restore.phase = "guarded" /\ restore.id \in Backups /\ restore.objects = {}
    BY <1>1, <1>8 DEF restore_manifest, RestoreGood
  <2>2. CASE Manifest \notin artifact[restore.id]
    BY <1>6, <1>8, <2>2 DEF restore_manifest
  <2>3. CASE Manifest \in artifact[restore.id]
    <3>1. Sealed(restore.id)
      BY <1>1, <2>1, <2>3 DEF BackupGood
    <3>2. PICK M \in SUBSET Keys : M = mirrored[restore.id]
      BY <1>1, <2>1
    <3>3. restore' = [restore EXCEPT !.phase = "loading", !.todo = M]
      BY <1>8, <2>3, <3>2 DEF restore_manifest
    <3>4. /\ restore' \in Restores /\ restore'.phase = "loading" /\ restore'.todo = M
          /\ restore'.id = restore.id /\ restore'.objects = restore.objects
      BY <1>1, <3>3 DEF Restores
    <3> QED BY <1>2, <1>4, <2>1, <3>1, <3>2, <3>4 DEF RestoreGood
  <2> QED BY <2>2, <2>3
<1>9. CASE restore_dump
  <2>1. /\ restore.phase = "loading" /\ restore.id \in Backups /\ Sealed(restore.id)
        /\ restore.todo = mirrored[restore.id] /\ restore.objects = {}
    BY <1>1, <1>9 DEF restore_dump, RestoreGood
  <2>2. CASE restore' = [restore EXCEPT !.phase = "objects", !.rows = dumped[restore.id]]
    <3>1. PICK D \in SUBSET Keys : D = dumped[restore.id]
      BY <1>1, <2>1
    <3>2. /\ restore' \in Restores /\ restore'.phase = "objects" /\ restore'.rows = D
          /\ restore'.todo = restore.todo
          /\ restore'.id = restore.id /\ restore'.objects = restore.objects
      BY <1>1, <2>2, <3>1 DEF Restores
    <3> QED BY <1>2, <1>4, <2>1, <3>1, <3>2 DEF RestoreGood
  <2> QED BY <1>6, <1>9, <2>2 DEF restore_dump
<1>10. CASE _restore_one
  <2>1. /\ restore.phase = "objects" /\ restore.id \in Backups /\ Sealed(restore.id)
        /\ restore.rows = dumped[restore.id]
        /\ restore.todo \cup restore.objects = mirrored[restore.id]
    BY <1>1, <1>10 DEF _restore_one, RestoreGood
  <2>2. ASSUME NEW k \in restore.todo,
               restore' = [restore EXCEPT !.todo = @ \ {k}, !.objects = @ \cup {k}]
        PROVE  restore' \in Restores /\ RestoreGood'
    <3>1. /\ restore' \in Restores /\ restore'.phase = "objects" /\ restore'.rows = restore.rows
          /\ restore'.id = restore.id
          /\ restore'.todo = restore.todo \ {k} /\ restore'.objects = restore.objects \cup {k}
      BY <1>1, <2>1, <2>2 DEF Restores
    <3>2. restore'.todo \cup restore'.objects = restore.todo \cup restore.objects
      BY <2>2, <3>1
    <3> QED BY <1>2, <1>4, <2>1, <3>1, <3>2 DEF RestoreGood
  <2> QED BY <1>6, <1>10, <2>2 DEF _restore_one
<1>11. CASE restore_reported
  <2>1. /\ restore.phase = "objects" /\ restore.id \in Backups /\ Sealed(restore.id)
        /\ restore.rows = dumped[restore.id] /\ restore.todo = {}
        /\ restore.todo \cup restore.objects = mirrored[restore.id]
    BY <1>1, <1>11 DEF restore_reported, RestoreGood
  <2>2. CASE restore' = [restore EXCEPT !.phase = "healthy"]
    <3>1. /\ restore' \in Restores /\ restore'.phase = "healthy" /\ restore'.rows = restore.rows
          /\ restore'.id = restore.id
          /\ restore'.todo = restore.todo /\ restore'.objects = restore.objects
      BY <1>1, <2>2 DEF Restores
    <3> QED BY <1>2, <1>4, <2>1, <3>1 DEF RestoreGood
  <2> QED BY <1>6, <1>11, <2>2 DEF restore_reported
<1> QED BY <1>7, <1>8, <1>9, <1>10, <1>11 DEF Restore

-----------------------------------------------------------------------------
(* The theorems.                                                           *)

(* Before the first run there is no backup.                                *)
LEMMA InitGood ==
    ASSUME Init
    PROVE  BackupInv /\ Catalogue!Init
<1>1. Idle \in Runs /\ Idle.phase = "idle" /\ Idle.id = None /\ Idle.nth = 0
      /\ Idle.prune = {} /\ Idle.pump = "none" /\ Idle.upload = "none"
  BY DEF Idle, Runs, Phases
<1>2. NoRecord \in Records /\ NoRecord.state = "none" /\ NoRecord.nth = 0
  BY DEF NoRecord, Records
<1>3. NoRestore \in Restores /\ NoRestore.phase = "idle"
  BY DEF NoRestore, Restores
<1>4. BackupTypeOK
  BY <1>1, <1>2, <1>3 DEF Init, BackupTypeOK
<1>5. ASSUME NEW p \in Processes
      PROVE  RunGood(run[p])
  <2>1. run[p] = Idle /\ finish = 0
    BY DEF Init
  <2> QED BY <1>1, <2>1 DEF RunGood, Running, Sealing
<1>6. RunsApart
  BY <1>1 DEF Init, RunsApart
<1>7. \A b \in Backups : BackupGood(b)
  BY <1>2 DEF Init, BackupGood
<1>8. RestoreGood
  BY <1>3 DEF Init, RestoreGood
<1>9. Catalogue!Init
  <2>1. status = [b \in Backups |-> "absent"]
    BY <1>2 DEF Init, status
  <2>2. done = [b \in Backups |-> 0]
    BY <1>2 DEF Init, done
  <2> QED BY <2>1, <2>2 DEF Catalogue!Init
<1> QED BY <1>4, <1>5, <1>6, <1>7, <1>8, <1>9 DEF BackupInv

(* Every step keeps the invariant and is one the catalogue allows.         *)
LEMMA NextGood ==
    ASSUME BackupInv, [Next]_vars
    PROVE  StepGood
<1>1. ASSUME NEW p \in Processes, Step(p)
      PROVE  StepGood
  BY <1>1, TriggerGood, DumpStartedGood, BridgeGood, BridgeReadGood, MayFailGood, ListsGood,
     MirrorGood, ManifestGood, ComparedGood, FinishedGood, DecidedGood, DeletedGood, EndGood
     DEF Step
<1>2. ASSUME NEW p \in Processes, Fault(p)
      PROVE  StepGood
  BY <1>2, BridgeGood, MayFailGood, EndGood DEF Fault
<1>3. CASE UNCHANGED vars
  <2>1. /\ BackupTypeOK' /\ UNCHANGED <<finish, record, artifact, dumped, mirrored, run>>
        /\ restore' = restore
    BY <1>3 DEF vars, BackupInv, BackupTypeOK
  <2>2. \A b \in Backups : /\ steady'[b] \subseteq steady[b]
                           /\ \A k \in steady'[b] : object'[k] = "live"
    BY <1>3 DEF vars, BackupInv, BackupGood
  <2> QED BY <2>1, <2>2, ElsewhereGood
<1> QED BY <1>1, <1>2, <1>3, LiveGood, RestoreStepGood DEF Next

(* At every moment: a run owns its backup alone, keeps every steady file   *)
(* in the dump and, once listed, in the mirror or in its list; a manifest  *)
(* seals a mirror that holds every steady file; a verified backup is whole *)
(* or a later verified one is; what is to be pruned is failed or outlived; *)
(* and a restore that has its manifest reads from a sealed backup.         *)
THEOREM BackupInvariant == Spec => []BackupInv
<1>1. Init => BackupInv
  BY InitGood
<1>2. BackupInv /\ [Next]_vars => BackupInv'
  BY NextGood DEF StepGood
<1> QED BY <1>1, <1>2, PTL DEF Spec

(* A verified backup holds the row and the object of every file that was   *)
(* live from its start, whatever was uploaded, purged or failed meanwhile. *)
THEOREM VerifiedBackupsCover == Spec => []BackupCoversSteadyFiles
<1>1. BackupInv => BackupCoversSteadyFiles
  BY DEF BackupInv, BackupGood, BackupCoversSteadyFiles
<1> QED BY <1>1, BackupInvariant, PTL

(* A restore that reports health has brought back all of those files.      *)
THEOREM RestoresAreComplete == Spec => []RestoreBringsBack
<1>1. BackupInv => RestoreBringsBack
  BY DEF BackupInv, RestoreGood, Sealed, RestoreBringsBack
<1> QED BY <1>1, BackupInvariant, PTL

(* Backup implements BackupCatalogue: a backup is begun once, becomes      *)
(* complete when it is verified, and loses its first artifact only once a  *)
(* later backup is complete.                                               *)
THEOREM BackupImplementsCatalogue == Spec => ImplementsCatalogue
<1>1. Init => Catalogue!Init
  BY InitGood
<1>2. BackupInv /\ [Next]_vars => [Catalogue!Next]_(Catalogue!vars)
  BY NextGood DEF StepGood, Catalogue!vars
<1> QED BY <1>1, <1>2, BackupInvariant, PTL DEF Spec, ImplementsCatalogue, Catalogue!Spec
=============================================================================
