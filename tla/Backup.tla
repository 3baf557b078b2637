------------------------------- MODULE Backup -------------------------------
(***************************************************************************)
(* Backup runs, retention and restore.  Every replica has a scheduler that *)
(* starts BackupService.run, at most one at a time; a run dumps the        *)
(* metadata through a bounded queue into the backup target, mirrors the    *)
(* objects of the content store one by one, writes a manifest, verifies,   *)
(* and then prunes.  Meanwhile uploads and purges go on, replicas crash,   *)
(* and an operator restores a backup into another stack.                   *)
(***************************************************************************)
EXTENDS Integers, FiniteSets

CONSTANTS
    Processes,      \* replicas, each with its own scheduler
    Backups,        \* backup identifiers
    Keys,           \* storage keys; each is used by one upload
    Dump, Manifest, \* the two artifacts that are not mirrored objects
    None,           \* no backup
    Depth,          \* _BRIDGE_DEPTH
    Chunks,         \* how many chunks pg_dump writes
    KeepDaily, KeepWeekly, KeepMonthly,     \* BACKUP_KEEP_*
    WeekDays, MonthDays,    \* how many days a week and a month have
    HistoryDays,    \* BACKUP_HISTORY_DAYS
    GraceDays,      \* BACKUP_FAILED_GRACE_HOURS
    LastDay,        \* bound: days in one behaviour
    MaxFaults       \* bound: crashes and failures of a port in one behaviour

ASSUME BackupAssumption ==
    /\ {Dump, Manifest} \cap Keys = {} /\ Dump # Manifest
    /\ None \notin Backups
    /\ Depth \in Nat \ {0} /\ Chunks \in Nat
    /\ {KeepDaily, KeepWeekly, KeepMonthly, HistoryDays, GraceDays} \subseteq Nat
    /\ {WeekDays, MonthDays} \subseteq Nat \ {0}
    /\ {LastDay, MaxFaults} \subseteq Nat

VARIABLES
    day,        \* the clock, in days
    finish,     \* how often a run has read the clock to finish
    object,     \* each key in the content store and the version table
    landed,     \* the day an object was put
    record,     \* backup_records, shared by the replicas
    artifact,   \* the backup target: what lies under each backup's prefix
    dumped,     \* the keys the rows in each dump refer to
    mirrored,   \* the keys in each manifest
    steady,     \* history: files that were live since each backup started
    run,        \* the run of each replica
    restore,    \* the restore command
    faults      \* how many crashes and failures there were

vars == <<day, finish, object, landed, record, artifact, dumped, mirrored, steady,
          run, restore, faults>>

clock == <<day, finish>>
store == <<object, landed>>
copies == <<dumped, mirrored, steady>>

-----------------------------------------------------------------------------
(* An upload puts the object and then commits the row; a purge deletes the *)
(* object and then commits the deletion of the row.  A key is unused, then *)
(* stored, live, stripped of its object, and gone.                         *)

HasObject(k) == object[k] \in {"stored", "live"}
HasRow(k) == object[k] \in {"live", "stripped"}

(* BackupRecord: "nth" stands for finished_at, of which "day" is the date. *)
NoRecord == [state |-> "none", started |-> 0, day |-> 0, nth |-> 0, skew |-> FALSE]

(* A run: its backup, the dump's queue, the keys still to be mirrored, the *)
(* keys that landed during the run, and the backups still to be pruned.    *)
Idle == [phase |-> "idle", id |-> None, pump |-> "none", left |-> 0, queue |-> 0,
         upload |-> "none", todo |-> {}, flight |-> {}, skew |-> FALSE, nth |-> 0,
         day |-> 0, prune |-> {}]

NoRestore == [phase |-> "idle", id |-> None, todo |-> {}, rows |-> {}, objects |-> {}]

Init ==
    /\ day = 0
    /\ finish = 0
    /\ object = [k \in Keys |-> "unused"]
    /\ landed = [k \in Keys |-> 0]
    /\ record = [b \in Backups |-> NoRecord]
    /\ artifact = [b \in Backups |-> {}]
    /\ dumped = [b \in Backups |-> {}]
    /\ mirrored = [b \in Backups |-> {}]
    /\ steady = [b \in Backups |-> {}]
    /\ run = [p \in Processes |-> Idle]
    /\ restore = NoRestore
    /\ faults = 0

-----------------------------------------------------------------------------
(* The live system.                                                        *)

upload_put(k) ==
    /\ object[k] = "unused"
    /\ object' = [object EXCEPT ![k] = "stored"]
    /\ landed' = [landed EXCEPT ![k] = day]
    /\ UNCHANGED <<clock, record, artifact, copies, run, restore, faults>>

upload_commit(k) ==
    /\ object[k] = "stored"
    /\ object' = [object EXCEPT ![k] = "live"]
    /\ UNCHANGED <<clock, landed, record, artifact, copies, run, restore, faults>>

purge_object(k) ==
    /\ object[k] = "live"
    /\ object' = [object EXCEPT ![k] = "stripped"]
    /\ steady' = [b \in Backups |-> steady[b] \ {k}]
    /\ UNCHANGED <<clock, landed, record, artifact, dumped, mirrored, run, restore, faults>>

purge_commit(k) ==
    /\ object[k] = "stripped"
    /\ object' = [object EXCEPT ![k] = "gone"]
    /\ UNCHANGED <<clock, landed, record, artifact, copies, run, restore, faults>>

tick ==
    /\ day < LastDay
    /\ day' = day + 1
    /\ UNCHANGED <<finish, store, record, artifact, copies, run, restore, faults>>

-----------------------------------------------------------------------------
(* CronScheduler.trigger and BackupService.run up to the first await that  *)
(* leaves a trace: nothing starts while the replica's own run is in        *)
(* flight, and the record is committed as running.                         *)

trigger(p) ==
    \E b \in Backups :
        /\ run[p].phase = "idle"
        /\ record[b].state = "none"
        /\ run' = [run EXCEPT ![p] = [Idle EXCEPT !.phase = "started", !.id = b]]
        /\ record' = [record EXCEPT ![b].state = "running", ![b].started = day]
        /\ steady' = [steady EXCEPT ![b] = {k \in Keys : object[k] = "live"}]
        /\ UNCHANGED <<clock, store, artifact, dumped, mirrored, restore, faults>>

(* mark_failed and the end of the run; nothing is pruned after a failure.  *)
Fail(p) ==
    /\ record' = [record EXCEPT ![run[p].id].state = "failed", ![run[p].id].day = day]
    /\ run' = [run EXCEPT ![p] = Idle]

-----------------------------------------------------------------------------
(* _dump_metadata: pg_dump reads one snapshot of the rows and writes       *)
(* chunks into the bridge, whose queue is bounded; the upload drains it;   *)
(* whatever becomes of the upload, the run waits for the dump.             *)

dump_started(p) ==
    /\ run[p].phase = "started"
    /\ run' = [run EXCEPT ![p].phase = "dumping", ![p].pump = "dumping",
                          ![p].left = Chunks, ![p].upload = "putting"]
    /\ dumped' = [dumped EXCEPT ![run[p].id] = {k \in Keys : HasRow(k)}]
    /\ UNCHANGED <<clock, store, record, artifact, mirrored, steady, restore, faults>>

(* _StreamBridge.write *)
bridge_write(p) ==
    /\ run[p].pump = "dumping" /\ run[p].left > 0 /\ run[p].queue < Depth
    /\ run' = [run EXCEPT ![p].left = @ - 1, ![p].queue = @ + 1]
    /\ UNCHANGED <<clock, store, record, artifact, copies, restore, faults>>

(* pg_dump fails, at any point. *)
dump_fails(p) ==
    /\ run[p].pump = "dumping" /\ faults < MaxFaults
    /\ run' = [run EXCEPT ![p].pump = "failed"]
    /\ faults' = faults + 1
    /\ UNCHANGED <<clock, store, record, artifact, copies, restore>>

(* _StreamBridge.close, when pg_dump has ended or failed: the end marker   *)
(* takes a place in the queue too.                                         *)
bridge_close(p) ==
    /\ \/ run[p].pump = "dumping" /\ run[p].left = 0
       \/ run[p].pump = "failed"
    /\ run[p].queue < Depth
    /\ run' = [run EXCEPT ![p].queue = @ + 1,
                          ![p].pump = IF @ = "failed" THEN "raised" ELSE "done"]
    /\ UNCHANGED <<clock, store, record, artifact, copies, restore, faults>>

(* _StreamBridge.stream: the upload takes a chunk; the marker completes    *)
(* the object, be the dump whole or not.                                   *)
bridge_read(p) ==
    /\ run[p].upload = "putting" /\ run[p].queue > 0
    /\ LET last == run[p].pump \in {"done", "raised"} /\ run[p].queue = 1
       IN  /\ run' = [run EXCEPT ![p].queue = @ - 1,
                                 ![p].upload = IF last THEN "stored" ELSE @]
           /\ artifact' = IF last THEN [artifact EXCEPT ![run[p].id] = @ \cup {Dump}]
                                  ELSE artifact
    /\ UNCHANGED <<clock, store, record, copies, restore, faults>>

upload_fails(p) ==
    /\ run[p].upload = "putting" /\ faults < MaxFaults
    /\ run' = [run EXCEPT ![p].upload = "failed"]
    /\ faults' = faults + 1
    /\ UNCHANGED <<clock, store, record, artifact, copies, restore>>

(* "await task": the dump's own error, or the upload's, fails the run. *)
dump_joined(p) ==
    /\ run[p].phase = "dumping"
    /\ run[p].upload \in {"stored", "failed"} /\ run[p].pump \in {"done", "raised"}
    /\ IF run[p].upload = "stored" /\ run[p].pump = "done"
       THEN run' = [run EXCEPT ![p] = [Idle EXCEPT !.phase = "dumped", !.id = run[p].id]]
            /\ UNCHANGED record
       ELSE Fail(p)
    /\ UNCHANGED <<clock, store, artifact, copies, restore, faults>>

-----------------------------------------------------------------------------
(* _mirror: one listing of the content store, then the objects it named,   *)
(* one at a time; one that is gone by then fails the run.                  *)

mirror_lists(p) ==
    /\ run[p].phase = "dumped"
    /\ run' = [run EXCEPT ![p].phase = "mirroring",
                          ![p].todo = {k \in Keys : HasObject(k)}]
    /\ UNCHANGED <<clock, store, record, artifact, copies, restore, faults>>

(* _is_in_flight: the object landed after the run began. *)
IsInFlight(k, b) == landed[k] >= record[b].started

(* A variant that leaves out what landed since the run began. *)
_mirror_settled(p) ==
    /\ run[p].phase = "mirroring"
    /\ \E k \in run[p].todo :
        LET b == run[p].id IN
        /\ IF HasObject(k)
           THEN /\ run' = [run EXCEPT ![p].todo = @ \ {k}]
                /\ IF IsInFlight(k, b) THEN UNCHANGED <<artifact, mirrored>>
                   ELSE /\ artifact' = [artifact EXCEPT ![b] = @ \cup {k}]
                        /\ mirrored' = [mirrored EXCEPT ![b] = @ \cup {k}]
                /\ UNCHANGED record
           ELSE Fail(p) /\ UNCHANGED <<artifact, mirrored>>
    /\ UNCHANGED <<clock, store, dumped, steady, restore, faults>>

_mirror_one(p) ==
    /\ run[p].phase = "mirroring"
    /\ \E k \in run[p].todo :
        LET b == run[p].id IN
        IF HasObject(k)
        THEN /\ artifact' = [artifact EXCEPT ![b] = @ \cup {k}]
             /\ mirrored' = [mirrored EXCEPT ![b] = @ \cup {k}]
             /\ run' = [run EXCEPT ![p].todo = @ \ {k},
                           ![p].flight = IF IsInFlight(k, b) THEN @ \cup {k} ELSE @]
             /\ UNCHANGED record
        ELSE Fail(p) /\ UNCHANGED <<artifact, mirrored>>
    /\ UNCHANGED <<clock, store, dumped, steady, restore, faults>>

manifest_written(p) ==
    /\ run[p].phase = "mirroring" /\ run[p].todo = {}
    /\ artifact' = [artifact EXCEPT ![run[p].id] = @ \cup {Manifest}]
    /\ run' = [run EXCEPT ![p].phase = "comparing"]
    /\ UNCHANGED <<clock, store, record, copies, restore, faults>>

(* detect_skew over the manifest's keys and referenced_object_keys(),      *)
(* which reads the version table of the live database at this moment.      *)
NoSkew(captured, referenced, flight) ==
    (captured \ referenced) \cup (referenced \ captured) \subseteq flight

skew_compared(p) ==
    /\ run[p].phase = "comparing"
    /\ run' = [run EXCEPT ![p].phase = "verifying", ![p].flight = {},
                  ![p].skew = ~ NoSkew(mirrored[run[p].id], {k \in Keys : HasRow(k)},
                                       run[p].flight)]
    /\ UNCHANGED <<clock, store, record, artifact, copies, restore, faults>>

(* verify: the dump and a sample of the objects are read back; then        *)
(* utcnow() gives a finish time later than all before.                     *)
verified(p) ==
    /\ run[p].phase = "verifying"
    /\ \E sample \in SUBSET mirrored[run[p].id] :
        IF {Dump} \cup sample \subseteq artifact[run[p].id]
        THEN /\ finish' = finish + 1
             /\ run' = [run EXCEPT ![p].phase = "finishing", ![p].nth = finish', ![p].day = day]
             /\ UNCHANGED record
        ELSE Fail(p) /\ UNCHANGED finish
    /\ UNCHANGED <<day, store, artifact, copies, restore, faults>>

(* mark_verified is committed; BackupJob.run goes on to prune. *)
finished(p) ==
    /\ run[p].phase = "finishing"
    /\ record' = [record EXCEPT ![run[p].id].state = "verified", ![run[p].id].day = run[p].day,
                     ![run[p].id].nth = run[p].nth, ![run[p].id].skew = run[p].skew]
    /\ run' = [run EXCEPT ![p] = [Idle EXCEPT !.phase = "pruning", !.id = run[p].id]]
    /\ UNCHANGED <<clock, store, artifact, copies, restore, faults>>

(* A port raises during the copy or the verification: the run fails.       *)
port_fails(p) ==
    /\ run[p].phase \in {"dumped", "mirroring", "comparing", "verifying"}
    /\ faults < MaxFaults
    /\ Fail(p)
    /\ faults' = faults + 1
    /\ UNCHANGED <<clock, store, artifact, copies, restore>>

-----------------------------------------------------------------------------
(* apply_retention.                                                        *)

(* The day, week or month of a date, by how many days it has.              *)
_period_of(d, length) == d \div length

Newest(S) == {b \in S : \A c \in S : record[c].nth <= record[b].nth}

(* The newest backup of each of the last "count" periods.                  *)
_bucket_ids(S, length, count) ==
    {b \in S :
        LET newer == {c \in S : record[c].nth > record[b].nth}
            seen == {_period_of(record[c].day, length) : c \in newer}
        IN  _period_of(record[b].day, length) \notin seen /\ Cardinality(seen) < count}

(* The newest verified backup is kept whatever the buckets say. *)
Kept(S) ==
    _bucket_ids(S, 1, KeepDaily) \cup _bucket_ids(S, WeekDays, KeepWeekly)
        \cup _bucket_ids(S, MonthDays, KeepMonthly) \cup Newest(S)

(* A variant that takes every backup that is not verified for a failed one. *)
ExpiredUnverified(S) ==
    {b \in S : record[b].state # "verified" /\ day - record[b].day >= GraceDays}

(* _expired_failed_ids *)
ExpiredFailed(S) ==
    {b \in S : record[b].state = "failed" /\ day - record[b].day >= GraceDays}

(* decide_retention over list_recent(days=HistoryDays). *)
retention_decided(p) ==
    /\ run[p].phase = "pruning"
    /\ LET history == {b \in Backups : /\ record[b].state # "none"
                                       /\ record[b].started >= day - HistoryDays}
           whole == {b \in history : record[b].state = "verified"}
       IN  run' = [run EXCEPT ![p].phase = "deleting",
                              ![p].prune = (whole \ Kept(whole)) \cup ExpiredFailed(history)]
    /\ UNCHANGED <<clock, store, record, artifact, copies, restore, faults>>

(* _delete_artifacts: in the order of the keys, the dump first. *)
NextArtifact(b) ==
    IF Dump \in artifact[b] THEN {Dump}
    ELSE IF Manifest \in artifact[b] THEN {Manifest} ELSE artifact[b]

artifact_deleted(p) ==
    /\ run[p].phase = "deleting"
    /\ \E b \in run[p].prune :
        IF artifact[b] = {}
        THEN run' = [run EXCEPT ![p].prune = @ \ {b}] /\ UNCHANGED artifact
        ELSE /\ \E a \in NextArtifact(b) : artifact' = [artifact EXCEPT ![b] = @ \ {a}]
             /\ UNCHANGED run
    /\ UNCHANGED <<clock, store, record, copies, restore, faults>>

retention_ends(p) ==
    /\ run[p].phase = "deleting" /\ run[p].prune = {}
    /\ run' = [run EXCEPT ![p] = Idle]
    /\ UNCHANGED <<clock, store, record, artifact, copies, restore, faults>>

(* A delete that raises leaves the rest of the pruning to a later run.     *)
retention_fails(p) ==
    /\ run[p].phase = "deleting" /\ faults < MaxFaults
    /\ run' = [run EXCEPT ![p] = Idle]
    /\ faults' = faults + 1
    /\ UNCHANGED <<clock, store, record, artifact, copies, restore>>

(* A replica is stopped or dies: what it did not commit is lost. *)
crash(p) ==
    /\ run[p].phase # "idle" /\ faults < MaxFaults
    /\ run' = [run EXCEPT ![p] = Idle]
    /\ faults' = faults + 1
    /\ UNCHANGED <<clock, store, record, artifact, copies, restore>>

-----------------------------------------------------------------------------
(* RestoreService.restore.  The command looks the record up in the         *)
(* database of the stack it restores into; "found" says whether that       *)
(* database has it, "destructive" is the flag and "empty" the state of the *)
(* target.  Nothing asks whether the backup was verified, so a running or  *)
(* a failed one may be restored.  pg_restore may fail for its own reasons. *)

restore_started(b, found, destructive, empty) ==
    /\ restore.phase = "idle" /\ record[b].state # "none"
    /\ found /\ (destructive \/ empty)
    /\ restore' = [NoRestore EXCEPT !.id = b, !.phase = "guarded"]
    /\ UNCHANGED <<clock, store, record, artifact, copies, run, faults>>

RestoreFails == restore' = NoRestore

(* _load_manifest, then the dump: what retention has deleted is not found. *)
restore_manifest ==
    /\ restore.phase = "guarded"
    /\ IF Manifest \in artifact[restore.id]
       THEN restore' = [restore EXCEPT !.phase = "loading", !.todo = mirrored[restore.id]]
       ELSE RestoreFails
    /\ UNCHANGED <<clock, store, record, artifact, copies, run, faults>>

restore_dump ==
    /\ restore.phase = "loading"
    /\ \/ /\ Dump \in artifact[restore.id]
          /\ restore' = [restore EXCEPT !.phase = "objects", !.rows = dumped[restore.id]]
       \/ RestoreFails
    /\ UNCHANGED <<clock, store, record, artifact, copies, run, faults>>

(* A variant that goes on when a mirrored object is not found. *)
_restore_lenient ==
    /\ restore.phase = "objects"
    /\ \E k \in restore.todo :
        restore' = [restore EXCEPT !.todo = @ \ {k},
                        !.objects = @ \cup ({k} \cap artifact[restore.id])]
    /\ UNCHANGED <<clock, store, record, artifact, copies, run, faults>>

_restore_one ==
    /\ restore.phase = "objects"
    /\ \E k \in restore.todo :
        IF k \in artifact[restore.id]
        THEN restore' = [restore EXCEPT !.todo = @ \ {k}, !.objects = @ \cup {k}]
        ELSE RestoreFails
    /\ UNCHANGED <<clock, store, record, artifact, copies, run, faults>>

(* The key probe and the readiness probe decide what is reported. *)
restore_reported ==
    /\ restore.phase = "objects" /\ restore.todo = {}
    /\ restore' = [restore EXCEPT !.phase = "healthy"] \/ RestoreFails
    /\ UNCHANGED <<clock, store, record, artifact, copies, run, faults>>

-----------------------------------------------------------------------------
Step(p) ==
    \/ trigger(p) \/ dump_started(p) \/ bridge_write(p)
    \/ bridge_close(p) \/ bridge_read(p) \/ dump_joined(p) \/ mirror_lists(p)
    \/ _mirror_one(p) \/ manifest_written(p) \/ skew_compared(p) \/ verified(p)
    \/ finished(p) \/ retention_decided(p) \/ artifact_deleted(p) \/ retention_ends(p)

Fault(p) ==
    \/ dump_fails(p) \/ upload_fails(p) \/ port_fails(p) \/ retention_fails(p) \/ crash(p)

Restore ==
    \/ \E b \in Backups : \E found, destructive, empty \in BOOLEAN :
            restore_started(b, found, destructive, empty)
    \/ restore_manifest \/ restore_dump \/ _restore_one \/ restore_reported

Live ==
    \/ \E k \in Keys : upload_put(k) \/ upload_commit(k) \/ purge_object(k) \/ purge_commit(k)
    \/ tick

Next == (\E p \in Processes : Step(p) \/ Fault(p)) \/ Restore \/ Live

(* The event loop of a replica that does not crash runs every task that    *)
(* can go on; nothing else is assumed.                                     *)
Fairness == \A p \in Processes : WF_vars(Step(p))

Spec == Init /\ [][Next]_vars /\ Fairness

-----------------------------------------------------------------------------
(* Every file that is live from before a run starts until it is verified   *)
(* is in the backup twice: its row in the dump, its object in the mirror.  *)
(* The dump, the listing and the copies are taken at different moments,    *)
(* while files come and go.                                                *)
BackupCoversSteadyFiles ==
    \A b \in Backups : record[b].state = "verified" =>
        steady[b] \subseteq dumped[b] \cap mirrored[b]

(* A restore that reports a healthy stack has brought back the row and the *)
(* object of each of those files, although the backup may be unverified or *)
(* failed, and retention of several replicas deletes artifacts, the dump   *)
(* first, while the restore reads them.                                    *)
RestoreBringsBack ==
    restore.phase = "healthy" =>
        /\ steady[restore.id] \subseteq restore.rows \cap restore.objects
        /\ restore.objects = mirrored[restore.id]

(* The catalogue an operator relies upon: a verified backup is complete    *)
(* until pruning begins, and pruning begins only once a later backup is    *)
(* complete, whichever replicas prune, crash or fail half way.             *)
Whole(b) == {Dump, Manifest} \cup mirrored[b] \subseteq artifact[b]

status == [b \in Backups |->
    IF record[b].state = "none" THEN "absent"
    ELSE IF record[b].state # "verified" THEN "partial"
    ELSE IF Whole(b) THEN "complete" ELSE "pruned"]

done == [b \in Backups |-> record[b].nth]

Catalogue == INSTANCE BackupCatalogue

ImplementsCatalogue == Catalogue!Spec

(* Every run ends, verified, failed or cut short by a crash, so that the   *)
(* scheduler can start the next one.                                       *)
RunsEnd == \A p \in Processes : run[p].phase # "idle" ~> run[p].phase = "idle"
=============================================================================
