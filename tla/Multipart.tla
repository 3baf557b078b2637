----------------------------- MODULE Multipart ------------------------------
(***************************************************************************)
(* S3 multipart uploads: S3ObjectService, the repository of uploads and    *)
(* parts, and the sweep of abandoned uploads in OrphanReaper.  A part is   *)
(* an object at a key that its upload and number fix, and a row with its   *)
(* etag; the object is written before the row, the rows are read before    *)
(* the objects, and objects are deleted before the rows commit.  Requests  *)
(* overlap, fail and are repeated at any point.                            *)
(***************************************************************************)
EXTENDS Integers, FiniteSets, Sequences, SequencesExt

CONSTANTS
    Uploads,        \* upload ids; each names a target key of its own
    Callers,        \* requests and the reaper
    Reaper,         \* the caller that is the reaper
    Numbers,        \* part numbers
    Bodies,         \* bodies of parts; an etag is the body it is the digest of
    SizeOf,         \* the size of each body
    Missing, Gone,  \* no row, object or request; an upload that is over
    QuotaBytes,     \* quota_bytes of the owner of the targets
    Abandon,        \* s3_multipart_abandon_hours
    LastHour,       \* bound: the clock
    MaxPuts,        \* bound: parts sent in one behaviour
    MaxCalls,       \* bound: completions and aborts
    MaxFailures     \* bound: requests that fail for no reason of their own

ASSUME MultipartAssumption ==
    /\ Reaper \in Callers /\ {Missing, Gone} \cap (Bodies \cup Callers \cup Nat) = {}
    /\ Numbers \subseteq Nat \ {0} /\ SizeOf \in [Bodies -> Nat]
    /\ {QuotaBytes, Abandon, LastHour, MaxPuts, MaxCalls, MaxFailures} \subseteq Nat

VARIABLES
    hour,       \* the clock
    upload,     \* multipart_uploads: created_at, Missing before and Gone after
    part,       \* multipart_parts: the etag of each number of each upload
    staged,     \* the objects under the staging prefix
    target,     \* the versions of the file each upload completes into
    present,    \* whether the file was there before
    creating,   \* the request with an uncommitted row for the file
    charged,    \* the bytes charged to the owner
    charging,   \* the request with an uncommitted write to the quota row
    call,       \* each request
    puts,       \* history: how often each part was written to the store
    discarded,  \* history: uploads whose objects somebody began to delete
    counts      \* parts sent, completions and aborts, failures

mpVars == <<hour, upload, part, staged, target, present, creating, charged, charging, call,
            puts, discarded, counts>>

rowsKept == <<hour, upload, part, target, present, charged>>

NoCall == [phase |-> "idle", on |-> Missing, number |-> 0, body |-> Missing, want |-> <<>>,
           todo |-> <<>>, got |-> <<>>, new |-> FALSE, total |-> 0, doomed |-> {}]

MpInit ==
    /\ hour = 0
    /\ upload = [u \in Uploads |-> Missing]
    /\ part = [u \in Uploads |-> [n \in Numbers |-> Missing]]
    /\ staged = [u \in Uploads |-> [n \in Numbers |-> Missing]]
    /\ target = [u \in Uploads |-> <<>>]
    /\ present \in [Uploads -> BOOLEAN]
    /\ creating = [u \in Uploads |-> Missing]
    /\ charged = 0
    /\ charging = Missing
    /\ call = [c \in Callers |-> NoCall]
    /\ puts = [u \in Uploads |-> [n \in Numbers |-> 0]]
    /\ discarded = {}
    /\ counts = [puts |-> 0, calls |-> 0, failures |-> 0]

Bytes(bodies) == SumFunction([i \in DOMAIN bodies |-> SizeOf[bodies[i]]])

Open(u) == upload[u] \notin {Missing, Gone}

RowsOf(u) == {n \in Numbers : part[u][n] # Missing}

Starts(c, phase, u) == call[c].phase = "idle" /\ c # Reaper /\ (phase # "create" => Open(u))

-----------------------------------------------------------------------------
(* create_multipart_upload: the row, committed by the router.              *)
create_multipart_upload(c, u) ==
    /\ Starts(c, "create", u)
    /\ upload[u] = Missing
    /\ upload' = [upload EXCEPT ![u] = hour]
    /\ UNCHANGED <<hour, part, staged, target, present, creating, charged, charging, call,
                   puts, discarded, counts>>

(* upload_part: the upload is looked up, the object written, then the old  *)
(* row of that number deleted and the new one inserted.                    *)
upload_part(c, u, n, b) ==
    /\ Starts(c, "part", u)
    /\ counts.puts < MaxPuts
    /\ counts' = [counts EXCEPT !.puts = @ + 1]
    /\ call' = [call EXCEPT ![c] = [NoCall EXCEPT !.phase = "put", !.on = u, !.number = n,
                                       !.body = b]]
    /\ UNCHANGED <<rowsKept, staged, creating, charging, puts, discarded>>

part_put(c) ==
    LET u == call[c].on
        n == call[c].number
    IN  /\ call[c].phase = "put"
        /\ staged' = [staged EXCEPT ![u][n] = call[c].body]
        /\ puts' = [puts EXCEPT ![u][n] = @ + 1]
        /\ call' = [call EXCEPT ![c].phase = "record"]
        /\ UNCHANGED <<rowsKept, creating, charging, discarded, counts>>

(* The foreign key refuses a part of an upload that is gone. *)
add_part(c) ==
    LET u == call[c].on IN
    /\ call[c].phase = "record"
    /\ part' = IF Open(u) THEN [part EXCEPT ![u][call[c].number] = call[c].body] ELSE part
    /\ call' = [call EXCEPT ![c] = NoCall]
    /\ UNCHANGED <<hour, upload, staged, target, present, creating, charged, charging, puts,
                   discarded, counts>>

-----------------------------------------------------------------------------
(* complete_multipart_upload.                                              *)

(* The lists that are accepted: numbers of rows with the etags of the      *)
(* rows, at least one, ascending.                                          *)
Listings(u) ==
    UNION {{s \in [1 .. k -> RowsOf(u)] : \A i, j \in 1 .. k : i < j => s[i] < s[j]} :
               k \in 1 .. Cardinality(RowsOf(u))}

(* The parts are read in the order the client lists them.  The variant     *)
(* begins with the last.                                                   *)
part_order_reversed(listed) == Reverse(listed)

reconcile_requested(listed) == listed

(* The upload and its rows are read and the list reconciled with them; the *)
(* total must fit the quota; and the file is looked up.                    *)
complete_multipart_upload(c, u, listed) ==
    /\ Starts(c, "complete", u)
    /\ counts.calls < MaxCalls
    /\ LET want == [i \in DOMAIN listed |-> part[u][listed[i]]] IN
        /\ charged + Bytes(want) <= QuotaBytes
        /\ call' = [call EXCEPT ![c] = [NoCall EXCEPT
                        !.phase = "claim", !.on = u, !.want = want,
                        !.todo = reconcile_requested(listed),
                        !.new = ~ present[u], !.doomed = RowsOf(u)]]
    /\ counts' = [counts EXCEPT !.calls = @ + 1]
    /\ UNCHANGED <<rowsKept, staged, creating, charging, puts, discarded>>

(* _new_file is flushed before the first byte is read: a second completion *)
(* that found no file waits here and fails once the first has committed.   *)
_new_file(c) ==
    LET u == call[c].on IN
    /\ call[c].phase = "claim"
    /\ call[c].new => creating[u] = Missing
    /\ IF call[c].new /\ present[u]
       THEN call' = [call EXCEPT ![c] = NoCall] /\ UNCHANGED creating
       ELSE /\ creating' = IF call[c].new THEN [creating EXCEPT ![u] = c] ELSE creating
            /\ call' = [call EXCEPT ![c].phase = "stream"]
    /\ UNCHANGED <<rowsKept, staged, charging, puts, discarded, counts>>

(* The end of a request without a commit. *)
Released(c) ==
    /\ creating' = [u \in Uploads |-> IF creating[u] = c THEN Missing ELSE creating[u]]
    /\ charging' = IF charging = c THEN Missing ELSE charging

(* _assembled_stream reads the objects one after the other; a missing one  *)
(* ends the request.                                                       *)
_assembled_stream(c) ==
    LET object == staged[call[c].on][Head(call[c].todo)] IN
    /\ call[c].phase = "stream" /\ call[c].todo # <<>>
    /\ \/ /\ object # Missing
          /\ call' = [call EXCEPT ![c].todo = Tail(@), ![c].got = Append(@, object)]
          /\ UNCHANGED <<creating, charging>>
       \/ object = Missing /\ call' = [call EXCEPT ![c] = NoCall] /\ Released(c)
    /\ UNCHANGED <<rowsKept, staged, puts, discarded, counts>>

LengthMatches(c) == Bytes(call[c].got) = Bytes(call[c].want)

(* _store_version after the put: the length is compared with the sum of    *)
(* the rows, the quota row read and the new total computed from it.        *)
_charge(c) ==
    LET total == charged + Bytes(call[c].got) IN
    /\ call[c].phase = "stream" /\ call[c].todo = <<>>
    /\ IF LengthMatches(c) /\ total <= QuotaBytes
       THEN /\ call' = [call EXCEPT ![c].phase = "flush", ![c].total = total]
            /\ UNCHANGED <<creating, charging>>
       ELSE call' = [call EXCEPT ![c] = NoCall] /\ Released(c)
    /\ UNCHANGED <<rowsKept, staged, puts, discarded, counts>>

(* The flush writes the quota row, and holds it until the transaction ends. *)
flush(c) ==
    /\ call[c].phase = "flush" /\ charging = Missing
    /\ charging' = c
    /\ call' = [call EXCEPT ![c].phase = "discard"]
    /\ discarded' = discarded \cup {call[c].on}
    /\ UNCHANGED <<rowsKept, staged, creating, puts, counts>>

-----------------------------------------------------------------------------
(* abort_multipart_upload, and the reaper once the upload is old enough:   *)
(* the rows are read, the rest is _discard_upload.                         *)
Discards(c, u) ==
    /\ call[c].phase = "idle" /\ Open(u)
    /\ call' = [call EXCEPT ![c] = [NoCall EXCEPT !.phase = "discard", !.on = u,
                                       !.doomed = RowsOf(u)]]
    /\ discarded' = discarded \cup {u}
    /\ UNCHANGED <<rowsKept, staged, creating, charging, puts>>

abort_multipart_upload(c, u) ==
    /\ c # Reaper /\ counts.calls < MaxCalls
    /\ counts' = [counts EXCEPT !.calls = @ + 1]
    /\ Discards(c, u)

(* created_at < now - abandon *)
_reap_abandoned_multipart(u) ==
    /\ hour - upload[u] > Abandon
    /\ Discards(Reaper, u)
    /\ UNCHANGED counts

(* _discard_upload: the objects of the rows that were read, one by one ... *)
part_deleted(c) ==
    /\ call[c].phase = "discard"
    /\ \E n \in call[c].doomed :
        /\ staged' = [staged EXCEPT ![call[c].on][n] = Missing]
        /\ call' = [call EXCEPT ![c].doomed = @ \ {n}]
    /\ UNCHANGED <<rowsKept, creating, charging, puts, discarded, counts>>

(* ... then the row of the upload, with every part row by cascade, and the *)
(* commit.  The row may be gone already: no row matches, nothing fails.    *)
discard_committed(c) ==
    LET u == call[c].on
        once == \A n \in Numbers : puts[u][n] <= 1
        version == [want |-> call[c].want, got |-> call[c].got, once |-> once]
        completes == call[c].want # <<>>
    IN  /\ call[c].phase = "discard" /\ call[c].doomed = {}
        /\ upload' = [upload EXCEPT ![u] = Gone]
        /\ part' = [part EXCEPT ![u] = [n \in Numbers |-> Missing]]
        /\ target' = IF completes THEN [target EXCEPT ![u] = Append(@, version)] ELSE target
        /\ present' = IF completes THEN [present EXCEPT ![u] = TRUE] ELSE present
        /\ charged' = IF completes THEN call[c].total ELSE charged
        /\ call' = [call EXCEPT ![c] = NoCall]
        /\ Released(c)
        /\ UNCHANGED <<hour, staged, puts, discarded, counts>>

-----------------------------------------------------------------------------
Fails(c) ==
    /\ call[c].phase # "idle" /\ counts.failures < MaxFailures
    /\ counts' = [counts EXCEPT !.failures = @ + 1]
    /\ call' = [call EXCEPT ![c] = NoCall]
    /\ Released(c)

(* A variant that keeps the charge of a request that fails. *)
fails_charged(c) ==
    /\ Fails(c)
    /\ charged' = IF charging = c THEN call[c].total ELSE charged
    /\ UNCHANGED <<hour, upload, part, target, present, staged, puts, discarded>>

(* A variant that removes the object of a part that was not recorded. *)
fails_cleaning(c) ==
    /\ Fails(c)
    /\ staged' = IF call[c].phase = "record"
                 THEN [staged EXCEPT ![call[c].on][call[c].number] = Missing] ELSE staged
    /\ UNCHANGED <<rowsKept, puts, discarded>>

(* A client hangs up, a dependency fails, the worker dies: the transaction *)
(* is rolled back, objects stay as they are.                               *)
fails(c) == Fails(c) /\ UNCHANGED <<rowsKept, staged, puts, discarded>>

hour_passes ==
    /\ hour < LastHour
    /\ hour' = hour + 1
    /\ UNCHANGED <<upload, part, staged, target, present, creating, charged, charging, call,
                   puts, discarded, counts>>

MpNext ==
    \/ \E c \in Callers, u \in Uploads :
        \/ create_multipart_upload(c, u)
        \/ \E n \in Numbers, b \in Bodies : upload_part(c, u, n, b)
        \/ \E listed \in Listings(u) : complete_multipart_upload(c, u, listed)
        \/ abort_multipart_upload(c, u)
    \/ \E u \in Uploads : Open(u) /\ _reap_abandoned_multipart(u)
    \/ \E c \in Callers :
        \/ part_put(c) \/ add_part(c) \/ _new_file(c) \/ _assembled_stream(c) \/ _charge(c)
        \/ flush(c) \/ part_deleted(c) \/ discard_committed(c) \/ fails(c)
    \/ hour_passes

MpSpec == MpInit /\ [][MpNext]_mpVars

-----------------------------------------------------------------------------
(* A version that a completion commits is as long as the parts the client  *)
(* listed, whoever overwrote or deleted parts meanwhile; and it is exactly *)
(* those parts, in order, if no part was sent twice.                       *)
AssembledAsListed ==
    \A u \in Uploads : \A i \in DOMAIN target[u] :
        LET v == target[u][i]
        IN  Bytes(v.got) = Bytes(v.want) /\ (v.once => v.got = v.want)

(* A part whose row committed keeps its object, however often it is sent   *)
(* again and requests fail, until a completion, an abort or the reaper     *)
(* begins to take the upload away.                                         *)
AcknowledgedPartsKept ==
    \A u \in Uploads \ discarded : \A n \in RowsOf(u) : staged[u][n] # Missing

(* Sending parts costs nothing, a completion at most its bytes, once: the  *)
(* owner is never charged for more than the versions that exist.           *)
ChargeNeverAhead ==
    LET stored(u) == SumFunction([i \in DOMAIN target[u] |-> Bytes(target[u][i].got)])
    IN  charged <= SumFunction([u \in Uploads |-> stored(u)])
=============================================================================
