----------------------------- MODULE QuotaUsage -----------------------------
(***************************************************************************)
(* The QuotaUsage entity of domain/users.py: what one user's storage costs *)
(* them, split over three buckets.  Every operator takes a usage record    *)
(* and returns the record the method of the same name leaves behind.       *)
(***************************************************************************)
EXTENDS Integers

NoUsage == [live |-> 0, trashed |-> 0, versions |-> 0]

AtLeastZero(n) == IF n < 0 THEN 0 ELSE n

AtMost(n, limit) == IF n < limit THEN n ELSE limit

total_bytes(q) == q.live + q.trashed + q.versions

would_exceed(q, quota, more) == total_bytes(q) + more > quota

(* Every bucket is clamped at zero: a release that does not find its bytes *)
(* in the bucket is lost.                                                  *)
charge_live(q, delta) == [q EXCEPT !.live = AtLeastZero(@ + delta)]

charge_versions(q, delta) == [q EXCEPT !.versions = AtLeastZero(@ + delta)]

move_to_trash(q, size) ==
    LET moved == AtMost(size, q.live)
    IN  [q EXCEPT !.live = @ - moved, !.trashed = @ + moved]

restore_from_trash(q, size) ==
    LET moved == AtMost(size, q.trashed)
    IN  [q EXCEPT !.trashed = @ - moved, !.live = @ + moved]

purge_from_trash(q, size) == [q EXCEPT !.trashed = AtLeastZero(@ - size)]

=============================================================================
