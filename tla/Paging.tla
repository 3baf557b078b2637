------------------------------- MODULE Paging -------------------------------
(***************************************************************************)
(* Keyset pagination over a table that changes between the pages.  Every   *)
(* listing reads one row more than the limit, returns the limit, and       *)
(* hands out a cursor that names the last row it returned; the next page   *)
(* starts strictly after it.  The surfaces differ in what they order by,   *)
(* in what the cursor says of it, and in whether it is bound to filters.   *)
(***************************************************************************)
EXTENDS Integers, FiniteSets, Sequences, SequencesExt

CONSTANTS
    Rows,           \* ids, ordered as numbers
    Places,         \* what a listing orders by: names, tags, stamps, keys
    Filters,        \* filters of a search; an owner and a direction of trash
    Matches,        \* the filters each row passes
    Surfaces,       \* the listings that are walked
    Limits,         \* limit, and max-keys
    NoCursor,
    NoPlace,        \* the row does not exist or is not visible
    MaxChanges      \* bound: changes to the table in one behaviour

ASSUME PagingAssumption ==
    /\ Rows \subseteq Nat /\ IsFiniteSet(Rows) /\ Places \subseteq Nat /\ Limits \subseteq Nat
    /\ Matches \in [Rows -> SUBSET Filters]
    /\ Surfaces \subseteq {"children", "search", "trash", "tags", "users", "s3", "feed"}
    /\ NoPlace \notin Nat /\ NoCursor \notin Nat \X Nat
    /\ MaxChanges \in Nat

VARIABLES
    place,      \* where each row stands
    walk,       \* the surface, the latest filter, start-after, the cursor, the items so far
    steady,     \* history: rows that did not change since the walk began
    tied,       \* history: rows that shared their place with another
    changes     \* how often the table changed

pageVars == <<place, walk, steady, tied, changes>>

(* Tags are grouped, subjects are unique, a key or common prefix of S3 is  *)
(* one item whatever is beneath it: those are ordered by place alone, the  *)
(* others by place and id.                                                 *)
Grouped == {"tags", "users", "s3"}

(* Search, tags and trash bind the cursor to a fingerprint of the filters. *)
Keyed == {"search", "tags", "trash"}

Item(surface, r) == IF surface \in Grouped THEN <<place[r], 0>> ELSE <<place[r], r>>

Before(x, y) == x[1] < y[1] \/ (x[1] = y[1] /\ x[2] < y[2])

Visible(filter) == {r \in Rows : place[r] # NoPlace /\ filter \in Matches[r]}

Items(surface, filter) == {Item(surface, r) : r \in Visible(filter)}

TiedNow == {r \in Rows : place[r] # NoPlace /\ \E q \in Rows \ {r} : place[q] = place[r]}

PageInit ==
    /\ place \in [Rows -> Places \cup {NoPlace}]
    /\ \E surface \in Surfaces, filter \in Filters, after \in Places \cup {NoPlace} :
        /\ after # NoPlace => surface = "s3"
        /\ walk = [surface |-> surface, filter |-> filter, after |-> after,
                   cursor |-> NoCursor, out |-> <<>>, over |-> FALSE]
    /\ steady = Rows
    /\ tied = TiedNow
    /\ changes = 0

-----------------------------------------------------------------------------
(* The variant takes the row of the cursor again. *)
FromCursor(surface, item, cursor) == ~ Before(item, cursor)

(* The feed and the audit log order by time and id, but the cursor is the  *)
(* time: the page after it starts with the next moment.                    *)
_feed_rows(item, cursor) == cursor[1] < item[1]

(* The stamp and then the id, as it is for names and ids elsewhere.        *)
_trash_cursor_predicate(item, cursor) == Before(cursor, item)

PastCursor(surface, item, cursor) ==
    CASE surface = "feed"  -> _feed_rows(item, cursor)
      [] surface = "trash" -> _trash_cursor_predicate(item, cursor)
      [] OTHER             -> Before(cursor, item)

(* A token wins over start-after. *)
_resume_after(item) ==
    IF walk.cursor # NoCursor THEN PastCursor(walk.surface, item, walk.cursor)
    ELSE walk.after = NoPlace \/ walk.after < item[1]

(* ORDER BY: the items of a set, each after those before it.               *)
order_by(S) ==
    CHOOSE rows \in [1 .. Cardinality(S) -> S] :
        \A i, j \in DOMAIN rows : i < j => Before(rows[i], rows[j])

Remaining(filter) == order_by({x \in Items(walk.surface, filter) : _resume_after(x)})

(* _paginate: a page, and a cursor if there is a row beyond it.            *)
_paginate(rows, limit) ==
    LET visible == SubSeq(rows, 1, IF limit < Len(rows) THEN limit ELSE Len(rows))
    IN  [items |-> visible,
         cursor |-> IF Len(rows) > limit /\ visible # <<>> THEN Last(visible) ELSE NoCursor,
         more |-> Len(rows) > limit]

(* decode_keyed_cursor refuses a cursor that was issued for other filters; *)
(* the client tries again.  With other cursors the listing is fixed.       *)
Accepts(filter) == filter = walk.filter \/ (walk.surface \in Keyed /\ walk.cursor = NoCursor)

(* max-keys=0 is truncated and has no token; everywhere else the route     *)
(* requires a limit of one.                                                *)
page(limit, filter) ==
    LET p == _paginate(Remaining(filter), limit) IN
    /\ ~ walk.over
    /\ limit = 0 => walk.surface = "s3"
    /\ Accepts(filter)
    /\ walk' = [walk EXCEPT !.filter = filter, !.out = @ \o p.items,
                            !.cursor = IF limit = 0 THEN @ ELSE p.cursor,
                            !.over = ~ p.more]
    /\ UNCHANGED <<place, steady, tied, changes>>

(* Between two pages a row appears, disappears or moves. *)
changed(r, to) ==
    /\ changes < MaxChanges /\ ~ walk.over
    /\ place[r] # to
    /\ place' = [place EXCEPT ![r] = to]
    /\ steady' = steady \ {r}
    /\ tied' = tied \cup TiedNow'
    /\ changes' = changes + 1
    /\ UNCHANGED walk

PageNext ==
    \/ \E limit \in Limits, filter \in Filters : page(limit, filter)
    \/ \E r \in Rows, to \in Places \cup {NoPlace} : changed(r, to)

PageSpec == PageInit /\ [][PageNext]_pageVars

-----------------------------------------------------------------------------
(* A walk that has come to its end returned every row that matches and     *)
(* stayed as it was, exactly once, whatever changed around it.  Of the     *)
(* feed this is true only for rows that share their moment with no other.  *)
WalkComplete ==
    walk.over =>
        \A r \in steady \cap Visible(walk.filter) :
            /\ walk.after # NoPlace => walk.after < place[r]
            /\ walk.surface = "feed" => r \notin tied
            => Cardinality({i \in DOMAIN walk.out : walk.out[i] = Item(walk.surface, r)}) = 1
=============================================================================
