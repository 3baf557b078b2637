------------------------------- MODULE Labels -------------------------------
(***************************************************************************)
(* Tags and metadata of nodes: replaced whole or patched, by requests that *)
(* overlap, and read back by search and by the tag inventory.  A request   *)
(* that writes labels takes the advisory lock of the node before it reads  *)
(* anything, decides on what it read, and writes the rows it names; its    *)
(* answer is what it decided.  A rename takes no such lock and writes the  *)
(* same revision.  A label counts as many rows as node_tags has for it.    *)
(***************************************************************************)
EXTENDS Integers, FiniteSets, FiniteSetsExt

CONSTANTS
    Editors,        \* requests that write, each with one unit of work
    Labelled,       \* nodes
    Tags,           \* normalized tags
    MetaKeys, Values,   \* metadata; keys outside the reserved namespace
    Unheld,         \* no request, no node
    MaxTags,        \* MAX_TAGS_PER_NODE
    MaxPairs,       \* MAX_METADATA_PAIRS
    MaxEdits        \* bound: requests in one behaviour

ASSUME LabelsAssumption ==
    /\ Unheld \notin Editors \cup Labelled
    /\ {MaxTags, MaxPairs, MaxEdits} \subseteq Nat

VARIABLES
    tagRows,    \* node_tags: how many rows each tag has on each node
    pairs,      \* node_metadata: <<key, value>>
    revision,   \* nodes.revision
    binned,     \* nodes in the trash
    held,       \* nodes the caller of a search owns or has an active grant on
    latch,      \* who holds the advisory lock of each node
    edit,       \* each request
    told,       \* history: the labels the last answer for each node named
    edits       \* how many requests were started

labelVars == <<tagRows, pairs, revision, binned, held, latch, edit, told, edits>>

labels == <<tagRows, pairs, revision, told>>

tags_for(n) == {t \in Tags : tagRows[n][t] > 0}

(* Collections within the maximum: what validate_tags and                  *)
(* validate_metadata let through; a key appears once.                      *)
validate_tags == {S \in SUBSET Tags : Cardinality(S) <= MaxTags}

validate_metadata ==
    {P \in SUBSET (MetaKeys \X Values) :
        Cardinality(P) <= MaxPairs /\ \A p, q \in P : p[1] = q[1] => p = q}

NoEdit == [phase |-> "idle", op |-> "none", n |-> Unheld, add |-> {}, drop |-> {},
           seen |-> 0, merged |-> {}]

RowsFor(S) == [t \in Tags |-> IF t \in S THEN 1 ELSE 0]

LabelInit ==
    /\ \E S \in [Labelled -> validate_tags] : tagRows = [n \in Labelled |-> RowsFor(S[n])]
    /\ pairs \in [Labelled -> validate_metadata]
    /\ revision = [n \in Labelled |-> 1]
    /\ binned = {}
    /\ held \in SUBSET Labelled
    /\ latch = [n \in Labelled |-> Unheld]
    /\ edit = [e \in Editors |-> NoEdit]
    /\ told = [n \in Labelled |-> [tags |-> tags_for(n), pairs |-> pairs[n]]]
    /\ edits = 0

-----------------------------------------------------------------------------
(* The requests, as far as they are pure: the body is validated before a   *)
(* lock is taken.                                                          *)

Asks(e, n, op, add, drop) ==
    /\ edit[e].phase = "idle" /\ edits < MaxEdits
    /\ edits' = edits + 1
    /\ edit' = [edit EXCEPT ![e] = [NoEdit EXCEPT !.op = op, !.n = n, !.add = add,
                    !.drop = drop, !.phase = IF op = "rename" THEN "locked" ELSE "asked"]]
    /\ UNCHANGED <<labels, binned, held, latch>>

replace_tags(e, n, S) == Asks(e, n, "replace_tags", S, {})

replace_metadata(e, n, P) == Asks(e, n, "replace_metadata", P, {})

(* validate_tag_delta: something is named, and nothing twice. *)
patch_tags(e, n, S, drop) ==
    /\ S \cup drop # {} /\ S \cap drop = {} /\ Cardinality(drop) <= MaxTags
    /\ Asks(e, n, "patch_tags", S, drop)

Named(P) == {p[1] : p \in P}

patch_metadata(e, n, P, drop) ==
    /\ Named(P) \cup drop # {} /\ Named(P) \cap drop = {} /\ Cardinality(drop) <= MaxPairs
    /\ Asks(e, n, "patch_metadata", P, drop)

label_rename(e, n) == Asks(e, n, "rename", {}, {})

(* A variant of the advisory lock that keeps nobody out. *)
lock_nothing(e) ==
    /\ edit[e].phase = "asked"
    /\ edit' = [edit EXCEPT ![e].phase = "locked"]
    /\ UNCHANGED <<labels, binned, held, latch, edits>>

lock_subtree(e) ==
    /\ edit[e].phase = "asked" /\ latch[edit[e].n] = Unheld
    /\ latch' = [latch EXCEPT ![edit[e].n] = e]
    /\ edit' = [edit EXCEPT ![e].phase = "locked"]
    /\ UNCHANGED <<labels, binned, held, edits>>

-----------------------------------------------------------------------------
(* _authorize, then the decision on what is committed now.                 *)

merge_tags(current, add, drop) == (current \cup add) \ drop

merge_metadata(current, P, drop) ==
    {p \in current : p[1] \notin drop \cup Named(P)} \cup P

Merged(e) ==
    LET q == edit[e] IN
    CASE q.op = "patch_tags"     -> merge_tags(tags_for(q.n), q.add, q.drop)
      [] q.op = "patch_metadata" -> merge_metadata(pairs[q.n], q.add, q.drop)
      [] OTHER                   -> q.add

Fits(e) ==
    LET bound == IF edit[e].op \in {"patch_metadata", "replace_metadata"} THEN MaxPairs
                                                                          ELSE MaxTags
    IN  Cardinality(Merged(e)) <= bound

(* A patch that changes nothing writes nothing. *)
Unchanged(e) ==
    \/ edit[e].op = "patch_tags" /\ Merged(e) = tags_for(edit[e].n)
    \/ edit[e].op = "patch_metadata" /\ Merged(e) = pairs[edit[e].n]

LetsGo(e) ==
    /\ edit' = [edit EXCEPT ![e] = NoEdit]
    /\ latch' = [n \in Labelled |-> IF latch[n] = e THEN Unheld ELSE latch[n]]

decide(e) ==
    /\ edit[e].phase = "locked" /\ edit[e].n \notin binned
    /\ Fits(e)
    /\ IF Unchanged(e) THEN LetsGo(e)
       ELSE /\ edit' = [edit EXCEPT ![e].phase = "decided", ![e].merged = Merged(e),
                                    ![e].seen = revision[edit[e].n]]
            /\ UNCHANGED latch
    /\ UNCHANGED <<labels, binned, held, edits>>

(* Refused, for want of a role, a stale If-Match, a node in the trash or   *)
(* too many labels; or failed: the transaction is rolled back.             *)
refused(e) ==
    /\ edit[e].phase # "idle"
    /\ LetsGo(e)
    /\ UNCHANGED <<labels, binned, held, edits>>

-----------------------------------------------------------------------------
(* The statements, row by row, and the commit.                             *)

(* A variant without ON CONFLICT, on a table without the constraint. *)
add_tags_again(rows, S) == [t \in Tags |-> IF t \in S THEN rows[t] + 1 ELSE rows[t]]

add_tags(rows, S) == [t \in Tags |-> IF t \in S /\ rows[t] = 0 THEN 1 ELSE rows[t]]

remove_tags(rows, S) == [t \in Tags |-> IF t \in S THEN 0 ELSE rows[t]]

set_metadata(P, new) == {p \in P : p[1] \notin Named(new)} \cup new

remove_metadata_keys(P, ks) == {p \in P : p[1] \notin ks}

(* touch bumps the revision that was read, and update writes that number.  *)
_apply_label_change(e) ==
    LET q == edit[e] IN
    /\ q.phase = "decided"
    /\ tagRows' = [tagRows EXCEPT ![q.n] =
            CASE q.op = "replace_tags" -> RowsFor(q.add)
              [] q.op = "patch_tags"   -> remove_tags(add_tags(@, q.add), q.drop)
              [] OTHER                 -> @]
    /\ pairs' = [pairs EXCEPT ![q.n] =
            CASE q.op = "replace_metadata" -> q.add
              [] q.op = "patch_metadata"   -> remove_metadata_keys(set_metadata(@, q.add), q.drop)
              [] OTHER                     -> @]
    /\ told' = [told EXCEPT
            ![q.n].tags = IF q.op \in {"replace_tags", "patch_tags"} THEN q.merged ELSE @,
            ![q.n].pairs = IF q.op \in {"replace_metadata", "patch_metadata"}
                           THEN q.merged ELSE @]
    /\ revision' = [revision EXCEPT ![q.n] = q.seen + 1]
    /\ LetsGo(e)
    /\ UNCHANGED <<binned, held, edits>>

(* Meanwhile nodes go to the trash and come back. *)
label_trashed(n) ==
    /\ edits < MaxEdits /\ edits' = edits + 1
    /\ binned' = (binned \ {n}) \cup ({n} \ binned)
    /\ revision' = [revision EXCEPT ![n] = @ + 1]
    /\ UNCHANGED <<tagRows, pairs, told, held, latch, edit>>

-----------------------------------------------------------------------------
(* Search and inventory.                                                   *)

Searchable == held \ binned

(* _tag_conditions: one EXISTS for each tag, or one over all of them.      *)
_tag_conditions(n, S, match) ==
    \/ S = {}
    \/ match = "any" /\ \E t \in S : tagRows[n][t] > 0
    \/ match = "all" /\ \A t \in S : tagRows[n][t] > 0

TagMatch == {"all", "any"}

(* What SearchFilters.of lets through: a filter names something, a value   *)
(* goes with its key, and no more tags than a node may carry.  The name    *)
(* term is left out.                                                       *)
SearchFilters ==
    {f \in [tags : validate_tags, match : TagMatch,
            key : MetaKeys \cup {Unheld}, value : Values \cup {Unheld}] :
        /\ f.value # Unheld => f.key # Unheld
        /\ f.tags # {} \/ f.key # Unheld}

(* Every filter narrows. *)
search_statement(f) ==
    {n \in Searchable :
        /\ _tag_conditions(n, f.tags, f.match)
        /\ f.key # Unheld => \E p \in pairs[n] : p[1] = f.key /\ f.value \in {p[2], Unheld}}

search(f) == IF f \in SearchFilters THEN search_statement(f) ELSE {}

(* tag_counts joins the rows of the same nodes, groups them by tag and     *)
(* counts, so a tag without rows is not listed.                            *)
tag_counts(t) == SumFunction([n \in Searchable |-> tagRows[n][t]])

(* The vocabulary offered for a prefix, which is the tags that begin so.   *)
tag_inventory(prefix) == {<<t, tag_counts(t)>> : t \in {t \in prefix : tag_counts(t) > 0}}

-----------------------------------------------------------------------------
label_router(e, n) ==
    \/ \E S \in validate_tags : replace_tags(e, n, S)
    \/ \E P \in validate_metadata : replace_metadata(e, n, P)
    \/ \E S \in validate_tags, drop \in SUBSET Tags : patch_tags(e, n, S, drop)
    \/ \E P \in validate_metadata, drop \in SUBSET MetaKeys : patch_metadata(e, n, P, drop)

LabelNext ==
    \/ \E e \in Editors, n \in Labelled : label_router(e, n) \/ label_rename(e, n)
    \/ \E e \in Editors : lock_subtree(e) \/ decide(e) \/ refused(e) \/ _apply_label_change(e)
    \/ \E n \in Labelled : label_trashed(n)

LabelSpec == LabelInit /\ [][LabelNext]_labelVars

-----------------------------------------------------------------------------
(* What a request answered is what the node carries, although a patch      *)
(* writes its delta and not the collection it answers with; and so the     *)
(* maximum that was checked on the answer holds for the rows.              *)
AnswersHold ==
    \A n \in Labelled :
        /\ told[n] = [tags |-> tags_for(n), pairs |-> pairs[n]]
        /\ Cardinality(tags_for(n)) <= MaxTags /\ Cardinality(pairs[n]) <= MaxPairs

(* The inventory counts rows and search asks whether a row exists: the     *)
(* vocabulary lists the tags a search for them finds something for, each   *)
(* with the number of nodes the search returns.                            *)
InventoryAgrees ==
    \A match \in TagMatch :
        LET found(t) == search([tags |-> {t}, match |-> match, key |-> Unheld, value |-> Unheld])
        IN  tag_inventory(Tags) = {<<t, Cardinality(found(t))>> : t \in {t \in Tags : found(t) # {}}}
=============================================================================
