------------------------ MODULE ConcurrentTreeProofs ------------------------
(***************************************************************************)
(* What the lock on the destination of a move is worth.  However many      *)
(* requests overlap, moves that name one and the same destination cannot   *)
(* make a cycle together -- and the proof never uses the lock.  The pairs  *)
(* that can make one name different destinations, take different locks and *)
(* are found by TLC.                                                       *)
(***************************************************************************)
EXTENDS ConcurrentTree, CommonLemmas, FiniteSetTheorems

USE ConcurrentAssumption

(* What a request has decided to write leaves the root alone.              *)
RequestOK(r) ==
    /\ Root \notin tx[r].rows
    /\ tx[r].phase \in {"waiting", "locked"} => tx[r].op = "move"
    /\ tx[r].phase = "checked" /\ tx[r].op \in {"rename", "move", "restore"}
            => tx[r].n # Root
    /\ tx[r].phase = "checked" /\ tx[r].op = "restore" => tx[r].d \in {NoParent, Root}
    /\ tx[r].op \in {"create_folder", "move"} => tx[r].d # NoParent
    /\ tx[r].phase = "checked" /\ tx[r].op \in {"create_folder", "rename"}
            => tx[r].name \in Names

(* Types, a root that stays live and without a parent, and the foreign key.*)
TInv ==
    /\ TypeOK
    /\ nodes[Root].parent = NoParent
    /\ Live(nodes, Root)
    /\ ParentsExist(nodes)
    /\ \A r \in Requests : RequestOK(r)

(* A move goes to D, and once it passed its check D is still not beneath   *)
(* the folder it moves.                                                    *)
MoveStillSafe(D, r) ==
    /\ tx[r].op = "move" => tx[r].d = D
    /\ tx[r].op = "move" /\ tx[r].phase = "checked" /\ tx[r].n \in DOMAIN nodes
            => D \notin Subtree(nodes, tx[r].n)

(* The inductive invariant for moves to D.                                 *)
CInv(D) ==
    /\ Grounded(nodes, {Root})
    /\ \A r \in Requests : MoveStillSafe(D, r)

-----------------------------------------------------------------------------
(* A set that is closed downwards in the new table and does not hold D     *)
(* keeps D out of the subtree of every row in it.                          *)
LEMMA OutsideClosed ==
    ASSUME NEW t, NEW n, NEW D, NEW S \in SUBSET DOMAIN t, n \in S, D \notin S,
           DownClosed(t, S)
    PROVE  D \notin Subtree(t, n)
BY SubtreeLeast

(* Parents unchanged: what is beneath a row stays beneath it.              *)
LEMMA SameParentsSubtree ==
    ASSUME NEW t, NEW t2, DOMAIN t2 = DOMAIN t,
           \A m \in DOMAIN t : t2[m].parent = t[m].parent,
           NEW n \in DOMAIN t, NEW D, D \notin Subtree(t, n)
    PROVE  D \notin Subtree(t2, n)
<1>1. Subtree(t, n) \subseteq DOMAIN t /\ n \in Subtree(t, n)
  BY SubtreeClosed, SubtreeSelf
<1>2. DownClosed(t2, Subtree(t, n))
  BY SubtreeClosed DEF DownClosed
<1> QED
  BY <1>1, <1>2, OutsideClosed

(* A row m hung beneath D, which is not beneath m: what was not above D    *)
(* still is not.                                                           *)
LEMMA MovedToD ==
    ASSUME NEW t, NEW t2, DOMAIN t2 = DOMAIN t,
           NEW m \in DOMAIN t, NEW D, D \notin Subtree(t, m),
           \A k \in DOMAIN t \ {m} : t2[k].parent = t[k].parent,
           NEW n \in DOMAIN t, D \notin Subtree(t, n)
    PROVE  D \notin Subtree(t2, n)
<1> DEFINE S == Subtree(t, n) \cup Subtree(t, m)
<1>1. /\ S \subseteq DOMAIN t /\ n \in S /\ m \in S
      /\ D \notin S
  BY SubtreeClosed, SubtreeSelf
<1>2. DownClosed(t, S)
  BY SubtreeClosed DEF DownClosed
<1> HIDE DEF S
<1>3. DownClosed(t2, S)
  BY <1>1, <1>2 DEF DownClosed
<1> QED
  BY <1>1, <1>3, OutsideClosed

(* A row m hung beneath the root: D comes beneath nothing but the root.    *)
LEMMA MovedToRoot ==
    ASSUME NEW t, NEW t2, DOMAIN t2 = DOMAIN t, NEW root \in DOMAIN t,
           NEW m \in DOMAIN t, t2[m].parent = root,
           \A k \in DOMAIN t \ {m} : t2[k].parent = t[k].parent,
           t[root].parent \notin DOMAIN t,
           NEW n \in DOMAIN t, n # root, NEW D, D \notin Subtree(t, n)
    PROVE  D \notin Subtree(t2, n)
<1>1. /\ Subtree(t, n) \subseteq DOMAIN t /\ n \in Subtree(t, n)
      /\ root \notin Subtree(t, n)
      /\ DownClosed(t, Subtree(t, n))
  BY SubtreeClosed, SubtreeSelf, SubtreeOfOther
<1>2. DownClosed(t2, Subtree(t, n))
  BY <1>1 DEF DownClosed
<1> QED
  BY <1>1, <1>2, OutsideClosed

(* A row k that was added with no rows beneath it, and is not D.           *)
LEMMA LeafAdded ==
    ASSUME NEW t, NEW t2, NEW k, k \notin DOMAIN t, DOMAIN t2 = DOMAIN t \cup {k},
           \A m \in DOMAIN t : t2[m].parent = t[m].parent /\ t[m].parent # k,
           t2[k].parent # k,
           NEW n \in DOMAIN t, NEW D, D # k, D \notin Subtree(t, n)
    PROVE  D \notin Subtree(t2, n)
<1> DEFINE S == Subtree(t, n) \cup {k}
<1>1. S \in SUBSET DOMAIN t2 /\ n \in S /\ D \notin S
  BY SubtreeClosed, SubtreeSelf
<1>2. DownClosed(t2, S)
  <2>1. DownClosed(t, Subtree(t, n))
    BY SubtreeClosed
  <2> QED
    BY <2>1 DEF DownClosed
<1> HIDE DEF S
<1> QED
  BY <1>1, <1>2, OutsideClosed

(* Rows cut out of the table.                                              *)
LEMMA RowsCut ==
    ASSUME NEW t, NEW gone, NEW n \in DOMAIN t \ gone, NEW D, D \notin Subtree(t, n)
    PROVE  D \notin Subtree(WithoutRows(t, gone), n)
<1> DEFINE t2 == WithoutRows(t, gone)
           S == Subtree(t, n) \ gone
<1>1. DOMAIN t2 = DOMAIN t \ gone /\ \A m \in DOMAIN t2 : t2[m] = t[m]
  BY DEF WithoutRows
<1>2. DownClosed(t, Subtree(t, n)) /\ Subtree(t, n) \subseteq DOMAIN t /\ n \in Subtree(t, n)
  BY SubtreeClosed, SubtreeSelf
<1> HIDE DEF t2
<1>3. S \in SUBSET DOMAIN t2 /\ n \in S /\ D \notin S /\ DownClosed(t2, S)
  BY <1>1, <1>2 DEF DownClosed
<1>4. D \notin Subtree(t2, n)
  BY <1>3, OutsideClosed
<1> QED
  BY <1>4 DEF t2

(* Every chain ends at the root: the table is grounded.                    *)
LEMMA ChainsGround ==
    ASSUME NEW t, NEW root, \A n \in DOMAIN t : root \in Chain(t, n)
    PROVE  Grounded(t, {root})
<1> SUFFICES ASSUME NEW S \in SUBSET DOMAIN t, root \in S, DownClosed(t, S),
                    NEW m \in DOMAIN t, m \notin S
             PROVE  FALSE
  BY DEF Grounded
<1> DEFINE U == DOMAIN t \ S
<1>1. m \in U /\ U \in SUBSET DOMAIN t /\ UpClosed(t, U)
  BY DEF UpClosed, DownClosed
<1>2. Chain(t, m) \subseteq U
  BY <1>1 DEF Chain
<1> QED
  BY <1>2

-----------------------------------------------------------------------------
(* Types and the root.                                                     *)

(* A row with one field replaced is a row, its other fields as before.     *)
LEMMA RowWith ==
    ASSUME NEW row \in Row
    PROVE  /\ \A d \in Nodes \cup {NoParent} :
                 /\ [row EXCEPT !.parent = d] \in Row
                 /\ [row EXCEPT !.parent = d].parent = d
                 /\ [row EXCEPT !.parent = d].deletedAt = row.deletedAt
           /\ \A x \in Names :
                 /\ [row EXCEPT !.name = x] \in Row
                 /\ [row EXCEPT !.name = x].parent = row.parent
                 /\ [row EXCEPT !.name = x].deletedAt = row.deletedAt
           /\ \A k \in Nat :
                 /\ [row EXCEPT !.deletedAt = k] \in Row
                 /\ [row EXCEPT !.deletedAt = k].parent = row.parent
                 /\ [row EXCEPT !.deletedAt = k].deletedAt = k
BY DEF Row

(* A finished request is a request, and has nothing to write.              *)
LEMMA FinishedTx ==
    ASSUME NEW r \in Requests, tx[r] \in Tx
    PROVE  /\ Finished(r) \in Tx
           /\ Finished(r).rows = {}
           /\ Finished(r).phase = "done"
           /\ Finished(r).op = tx[r].op
           /\ Finished(r).d = tx[r].d
BY DEF Finished, Idle, Tx, Nodes, Never

(* A request that ends, in a table that still has its shape.               *)
LEMMA EndTypes ==
    ASSUME TInv, NEW r \in Requests,
           tx' = [tx EXCEPT ![r] = Finished(r)], clock' = clock,
           nodes' \in [DOMAIN nodes' -> Row], Root \in DOMAIN nodes',
           DOMAIN nodes' \subseteq Nodes, ParentsExist(nodes'),
           nodes'[Root].parent = NoParent, nodes'[Root].deletedAt = Never
    PROVE  TInv'
<1>1. tx \in [Requests -> Tx] /\ tx[r] \in Tx
  BY DEF TInv, TypeOK
<1> DEFINE rec == Finished(r)
<1>2. /\ rec \in Tx /\ rec.rows = {} /\ rec.phase = "done"
      /\ rec.op = tx[r].op /\ rec.d = tx[r].d
  BY <1>1, FinishedTx
<1> HIDE DEF rec
<1>3. tx' = [tx EXCEPT ![r] = rec]
  BY DEF rec
<1>4. /\ tx' \in [Requests -> Tx] /\ tx'[r] = rec
      /\ \A s \in Requests \ {r} : tx'[s] = tx[s]
  BY <1>1, <1>2, <1>3
<1>5. ASSUME NEW s \in Requests
      PROVE  RequestOK(s)'
  BY <1>2, <1>4, <1>5 DEF TInv, RequestOK
<1> QED
  BY <1>4, <1>5 DEF TInv, TypeOK, Live

(* A request that only read.                                               *)
LEMMA ReadTypes ==
    ASSUME TInv, NEW r \in Requests, NEW rec \in Tx,
           tx' = [tx EXCEPT ![r] = rec], nodes' = nodes, clock' \in Nat,
           RequestOK(r)'
    PROVE  TInv'
<1>1. tx' \in [Requests -> Tx] /\ \A s \in Requests \ {r} : tx'[s] = tx[s]
  BY DEF TInv, TypeOK
<1>2. ASSUME NEW s \in Requests
      PROVE  RequestOK(s)'
  BY <1>1, <1>2 DEF TInv, RequestOK
<1> QED
  BY <1>1, <1>2 DEF TInv, TypeOK, Live, ParentsExist

(* Parents and the root as before: the shape of the table stays.           *)
LEMMA SameShape ==
    ASSUME TInv, NEW r \in Requests,
           tx' = [tx EXCEPT ![r] = Finished(r)], clock' = clock,
           DOMAIN nodes' = DOMAIN nodes,
           nodes' \in [DOMAIN nodes -> Row],
           \A m \in DOMAIN nodes : nodes'[m].parent = nodes[m].parent,
           nodes'[Root].deletedAt = nodes[Root].deletedAt
    PROVE  TInv'
BY EndTypes DEF TInv, TypeOK, ParentsExist, Live

(* Nothing was written.                                                    *)
LEMMA RefusedTypes ==
    ASSUME TInv, NEW r \in Requests,
           tx' = [tx EXCEPT ![r] = Finished(r)], clock' = clock, nodes' = nodes
    PROVE  TInv'
BY SameShape DEF TInv, TypeOK

-----------------------------------------------------------------------------
(* What each commit leaves in the table, if it writes at all.              *)

(* One new leaf no request in flight mentions.                             *)
LEMMA Creates ==
    ASSUME TInv, NEW r \in Requests, NEW n \in Ids, commit_create_folder(r, n), nodes' # nodes
    PROVE  /\ n \notin DOMAIN nodes
           /\ DOMAIN nodes' = DOMAIN nodes \cup {n}
           /\ \A m \in DOMAIN nodes : nodes'[m] = nodes[m] /\ nodes[m].parent # n
           /\ nodes'[n] \in Row
           /\ nodes'[n].parent \in DOMAIN nodes
           /\ \A s \in Requests : n # tx[s].n /\ n # tx[s].d
           /\ ParentsExist(nodes')
<1> DEFINE new == Inserted(r, n)
<1>1. nodes' = new /\ ParentsExist(nodes') /\ n \in Fresh
  BY DEF commit_create_folder, Write, ConstraintsHold
<1>2. tx[r].d # NoParent /\ tx[r].name \in Names /\ tx[r].d \in Nodes \cup {NoParent}
  BY DEF TInv, RequestOK, commit_create_folder, TypeOK, Tx
<1>3. /\ n \notin DOMAIN nodes
      /\ n \in Nodes /\ n # NoParent /\ n # tx[r].d
      /\ \A s \in Requests : n # tx[s].n /\ n # tx[s].d
  BY <1>1 DEF Fresh, Nodes
<1>4. /\ DOMAIN nodes' = DOMAIN nodes \cup {n}
      /\ \A m \in DOMAIN nodes : nodes'[m] = nodes[m]
      /\ nodes'[n] = [parent |-> tx[r].d, name |-> tx[r].name, deletedAt |-> Never]
  BY <1>1, <1>3 DEF Inserted
<1> HIDE DEF new
<1>5. nodes'[n] \in Row /\ nodes'[n].parent = tx[r].d
  BY <1>2, <1>4 DEF Row, Never
<1>6. nodes'[n].parent \in DOMAIN nodes
  BY <1>1, <1>2, <1>3, <1>4, <1>5 DEF ParentsExist
<1>7. \A m \in DOMAIN nodes : nodes[m].parent # n
  BY <1>3 DEF TInv, ParentsExist
<1> QED
  BY <1>1, <1>3, <1>4, <1>5, <1>6, <1>7

(* A name, and nothing else.                                               *)
LEMMA Renames ==
    ASSUME TInv, NEW r \in Requests, commit_rename(r), nodes' # nodes
    PROVE  /\ DOMAIN nodes' = DOMAIN nodes
           /\ nodes' \in [DOMAIN nodes -> Row]
           /\ \A m \in DOMAIN nodes : /\ nodes'[m].parent = nodes[m].parent
                                       /\ nodes'[m].deletedAt = nodes[m].deletedAt
<1> DEFINE n == tx[r].n
           row == [nodes[n] EXCEPT !.name = tx[r].name]
<1>1. nodes' = [nodes EXCEPT ![n] = row] /\ n \in DOMAIN nodes
  BY DEF commit_rename, WriteRow, Write, Renamed
<1>2. tx[r].name \in Names /\ nodes \in [DOMAIN nodes -> Row]
  BY DEF TInv, RequestOK, commit_rename, WriteRow, TypeOK
<1>3. row \in Row /\ row.parent = nodes[n].parent /\ row.deletedAt = nodes[n].deletedAt
  BY <1>1, <1>2, RowWith
<1> HIDE DEF row, n
<1> QED
  BY <1>1, <1>2, <1>3

(* Stamps, and never the root's.                                           *)
LEMMA Deletes ==
    ASSUME TInv, NEW r \in Requests, commit_delete(r), nodes' # nodes
    PROVE  /\ DOMAIN nodes' = DOMAIN nodes
           /\ nodes' \in [DOMAIN nodes -> Row]
           /\ \A m \in DOMAIN nodes : nodes'[m].parent = nodes[m].parent
           /\ nodes'[Root] = nodes[Root]
<1>1. nodes' = Deleted(r) /\ Root \notin tx[r].rows /\ Root \in DOMAIN nodes
  BY DEF commit_delete, Write, TInv, RequestOK, TypeOK
<1>2. tx[r].stamp \in Nat /\ nodes \in [DOMAIN nodes -> Row]
  BY DEF TInv, TypeOK, Tx
<1> DEFINE row(m) == [nodes[m] EXCEPT !.deletedAt = tx[r].stamp]
<1>3. \A m \in DOMAIN nodes : row(m) \in Row /\ row(m).parent = nodes[m].parent
  BY <1>2, RowWith
<1>4. nodes' = [m \in DOMAIN nodes |->
                    IF m \in tx[r].rows /\ Live(nodes, m) THEN row(m) ELSE nodes[m]]
  BY <1>1 DEF Deleted
<1> HIDE DEF row
<1> QED
  BY <1>1, <1>2, <1>3, <1>4

(* One row hung beneath tx[r].d.                                           *)
LEMMA Moves ==
    ASSUME TInv, NEW r \in Requests, commit_move(r), nodes' # nodes
    PROVE  /\ DOMAIN nodes' = DOMAIN nodes
           /\ nodes' \in [DOMAIN nodes -> Row]
           /\ tx[r].n \in DOMAIN nodes \ {Root}
           /\ tx[r].d \in DOMAIN nodes
           /\ nodes'[tx[r].n].parent = tx[r].d
           /\ \A m \in DOMAIN nodes \ {tx[r].n} : nodes'[m].parent = nodes[m].parent
           /\ \A m \in DOMAIN nodes : nodes'[m].deletedAt = nodes[m].deletedAt
           /\ ParentsExist(nodes')
<1> DEFINE n == tx[r].n
           d == tx[r].d
           row == [nodes[n] EXCEPT !.parent = d]
<1>1. nodes' = [nodes EXCEPT ![n] = row] /\ n \in DOMAIN nodes /\ ParentsExist(nodes')
  BY DEF commit_move, WriteRow, Write, Moved, ConstraintsHold
<1>2. /\ n # Root /\ d # NoParent /\ d \in Nodes \cup {NoParent}
      /\ nodes \in [DOMAIN nodes -> Row]
  BY DEF TInv, RequestOK, commit_move, WriteRow, TypeOK, Tx
<1>3. row \in Row /\ row.parent = d /\ row.deletedAt = nodes[n].deletedAt
  BY <1>1, <1>2, RowWith
<1> HIDE DEF row, n, d
<1>4. /\ DOMAIN nodes' = DOMAIN nodes
      /\ nodes' \in [DOMAIN nodes -> Row]
      /\ nodes'[n].parent = d
      /\ \A m \in DOMAIN nodes \ {n} : nodes'[m].parent = nodes[m].parent
      /\ \A m \in DOMAIN nodes : nodes'[m].deletedAt = nodes[m].deletedAt
  BY <1>1, <1>2, <1>3
<1>5. d \in DOMAIN nodes
  BY <1>1, <1>2, <1>4 DEF ParentsExist
<1> QED
  BY <1>1, <1>2, <1>4, <1>5 DEF n, d

(* Stamps taken off, and one row perhaps hung beneath the root.            *)
LEMMA Restores ==
    ASSUME TInv, NEW r \in Requests, commit_restore(r), nodes' # nodes
    PROVE  /\ DOMAIN nodes' = DOMAIN nodes
           /\ nodes' \in [DOMAIN nodes -> Row]
           /\ tx[r].n \in DOMAIN nodes \ {Root}
           /\ nodes'[tx[r].n].parent \in {nodes[tx[r].n].parent, Root}
           /\ \A m \in DOMAIN nodes \ {tx[r].n} : nodes'[m].parent = nodes[m].parent
           /\ nodes'[Root] = nodes[Root]
<1> DEFINE n == tx[r].n
           d == tx[r].d
           up(m) == [nodes[m] EXCEPT !.deletedAt = Never]
           L == Lifted(r)
           row == [L[n] EXCEPT !.parent = d]
<1>1. /\ nodes' = Restored(r)
      /\ n \in DOMAIN nodes /\ n # Root
      /\ d \in {NoParent, Root}
      /\ Root \notin tx[r].rows /\ Root \in DOMAIN nodes /\ Root \in Nodes
      /\ nodes \in [DOMAIN nodes -> Row]
  BY DEF commit_restore, WriteRow, Write, TInv, RequestOK, TypeOK, Nodes
<1>2. \A m \in DOMAIN nodes : up(m) \in Row /\ up(m).parent = nodes[m].parent
  BY <1>1, RowWith DEF Never
<1>3. L = [m \in DOMAIN nodes |->
              IF m \in tx[r].rows /\ nodes[m].deletedAt = tx[r].stamp THEN up(m) ELSE nodes[m]]
  BY DEF Lifted
<1> HIDE DEF up
<1>4. /\ DOMAIN L = DOMAIN nodes /\ L \in [DOMAIN nodes -> Row]
      /\ \A m \in DOMAIN nodes : L[m].parent = nodes[m].parent
      /\ L[Root] = nodes[Root]
  BY <1>1, <1>2, <1>3
<1>5. CASE d = NoParent
  <2>1. nodes' = L
    BY <1>1, <1>5 DEF Restored
  <2> QED
    BY <1>1, <1>4, <2>1
<1>6. CASE d # NoParent
  <2>1. nodes' = [L EXCEPT ![n] = row]
    BY <1>1, <1>6 DEF Restored
  <2>2. row \in Row /\ row.parent = d
    BY <1>1, <1>4, RowWith
  <2> HIDE DEF row, L
  <2> QED
    BY <1>1, <1>4, <1>6, <2>1, <2>2
<1> QED
  BY <1>5, <1>6

(* Rows and all that is beneath them go, and never the root.               *)
LEMMA Purges ==
    ASSUME TInv, NEW r \in Requests, commit_purge(r), nodes' # nodes
    PROVE  /\ nodes' = WithoutRows(nodes, PurgedRows(r))
           /\ PurgedRows(r) \subseteq DOMAIN nodes
           /\ DownClosed(nodes, PurgedRows(r))
           /\ Root \notin PurgedRows(r)
           /\ ParentsExist(nodes')
<1>1. nodes' = WithoutRows(nodes, PurgedRows(r)) /\ ParentsExist(nodes')
  BY DEF commit_purge, Write, ConstraintsHold
<1>2. /\ PurgedRows(r) \subseteq DOMAIN nodes
      /\ DownClosed(nodes, PurgedRows(r))
  BY UnionOfSubtrees DEF PurgedRows
<1>3. ASSUME NEW m \in tx[r].rows \cap DOMAIN nodes
      PROVE  Root \notin Subtree(nodes, m)
  <2>1. /\ m # Root /\ Root \in DOMAIN nodes
        /\ nodes[Root].parent \notin DOMAIN nodes
    BY <1>3 DEF TInv, RequestOK, TypeOK
  <2> QED
    BY <1>3, <2>1, SubtreeOfOther
<1>4. Root \notin PurgedRows(r)
  BY <1>3 DEF PurgedRows
<1> QED
  BY <1>1, <1>2, <1>4

-----------------------------------------------------------------------------
(* A table the program starts from.                                        *)
LEMMA InitTable ==
    ASSUME NEW t \in Tables
    PROVE  /\ t \in [DOMAIN t -> Row]
           /\ Root \in DOMAIN t /\ DOMAIN t \subseteq Nodes
           /\ t[Root].parent = NoParent /\ t[Root].deletedAt = Never
           /\ ParentsExist(t)
           /\ \A n \in DOMAIN t : Root \in Chain(t, n)
<1> DEFINE rootRow == [parent |-> NoParent, name |-> NoParent, deletedAt |-> Never]
           rows == [parent : Nodes, name : Names, deletedAt : {Never, 1}]
           table(f) == [n \in DOMAIN f \cup {Root} |-> IF n = Root THEN rootRow ELSE f[n]]
           few == {S \in SUBSET Ids : Cardinality(S) <= MaxStart}
<1>0. t \in {table(f) : f \in UNION {[S -> rows] : S \in few}}
  BY DEF Tables
<1> HIDE DEF rows, table
<1>1. PICK S \in SUBSET Ids : \E f \in [S -> rows] : t = table(f)
  BY <1>0
<1> USE DEF table
<1>2. PICK f \in [S -> rows] : t = table(f)
  BY <1>1
<1>3. ParentsExist(t) /\ \A n \in DOMAIN t : Root \in Chain(t, n)
  BY DEF Tables
<1>4. rootRow \in Row /\ rootRow.parent = NoParent /\ rootRow.deletedAt = Never
  BY DEF Row, Never
<1>5. \A row \in rows : row \in Row
  BY DEF rows, Row, Never
<1> HIDE DEF rootRow
<1>6. DOMAIN t = S \cup {Root} /\ t[Root] = rootRow /\ \A n \in S \ {Root} : t[n] = f[n]
  BY <1>2
<1>7. t \in [DOMAIN t -> Row] /\ DOMAIN t \subseteq Nodes
  BY <1>2, <1>4, <1>5, <1>6 DEF Nodes
<1> QED
  BY <1>3, <1>4, <1>6, <1>7

(* The first states.                                                       *)
LEMMA InitTypes == Init => TInv
<1> SUFFICES ASSUME Init PROVE TInv
  OBVIOUS
<1>1. nodes \in Tables /\ tx = [r \in Requests |-> Idle] /\ clock = 1
  BY DEF Init
<1>2. /\ Idle \in Tx /\ Idle.rows = {} /\ Idle.phase = "idle" /\ Idle.op = "none"
  BY DEF Idle, Tx, Nodes, Never
<1>3. tx \in [Requests -> Tx] /\ \A r \in Requests : RequestOK(r)
  BY <1>1, <1>2 DEF RequestOK
<1> QED
  BY <1>1, <1>3, InitTable DEF TInv, TypeOK, Live

(* A request that was idle reads and decides.                              *)
LEMMA ReadsTypes ==
    ASSUME TInv, NEW r \in Requests, Begin(r) \/ lock_subtree(r) \/ read_move(r)
    PROVE  TInv'
<1>1. /\ tx[r] \in Tx /\ clock \in Nat
      /\ DOMAIN nodes \subseteq Nodes /\ Root \in DOMAIN nodes /\ Root \in Nodes
      /\ nodes \in [DOMAIN nodes -> Row]
      /\ nodes[Root].deletedAt = Never /\ nodes[Root].parent \notin DOMAIN nodes
      /\ tx \in [Requests -> Tx]
  BY DEF TInv, TypeOK, Live, Nodes
<1>2. ASSUME NEW op \in {"create_folder", "rename", "move", "delete", "restore", "purge"},
             NEW n \in Nodes, NEW d \in Nodes \cup {NoParent},
             NEW name \in Names \cup {NoParent}, NEW rows \in SUBSET (Nodes \ {Root}),
             NEW stamp \in Nat,
             Read(r, op, n, d, name, rows, stamp), nodes' = nodes, clock' \in Nat,
             op \in {"rename", "move", "restore"} => n # Root,
             op = "restore" => d \in {NoParent, Root},
             op \in {"create_folder", "move"} => d # NoParent,
             op \in {"create_folder", "rename"} => name \in Names
      PROVE  TInv'
  <2> DEFINE rec == [phase |-> "checked", op |-> op, n |-> n, d |-> d,
                     name |-> name, rows |-> rows, stamp |-> stamp]
  <2>1. rec \in Tx
    BY <1>2 DEF Tx
  <2>2. tx' = [tx EXCEPT ![r] = rec] /\ tx'[r] = rec
    BY <1>1, <1>2 DEF Read
  <2>3. RequestOK(r)'
    BY <1>2, <2>2 DEF RequestOK
  <2> HIDE DEF rec
  <2> QED
    BY <1>2, <2>1, <2>2, <2>3, ReadTypes
<1>3. ASSUME NEW n \in DOMAIN nodes \ {Root}
      PROVE  Subtree(nodes, n) \in SUBSET (Nodes \ {Root})
  <2>1. Root \notin Subtree(nodes, n) /\ Subtree(nodes, n) \subseteq DOMAIN nodes
    BY <1>1, <1>3, SubtreeOfOther, SubtreeClosed
  <2> QED
    BY <1>1, <2>1
<1>4. ASSUME NEW n \in DOMAIN nodes, NEW name \in Names, read_create_folder(r, n, name)
      PROVE  TInv'
  <2>1. /\ Read(r, "create_folder", Root, n, name, {}, Never)
        /\ nodes' = nodes /\ clock' = clock
    BY <1>4 DEF read_create_folder
  <2> QED
    BY <1>1, <1>2, <2>1 DEF Never
<1>5. ASSUME NEW n \in DOMAIN nodes, NEW name \in Names, read_rename(r, n, name)
      PROVE  TInv'
  <2>1. /\ Read(r, "rename", n, Root, name, {n}, Never) /\ n # Root
        /\ nodes' = nodes /\ clock' = clock
    BY <1>5 DEF read_rename
  <2> QED
    BY <1>1, <1>2, <2>1 DEF Never
<1>6. ASSUME NEW n \in DOMAIN nodes, NEW d \in Destinations, ask_move(r, n, d)
      PROVE  TInv'
  <2> DEFINE rec == [Idle EXCEPT !.phase = "waiting", !.op = "move", !.n = n, !.d = d]
  <2>1. d \in Nodes /\ d # NoParent
    OBVIOUS
  <2>2. /\ rec \in Tx /\ rec.rows = {} /\ rec.phase = "waiting" /\ rec.op = "move"
        /\ rec.d = d
    BY <1>1, <2>1 DEF Idle, Tx, Never
  <2>3. tx' = [tx EXCEPT ![r] = rec] /\ nodes' = nodes /\ clock' = clock
    BY <1>6 DEF ask_move
  <2> HIDE DEF rec
  <2>4. RequestOK(r)'
    BY <1>1, <2>1, <2>2, <2>3 DEF RequestOK
  <2> QED
    BY <1>1, <2>2, <2>3, <2>4, ReadTypes
<1>7. ASSUME NEW n \in DOMAIN nodes, read_delete(r, n)
      PROVE  TInv'
  <2>1. /\ Read(r, "delete", n, Root, NoParent, Moving(nodes, n), clock + 1) /\ n # Root
        /\ nodes' = nodes /\ clock' = clock + 1
    BY <1>7 DEF read_delete
  <2>2. Moving(nodes, n) \in SUBSET (Nodes \ {Root})
    BY <1>3, <2>1 DEF Moving
  <2> QED
    BY <1>1, <1>2, <2>1, <2>2
<1>8. ASSUME NEW n \in DOMAIN nodes, read_restore(r, n)
      PROVE  TInv'
  <2>1. PICK d \in {NoParent, Root} :
           /\ Read(r, "restore", n, d, NoParent, Batch(nodes, n), nodes[n].deletedAt)
           /\ nodes' = nodes /\ clock' = clock
    BY <1>8 DEF read_restore
  <2>2. n # Root /\ nodes[n].deletedAt \in Nat
    BY <1>1, <1>8 DEF read_restore, Trashed, Row
  <2>3. Batch(nodes, n) \in SUBSET (Nodes \ {Root})
    BY <1>3, <2>2 DEF Batch
  <2> QED
    BY <1>1, <1>2, <2>1, <2>2, <2>3
<1>9. ASSUME NEW n \in DOMAIN nodes, read_purge(r, n)
      PROVE  TInv'
  <2>1. /\ Read(r, "purge", n, Root, NoParent, Subtree(nodes, n), Never)
        /\ nodes' = nodes /\ clock' = clock
    BY <1>9 DEF read_purge
  <2>2. n # Root
    BY <1>1, <1>9 DEF read_purge, Trashed
  <2> QED
    BY <1>1, <1>2, <1>3, <2>1, <2>2 DEF Never
<1>10. ASSUME lock_subtree(r)
       PROVE  TInv'
  <2> DEFINE rec == [tx[r] EXCEPT !.phase = "locked"]
  <2>1. /\ rec \in Tx /\ rec.phase = "locked" /\ rec.op = tx[r].op /\ rec.d = tx[r].d
        /\ rec.rows = tx[r].rows
    BY <1>1 DEF Tx
  <2>2. tx' = [tx EXCEPT ![r] = rec] /\ nodes' = nodes /\ clock' = clock
    BY <1>10 DEF lock_subtree
  <2> HIDE DEF rec
  <2>3. RequestOK(r)'
    BY <1>1, <1>10, <2>1, <2>2 DEF RequestOK, TInv, lock_subtree
  <2> QED
    BY <1>1, <2>1, <2>2, <2>3, ReadTypes
<1>11. ASSUME read_move(r), MoveAllowed(tx[r].n, tx[r].d)
       PROVE  TInv'
  <2> DEFINE n == tx[r].n
             d == tx[r].d
  <2>1. /\ Read(r, "move", n, d, NoParent, {n}, Never)
        /\ nodes' = nodes /\ clock' = clock
        /\ n # Root
        /\ n \in DOMAIN nodes /\ d \in DOMAIN nodes
    BY <1>11 DEF read_move, MoveAllowed, Live
  <2> HIDE DEF n, d
  <2> QED
    BY <1>1, <1>2, <2>1 DEF Never
<1>12. ASSUME read_move(r), ~MoveAllowed(tx[r].n, tx[r].d)
       PROVE  TInv'
  BY <1>12, RefusedTypes DEF read_move
<1> QED
  BY <1>4, <1>5, <1>6, <1>7, <1>8, <1>9, <1>10, <1>11, <1>12 DEF Begin

(* A commit, whatever it writes, ends the request.                         *)
LEMMA CommitEnds ==
    ASSUME NEW r, Commit(r)
    PROVE  tx' = [tx EXCEPT ![r] = Finished(r)] /\ clock' = clock
BY DEF Commit, commit_create_folder, commit_rename, commit_move, commit_delete,
       commit_restore, commit_purge, WriteRow, Write

(* A commit keeps the types and the root.                                  *)
LEMMA CommitTypes ==
    ASSUME TInv, NEW r \in Requests, Commit(r)
    PROVE  TInv'
<1>1. tx' = [tx EXCEPT ![r] = Finished(r)] /\ clock' = clock
  BY CommitEnds
<1>2. CASE nodes' = nodes
  BY <1>1, <1>2, RefusedTypes
<1>3. SUFFICES ASSUME nodes' # nodes PROVE TInv'
  BY <1>2
<1>4. /\ Root \in DOMAIN nodes /\ DOMAIN nodes \subseteq Nodes
      /\ nodes \in [DOMAIN nodes -> Row]
      /\ nodes[Root].parent = NoParent /\ nodes[Root].deletedAt = Never
      /\ ParentsExist(nodes)
  BY DEF TInv, TypeOK, Live
<1>5. ASSUME NEW n \in Ids, commit_create_folder(r, n)
      PROVE  TInv'
  <2>1. /\ DOMAIN nodes' = DOMAIN nodes \cup {n}
        /\ \A m \in DOMAIN nodes : nodes'[m] = nodes[m]
        /\ nodes'[n] \in Row
        /\ ParentsExist(nodes')
    BY <1>3, <1>5, Creates
  <2>2. nodes' = [m \in DOMAIN nodes' |-> nodes'[m]]
    BY <1>3, <1>5 DEF commit_create_folder, Write, Inserted
  <2>3. nodes' \in [DOMAIN nodes' -> Row] /\ nodes'[Root] = nodes[Root]
    BY <1>4, <2>1, <2>2
  <2> QED
    BY <1>1, <1>4, <2>1, <2>3, EndTypes DEF Nodes
<1>6. CASE commit_rename(r)
  BY <1>1, <1>3, <1>4, <1>6, Renames, SameShape
<1>7. CASE commit_delete(r)
  BY <1>1, <1>3, <1>4, <1>7, Deletes, SameShape
<1>8. CASE commit_move(r)
  <2>1. /\ DOMAIN nodes' = DOMAIN nodes
        /\ nodes' \in [DOMAIN nodes -> Row]
        /\ nodes'[Root].parent = NoParent
        /\ nodes'[Root].deletedAt = Never
        /\ ParentsExist(nodes')
    BY <1>3, <1>4, <1>8, Moves
  <2> QED
    BY <1>1, <1>4, <2>1, EndTypes
<1>9. CASE commit_restore(r)
  <2>1. /\ DOMAIN nodes' = DOMAIN nodes
        /\ nodes' \in [DOMAIN nodes -> Row]
        /\ nodes'[Root] = nodes[Root]
        /\ \A m \in DOMAIN nodes : nodes'[m].parent \in {nodes[m].parent, Root}
    BY <1>3, <1>9, Restores
  <2>2. ParentsExist(nodes')
    BY <1>4, <2>1 DEF ParentsExist
  <2> QED
    BY <1>1, <1>4, <2>1, <2>2, EndTypes
<1>10. CASE commit_purge(r)
  <2>1. /\ nodes' = WithoutRows(nodes, PurgedRows(r))
        /\ Root \notin PurgedRows(r)
        /\ ParentsExist(nodes')
    BY <1>3, <1>10, Purges
  <2>2. /\ DOMAIN nodes' = DOMAIN nodes \ PurgedRows(r)
        /\ nodes' \in [DOMAIN nodes' -> Row]
        /\ nodes'[Root] = nodes[Root]
    BY <1>4, <2>1 DEF WithoutRows
  <2> QED
    BY <1>1, <1>4, <2>1, <2>2, EndTypes
<1> QED
  BY <1>5, <1>6, <1>7, <1>8, <1>9, <1>10 DEF Commit

(* Whatever overlaps: types, a live root without a parent, every parent    *)
(* in the table.                                                           *)
THEOREM RequestTypes == Spec => []TInv
<1>1. TInv /\ [Next]_vars => TInv'
  <2> SUFFICES ASSUME TInv, [Next]_vars PROVE TInv'
    OBVIOUS
  <2>1. ASSUME NEW r \in Requests, Begin(r) \/ lock_subtree(r) \/ read_move(r)
        PROVE  TInv'
    BY <2>1, ReadsTypes
  <2>2. ASSUME NEW r \in Requests, Commit(r)
        PROVE  TInv'
    BY <2>2, CommitTypes
  <2>3. CASE UNCHANGED vars
    BY <2>3 DEF vars, TInv, TypeOK, Live, ParentsExist, RequestOK
  <2> QED
    BY <2>1, <2>2, <2>3 DEF Next
<1> QED
  BY InitTypes, <1>1, PTL DEF Spec

(* The types alone, as TLC checks them.                                    *)
THEOREM TypesKept == Spec => []TypeOK
<1>1. TInv => TypeOK
  BY DEF TInv
<1> QED
  BY RequestTypes, <1>1, PTL

-----------------------------------------------------------------------------
(* Names.                                                                  *)

(* Deletions that overlap.                                                 *)

(* What DeletionsKept lets a step do to row n.                             *)
StampKept(n) ==
    Trashed(nodes, n) /\ nodes'[n].deletedAt # nodes[n].deletedAt
        => /\ nodes'[n].deletedAt = Never
           /\ \E r \in Requests : /\ tx[r].phase = "checked"
                                  /\ tx[r].op = "restore"
                                  /\ tx[r].stamp = nodes[n].deletedAt

(* A commit that lifts no deletion of another request: every kind of       *)
(* write, a restore included, keeps the stamp of a trashed row it did not  *)
(* read.                                                                   *)
LEMMA CommitKeepsStamps ==
    ASSUME TypeOK, NEW r \in Requests, Commit(r), NEW n \in DOMAIN nodes \cap DOMAIN nodes'
    PROVE  StampKept(n)
<1>1. /\ nodes \in [DOMAIN nodes -> Row]
      /\ n \in DOMAIN nodes /\ nodes[n] \in Row
  BY DEF TypeOK
<1>2. ASSUME NEW new, Write(r, new), n \in DOMAIN new => new[n].deletedAt = nodes[n].deletedAt
      PROVE  StampKept(n)
  <2>1. nodes' = new \/ nodes' = nodes
    BY <1>2 DEF Write
  <2> QED BY <1>2, <2>1 DEF StampKept
<1>3. CASE \E k \in Ids : commit_create_folder(r, k)
  <2>1. PICK k \in Ids : commit_create_folder(r, k)
    BY <1>3
  <2>2. k \notin DOMAIN nodes /\ Write(r, Inserted(r, k))
    BY <2>1 DEF commit_create_folder, Fresh
  <2>3. Inserted(r, k)[n].deletedAt = nodes[n].deletedAt
    BY <1>1, <2>2 DEF Inserted
  <2> QED BY <1>2, <2>2, <2>3
<1>4. CASE commit_rename(r)
  <2>1. Write(r, IF tx[r].n \in DOMAIN nodes THEN Renamed(r) ELSE nodes)
    BY <1>4 DEF commit_rename, WriteRow
  <2>2. Renamed(r)[n].deletedAt = nodes[n].deletedAt
    BY <1>1 DEF Renamed, Row
  <2> QED BY <1>2, <2>1, <2>2
<1>5. CASE commit_move(r)
  <2>1. Write(r, IF tx[r].n \in DOMAIN nodes THEN Moved(r) ELSE nodes)
    BY <1>5 DEF commit_move, WriteRow
  <2>2. Moved(r)[n].deletedAt = nodes[n].deletedAt
    BY <1>1 DEF Moved, Row
  <2> QED BY <1>2, <2>1, <2>2
<1>6. CASE commit_delete(r)
  <2>1. Write(r, Deleted(r))
    BY <1>6 DEF commit_delete
  <2>2. CASE Live(nodes, n)
    BY <2>2 DEF StampKept, Trashed, Live
  <2>3. CASE ~ Live(nodes, n)
    <3>1. Deleted(r)[n].deletedAt = nodes[n].deletedAt
      BY <1>1, <2>3 DEF Deleted
    <3> QED BY <1>2, <2>1, <3>1
  <2> QED BY <2>2, <2>3
<1>7. CASE commit_restore(r)
  <2>1. /\ tx[r].phase = "checked" /\ tx[r].op = "restore"
        /\ Write(r, IF tx[r].n \in DOMAIN nodes THEN Restored(r) ELSE nodes)
    BY <1>7 DEF commit_restore, WriteRow
  <2>2. /\ DOMAIN Lifted(r) = DOMAIN nodes
        /\ \/ Lifted(r)[n].deletedAt = nodes[n].deletedAt
           \/ Lifted(r)[n].deletedAt = Never /\ nodes[n].deletedAt = tx[r].stamp
    <3>1. PICK row \in Row : row = nodes[n]
      BY <1>1
    <3>2. [row EXCEPT !.deletedAt = Never].deletedAt = Never
      BY RowWith DEF Never
    <3>3. Lifted(r)[n] = IF n \in tx[r].rows /\ row.deletedAt = tx[r].stamp
                         THEN [row EXCEPT !.deletedAt = Never] ELSE row
      BY <1>1, <3>1 DEF Lifted
    <3>4. DOMAIN Lifted(r) = DOMAIN nodes
      BY DEF Lifted
    <3>5. CASE n \in tx[r].rows /\ row.deletedAt = tx[r].stamp
      <4>1. Lifted(r)[n].deletedAt = Never
        BY <3>2, <3>3, <3>5
      <4> QED BY <3>1, <3>4, <3>5, <4>1
    <3>6. CASE ~ (n \in tx[r].rows /\ row.deletedAt = tx[r].stamp)
      <4>1. Lifted(r)[n] = row
        BY <3>3, <3>6
      <4> QED BY <3>1, <3>4, <4>1
    <3> QED BY <3>5, <3>6
  <2>3. Restored(r)[n].deletedAt = Lifted(r)[n].deletedAt
    <3>1. Lifted(r)[n] \in Row
      BY <1>1 DEF Lifted, Row, Never
    <3> QED BY <1>1, <2>2, <3>1 DEF Restored, Row
  <2>4. CASE nodes[n].deletedAt = tx[r].stamp /\ Restored(r)[n].deletedAt = Never
    <3>1. nodes' = Restored(r) \/ nodes' = nodes
      BY <2>1 DEF Write
    <3> QED BY <2>1, <2>4, <3>1 DEF StampKept
  <2>5. CASE Restored(r)[n].deletedAt = nodes[n].deletedAt
    BY <1>2, <2>1, <2>5
  <2> QED BY <2>2, <2>3, <2>4, <2>5
<1>8. CASE commit_purge(r)
  <2>1. Write(r, WithoutRows(nodes, PurgedRows(r)))
    BY <1>8 DEF commit_purge
  <2>2. n \in DOMAIN WithoutRows(nodes, PurgedRows(r))
            => WithoutRows(nodes, PurgedRows(r))[n].deletedAt = nodes[n].deletedAt
    BY DEF WithoutRows
  <2> QED BY <1>2, <2>1, <2>2
<1> QED BY <1>3, <1>4, <1>5, <1>6, <1>7, <1>8 DEF Commit

(* However many requests overlap, a row in the trash keeps the stamp of    *)
(* the deletion that took it until a restore that read this very stamp     *)
(* lifts it: overlapping deletions and restores do not mix.                *)
THEOREM DeletionsStayApart == Spec => DeletionsKept
<1>1. TypeOK /\ [Next]_vars
        => [\A n \in DOMAIN nodes \cap DOMAIN nodes' : StampKept(n)]_vars
  <2> SUFFICES ASSUME TypeOK, Next, NEW n \in DOMAIN nodes \cap DOMAIN nodes'
               PROVE  StampKept(n)
    BY DEF vars
  <2>1. ASSUME NEW r \in Requests, Begin(r) \/ lock_subtree(r) \/ read_move(r)
        PROVE  StampKept(n)
    <3>1. nodes' = nodes
      BY <2>1 DEF Begin, read_create_folder, read_rename, ask_move, read_delete, read_restore,
                  read_purge, lock_subtree, read_move
    <3> QED BY <3>1 DEF StampKept
  <2> QED BY <2>1, CommitKeepsStamps DEF Next
<1> QED BY <1>1, TypesKept, PTL DEF Spec, DeletionsKept, StampKept

-----------------------------------------------------------------------------
(* One destination.                                                        *)

(* A request that ends: the others are safe if the new table keeps them.   *)
LEMMA EndSafe ==
    ASSUME TInv, NEW D, CInv(D), NEW r \in Requests,
           tx' = [tx EXCEPT ![r] = Finished(r)],
           Grounded(nodes', {Root}),
           \A s \in Requests \ {r} :
               tx[s].op = "move" /\ tx[s].phase = "checked" /\ tx[s].n \in DOMAIN nodes'
                   => D \notin Subtree(nodes', tx[s].n)
    PROVE  CInv(D)'
<1>1. tx \in [Requests -> Tx] /\ tx[r] \in Tx
  BY DEF TInv, TypeOK
<1>2. /\ tx'[r].phase = "done" /\ tx'[r].op = tx[r].op /\ tx'[r].d = tx[r].d
      /\ \A s \in Requests \ {r} : tx'[s] = tx[s]
  BY <1>1, FinishedTx
<1>3. MoveStillSafe(D, r)'
  BY <1>2 DEF CInv, MoveStillSafe
<1>4. ASSUME NEW s \in Requests \ {r}
      PROVE  MoveStillSafe(D, s)'
  BY <1>2, <1>4 DEF CInv, MoveStillSafe
<1> QED
  BY <1>3, <1>4 DEF CInv

(* The parents are what they were.                                         *)
LEMMA ParentsSafe ==
    ASSUME TInv, NEW D, CInv(D), NEW r \in Requests,
           tx' = [tx EXCEPT ![r] = Finished(r)],
           DOMAIN nodes' = DOMAIN nodes,
           \A m \in DOMAIN nodes : nodes'[m].parent = nodes[m].parent
    PROVE  CInv(D)'
<1>1. Grounded(nodes', {Root})
  BY GroundedSameParents DEF CInv
<1>2. ASSUME NEW s \in Requests \ {r}, tx[s].op = "move", tx[s].phase = "checked",
             tx[s].n \in DOMAIN nodes'
      PROVE  D \notin Subtree(nodes', tx[s].n)
  <2>1. D \notin Subtree(nodes, tx[s].n)
    BY <1>2 DEF CInv, MoveStillSafe
  <2> QED
    BY <1>2, <2>1, SameParentsSubtree
<1> QED
  BY <1>1, <1>2, EndSafe

(* A request that only read.                                               *)
LEMMA ReadSafe ==
    ASSUME TInv, NEW D, CInv(D), NEW r \in Requests, NEW rec,
           tx' = [tx EXCEPT ![r] = rec], nodes' = nodes, MoveStillSafe(D, r)'
    PROVE  CInv(D)'
<1>1. \A s \in Requests \ {r} : tx'[s] = tx[s]
  BY DEF TInv, TypeOK
<1>2. ASSUME NEW s \in Requests \ {r}
      PROVE  MoveStillSafe(D, s)'
  BY <1>1, <1>2 DEF CInv, MoveStillSafe
<1> QED
  BY <1>2 DEF CInv

(* A commit leaves D outside every folder that a move in flight is to hang *)
(* beneath it.                                                             *)
LEMMA CommitSafe ==
    ASSUME TInv, NEW D, CInv(D), NEW r \in Requests, Commit(r)
    PROVE  CInv(D)'
<1>1. tx' = [tx EXCEPT ![r] = Finished(r)]
  BY CommitEnds
<1>2. CASE nodes' = nodes
  BY <1>1, <1>2, ParentsSafe
<1>3. SUFFICES ASSUME nodes' # nodes PROVE CInv(D)'
  BY <1>2
<1>4. /\ Root \in DOMAIN nodes /\ nodes[Root].parent \notin DOMAIN nodes
      /\ DOMAIN nodes \subseteq Nodes
      /\ Grounded(nodes, {Root})
  BY DEF TInv, TypeOK, CInv
<1>5. ASSUME NEW s \in Requests, tx[s].op = "move", tx[s].phase = "checked"
      PROVE  /\ tx[s].n # Root /\ tx[s].d = D
             /\ tx[s].n \in DOMAIN nodes => D \notin Subtree(nodes, tx[s].n)
  BY <1>5 DEF TInv, RequestOK, CInv, MoveStillSafe
<1>6. ASSUME NEW n \in Ids, commit_create_folder(r, n)
      PROVE  CInv(D)'
  <2>1. /\ n \notin DOMAIN nodes
        /\ DOMAIN nodes' = DOMAIN nodes \cup {n}
        /\ \A m \in DOMAIN nodes : nodes'[m] = nodes[m] /\ nodes[m].parent # n
        /\ nodes'[n].parent \in DOMAIN nodes
        /\ \A s \in Requests : n # tx[s].n /\ n # tx[s].d
    BY <1>3, <1>6, Creates
  <2>2. Grounded(nodes', {Root})
    BY <1>4, <2>1, GroundedLeaf
  <2>3. ASSUME NEW s \in Requests \ {r}, tx[s].op = "move", tx[s].phase = "checked",
               tx[s].n \in DOMAIN nodes'
        PROVE  D \notin Subtree(nodes', tx[s].n)
    <3>1. tx[s].n \in DOMAIN nodes /\ D # n /\ D \notin Subtree(nodes, tx[s].n)
      BY <1>5, <2>1, <2>3
    <3>2. nodes'[n].parent # n
      BY <2>1
    <3> QED
      BY <2>1, <3>1, <3>2, LeafAdded
  <2> QED
    BY <1>1, <2>2, <2>3, EndSafe
<1>7. CASE commit_rename(r)
  BY <1>1, <1>3, <1>7, Renames, ParentsSafe
<1>8. CASE commit_delete(r)
  BY <1>1, <1>3, <1>8, Deletes, ParentsSafe
<1>9. CASE commit_move(r)
  <2> DEFINE n == tx[r].n
  <2>1. /\ DOMAIN nodes' = DOMAIN nodes
        /\ n \in DOMAIN nodes /\ D \in DOMAIN nodes
        /\ nodes'[n].parent = D
        /\ \A m \in DOMAIN nodes \ {n} : nodes'[m].parent = nodes[m].parent
        /\ D \notin Subtree(nodes, n)
    BY <1>3, <1>5, <1>9, Moves DEF commit_move, WriteRow
  <2> HIDE DEF n
  <2>2. Grounded(nodes', {Root})
    BY <1>4, <2>1, GroundedMove
  <2>3. ASSUME NEW s \in Requests \ {r}, tx[s].op = "move", tx[s].phase = "checked",
               tx[s].n \in DOMAIN nodes'
        PROVE  D \notin Subtree(nodes', tx[s].n)
    BY <1>5, <2>1, <2>3, MovedToD
  <2> QED
    BY <1>1, <2>2, <2>3, EndSafe
<1>10. CASE commit_restore(r)
  <2> DEFINE n == tx[r].n
  <2>1. /\ DOMAIN nodes' = DOMAIN nodes
        /\ n \in DOMAIN nodes \ {Root}
        /\ nodes'[n].parent \in {nodes[n].parent, Root}
        /\ \A m \in DOMAIN nodes \ {n} : nodes'[m].parent = nodes[m].parent
    BY <1>3, <1>10, Restores
  <2> HIDE DEF n
  <2>2. CASE nodes'[n].parent = nodes[n].parent
    BY <1>1, <2>1, <2>2, ParentsSafe
  <2>3. CASE nodes'[n].parent = Root
    <3>1. Root \notin Subtree(nodes, n)
      BY <1>4, <2>1, SubtreeOfOther
    <3>2. Grounded(nodes', {Root})
      BY <1>4, <2>1, <2>3, <3>1, GroundedMove
    <3>3. ASSUME NEW s \in Requests \ {r}, tx[s].op = "move", tx[s].phase = "checked",
                 tx[s].n \in DOMAIN nodes'
          PROVE  D \notin Subtree(nodes', tx[s].n)
      BY <1>4, <1>5, <2>1, <2>3, <3>3, MovedToRoot
    <3> QED
      BY <1>1, <3>2, <3>3, EndSafe
  <2> QED
    BY <2>1, <2>2, <2>3
<1>11. CASE commit_purge(r)
  <2> DEFINE gone == PurgedRows(r)
  <2>1. /\ nodes' = WithoutRows(nodes, gone)
        /\ gone \in SUBSET DOMAIN nodes /\ DownClosed(nodes, gone)
        /\ {Root} \cap gone = {}
    BY <1>3, <1>11, Purges
  <2> HIDE DEF gone
  <2>2. Grounded(nodes', {Root}) /\ DOMAIN nodes' = DOMAIN nodes \ gone
    BY <1>4, <2>1, GroundedCut DEF WithoutRows
  <2>3. ASSUME NEW s \in Requests \ {r}, tx[s].op = "move", tx[s].phase = "checked",
               tx[s].n \in DOMAIN nodes'
        PROVE  D \notin Subtree(nodes', tx[s].n)
    BY <1>5, <2>1, <2>2, <2>3, RowsCut
  <2> QED
    BY <1>1, <2>2, <2>3, EndSafe
<1> QED
  BY <1>6, <1>7, <1>8, <1>9, <1>10, <1>11 DEF Commit

(* A request that reads decides to move beneath D only a folder that is    *)
(* not above D.                                                            *)
LEMMA ReadsSafe ==
    ASSUME TInv, NEW D, Destinations = {D}, CInv(D), NEW r \in Requests,
           Begin(r) \/ lock_subtree(r) \/ read_move(r)
    PROVE  CInv(D)'
<1>1. tx \in [Requests -> Tx] /\ tx[r] \in Tx
  BY DEF TInv, TypeOK
<1>2. ASSUME NEW op, NEW n, NEW d, NEW name, NEW rows, NEW stamp, op # "move",
             Read(r, op, n, d, name, rows, stamp), nodes' = nodes
      PROVE  CInv(D)'
  <2> DEFINE rec == [phase |-> "checked", op |-> op, n |-> n, d |-> d,
                     name |-> name, rows |-> rows, stamp |-> stamp]
  <2>1. tx' = [tx EXCEPT ![r] = rec] /\ tx'[r].op = op
    BY <1>1, <1>2 DEF Read
  <2>2. MoveStillSafe(D, r)'
    BY <1>2, <2>1 DEF MoveStillSafe
  <2> HIDE DEF rec
  <2> QED
    BY <1>2, <2>1, <2>2, ReadSafe
<1>3. CASE \E n \in DOMAIN nodes, name \in Names :
               read_create_folder(r, n, name) \/ read_rename(r, n, name)
  BY <1>2, <1>3 DEF read_create_folder, read_rename
<1>4. CASE \E n \in DOMAIN nodes : read_delete(r, n) \/ read_restore(r, n) \/ read_purge(r, n)
  BY <1>2, <1>4 DEF read_delete, read_restore, read_purge
<1>5. ASSUME NEW n \in DOMAIN nodes, NEW d \in Destinations, ask_move(r, n, d)
      PROVE  CInv(D)'
  <2> DEFINE rec == [Idle EXCEPT !.phase = "waiting", !.op = "move", !.n = n, !.d = d]
  <2>1. d = D /\ rec.phase = "waiting" /\ rec.d = d
    BY DEF Idle
  <2>2. tx' = [tx EXCEPT ![r] = rec] /\ nodes' = nodes
    BY <1>5 DEF ask_move
  <2> HIDE DEF rec
  <2>3. MoveStillSafe(D, r)'
    BY <1>1, <2>1, <2>2 DEF MoveStillSafe
  <2> QED
    BY <2>2, <2>3, ReadSafe
<1>6. CASE lock_subtree(r)
  <2> DEFINE rec == [tx[r] EXCEPT !.phase = "locked"]
  <2>1. rec.phase = "locked" /\ rec.op = tx[r].op /\ rec.d = tx[r].d
    BY <1>1 DEF Tx
  <2>2. tx' = [tx EXCEPT ![r] = rec] /\ nodes' = nodes
    BY <1>6 DEF lock_subtree
  <2> HIDE DEF rec
  <2>3. MoveStillSafe(D, r)'
    BY <1>1, <2>1, <2>2 DEF MoveStillSafe, CInv
  <2> QED
    BY <2>2, <2>3, ReadSafe
<1>7. ASSUME read_move(r), ~MoveAllowed(tx[r].n, tx[r].d)
      PROVE  CInv(D)'
  BY <1>7, ParentsSafe DEF read_move
<1>8. ASSUME read_move(r), MoveAllowed(tx[r].n, tx[r].d)
      PROVE  CInv(D)'
  <2> DEFINE n == tx[r].n
             d == tx[r].d
             rec == [phase |-> "checked", op |-> "move", n |-> n, d |-> d,
                     name |-> NoParent, rows |-> {n}, stamp |-> Never]
  <2>1. tx' = [tx EXCEPT ![r] = rec] /\ nodes' = nodes
    BY <1>8 DEF read_move, Read
  <2>2. n \in DOMAIN nodes /\ d \notin Subtree(nodes, n)
    BY <1>8, ChainFindsSubtree DEF MoveAllowed, Live
  <2>3. d = D
    BY <1>8 DEF read_move, TInv, RequestOK, CInv, MoveStillSafe
  <2>4. MoveStillSafe(D, r)'
    BY <1>1, <2>1, <2>2, <2>3 DEF MoveStillSafe
  <2> HIDE DEF rec
  <2> QED
    BY <2>1, <2>4, ReadSafe
<1> QED
  BY <1>3, <1>4, <1>5, <1>6, <1>7, <1>8 DEF Begin

(* All moves name one destination: then no overlap of any number of        *)
(* requests makes a cycle.                                                 *)
THEOREM OneDestinationAcyclic ==
    ASSUME NEW D, Destinations = {D}
    PROVE  Spec => []TreeAcyclic
<1>1. Init => CInv(D)
  <2> SUFFICES ASSUME Init PROVE CInv(D)
    OBVIOUS
  <2>1. nodes \in Tables /\ tx = [r \in Requests |-> Idle]
    BY DEF Init
  <2>2. Grounded(nodes, {Root})
    BY <2>1, InitTable, ChainsGround
  <2>3. \A r \in Requests : tx[r].op = "none"
    BY <2>1 DEF Idle
  <2> QED
    BY <2>2, <2>3 DEF CInv, MoveStillSafe
<1>2. TInv /\ CInv(D) /\ [Next]_vars => CInv(D)'
  <2> SUFFICES ASSUME TInv, CInv(D), [Next]_vars PROVE CInv(D)'
    OBVIOUS
  <2>1. ASSUME NEW r \in Requests, Begin(r) \/ lock_subtree(r) \/ read_move(r)
        PROVE  CInv(D)'
    BY <2>1, ReadsSafe
  <2>2. ASSUME NEW r \in Requests, Commit(r)
        PROVE  CInv(D)'
    BY <2>2, CommitSafe
  <2>3. CASE UNCHANGED vars
    BY <2>3 DEF vars, CInv, MoveStillSafe
  <2> QED
    BY <2>1, <2>2, <2>3 DEF Next
<1>3. TInv /\ CInv(D) => TreeAcyclic
  <2> SUFFICES ASSUME TInv, CInv(D), NEW n \in DOMAIN nodes
               PROVE  Root \in Chain(nodes, n)
    BY DEF TreeAcyclic
  <2> QED
    BY GroundedChain DEF TInv, TypeOK, CInv
<1> QED
  BY RequestTypes, <1>1, <1>2, <1>3, PTL DEF Spec
=============================================================================
