--------------------------- MODULE FileTreeProofs ---------------------------
(***************************************************************************)
(* The structure of the tree and of its trash, proved for every set of     *)
(* users, ids and names and for every depth, page size, retention and      *)
(* budget; that the store holds what the rows name; and, while no file     *)
(* changes hands, that the quota bounds what is stored and the counters    *)
(* agree with the rows.                                                    *)
(***************************************************************************)
EXTENDS FileTree, CommonLemmas, FiniteSetTheorems

(* The inductive invariant.                                                *)
IInv ==
    /\ RowsOK
    /\ Grounded(nodes, Roots)
    /\ TrashNested
    /\ SiblingNamesUnique

USE ConstantsAssumption

-----------------------------------------------------------------------------
(* A row under another name is a row, its other fields as before.          *)
LEMMA NamedRow ==
    ASSUME NEW r \in Row, NEW name \in Names
    PROVE  /\ [r EXCEPT !.name = name] \in Row
           /\ [r EXCEPT !.name = name].kind = r.kind
           /\ [r EXCEPT !.name = name].owner = r.owner
           /\ [r EXCEPT !.name = name].name = name
           /\ [r EXCEPT !.name = name].parent = r.parent
           /\ [r EXCEPT !.name = name].deletedAt = r.deletedAt
           /\ [r EXCEPT !.name = name].versions = r.versions
BY DEF Row

(* A row hung elsewhere is a row, its other fields as before.              *)
LEMMA HungRow ==
    ASSUME NEW r \in Row, NEW d \in Nodes
    PROVE  /\ [r EXCEPT !.parent = d] \in Row
           /\ [r EXCEPT !.parent = d].kind = r.kind
           /\ [r EXCEPT !.parent = d].owner = r.owner
           /\ [r EXCEPT !.parent = d].parent = d
           /\ [r EXCEPT !.parent = d].name = r.name
           /\ [r EXCEPT !.parent = d].deletedAt = r.deletedAt
           /\ [r EXCEPT !.parent = d].versions = r.versions
BY DEF Row

(* A row with another stamp is a row, its other fields as before.          *)
LEMMA StampedRow ==
    ASSUME NEW r \in Row, NEW stamp \in Nat
    PROVE  /\ [r EXCEPT !.deletedAt = stamp] \in Row
           /\ [r EXCEPT !.deletedAt = stamp].kind = r.kind
           /\ [r EXCEPT !.deletedAt = stamp].owner = r.owner
           /\ [r EXCEPT !.deletedAt = stamp].deletedAt = stamp
           /\ [r EXCEPT !.deletedAt = stamp].parent = r.parent
           /\ [r EXCEPT !.deletedAt = stamp].name = r.name
           /\ [r EXCEPT !.deletedAt = stamp].versions = r.versions
BY DEF Row

(* A row of another owner is a row, its other fields as before.            *)
LEMMA OwnedRow ==
    ASSUME NEW r \in Row, NEW u \in Users
    PROVE  /\ [r EXCEPT !.owner = u] \in Row
           /\ [r EXCEPT !.owner = u].parent = r.parent
           /\ [r EXCEPT !.owner = u].name = r.name
           /\ [r EXCEPT !.owner = u].deletedAt = r.deletedAt
           /\ [r EXCEPT !.owner = u].versions = r.versions
BY DEF Row

(* A row with other versions is a row, its other fields as before.         *)
LEMMA VersionedRow ==
    ASSUME NEW r \in Row, NEW v \in Seq(Version)
    PROVE  /\ [r EXCEPT !.versions = v] \in Row
           /\ [r EXCEPT !.versions = v].kind = r.kind
           /\ [r EXCEPT !.versions = v].owner = r.owner
           /\ [r EXCEPT !.versions = v].parent = r.parent
           /\ [r EXCEPT !.versions = v].name = r.name
           /\ [r EXCEPT !.versions = v].deletedAt = r.deletedAt
           /\ [r EXCEPT !.versions = v].versions = v
BY DEF Row

(* The fields of a row.                                                    *)
LEMMA RowFields ==
    ASSUME NEW r \in Row
    PROVE  /\ r.kind \in {"folder", "file"}
           /\ r.owner \in Users
           /\ r.parent \in Nodes \cup {NoParent}
           /\ r.name \in Names \cup {RootName}
           /\ r.deletedAt \in Nat
           /\ r.versions \in Seq(Version)
BY DEF Row

-----------------------------------------------------------------------------
(* The invariant of a table t whose latest deletion has the stamp c.  A    *)
(* request of several use cases goes through such tables before it commits *)
(* one of them.                                                            *)
RowsFit(t, c) ==
    /\ t \in [DOMAIN t -> Row]
    /\ DOMAIN t \subseteq Nodes
    /\ Roots \subseteq DOMAIN t
    /\ c \in Nat
    /\ \A n \in DOMAIN t :
            /\ t[n].parent \in DOMAIN t \cup {NoParent}
            /\ n \in Roots <=> t[n].parent = NoParent
            /\ n \in Roots => Live(t, n)
            /\ t[n].deletedAt <= c

NestedIn(t) ==
    \A n \in DOMAIN t :
        Trashed(t, t[n].parent) =>
            Trashed(t, n) /\ t[n].deletedAt <= t[t[n].parent].deletedAt

NamesApart(t) ==
    \A m, n \in DOMAIN t :
        /\ m # n
        /\ t[m].parent = t[n].parent
        /\ t[m].parent # NoParent
        /\ t[m].deletedAt = t[n].deletedAt
        => t[m].name # t[n].name

TreeOK(t, c) ==
    /\ RowsFit(t, c)
    /\ Grounded(t, Roots)
    /\ NestedIn(t)
    /\ NamesApart(t)

(* It is the invariant, of the rows as they are and as a step leaves them. *)
LEMMA TreeIs == (IInv <=> TreeOK(nodes, clock)) /\ (IInv' <=> TreeOK(nodes', clock'))
BY DEF IInv, TreeOK, RowsOK, RowsFit, TrashNested, NestedIn, SiblingNamesUnique, NamesApart

(* A new row beneath a live one, with a name no live sibling has.          *)
LEMMA LeafAdded ==
    ASSUME NEW t, NEW c, TreeOK(t, c), NEW n \in Ids \ DOMAIN t, NEW row \in Row,
           NEW t2, t2 = WithRow(t, n, row),
           Live(t, row.parent), row.deletedAt = Never,
           get_child_by_name(t, row.parent, row.name) = {}
    PROVE  TreeOK(t2, c)
<1>1. /\ DOMAIN t2 = DOMAIN t \cup {n}
      /\ t2[n] = row
      /\ \A m \in DOMAIN t : t2[m] = t[m]
  BY DEF WithRow
<1>2. row.parent \in DOMAIN t /\ t[row.parent].deletedAt = Never
  BY DEF Live
<1>3. row.parent # NoParent /\ n \notin Roots /\ n \in Nodes
  BY <1>2 DEF TreeOK, RowsFit, Nodes
<1>4. RowsFit(t2, c)
  <2>1. t2 \in [DOMAIN t2 -> Row]
    BY <1>1 DEF TreeOK, RowsFit, WithRow
  <2>2. \A m \in DOMAIN t :
            /\ t2[m].parent \in DOMAIN t2 \cup {NoParent}
            /\ m \in Roots <=> t2[m].parent = NoParent
            /\ m \in Roots => Live(t2, m)
            /\ t2[m].deletedAt <= c
    BY <1>1 DEF TreeOK, RowsFit, Live
  <2>3. /\ t2[n].parent \in DOMAIN t2 \cup {NoParent}
        /\ n \in Roots <=> t2[n].parent = NoParent
        /\ n \in Roots => Live(t2, n)
        /\ t2[n].deletedAt <= c
    BY <1>1, <1>2, <1>3 DEF TreeOK, RowsFit, Never
  <2> QED
    BY <1>1, <1>3, <2>1, <2>2, <2>3 DEF TreeOK, RowsFit
<1>5. Grounded(t2, Roots)
  BY <1>1, <1>2, GroundedLeaf DEF TreeOK, RowsFit
<1>6. \A m \in DOMAIN t : t[m].parent # n
  BY <1>3 DEF TreeOK, RowsFit
<1>7. NestedIn(t2)
  BY <1>1, <1>2, <1>6 DEF TreeOK, NestedIn, Trashed, Never
<1>8. \A m \in DOMAIN t :
         /\ t[m].parent = row.parent
         /\ t[m].deletedAt = row.deletedAt
         => t[m].name # row.name
  BY DEF get_child_by_name, LiveChildren, Children, Live
<1>9. NamesApart(t2)
  BY <1>1, <1>8 DEF TreeOK, NamesApart
<1> QED
  BY <1>4, <1>5, <1>7, <1>9 DEF TreeOK

(* A live row gets a name that is free among its live siblings.            *)
LEMMA RowRenamed ==
    ASSUME NEW t, NEW c, TreeOK(t, c), NEW n \in DOMAIN t, NEW name \in Names,
           Live(t, n), get_child_by_name(t, t[n].parent, name) \subseteq {n}
    PROVE  TreeOK([t EXCEPT ![n].name = name], c)
<1>0. PICK t2 : t2 = [t EXCEPT ![n].name = name]
  OBVIOUS
<1> DEFINE row == [t[n] EXCEPT !.name = name]
<1>a. t \in [DOMAIN t -> Row]
  BY DEF TreeOK, RowsFit
<1>2. /\ row \in Row
      /\ row.name = name
      /\ row.parent = t[n].parent
      /\ row.deletedAt = t[n].deletedAt
  BY <1>a, NamedRow
<1>b. t2 = [t EXCEPT ![n] = row]
  BY <1>0
<1> HIDE DEF row
<1>1. /\ DOMAIN t2 = DOMAIN t
      /\ t2 \in [DOMAIN t -> Row]
      /\ t2[n] = row
      /\ \A m \in DOMAIN t \ {n} : t2[m] = t[m]
  BY <1>a, <1>b, <1>2
<1>3. RowsFit(t2, c)
  BY <1>1, <1>2 DEF TreeOK, RowsFit, Live
<1>4. Grounded(t2, Roots)
  BY <1>1, <1>2, GroundedSameParents DEF TreeOK
<1>5. NestedIn(t2)
  BY <1>1, <1>2 DEF TreeOK, NestedIn, Trashed
<1>6. \A m \in DOMAIN t \ {n} :
         /\ t[m].parent = t[n].parent
         /\ t[m].deletedAt = t[n].deletedAt
         => t[m].name # name
  BY DEF get_child_by_name, LiveChildren, Children, Live
<1>7. NamesApart(t2)
  BY <1>1, <1>2, <1>6 DEF TreeOK, NamesApart
<1> QED
  BY <1>0, <1>3, <1>4, <1>5, <1>7 DEF TreeOK

(* A live row moves under a live one that is not beneath it (the walk from *)
(* the destination upwards has not met it), where its name is free.        *)
LEMMA RowMoved ==
    ASSUME NEW t, NEW c, TreeOK(t, c), NEW n \in DOMAIN t \ Roots, NEW d \in DOMAIN t,
           Live(t, n), Live(t, d), ~ is_ancestor_of(t, n, d),
           get_child_by_name(t, d, t[n].name) \subseteq {n}
    PROVE  TreeOK([t EXCEPT ![n].parent = d], c)
<1>0. PICK t2 : t2 = [t EXCEPT ![n].parent = d]
  OBVIOUS
<1> DEFINE row == [t[n] EXCEPT !.parent = d]
<1>a. t \in [DOMAIN t -> Row]
  BY DEF TreeOK, RowsFit
<1>2. /\ row \in Row
      /\ row.parent = d
      /\ row.name = t[n].name
      /\ row.deletedAt = t[n].deletedAt
  BY <1>a, HungRow DEF TreeOK, RowsFit
<1>b. t2 = [t EXCEPT ![n] = row]
  BY <1>0
<1> HIDE DEF row
<1>1. /\ DOMAIN t2 = DOMAIN t
      /\ t2 \in [DOMAIN t -> Row]
      /\ t2[n] = row
      /\ \A m \in DOMAIN t \ {n} : t2[m] = t[m]
  BY <1>a, <1>b, <1>2
<1>3. Live(t, n) /\ Live(t, d) /\ d # NoParent /\ n \notin Roots
  BY DEF TreeOK, RowsFit
<1>4. d \notin Subtree(t, n)
  BY ChainFindsSubtree
<1>5. RowsFit(t2, c)
  BY <1>1, <1>2, <1>3 DEF TreeOK, RowsFit, Live
<1>6. Grounded(t2, Roots)
  BY <1>1, <1>2, <1>4, GroundedMove DEF TreeOK
<1>7. NestedIn(t2)
  BY <1>1, <1>2, <1>3 DEF TreeOK, NestedIn, Trashed, Live
<1>8. \A m \in DOMAIN t \ {n} :
         /\ t[m].parent = d
         /\ t[m].deletedAt = t[n].deletedAt
         => t[m].name # t[n].name
  BY <1>3 DEF get_child_by_name, LiveChildren, Children, Live
<1>9. NamesApart(t2)
  BY <1>1, <1>2, <1>8 DEF TreeOK, NamesApart
<1> QED
  BY <1>0, <1>5, <1>6, <1>7, <1>9 DEF TreeOK

(* The live rows of a subtree get a stamp newer than all others: the       *)
(* subtree is stamped to its last live row.                                *)
LEMMA SubtreeTrashed ==
    ASSUME NEW t, NEW c, TreeOK(t, c), NEW n \in DOMAIN t \ Roots
    PROVE  TreeOK(soft_delete_subtree(t, n, c + 1), c + 1)
<1>0. PICK t2 : t2 = soft_delete_subtree(t, n, c + 1)
  OBVIOUS
<1> DEFINE M == Moving(t, n)
<1>1. M = {m \in Subtree(t, n) : Live(t, m)}
  BY DEF Moving
<1>2. Subtree(t, n) \subseteq DOMAIN t /\ DownClosed(t, Subtree(t, n))
  BY SubtreeClosed
<1> HIDE DEF M
<1>a. /\ t \in [DOMAIN t -> Row]
      /\ c \in Nat /\ c + 1 \in Nat
      /\ M \subseteq DOMAIN t
  BY <1>1, <1>2 DEF TreeOK, RowsFit
<1>b. t2 = [m \in DOMAIN t |-> IF m \in M THEN [t[m] EXCEPT !.deletedAt = c + 1]
                                      ELSE t[m]]
  BY <1>0 DEF soft_delete_subtree, M
<1>c. \A m \in M : /\ t2[m] \in Row
                   /\ t2[m].deletedAt = c + 1
                   /\ t2[m].parent = t[m].parent
                   /\ t2[m].name = t[m].name
  BY <1>a, <1>b, StampedRow
<1>3. /\ DOMAIN t2 = DOMAIN t
      /\ \A m \in DOMAIN t \ M : t2[m] = t[m]
      /\ c \in Nat
  BY <1>a, <1>b
<1>4. t2 \in [DOMAIN t -> Row]
  <2>1. \A m \in DOMAIN t : t2[m] \in Row
    BY <1>a, <1>c, <1>3
  <2> QED
    BY <1>b, <2>1
<1>5. /\ \A m \in DOMAIN t : /\ t2[m].parent = t[m].parent
                                  /\ t2[m].name = t[m].name
                                  /\ t[m].deletedAt \in Nat
                                  /\ t[m].deletedAt <= c
      /\ \A m \in M : t2[m].deletedAt = c + 1
  BY <1>a, <1>c, <1>3, RowFields DEF TreeOK, RowsFit
<1>6. ASSUME NEW r \in Roots PROVE r \notin M
  <2>1. r # n
    OBVIOUS
  <2>2. r \in DOMAIN t /\ t[r].parent \notin DOMAIN t
    BY DEF TreeOK, RowsFit
  <2> QED
    BY <1>1, <2>1, <2>2, SubtreeOfOther
<1>7. RowsFit(t2, c + 1)
  BY <1>3, <1>4, <1>5, <1>6 DEF TreeOK, RowsFit, Live
<1>8. Grounded(t2, Roots)
  BY <1>3, <1>5, GroundedSameParents DEF TreeOK
<1>9. NestedIn(t2)
  <2>1. SUFFICES ASSUME NEW m \in DOMAIN t, NEW p \in DOMAIN t,
                        t[m].parent = p, t2[p].deletedAt # Never
                 PROVE  /\ t2[m].deletedAt # Never
                        /\ t2[m].deletedAt <= t2[p].deletedAt
    BY <1>3, <1>5 DEF NestedIn, Trashed
  <2>2. CASE p \in M
    <3>1. m \in Subtree(t, n)
      BY <1>1, <1>2, <2>1, <2>2 DEF DownClosed
    <3>2. CASE m \in M
      BY <1>3, <1>5, <2>2, <3>2 DEF Never
    <3>3. CASE m \notin M
      <4>1. t[m].deletedAt # Never
        BY <1>1, <3>1, <3>3 DEF Live
      <4>2. t2[m].deletedAt = t[m].deletedAt
        BY <1>3, <3>3
      <4> QED
        BY <1>3, <1>5, <2>2, <4>1, <4>2
    <3> QED
      BY <3>2, <3>3
  <2>3. CASE p \notin M
    <3>1. t2[p] = t[p]
      BY <1>3, <2>3
    <3>2. t[m].deletedAt # Never /\ t[m].deletedAt <= t[p].deletedAt
      BY <2>1, <3>1 DEF TreeOK, NestedIn, Trashed
    <3>3. m \notin M
      BY <1>1, <3>2 DEF Live
    <3> QED
      BY <1>3, <3>1, <3>2, <3>3
  <2> QED
    BY <2>2, <2>3
<1>10. NamesApart(t2)
  <2>1. SUFFICES ASSUME NEW k \in DOMAIN t, NEW m \in DOMAIN t, k # m,
                        t[k].parent = t[m].parent,
                        t[k].parent # NoParent,
                        t2[k].deletedAt = t2[m].deletedAt
                 PROVE  t[k].name # t[m].name
    BY <1>3, <1>5 DEF NamesApart
  <2>2. t[k].deletedAt = t[m].deletedAt
    BY <1>1, <1>3, <1>5, <2>1 DEF Live
  <2> QED
    BY <2>1, <2>2 DEF TreeOK, NamesApart
<1> QED
  BY <1>0, <1>7, <1>8, <1>9, <1>10 DEF TreeOK

(* t2 is t and beneath d, under another name, a copy f of the part S of    *)
(* the subtree of s: S hangs together and is live but for its top, the new *)
(* rows have new ids and the places of their sources.                      *)
CopyHangs(t, t2, s, d, name, S, f) ==
    /\ S \in SUBSET Subtree(t, s) /\ s \in S
    /\ \A x \in S \ {s} : t[x].parent \in S /\ Live(t, x)
    /\ \A x \in S : f[x] \in Ids /\ f[x] \notin DOMAIN t
    /\ \A x, y \in S : f[x] = f[y] => x = y
    /\ t2 \in [DOMAIN t \cup {f[x] : x \in S} -> Row]
    /\ \A m \in DOMAIN t : t2[m] = t[m]
    /\ t2[f[s]].parent = d /\ t2[f[s]].name = name
    /\ \A x \in S \ {s} : t2[f[x]].parent = f[t[x].parent] /\ t2[f[x]].name = t[x].name
    /\ \A x \in S : t2[f[x]].deletedAt = Never

(* A copy beneath a live folder, under a name that is free there.          *)
LEMMA CopyGrafted ==
    ASSUME NEW t, NEW c, TreeOK(t, c), NEW s \in DOMAIN t, NEW d \in DOMAIN t,
           NEW name, Live(t, d), get_child_by_name(t, d, name) = {},
           NEW S, NEW f, NEW t2, CopyHangs(t, t2, s, d, name, S, f)
    PROVE  TreeOK(t2, c)
<1>4. /\ S \in SUBSET Subtree(t, s)
      /\ s \in S
      /\ \A x \in S \ {s} : t[x].parent \in S /\ Live(t, x)
  BY DEF CopyHangs
<1>5. /\ S \subseteq DOMAIN t
      /\ \A x \in S : f[x] \in Ids /\ f[x] \notin DOMAIN t
  BY SubtreeClosed DEF CopyHangs
<1>3. \A x, y \in S : f[x] = f[y] => x = y
  BY DEF CopyHangs
<1>7. /\ DOMAIN t2 = DOMAIN t \cup {f[x] : x \in S} /\ t2 \in [DOMAIN t2 -> Row]
      /\ \A m \in DOMAIN t : t2[m] = t[m]
  BY DEF CopyHangs
<1>8. Live(t, d) /\ d # NoParent
  BY DEF TreeOK, RowsFit
<1>9. /\ t2[f[s]].parent = d
      /\ t2[f[s]].name = name
      /\ \A x \in S \ {s} : /\ t2[f[x]].parent = f[t[x].parent]
                             /\ t2[f[x]].name = t[x].name
      /\ \A x \in S : t2[f[x]].deletedAt = Never
  BY DEF CopyHangs
<1>11. \A x \in S : f[x] \notin Roots /\ f[x] \in Nodes /\ f[x] # NoParent
  BY <1>5 DEF Nodes
<1>12. RowsFit(t2, c)
  <2>1. t2 \in [DOMAIN t2 -> Row]
    BY <1>7
  <2>2. ASSUME NEW x \in S
        PROVE  /\ t2[f[x]].parent \in DOMAIN t2
               /\ t2[f[x]].parent # NoParent
               /\ t2[f[x]].deletedAt <= c
    BY <1>4, <1>7, <1>8, <1>9, <1>11 DEF TreeOK, RowsFit, Never
  <2>3. ASSUME NEW m \in DOMAIN t
        PROVE  /\ t2[m].parent \in DOMAIN t2 \cup {NoParent}
               /\ m \in Roots <=> t2[m].parent = NoParent
               /\ m \in Roots => Live(t2, m)
               /\ t2[m].deletedAt <= c
    BY <1>7 DEF TreeOK, RowsFit, Live
  <2>4. DOMAIN t2 \subseteq Nodes /\ Roots \subseteq DOMAIN t2 /\ c \in Nat
    BY <1>7, <1>11 DEF TreeOK, RowsFit
  <2>5. ASSUME NEW m \in DOMAIN t2
        PROVE  /\ t2[m].parent \in DOMAIN t2 \cup {NoParent}
               /\ m \in Roots <=> t2[m].parent = NoParent
               /\ m \in Roots => Live(t2, m)
               /\ t2[m].deletedAt <= c
    <3>1. CASE m \in DOMAIN t
      BY <2>3, <3>1
    <3>2. CASE m \notin DOMAIN t
      <4>1. PICK x \in S : m = f[x]
        BY <1>7, <3>2
      <4> QED
        BY <1>11, <2>2, <4>1
    <3> QED
      BY <3>1, <3>2
  <2> QED
    BY <2>1, <2>4, <2>5 DEF RowsFit
<1>13. Grounded(t2, Roots)
  <2>1. Grounded(t, Roots) /\ Roots \subseteq DOMAIN t
    BY DEF TreeOK, RowsFit
  <2>2. \A x \in S : f[x] \notin DOMAIN t
    BY <1>5
  <2>3. \A m \in DOMAIN t : t2[m].parent = t[m].parent
    BY <1>7
  <2>4. \A x \in S \ {s} : /\ t[x].parent \in S
                            /\ t2[f[x]].parent = f[t[x].parent]
    BY <1>4, <1>9
  <2>5. /\ DOMAIN t2 = DOMAIN t \cup {f[x] : x \in S}
        /\ t2[f[s]].parent = d
        /\ S \in SUBSET Subtree(t, s) /\ s \in S
    BY <1>4, <1>7, <1>9
  <2> QED
    BY <2>1, <2>2, <2>3, <2>4, <2>5, GroundedGraft
<1>14. NestedIn(t2)
  <2>1. SUFFICES ASSUME NEW m \in DOMAIN t2, Trashed(t2, t2[m].parent)
                 PROVE  /\ t2[m].deletedAt # Never
                        /\ t2[m].deletedAt <= t2[t2[m].parent].deletedAt
    BY DEF NestedIn, Trashed
  <2>2. t2[m].parent \in DOMAIN t /\ Trashed(t, t2[m].parent)
    BY <1>7, <1>9, <2>1 DEF Trashed
  <2>3. m \in DOMAIN t
    BY <1>4, <1>5, <1>7, <1>8, <1>9, <2>2 DEF Trashed, Live
  <2> QED
    BY <1>7, <2>2, <2>3 DEF TreeOK, NestedIn, Trashed
<1>15. NamesApart(t2)
  <2>1. \A m \in DOMAIN t : t[m].parent = d /\ t[m].deletedAt = Never
                                   => t[m].name # name
    BY DEF get_child_by_name, LiveChildren, Children, Live
  <2>2. ASSUME NEW x \in S, NEW m \in DOMAIN t,
               t2[f[x]].parent = t2[m].parent,
               t2[f[x]].deletedAt = t2[m].deletedAt
        PROVE  t2[f[x]].name # t2[m].name
    <3>1. x = s
      BY <1>4, <1>5, <1>7, <1>9, <1>11, <2>2 DEF TreeOK, RowsFit
    <3> QED
      BY <1>7, <1>9, <2>1, <2>2, <3>1
  <2>3. ASSUME NEW x \in S, NEW y \in S, x # y,
               t2[f[x]].parent = t2[f[y]].parent
        PROVE  t2[f[x]].name # t2[f[y]].name
    <3>1. x # s /\ y # s
      BY <1>4, <1>5, <1>9, <2>3
    <3>2. t[x].parent = t[y].parent
      BY <1>3, <1>4, <1>9, <2>3, <3>1
    <3>3. t[x].deletedAt = t[y].deletedAt /\ t[x].parent # NoParent
      BY <1>4, <1>5, <3>1 DEF Live, TreeOK, RowsFit
    <3> QED
      BY <1>5, <1>9, <2>3, <3>1, <3>2, <3>3 DEF TreeOK, NamesApart
  <2>4. SUFFICES ASSUME NEW k \in DOMAIN t2, NEW m \in DOMAIN t2, k # m,
                        t2[k].parent = t2[m].parent,
                        t2[k].parent # NoParent,
                        t2[k].deletedAt = t2[m].deletedAt
                 PROVE  t2[k].name # t2[m].name
    BY DEF NamesApart
  <2>5. CASE k \in DOMAIN t /\ m \in DOMAIN t
    BY <1>7, <2>4, <2>5 DEF TreeOK, NamesApart
  <2>6. CASE k \in DOMAIN t /\ m \notin DOMAIN t
    BY <1>7, <2>2, <2>4, <2>6
  <2>7. CASE k \notin DOMAIN t /\ m \in DOMAIN t
    BY <1>7, <2>2, <2>4, <2>7
  <2>8. CASE k \notin DOMAIN t /\ m \notin DOMAIN t
    BY <1>7, <2>3, <2>4, <2>8
  <2> QED
    BY <2>5, <2>6, <2>7, <2>8
<1> QED
  BY <1>12, <1>13, <1>14, <1>15 DEF TreeOK

-----------------------------------------------------------------------------
(* Everything beneath a trashed row is trashed, and no later.              *)
LEMMA TrashedBelow ==
    ASSUME IInv, NEW n \in DOMAIN nodes, Trashed(nodes, n)
    PROVE  \A m \in Subtree(nodes, n) :
              Trashed(nodes, m) /\ nodes[m].deletedAt <= nodes[n].deletedAt
<1> DEFINE Old == {m \in DOMAIN nodes :
                      Trashed(nodes, m) /\ nodes[m].deletedAt <= nodes[n].deletedAt}
<1>1. \A m \in DOMAIN nodes : nodes[m].deletedAt \in Nat
  BY DEF IInv, RowsOK, Row
<1>2. n \in Old
  BY <1>1
<1>3. ASSUME NEW m \in DOMAIN nodes, nodes[m].parent \in Old PROVE m \in Old
  BY <1>1, <1>3 DEF IInv, TrashNested
<1>4. DownClosed(nodes, Old)
  BY <1>3 DEF DownClosed
<1> QED
  BY <1>2, <1>4, SubtreeLeast

(* A root folder is in no trashed subtree.                                 *)
LEMMA RootsNotBelowTrash ==
    ASSUME IInv, NEW n \in DOMAIN nodes, Trashed(nodes, n)
    PROVE  Roots \cap Subtree(nodes, n) = {}
BY TrashedBelow DEF IInv, RowsOK, Live, Trashed

-----------------------------------------------------------------------------
(* Steps by what they do to the table.                                     *)

(* Versions and owners of rows change, nothing else.                       *)
LEMMA SameShape ==
    ASSUME IInv, nodes' \in [DOMAIN nodes -> Row], clock' = clock,
           \A m \in DOMAIN nodes : /\ nodes'[m].parent = nodes[m].parent
                                   /\ nodes'[m].name = nodes[m].name
                                   /\ nodes'[m].deletedAt = nodes[m].deletedAt
    PROVE  IInv'
<1>1. DOMAIN nodes' = DOMAIN nodes
  OBVIOUS
<1>2. RowsOK'
  BY <1>1 DEF IInv, RowsOK, Live
<1>3. Grounded(nodes', Roots)
  BY <1>1, GroundedSameParents DEF IInv
<1>4. TrashNested'
  BY <1>1 DEF IInv, TrashNested, Trashed
<1>5. SiblingNamesUnique'
  BY <1>1 DEF IInv, SiblingNamesUnique
<1> QED
  BY <1>2, <1>3, <1>4, <1>5 DEF IInv

(* A new row beneath a live one, with a name no live sibling has.          *)
LEMMA NewLeaf ==
    ASSUME IInv, NEW n \in Ids \ DOMAIN nodes, NEW row \in Row,
           nodes' = WithRow(nodes, n, row), clock' = clock,
           Live(nodes, row.parent), row.deletedAt = Never,
           get_child_by_name(nodes, row.parent, row.name) = {}
    PROVE  IInv'
BY TreeIs, LeafAdded

(* Whole trashed subtrees go.                                              *)
LEMMA TrashCut ==
    ASSUME IInv, NEW E \in SUBSET DOMAIN nodes, \A e \in E : Trashed(nodes, e),
           nodes' = WithoutRows(nodes, UNION {Subtree(nodes, e) : e \in E}),
           clock' = clock
    PROVE  IInv' /\ \A n \in DOMAIN nodes : Live(nodes, n) => n \in DOMAIN nodes'
<1> DEFINE gone == UNION {Subtree(nodes, e) : e \in E}
<1>1. /\ gone \subseteq DOMAIN nodes
      /\ DownClosed(nodes, gone)
  BY UnionOfSubtrees
<1>2. \A m \in gone : Trashed(nodes, m)
  BY TrashedBelow
<1>3. Roots \cap gone = {}
  BY RootsNotBelowTrash
<1> HIDE DEF gone
<1>4. /\ DOMAIN nodes' = DOMAIN nodes \ gone
      /\ \A m \in DOMAIN nodes' : nodes'[m] = nodes[m]
  BY DEF WithoutRows, gone
<1>5. RowsOK'
  <2>1. nodes' \in [DOMAIN nodes' -> Row]
    BY <1>4 DEF IInv, RowsOK, WithoutRows, gone
  <2>2. \A m \in DOMAIN nodes' : nodes'[m].parent \in DOMAIN nodes' \cup {NoParent}
    BY <1>1, <1>4 DEF IInv, RowsOK, DownClosed
  <2> QED
    BY <1>3, <1>4, <2>1, <2>2 DEF IInv, RowsOK, Live
<1>6. Grounded(nodes', Roots)
  BY <1>1, <1>3, GroundedCut DEF IInv, gone
<1>7. TrashNested'
  BY <1>4 DEF IInv, TrashNested, Trashed
<1>8. SiblingNamesUnique'
  BY <1>4 DEF IInv, SiblingNamesUnique
<1>9. \A n \in DOMAIN nodes : Live(nodes, n) => n \in DOMAIN nodes'
  BY <1>2, <1>4 DEF Live, Trashed
<1> QED
  BY <1>5, <1>6, <1>7, <1>8, <1>9 DEF IInv

-----------------------------------------------------------------------------
(* rename keeps the invariant: the new name is free among live siblings.   *)
LEMMA RenameStep ==
    ASSUME IInv, NEW u \in Users, NEW n \in DOMAIN nodes, NEW name \in Names,
           rename(u, n, name)
    PROVE  IInv'
<1>1. /\ Live(nodes, n) /\ get_child_by_name(nodes, nodes[n].parent, name) \subseteq {n}
      /\ nodes' = [nodes EXCEPT ![n].name = name] /\ clock' = clock
  BY DEF rename, MayEdit, _ensure_name_free
<1> QED BY <1>1, TreeIs, RowRenamed

(* move keeps the invariant: the cycle check answers for the whole subtree *)
(* (ChainFindsSubtree) and the destination is live.                        *)
LEMMA MoveStep ==
    ASSUME IInv, NEW u \in Users, NEW n \in DOMAIN nodes, NEW d \in DOMAIN nodes,
           move(u, n, d)
    PROVE  IInv'
<1>1. n \notin Roots
  BY DEF move, CanMove, IsRoot, IInv, RowsOK
<1>2. /\ Live(nodes, n) /\ Live(nodes, d) /\ ~ is_ancestor_of(nodes, n, d)
      /\ get_child_by_name(nodes, d, nodes[n].name) \subseteq {n}
      /\ nodes' = [nodes EXCEPT ![n].parent = d] /\ clock' = clock
  BY DEF move, MayEdit, CanMove, _ensure_name_free
<1> QED BY <1>1, <1>2, TreeIs, RowMoved

(* delete keeps the invariant.                                             *)
LEMMA DeleteStep ==
    ASSUME IInv, NEW u \in Users, NEW n \in DOMAIN nodes, delete(u, n)
    PROVE  IInv'
<1>1. n \notin Roots
  BY DEF delete, IsRoot, IInv, RowsOK
<1>2. nodes' = soft_delete_subtree(nodes, n, clock + 1) /\ clock' = clock + 1
  BY DEF delete
<1> QED BY <1>1, <1>2, TreeIs, SubtreeTrashed

(* restore keeps the invariant: the batch is one connected piece whose top *)
(* lands beneath a live row.  And it is all that comes back: nothing with  *)
(* its stamp stays in the trash beneath a row of it.                       *)
LEMMA RestoreStep ==
    ASSUME IInv, NEW u \in Users, NEW n \in DOMAIN nodes, restore(u, n)
    PROVE  /\ IInv'
           /\ DOMAIN nodes' = DOMAIN nodes
           /\ \A m \in DOMAIN nodes : Trashed(nodes, m) /\ Live(nodes', m) =>
                  /\ nodes[m].deletedAt = nodes[n].deletedAt
                  /\ \A k \in DOMAIN nodes' :
                        nodes'[k].parent = m /\ Trashed(nodes', k)
                            => nodes'[k].deletedAt # nodes[m].deletedAt
<1> DEFINE B == Batch(nodes, n)
           d == RestoreTarget(u, n)
           mid == restore_subtree(nodes, n)
           T == Subtree(nodes, n)
<1>1. /\ B = {m \in T : nodes[m].deletedAt = nodes[n].deletedAt}
      /\ T \subseteq DOMAIN nodes /\ DownClosed(nodes, T) /\ n \in T
      /\ \A m \in T : Trashed(nodes, m) /\ nodes[m].deletedAt <= nodes[n].deletedAt
      /\ Roots \cap T = {}
  BY SubtreeClosed, SubtreeSelf, TrashedBelow, RootsNotBelowTrash DEF Batch, restore
<1>2. \A m \in T \ {n} : nodes[m].parent \in T
  BY SubtreeParent
<1>3. Live(nodes, d) /\ d \in DOMAIN nodes /\ d \in Nodes
  BY DEF RestoreTarget, IInv, RowsOK, Live, Roots
<1>4. d \notin T /\ d # NoParent
  BY <1>1, <1>3 DEF Live, Trashed
<1>5. /\ mid = [m \in DOMAIN nodes |-> IF m \in B THEN [nodes[m] EXCEPT !.deletedAt = Never]
                                     ELSE nodes[m]]
      /\ nodes' = [mid EXCEPT ![n] = [mid[n] EXCEPT !.parent = d]]
      /\ clock' = clock
  BY DEF restore, restore_subtree
<1>6. \A k \in DOMAIN nodes \ {n} : nodes[k].parent = d /\ Live(nodes, k)
                                       => nodes[k].name # nodes[n].name
  BY DEF restore, _ensure_name_free, get_child_by_name, LiveChildren, Children
<1> HIDE DEF B, d, mid, T
<1>7. /\ mid \in [DOMAIN nodes -> Row]
      /\ \A m \in DOMAIN nodes : /\ mid[m].parent = nodes[m].parent
                                  /\ mid[m].name = nodes[m].name
      /\ \A m \in B : mid[m].deletedAt = Never
      /\ \A m \in DOMAIN nodes \ B : mid[m] = nodes[m]
  <2>1. nodes \in [DOMAIN nodes -> Row] /\ Never \in Nat
    BY DEF IInv, RowsOK, Never
  <2>2. \A m \in B : /\ mid[m] \in Row
                     /\ mid[m].deletedAt = Never
                     /\ mid[m].parent = nodes[m].parent
                     /\ mid[m].name = nodes[m].name
    BY <1>1, <1>5, <2>1, StampedRow
  <2>3. \A m \in DOMAIN nodes \ B : mid[m] = nodes[m]
    BY <1>5
  <2>4. \A m \in DOMAIN nodes : mid[m] \in Row
    BY <2>1, <2>2, <2>3
  <2> QED
    BY <1>5, <2>2, <2>3, <2>4
<1>8. n \in B
  BY <1>1
<1>9. /\ DOMAIN nodes' = DOMAIN nodes
      /\ nodes' \in [DOMAIN nodes -> Row]
      /\ nodes'[n].parent = d
      /\ \A m \in DOMAIN nodes \ {n} : nodes'[m].parent = nodes[m].parent
      /\ \A m \in DOMAIN nodes : nodes'[m].name = nodes[m].name
      /\ \A m \in B : nodes'[m].deletedAt = Never
      /\ \A m \in DOMAIN nodes \ B : nodes'[m] = nodes[m]
  <2>1. /\ [mid[n] EXCEPT !.parent = d] \in Row
        /\ [mid[n] EXCEPT !.parent = d].parent = d
        /\ [mid[n] EXCEPT !.parent = d].name = mid[n].name
        /\ [mid[n] EXCEPT !.parent = d].deletedAt = mid[n].deletedAt
    BY <1>3, <1>7, HungRow
  <2> QED
    BY <1>1, <1>5, <1>7, <1>8, <2>1
<1>10. \A m \in DOMAIN nodes : nodes[m].deletedAt \in Nat
  BY RowFields DEF IInv, RowsOK
<1>11. RowsOK'
  <2>1. \A m \in DOMAIN nodes : nodes'[m].deletedAt <= clock
    BY <1>1, <1>9 DEF IInv, RowsOK, Never
  <2>2. n \notin Roots
    BY <1>1
  <2>3. \A m \in DOMAIN nodes : /\ nodes'[m].parent \in DOMAIN nodes \cup {NoParent}
                                /\ m \in Roots <=> nodes'[m].parent = NoParent
    BY <1>3, <1>4, <1>9, <2>2 DEF IInv, RowsOK
  <2>4. \A m \in Roots : m \in DOMAIN nodes /\ nodes'[m] = nodes[m]
    BY <1>1, <1>9 DEF IInv, RowsOK
  <2>5. DOMAIN nodes' = DOMAIN nodes /\ Roots \subseteq DOMAIN nodes'
    BY <1>9, <2>4
  <2>6. \A m \in DOMAIN nodes' : nodes'[m].deletedAt <= clock
    BY <2>1, <2>5
  <2>7. \A m \in Roots : nodes'[m] = nodes[m] /\ Live(nodes, m)
    BY <2>4 DEF IInv, RowsOK
  <2>8. \A m \in Roots : Live(nodes', m)
    BY <2>5, <2>7 DEF Live
  <2>9. nodes' \in [DOMAIN nodes' -> Row] /\ DOMAIN nodes' \subseteq Nodes /\ clock' \in Nat
        /\ clock' = clock
    BY <1>5, <1>9, <2>5 DEF IInv, RowsOK
  <2> QED
    BY <2>3, <2>5, <2>6, <2>8, <2>9 DEF RowsOK
<1>12. Grounded(nodes', Roots)
  BY <1>3, <1>4, <1>9, GroundedMove DEF IInv, T
<1>13. \A m \in B \ {n} : nodes[m].parent \in B
  <2>1. SUFFICES ASSUME NEW m \in B, m # n PROVE nodes[m].parent \in B
    OBVIOUS
  <2>2. nodes[m].parent \in T
    BY <1>1, <1>2, <2>1
  <2>3. nodes[m].deletedAt <= nodes[nodes[m].parent].deletedAt
    BY <1>1, <2>1, <2>2 DEF IInv, TrashNested
  <2>4. nodes[nodes[m].parent].deletedAt = nodes[n].deletedAt
    BY <1>1, <1>10, <2>1, <2>2, <2>3
  <2> QED
    BY <1>1, <2>2, <2>4
<1>14. TrashNested'
  <2>1. SUFFICES ASSUME NEW m \in DOMAIN nodes, Trashed(nodes', nodes'[m].parent)
                 PROVE  /\ nodes'[m].deletedAt # Never
                        /\ nodes'[m].deletedAt <= nodes'[nodes'[m].parent].deletedAt
    BY <1>9 DEF TrashNested, Trashed
  <2>2. nodes'[m].parent \notin B /\ nodes'[m].parent \in DOMAIN nodes
    BY <1>9, <2>1 DEF Trashed
  <2>3. m # n
    BY <1>3, <1>9, <2>1, <2>2 DEF Trashed, Live
  <2>4. m \notin B
    BY <1>9, <1>13, <2>2, <2>3
  <2> QED
    BY <1>9, <2>1, <2>2, <2>3, <2>4 DEF IInv, TrashNested, Trashed
<1>15. SiblingNamesUnique'
  <2>1. SUFFICES ASSUME NEW k \in DOMAIN nodes, NEW m \in DOMAIN nodes, k # m,
                        nodes'[k].parent = nodes'[m].parent,
                        nodes'[k].parent # NoParent,
                        nodes'[k].deletedAt = nodes'[m].deletedAt
                 PROVE  nodes[k].name # nodes[m].name
    BY <1>9 DEF SiblingNamesUnique
  <2>2. ASSUME NEW x \in DOMAIN nodes, nodes'[x].parent = d, x # n,
               nodes'[x].deletedAt = Never
        PROVE  nodes[x].name # nodes[n].name
    <3>1. x \notin B
      BY <1>1, <1>4, <1>9, <1>13, <2>2
    <3> QED
      BY <1>6, <1>9, <2>2, <3>1 DEF Live
  <2>3. CASE k = n \/ m = n
    BY <1>8, <1>9, <2>1, <2>2, <2>3
  <2>4. CASE k # n /\ m # n
    <3>1. nodes[k].parent = nodes[m].parent
      BY <1>9, <2>1, <2>4
    <3>2. ASSUME NEW x \in B, NEW y \in DOMAIN nodes \ B, x # n, y # n,
                 nodes[x].parent = nodes[y].parent
          PROVE  nodes'[y].deletedAt # Never
      <4>1. Trashed(nodes, nodes[y].parent)
        BY <1>1, <1>13, <3>2
      <4> QED
        BY <1>9, <3>2, <4>1 DEF IInv, TrashNested, Trashed
    <3>3. nodes[k].deletedAt = nodes[m].deletedAt
      <4>1. CASE k \in B /\ m \in B
        BY <1>1, <4>1
      <4>2. CASE k \notin B /\ m \notin B
        BY <1>9, <2>1, <4>2
      <4>3. CASE k \in B /\ m \notin B
        BY <1>9, <2>1, <2>4, <3>1, <3>2, <4>3
      <4>4. CASE k \notin B /\ m \in B
        BY <1>9, <2>1, <2>4, <3>1, <3>2, <4>4
      <4> QED
        BY <4>1, <4>2, <4>3, <4>4
    <3> QED
      BY <1>9, <2>1, <2>4, <3>1, <3>3 DEF IInv, SiblingNamesUnique
  <2> QED
    BY <2>3, <2>4
<1>16. ASSUME NEW m \in DOMAIN nodes, Trashed(nodes, m), Live(nodes', m)
       PROVE  /\ nodes[m].deletedAt = nodes[n].deletedAt
              /\ \A k \in DOMAIN nodes' :
                    nodes'[k].parent = m /\ Trashed(nodes', k)
                        => nodes'[k].deletedAt # nodes[m].deletedAt
  <2>1. m \in B
    BY <1>9, <1>16 DEF Trashed, Live
  <2>2. nodes[m].deletedAt = nodes[n].deletedAt
    BY <1>1, <2>1
  <2>3. ASSUME NEW k \in DOMAIN nodes', nodes'[k].parent = m, Trashed(nodes', k)
        PROVE  nodes'[k].deletedAt # nodes[m].deletedAt
    <3>1. k \notin B
      BY <1>9, <2>3 DEF Trashed
    <3>2. k \in T
      BY <1>1, <1>8, <1>9, <2>1, <2>3, <3>1 DEF DownClosed
    <3> QED
      BY <1>1, <1>9, <2>2, <3>1, <3>2
  <2> QED
    BY <2>2, <2>3
<1> QED
  BY <1>9, <1>11, <1>12, <1>14, <1>15, <1>16 DEF IInv

(* The size of a row's current version is a number.                        *)
LEMMA SizeIsNat ==
    ASSUME RowsOK, NEW n \in DOMAIN nodes
    PROVE  size_bytes(nodes, n) \in Nat
<1>1. nodes[n].versions \in Seq(Version)
  BY RowFields DEF RowsOK
<1>2. ASSUME NEW v \in Seq(Version), v # <<>> PROVE v[Len(v)] \in Version
  BY <1>2
<1>3. \A w \in Version : w.size \in Nat
  BY DEF Version
<1> QED
  BY <1>1, <1>2, <1>3 DEF size_bytes

(* copy keeps the invariant: the new rows hang from the destination in the *)
(* shape of their sources, all of them live.                               *)
LEMMA CopyStep ==
    ASSUME IInv, NEW u \in Users, NEW s \in DOMAIN nodes, NEW d \in DOMAIN nodes,
           NEW name \in Names, copy(u, s, d, name)
    PROVE  /\ IInv'
           /\ DOMAIN nodes \subseteq DOMAIN nodes'
           /\ \A m \in DOMAIN nodes : nodes'[m] = nodes[m]
<1> DEFINE Result(S, f) ==
             /\ nodes' = [m \in DOMAIN nodes \cup Range(f) |->
                            IF m \in Range(f)
                            THEN CopyRow(u, s, d, name, f, CHOOSE n \in S : f[n] = m)
                            ELSE nodes[m]]
             /\ clock' = clock
<1>a. PICK S \in CopiedSets(s) : \E f \in OneOf(Injection(S, Fresh)) : Result(S, f)
  BY DEF copy, CanCopy
<1>1. PICK f \in OneOf(Injection(S, Fresh)) : Result(S, f)
  BY <1>a
<1>2. f \in Injection(S, Fresh)
  BY DEF OneOf
<1>3. /\ f \in [S -> Fresh]
      /\ \A x, y \in S : f[x] = f[y] => x = y
      /\ Range(f) = {f[x] : x \in S}
  BY <1>2 DEF Injection, IsInjective, Range
<1>4. /\ S \in SUBSET Subtree(nodes, s)
      /\ s \in S
      /\ \A x \in S \ {s} : nodes[x].parent \in S /\ Live(nodes, x)
  <2>1. /\ S \in SUBSET Subtree(nodes, s) /\ s \in S
        /\ \A x \in S : IsPage({m \in S \ {s} : nodes[m].parent = x}, x)
        /\ \A x \in S \ {s} : nodes[x].parent \in S
    BY DEF CopiedSets
  <2>2. ASSUME NEW x \in S \ {s} PROVE Live(nodes, x)
    <3> DEFINE p == nodes[x].parent
    <3>1. IsPage({m \in S \ {s} : nodes[m].parent = p}, p)
      BY <2>1
    <3>2. x \in LiveChildren(nodes, p)
      BY <3>1 DEF IsPage
    <3> QED
      BY <3>2 DEF LiveChildren
  <2> QED
    BY <2>1, <2>2
<1>5. /\ S \subseteq DOMAIN nodes
      /\ \A x \in S : f[x] \in Ids /\ f[x] \notin DOMAIN nodes
  BY <1>3, <1>4, SubtreeClosed DEF Fresh
<1>6. ASSUME NEW x \in S PROVE nodes'[f[x]] = CopyRow(u, s, d, name, f, x)
  <2>1. (CHOOSE n \in S : f[n] = f[x]) = x
    BY <1>3
  <2> QED
    BY <1>1, <1>3, <2>1
<1>7. /\ DOMAIN nodes' = DOMAIN nodes \cup {f[x] : x \in S}
      /\ \A m \in DOMAIN nodes : nodes'[m] = nodes[m]
  BY <1>1, <1>3, <1>5
<1>8. Live(nodes, d) /\ Live(nodes, s) /\ d # NoParent
  BY DEF copy, CanCopy, MayEdit, MayView, IInv, RowsOK
<1>9. /\ nodes'[f[s]].parent = d
      /\ nodes'[f[s]].name = name
      /\ \A x \in S \ {s} : /\ nodes'[f[x]].parent = f[nodes[x].parent]
                             /\ nodes'[f[x]].name = nodes[x].name
      /\ \A x \in S : nodes'[f[x]].deletedAt = Never
  <2>1. ASSUME NEW x \in S
        PROVE  /\ CopyRow(u, s, d, name, f, x).deletedAt = Never
               /\ x = s => /\ CopyRow(u, s, d, name, f, x).parent = d
                           /\ CopyRow(u, s, d, name, f, x).name = name
               /\ x # s => /\ CopyRow(u, s, d, name, f, x).parent = f[nodes[x].parent]
                           /\ CopyRow(u, s, d, name, f, x).name = nodes[x].name
    BY DEF CopyRow
  <2> QED
    BY <1>4, <1>6, <2>1
<1>10. ASSUME NEW x \in S PROVE nodes'[f[x]] \in Row
  <2>1. size_bytes(nodes, x) \in Nat
    BY <1>5, SizeIsNat DEF IInv
  <2>2. <<[size |-> size_bytes(nodes, x), owner |-> u]>> \in Seq(Version)
    BY <2>1 DEF Version
  <2>3. nodes[x] \in Row
    BY <1>5 DEF IInv, RowsOK
  <2>4. (IF x = s THEN d ELSE f[nodes[x].parent]) \in Nodes
    BY <1>3, <1>4, <1>5 DEF IInv, RowsOK, Nodes
  <2>5. (IF nodes[x].kind = "folder" THEN <<>>
         ELSE <<[size |-> size_bytes(nodes, x), owner |-> u]>>) \in Seq(Version)
    BY <2>2
  <2>6. /\ nodes[x].kind \in {"folder", "file"}
        /\ (IF x = s THEN name ELSE nodes[x].name) \in Names \cup {RootName}
        /\ Never \in Nat
    BY <2>3, RowFields DEF Never
  <2>7. CopyRow(u, s, d, name, f, x) \in Row
    BY <2>4, <2>5, <2>6 DEF CopyRow, Row
  <2> QED
    BY <1>6, <2>7
<1>11. nodes' \in [DOMAIN nodes \cup {f[x] : x \in S} -> Row]
  <2>1. \A m \in DOMAIN nodes' : nodes'[m] \in Row
    BY <1>7, <1>10 DEF IInv, RowsOK
  <2> QED
    BY <1>1, <1>7, <2>1
<1>12. get_child_by_name(nodes, d, name) = {}
  BY DEF copy, CanCopy, _ensure_name_free, get_child_by_name, LiveChildren, Children, IInv, RowsOK
<1>13. clock' = clock
  BY <1>1
<1> HIDE DEF Result
<1>14. TreeOK(nodes', clock)
  <2>1. CopyHangs(nodes, nodes', s, d, name, S, f)
    BY <1>3, <1>4, <1>5, <1>7, <1>9, <1>11 DEF CopyHangs
  <2> QED BY <1>8, <1>12, <2>1, TreeIs, CopyGrafted
<1> QED
  BY <1>7, <1>13, <1>14, TreeIs

(* A new version changes neither the place nor the name of any row.        *)
LEMMA VersionStep ==
    ASSUME IInv, NEW n \in DOMAIN nodes, NEW size \in Nat, _store_version(n, size)
    PROVE  IInv' /\ DOMAIN nodes' = DOMAIN nodes
           /\ \A m \in DOMAIN nodes : nodes'[m].deletedAt = nodes[m].deletedAt
<1> DEFINE v == Append(nodes[n].versions, [size |-> size, owner |-> nodes[n].owner])
           row == [nodes[n] EXCEPT !.versions = prune_beyond(v)]
<1>1. nodes \in [DOMAIN nodes -> Row] /\ nodes[n] \in Row
  BY DEF IInv, RowsOK
<1>2. v \in Seq(Version)
  <2>1. nodes[n].versions \in Seq(Version) /\ nodes[n].owner \in Users
    BY <1>1, RowFields
  <2>2. [size |-> size, owner |-> nodes[n].owner] \in Version
    BY <2>1 DEF Version
  <2> QED
    BY <2>1, <2>2
<1> HIDE DEF v
<1>3. prune_beyond(v) \in Seq(Version)
  <2>1. Len(v) \in Nat /\ Excess(v) \in Nat
    BY <1>2 DEF Excess, AtLeastZero
  <2>2. \A i \in (Excess(v) + 1) .. Len(v) : v[i] \in Version
    BY <1>2, <2>1
  <2> QED
    BY <1>2, <2>1, <2>2 DEF prune_beyond
<1>4. nodes' = [nodes EXCEPT ![n] = row] /\ clock' = clock
  BY DEF _store_version, v
<1>5. /\ row \in Row
      /\ row.parent = nodes[n].parent
      /\ row.name = nodes[n].name
      /\ row.deletedAt = nodes[n].deletedAt
  BY <1>1, <1>3, VersionedRow
<1> HIDE DEF row
<1>6. /\ nodes' \in [DOMAIN nodes -> Row]
      /\ \A m \in DOMAIN nodes : /\ nodes'[m].parent = nodes[m].parent
                                  /\ nodes'[m].name = nodes[m].name
                                  /\ nodes'[m].deletedAt = nodes[m].deletedAt
  BY <1>1, <1>4, <1>5
<1> QED
  BY <1>4, <1>6, SameShape

(* Nor does a transfer of ownership.                                       *)
LEMMA TransferStep ==
    ASSUME IInv, NEW u \in Users, NEW n \in DOMAIN nodes, NEW v \in Users,
           NEW keep \in BOOLEAN, transfer_ownership(u, n, v, keep)
    PROVE  IInv' /\ DOMAIN nodes' = DOMAIN nodes
           /\ \A m \in DOMAIN nodes : nodes'[m].deletedAt = nodes[m].deletedAt
<1> DEFINE S == Subtree(nodes, n)
<1>1. nodes \in [DOMAIN nodes -> Row]
  BY DEF IInv, RowsOK
<1>2. /\ nodes' = [m \in DOMAIN nodes |->
                      IF m \in S THEN [nodes[m] EXCEPT !.owner = v] ELSE nodes[m]]
      /\ clock' = clock
  BY DEF transfer_ownership
<1> HIDE DEF S
<1>3. \A m \in DOMAIN nodes : /\ nodes'[m] \in Row
                              /\ nodes'[m].parent = nodes[m].parent
                              /\ nodes'[m].name = nodes[m].name
                              /\ nodes'[m].deletedAt = nodes[m].deletedAt
  BY <1>1, <1>2, OwnedRow
<1>4. nodes' \in [DOMAIN nodes -> Row]
  BY <1>2, <1>3
<1> QED
  BY <1>2, <1>3, <1>4, SameShape

-----------------------------------------------------------------------------
(* What a step may do to the rows that exist: keep the live ones, and move *)
(* rows out of the trash only as one deletion.                             *)
KeepsLive == \A n \in DOMAIN nodes : Live(nodes, n) => n \in DOMAIN nodes'

RestoresOne ==
    \A m, n \in {k \in DOMAIN nodes \cap DOMAIN nodes' :
                    Trashed(nodes, k) /\ Live(nodes', k)} :
        /\ nodes[m].deletedAt = nodes[n].deletedAt
        /\ \A k \in DOMAIN nodes' :
              nodes'[k].parent = n /\ Trashed(nodes', k)
                  => nodes'[k].deletedAt # nodes[n].deletedAt

(* A step that clears no stamp restores nothing.                           *)
LEMMA NothingRestored ==
    ASSUME \A m \in DOMAIN nodes \cap DOMAIN nodes' :
              Trashed(nodes, m) => nodes'[m].deletedAt # Never
    PROVE  RestoresOne
BY DEF RestoresOne, Live, Trashed

(* A purge of any kind cuts whole trashed subtrees.                        *)
LEMMA CutStep ==
    ASSUME IInv, NEW E \in SUBSET DOMAIN nodes, \A e \in E : Trashed(nodes, e),
           nodes' = WithoutRows(nodes, UNION {Subtree(nodes, e) : e \in E}),
           clock' = clock
    PROVE  IInv' /\ KeepsLive /\ RestoresOne
<1>1. IInv' /\ KeepsLive
  BY TrashCut DEF KeepsLive
<1>2. \A m \in DOMAIN nodes' : nodes'[m] = nodes[m]
  BY DEF WithoutRows
<1> QED
  BY <1>1, <1>2, NothingRestored DEF Trashed

(* The initial tables satisfy the invariant.                               *)
LEMMA InitIInv == Init => IInv
<1> SUFFICES ASSUME Init PROVE IInv
  OBVIOUS
<1> DEFINE owner(n) == CHOOSE u \in Users : RootOf[u] = n
<1>1. \A n \in Roots : owner(n) \in Users
  BY DEF Roots
<1>2. nodes = [n \in Roots |-> Folder(owner(n), NoParent, RootName)] /\ clock = 0
  BY DEF Init
<1> HIDE DEF owner
<1>3. \A u \in Users : Folder(u, NoParent, RootName) \in Row
  BY DEF Folder, Row, Never
<1>4. \A n \in Roots : /\ nodes[n] \in Row
                       /\ nodes[n].parent = NoParent
                       /\ nodes[n].deletedAt = Never
  BY <1>1, <1>2, <1>3 DEF Folder
<1>5. DOMAIN nodes = Roots /\ nodes \in [DOMAIN nodes -> Row]
  BY <1>2, <1>4
<1>6. Roots \subseteq Nodes /\ NoParent \notin Roots
  BY DEF Nodes
<1>7. RowsOK
  BY <1>2, <1>4, <1>5, <1>6 DEF RowsOK, Live, Never
<1>8. Grounded(nodes, Roots)
  BY <1>5 DEF Grounded
<1>9. TrashNested
  BY <1>4, <1>5, <1>6 DEF TrashNested, Trashed
<1>10. SiblingNamesUnique
  BY <1>4, <1>5 DEF SiblingNamesUnique
<1> QED
  BY <1>7, <1>8, <1>9, <1>10 DEF IInv

(* Every step keeps the invariant, keeps live rows and restores at most    *)
(* one deletion: one case per use case and job.                            *)
LEMMA NextStep ==
    ASSUME IInv, [Next]_vars
    PROVE  IInv' /\ KeepsLive /\ RestoresOne
<1>0. nodes \in [DOMAIN nodes -> Row]
  BY DEF IInv, RowsOK
<1>1. ASSUME nodes' = nodes, clock' = clock PROVE IInv' /\ KeepsLive /\ RestoresOne
  <2>1. IInv'
    BY <1>1 DEF IInv, RowsOK, TrashNested, SiblingNamesUnique
  <2> QED
    BY <1>1, <2>1, NothingRestored DEF KeepsLive, Trashed
<1>2. CASE UNCHANGED vars
  BY <1>1, <1>2 DEF vars
<1>3. ASSUME NEW u \in Users, NEW p \in DOMAIN nodes, NEW n \in OneOf(Fresh),
             NEW name \in Names, create_folder(u, p, n, name)
      PROVE  IInv' /\ KeepsLive /\ RestoresOne
  <2> DEFINE row == Folder(nodes[p].owner, p, name)
  <2>1. n \in Ids \ DOMAIN nodes
    BY DEF OneOf, Fresh
  <2>2. row \in Row /\ row.parent = p /\ row.name = name /\ row.deletedAt = Never
    BY <1>0, RowFields DEF Folder, Row, Never, IInv, RowsOK
  <2>3. nodes' = WithRow(nodes, n, row) /\ clock' = clock /\ Live(nodes, p)
    BY <1>3 DEF create_folder, MayEdit
  <2>4. get_child_by_name(nodes, p, name) = {}
    BY <1>3, <2>1 DEF create_folder, _ensure_name_free, get_child_by_name, LiveChildren, Children
  <2> HIDE DEF row
  <2>5. IInv'
    BY <2>1, <2>2, <2>3, <2>4, NewLeaf
  <2>6. DOMAIN nodes \subseteq DOMAIN nodes' /\ \A m \in DOMAIN nodes : nodes'[m] = nodes[m]
    BY <2>1, <2>3 DEF WithRow
  <2> QED
    BY <2>5, <2>6, NothingRestored DEF KeepsLive, Trashed
<1>4. ASSUME NEW u \in Users, NEW p \in DOMAIN nodes, NEW n \in OneOf(Fresh),
             NEW name \in Names, NEW size \in Sizes, upload_new(u, p, n, name, size)
      PROVE  IInv' /\ KeepsLive /\ RestoresOne
  <2> DEFINE row == File(nodes[p].owner, p, name, size)
  <2>1. n \in Ids \ DOMAIN nodes
    BY DEF OneOf, Fresh
  <2>2. row \in Row /\ row.parent = p /\ row.name = name /\ row.deletedAt = Never
    BY <1>0, RowFields DEF File, Row, Never, Version, IInv, RowsOK
  <2>3. nodes' = WithRow(nodes, n, row) /\ clock' = clock /\ Live(nodes, p)
    BY <1>4 DEF upload_new, MayEdit
  <2>4. get_child_by_name(nodes, p, name) = {}
    BY <1>4 DEF upload_new
  <2> HIDE DEF row
  <2>5. IInv'
    BY <2>1, <2>2, <2>3, <2>4, NewLeaf
  <2>6. DOMAIN nodes \subseteq DOMAIN nodes' /\ \A m \in DOMAIN nodes : nodes'[m] = nodes[m]
    BY <2>1, <2>3 DEF WithRow
  <2> QED
    BY <2>5, <2>6, NothingRestored DEF KeepsLive, Trashed
<1>5. ASSUME NEW u \in Users, NEW p \in DOMAIN nodes, NEW n \in OneOf(Fresh),
             NEW name \in Names, NEW size \in Sizes,
             upload_new_refused(u, p, n, name, size)
      PROVE  IInv' /\ KeepsLive /\ RestoresOne
  BY <1>1, <1>5 DEF upload_new_refused, StrayObject
<1>6. ASSUME NEW u \in Users, NEW n \in DOMAIN nodes, NEW name \in Names, rename(u, n, name)
      PROVE  IInv' /\ KeepsLive /\ RestoresOne
  <2>1. IInv'
    BY <1>6, RenameStep
  <2>2. [nodes[n] EXCEPT !.name = name].deletedAt = nodes[n].deletedAt
    BY <1>0, NamedRow
  <2>3. DOMAIN nodes' = DOMAIN nodes /\ \A m \in DOMAIN nodes : nodes'[m].deletedAt = nodes[m].deletedAt
    BY <1>0, <1>6, <2>2 DEF rename
  <2> QED
    BY <2>1, <2>3, NothingRestored DEF KeepsLive, Trashed
<1>7. ASSUME NEW u \in Users, NEW n \in DOMAIN nodes, NEW d \in DOMAIN nodes, move(u, n, d)
      PROVE  IInv' /\ KeepsLive /\ RestoresOne
  <2>1. IInv'
    BY <1>7, MoveStep
  <2>2. [nodes[n] EXCEPT !.parent = d].deletedAt = nodes[n].deletedAt
    BY <1>0, HungRow DEF IInv, RowsOK
  <2>3. DOMAIN nodes' = DOMAIN nodes /\ \A m \in DOMAIN nodes : nodes'[m].deletedAt = nodes[m].deletedAt
    BY <1>0, <1>7, <2>2 DEF move
  <2> QED
    BY <2>1, <2>3, NothingRestored DEF KeepsLive, Trashed
<1>8. ASSUME NEW u \in Users, NEW n \in DOMAIN nodes, NEW size \in Nat, _store_version(n, size)
      PROVE  IInv' /\ KeepsLive /\ RestoresOne
  BY <1>8, VersionStep, NothingRestored DEF KeepsLive, Trashed
<1>9. ASSUME NEW u \in Users, NEW n \in DOMAIN nodes, NEW size \in Sizes, upload_version(u, n, size)
      PROVE  IInv' /\ KeepsLive /\ RestoresOne
  BY <1>8, <1>9 DEF upload_version
<1>10. ASSUME NEW u \in Users, NEW n \in DOMAIN nodes, NEW i \in 1 .. Retention, restore_version(u, n, i)
       PROVE  IInv' /\ KeepsLive /\ RestoresOne
  <2>1. nodes[n].versions \in Seq(Version) /\ i \in 1 .. Len(nodes[n].versions)
    BY <1>0, <1>10, RowFields DEF restore_version
  <2>2. nodes[n].versions[i] \in Version
    BY <2>1
  <2>3. nodes[n].versions[i].size \in Nat
    BY <2>2 DEF Version
  <2> QED
    BY <1>8, <1>10, <2>3 DEF restore_version
<1>11. ASSUME NEW u \in Users, NEW n \in DOMAIN nodes, NEW size \in Sizes,
              upload_version_refused(u, n, size)
       PROVE  IInv' /\ KeepsLive /\ RestoresOne
  BY <1>1, <1>11 DEF upload_version_refused, StrayObject
<1>12. ASSUME NEW u \in Users, NEW n \in DOMAIN nodes, NEW d \in DOMAIN nodes, NEW name \in Names,
              copy(u, n, d, name)
       PROVE  IInv' /\ KeepsLive /\ RestoresOne
  <2>1. /\ IInv'
        /\ DOMAIN nodes \subseteq DOMAIN nodes'
        /\ \A m \in DOMAIN nodes : nodes'[m] = nodes[m]
    BY <1>12, CopyStep
  <2> QED
    BY <2>1, NothingRestored DEF KeepsLive, Trashed
<1>13. ASSUME NEW u \in Users, NEW n \in DOMAIN nodes, delete(u, n)
       PROVE  IInv' /\ KeepsLive /\ RestoresOne
  <2>1. IInv'
    BY <1>13, DeleteStep
  <2>2. DOMAIN nodes' = DOMAIN nodes
    BY <1>13 DEF delete, soft_delete_subtree
  <2>3. \A m \in DOMAIN nodes : Trashed(nodes, m) => nodes'[m] = nodes[m]
    BY <1>13 DEF delete, soft_delete_subtree, Moving, Live, Trashed
  <2> QED
    BY <2>1, <2>2, <2>3, NothingRestored DEF KeepsLive, Trashed
<1>14. ASSUME NEW u \in Users, NEW n \in DOMAIN nodes, restore(u, n)
       PROVE  IInv' /\ KeepsLive /\ RestoresOne
  BY <1>14, RestoreStep DEF KeepsLive, RestoresOne
<1>15. ASSUME NEW u \in Users, NEW n \in DOMAIN nodes, purge(u, n)
       PROVE  IInv' /\ KeepsLive /\ RestoresOne
  <2> DEFINE E == {n}
  <2>1. Subtree(nodes, n) = UNION {Subtree(nodes, e) : e \in E}
    OBVIOUS
  <2>2. /\ E \in SUBSET DOMAIN nodes
        /\ \A e \in E : Trashed(nodes, e)
        /\ nodes' = WithoutRows(nodes, Subtree(nodes, n))
        /\ clock' = clock
    BY <1>15 DEF purge, _destroy_entry, purge_subtree, Purged
  <2>3. nodes' = WithoutRows(nodes, UNION {Subtree(nodes, e) : e \in E})
    BY <2>1, <2>2
  <2> HIDE DEF E
  <2> QED
    BY <2>2, <2>3, CutStep
<1>16. ASSUME NEW u \in Users, NEW n \in DOMAIN nodes, NEW v \in Users, NEW keep \in BOOLEAN,
              transfer_ownership(u, n, v, keep)
       PROVE  IInv' /\ KeepsLive /\ RestoresOne
  BY <1>16, TransferStep, NothingRestored DEF KeepsLive, Trashed
<1>17. ASSUME NEW u \in Users, empty_trash(u)
       PROVE  IInv' /\ KeepsLive /\ RestoresOne
  <2>1. /\ _spend_purge_budget(u) \subseteq DOMAIN nodes
        /\ \A e \in _spend_purge_budget(u) : Trashed(nodes, e)
    BY DEF _spend_purge_budget, TrashEntries
  <2> QED
    BY <1>17, <2>1, CutStep DEF empty_trash, _destroy_entry, purge_subtree, Purged
<1>18. ASSUME NEW cutoff \in 1 .. clock + 1, PurgeJob(cutoff)
       PROVE  IInv' /\ KeepsLive /\ RestoresOne
  <2>1. PICK E \in Expired(cutoff) : \E K \in Reached(E) :
               Purged(K, UNION {Subtree(nodes, n) : n \in K})
    BY <1>18 DEF PurgeJob
  <2>2. PICK K \in Reached(E) : Purged(K, UNION {Subtree(nodes, n) : n \in K})
    BY <2>1
  <2>3. K \subseteq E /\ E \subseteq DOMAIN nodes /\ \A e \in E : Trashed(nodes, e)
    BY DEF Expired, Reached
  <2> QED
    BY <2>2, <2>3, CutStep DEF Purged
<1>19. CASE ReconcileQuotasJob
  BY <1>1, <1>19 DEF ReconcileQuotasJob
<1>20. CASE OrphanReaper
  BY <1>1, <1>20 DEF OrphanReaper
<1>21. ASSUME NEW u \in Users, NEW n \in DOMAIN nodes, NEW d \in DOMAIN nodes, NEW name \in Names,
              copy_refused(u, n, d, name)
       PROVE  IInv' /\ KeepsLive /\ RestoresOne
  BY <1>1, <1>21 DEF copy_refused
<1> QED
  BY <1>2, <1>3, <1>4, <1>5, <1>6, <1>7, <1>9, <1>10, <1>11, <1>12, <1>13, <1>14,
     <1>15, <1>16, <1>17, <1>18, <1>19, <1>20, <1>21
     DEF Next, nodes_router, content_router, trash_router, shares_router

-----------------------------------------------------------------------------
(* In every reachable state of every instance the invariant holds.         *)
THEOREM TreeInvariant == Spec => []IInv
<1>1. IInv /\ [Next]_vars => IInv'
  BY NextStep
<1> QED
  BY InitIInv, <1>1, PTL DEF Spec

(* Types: the rows keep the shape of the schema, the roots stay live roots.*)
THEOREM RowTypes == Spec => []RowsOK
<1>1. IInv => RowsOK
  BY DEF IInv
<1> QED
  BY TreeInvariant, <1>1, PTL

(* No use case or job ever leaves a cycle or a row cut off from the roots. *)
THEOREM TreeRooted == Spec => []Rooted
<1>1. IInv => Rooted
  BY GroundedChain DEF IInv, RowsOK, Rooted
<1> QED
  BY TreeInvariant, <1>1, PTL

(* The trash holds whole subtrees, in the order they were deleted.         *)
THEOREM TrashIsNested == Spec => []TrashNested
<1>1. IInv => TrashNested
  BY DEF IInv
<1> QED
  BY TreeInvariant, <1>1, PTL

(* The partial unique index is never violated, nor would a restore.        *)
THEOREM NamesUnique == Spec => []SiblingNamesUnique
<1>1. IInv => SiblingNamesUnique
  BY DEF IInv
<1> QED
  BY TreeInvariant, <1>1, PTL

(* No step destroys a live row.                                            *)
THEOREM LiveRowsKept == Spec => LiveRowsSurvive
<1>1. IInv /\ [Next]_vars => [KeepsLive]_vars
  BY NextStep
<1>2. IInv /\ [Next]_vars =>
        [\A n \in DOMAIN nodes : Live(nodes, n) => n \in DOMAIN nodes']_vars
  BY <1>1 DEF KeepsLive
<1> QED
  BY TreeInvariant, <1>2, PTL DEF Spec, LiveRowsSurvive

(* No step brings back rows of two deletions, or part of one.              *)
THEOREM RestoreIsOneDeletion == Spec => OneDeletionRestored
<1>1. IInv /\ [Next]_vars => [RestoresOne]_vars
  BY NextStep
<1>2. IInv /\ [Next]_vars =>
        [LET back == {n \in DOMAIN nodes \cap DOMAIN nodes' :
                         Trashed(nodes, n) /\ Live(nodes', n)}
         IN  \A m, n \in back :
                 /\ nodes[m].deletedAt = nodes[n].deletedAt
                 /\ \A k \in DOMAIN nodes' :
                         nodes'[k].parent = n /\ Trashed(nodes', k)
                             => nodes'[k].deletedAt # nodes[n].deletedAt]_vars
  BY <1>1 DEF RestoresOne
<1> QED
  BY TreeInvariant, <1>2, PTL DEF Spec, OneDeletionRestored

-----------------------------------------------------------------------------
(* The objects.                                                            *)

(* Every object a version row names is in the store.                       *)
NoObjectMissing == \A n \in Nodes : objects[n] >= Referenced(n)

StoreOK == objects \in [Nodes -> Nat] /\ NoObjectMissing

(* A step under no id of which an object loses the row that names it.      *)
NoNewStray ==
    \A n \in Nodes : objects'[n] - Referenced(n)' <= objects[n] - Referenced(n)

(* The steps that leave objects behind: a transaction that rolls back once *)
(* its objects are in the store, and the purge job, which strips a row and *)
(* lets the cascade take the rows beneath it.                              *)
LeavesStrays ==
    \/ \E u \in Users, n \in DOMAIN nodes :
        \/ \E m \in OneOf(Fresh), name \in Names, size \in Sizes :
                upload_new_refused(u, n, m, name, size)
        \/ \E size \in Sizes : upload_version_refused(u, n, size)
        \/ \E d \in DOMAIN nodes, name \in Names : copy_refused(u, n, d, name)
    \/ \E cutoff \in 1 .. clock + 1 : PurgeJob(cutoff)

(* What is counted is a number.                                            *)
LEMMA ReferencedIsNat ==
    ASSUME RowsOK, NEW n
    PROVE  Referenced(n) \in Nat
<1>1. CASE n \in DOMAIN nodes
  <2>1. nodes[n].versions \in Seq(Version)
    BY <1>1, RowFields DEF RowsOK
  <2> QED BY <1>1, <2>1 DEF Referenced
<1>2. CASE n \notin DOMAIN nodes
  BY <1>2 DEF Referenced
<1> QED BY <1>1, <1>2

(* Rows that keep their versions, and a store that keeps its objects.      *)
LEMMA SameVersions ==
    ASSUME RowsOK, StoreOK, DOMAIN nodes' = DOMAIN nodes, objects' = objects,
           \A m \in DOMAIN nodes : nodes'[m].versions = nodes[m].versions
    PROVE  StoreOK' /\ NoNewStray
<1>1. \A n \in Nodes : Referenced(n)' = Referenced(n) /\ Referenced(n) \in Nat
  BY ReferencedIsNat DEF Referenced
<1> QED BY <1>1 DEF StoreOK, NoObjectMissing, NoNewStray

(* rename, move, delete and restore leave every row its kind, its owner    *)
(* and its versions.                                                       *)
LEMMA RowsKept ==
    ASSUME IInv, NEW u \in Users, NEW n \in DOMAIN nodes,
           \/ \E name \in Names : rename(u, n, name)
           \/ \E d \in DOMAIN nodes : move(u, n, d)
           \/ delete(u, n)
           \/ restore(u, n)
    PROVE  /\ DOMAIN nodes' = DOMAIN nodes
           /\ \A m \in DOMAIN nodes : /\ nodes'[m].versions = nodes[m].versions
                                      /\ nodes'[m].owner = nodes[m].owner
                                      /\ nodes'[m].kind = nodes[m].kind
<1> DEFINE Kept == /\ DOMAIN nodes' = DOMAIN nodes
                   /\ \A m \in DOMAIN nodes : /\ nodes'[m].versions = nodes[m].versions
                                              /\ nodes'[m].owner = nodes[m].owner
                                              /\ nodes'[m].kind = nodes[m].kind
<1>1. /\ RowsOK /\ nodes \in [DOMAIN nodes -> Row] /\ nodes[n] \in Row /\ n \in Nodes
      /\ DOMAIN nodes \subseteq Nodes /\ clock \in Nat /\ Roots \subseteq Nodes
  BY DEF IInv, RowsOK, Nodes
<1>4. ASSUME NEW name \in Names, rename(u, n, name)
      PROVE  Kept
  <2>1. /\ [nodes[n] EXCEPT !.name = name].versions = nodes[n].versions
        /\ [nodes[n] EXCEPT !.name = name].owner = nodes[n].owner
        /\ [nodes[n] EXCEPT !.name = name].kind = nodes[n].kind
    BY <1>1, NamedRow
  <2> QED BY <1>1, <1>4, <2>1 DEF rename
<1>5. ASSUME NEW d \in DOMAIN nodes, move(u, n, d)
      PROVE  Kept
  <2>1. /\ [nodes[n] EXCEPT !.parent = d].versions = nodes[n].versions
        /\ [nodes[n] EXCEPT !.parent = d].owner = nodes[n].owner
        /\ [nodes[n] EXCEPT !.parent = d].kind = nodes[n].kind
    BY <1>1, HungRow
  <2> QED BY <1>1, <1>5, <2>1 DEF move
<1>6. CASE delete(u, n)
  <2>1. \A m \in DOMAIN nodes :
           /\ [nodes[m] EXCEPT !.deletedAt = clock + 1].versions = nodes[m].versions
           /\ [nodes[m] EXCEPT !.deletedAt = clock + 1].owner = nodes[m].owner
           /\ [nodes[m] EXCEPT !.deletedAt = clock + 1].kind = nodes[m].kind
    BY <1>1, StampedRow
  <2> QED BY <1>1, <1>6, <2>1 DEF delete, soft_delete_subtree
<1>7. CASE restore(u, n)
  <2> DEFINE t == restore_subtree(nodes, n)
             d == RestoreTarget(u, n)
  <2>1. \A m \in DOMAIN nodes : /\ [nodes[m] EXCEPT !.deletedAt = Never].versions = nodes[m].versions
                                /\ [nodes[m] EXCEPT !.deletedAt = Never].owner = nodes[m].owner
                                /\ [nodes[m] EXCEPT !.deletedAt = Never].kind = nodes[m].kind
                                /\ [nodes[m] EXCEPT !.deletedAt = Never] \in Row
    BY <1>1, StampedRow DEF Never
  <2>2. /\ t \in [DOMAIN nodes -> Row]
        /\ \A m \in DOMAIN nodes : /\ t[m].versions = nodes[m].versions
                                   /\ t[m].owner = nodes[m].owner
                                   /\ t[m].kind = nodes[m].kind
    BY <1>1, <2>1 DEF restore_subtree
  <2>3. nodes' = [t EXCEPT ![n].parent = d]
    BY <1>7 DEF restore
  <2>4. d \in Nodes
    BY <1>1 DEF RestoreTarget, Live, Roots
  <2> HIDE DEF t, d
  <2>5. /\ [t[n] EXCEPT !.parent = d].versions = nodes[n].versions
        /\ [t[n] EXCEPT !.parent = d].owner = nodes[n].owner
        /\ [t[n] EXCEPT !.parent = d].kind = nodes[n].kind
    BY <2>2, <2>4, HungRow
  <2> QED BY <2>2, <2>3, <2>5
<1> QED BY <1>4, <1>5, <1>6, <1>7

(* These and transfer_ownership touch no version.                          *)
LEMMA RowChanges ==
    ASSUME IInv, StoreOK, NEW u \in Users, NEW n \in DOMAIN nodes,
           \/ \E name \in Names : rename(u, n, name)
           \/ \E d \in DOMAIN nodes : move(u, n, d)
           \/ delete(u, n)
           \/ restore(u, n)
           \/ \E v \in Users, keep \in BOOLEAN : transfer_ownership(u, n, v, keep)
    PROVE  StoreOK' /\ NoNewStray
<1>1. RowsOK /\ nodes \in [DOMAIN nodes -> Row]
  BY DEF IInv, RowsOK
<1>2. objects' = objects
  BY DEF rename, move, delete, restore, transfer_ownership
<1>3. SUFFICES /\ DOMAIN nodes' = DOMAIN nodes
               /\ \A m \in DOMAIN nodes : nodes'[m].versions = nodes[m].versions
  BY <1>1, <1>2, SameVersions
<1>4. ASSUME NEW v \in Users, NEW keep \in BOOLEAN, transfer_ownership(u, n, v, keep)
      PROVE  /\ DOMAIN nodes' = DOMAIN nodes
             /\ \A m \in DOMAIN nodes : nodes'[m].versions = nodes[m].versions
  <2>1. \A m \in DOMAIN nodes : [nodes[m] EXCEPT !.owner = v].versions = nodes[m].versions
    BY <1>1, OwnedRow
  <2> QED BY <1>1, <1>4, <2>1 DEF transfer_ownership
<1> QED BY <1>4, RowsKept

(* A new row under a fresh id, with an object for each of its versions.    *)
LEMMA RowAdded ==
    ASSUME IInv, StoreOK, NEW n \in Fresh, NEW row, nodes' = WithRow(nodes, n, row),
           Len(row.versions) \in Nat,
           objects' = [objects EXCEPT ![n] = Len(row.versions)]
    PROVE  StoreOK' /\ NoNewStray
<1>1. n \in Ids /\ n \in Nodes /\ n \notin DOMAIN nodes /\ objects[n] = 0 /\ RowsOK
  BY DEF Fresh, Nodes, IInv
<1>2. \A m \in Nodes \ {n} : Referenced(m)' = Referenced(m) /\ objects'[m] = objects[m]
  BY <1>1 DEF Referenced, WithRow, StoreOK
<1>3. Referenced(n)' = Len(row.versions) /\ objects'[n] = Len(row.versions) /\ Referenced(n) = 0
  BY <1>1 DEF Referenced, WithRow, StoreOK
<1>4. objects' \in [Nodes -> Nat]
  BY <1>1 DEF StoreOK
<1>5. \A m \in Nodes : Referenced(m) \in Nat
  BY <1>1, ReferencedIsNat
<1>6. NoObjectMissing'
  BY <1>2, <1>3, <1>4 DEF StoreOK, NoObjectMissing
<1> QED BY <1>1, <1>2, <1>3, <1>4, <1>5, <1>6 DEF StoreOK, NoNewStray

(* A new version: one object more, one less for every version pruned.      *)
LEMMA VersionStored ==
    ASSUME IInv, StoreOK, NEW n \in DOMAIN nodes, NEW size \in Nat, _store_version(n, size)
    PROVE  StoreOK' /\ NoNewStray
<1> DEFINE v == Append(nodes[n].versions, [size |-> size, owner |-> nodes[n].owner])
           w == prune_beyond(v)
<1>1. RowsOK /\ nodes \in [DOMAIN nodes -> Row] /\ nodes[n] \in Row /\ n \in Nodes
  BY DEF IInv, RowsOK
<1>2. nodes[n].versions \in Seq(Version) /\ nodes[n].owner \in Users
  BY <1>1, RowFields
<1>3. v \in Seq(Version) /\ Len(v) = Len(nodes[n].versions) + 1
  <2>1. [size |-> size, owner |-> nodes[n].owner] \in Version
    BY <1>2 DEF Version
  <2> QED BY <1>2, <2>1
<1>4. nodes' = [nodes EXCEPT ![n].versions = w]
      /\ objects' = [objects EXCEPT ![n] = @ + 1 - Excess(v)]
  BY DEF _store_version
<1> HIDE DEF v
<1>5. Len(v) \in Nat /\ Excess(v) \in Nat /\ Excess(v) <= Len(v) /\ Excess(v) < Len(v)
  BY <1>2, <1>3 DEF Excess, AtLeastZero
<1>6. w \in Seq(Version) /\ Len(w) = Len(v) - Excess(v)
  <2>1. \A i \in (Excess(v) + 1) .. Len(v) : v[i] \in Version
    BY <1>3, <1>5
  <2> QED BY <1>3, <1>5, <2>1 DEF prune_beyond
<1> HIDE DEF w
<1>7. [nodes[n] EXCEPT !.versions = w].versions = w
  BY <1>1, <1>6, VersionedRow
<1>8. /\ DOMAIN nodes' = DOMAIN nodes /\ nodes'[n].versions = w
      /\ \A m \in DOMAIN nodes \ {n} : nodes'[m] = nodes[m]
  BY <1>1, <1>4, <1>7
<1>9. Referenced(n) = Len(nodes[n].versions) /\ Referenced(n)' = Len(v) - Excess(v)
  BY <1>6, <1>8 DEF Referenced
<1>10. \A m \in Nodes \ {n} : Referenced(m)' = Referenced(m) /\ objects'[m] = objects[m]
  BY <1>4, <1>8 DEF Referenced, StoreOK
<1>11. objects'[n] = objects[n] + 1 - Excess(v) /\ objects[n] \in Nat
       /\ objects[n] >= Len(nodes[n].versions) /\ Len(nodes[n].versions) \in Nat
  BY <1>1, <1>2, <1>4, <1>9 DEF StoreOK, NoObjectMissing
<1>12. objects'[n] \in Nat /\ objects'[n] >= Referenced(n)'
       /\ objects'[n] - Referenced(n)' = objects[n] - Referenced(n)
  <2>1. PICK o \in Nat, l \in Nat, e \in Nat :
             o = objects[n] /\ l = Len(nodes[n].versions) /\ e = Excess(v)
    BY <1>5, <1>11
  <2>a. Len(v) = l + 1
    BY <1>3, <2>1
  <2>b. Referenced(n) = l /\ Referenced(n)' = Len(v) - e
    BY <1>9, <2>1
  <2>c. objects'[n] = o + 1 - e
    BY <1>11, <2>1
  <2>2. Referenced(n) = l /\ Referenced(n)' = l + 1 - e /\ objects'[n] = o + 1 - e
    BY <2>a, <2>b, <2>c
  <2>3. e < l + 1 /\ o >= l
    BY <1>3, <1>5, <1>11, <2>1
  <2>4. o + 1 - e \in Nat /\ o + 1 - e >= l + 1 - e /\ (o + 1 - e) - (l + 1 - e) = o - l
    BY <2>3
  <2> QED BY <2>1, <2>2, <2>4
<1>13. objects' \in [Nodes -> Nat]
  BY <1>4, <1>10, <1>12 DEF StoreOK
<1>14. \A m \in Nodes : Referenced(m) \in Nat
  BY <1>1, ReferencedIsNat
<1>15. NoObjectMissing'
  BY <1>10, <1>12 DEF StoreOK, NoObjectMissing
<1> QED BY <1>10, <1>12, <1>13, <1>14, <1>15 DEF StoreOK, NoNewStray

(* A copy stores one object for every file it copies.                      *)
LEMMA CopyStored ==
    ASSUME IInv, StoreOK, NEW u \in Users, NEW s \in DOMAIN nodes, NEW d \in DOMAIN nodes,
           NEW name \in Names, copy(u, s, d, name)
    PROVE  StoreOK' /\ NoNewStray
<1> DEFINE Whole(S, f) ==
             LET bytes == BytesOf(nodes, S)
                 source(m) == CHOOSE n \in S : f[n] = m
             IN  /\ bytes > 0 => ~would_exceed(usage[u], Quota[u], bytes)
                 /\ nodes' = [m \in DOMAIN nodes \cup Range(f) |->
                                 IF m \in Range(f) THEN CopyRow(u, s, d, name, f, source(m))
                                 ELSE nodes[m]]
                 /\ usage' = [usage EXCEPT ![u] = charge_live(@, bytes)]
                 /\ objects' = [m \in Nodes |->
                                 IF m \in Range(f) /\ nodes[source(m)].kind = "file"
                                 THEN 1 ELSE objects[m]]
                 /\ UNCHANGED <<grants, clock>>
           Result(S, f) ==
             /\ nodes' = [m \in DOMAIN nodes \cup Range(f) |->
                            IF m \in Range(f)
                            THEN CopyRow(u, s, d, name, f, CHOOSE n \in S : f[n] = m)
                            ELSE nodes[m]]
             /\ objects' = [m \in Nodes |->
                            IF m \in Range(f) /\ nodes[CHOOSE n \in S : f[n] = m].kind = "file"
                            THEN 1 ELSE objects[m]]
<1>1. PICK S \in CopiedSets(s) : \E f \in OneOf(Injection(S, Fresh)) : Whole(S, f)
  BY Zenon DEF copy
<1>a. PICK f \in OneOf(Injection(S, Fresh)) : Whole(S, f)
  BY <1>1, Zenon
<1>2. Result(S, f)
  BY <1>a
<1>3. f \in [S -> Fresh] /\ Range(f) = {f[x] : x \in S}
  BY DEF OneOf, Injection, Range
<1>4. S \subseteq DOMAIN nodes
  BY SubtreeClosed DEF CopiedSets
<1>5. /\ RowsOK /\ objects \in [Nodes -> Nat]
      /\ \A m \in Nodes : Referenced(m) \in Nat
      /\ \A m \in Nodes : objects[m] >= Referenced(m)
  BY ReferencedIsNat DEF IInv, StoreOK, NoObjectMissing
<1>6. ASSUME NEW m \in Nodes, m \in Range(f)
      PROVE  /\ objects'[m] \in Nat /\ objects'[m] = Referenced(m)'
             /\ objects[m] = 0 /\ Referenced(m) = 0
  <2> DEFINE x == CHOOSE n \in S : f[n] = m
  <2>1. m \in Fresh /\ x \in S
    BY <1>3, <1>6
  <2>2. objects[m] = 0 /\ m \notin DOMAIN nodes
    BY <2>1 DEF Fresh
  <2>3. /\ m \in DOMAIN nodes' /\ nodes'[m] = CopyRow(u, s, d, name, f, x)
        /\ objects'[m] = IF nodes[x].kind = "file" THEN 1 ELSE objects[m]
    BY <1>2, <1>6
  <2>4. nodes[x].kind \in {"folder", "file"}
    BY <1>4, <1>5, <2>1 DEF RowsOK, Row
  <2> HIDE DEF x
  <2>5. Referenced(m)' = Len(CopyRow(u, s, d, name, f, x).versions)
    BY <2>3 DEF Referenced
  <2>6. CopyRow(u, s, d, name, f, x).versions =
          IF nodes[x].kind = "folder" THEN <<>>
          ELSE <<[size |-> size_bytes(nodes, x), owner |-> u]>>
    BY DEF CopyRow
  <2>7. CASE nodes[x].kind = "folder"
    BY <2>2, <2>3, <2>5, <2>6, <2>7 DEF Referenced
  <2>8. CASE nodes[x].kind = "file"
    <3>1. Len(<<[size |-> size_bytes(nodes, x), owner |-> u]>>) = 1
      OBVIOUS
    <3> QED BY <2>2, <2>3, <2>5, <2>6, <2>8, <3>1 DEF Referenced
  <2> QED BY <2>4, <2>7, <2>8
<1>7. \A m \in Nodes \ Range(f) : objects'[m] = objects[m] /\ Referenced(m)' = Referenced(m)
  BY <1>2 DEF Referenced
<1>8. objects' \in [Nodes -> Nat]
  <2>1. objects' = [m \in Nodes |-> objects'[m]]
    BY <1>2
  <2> QED BY <1>5, <1>6, <1>7, <2>1
<1>9. NoObjectMissing'
  BY <1>5, <1>6, <1>7, <1>8 DEF NoObjectMissing
<1> QED BY <1>5, <1>6, <1>7, <1>8, <1>9 DEF StoreOK, NoNewStray

(* Rows are stripped of their objects before they go: what leaves the      *)
(* store had a row of its own, and a row that goes without being stripped  *)
(* only leaves its objects behind.                                         *)
LEMMA PurgeStored ==
    ASSUME IInv, StoreOK, NEW K, NEW G, K \subseteq G, G \subseteq DOMAIN nodes, Purged(K, G)
    PROVE  StoreOK' /\ (K = G => NoNewStray)
<1>1. /\ RowsOK /\ objects \in [Nodes -> Nat] /\ DOMAIN nodes \subseteq Nodes
      /\ \A m \in Nodes : Referenced(m) \in Nat
      /\ \A m \in Nodes : objects[m] >= Referenced(m)
  BY ReferencedIsNat DEF IInv, RowsOK, StoreOK, NoObjectMissing
<1>2. /\ nodes' = [m \in DOMAIN nodes \ G |-> nodes[m]]
      /\ objects' = [m \in Nodes |-> IF m \in K THEN objects[m] - Len(nodes[m].versions)
                                     ELSE objects[m]]
  BY DEF Purged, WithoutRows
<1>3. \A m \in K : Referenced(m) = Len(nodes[m].versions) /\ m \in Nodes
  BY <1>1 DEF Referenced
<1>4. \A m \in G : Referenced(m)' = 0
  BY <1>2 DEF Referenced
<1>5. \A m \in Nodes \ G : Referenced(m)' = Referenced(m)
  BY <1>2 DEF Referenced
<1>6. /\ \A m \in K : objects'[m] = objects[m] - Referenced(m)
      /\ \A m \in Nodes \ K : objects'[m] = objects[m]
  BY <1>2, <1>3
<1>7. \A m \in Nodes : objects'[m] \in Nat /\ objects'[m] >= Referenced(m)'
  BY <1>1, <1>3, <1>4, <1>5, <1>6
<1>8. objects' \in [Nodes -> Nat]
  <2>1. objects' = [m \in Nodes |-> objects'[m]]
    BY <1>2
  <2> QED BY <1>7, <2>1
<1>9. K = G => NoNewStray
  <2>1. ASSUME K = G, NEW m \in Nodes
        PROVE  objects'[m] - Referenced(m)' <= objects[m] - Referenced(m)
    <3>1. objects[m] \in Nat /\ Referenced(m) \in Nat
      BY <1>1
    <3>2. CASE m \in K
      <4>1. objects'[m] = objects[m] - Referenced(m) /\ Referenced(m)' = 0
        BY <1>4, <1>6, <2>1, <3>2
      <4> QED BY <3>1, <4>1
    <3>3. CASE m \notin K
      <4>1. objects'[m] = objects[m] /\ Referenced(m)' = Referenced(m)
        BY <1>5, <1>6, <2>1, <3>3
      <4> QED BY <3>1, <4>1
    <3> QED BY <3>2, <3>3
  <2> QED BY <2>1 DEF NoNewStray
<1> QED BY <1>7, <1>8, <1>9 DEF StoreOK, NoObjectMissing

(* A refused upload leaves an object no row will name.                     *)
LEMMA StrayStored ==
    ASSUME IInv, StoreOK, NEW n \in Nodes, StrayObject(n)
    PROVE  StoreOK'
<1>1. /\ RowsOK /\ objects \in [Nodes -> Nat]
      /\ \A m \in Nodes : Referenced(m) \in Nat
      /\ \A m \in Nodes : objects[m] >= Referenced(m)
  BY ReferencedIsNat DEF IInv, StoreOK, NoObjectMissing
<1>2. \A m \in Nodes : Referenced(m)' = Referenced(m)
  BY DEF StrayObject, Referenced
<1>3. objects' = [objects EXCEPT ![n] = @ + 1]
  BY DEF StrayObject
<1>4. \A m \in Nodes : objects'[m] \in Nat /\ objects'[m] >= objects[m]
  BY <1>1, <1>3
<1> QED BY <1>1, <1>2, <1>3, <1>4 DEF StoreOK, NoObjectMissing

(* The reaper stops at what the version rows name.                         *)
LEMMA Reaped ==
    ASSUME IInv, StoreOK, OrphanReaper
    PROVE  StoreOK' /\ NoNewStray
<1>1. /\ RowsOK /\ objects \in [Nodes -> Nat]
      /\ \A m \in Nodes : Referenced(m) \in Nat
      /\ \A m \in Nodes : objects[m] >= Referenced(m)
  BY ReferencedIsNat DEF IInv, StoreOK, NoObjectMissing
<1>2. PICK old \in SUBSET Nodes :
           /\ objects' = [n \in Nodes |-> IF n \in old THEN Referenced(n) ELSE objects[n]]
           /\ nodes' = nodes
  BY DEF OrphanReaper
<1>3. \A m \in Nodes : Referenced(m)' = Referenced(m)
  BY <1>2 DEF Referenced
<1>4. \A m \in Nodes : objects'[m] = Referenced(m) \/ objects'[m] = objects[m]
  BY <1>2
<1>5. objects' \in [Nodes -> Nat]
  BY <1>1, <1>2
<1>6. NoObjectMissing'
  BY <1>1, <1>3, <1>4 DEF NoObjectMissing
<1> QED BY <1>1, <1>3, <1>4, <1>5, <1>6 DEF StoreOK, NoNewStray

(* A refused copy leaves the objects it had stored under ids of no row.    *)
LEMMA CopyRefused ==
    ASSUME IInv, StoreOK, NEW u \in Users, NEW s \in DOMAIN nodes, NEW d \in DOMAIN nodes,
           NEW name \in Names, copy_refused(u, s, d, name)
    PROVE  StoreOK'
<1>1. PICK S \in CopiedSets(s) : \E T \in SUBSET S : \E f \in OneOf(Injection(T, Fresh)) :
               objects' = [m \in Nodes |-> IF m \in Range(f) THEN 1 ELSE objects[m]]
  BY DEF copy_refused
<1>2. PICK T \in SUBSET S : \E f \in OneOf(Injection(T, Fresh)) :
               objects' = [m \in Nodes |-> IF m \in Range(f) THEN 1 ELSE objects[m]]
  BY <1>1
<1>3. PICK f \in OneOf(Injection(T, Fresh)) :
               objects' = [m \in Nodes |-> IF m \in Range(f) THEN 1 ELSE objects[m]]
  BY <1>2
<1>4. f \in [T -> Fresh] /\ Range(f) = {f[x] : x \in T}
  BY DEF OneOf, Injection, Range
<1>5. nodes' = nodes
  BY DEF copy_refused
<1>6. \A m \in Nodes : Referenced(m)' = Referenced(m)
  BY <1>5 DEF Referenced
<1>7. \A m \in Range(f) : Referenced(m) = 0
  BY <1>4 DEF Fresh, Referenced
<1>8. objects \in [Nodes -> Nat] /\ \A m \in Nodes : objects[m] >= Referenced(m)
  BY DEF StoreOK, NoObjectMissing
<1>9. objects' \in [Nodes -> Nat]
  BY <1>3, <1>8
<1>10. \A m \in Nodes : objects'[m] = IF m \in Range(f) THEN 1 ELSE objects[m]
  BY <1>3
<1>11. \A m \in Nodes : objects'[m] >= Referenced(m)'
  BY <1>6, <1>7, <1>8, <1>10
<1> QED BY <1>9, <1>11 DEF StoreOK, NoObjectMissing

(* No step of the specification takes an object a row names, and only the  *)
(* steps above leave one that no row names.                                *)
LEMMA StoreStep ==
    ASSUME IInv, StoreOK, [Next]_vars
    PROVE  StoreOK' /\ (NoNewStray \/ LeavesStrays)
<1> DEFINE Goal == StoreOK' /\ (NoNewStray \/ LeavesStrays)
<1>0. RowsOK /\ nodes \in [DOMAIN nodes -> Row] /\ DOMAIN nodes \subseteq Nodes
  BY DEF IInv, RowsOK
<1>1. CASE UNCHANGED vars
  BY <1>0, <1>1, SameVersions DEF vars
<1>2. ASSUME NEW u \in Users, NEW p \in DOMAIN nodes, NEW n \in OneOf(Fresh),
             NEW name \in Names, create_folder(u, p, n, name)
      PROVE  Goal
  <2>1. n \in Fresh /\ n \in Nodes /\ objects[n] = 0
    BY DEF OneOf, Fresh, Nodes
  <2> DEFINE row == Folder(nodes[p].owner, p, name)
  <2>2. row.versions = <<>> /\ Len(row.versions) = 0
    BY DEF Folder
  <2>3. nodes' = WithRow(nodes, n, row) /\ objects' = [objects EXCEPT ![n] = Len(row.versions)]
    BY <1>2, <2>1, <2>2 DEF create_folder, StoreOK
  <2> HIDE DEF row
  <2> QED BY <2>1, <2>2, <2>3, RowAdded
<1>3. ASSUME NEW u \in Users, NEW p \in DOMAIN nodes, NEW n \in OneOf(Fresh),
             NEW name \in Names, NEW size \in Sizes, upload_new(u, p, n, name, size)
      PROVE  Goal
  <2>1. n \in Fresh
    BY DEF OneOf
  <2> DEFINE row == File(nodes[p].owner, p, name, size)
  <2>2. Len(row.versions) = 1 /\ Len(row.versions) \in Nat
    BY DEF File
  <2>3. nodes' = WithRow(nodes, n, row) /\ objects' = [objects EXCEPT ![n] = Len(row.versions)]
    BY <1>3, <2>2 DEF upload_new
  <2> HIDE DEF row
  <2> QED BY <2>1, <2>2, <2>3, RowAdded
<1>4. ASSUME NEW u \in Users, NEW n \in DOMAIN nodes,
             \/ \E name \in Names : rename(u, n, name)
             \/ \E d \in DOMAIN nodes : move(u, n, d)
             \/ delete(u, n)
             \/ restore(u, n)
             \/ \E v \in Users, keep \in BOOLEAN : transfer_ownership(u, n, v, keep)
      PROVE  Goal
  BY <1>4, RowChanges
<1>5. ASSUME NEW u \in Users, NEW n \in DOMAIN nodes, NEW size \in Sizes, upload_version(u, n, size)
      PROVE  Goal
  BY <1>5, VersionStored DEF upload_version
<1>6. ASSUME NEW u \in Users, NEW n \in DOMAIN nodes, NEW i \in 1 .. Retention, restore_version(u, n, i)
      PROVE  Goal
  <2>1. nodes[n].versions \in Seq(Version) /\ i \in 1 .. Len(nodes[n].versions)
    BY <1>0, <1>6, RowFields DEF restore_version
  <2>2. nodes[n].versions[i] \in Version
    BY <2>1
  <2>3. nodes[n].versions[i].size \in Nat
    BY <2>2 DEF Version
  <2> QED BY <1>6, <2>3, VersionStored DEF restore_version
<1>7. ASSUME NEW u \in Users, NEW p \in DOMAIN nodes, NEW n \in OneOf(Fresh),
             NEW name \in Names, NEW size \in Sizes, upload_new_refused(u, p, n, name, size)
      PROVE  Goal
  <2>1. n \in Nodes /\ StrayObject(n)
    BY <1>7 DEF OneOf, Fresh, Nodes, upload_new_refused
  <2> QED BY <1>7, <2>1, StrayStored DEF LeavesStrays
<1>8. ASSUME NEW u \in Users, NEW n \in DOMAIN nodes, NEW size \in Sizes,
             upload_version_refused(u, n, size)
      PROVE  Goal
  <2>1. n \in Nodes /\ StrayObject(n)
    BY <1>0, <1>8 DEF upload_version_refused
  <2> QED BY <1>8, <2>1, StrayStored DEF LeavesStrays
<1>9. ASSUME NEW u \in Users, NEW n \in DOMAIN nodes, NEW d \in DOMAIN nodes, NEW name \in Names,
             copy(u, n, d, name)
      PROVE  Goal
  BY <1>9, CopyStored
<1>10. ASSUME NEW u \in Users, NEW n \in DOMAIN nodes, NEW d \in DOMAIN nodes, NEW name \in Names,
              copy_refused(u, n, d, name)
       PROVE  Goal
  BY <1>10, CopyRefused DEF LeavesStrays
<1>11. ASSUME NEW u \in Users, NEW n \in DOMAIN nodes, purge(u, n)
       PROVE  Goal
  <2>1. PICK G : G = Subtree(nodes, n)
    OBVIOUS
  <2>2. Purged(G, G)
    BY <1>11, <2>1 DEF purge, purge_subtree, _destroy_entry
  <2>3. G \subseteq DOMAIN nodes
    BY <2>1, SubtreeClosed
  <2> QED BY <2>2, <2>3, PurgeStored
<1>12. ASSUME NEW u \in Users, empty_trash(u)
       PROVE  Goal
  <2>1. PICK G : G = UNION {_destroy_entry(e) : e \in _spend_purge_budget(u)}
    OBVIOUS
  <2>2. Purged(G, G)
    BY <1>12, <2>1 DEF empty_trash, purge_subtree
  <2>3. G \subseteq DOMAIN nodes
    BY <2>1, SubtreeClosed DEF _destroy_entry
  <2> QED BY <2>2, <2>3, PurgeStored
<1>13. ASSUME NEW cutoff \in 1 .. clock + 1, PurgeJob(cutoff)
       PROVE  Goal
  <2>1. PICK E \in Expired(cutoff) : \E K \in Reached(E) :
               Purged(K, UNION {Subtree(nodes, n) : n \in K})
    BY <1>13 DEF PurgeJob
  <2>2. PICK K \in Reached(E) : Purged(K, UNION {Subtree(nodes, n) : n \in K})
    BY <2>1
  <2>3. PICK G : G = UNION {Subtree(nodes, n) : n \in K}
    OBVIOUS
  <2>4. K \subseteq DOMAIN nodes
    BY DEF Expired, Reached
  <2>5. \A n \in K : n \in Subtree(nodes, n)
    BY <2>4 DEF Subtree
  <2>6. K \subseteq G /\ G \subseteq DOMAIN nodes
    BY <2>3, <2>5, SubtreeClosed
  <2>7. Purged(K, G)
    BY <2>2, <2>3
  <2> QED BY <1>13, <2>6, <2>7, PurgeStored DEF LeavesStrays
<1>14. CASE ReconcileQuotasJob
  BY <1>0, <1>14, SameVersions DEF ReconcileQuotasJob
<1>15. CASE OrphanReaper
  BY <1>15, Reaped
<1> QED
  BY <1>1, <1>2, <1>3, <1>4, <1>5, <1>6, <1>7, <1>8, <1>9, <1>10, <1>11, <1>12,
     <1>13, <1>14, <1>15
     DEF Next, nodes_router, content_router, trash_router, shares_router

(* The empty store has no object, and the roots no version.                *)
LEMMA InitStore == Init => StoreOK
<1> SUFFICES ASSUME Init PROVE StoreOK
  OBVIOUS
<1>1. \A n \in Roots : nodes[n].versions = <<>>
  BY DEF Init, Folder
<1>2. DOMAIN nodes = Roots
  BY DEF Init
<1>3. \A n \in Nodes : Referenced(n) = 0
  BY <1>1, <1>2 DEF Referenced
<1> QED BY <1>3 DEF Init, StoreOK, NoObjectMissing

(* The rows and the store together.                                        *)
LEMMA StoreInvariant == Spec => [](IInv /\ StoreOK)
<1>1. Init => IInv /\ StoreOK
  BY InitIInv, InitStore
<1>2. (IInv /\ StoreOK) /\ [Next]_vars => (IInv /\ StoreOK)'
  <2>1. IInv /\ [Next]_vars => IInv'
    BY NextStep
  <2>2. IInv /\ StoreOK /\ [Next]_vars => StoreOK'
    BY StoreStep
  <2> QED BY <2>1, <2>2
<1> QED BY <1>1, <1>2, PTL DEF Spec

(* No prune, purge, cascade or reaper takes an object a version row names: *)
(* a file that is listed can be read.                                      *)
THEOREM NothingMissing == Spec => []NoObjectMissing
<1>1. IInv /\ StoreOK => NoObjectMissing
  BY DEF StoreOK
<1> QED BY StoreInvariant, <1>1, PTL

(* Objects no row names come from an upload or a copy refused after its    *)
(* bytes were stored, or from a cascade of the purge job; nothing else     *)
(* leaves one.                                                             *)
THEOREM StraysHaveASource == Spec => [][NoNewStray \/ LeavesStrays]_vars
<1>1. IInv /\ StoreOK /\ [Next]_vars => [NoNewStray \/ LeavesStrays]_vars
  BY StoreStep
<1> QED BY StoreInvariant, <1>1, PTL DEF Spec

(* Where no transaction is refused after it stored its bytes and the purge *)
(* job takes no row, no step leaves a stray.                               *)
LEMMA NoStrays ==
    ASSUME MaxStrays = 0, SweepBatch = 0, IsFiniteSet(Nodes), IInv, StoreOK
    PROVE  ~LeavesStrays
<1>1. \A n \in Nodes : ~StrayObject(n)
  <2> SUFFICES ASSUME NEW n \in Nodes, StrayObject(n) PROVE FALSE
    OBVIOUS
  <2>1. objects[n] - Referenced(n) < 0
    BY DEF StrayObject, Referenced
  <2>2. objects[n] \in Nat /\ Referenced(n) \in Nat /\ objects[n] >= Referenced(n)
    BY ReferencedIsNat DEF IInv, StoreOK, NoObjectMissing
  <2> QED BY <2>1, <2>2
<1>2. DOMAIN nodes \subseteq Nodes
  BY DEF IInv, RowsOK
<1>3. \A cutoff : Expired(cutoff) \ {{}} = {}
  <2> SUFFICES ASSUME NEW cutoff, NEW E \in Expired(cutoff) PROVE E = {}
    OBVIOUS
  <2>1. PICK old \in SUBSET DOMAIN nodes :
             E \in SUBSET old /\ Cardinality(E) = AtMost(Cardinality(old), SweepBatch)
    BY DEF Expired
  <2>2. IsFiniteSet(old) /\ IsFiniteSet(E)
    BY <1>2, <2>1, FS_Subset
  <2>3. Cardinality(old) \in Nat
    BY <2>2, FS_CardinalityType
  <2>4. Cardinality(E) = 0
    BY <2>1, <2>3 DEF AtMost
  <2> QED BY <2>2, <2>4, FS_EmptySet
<1> QED
  BY <1>1, <1>2, <1>3 DEF LeavesStrays, OneOf, Fresh, Nodes, upload_new_refused,
     upload_version_refused, copy_refused, PurgeJob

(* A step without a new stray keeps the store exact.                       *)
LEMMA StaysExact ==
    ASSUME IInv, StoreOK, IInv', StoreOK', NoNewStray, ObjectsReferenced
    PROVE  ObjectsReferenced'
<1>1. \A n \in Nodes : objects'[n] \in Nat /\ Referenced(n)' \in Nat /\ objects'[n] >= Referenced(n)'
  <2>1. ASSUME NEW n \in DOMAIN nodes' PROVE Len(nodes'[n].versions) \in Nat
    <3>1. nodes'[n] \in Row
      BY DEF IInv, RowsOK
    <3>2. nodes'[n].versions \in Seq(Version)
      BY <3>1, RowFields
    <3> QED BY <3>2
  <2>2. \A n \in Nodes : Referenced(n)' \in Nat
    BY <2>1 DEF Referenced
  <2> QED BY <2>2 DEF StoreOK, NoObjectMissing
<1>2. \A n \in Nodes : objects'[n] - Referenced(n)' <= 0
  <2>1. \A n \in Nodes : objects[n] - Referenced(n) = 0
    BY ReferencedIsNat DEF ObjectsReferenced, IInv, StoreOK
  <2> QED BY <2>1 DEF NoNewStray
<1>3. ASSUME NEW n \in Nodes PROVE objects'[n] = Referenced(n)'
  <2>1. PICK k \in Nat, m \in Nat : k = objects'[n] /\ m = Referenced(n)' /\ k >= m /\ k - m <= 0
    BY <1>1, <1>2
  <2>2. k = m
    BY <2>1
  <2> QED BY <2>1, <2>2
<1> QED BY <1>3 DEF ObjectsReferenced

(* At the start there is nothing on either side.                           *)
LEMMA StartsExact == Init => ObjectsReferenced
<1> SUFFICES ASSUME Init PROVE ObjectsReferenced
  OBVIOUS
<1>1. \A n \in Nodes : objects[n] = 0
  BY DEF Init
<1>2. \A n \in Nodes : Referenced(n) \in Nat /\ objects[n] >= Referenced(n)
  BY InitIInv, InitStore, ReferencedIsNat DEF IInv, StoreOK, NoObjectMissing
<1> QED BY <1>1, <1>2 DEF ObjectsReferenced

(* There the store holds exactly what the version rows name.               *)
THEOREM StoreExact ==
    ASSUME MaxStrays = 0, SweepBatch = 0, IsFiniteSet(Nodes)
    PROVE  Spec => []ObjectsReferenced
<1>1. IInv /\ StoreOK /\ (IInv /\ StoreOK)' /\ [Next]_vars /\ ObjectsReferenced => ObjectsReferenced'
  <2> SUFFICES ASSUME IInv, StoreOK, IInv', StoreOK', [Next]_vars, ObjectsReferenced
               PROVE  ObjectsReferenced'
    OBVIOUS
  <2>1. NoNewStray
    BY NoStrays, StoreStep
  <2> QED BY <2>1, StaysExact
<1> QED BY StoreInvariant, StartsExact, <1>1, PTL DEF Spec

-----------------------------------------------------------------------------
(* The quota: what a user stores against the counters, bucket by bucket.   *)
HIDE ConstantsAssumption

(* A row of quota_usage.                                                   *)
UsageRow == [live : Nat, trashed : Nat, versions : Nat]

(* What the buckets of one user come to after a charge, a release, a move  *)
(* between buckets: a release may find less than it asks for, so the total *)
(* falls by no more than that.                                             *)
LEMMA Buckets ==
    ASSUME NEW q \in UsageRow, NEW size \in Nat
    PROVE  /\ total_bytes(q) \in Nat
           /\ charge_live(q, size) \in UsageRow
           /\ total_bytes(charge_live(q, size)) = total_bytes(q) + size
           /\ charge_live(q, -size) \in UsageRow
           /\ total_bytes(charge_live(q, -size)) >= total_bytes(q) - size
           /\ total_bytes(charge_live(q, -size)) <= total_bytes(q)
           /\ charge_versions(q, size) \in UsageRow
           /\ total_bytes(charge_versions(q, size)) = total_bytes(q) + size
           /\ charge_versions(q, -size) \in UsageRow
           /\ total_bytes(charge_versions(q, -size)) >= total_bytes(q) - size
           /\ total_bytes(charge_versions(q, -size)) <= total_bytes(q)
<1>1. q.live \in Nat /\ q.trashed \in Nat /\ q.versions \in Nat
  BY DEF UsageRow
<1>2. total_bytes(q) \in Nat
  BY <1>1 DEF total_bytes
<1>3. ASSUME NEW l \in Nat
      PROVE  /\ [q EXCEPT !.live = l] \in UsageRow
             /\ total_bytes([q EXCEPT !.live = l]) = l + q.trashed + q.versions
  BY <1>1 DEF UsageRow, total_bytes
<1>4. ASSUME NEW l \in Nat
      PROVE  /\ [q EXCEPT !.versions = l] \in UsageRow
             /\ total_bytes([q EXCEPT !.versions = l]) = q.live + q.trashed + l
  BY <1>1 DEF UsageRow, total_bytes
<1>5. ASSUME NEW d \in Int
      PROVE  /\ charge_live(q, d) = [q EXCEPT !.live = AtLeastZero(q.live + d)]
             /\ charge_versions(q, d) = [q EXCEPT !.versions = AtLeastZero(q.versions + d)]
  BY DEF charge_live, charge_versions
<1>6. /\ AtLeastZero(q.live + size) = q.live + size
      /\ AtLeastZero(q.versions + size) = q.versions + size
      /\ AtLeastZero(q.live + (-size)) \in Nat
      /\ AtLeastZero(q.live + (-size)) >= q.live - size
      /\ AtLeastZero(q.live + (-size)) <= q.live
      /\ AtLeastZero(q.versions + (-size)) \in Nat
      /\ AtLeastZero(q.versions + (-size)) >= q.versions - size
      /\ AtLeastZero(q.versions + (-size)) <= q.versions
  BY <1>1 DEF AtLeastZero
<1>7. size \in Int /\ -size \in Int
  OBVIOUS
<1>8. total_bytes(q) = q.live + q.trashed + q.versions
  BY DEF total_bytes
<1>9. /\ charge_live(q, size) \in UsageRow
      /\ total_bytes(charge_live(q, size)) = total_bytes(q) + size
  <2>1. charge_live(q, size) = [q EXCEPT !.live = q.live + size] /\ q.live + size \in Nat
    BY <1>1, <1>5, <1>6, <1>7
  <2> QED BY <1>1, <1>3, <1>8, <2>1
<1>10. /\ charge_versions(q, size) \in UsageRow
       /\ total_bytes(charge_versions(q, size)) = total_bytes(q) + size
  <2>1. /\ charge_versions(q, size) = [q EXCEPT !.versions = q.versions + size]
        /\ q.versions + size \in Nat
    BY <1>1, <1>5, <1>6, <1>7
  <2> QED BY <1>1, <1>4, <1>8, <2>1
<1>11. /\ charge_live(q, -size) \in UsageRow
       /\ total_bytes(charge_live(q, -size)) >= total_bytes(q) - size
       /\ total_bytes(charge_live(q, -size)) <= total_bytes(q)
  <2>1. PICK l \in Nat : l = AtLeastZero(q.live + (-size))
    BY <1>6
  <2>2. charge_live(q, -size) = [q EXCEPT !.live = l]
    BY <1>5, <1>7, <2>1
  <2> QED BY <1>1, <1>3, <1>6, <1>8, <2>1, <2>2
<1>12. /\ charge_versions(q, -size) \in UsageRow
       /\ total_bytes(charge_versions(q, -size)) >= total_bytes(q) - size
       /\ total_bytes(charge_versions(q, -size)) <= total_bytes(q)
  <2>1. PICK l \in Nat : l = AtLeastZero(q.versions + (-size))
    BY <1>6
  <2>2. charge_versions(q, -size) = [q EXCEPT !.versions = l]
    BY <1>5, <1>7, <2>1
  <2> QED BY <1>1, <1>4, <1>6, <1>8, <2>1, <2>2
<1> QED BY <1>2, <1>9, <1>10, <1>11, <1>12

(* The moves between the live and the trashed bucket, and out of it.       *)
LEMMA TrashBuckets ==
    ASSUME NEW q \in UsageRow, NEW size \in Nat
    PROVE  /\ move_to_trash(q, size) \in UsageRow
           /\ total_bytes(move_to_trash(q, size)) = total_bytes(q)
           /\ restore_from_trash(q, size) \in UsageRow
           /\ total_bytes(restore_from_trash(q, size)) = total_bytes(q)
           /\ purge_from_trash(q, size) \in UsageRow
           /\ total_bytes(purge_from_trash(q, size)) >= total_bytes(q) - size
           /\ total_bytes(purge_from_trash(q, size)) <= total_bytes(q)
<1>1. q.live \in Nat /\ q.trashed \in Nat /\ q.versions \in Nat
  BY DEF UsageRow
<1>2. ASSUME NEW a \in Nat, NEW b \in Nat
      PROVE  /\ [q EXCEPT !.live = a, !.trashed = b] \in UsageRow
             /\ total_bytes([q EXCEPT !.live = a, !.trashed = b]) = a + b + q.versions
             /\ [q EXCEPT !.trashed = b, !.live = a] = [q EXCEPT !.live = a, !.trashed = b]
             /\ [q EXCEPT !.trashed = b] \in UsageRow
             /\ total_bytes([q EXCEPT !.trashed = b]) = q.live + b + q.versions
  BY <1>1 DEF UsageRow, total_bytes
<1>3. total_bytes(q) = q.live + q.trashed + q.versions
  BY DEF total_bytes
<1>4. /\ move_to_trash(q, size) \in UsageRow
      /\ total_bytes(move_to_trash(q, size)) = total_bytes(q)
  <2>1. PICK k \in Nat : k = AtMost(size, q.live) /\ k <= q.live
    BY <1>1 DEF AtMost
  <2>2. move_to_trash(q, size) = [q EXCEPT !.live = q.live - k, !.trashed = q.trashed + k]
    BY <2>1 DEF move_to_trash, UsageRow
  <2>3. PICK a \in Nat, b \in Nat : a = q.live - k /\ b = q.trashed + k
    BY <1>1, <2>1
  <2>4. move_to_trash(q, size) = [q EXCEPT !.live = a, !.trashed = b]
    BY <2>2, <2>3
  <2>5. total_bytes(move_to_trash(q, size)) = a + b + q.versions
    <3>1. total_bytes([q EXCEPT !.live = a, !.trashed = b]) = a + b + q.versions
      BY <1>2
    <3> QED BY <2>4, <3>1, Zenon
  <2>6. a + b + q.versions = total_bytes(q)
    BY <1>1, <1>3, <2>1, <2>3
  <2> QED BY <1>2, <2>4, <2>5, <2>6
<1>5. /\ restore_from_trash(q, size) \in UsageRow
      /\ total_bytes(restore_from_trash(q, size)) = total_bytes(q)
  <2>1. PICK k \in Nat : k = AtMost(size, q.trashed) /\ k <= q.trashed
    BY <1>1 DEF AtMost
  <2>2. restore_from_trash(q, size) = [q EXCEPT !.trashed = q.trashed - k, !.live = q.live + k]
    BY <2>1 DEF restore_from_trash, UsageRow
  <2>3. PICK a \in Nat, b \in Nat : a = q.live + k /\ b = q.trashed - k
    BY <1>1, <2>1
  <2>4. restore_from_trash(q, size) = [q EXCEPT !.live = a, !.trashed = b]
    BY <1>2, <2>2, <2>3
  <2>5. total_bytes(restore_from_trash(q, size)) = a + b + q.versions
    <3>1. total_bytes([q EXCEPT !.live = a, !.trashed = b]) = a + b + q.versions
      BY <1>2
    <3> QED BY <2>4, <3>1, Zenon
  <2>6. a + b + q.versions = total_bytes(q)
    BY <1>1, <1>3, <2>1, <2>3
  <2> QED BY <1>2, <2>4, <2>5, <2>6
<1>6. /\ purge_from_trash(q, size) \in UsageRow
      /\ total_bytes(purge_from_trash(q, size)) >= total_bytes(q) - size
      /\ total_bytes(purge_from_trash(q, size)) <= total_bytes(q)
  <2>1. PICK k \in Nat : k = AtLeastZero(q.trashed - size) /\ k >= q.trashed - size /\ k <= q.trashed
    BY <1>1 DEF AtLeastZero
  <2>2. purge_from_trash(q, size) = [q EXCEPT !.trashed = k]
    BY <2>1 DEF purge_from_trash
  <2>3. /\ [q EXCEPT !.trashed = k] \in UsageRow
        /\ total_bytes([q EXCEPT !.trashed = k]) = q.live + k + q.versions
    BY <1>2
  <2> QED BY <1>1, <1>3, <2>1, <2>2, <2>3
<1> QED BY <1>4, <1>5, <1>6

-----------------------------------------------------------------------------
(* The bytes of all versions of a file.                                    *)
SeqBytes(v) == SumFunctionOnSet([i \in 1 .. Len(v) |-> v[i].size], 1 .. Len(v))

(* The versions before and after a cut, and the newest one.                *)
LEMMA SeqBytesOf ==
    ASSUME NEW v \in Seq(Version)
    PROVE  /\ \A i \in 1 .. Len(v) : v[i].size \in Nat
           /\ SeqBytes(v) \in Nat
           /\ v = <<>> => SeqBytes(v) = 0
           /\ v # <<>> => v[Len(v)].size <= SeqBytes(v)
<1> DEFINE g == [i \in 1 .. Len(v) |-> v[i].size]
<1>1. IsFiniteSet(1 .. Len(v))
  BY FS_Interval
<1>2. \A i \in 1 .. Len(v) : v[i].size \in Nat
  <2>1. \A i \in 1 .. Len(v) : v[i] \in Version
    OBVIOUS
  <2> QED BY <2>1 DEF Version
<1>3. SeqBytes(v) \in Nat
  BY <1>1, <1>2, SumNat DEF SeqBytes
<1>4. CASE v = <<>>
  <2>1. 1 .. Len(v) = {}
    BY <1>4
  <2>2. SumFunctionOnSet(g, {}) = 0
    BY SumEmpty
  <2> QED BY <1>2, <1>3, <1>4, <2>1, <2>2 DEF SeqBytes
<1>5. CASE v # <<>>
  <2>1. Len(v) \in 1 .. Len(v)
    BY <1>5
  <2> DEFINE R == (1 .. Len(v)) \ {Len(v)}
  <2>2. SumFunctionOnSet(g, 1 .. Len(v)) = g[Len(v)] + SumFunctionOnSet(g, R)
    BY <1>1, <1>2, <2>1, SumSplit
  <2>3. IsFiniteSet(R)
    BY <1>1, FS_Subset
  <2>4. \A i \in R : g[i] \in Nat
    BY <1>2
  <2>5. SumFunctionOnSet(g, R) \in Nat
    BY <2>3, <2>4, SumNat
  <2>6. g[Len(v)] = v[Len(v)].size
    BY <2>1
  <2>7. SeqBytes(v) = v[Len(v)].size + SumFunctionOnSet(g, R)
    BY <2>2, <2>6 DEF SeqBytes
  <2> QED BY <1>2, <1>3, <1>5, <2>1, <2>5, <2>7
<1> QED BY <1>4, <1>5

(* One version more.                                                       *)
LEMMA SeqBytesAppend ==
    ASSUME NEW v \in Seq(Version), NEW w \in Version
    PROVE  SeqBytes(Append(v, w)) = SeqBytes(v) + w.size
<1> DEFINE x == Append(v, w)
           g == [i \in 1 .. Len(v) |-> v[i].size]
           h == [i \in 1 .. Len(x) |-> x[i].size]
           n == Len(x)
<1>1. x \in Seq(Version) /\ n = Len(v) + 1 /\ x[n] = w /\ Len(v) \in Nat
  OBVIOUS
<1>2. \A i \in 1 .. Len(v) : x[i] = v[i]
  OBVIOUS
<1> HIDE DEF x
<1>3. IsFiniteSet(1 .. n) /\ IsFiniteSet(1 .. Len(v))
  BY <1>1, FS_Interval
<1>4. \A i \in 1 .. n : h[i] \in Nat
  BY <1>1, SeqBytesOf
<1>5. n \in 1 .. n /\ (1 .. n) \ {n} = 1 .. Len(v)
  BY <1>1
<1>6. SumFunctionOnSet(h, 1 .. n) = h[n] + SumFunctionOnSet(h, (1 .. n) \ {n})
  <2> HIDE DEF h, n
  <2> QED BY <1>3, <1>4, <1>5, SumSplit
<1>7. \A i \in 1 .. Len(v) : g[i] = h[i]
  BY <1>1, <1>2
<1>8. SumFunctionOnSet(h, 1 .. Len(v)) = SumFunctionOnSet(g, 1 .. Len(v))
  <2> HIDE DEF g, h
  <2> QED BY <1>3, <1>7, SumEqual
<1>9. h[n] = w.size
  BY <1>1, <1>5
<1>10. SeqBytes(x) = SumFunctionOnSet(h, 1 .. n) /\ SeqBytes(v) = SumFunctionOnSet(g, 1 .. Len(v))
  BY DEF SeqBytes
<1>11. SeqBytes(v) \in Nat /\ w.size \in Nat
  BY SeqBytesOf DEF Version
<1>12. SeqBytes(x) = w.size + SeqBytes(v)
  <2> HIDE DEF g, h, n
  <2> QED BY <1>5, <1>6, <1>8, <1>9, <1>10
<1> QED BY <1>11, <1>12 DEF x

(* The bytes of one version.                                               *)
LEMMA SeqBytesOne ==
    ASSUME NEW w \in Version
    PROVE  SeqBytes(<<w>>) = w.size
<1>1. <<>> \in Seq(Version) /\ Append(<<>>, w) = <<w>>
  OBVIOUS
<1>2. SeqBytes(<<>>) = 0
  BY <1>1, SeqBytesOf
<1>3. SeqBytes(Append(<<>>, w)) = 0 + w.size
  BY <1>1, <1>2, SeqBytesAppend
<1>4. w.size \in Nat
  BY DEF Version
<1> QED BY <1>1, <1>3, <1>4

(* What pruning takes away and what it leaves come to what there was.      *)
LEMMA SeqBytesPruned ==
    ASSUME NEW v \in Seq(Version)
    PROVE  /\ SumFunction([i \in 1 .. Excess(v) |-> v[i].size]) \in Nat
           /\ SeqBytes(v) = SumFunction([i \in 1 .. Excess(v) |-> v[i].size])
                                + SeqBytes(prune_beyond(v))
<1> DEFINE e == Excess(v)
           N == Len(v)
           w == prune_beyond(v)
           g == [i \in 1 .. N |-> v[i].size]
           h == [i \in 1 .. e |-> v[i].size]
           k == [i \in 1 .. Len(w) |-> w[i].size]
           f == [i \in 1 .. Len(w) |-> e + i]
<1>0. Len(v) \in Nat /\ Retention \in Nat
  BY ConstantsAssumption
<1>1. e \in Nat /\ N \in Nat /\ e <= N
  BY <1>0 DEF Excess, AtLeastZero
<1>2. Len(w) = N - e /\ (\A i \in 1 .. Len(w) : w[i] = v[e + i])
  BY <1>1 DEF prune_beyond
<1> HIDE DEF e, w
<1>3. IsFiniteSet(1 .. N) /\ IsFiniteSet(1 .. e) /\ IsFiniteSet(1 .. Len(w))
  BY <1>1, <1>2, FS_Interval
<1>4. \A i \in 1 .. N : g[i] \in Nat
  BY SeqBytesOf
<1>5. 1 .. e \in SUBSET (1 .. N)
  BY <1>1
<1>6. (1 .. N) \ (1 .. e) = {f[i] : i \in 1 .. Len(w)}
  <2>1. ASSUME NEW x \in (1 .. N) \ (1 .. e) PROVE x \in {f[i] : i \in 1 .. Len(w)}
    <3>1. x - e \in 1 .. Len(w) /\ e + (x - e) = x
      BY <1>1, <1>2
    <3> QED BY <3>1
  <2>2. ASSUME NEW i \in 1 .. Len(w) PROVE f[i] \in (1 .. N) \ (1 .. e)
    BY <1>1, <1>2
  <2> QED BY <2>1, <2>2
<1>7. /\ \A x, y \in 1 .. Len(w) : f[x] = f[y] => x = y
      /\ \A x \in 1 .. Len(w) : k[x] \in Nat /\ g[f[x]] = k[x]
  <2>1. ASSUME NEW x \in 1 .. Len(w) PROVE k[x] \in Nat /\ g[f[x]] = k[x] /\ f[x] = e + x
    <3>1. f[x] = e + x /\ e + x \in 1 .. N
      BY <1>1, <1>2
    <3>2. k[x] = v[e + x].size /\ g[e + x] = v[e + x].size
      BY <1>2, <3>1
    <3> QED BY <1>4, <3>1, <3>2
  <2> QED BY <1>1, <1>2, <2>1
<1> HIDE DEF g, f, k
<1>8. /\ SumFunctionOnSet(g, 1 .. N) =
             SumFunctionOnSet(g, 1 .. e) + SumFunctionOnSet(g, (1 .. N) \ (1 .. e))
      /\ SumFunctionOnSet(g, 1 .. e) \in Nat
  <2> HIDE DEF N
  <2> QED BY <1>3, <1>4, <1>5, SumSubset
<1>9. SumFunctionOnSet(g, (1 .. N) \ (1 .. e)) = SumFunctionOnSet(k, 1 .. Len(w))
  <2>1. f \in Bijection(1 .. Len(w), (1 .. N) \ (1 .. e))
    <3>1. f \in [1 .. Len(w) -> (1 .. N) \ (1 .. e)]
      BY <1>6 DEF f
    <3>2. \A t \in (1 .. N) \ (1 .. e) : \E i \in 1 .. Len(w) : f[i] = t
      BY <1>6
    <3>3. PICK A, B : A = 1 .. Len(w) /\ B = (1 .. N) \ (1 .. e)
      OBVIOUS
    <3>4. f \in [A -> B] /\ \A t \in B : \E i \in A : f[i] = t
      BY <3>1, <3>2, <3>3
    <3>5. \A x, y \in A : f[x] = f[y] => x = y
      BY <1>7, <3>3
    <3>6. f \in Bijection(A, B)
      BY <3>4, <3>5 DEF Bijection, Injection, Surjection, IsInjective
    <3> QED BY <3>3, <3>6
  <2>2. PICK A, B : A = 1 .. Len(w) /\ B = (1 .. N) \ (1 .. e)
    OBVIOUS
  <2>3. IsFiniteSet(A) /\ f \in Bijection(A, B) /\ \A x \in A : k[x] \in Nat /\ g[f[x]] = k[x]
    BY <1>3, <1>7, <2>1, <2>2
  <2>4. SumFunctionOnSet(g, B) = SumFunctionOnSet(k, A)
    BY <2>3, SumReindexed
  <2> QED BY <2>2, <2>4
<1>10. SumFunctionOnSet(g, 1 .. e) = SumFunctionOnSet(h, 1 .. e)
  <2>1. \A i \in 1 .. e : g[i] = h[i]
    BY <1>5 DEF g
  <2> HIDE DEF h
  <2> QED BY <1>3, <2>1, SumEqual
<1>11. SeqBytes(v) = SumFunctionOnSet(g, 1 .. N) /\ SeqBytes(w) = SumFunctionOnSet(k, 1 .. Len(w))
  BY DEF SeqBytes, g, k
<1>12. SumFunction(h) = SumFunctionOnSet(h, 1 .. e)
  BY DEF SumFunction
<1> QED BY <1>6, <1>8, <1>9, <1>10, <1>11, <1>12 DEF e, w

-----------------------------------------------------------------------------
(* What the rows of a table hold.                                          *)
Held(t) == [n \in DOMAIN t |-> SeqBytes(t[n].versions)]

OwnedRows(t, u) == {n \in DOMAIN t : t[n].owner = u}

Stored(t, u) == SumFunctionOnSet(Held(t), OwnedRows(t, u))

(* A finite table with rows of the schema.                                 *)
Table(t) == IsFiniteSet(DOMAIN t) /\ \A n \in DOMAIN t : t[n] \in Row

(* The sums over a table are sums of naturals over finite sets.            *)
LEMMA TableSums ==
    ASSUME NEW t, Table(t)
    PROVE  /\ \A n \in DOMAIN t : /\ t[n].versions \in Seq(Version)
                                  /\ Held(t)[n] = SeqBytes(t[n].versions)
                                  /\ Held(t)[n] \in Nat
                                  /\ size_bytes(t, n) \in Nat
                                  /\ size_bytes(t, n) <= Held(t)[n]
           /\ \A S \in SUBSET DOMAIN t : /\ IsFiniteSet(S)
                                         /\ SumFunctionOnSet(Held(t), S) \in Nat
                                         /\ BytesOf(t, S) \in Nat
                                         /\ BytesOf(t, S) <= SumFunctionOnSet(Held(t), S)
<1>1. \A n \in DOMAIN t : t[n].versions \in Seq(Version)
  BY RowFields DEF Table
<1>2. ASSUME NEW n \in DOMAIN t
      PROVE  /\ Held(t)[n] = SeqBytes(t[n].versions) /\ Held(t)[n] \in Nat
             /\ size_bytes(t, n) \in Nat /\ size_bytes(t, n) <= Held(t)[n]
  <2>1. PICK v \in Seq(Version) : v = t[n].versions
    BY <1>1
  <2>2. Held(t)[n] = SeqBytes(v) /\ SeqBytes(v) \in Nat
    BY <2>1, SeqBytesOf DEF Held
  <2>3. CASE v = <<>>
    BY <2>1, <2>2, <2>3 DEF size_bytes
  <2>4. CASE v # <<>>
    <3>1. size_bytes(t, n) = v[Len(v)].size
      BY <2>1, <2>4 DEF size_bytes
    <3>2. Len(v) \in 1 .. Len(v)
      BY <2>4
    <3> QED BY <2>1, <2>2, <2>4, <3>1, <3>2, SeqBytesOf
  <2> QED BY <2>1, <2>2, <2>3, <2>4
<1>3. ASSUME NEW S \in SUBSET DOMAIN t
      PROVE  /\ IsFiniteSet(S) /\ SumFunctionOnSet(Held(t), S) \in Nat
             /\ BytesOf(t, S) \in Nat /\ BytesOf(t, S) <= SumFunctionOnSet(Held(t), S)
  <2> DEFINE g == [n \in S |-> size_bytes(t, n)]
  <2>1. IsFiniteSet(S)
    BY FS_Subset DEF Table
  <2>2. \A n \in S : g[n] \in Nat /\ Held(t)[n] \in Nat /\ g[n] <= Held(t)[n]
    BY <1>2
  <2>3. BytesOf(t, S) = SumFunctionOnSet(g, S)
    BY DEF BytesOf, SumFunction
  <2> HIDE DEF g
  <2> QED BY <2>1, <2>2, <2>3, SumNat, SumMonotonic
<1> QED BY <1>1, <1>2, <1>3

(* The rows keep their owners and versions.                                *)
LEMMA StoredSame ==
    ASSUME NEW t, NEW t2, Table(t), DOMAIN t2 = DOMAIN t, NEW u,
           \A n \in DOMAIN t : t2[n].owner = t[n].owner /\ t2[n].versions = t[n].versions
    PROVE  Stored(t2, u) = Stored(t, u)
<1>1. OwnedRows(t2, u) = OwnedRows(t, u) /\ OwnedRows(t, u) \in SUBSET DOMAIN t
  BY DEF OwnedRows
<1>2. \A n \in OwnedRows(t, u) : Held(t2)[n] = Held(t)[n]
  BY <1>1 DEF Held
<1>3. IsFiniteSet(OwnedRows(t, u))
  BY <1>1, TableSums
<1>4. SumFunctionOnSet(Held(t2), OwnedRows(t, u)) = SumFunctionOnSet(Held(t), OwnedRows(t, u))
  BY <1>2, <1>3, SumEqual
<1> QED BY <1>1, <1>4 DEF Stored

(* Rows of u, or rows of others, are added.                                *)
LEMMA StoredAdded ==
    ASSUME NEW t, NEW t2, Table(t), Table(t2), DOMAIN t \subseteq DOMAIN t2,
           \A n \in DOMAIN t : t2[n] = t[n], NEW u
    PROVE  /\ (\A n \in DOMAIN t2 \ DOMAIN t : t2[n].owner = u) =>
                Stored(t2, u) = Stored(t, u) + SumFunctionOnSet(Held(t2), DOMAIN t2 \ DOMAIN t)
           /\ (\A n \in DOMAIN t2 \ DOMAIN t : t2[n].owner # u) =>
                Stored(t2, u) = Stored(t, u)
<1> DEFINE A == OwnedRows(t, u)
           N == DOMAIN t2 \ DOMAIN t
<1>1. A \in SUBSET DOMAIN t /\ A \in SUBSET DOMAIN t2 /\ N \in SUBSET DOMAIN t2 /\ A \cap N = {}
  BY DEF OwnedRows
<1>2. \A n \in A : Held(t2)[n] = Held(t)[n]
  BY DEF Held, OwnedRows
<1>3. /\ (\A n \in N : t2[n].owner = u) => OwnedRows(t2, u) = A \cup N
      /\ (\A n \in N : t2[n].owner # u) => OwnedRows(t2, u) = A
  BY DEF OwnedRows
<1>4. IsFiniteSet(A) /\ IsFiniteSet(N) /\ \A n \in A \cup N : Held(t2)[n] \in Nat
  BY <1>1, TableSums
<1>5. Stored(t, u) = SumFunctionOnSet(Held(t), A)
  BY DEF Stored
<1>6. Stored(t2, u) = SumFunctionOnSet(Held(t2), OwnedRows(t2, u))
  BY DEF Stored
<1> HIDE DEF A, N
<1>7. SumFunctionOnSet(Held(t2), A) = SumFunctionOnSet(Held(t), A)
  BY <1>2, <1>4, SumEqual
<1>8. SumFunctionOnSet(Held(t2), A \cup N) = SumFunctionOnSet(Held(t2), A) + SumFunctionOnSet(Held(t2), N)
  BY <1>1, <1>4, SumUnion
<1>9. /\ (\A n \in N : t2[n].owner = u) =>
            Stored(t2, u) = Stored(t, u) + SumFunctionOnSet(Held(t2), N)
      /\ (\A n \in N : t2[n].owner # u) => Stored(t2, u) = Stored(t, u)
  BY <1>3, <1>5, <1>6, <1>7, <1>8
<1> QED BY <1>9 DEF N

(* What a user stores when only rows of others are added.                  *)
LEMMA StoredElsewhere ==
    ASSUME NEW t, NEW t2, Table(t), Table(t2), DOMAIN t \subseteq DOMAIN t2,
           \A n \in DOMAIN t : t2[n] = t[n], NEW u,
           \A n \in DOMAIN t2 \ DOMAIN t : t2[n].owner # u
    PROVE  Stored(t2, u) = Stored(t, u)
<1>1. OwnedRows(t2, u) = OwnedRows(t, u) /\ OwnedRows(t, u) \in SUBSET DOMAIN t
  BY DEF OwnedRows
<1>2. \A n \in OwnedRows(t, u) : Held(t2)[n] = Held(t)[n]
  BY DEF Held, OwnedRows
<1>3. PICK A : A = OwnedRows(t, u)
  OBVIOUS
<1>4. SumFunctionOnSet(Held(t2), A) = SumFunctionOnSet(Held(t), A)
  <2>1. IsFiniteSet(A)
    BY <1>1, <1>3, TableSums
  <2> QED BY <1>2, <1>3, <2>1, SumEqual
<1> QED BY <1>1, <1>3, <1>4 DEF Stored

(* One row gets other versions.                                            *)
LEMMA StoredChanged ==
    ASSUME NEW t, NEW t2, Table(t), Table(t2), DOMAIN t2 = DOMAIN t, NEW m \in DOMAIN t,
           \A n \in DOMAIN t \ {m} : t2[n] = t[n], t2[m].owner = t[m].owner, NEW u
    PROVE  IF u = t[m].owner
           THEN Stored(t2, u) + SeqBytes(t[m].versions) = Stored(t, u) + SeqBytes(t2[m].versions)
           ELSE Stored(t2, u) = Stored(t, u)
<1> DEFINE A == OwnedRows(t, u)
<1>1. A = OwnedRows(t2, u) /\ A \in SUBSET DOMAIN t /\ (m \in A <=> u = t[m].owner)
  BY DEF OwnedRows
<1>2. IsFiniteSet(A) /\ \A n \in A : Held(t)[n] \in Nat /\ Held(t2)[n] \in Nat
  BY <1>1, TableSums
<1>3. \A n \in A \ {m} : Held(t)[n] = Held(t2)[n]
  BY <1>1 DEF Held
<1>4. Held(t)[m] = SeqBytes(t[m].versions) /\ Held(t2)[m] = SeqBytes(t2[m].versions)
  BY DEF Held
<1>5. Stored(t, u) = SumFunctionOnSet(Held(t), A) /\ Stored(t2, u) = SumFunctionOnSet(Held(t2), A)
  BY <1>1 DEF Stored
<1> HIDE DEF A
<1>6. CASE m \in A
  BY <1>1, <1>2, <1>3, <1>4, <1>5, <1>6, SumChanged
<1>7. CASE m \notin A
  <2>1. \A n \in A : Held(t)[n] = Held(t2)[n]
    BY <1>3, <1>7
  <2> QED BY <1>1, <1>2, <1>5, <1>7, <2>1, SumEqual
<1> QED BY <1>6, <1>7

(* Rows go, and what is released for some of them is no more than they     *)
(* held.                                                                   *)
LEMMA StoredCut ==
    ASSUME NEW t, Table(t), NEW G \in SUBSET DOMAIN t, NEW K \in SUBSET G, NEW u
    PROVE  /\ OwnedBytes(t, K, u) \in Nat
           /\ Stored(WithoutRows(t, G), u) \in Nat
           /\ Stored(WithoutRows(t, G), u) + OwnedBytes(t, K, u) <= Stored(t, u)
<1> DEFINE A == OwnedRows(t, u)
           B == {n \in K : t[n].owner = u}
           C == A \ G
           t2 == WithoutRows(t, G)
<1>1. A \in SUBSET DOMAIN t /\ C \in SUBSET A /\ B \in SUBSET (A \ C) /\ B \in SUBSET DOMAIN t
  BY DEF OwnedRows
<1>2. OwnedRows(t2, u) = C /\ (\A n \in C : Held(t2)[n] = Held(t)[n])
  BY DEF OwnedRows, WithoutRows, Held
<1>3. IsFiniteSet(A) /\ IsFiniteSet(C) /\ IsFiniteSet(A \ C) /\ \A n \in A : Held(t)[n] \in Nat
  BY <1>1, TableSums
<1>4. BytesOf(t, B) \in Nat /\ BytesOf(t, B) <= SumFunctionOnSet(Held(t), B)
  BY <1>1, TableSums
<1>5. OwnedBytes(t, K, u) = BytesOf(t, B)
  BY DEF OwnedBytes
<1>6. Stored(t, u) = SumFunctionOnSet(Held(t), A) /\ Stored(t2, u) = SumFunctionOnSet(Held(t2), C)
  BY <1>2 DEF Stored
<1> HIDE DEF A, B, C, t2
<1>7. SumFunctionOnSet(Held(t2), C) = SumFunctionOnSet(Held(t), C)
  BY <1>2, <1>3, SumEqual
<1>8. /\ SumFunctionOnSet(Held(t), A) = SumFunctionOnSet(Held(t), C) + SumFunctionOnSet(Held(t), A \ C)
      /\ SumFunctionOnSet(Held(t), C) \in Nat /\ SumFunctionOnSet(Held(t), A \ C) \in Nat
  BY <1>1, <1>3, SumSubset
<1>9. /\ SumFunctionOnSet(Held(t), B) <= SumFunctionOnSet(Held(t), A \ C)
      /\ SumFunctionOnSet(Held(t), B) \in Nat
  <2>1. \A n \in A \ C : Held(t)[n] \in Nat
    BY <1>3
  <2> QED BY <1>1, <1>3, <2>1, SumSubset
<1>10. /\ Stored(t2, u) \in Nat
       /\ Stored(t2, u) + OwnedBytes(t, K, u) <= Stored(t, u)
  BY <1>4, <1>5, <1>6, <1>7, <1>8, <1>9
<1> QED BY <1>4, <1>5, <1>10 DEF t2

(* StoredBytes is Stored.                                                  *)
LEMMA StoredIs ==
    ASSUME NEW t, Table(t), NEW u
    PROVE  LET held(n) == SumFunction([i \in 1 .. Len(t[n].versions) |-> t[n].versions[i].size])
           IN  SumFunction([n \in {n \in DOMAIN t : t[n].owner = u} |-> held(n)]) = Stored(t, u)
<1> DEFINE held(n) == SumFunction([i \in 1 .. Len(t[n].versions) |-> t[n].versions[i].size])
           g == [n \in {n \in DOMAIN t : t[n].owner = u} |-> held(n)]
           A == {n \in DOMAIN t : t[n].owner = u}
<1>1. \A n \in DOMAIN t : held(n) = SeqBytes(t[n].versions)
  BY DEF SumFunction, SeqBytes
<1> HIDE DEF held
<1>2. \A n \in A : g[n] = Held(t)[n]
  BY <1>1 DEF Held
<1>3. A \in SUBSET DOMAIN t
  OBVIOUS
<1>4. IsFiniteSet(A)
  BY <1>3, TableSums
<1>5. SumFunction(g) = SumFunctionOnSet(g, A)
  BY DEF SumFunction
<1>6. SumFunctionOnSet(g, A) = SumFunctionOnSet(Held(t), A)
  <2> HIDE DEF g, A
  <2> QED BY <1>2, <1>4, SumEqual
<1>7. Stored(t, u) = SumFunctionOnSet(Held(t), A)
  BY DEF Stored, OwnedRows
<1> QED BY <1>5, <1>6, <1>7 DEF held

(* The versions of a file belong to its owner.                             *)
VersionsOwned(t) ==
    \A n \in DOMAIN t : \A i \in 1 .. Len(t[n].versions) : t[n].versions[i].owner = t[n].owner

(* A sum of zeros.                                                         *)
LEMMA SumZero ==
    ASSUME NEW S, IsFiniteSet(S), NEW g, \A x \in S : g[x] = 0
    PROVE  SumFunctionOnSet(g, S) = 0
<1>1. SumFunctionOnSet(g, S) = Cardinality({x \in S : g[x] = 1})
  BY SumCounts
<1>2. {x \in S : g[x] = 1} = {}
  OBVIOUS
<1> QED BY <1>1, <1>2, FS_EmptySet

(* The versions of u before the newest, as a recomputation finds them.     *)
Retained(v, u) ==
    SumFunction([i \in {i \in 1 .. Len(v) - 1 : v[i].owner = u} |-> v[i].size])

(* They and the newest version are all of the versions of a file of u.     *)
LEMMA SeqBytesRetained ==
    ASSUME NEW v \in Seq(Version), NEW u
    PROVE  /\ Retained(v, u) \in Nat
           /\ (\A i \in 1 .. Len(v) : v[i].owner # u) => Retained(v, u) = 0
           /\ (\A i \in 1 .. Len(v) : v[i].owner = u) =>
                    SeqBytes(v) = (IF v = <<>> THEN 0 ELSE v[Len(v)].size) + Retained(v, u)
<1>0. PICK I, k : /\ I = {i \in 1 .. Len(v) - 1 : v[i].owner = u}
                  /\ k = SumFunction([i \in I |-> v[i].size]) /\ k = Retained(v, u)
  BY DEF Retained
<1> DEFINE g == [i \in I |-> v[i].size]
           h == [i \in 1 .. Len(v) |-> v[i].size]
<1>1. Len(v) \in Nat /\ \A i \in 1 .. Len(v) : v[i].size \in Nat
  BY SeqBytesOf
<1>2. IsFiniteSet(1 .. Len(v)) /\ I \in SUBSET (1 .. Len(v))
  BY <1>0, <1>1, FS_Interval
<1>3. IsFiniteSet(I) /\ k = SumFunctionOnSet(g, I)
  BY <1>0, <1>2, FS_Subset DEF SumFunction
<1>4. (\A i \in I : g[i] \in Nat /\ g[i] = h[i]) /\ (\A i \in 1 .. Len(v) : h[i] \in Nat)
  BY <1>1, <1>2
<1>5. SeqBytes(v) = SumFunctionOnSet(h, 1 .. Len(v))
  BY DEF SeqBytes
<1>10. \A i \in 1 .. Len(v) : h[i] = v[i].size
  OBVIOUS
<1> HIDE DEF g, h
<1>6. k \in Nat /\ k = SumFunctionOnSet(h, I)
  BY <1>3, <1>4, SumNat, SumEqual
<1>7. ASSUME \A i \in 1 .. Len(v) : v[i].owner # u
      PROVE  k = 0
  <2>1. I = {}
    BY <1>0, <1>1, <1>7
  <2> QED BY <1>3, <2>1, SumEmpty
<1>8. ASSUME \A i \in 1 .. Len(v) : v[i].owner = u
      PROVE  SeqBytes(v) = (IF v = <<>> THEN 0 ELSE v[Len(v)].size) + k
  <2>1. CASE v = <<>>
    <3>1. I = {}
      BY <1>0, <2>1
    <3>2. k = 0
      BY <1>3, <3>1, SumEmpty
    <3>3. SeqBytes(v) = 0
      BY <2>1, SeqBytesOf
    <3> QED BY <2>1, <3>2, <3>3
  <2>2. CASE v # <<>>
    <3>1. Len(v) \in 1 .. Len(v) /\ I = (1 .. Len(v)) \ {Len(v)}
      BY <1>0, <1>1, <1>8, <2>2
    <3>2. SumFunctionOnSet(h, 1 .. Len(v)) = h[Len(v)] + SumFunctionOnSet(h, I)
      <4>1. PICK D, y : D = 1 .. Len(v) /\ y = Len(v)
        OBVIOUS
      <4>2. IsFiniteSet(D) /\ y \in D /\ (\A i \in D : h[i] \in Nat) /\ I = D \ {y}
        BY <1>2, <1>4, <3>1, <4>1
      <4>3. SumFunctionOnSet(h, D) = h[y] + SumFunctionOnSet(h, D \ {y})
        BY <4>2, SumSplit
      <4> QED BY <4>1, <4>2, <4>3
    <3> QED BY <1>5, <1>6, <1>10, <2>2, <3>1, <3>2
  <2> QED BY <2>1, <2>2
<1> QED BY <1>0, <1>6, <1>7, <1>8

(* A recomputation finds what is stored, while every version belongs to    *)
(* the owner of its file.                                                  *)
LEMMA RecomputeExact ==
    ASSUME NEW t, Table(t), VersionsOwned(t), NEW u
    PROVE  /\ recompute(t, u) \in UsageRow
           /\ total_bytes(recompute(t, u)) = Stored(t, u)
<1> DEFINE A == OwnedRows(t, u)
           L == {n \in {m \in DOMAIN t : Live(t, m)} : t[n].owner = u}
           T == {n \in {m \in DOMAIN t : Trashed(t, m)} : t[n].owner = u}
           size == [n \in DOMAIN t |-> size_bytes(t, n)]
           history(n) == {i \in 1 .. Len(t[n].versions) - 1 : t[n].versions[i].owner = u}
           held(n) == SumFunction([i \in history(n) |-> t[n].versions[i].size])
           past == [n \in DOMAIN t |-> held(n)]
<1>1. recompute(t, u) = [live |-> BytesOf(t, L), trashed |-> BytesOf(t, T),
                         versions |-> SumFunction(past)]
  BY DEF recompute, OwnedBytes
<1>2. /\ L \in SUBSET DOMAIN t /\ T \in SUBSET DOMAIN t /\ A \in SUBSET DOMAIN t
      /\ A = L \cup T /\ L \cap T = {}
  BY DEF Live, Trashed, OwnedRows
<1>3. /\ IsFiniteSet(L) /\ IsFiniteSet(T) /\ IsFiniteSet(A) /\ IsFiniteSet(DOMAIN t)
      /\ BytesOf(t, L) \in Nat /\ BytesOf(t, T) \in Nat
  BY <1>2, TableSums DEF Table
<1>4. /\ \A n \in DOMAIN t : size[n] \in Nat /\ size[n] = size_bytes(t, n)
      /\ \A n \in DOMAIN t : t[n].versions \in Seq(Version) /\ Held(t)[n] = SeqBytes(t[n].versions)
  BY TableSums
<1>5. ASSUME NEW S \in SUBSET DOMAIN t
      PROVE  BytesOf(t, S) = SumFunctionOnSet(size, S)
  <2> DEFINE g == [n \in S |-> size_bytes(t, n)]
  <2>1. \A n \in S : g[n] = size[n]
    BY <1>4
  <2>2. BytesOf(t, S) = SumFunctionOnSet(g, S)
    BY DEF BytesOf, SumFunction
  <2>3. IsFiniteSet(S)
    BY <1>3, FS_Subset
  <2> HIDE DEF g, size
  <2> QED BY <2>1, <2>2, <2>3, SumEqual
<1>6. SumFunction(past) = SumFunctionOnSet(past, DOMAIN t)
  BY DEF SumFunction
<1>7. ASSUME NEW n \in DOMAIN t
      PROVE  /\ past[n] \in Nat
             /\ n \notin A => past[n] = 0
             /\ n \in A => Held(t)[n] = size[n] + past[n]
  <2>1. PICK v \in Seq(Version) : v = t[n].versions
    BY <1>4
  <2>5. past[n] = Retained(v, u)
    BY <2>1 DEF Retained
  <2>6. \A i \in 1 .. Len(v) : v[i].owner = t[n].owner
    BY <2>1 DEF VersionsOwned
  <2>7. n \in A <=> t[n].owner = u
    BY DEF OwnedRows
  <2>8. size[n] = IF v = <<>> THEN 0 ELSE v[Len(v)].size
    BY <2>1 DEF size_bytes
  <2>9. Held(t)[n] = SeqBytes(v)
    BY <1>4, <2>1
  <2> HIDE DEF A, size, past, history, held
  <2>12. Retained(v, u) \in Nat
    BY SeqBytesRetained
  <2>10. CASE t[n].owner = u
    <3>1. \A i \in 1 .. Len(v) : v[i].owner = u
      BY <2>6, <2>10
    <3>2. SeqBytes(v) = (IF v = <<>> THEN 0 ELSE v[Len(v)].size) + Retained(v, u)
      BY <3>1, SeqBytesRetained
    <3> QED BY <2>5, <2>7, <2>8, <2>9, <2>10, <2>12, <3>2
  <2>11. CASE t[n].owner # u
    <3>1. \A i \in 1 .. Len(v) : v[i].owner # u
      BY <2>6, <2>11
    <3>2. Retained(v, u) = 0
      BY <3>1, SeqBytesRetained
    <3> QED BY <2>5, <2>7, <2>11, <3>2
  <2> QED BY <2>10, <2>11
<1>8. BytesOf(t, L) = SumFunctionOnSet(size, L) /\ BytesOf(t, T) = SumFunctionOnSet(size, T)
  BY <1>2, <1>5
<1>9. Stored(t, u) = SumFunctionOnSet(Held(t), A)
  BY DEF Stored
<1>10. /\ \A n \in A : size[n] \in Nat /\ past[n] \in Nat /\ Held(t)[n] = size[n] + past[n]
       /\ \A n \in DOMAIN t : past[n] \in Nat
       /\ \A n \in DOMAIN t \ A : past[n] = 0
       /\ \A n \in L \cup T : size[n] \in Nat
  BY <1>2, <1>4, <1>7
<1> HIDE DEF A, L, T, size, past
<1>11. SumFunctionOnSet(size, A) = SumFunctionOnSet(size, L) + SumFunctionOnSet(size, T)
  BY <1>2, <1>3, <1>10, SumUnion
<1>12. /\ SumFunctionOnSet(past, DOMAIN t) = SumFunctionOnSet(past, A) + SumFunctionOnSet(past, DOMAIN t \ A)
       /\ SumFunctionOnSet(past, A) \in Nat
  BY <1>2, <1>3, <1>10, SumSubset
<1>13. SumFunctionOnSet(past, DOMAIN t \ A) = 0
  <2>1. IsFiniteSet(DOMAIN t \ A)
    BY <1>3, FS_Subset
  <2> QED BY <1>10, <2>1, SumZero
<1>14. SumFunctionOnSet(Held(t), A) = SumFunctionOnSet(size, A) + SumFunctionOnSet(past, A)
  BY <1>3, <1>10, SumOfSums
<1>15. PICK a \in Nat, b \in Nat, c \in Nat :
            a = BytesOf(t, L) /\ b = BytesOf(t, T) /\ c = SumFunctionOnSet(past, A)
  BY <1>3, <1>12
<1>16. SumFunction(past) = c
  BY <1>6, <1>12, <1>13, <1>15
<1>17. recompute(t, u) = [live |-> a, trashed |-> b, versions |-> c]
  BY <1>1, <1>15, <1>16
<1>18. Stored(t, u) = a + b + c
  BY <1>8, <1>9, <1>11, <1>14, <1>15
<1> QED BY <1>17, <1>18 DEF UsageRow, total_bytes

-----------------------------------------------------------------------------
(* Every operation keeps the accounts.                                     *)

(* The counters of a user are at least what is stored, and within quota.   *)
Accounted ==
    /\ usage \in [Users -> UsageRow]
    /\ VersionsOwned(nodes)
    /\ \A u \in Users : /\ Stored(nodes, u) <= total_bytes(usage[u])
                        /\ total_bytes(usage[u]) <= Quota[u]

(* The rows of an instance with finitely many ids are a table.             *)
LEMMA NodesTable ==
    ASSUME IsFiniteSet(Nodes), RowsOK
    PROVE  Table(nodes)
<1>1. DOMAIN nodes \subseteq Nodes /\ nodes \in [DOMAIN nodes -> Row]
  BY DEF RowsOK
<1> QED BY <1>1, FS_Subset DEF Table

(* Sums over the table of a state.                                         *)
LEMMA AccountedSums ==
    ASSUME Table(nodes), Accounted, NEW u \in Users
    PROVE  /\ Stored(nodes, u) \in Nat
           /\ usage[u] \in UsageRow
           /\ total_bytes(usage[u]) \in Nat
           /\ Quota[u] \in Nat
<1>1. OwnedRows(nodes, u) \in SUBSET DOMAIN nodes
  BY DEF OwnedRows
<1>2. Stored(nodes, u) \in Nat
  BY <1>1, TableSums DEF Stored
<1>3. usage[u] \in UsageRow
  BY DEF Accounted
<1> QED BY <1>2, <1>3, Buckets, ConstantsAssumption

(* Rows that keep their owner and versions, counters that keep their sum.  *)
LEMMA SameRows ==
    ASSUME Table(nodes), Accounted, DOMAIN nodes' = DOMAIN nodes,
           \A n \in DOMAIN nodes : nodes'[n].owner = nodes[n].owner
                                   /\ nodes'[n].versions = nodes[n].versions,
           usage' \in [Users -> UsageRow],
           \A u \in Users : total_bytes(usage'[u]) = total_bytes(usage[u])
    PROVE  Accounted'
<1>1. \A u \in Users : Stored(nodes', u) = Stored(nodes, u)
  BY StoredSame
<1>2. VersionsOwned(nodes')
  BY DEF Accounted, VersionsOwned
<1> QED BY <1>1, <1>2 DEF Accounted

(* rename, move, delete and restore.                                       *)
LEMMA KeptRows ==
    ASSUME IInv, Table(nodes), Accounted, NEW u \in Users, NEW n \in DOMAIN nodes,
           \/ \E name \in Names : rename(u, n, name)
           \/ \E d \in DOMAIN nodes : move(u, n, d)
           \/ delete(u, n)
           \/ restore(u, n)
    PROVE  Accounted'
<1>1. /\ DOMAIN nodes' = DOMAIN nodes
      /\ \A m \in DOMAIN nodes : nodes'[m].owner = nodes[m].owner
                                 /\ nodes'[m].versions = nodes[m].versions
  BY RowsKept
<1>2. usage \in [Users -> UsageRow] /\ nodes[n].owner \in Users
  BY RowFields DEF Accounted, Table
<1>3. SUFFICES /\ usage' \in [Users -> UsageRow]
               /\ \A v \in Users : total_bytes(usage'[v]) = total_bytes(usage[v])
  BY <1>1, SameRows
<1>4. ASSUME NEW o \in Users, NEW q \in UsageRow, total_bytes(q) = total_bytes(usage[o]),
             usage' = [usage EXCEPT ![o] = q]
      PROVE  /\ usage' \in [Users -> UsageRow]
             /\ \A v \in Users : total_bytes(usage'[v]) = total_bytes(usage[v])
  BY <1>2, <1>4
<1>5. CASE usage' = usage
  BY <1>2, <1>5
<1>6. CASE delete(u, n)
  <2>1. Moving(nodes, n) \in SUBSET DOMAIN nodes
    BY SubtreeClosed DEF Moving
  <2>2. PICK k \in Nat : k = bytes_trashed(n)
    BY <2>1, TableSums DEF bytes_trashed
  <2>3. PICK o \in Users : o = nodes[n].owner
    BY <1>2
  <2>4. usage[o] \in UsageRow
    BY <1>2
  <2>5. usage' = [usage EXCEPT ![o] = move_to_trash(usage[o], k)]
    BY <1>6, <2>2, <2>3 DEF delete, _move_bytes
  <2>6. /\ move_to_trash(usage[o], k) \in UsageRow
        /\ total_bytes(move_to_trash(usage[o], k)) = total_bytes(usage[o])
    BY <2>4, TrashBuckets
  <2> QED BY <1>4, <2>5, <2>6
<1>7. CASE restore(u, n)
  <2>1. Batch(nodes, n) \in SUBSET DOMAIN nodes
    BY SubtreeClosed DEF Batch
  <2>2. PICK k \in Nat : k = BytesOf(nodes, Batch(nodes, n))
    BY <2>1, TableSums
  <2>3. usage[u] \in UsageRow
    BY <1>2
  <2>4. usage' = [usage EXCEPT ![u] = restore_from_trash(usage[u], k)]
    BY <1>7, <2>2 DEF restore, _move_bytes
  <2>5. /\ restore_from_trash(usage[u], k) \in UsageRow
        /\ total_bytes(restore_from_trash(usage[u], k)) = total_bytes(usage[u])
    BY <2>3, TrashBuckets
  <2> QED BY <1>4, <2>4, <2>5
<1> QED BY <1>5, <1>6, <1>7 DEF rename, move

(* The counters of one user change.                                        *)
LEMMA OneCharged ==
    ASSUME Accounted, VersionsOwned(nodes'), NEW o \in Users, NEW q \in UsageRow,
           usage' = [usage EXCEPT ![o] = q],
           \A u \in Users \ {o} : Stored(nodes', u) = Stored(nodes, u),
           Stored(nodes', o) <= total_bytes(q), total_bytes(q) <= Quota[o]
    PROVE  Accounted'
<1>1. /\ usage' \in [Users -> UsageRow] /\ usage'[o] = q
      /\ \A u \in Users \ {o} : usage'[u] = usage[u]
  BY DEF Accounted
<1>2. ASSUME NEW u \in Users
      PROVE  Stored(nodes', u) <= total_bytes(usage'[u]) /\ total_bytes(usage'[u]) <= Quota[u]
  <2>1. CASE u = o
    BY <1>1, <2>1
  <2>2. CASE u # o
    BY <1>1, <2>2 DEF Accounted
  <2> QED BY <2>1, <2>2
<1> QED BY <1>1, <1>2 DEF Accounted

(* create_folder and the upload of a new file: one row more, charged to    *)
(* its owner.                                                              *)
LEMMA RowCharged ==
    ASSUME Table(nodes), Table(nodes'), Accounted,
           NEW n, n \notin DOMAIN nodes, NEW row \in Row, nodes' = WithRow(nodes, n, row),
           \A i \in 1 .. Len(row.versions) : row.versions[i].owner = row.owner,
           NEW size \in Nat, SeqBytes(row.versions) = size,
           NEW q \in UsageRow, total_bytes(q) = total_bytes(usage[row.owner]) + size,
           total_bytes(q) <= Quota[row.owner],
           usage' = [usage EXCEPT ![row.owner] = q]
    PROVE  Accounted'
<1>1. /\ DOMAIN nodes' = DOMAIN nodes \cup {n} /\ nodes'[n] = row
      /\ \A m \in DOMAIN nodes : nodes'[m] = nodes[m]
  BY DEF WithRow
<1>2. PICK o \in Users : o = row.owner
  BY RowFields
<1>3. \A u \in Users :
         IF u = o THEN Stored(nodes', u) = Stored(nodes, u) + SumFunctionOnSet(Held(nodes'), {n})
         ELSE Stored(nodes', u) = Stored(nodes, u)
  <2>1. DOMAIN nodes' \ DOMAIN nodes = {n} /\ DOMAIN nodes \subseteq DOMAIN nodes'
    BY <1>1
  <2>2. \A m \in DOMAIN nodes' \ DOMAIN nodes : nodes'[m].owner = o
    BY <1>1, <1>2
  <2>3. PICK N : N = DOMAIN nodes' \ DOMAIN nodes
    OBVIOUS
  <2>4. ASSUME NEW u \in Users
        PROVE  /\ (\A m \in N : nodes'[m].owner = u) =>
                      Stored(nodes', u) = Stored(nodes, u) + SumFunctionOnSet(Held(nodes'), N)
               /\ (\A m \in N : nodes'[m].owner # u) => Stored(nodes', u) = Stored(nodes, u)
    BY <1>1, <2>1, <2>3, StoredAdded
  <2>5. ASSUME NEW u \in Users, u = o
        PROVE  Stored(nodes', u) = Stored(nodes, u) + SumFunctionOnSet(Held(nodes'), {n})
    BY <2>1, <2>2, <2>3, <2>4, <2>5
  <2>6. ASSUME NEW u \in Users, u # o
        PROVE  Stored(nodes', u) = Stored(nodes, u)
    BY <2>2, <2>3, <2>4, <2>6
  <2> QED BY <2>5, <2>6
<1>4. SumFunctionOnSet(Held(nodes'), {n}) = size
  <2>1. Held(nodes')[n] = size /\ n \in {n} /\ IsFiniteSet({n}) /\ {n} \ {n} = {}
    BY <1>1, FS_Singleton DEF Held
  <2>2. PICK h : h = Held(nodes')
    OBVIOUS
  <2>3. \A x \in {n} : h[x] \in Nat
    BY <2>1, <2>2
  <2>4. SumFunctionOnSet(h, {n}) = h[n] + SumFunctionOnSet(h, {n} \ {n})
    BY <2>1, <2>3, SumSplit
  <2>5. SumFunctionOnSet(h, {n} \ {n}) = 0
    BY <2>1, SumEmpty
  <2> QED BY <2>1, <2>2, <2>4, <2>5
<1>5. \A u \in Users : Stored(nodes, u) \in Nat /\ total_bytes(usage[u]) \in Nat
  BY AccountedSums
<1>6. /\ Stored(nodes', o) = Stored(nodes, o) + size
      /\ \A u \in Users \ {o} : Stored(nodes', u) = Stored(nodes, u)
  BY <1>3, <1>4, <1>5
<1>7. VersionsOwned(nodes')
  BY <1>1 DEF VersionsOwned, Accounted
<1>8. Stored(nodes', o) <= total_bytes(q)
  BY <1>2, <1>5, <1>6 DEF Accounted
<1> QED BY <1>2, <1>6, <1>7, <1>8, OneCharged

(* Retiring the current version moves its bytes between buckets, and finds *)
(* at least what it moves.                                                 *)
LEMMA RetiredTotal ==
    ASSUME Table(nodes), Accounted, NEW n \in DOMAIN nodes
    PROVE  /\ Retired(nodes, usage, n) \in UsageRow
           /\ total_bytes(Retired(nodes, usage, n)) >= total_bytes(usage[nodes[n].owner])
<1>1. PICK o \in Users : o = nodes[n].owner
  BY RowFields DEF Table
<1>2. PICK q \in UsageRow : q = usage[o]
  BY DEF Accounted
<1>3. PICK k \in Nat : k = size_bytes(nodes, n)
  BY TableSums
<1>4. total_bytes(q) \in Nat
  BY Buckets
<1>5. CASE nodes[n].versions = <<>>
  BY <1>1, <1>2, <1>4, <1>5 DEF Retired
<1>6. CASE nodes[n].versions # <<>>
  <2>1. PICK r \in UsageRow : r = charge_live(q, -k) /\ total_bytes(r) >= total_bytes(q) - k
    BY Buckets
  <2>2. /\ charge_versions(r, k) \in UsageRow /\ total_bytes(r) \in Nat
        /\ total_bytes(charge_versions(r, k)) = total_bytes(r) + k
    BY Buckets
  <2>3. Retired(nodes, usage, n) = charge_versions(r, k)
    BY <1>1, <1>2, <1>3, <1>6, <2>1 DEF Retired
  <2> QED BY <1>1, <1>2, <1>4, <2>1, <2>2, <2>3
<1> QED BY <1>5, <1>6

(* A new version is charged before it is stored, and what is pruned is     *)
(* released no more than once.                                             *)
LEMMA VersionCharged ==
    ASSUME Table(nodes), Table(nodes'), Accounted, NEW n \in DOMAIN nodes, NEW size \in Nat,
           _store_version(n, size)
    PROVE  Accounted'
<1>1. PICK o \in Users : o = nodes[n].owner
  BY RowFields DEF Table
<1>2. nodes[n] \in Row /\ nodes[n].versions \in Seq(Version)
  BY RowFields DEF Table
<1>3. PICK c \in Version : c = [size |-> size, owner |-> o] /\ c.size = size /\ c.owner = o
  <2>1. [size |-> size, owner |-> o] \in Version
    BY DEF Version
  <2> QED BY <2>1
<1>4. PICK old \in Seq(Version) : old = nodes[n].versions
  BY <1>2
<1>5. PICK v \in Seq(Version) : v = Append(old, c)
  <2>1. Append(old, c) \in Seq(Version)
    OBVIOUS
  <2> QED BY <2>1
<1>6. PICK w : w = prune_beyond(v)
  OBVIOUS
<1>7. PICK r \in UsageRow : r = Retired(nodes, usage, n) /\ total_bytes(r) >= total_bytes(usage[o])
  BY <1>1, RetiredTotal
<1>8. PICK q : q = _prune_versions(_charge(r, size), v)
  OBVIOUS
<1>9. /\ ~would_exceed(r, Quota[o], size)
      /\ nodes' = [nodes EXCEPT ![n].versions = w]
      /\ usage' = [usage EXCEPT ![o] = q]
  BY <1>1, <1>3, <1>4, <1>5, <1>6, <1>7, <1>8 DEF _store_version
<1>10. PICK k \in Nat : /\ k = SumFunction([i \in 1 .. Excess(v) |-> v[i].size])
                        /\ SeqBytes(v) = k + SeqBytes(w)
  BY <1>6, SeqBytesPruned
<1>11. SeqBytes(v) = SeqBytes(old) + size /\ SeqBytes(old) \in Nat
  BY <1>3, <1>5, SeqBytesAppend, SeqBytesOf
<1>12. /\ q \in UsageRow /\ total_bytes(r) \in Nat /\ total_bytes(q) \in Nat
       /\ total_bytes(q) >= total_bytes(r) + size - k
       /\ total_bytes(q) <= total_bytes(r) + size
  <2>1. PICK s \in UsageRow : s = _charge(r, size) /\ total_bytes(s) = total_bytes(r) + size
    BY Buckets DEF _charge
  <2>2. q = charge_versions(s, -k)
    BY <1>8, <1>10, <2>1 DEF _prune_versions
  <2>3. total_bytes(r) \in Nat /\ total_bytes(s) \in Nat
    BY Buckets
  <2>4. /\ q \in UsageRow /\ total_bytes(q) >= total_bytes(s) - k /\ total_bytes(q) <= total_bytes(s)
    BY <2>2, Buckets
  <2>5. total_bytes(q) \in Nat
    BY <2>4, Buckets
  <2> QED BY <2>1, <2>3, <2>4, <2>5
<1>13. /\ w \in Seq(Version)
       /\ \A i \in 1 .. Len(w) : \E j \in 1 .. Len(v) : w[i] = v[j]
  <2>1. Len(v) \in Nat /\ Excess(v) \in Nat /\ Excess(v) <= Len(v)
    BY ConstantsAssumption DEF Excess, AtLeastZero
  <2>2. /\ w = SubSeq(v, Excess(v) + 1, Len(v)) /\ Len(w) = Len(v) - Excess(v)
        /\ \A i \in 1 .. Len(w) : w[i] = v[Excess(v) + i]
    BY <1>6, <2>1 DEF prune_beyond
  <2>3. \A i \in (Excess(v) + 1) .. Len(v) : v[i] \in Version
    BY <2>1
  <2>4. \A i \in 1 .. Len(w) : Excess(v) + i \in 1 .. Len(v)
    <3>1. PICK e \in Nat, l \in Nat : e = Excess(v) /\ l = Len(v) /\ e <= l /\ Len(w) = l - e
      BY <2>1, <2>2
    <3>2. \A i \in 1 .. l - e : e + i \in 1 .. l
      BY <3>1
    <3> QED BY <3>1, <3>2
  <2> QED BY <2>1, <2>2, <2>3, <2>4
<1>14. SeqBytes(w) \in Nat
  BY <1>13, SeqBytesOf
<1>15. /\ DOMAIN nodes' = DOMAIN nodes /\ nodes'[n].versions = w /\ nodes'[n].owner = o
       /\ \A m \in DOMAIN nodes \ {n} : nodes'[m] = nodes[m]
  <2>1. [nodes[n] EXCEPT !.versions = w].versions = w /\ [nodes[n] EXCEPT !.versions = w].owner = o
    BY <1>1, <1>2, <1>13, VersionedRow
  <2> QED BY <1>9, <2>1
<1>16. \A u \in Users :
          IF u = o THEN Stored(nodes', u) + SeqBytes(old) = Stored(nodes, u) + SeqBytes(w)
          ELSE Stored(nodes', u) = Stored(nodes, u)
  BY <1>1, <1>4, <1>15, StoredChanged
<1>17. /\ Stored(nodes, o) \in Nat /\ total_bytes(usage[o]) \in Nat /\ Quota[o] \in Nat
       /\ Stored(nodes, o) <= total_bytes(usage[o])
  BY AccountedSums DEF Accounted
<1>18. Stored(nodes', o) \in Nat
  <2>1. OwnedRows(nodes', o) \in SUBSET DOMAIN nodes'
    BY DEF OwnedRows
  <2> QED BY <2>1, TableSums DEF Stored
<1>19. Stored(nodes', o) <= total_bytes(q)
  <2>1. PICK a \in Nat, b \in Nat, x \in Nat, y \in Nat, z \in Nat, d \in Nat, e \in Nat :
             /\ a = Stored(nodes, o) /\ b = Stored(nodes', o) /\ x = total_bytes(usage[o])
             /\ y = total_bytes(r) /\ z = total_bytes(q) /\ d = SeqBytes(old) /\ e = SeqBytes(w)
    BY <1>11, <1>12, <1>14, <1>17, <1>18
  <2>2. b + d = a + e
    BY <1>16, <2>1
  <2>3. a <= x /\ y >= x /\ z >= y + size - k /\ d + size = k + e
    BY <1>7, <1>10, <1>11, <1>12, <1>17, <2>1
  <2>4. b <= z
    BY <2>2, <2>3
  <2> QED BY <2>1, <2>4
<1>20. total_bytes(q) <= Quota[o]
  BY <1>9, <1>12, <1>17 DEF would_exceed
<1>21. VersionsOwned(nodes')
  <2>1. \A i \in 1 .. Len(old) : old[i].owner = o
    BY <1>1, <1>4 DEF Accounted, VersionsOwned
  <2>2. \A i \in 1 .. Len(v) : v[i].owner = o
    BY <1>3, <1>5, <2>1
  <2>3. \A i \in 1 .. Len(w) : w[i].owner = o
    BY <1>13, <2>2
  <2> QED BY <1>15, <2>3 DEF Accounted, VersionsOwned
<1> QED BY <1>9, <1>12, <1>16, <1>19, <1>20, <1>21, OneCharged

(* A purge releases, for each owner, no more than their rows held.         *)
LEMMA PurgeReleased ==
    ASSUME Table(nodes), Accounted, NEW G \in SUBSET DOMAIN nodes, NEW K \in SUBSET G,
           Purged(K, G)
    PROVE  Accounted'
<1>1. /\ nodes' = WithoutRows(nodes, G)
      /\ usage' = [v \in Users |-> purge_from_trash(usage[v], OwnedBytes(nodes, K, v))]
  BY DEF Purged
<1>2. VersionsOwned(nodes')
  BY <1>1 DEF Accounted, VersionsOwned, WithoutRows
<1>3. ASSUME NEW u \in Users
      PROVE  /\ usage'[u] \in UsageRow
             /\ Stored(nodes', u) <= total_bytes(usage'[u])
             /\ total_bytes(usage'[u]) <= Quota[u]
  <2>1. PICK q \in UsageRow : q = usage[u]
    BY DEF Accounted
  <2>2. PICK k \in Nat : k = OwnedBytes(nodes, K, u)
    BY StoredCut
  <2>3. Stored(nodes', u) \in Nat /\ Stored(nodes', u) + k <= Stored(nodes, u)
    BY <1>1, <2>2, StoredCut
  <2>4. usage'[u] = purge_from_trash(q, k)
    BY <1>1, <2>1, <2>2
  <2>5. /\ usage'[u] \in UsageRow
        /\ total_bytes(usage'[u]) >= total_bytes(q) - k /\ total_bytes(usage'[u]) <= total_bytes(q)
    BY <2>4, TrashBuckets
  <2>6. total_bytes(usage'[u]) \in Nat
    BY <2>5, Buckets
  <2>7. /\ Stored(nodes, u) \in Nat /\ total_bytes(q) \in Nat /\ Quota[u] \in Nat
        /\ Stored(nodes, u) <= total_bytes(q) /\ total_bytes(q) <= Quota[u]
    BY <2>1, AccountedSums DEF Accounted
  <2> QED BY <2>3, <2>5, <2>6, <2>7
<1>4. usage' \in [Users -> UsageRow]
  BY <1>1, <1>3
<1> QED BY <1>2, <1>3, <1>4 DEF Accounted

(* The reconciliation writes what is stored.                               *)
LEMMA Reconciled ==
    ASSUME Table(nodes), Accounted, ReconcileQuotasJob
    PROVE  Accounted'
<1>1. nodes' = nodes /\ VersionsOwned(nodes)
  BY DEF ReconcileQuotasJob, Accounted
<1>2. PICK page : usage' = [u \in Users |-> IF u \in page THEN recompute(nodes, u) ELSE usage[u]]
  BY DEF ReconcileQuotasJob
<1>3. ASSUME NEW u \in Users
      PROVE  /\ usage'[u] \in UsageRow
             /\ Stored(nodes, u) <= total_bytes(usage'[u])
             /\ total_bytes(usage'[u]) <= Quota[u]
  <2>1. /\ Stored(nodes, u) \in Nat /\ usage[u] \in UsageRow /\ total_bytes(usage[u]) \in Nat
        /\ Quota[u] \in Nat
        /\ Stored(nodes, u) <= total_bytes(usage[u]) /\ total_bytes(usage[u]) <= Quota[u]
    BY AccountedSums DEF Accounted
  <2>2. recompute(nodes, u) \in UsageRow /\ total_bytes(recompute(nodes, u)) = Stored(nodes, u)
    BY <1>1, RecomputeExact
  <2>3. usage'[u] = recompute(nodes, u) \/ usage'[u] = usage[u]
    BY <1>2
  <2> QED BY <2>1, <2>2, <2>3
<1>4. usage' \in [Users -> UsageRow]
  BY <1>2, <1>3
<1> QED BY <1>1, <1>3, <1>4 DEF Accounted

(* The row a copy makes of x under f.                                      *)
CopyMade(u, s, d, S, f, x) ==
    /\ nodes'[f[x]].owner = u
    /\ nodes'[f[x]].deletedAt = Never
    /\ nodes'[f[x]].parent = IF x = s THEN d ELSE f[nodes[x].parent]
    /\ x # s => nodes[x].parent \in S
    /\ nodes'[f[x]].kind = nodes[x].kind
    /\ nodes'[f[x]].versions = IF nodes[x].kind = "folder" THEN <<>>
                               ELSE <<[size |-> size_bytes(nodes, x), owner |-> u]>>

(* A copy adds one live row of the caller for every row of S it takes, and *)
(* charges their bytes.                                                    *)
CopyOf(u, s, d, S) ==
    /\ usage' = [usage EXCEPT ![u] = charge_live(usage[u], BytesOf(nodes, S))]
    /\ BytesOf(nodes, S) > 0 => ~would_exceed(usage[u], Quota[u], BytesOf(nodes, S))
    /\ DOMAIN nodes \subseteq DOMAIN nodes'
    /\ \A m \in DOMAIN nodes : nodes'[m] = nodes[m]
    /\ \E f \in Bijection(S, DOMAIN nodes' \ DOMAIN nodes) : \A x \in S : CopyMade(u, s, d, S, f, x)

(* That is what copy does.                                                 *)
LEMMA CopyRows ==
    ASSUME IInv, NEW u \in Users, NEW s \in DOMAIN nodes, NEW d \in DOMAIN nodes,
           NEW name \in Names, copy(u, s, d, name)
    PROVE  \E S \in SUBSET DOMAIN nodes : CopyOf(u, s, d, S)
<1> DEFINE Whole(S, f) ==
             LET bytes == BytesOf(nodes, S)
                 source(m) == CHOOSE n \in S : f[n] = m
             IN  /\ bytes > 0 => ~would_exceed(usage[u], Quota[u], bytes)
                 /\ nodes' = [m \in DOMAIN nodes \cup Range(f) |->
                                 IF m \in Range(f) THEN CopyRow(u, s, d, name, f, source(m))
                                 ELSE nodes[m]]
                 /\ usage' = [usage EXCEPT ![u] = charge_live(@, bytes)]
                 /\ objects' = [m \in Nodes |->
                                 IF m \in Range(f) /\ nodes[source(m)].kind = "file"
                                 THEN 1 ELSE objects[m]]
                 /\ UNCHANGED <<grants, clock>>
           Result(S, f) ==
             /\ BytesOf(nodes, S) > 0 => ~would_exceed(usage[u], Quota[u], BytesOf(nodes, S))
             /\ usage' = [usage EXCEPT ![u] = charge_live(usage[u], BytesOf(nodes, S))]
             /\ nodes' = [m \in DOMAIN nodes \cup Range(f) |->
                            IF m \in Range(f)
                            THEN CopyRow(u, s, d, name, f, CHOOSE n \in S : f[n] = m)
                            ELSE nodes[m]]
<1>1. PICK S \in CopiedSets(s) : \E f \in OneOf(Injection(S, Fresh)) : Whole(S, f)
  BY Zenon DEF copy
<1>2. PICK f \in OneOf(Injection(S, Fresh)) : Whole(S, f)
  BY <1>1, Zenon
<1>3. Result(S, f)
  BY <1>2
<1>4. f \in Injection(S, Fresh)
  BY DEF OneOf
<1>5. f \in [S -> Fresh] /\ Range(f) = {f[x] : x \in S} /\ \A x, y \in S : f[x] = f[y] => x = y
  BY <1>4 DEF Injection, IsInjective, Range
<1>6. S \in SUBSET DOMAIN nodes /\ (\A x \in S \ {s} : nodes[x].parent \in S)
  BY SubtreeClosed DEF CopiedSets
<1>7. Range(f) \cap DOMAIN nodes = {}
  BY <1>5 DEF Fresh
<1>8. /\ DOMAIN nodes' = DOMAIN nodes \cup Range(f)
      /\ \A m \in DOMAIN nodes : nodes'[m] = nodes[m]
      /\ \A m \in Range(f) : nodes'[m] = CopyRow(u, s, d, name, f, CHOOSE n \in S : f[n] = m)
  BY <1>3, <1>7
<1>9. DOMAIN nodes' \ DOMAIN nodes = Range(f)
  BY <1>7, <1>8
<1>10. f \in Bijection(S, Range(f))
  <2>1. f \in [S -> Range(f)] /\ \A t \in Range(f) : \E x \in S : f[x] = t
    BY <1>5
  <2> QED BY <1>5, <2>1 DEF Bijection, Injection, Surjection, IsInjective
<1>11. \A x \in S : nodes'[f[x]] = CopyRow(u, s, d, name, f, x)
  <2> SUFFICES ASSUME NEW x \in S PROVE nodes'[f[x]] = CopyRow(u, s, d, name, f, x)
    OBVIOUS
  <2>1. (CHOOSE n \in S : f[n] = f[x]) = x
    BY <1>5
  <2> QED BY <1>5, <1>8, <2>1
<1>12. ASSUME NEW x \in S PROVE CopyMade(u, s, d, S, f, x)
  <2>1. PICK par, nm, vs, kind :
             /\ par = IF x = s THEN d ELSE f[nodes[x].parent]
             /\ nm = IF x = s THEN name ELSE nodes[x].name
             /\ vs = IF nodes[x].kind = "folder" THEN <<>>
                     ELSE <<[size |-> size_bytes(nodes, x), owner |-> u]>>
             /\ kind = nodes[x].kind
    OBVIOUS
  <2>2. nodes'[f[x]] = [kind |-> kind, owner |-> u, parent |-> par, name |-> nm,
                        deletedAt |-> Never, versions |-> vs]
    BY <1>11, <2>1 DEF CopyRow
  <2>3. /\ nodes'[f[x]].owner = u /\ nodes'[f[x]].deletedAt = Never /\ nodes'[f[x]].parent = par
        /\ nodes'[f[x]].kind = kind /\ nodes'[f[x]].versions = vs
    BY <2>2
  <2> QED BY <1>6, <2>1, <2>3 DEF CopyMade
<1>13. \E g \in Bijection(S, DOMAIN nodes' \ DOMAIN nodes) : \A x \in S : CopyMade(u, s, d, S, g, x)
  BY <1>9, <1>10, <1>12
<1>14. CopyOf(u, s, d, S)
  BY <1>3, <1>8, <1>13 DEF CopyOf
<1> QED BY <1>6, <1>14

(* The copies hold no more than the current versions of their sources.     *)
LEMMA CopyCharged ==
    ASSUME IInv, Table(nodes), Table(nodes'), Accounted, NEW u \in Users,
           NEW s \in DOMAIN nodes, NEW d \in DOMAIN nodes, NEW name \in Names,
           copy(u, s, d, name)
    PROVE  Accounted'
<1> DEFINE N == DOMAIN nodes' \ DOMAIN nodes
<1>0. PICK S \in SUBSET DOMAIN nodes : CopyOf(u, s, d, S)
  BY CopyRows
<1>1. /\ usage' = [usage EXCEPT ![u] = charge_live(usage[u], BytesOf(nodes, S))]
      /\ BytesOf(nodes, S) > 0 => ~would_exceed(usage[u], Quota[u], BytesOf(nodes, S))
      /\ DOMAIN nodes \subseteq DOMAIN nodes'
      /\ \A m \in DOMAIN nodes : nodes'[m] = nodes[m]
  BY <1>0 DEF CopyOf
<1>a. PICK f \in Bijection(S, N) : \A x \in S : CopyMade(u, s, d, S, f, x)
  BY <1>0 DEF CopyOf
<1>2. \A x \in S : /\ nodes'[f[x]].owner = u
                   /\ nodes'[f[x]].versions =
                         IF nodes[x].kind = "folder" THEN <<>>
                         ELSE <<[size |-> size_bytes(nodes, x), owner |-> u]>>
  BY <1>a DEF CopyMade
<1>3. \A m \in N : \E x \in S : f[x] = m
  BY DEF Bijection, Surjection
<1>4. \A x \in S : f[x] \in N
  BY DEF Bijection, Injection
<1>5. \A m \in N : nodes'[m].owner = u
  BY <1>2, <1>3
<1>6. /\ IsFiniteSet(S) /\ \A x \in S : size_bytes(nodes, x) \in Nat
      /\ \A m \in DOMAIN nodes' : Held(nodes')[m] = SeqBytes(nodes'[m].versions)
  BY TableSums
<1>7. ASSUME NEW x \in S
      PROVE  Held(nodes')[f[x]] \in Nat /\ Held(nodes')[f[x]] <= size_bytes(nodes, x)
  <2>1. PICK k \in Nat : k = size_bytes(nodes, x)
    BY <1>6
  <2>2. Held(nodes')[f[x]] = SeqBytes(nodes'[f[x]].versions)
    BY <1>4, <1>6
  <2>3. CASE nodes[x].kind = "folder"
    <3>1. nodes'[f[x]].versions = <<>>
      BY <1>2, <2>3
    <3>2. f[x] \in DOMAIN nodes'
      BY <1>4
    <3>3. nodes'[f[x]].versions \in Seq(Version)
      BY <3>2, TableSums
    <3>4. SeqBytes(nodes'[f[x]].versions) = 0
      BY <3>1, <3>3, SeqBytesOf
    <3> QED BY <2>1, <2>2, <3>4
  <2>4. CASE nodes[x].kind # "folder"
    <3>1. PICK c : c = [size |-> k, owner |-> u]
      OBVIOUS
    <3>2. c \in Version /\ c.size = k
      BY <3>1 DEF Version
    <3>3. nodes'[f[x]].versions = <<c>>
      BY <1>2, <2>1, <2>4, <3>1
    <3>4. SeqBytes(<<c>>) = k
      BY <3>2, SeqBytesOne
    <3> QED BY <2>1, <2>2, <3>3, <3>4
  <2> QED BY <2>3, <2>4
<1> DEFINE g == [x \in S |-> Held(nodes')[f[x]]]
           k == [x \in S |-> size_bytes(nodes, x)]
<1>8. /\ \A x \in S : g[x] \in Nat /\ k[x] \in Nat /\ g[x] <= k[x]
      /\ \A x \in S : Held(nodes')[f[x]] = g[x]
  BY <1>6, <1>7
<1>9. BytesOf(nodes, S) = SumFunctionOnSet(k, S)
  BY DEF BytesOf, SumFunction
<1> HIDE DEF N, g, k
<1>10. SumFunctionOnSet(Held(nodes'), N) = SumFunctionOnSet(g, S)
  BY <1>6, <1>8, SumReindexed
<1>11. SumFunctionOnSet(g, S) <= SumFunctionOnSet(k, S)
  BY <1>6, <1>8, SumMonotonic
<1>12. PICK b \in Nat : b = BytesOf(nodes, S)
  BY TableSums
<1>13. SumFunctionOnSet(Held(nodes'), N) \in Nat
  <2>1. N \in SUBSET DOMAIN nodes'
    BY DEF N
  <2> QED BY <2>1, TableSums
<1>14. /\ Stored(nodes', u) = Stored(nodes, u) + SumFunctionOnSet(Held(nodes'), N)
       /\ \A v \in Users \ {u} : Stored(nodes', v) = Stored(nodes, v)
  <2>1. ASSUME NEW v
        PROVE  /\ (\A m \in N : nodes'[m].owner = v) =>
                      Stored(nodes', v) = Stored(nodes, v) + SumFunctionOnSet(Held(nodes'), N)
               /\ (\A m \in N : nodes'[m].owner # v) => Stored(nodes', v) = Stored(nodes, v)
    <3>1. PICK t, t2 : t = nodes /\ t2 = nodes'
      OBVIOUS
    <3>2. /\ Table(t) /\ Table(t2) /\ DOMAIN t \subseteq DOMAIN t2 /\ N = DOMAIN t2 \ DOMAIN t
          /\ \A n \in DOMAIN t : t2[n] = t[n]
      BY <1>1, <3>1 DEF N
    <3>3. ASSUME \A m \in DOMAIN t2 \ DOMAIN t : t2[m].owner = v
          PROVE  Stored(t2, v) = Stored(t, v) + SumFunctionOnSet(Held(t2), DOMAIN t2 \ DOMAIN t)
      BY <3>2, <3>3, StoredAdded
    <3>4. ASSUME \A m \in DOMAIN t2 \ DOMAIN t : t2[m].owner # v
          PROVE  Stored(t2, v) = Stored(t, v)
      BY <3>2, <3>4, StoredElsewhere
    <3> QED BY <3>1, <3>2, <3>3, <3>4
  <2>2. \A m \in N : nodes'[m].owner = u
    BY <1>5
  <2>3. Stored(nodes', u) = Stored(nodes, u) + SumFunctionOnSet(Held(nodes'), N)
    BY <2>1, <2>2
  <2>4. ASSUME NEW v \in Users \ {u} PROVE Stored(nodes', v) = Stored(nodes, v)
    <3>1. \A m \in N : nodes'[m].owner # v
      BY <2>2
    <3> QED BY <2>1, <3>1
  <2> QED BY <2>3, <2>4
<1>15. /\ Stored(nodes, u) \in Nat /\ usage[u] \in UsageRow /\ total_bytes(usage[u]) \in Nat
       /\ Quota[u] \in Nat /\ Stored(nodes, u) <= total_bytes(usage[u])
       /\ total_bytes(usage[u]) <= Quota[u]
  BY AccountedSums DEF Accounted
<1>16. PICK q \in UsageRow : q = charge_live(usage[u], b) /\ total_bytes(q) = total_bytes(usage[u]) + b
  BY <1>15, Buckets
<1>17. Stored(nodes', u) <= total_bytes(q)
  BY <1>9, <1>10, <1>11, <1>12, <1>13, <1>14, <1>15, <1>16
<1>18. total_bytes(q) <= Quota[u]
  <2>1. CASE b = 0
    BY <1>15, <1>16, <2>1
  <2>2. CASE b > 0
    BY <1>1, <1>12, <1>15, <1>16, <2>2 DEF would_exceed
  <2> QED BY <2>1, <2>2
<1>19. usage' = [usage EXCEPT ![u] = q]
  BY <1>1, <1>12, <1>16
<1>20. VersionsOwned(nodes')
  <2>1. ASSUME NEW m \in N, NEW i \in 1 .. Len(nodes'[m].versions)
        PROVE  nodes'[m].versions[i].owner = nodes'[m].owner
    <3>1. PICK x \in S : f[x] = m
      BY <1>3
    <3>2. nodes'[m].versions = IF nodes[x].kind = "folder" THEN <<>>
                               ELSE <<[size |-> size_bytes(nodes, x), owner |-> u]>>
      BY <1>2, <3>1
    <3>3. CASE nodes[x].kind = "folder"
      <4>1. nodes'[m].versions = <<>>
        BY <3>2, <3>3
      <4> QED BY <4>1
    <3>4. CASE nodes[x].kind # "folder"
      <4>1. PICK c : c = [size |-> size_bytes(nodes, x), owner |-> u]
        OBVIOUS
      <4>2. nodes'[m].versions = <<c>> /\ c.owner = u
        BY <3>2, <3>4, <4>1
      <4> QED BY <1>5, <4>2
    <3> QED BY <3>3, <3>4
  <2>2. \A m \in DOMAIN nodes' : m \in N \/ m \in DOMAIN nodes
    BY DEF N
  <2> QED BY <1>1, <2>1, <2>2 DEF Accounted, VersionsOwned
<1> QED BY <1>14, <1>17, <1>18, <1>19, <1>20, OneCharged

(* No file changes hands.                                                  *)
NoTransfer == ~\E u \in Users : shares_router(u)

(* Every step but a transfer keeps the accounts.                           *)
LEMMA AccountStep ==
    ASSUME IInv, Table(nodes), Table(nodes'), Accounted, [Next]_vars, [NoTransfer]_vars
    PROVE  Accounted'
<1>0. RowsOK /\ DOMAIN nodes \subseteq Nodes /\ usage \in [Users -> UsageRow]
  BY DEF IInv, RowsOK, Accounted
<1>1. ASSUME nodes' = nodes, usage' = usage
      PROVE  Accounted'
  BY <1>1 DEF Accounted
<1>2. ASSUME NEW u \in Users, NEW p \in DOMAIN nodes, NEW n \in OneOf(Fresh),
             NEW name \in Names, create_folder(u, p, n, name)
      PROVE  Accounted'
  <2>1. PICK o \in Users : o = nodes[p].owner
    BY RowFields DEF Table
  <2>2. n \notin DOMAIN nodes
    BY DEF OneOf, Fresh
  <2>3. PICK row : row = Folder(o, p, name)
    OBVIOUS
  <2>4. row.versions = <<>> /\ row.owner = o
    BY <2>3 DEF Folder
  <2>5. nodes' = WithRow(nodes, n, row) /\ usage' = usage
    BY <1>2, <2>1, <2>3 DEF create_folder
  <2>6. row \in Row
    BY <2>5 DEF Table, WithRow
  <2>7. SeqBytes(row.versions) = 0
    BY <2>4, <2>6, RowFields, SeqBytesOf
  <2>8. PICK q \in UsageRow, k \in Nat : q = usage[o] /\ k = 0
    BY <1>0
  <2>9. /\ usage' = [usage EXCEPT ![row.owner] = q] /\ total_bytes(q) <= Quota[row.owner]
        /\ total_bytes(q) = total_bytes(usage[row.owner]) + k
    BY <1>0, <2>4, <2>5, <2>8, AccountedSums DEF Accounted
  <2>10. \A i \in 1 .. Len(row.versions) : row.versions[i].owner = row.owner
    BY <2>4
  <2> QED BY <2>2, <2>5, <2>6, <2>7, <2>8, <2>9, <2>10, RowCharged
<1>3. ASSUME NEW u \in Users, NEW p \in DOMAIN nodes, NEW n \in OneOf(Fresh),
             NEW name \in Names, NEW size \in Sizes, upload_new(u, p, n, name, size)
      PROVE  Accounted'
  <2>1. PICK o \in Users : o = nodes[p].owner
    BY RowFields DEF Table
  <2>2. n \notin DOMAIN nodes /\ size \in Nat
    BY ConstantsAssumption DEF OneOf, Fresh
  <2>3. PICK row, c : row = File(o, p, name, size) /\ c = [size |-> size, owner |-> o]
    OBVIOUS
  <2>4. row.versions = <<c>> /\ row.owner = o
    BY <2>3 DEF File
  <2>5. nodes' = WithRow(nodes, n, row) /\ usage' = [usage EXCEPT ![o] = charge_live(usage[o], size)]
    BY <1>3, <2>1, <2>3 DEF upload_new, _charge
  <2>6. row \in Row
    BY <2>5 DEF Table, WithRow
  <2>7. c \in Version /\ c.size = size /\ c.owner = o
    BY <2>2, <2>3 DEF Version
  <2>8. SeqBytes(row.versions) = size
    BY <2>4, <2>7, SeqBytesOne
  <2>9. usage[o] \in UsageRow /\ total_bytes(usage[o]) \in Nat /\ Quota[o] \in Nat
    BY AccountedSums
  <2>10. PICK q \in UsageRow : q = charge_live(usage[o], size) /\ total_bytes(q) = total_bytes(usage[o]) + size
    BY <2>2, <2>9, Buckets
  <2>11. total_bytes(q) <= Quota[o]
    BY <1>3, <2>1, <2>2, <2>9, <2>10 DEF upload_new, would_exceed
  <2>12. \A i \in 1 .. Len(row.versions) : row.versions[i].owner = row.owner
    BY <2>4, <2>7
  <2> QED BY <2>2, <2>4, <2>5, <2>6, <2>8, <2>10, <2>11, <2>12, RowCharged
<1>4. ASSUME NEW u \in Users, NEW n \in DOMAIN nodes,
             \/ \E name \in Names : rename(u, n, name)
             \/ \E d \in DOMAIN nodes : move(u, n, d)
             \/ delete(u, n)
             \/ restore(u, n)
      PROVE  Accounted'
  BY <1>4, KeptRows
<1>5. ASSUME NEW u \in Users, NEW n \in DOMAIN nodes, NEW size \in Sizes, upload_version(u, n, size)
      PROVE  Accounted'
  BY <1>5, VersionCharged, ConstantsAssumption DEF upload_version
<1>6. ASSUME NEW u \in Users, NEW n \in DOMAIN nodes, NEW i \in 1 .. Retention, restore_version(u, n, i)
      PROVE  Accounted'
  <2>1. nodes[n].versions \in Seq(Version) /\ i \in 1 .. Len(nodes[n].versions)
    BY <1>6, TableSums DEF restore_version
  <2>2. nodes[n].versions[i].size \in Nat
    BY <2>1, SeqBytesOf
  <2> QED BY <1>6, <2>2, VersionCharged DEF restore_version
<1>7. ASSUME NEW u \in Users, NEW n \in DOMAIN nodes,
             \/ \E m \in OneOf(Fresh), name \in Names, size \in Sizes :
                    upload_new_refused(u, n, m, name, size)
             \/ \E size \in Sizes : upload_version_refused(u, n, size)
             \/ \E d \in DOMAIN nodes, name \in Names : copy_refused(u, n, d, name)
      PROVE  Accounted'
  BY <1>1, <1>7 DEF upload_new_refused, upload_version_refused, copy_refused, StrayObject
<1>8. ASSUME NEW u \in Users, NEW n \in DOMAIN nodes, NEW d \in DOMAIN nodes, NEW name \in Names,
             copy(u, n, d, name)
      PROVE  Accounted'
  BY <1>8, CopyCharged
<1>9. ASSUME NEW u \in Users, NEW n \in DOMAIN nodes, purge(u, n)
      PROVE  Accounted'
  <2>1. PICK G : G = Subtree(nodes, n)
    OBVIOUS
  <2>2. Purged(G, G)
    BY <1>9, <2>1 DEF purge, purge_subtree, _destroy_entry
  <2>3. G \in SUBSET DOMAIN nodes /\ G \in SUBSET G
    BY <2>1, SubtreeClosed
  <2> QED BY <2>2, <2>3, PurgeReleased
<1>10. ASSUME NEW u \in Users, empty_trash(u)
       PROVE  Accounted'
  <2>1. PICK G : G = UNION {_destroy_entry(e) : e \in _spend_purge_budget(u)}
    OBVIOUS
  <2>2. Purged(G, G)
    BY <1>10, <2>1 DEF empty_trash, purge_subtree
  <2>3. G \in SUBSET DOMAIN nodes /\ G \in SUBSET G
    BY <2>1, SubtreeClosed DEF _destroy_entry
  <2> QED BY <2>2, <2>3, PurgeReleased
<1>11. ASSUME NEW cutoff \in 1 .. clock + 1, PurgeJob(cutoff)
       PROVE  Accounted'
  <2>1. PICK E \in Expired(cutoff) : \E K \in Reached(E) :
               Purged(K, UNION {Subtree(nodes, n) : n \in K})
    BY <1>11 DEF PurgeJob
  <2>2. PICK K \in Reached(E) : Purged(K, UNION {Subtree(nodes, n) : n \in K})
    BY <2>1
  <2>3. PICK G : G = UNION {Subtree(nodes, n) : n \in K}
    OBVIOUS
  <2>4. K \subseteq DOMAIN nodes
    BY DEF Expired, Reached
  <2>5. \A n \in K : n \in Subtree(nodes, n)
    BY <2>4, SubtreeSelf
  <2>6. K \in SUBSET G /\ G \in SUBSET DOMAIN nodes
    BY <2>3, <2>5, SubtreeClosed
  <2>7. Purged(K, G)
    BY <2>2, <2>3
  <2> QED BY <2>6, <2>7, PurgeReleased
<1>12. CASE ReconcileQuotasJob
  BY <1>12, Reconciled
<1>13. CASE OrphanReaper
  BY <1>1, <1>13 DEF OrphanReaper
<1>14. CASE UNCHANGED vars
  BY <1>1, <1>14 DEF vars
<1> QED
  BY <1>2, <1>3, <1>4, <1>5, <1>6, <1>7, <1>8, <1>9, <1>10, <1>11, <1>12, <1>13, <1>14
     DEF NoTransfer, Next, nodes_router, content_router, trash_router

(* Nothing is stored at first.                                             *)
LEMMA InitAccounted ==
    ASSUME IsFiniteSet(Nodes), Init
    PROVE  Accounted
<1>1. DOMAIN nodes = Roots /\ \A n \in Roots : nodes[n].versions = <<>>
  BY DEF Init, Folder
<1>2. Table(nodes)
  BY InitIInv, NodesTable DEF IInv
<1>3. ASSUME NEW u \in Users PROVE Stored(nodes, u) = 0
  <2>1. OwnedRows(nodes, u) \in SUBSET DOMAIN nodes
    BY DEF OwnedRows
  <2>2. IsFiniteSet(OwnedRows(nodes, u))
    BY <1>2, <2>1, TableSums
  <2>3. \A n \in OwnedRows(nodes, u) : Held(nodes)[n] = 0
    BY <1>1, <1>2, <2>1, TableSums, SeqBytesOf
  <2> QED BY <2>2, <2>3, SumZero DEF Stored
<1>4. NoUsage \in UsageRow /\ total_bytes(NoUsage) = 0
  BY DEF NoUsage, UsageRow, total_bytes
<1>5. \A u \in Users : usage[u] = NoUsage /\ usage \in [Users -> UsageRow] /\ Quota[u] \in Nat
  BY <1>4, ConstantsAssumption DEF Init
<1>6. usage \in [Users -> UsageRow]
  BY <1>4 DEF Init
<1>7. VersionsOwned(nodes)
  BY <1>1 DEF VersionsOwned
<1> QED BY <1>3, <1>4, <1>5, <1>6, <1>7 DEF Accounted

(* The accounts in every state.                                            *)
LEMMA AlwaysAccounted ==
    ASSUME IsFiniteSet(Nodes)
    PROVE  Spec /\ [][NoTransfer]_vars => [](IInv /\ Accounted)
<1>1. Init => IInv /\ Accounted
  BY InitIInv, InitAccounted
<1>2. (IInv /\ Accounted) /\ [Next]_vars /\ [NoTransfer]_vars => (IInv /\ Accounted)'
  <2> SUFFICES ASSUME IInv, Accounted, [Next]_vars, [NoTransfer]_vars PROVE IInv' /\ Accounted'
    OBVIOUS
  <2>1. IInv'
    BY NextStep
  <2>2. Table(nodes)
    BY NodesTable DEF IInv
  <2>3. Table(nodes')
    <3>1. DOMAIN nodes' \subseteq Nodes /\ nodes' \in [DOMAIN nodes' -> Row]
      BY <2>1 DEF IInv, RowsOK
    <3> QED BY <3>1, FS_Subset DEF Table
  <2> QED BY <2>1, <2>2, <2>3, AccountStep
<1> QED BY <1>1, <1>2, PTL DEF Spec

(* Nobody stores more than their quota while no file changes hands: the    *)
(* counters may run ahead of what is stored, never behind it, through      *)
(* every upload, copy, prune, deletion, restore, purge, cascade of the     *)
(* purge job and reconciliation, whoever makes them.                       *)
THEOREM QuotaHolds ==
    ASSUME IsFiniteSet(Nodes)
    PROVE  Spec /\ [][NoTransfer]_vars => []StoredWithinQuota
<1>1. IInv /\ Accounted => StoredWithinQuota
  <2> SUFFICES ASSUME IInv, Accounted, NEW u \in Users PROVE StoredBytes(u) <= Quota[u]
    BY DEF StoredWithinQuota
  <2>1. Table(nodes)
    BY NodesTable DEF IInv
  <2>2. StoredBytes(u) = Stored(nodes, u)
    BY <2>1, StoredIs DEF StoredBytes
  <2>3. /\ Stored(nodes, u) \in Nat /\ total_bytes(usage[u]) \in Nat /\ Quota[u] \in Nat
        /\ Stored(nodes, u) <= total_bytes(usage[u]) /\ total_bytes(usage[u]) <= Quota[u]
    BY <2>1, AccountedSums DEF Accounted
  <2> QED BY <2>2, <2>3
<1> QED BY AlwaysAccounted, <1>1, PTL

-----------------------------------------------------------------------------
(* The counters against the rows: live and trashed bytes.                  *)

(* The live and the trashed rows of u, and the bytes of their current      *)
(* versions.                                                               *)
Size(t) == [n \in DOMAIN t |-> size_bytes(t, n)]

LiveOf(t, u) == {n \in DOMAIN t : t[n].deletedAt = Never /\ t[n].owner = u}

TrashOf(t, u) == {n \in DOMAIN t : t[n].deletedAt # Never /\ t[n].owner = u}

LiveBytes(t, u) == SumFunctionOnSet(Size(t), LiveOf(t, u))

TrashBytes(t, u) == SumFunctionOnSet(Size(t), TrashOf(t, u))

(* They are sums of naturals over finite sets.                             *)
LEMMA SizeSums ==
    ASSUME NEW t, Table(t)
    PROVE  /\ \A n \in DOMAIN t : Size(t)[n] = size_bytes(t, n) /\ Size(t)[n] \in Nat
           /\ \A S \in SUBSET DOMAIN t : /\ IsFiniteSet(S)
                                         /\ SumFunctionOnSet(Size(t), S) \in Nat
                                         /\ BytesOf(t, S) = SumFunctionOnSet(Size(t), S)
<1>1. \A n \in DOMAIN t : Size(t)[n] = size_bytes(t, n) /\ Size(t)[n] \in Nat
  BY TableSums DEF Size
<1>2. ASSUME NEW S \in SUBSET DOMAIN t
      PROVE  /\ IsFiniteSet(S) /\ SumFunctionOnSet(Size(t), S) \in Nat
             /\ BytesOf(t, S) = SumFunctionOnSet(Size(t), S)
  <2> DEFINE g == [n \in S |-> size_bytes(t, n)]
  <2>1. IsFiniteSet(S)
    BY TableSums
  <2>2. \A n \in S : g[n] = Size(t)[n] /\ Size(t)[n] \in Nat
    BY <1>1
  <2>3. BytesOf(t, S) = SumFunctionOnSet(g, S)
    BY DEF BytesOf, SumFunction
  <2> HIDE DEF g
  <2> QED BY <2>1, <2>2, <2>3, SumEqual, SumNat
<1> QED BY <1>1, <1>2

(* What a recomputation finds.                                             *)
LEMMA RecomputeIs ==
    ASSUME NEW t, Table(t), NEW u
    PROVE  /\ recompute(t, u) \in UsageRow
           /\ recompute(t, u).live = LiveBytes(t, u)
           /\ recompute(t, u).trashed = TrashBytes(t, u)
           /\ LiveBytes(t, u) \in Nat
           /\ TrashBytes(t, u) \in Nat
<1> DEFINE L == {n \in {m \in DOMAIN t : Live(t, m)} : t[n].owner = u}
           T == {n \in {m \in DOMAIN t : Trashed(t, m)} : t[n].owner = u}
           history(n) == {i \in 1 .. Len(t[n].versions) - 1 : t[n].versions[i].owner = u}
           held(n) == SumFunction([i \in history(n) |-> t[n].versions[i].size])
           past == [n \in DOMAIN t |-> held(n)]
<1>1. recompute(t, u) = [live |-> BytesOf(t, L), trashed |-> BytesOf(t, T),
                         versions |-> SumFunction(past)]
  BY DEF recompute, OwnedBytes
<1>2. L = LiveOf(t, u) /\ T = TrashOf(t, u) /\ L \in SUBSET DOMAIN t /\ T \in SUBSET DOMAIN t
  BY DEF Live, Trashed, LiveOf, TrashOf
<1>3. PICK a \in Nat, b \in Nat : /\ a = BytesOf(t, L) /\ a = LiveBytes(t, u)
                                  /\ b = BytesOf(t, T) /\ b = TrashBytes(t, u)
  <2>1. BytesOf(t, L) = SumFunctionOnSet(Size(t), L) /\ BytesOf(t, T) = SumFunctionOnSet(Size(t), T)
        /\ BytesOf(t, L) \in Nat /\ BytesOf(t, T) \in Nat
    BY <1>2, SizeSums
  <2> QED BY <1>2, <2>1 DEF LiveBytes, TrashBytes
<1>4. \A n \in DOMAIN t : past[n] \in Nat
  <2> SUFFICES ASSUME NEW n \in DOMAIN t PROVE past[n] \in Nat
    OBVIOUS
  <2>1. PICK v \in Seq(Version) : v = t[n].versions
    BY TableSums
  <2>2. past[n] = Retained(v, u)
    BY <2>1 DEF Retained
  <2> HIDE DEF past
  <2> QED BY <2>2, SeqBytesRetained
<1>5. SumFunction(past) = SumFunctionOnSet(past, DOMAIN t) /\ IsFiniteSet(DOMAIN t)
  BY DEF SumFunction, Table
<1> HIDE DEF past, L, T
<1>6. PICK c \in Nat : c = SumFunction(past)
  BY <1>4, <1>5, SumNat
<1>7. recompute(t, u) = [live |-> a, trashed |-> b, versions |-> c]
  BY <1>1, <1>3, <1>6
<1> QED BY <1>3, <1>7 DEF UsageRow

(* Rows that stay what they were.                                          *)
LEMMA BytesSame ==
    ASSUME NEW t, NEW t2, Table(t), DOMAIN t2 = DOMAIN t,
           \A n \in DOMAIN t : /\ t2[n].owner = t[n].owner
                               /\ t2[n].versions = t[n].versions
                               /\ t2[n].deletedAt = t[n].deletedAt,
           NEW u
    PROVE  LiveBytes(t2, u) = LiveBytes(t, u) /\ TrashBytes(t2, u) = TrashBytes(t, u)
<1>1. LiveOf(t2, u) = LiveOf(t, u) /\ TrashOf(t2, u) = TrashOf(t, u)
  BY DEF LiveOf, TrashOf
<1>2. Size(t2) = Size(t)
  BY DEF Size, size_bytes
<1> QED BY <1>1, <1>2 DEF LiveBytes, TrashBytes

(* From t to t2 the live rows M go to the trash, and nothing else.         *)
ToTrash(t, t2, M) ==
    /\ DOMAIN t2 = DOMAIN t
    /\ M \in SUBSET DOMAIN t
    /\ \A n \in DOMAIN t : t2[n].owner = t[n].owner /\ t2[n].versions = t[n].versions
    /\ \A n \in M : t[n].deletedAt = Never /\ t2[n].deletedAt # Never
    /\ \A n \in DOMAIN t \ M : t2[n].deletedAt = t[n].deletedAt

(* Their bytes change sides for their owner, and for nobody else.          *)
LEMMA BytesMoved ==
    ASSUME NEW t, NEW t2, Table(t), NEW M, ToTrash(t, t2, M), NEW u
    PROVE  /\ BytesOf(t2, M) = BytesOf(t, M)
           /\ (\A n \in M : t[n].owner = u) =>
                 /\ LiveBytes(t2, u) + BytesOf(t, M) = LiveBytes(t, u)
                 /\ TrashBytes(t2, u) = TrashBytes(t, u) + BytesOf(t, M)
           /\ (\A n \in M : t[n].owner # u) =>
                 /\ LiveBytes(t2, u) = LiveBytes(t, u)
                 /\ TrashBytes(t2, u) = TrashBytes(t, u)
<1>0. /\ DOMAIN t2 = DOMAIN t
      /\ M \in SUBSET DOMAIN t
      /\ \A n \in DOMAIN t : t2[n].owner = t[n].owner /\ t2[n].versions = t[n].versions
      /\ \A n \in M : t[n].deletedAt = Never /\ t2[n].deletedAt # Never
      /\ \A n \in DOMAIN t \ M : t2[n].deletedAt = t[n].deletedAt
  BY DEF ToTrash
<1>1. Size(t2) = Size(t)
  BY <1>0 DEF Size, size_bytes
<1>2. BytesOf(t2, M) = BytesOf(t, M)
  <2>1. [n \in M |-> size_bytes(t2, n)] = [n \in M |-> size_bytes(t, n)]
    BY <1>0 DEF size_bytes
  <2> QED BY <2>1 DEF BytesOf
<1>3. ASSUME \A n \in M : t[n].owner = u
      PROVE  /\ LiveBytes(t2, u) + BytesOf(t, M) = LiveBytes(t, u)
             /\ TrashBytes(t2, u) = TrashBytes(t, u) + BytesOf(t, M)
  <2>1. PICK L, T, g : L = LiveOf(t, u) /\ T = TrashOf(t, u) /\ g = Size(t)
    OBVIOUS
  <2>2. LiveOf(t2, u) = L \ M /\ TrashOf(t2, u) = T \cup M /\ M \in SUBSET L /\ T \cap M = {}
    BY <1>0, <1>3, <2>1 DEF LiveOf, TrashOf
  <2>3. L \in SUBSET DOMAIN t /\ T \in SUBSET DOMAIN t
    BY <2>1 DEF LiveOf, TrashOf
  <2>4. /\ IsFiniteSet(L) /\ IsFiniteSet(T) /\ IsFiniteSet(M)
        /\ \A n \in L : g[n] \in Nat
        /\ \A n \in T \cup M : g[n] \in Nat
        /\ BytesOf(t, M) = SumFunctionOnSet(g, M)
    BY <1>0, <2>1, <2>3, SizeSums
  <2>5. /\ SumFunctionOnSet(g, L) = SumFunctionOnSet(g, M) + SumFunctionOnSet(g, L \ M)
        /\ SumFunctionOnSet(g, M) \in Nat /\ SumFunctionOnSet(g, L \ M) \in Nat
    BY <2>2, <2>4, SumSubset
  <2>6. SumFunctionOnSet(g, T \cup M) = SumFunctionOnSet(g, T) + SumFunctionOnSet(g, M)
    BY <2>2, <2>4, SumUnion
  <2>7. /\ LiveBytes(t, u) = SumFunctionOnSet(g, L) /\ LiveBytes(t2, u) = SumFunctionOnSet(g, L \ M)
        /\ TrashBytes(t, u) = SumFunctionOnSet(g, T) /\ TrashBytes(t2, u) = SumFunctionOnSet(g, T \cup M)
    BY <1>1, <2>1, <2>2 DEF LiveBytes, TrashBytes
  <2> QED BY <2>4, <2>5, <2>6, <2>7
<1>4. ASSUME \A n \in M : t[n].owner # u
      PROVE  LiveBytes(t2, u) = LiveBytes(t, u) /\ TrashBytes(t2, u) = TrashBytes(t, u)
  <2>1. LiveOf(t2, u) = LiveOf(t, u) /\ TrashOf(t2, u) = TrashOf(t, u)
    BY <1>0, <1>4 DEF LiveOf, TrashOf
  <2> QED BY <1>1, <2>1 DEF LiveBytes, TrashBytes
<1> QED BY <1>2, <1>3, <1>4

(* Live rows of u, or of others, are added.                                *)
LEMMA BytesAdded ==
    ASSUME NEW t, NEW t2, Table(t), Table(t2), DOMAIN t \subseteq DOMAIN t2,
           \A n \in DOMAIN t : t2[n] = t[n],
           \A n \in DOMAIN t2 \ DOMAIN t : t2[n].deletedAt = Never, NEW u
    PROVE  /\ TrashBytes(t2, u) = TrashBytes(t, u)
           /\ (\A n \in DOMAIN t2 \ DOMAIN t : t2[n].owner = u) =>
                LiveBytes(t2, u) = LiveBytes(t, u) + BytesOf(t2, DOMAIN t2 \ DOMAIN t)
           /\ (\A n \in DOMAIN t2 \ DOMAIN t : t2[n].owner # u) =>
                LiveBytes(t2, u) = LiveBytes(t, u)
<1>1. PICK L, T, N, g, h : /\ L = LiveOf(t, u) /\ T = TrashOf(t, u) /\ g = Size(t) /\ h = Size(t2)
                           /\ N = DOMAIN t2 \ DOMAIN t
  OBVIOUS
<1>2. /\ L \in SUBSET DOMAIN t /\ T \in SUBSET DOMAIN t /\ N \in SUBSET DOMAIN t2 /\ L \cap N = {}
      /\ L \in SUBSET DOMAIN t2
  BY <1>1 DEF LiveOf, TrashOf
<1>3. TrashOf(t2, u) = T
  BY <1>1 DEF TrashOf
<1>4. /\ IsFiniteSet(L) /\ IsFiniteSet(T) /\ IsFiniteSet(N) /\ \A n \in L \cup N : h[n] \in Nat
      /\ BytesOf(t2, N) = SumFunctionOnSet(h, N)
  BY <1>1, <1>2, SizeSums
<1>5. \A n \in DOMAIN t : g[n] = h[n]
  BY <1>1 DEF Size, size_bytes
<1>6. SumFunctionOnSet(g, T) = SumFunctionOnSet(h, T) /\ SumFunctionOnSet(g, L) = SumFunctionOnSet(h, L)
  <2>1. (\A n \in T : g[n] = h[n]) /\ (\A n \in L : g[n] = h[n])
    BY <1>2, <1>5
  <2> QED BY <1>4, <2>1, SumEqual
<1>7. /\ LiveBytes(t, u) = SumFunctionOnSet(g, L) /\ LiveBytes(t2, u) = SumFunctionOnSet(h, LiveOf(t2, u))
      /\ TrashBytes(t, u) = SumFunctionOnSet(g, T) /\ TrashBytes(t2, u) = SumFunctionOnSet(h, T)
  BY <1>1, <1>3 DEF LiveBytes, TrashBytes
<1>8. ASSUME \A n \in N : t2[n].owner = u
      PROVE  LiveBytes(t2, u) = LiveBytes(t, u) + BytesOf(t2, N)
  <2>1. LiveOf(t2, u) = L \cup N
    BY <1>1, <1>8 DEF LiveOf
  <2>2. SumFunctionOnSet(h, L \cup N) = SumFunctionOnSet(h, L) + SumFunctionOnSet(h, N)
    BY <1>2, <1>4, SumUnion
  <2> QED BY <1>4, <1>6, <1>7, <2>1, <2>2
<1>9. ASSUME \A n \in N : t2[n].owner # u
      PROVE  LiveBytes(t2, u) = LiveBytes(t, u)
  <2>1. LiveOf(t2, u) = L
    BY <1>1, <1>9 DEF LiveOf
  <2> QED BY <1>6, <1>7, <2>1
<1> QED BY <1>1, <1>6, <1>7, <1>8, <1>9

(* A live row gets other versions.                                         *)
LEMMA BytesChanged ==
    ASSUME NEW t, NEW t2, Table(t), Table(t2), DOMAIN t2 = DOMAIN t, NEW m \in DOMAIN t,
           \A n \in DOMAIN t \ {m} : t2[n] = t[n], t2[m].owner = t[m].owner,
           t[m].deletedAt = Never, t2[m].deletedAt = Never, NEW u
    PROVE  /\ TrashBytes(t2, u) = TrashBytes(t, u)
           /\ u = t[m].owner =>
                /\ LiveBytes(t2, u) + size_bytes(t, m) = LiveBytes(t, u) + size_bytes(t2, m)
                /\ size_bytes(t, m) <= LiveBytes(t, u)
           /\ u # t[m].owner => LiveBytes(t2, u) = LiveBytes(t, u)
<1>1. PICK L, T, g, h : L = LiveOf(t, u) /\ T = TrashOf(t, u) /\ g = Size(t) /\ h = Size(t2)
  OBVIOUS
<1>2. LiveOf(t2, u) = L /\ TrashOf(t2, u) = T /\ (m \in L <=> u = t[m].owner) /\ m \notin T
  BY <1>1 DEF LiveOf, TrashOf
<1>3. L \in SUBSET DOMAIN t /\ T \in SUBSET DOMAIN t
  BY <1>1 DEF LiveOf, TrashOf
<1>4. /\ IsFiniteSet(L) /\ IsFiniteSet(T) /\ \A n \in L : g[n] \in Nat /\ h[n] \in Nat
      /\ g[m] = size_bytes(t, m) /\ h[m] = size_bytes(t2, m)
  BY <1>1, <1>3, SizeSums
<1>5. \A n \in DOMAIN t \ {m} : g[n] = h[n]
  BY <1>1 DEF Size, size_bytes
<1>6. /\ LiveBytes(t, u) = SumFunctionOnSet(g, L) /\ LiveBytes(t2, u) = SumFunctionOnSet(h, L)
      /\ TrashBytes(t, u) = SumFunctionOnSet(g, T) /\ TrashBytes(t2, u) = SumFunctionOnSet(h, T)
  BY <1>1, <1>2 DEF LiveBytes, TrashBytes
<1>7. SumFunctionOnSet(g, T) = SumFunctionOnSet(h, T)
  <2>1. \A n \in T : g[n] = h[n]
    BY <1>2, <1>3, <1>5
  <2> QED BY <1>4, <2>1, SumEqual
<1>8. ASSUME m \in L
      PROVE  /\ SumFunctionOnSet(h, L) + g[m] = SumFunctionOnSet(g, L) + h[m]
             /\ g[m] <= SumFunctionOnSet(g, L)
  <2>1. \A n \in L \ {m} : g[n] = h[n]
    BY <1>3, <1>5
  <2>2. SumFunctionOnSet(g, L) = g[m] + SumFunctionOnSet(g, L \ {m})
    BY <1>4, <1>8, SumSplit
  <2>3. SumFunctionOnSet(g, L \ {m}) \in Nat
    <3>1. IsFiniteSet(L \ {m}) /\ \A n \in L \ {m} : g[n] \in Nat
      BY <1>4, FS_Subset
    <3> QED BY <3>1, SumNat
  <2>4. g[m] <= SumFunctionOnSet(g, L)
    BY <1>4, <1>8, <2>2, <2>3
  <2>5. SumFunctionOnSet(h, L) + g[m] = SumFunctionOnSet(g, L) + h[m]
    BY <1>4, <1>8, <2>1, SumChanged
  <2> QED BY <2>4, <2>5
<1>9. ASSUME m \notin L
      PROVE  SumFunctionOnSet(h, L) = SumFunctionOnSet(g, L)
  <2>1. \A n \in L : g[n] = h[n]
    BY <1>3, <1>5, <1>9
  <2> QED BY <1>4, <2>1, SumEqual
<1> QED BY <1>2, <1>4, <1>6, <1>7, <1>8, <1>9

(* Trashed rows G go, and those of K are released.                         *)
LEMMA BytesCut ==
    ASSUME NEW t, Table(t), NEW G \in SUBSET DOMAIN t, \A n \in G : t[n].deletedAt # Never,
           NEW K \in SUBSET G, NEW u
    PROVE  /\ LiveBytes(WithoutRows(t, G), u) = LiveBytes(t, u)
           /\ TrashBytes(WithoutRows(t, G), u) + OwnedBytes(t, G, u) = TrashBytes(t, u)
           /\ TrashBytes(WithoutRows(t, G), u) \in Nat
           /\ OwnedBytes(t, K, u) \in Nat /\ OwnedBytes(t, G, u) \in Nat
           /\ OwnedBytes(t, K, u) <= OwnedBytes(t, G, u)
<1>1. PICK L, T, B, C, t2, g, h :
           /\ L = LiveOf(t, u) /\ T = TrashOf(t, u) /\ t2 = WithoutRows(t, G)
           /\ B = {n \in G : t[n].owner = u} /\ C = {n \in K : t[n].owner = u}
           /\ g = Size(t) /\ h = Size(t2)
  OBVIOUS
<1>2. LiveOf(t2, u) = L /\ TrashOf(t2, u) = T \ B /\ B \in SUBSET T /\ C \in SUBSET B
  BY <1>1 DEF LiveOf, TrashOf, WithoutRows
<1>3. /\ L \in SUBSET DOMAIN t /\ T \in SUBSET DOMAIN t /\ B \in SUBSET DOMAIN t /\ C \in SUBSET DOMAIN t
      /\ L \in SUBSET (DOMAIN t \ G) /\ T \ B \in SUBSET (DOMAIN t \ G)
  BY <1>1 DEF LiveOf, TrashOf
<1>4. /\ IsFiniteSet(L) /\ IsFiniteSet(T) /\ IsFiniteSet(B) /\ IsFiniteSet(T \ B)
      /\ \A n \in T : g[n] \in Nat
      /\ \A n \in B : g[n] \in Nat
      /\ BytesOf(t, B) = SumFunctionOnSet(g, B) /\ BytesOf(t, C) = SumFunctionOnSet(g, C)
  BY <1>1, <1>3, SizeSums
<1>5. \A n \in DOMAIN t \ G : g[n] = h[n]
  BY <1>1 DEF Size, size_bytes, WithoutRows
<1>6. SumFunctionOnSet(g, L) = SumFunctionOnSet(h, L) /\ SumFunctionOnSet(g, T \ B) = SumFunctionOnSet(h, T \ B)
  <2>1. (\A n \in L : g[n] = h[n]) /\ (\A n \in T \ B : g[n] = h[n])
    BY <1>3, <1>5
  <2> QED BY <1>4, <2>1, SumEqual
<1>7. /\ LiveBytes(t, u) = SumFunctionOnSet(g, L) /\ LiveBytes(t2, u) = SumFunctionOnSet(h, L)
      /\ TrashBytes(t, u) = SumFunctionOnSet(g, T) /\ TrashBytes(t2, u) = SumFunctionOnSet(h, T \ B)
  BY <1>1, <1>2 DEF LiveBytes, TrashBytes
<1>8. /\ SumFunctionOnSet(g, T) = SumFunctionOnSet(g, B) + SumFunctionOnSet(g, T \ B)
      /\ SumFunctionOnSet(g, B) \in Nat /\ SumFunctionOnSet(g, T \ B) \in Nat
  BY <1>2, <1>4, SumSubset
<1>9. SumFunctionOnSet(g, C) \in Nat /\ SumFunctionOnSet(g, C) <= SumFunctionOnSet(g, B)
  BY <1>2, <1>4, SumSubset
<1>10. OwnedBytes(t, G, u) = BytesOf(t, B) /\ OwnedBytes(t, K, u) = BytesOf(t, C)
  BY <1>1 DEF OwnedBytes
<1> QED BY <1>1, <1>4, <1>6, <1>7, <1>8, <1>9, <1>10

(* The live and the trashed bucket after a charge, and after a release or  *)
(* a move that finds its bytes.                                            *)
LEMMA BucketFields ==
    ASSUME NEW q \in UsageRow, NEW k \in Nat
    PROVE  /\ charge_live(q, k).live = q.live + k /\ charge_live(q, k).trashed = q.trashed
           /\ charge_live(q, -k).trashed = q.trashed
           /\ k <= q.live => charge_live(q, -k).live = q.live - k
           /\ charge_versions(q, k).live = q.live /\ charge_versions(q, k).trashed = q.trashed
           /\ charge_versions(q, -k).live = q.live /\ charge_versions(q, -k).trashed = q.trashed
           /\ k <= q.live => /\ move_to_trash(q, k).live = q.live - k
                             /\ move_to_trash(q, k).trashed = q.trashed + k
           /\ k <= q.trashed => /\ restore_from_trash(q, k).live = q.live + k
                                /\ restore_from_trash(q, k).trashed = q.trashed - k
           /\ purge_from_trash(q, k).live = q.live
           /\ k <= q.trashed => purge_from_trash(q, k).trashed = q.trashed - k
<1>1. PICK l \in Nat, t \in Nat, v \in Nat : q = [live |-> l, trashed |-> t, versions |-> v]
  BY DEF UsageRow
<1>2. /\ charge_live(q, k) = [live |-> AtLeastZero(l + k), trashed |-> t, versions |-> v]
      /\ charge_live(q, -k) = [live |-> AtLeastZero(l + (-k)), trashed |-> t, versions |-> v]
      /\ charge_versions(q, k) = [live |-> l, trashed |-> t, versions |-> AtLeastZero(v + k)]
      /\ charge_versions(q, -k) = [live |-> l, trashed |-> t, versions |-> AtLeastZero(v + (-k))]
      /\ purge_from_trash(q, k) = [live |-> l, trashed |-> AtLeastZero(t - k), versions |-> v]
  BY <1>1 DEF charge_live, charge_versions, purge_from_trash
<1>3. /\ k <= l => AtMost(k, l) = k
      /\ k <= t => AtMost(k, t) = k
      /\ AtLeastZero(l + k) = l + k
      /\ k <= l => AtLeastZero(l + (-k)) = l - k
      /\ k <= t => AtLeastZero(t - k) = t - k
  BY DEF AtMost, AtLeastZero
<1>6. q.live = l /\ q.trashed = t
  BY <1>1
<1>7. ASSUME NEW a \in Nat, NEW b \in Nat
      PROVE  /\ [q EXCEPT !.live = a, !.trashed = b].live = a
             /\ [q EXCEPT !.live = a, !.trashed = b].trashed = b
             /\ [q EXCEPT !.trashed = b, !.live = a].live = a
             /\ [q EXCEPT !.trashed = b, !.live = a].trashed = b
  BY DEF UsageRow
<1>4. ASSUME k <= l
      PROVE  move_to_trash(q, k).live = l - k /\ move_to_trash(q, k).trashed = t + k
  <2>1. PICK a \in Nat, b \in Nat : a = l - k /\ b = t + k
    BY <1>4
  <2>2. move_to_trash(q, k) = [q EXCEPT !.live = a, !.trashed = b]
    BY <1>3, <1>4, <1>6, <2>1 DEF move_to_trash
  <2> QED BY <1>7, <2>1, <2>2
<1>5. ASSUME k <= t
      PROVE  restore_from_trash(q, k).live = l + k /\ restore_from_trash(q, k).trashed = t - k
  <2>1. PICK a \in Nat, b \in Nat : a = l + k /\ b = t - k
    BY <1>5
  <2>2. restore_from_trash(q, k) = [q EXCEPT !.trashed = b, !.live = a]
    BY <1>3, <1>5, <1>6, <2>1 DEF restore_from_trash
  <2> QED BY <1>7, <2>1, <2>2
<1> QED BY <1>2, <1>3, <1>4, <1>5, <1>6

(* A folder has no versions.                                               *)
FoldersEmpty(t) == \A n \in DOMAIN t : t[n].kind = "folder" => t[n].versions = <<>>

(* The live counter is exact, and the trashed one never behind.            *)
Counted ==
    /\ usage \in [Users -> UsageRow]
    /\ FoldersEmpty(nodes)
    /\ \A u \in Users : /\ usage[u].live = LiveBytes(nodes, u)
                        /\ usage[u].trashed >= TrashBytes(nodes, u)

TrashCounted == \A u \in Users : usage[u].trashed = TrashBytes(nodes, u)

(* The counters of o follow the rows of o.                                 *)
LEMMA CounterFollows ==
    ASSUME Table(nodes), Table(nodes'), Counted, FoldersEmpty(nodes'), NEW o \in Users,
           NEW q \in UsageRow, usage' = [usage EXCEPT ![o] = q],
           \A u \in Users \ {o} : /\ LiveBytes(nodes', u) = LiveBytes(nodes, u)
                                  /\ TrashBytes(nodes', u) = TrashBytes(nodes, u),
           q.live = LiveBytes(nodes', o),
           q.trashed + TrashBytes(nodes, o) = usage[o].trashed + TrashBytes(nodes', o)
    PROVE  Counted' /\ (TrashCounted => TrashCounted')
<1>1. /\ usage' \in [Users -> UsageRow] /\ usage'[o] = q
      /\ \A u \in Users \ {o} : usage'[u] = usage[u]
  BY DEF Counted
<1>2. \A u \in Users : /\ TrashBytes(nodes, u) \in Nat /\ TrashBytes(nodes', u) \in Nat
                       /\ usage[u].trashed \in Nat /\ usage'[u].trashed \in Nat
  <2>1. \A u \in Users : TrashBytes(nodes, u) \in Nat /\ TrashBytes(nodes', u) \in Nat
    BY RecomputeIs
  <2>2. \A u \in Users : usage[u] \in UsageRow /\ usage'[u] \in UsageRow
    BY <1>1 DEF Counted
  <2> QED BY <2>1, <2>2 DEF UsageRow
<1>3. ASSUME NEW u \in Users
      PROVE  /\ usage'[u].live = LiveBytes(nodes', u) /\ usage'[u].trashed >= TrashBytes(nodes', u)
             /\ usage[u].trashed = TrashBytes(nodes, u) => usage'[u].trashed = TrashBytes(nodes', u)
  <2>1. CASE u = o
    <3>1. PICK a \in Nat, b \in Nat, c \in Nat, d \in Nat :
               /\ a = usage[o].trashed /\ b = q.trashed
               /\ c = TrashBytes(nodes, o) /\ d = TrashBytes(nodes', o)
      BY <1>1, <1>2
    <3>2. b + c = a + d /\ a >= c
      BY <3>1 DEF Counted
    <3>3. b >= d /\ (a = c => b = d)
      BY <3>2
    <3> QED BY <1>1, <2>1, <3>1, <3>3
  <2>2. CASE u # o
    BY <1>1, <2>2 DEF Counted
  <2> QED BY <2>1, <2>2
<1> QED BY <1>1, <1>3 DEF Counted, TrashCounted

(* Rows and counters stay.                                                 *)
LEMMA CountersStay ==
    ASSUME Table(nodes), Counted, usage' = usage, DOMAIN nodes' = DOMAIN nodes,
           \A n \in DOMAIN nodes : /\ nodes'[n].owner = nodes[n].owner
                                   /\ nodes'[n].kind = nodes[n].kind
                                   /\ nodes'[n].versions = nodes[n].versions
                                   /\ nodes'[n].deletedAt = nodes[n].deletedAt
    PROVE  Counted' /\ (TrashCounted => TrashCounted')
<1>1. \A u \in Users : LiveBytes(nodes', u) = LiveBytes(nodes, u)
                       /\ TrashBytes(nodes', u) = TrashBytes(nodes, u)
  BY BytesSame
<1>2. FoldersEmpty(nodes')
  BY DEF Counted, FoldersEmpty
<1> QED BY <1>1, <1>2 DEF Counted, TrashCounted

(* Every row under a root belongs to the owner of the root.                *)
OneOwner == \A n \in DOMAIN nodes \ Roots : nodes[n].owner = nodes[nodes[n].parent].owner

(* A subtree belongs to the owner of its top.                              *)
LEMMA SubtreeOwner ==
    ASSUME IInv, OneOwner, NEW n \in DOMAIN nodes, NEW m \in Subtree(nodes, n)
    PROVE  nodes[m].owner = nodes[n].owner
<1> DEFINE S == {x \in DOMAIN nodes : nodes[x].owner = nodes[n].owner}
<1>1. S \in SUBSET DOMAIN nodes /\ n \in S
  OBVIOUS
<1>2. ASSUME NEW x \in DOMAIN nodes, nodes[x].parent \in S PROVE x \in S
  <2>1. x \notin Roots
    BY <1>2, ConstantsAssumption DEF IInv, RowsOK
  <2> QED BY <1>2, <2>1 DEF OneOwner
<1>3. DownClosed(nodes, S)
  BY <1>2 DEF DownClosed
<1>4. Subtree(nodes, n) \subseteq S
  BY <1>1, <1>3, SubtreeLeast
<1> QED BY <1>4

(* rename, move, delete and restore.                                       *)
LEMMA KeptCounted ==
    ASSUME IInv, IInv', OneOwner, Table(nodes), Table(nodes'), Counted,
           NEW u \in Users, NEW n \in DOMAIN nodes,
           \/ \E name \in Names : rename(u, n, name)
           \/ \E d \in DOMAIN nodes : move(u, n, d)
           \/ delete(u, n)
           \/ restore(u, n)
    PROVE  Counted' /\ (TrashCounted => TrashCounted')
<1>1. /\ DOMAIN nodes' = DOMAIN nodes
      /\ \A m \in DOMAIN nodes : /\ nodes'[m].owner = nodes[m].owner
                                 /\ nodes'[m].kind = nodes[m].kind
                                 /\ nodes'[m].versions = nodes[m].versions
  BY RowsKept
<1>2. /\ usage \in [Users -> UsageRow] /\ nodes[n].owner \in Users
      /\ nodes \in [DOMAIN nodes -> Row] /\ clock \in Nat /\ nodes[n] \in Row
      /\ \A m \in DOMAIN nodes : nodes[m] \in Row
  BY RowFields DEF Counted, Table, IInv, RowsOK
<1>3. FoldersEmpty(nodes')
  BY <1>1 DEF Counted, FoldersEmpty
<1>4. ASSUME NEW name \in Names, rename(u, n, name)
      PROVE  Counted' /\ (TrashCounted => TrashCounted')
  <2>1. [nodes[n] EXCEPT !.name = name].deletedAt = nodes[n].deletedAt
    BY <1>2, NamedRow
  <2>2. usage' = usage /\ \A m \in DOMAIN nodes : nodes'[m].deletedAt = nodes[m].deletedAt
    BY <1>2, <1>4, <2>1 DEF rename
  <2> QED BY <1>1, <2>2, CountersStay
<1>5. ASSUME NEW d \in DOMAIN nodes, move(u, n, d)
      PROVE  Counted' /\ (TrashCounted => TrashCounted')
  <2>0. d \in Nodes
    BY DEF IInv, RowsOK
  <2>1. [nodes[n] EXCEPT !.parent = d].deletedAt = nodes[n].deletedAt
    BY <1>2, <2>0, HungRow
  <2>2. usage' = usage /\ \A m \in DOMAIN nodes : nodes'[m].deletedAt = nodes[m].deletedAt
    BY <1>2, <1>5, <2>1 DEF move
  <2> QED BY <1>1, <2>2, CountersStay
<1>6. CASE delete(u, n)
  <2>1. PICK M \in SUBSET DOMAIN nodes, k \in Nat :
              M = Moving(nodes, n) /\ k = BytesOf(nodes, M) /\ k = bytes_trashed(n)
    <3>1. Moving(nodes, n) \in SUBSET DOMAIN nodes
      BY SubtreeClosed DEF Moving
    <3> QED BY <3>1, TableSums DEF bytes_trashed
  <2>2. PICK o \in Users : o = nodes[n].owner
    BY <1>2
  <2>3. \A m \in M : nodes[m].owner = o /\ nodes[m].deletedAt = Never
    BY <2>1, <2>2, SubtreeOwner DEF Moving, Live
  <2>4. \A m \in DOMAIN nodes : IF m \in M THEN nodes'[m].deletedAt # Never
                                ELSE nodes'[m].deletedAt = nodes[m].deletedAt
    <3>1. clock + 1 \in Nat /\ clock + 1 # Never
      BY <1>2 DEF Never
    <3>2. \A m \in DOMAIN nodes : [nodes[m] EXCEPT !.deletedAt = clock + 1].deletedAt = clock + 1
      BY <1>2, <3>1, StampedRow
    <3> QED BY <1>6, <2>1, <3>1, <3>2 DEF delete, soft_delete_subtree
  <2>a. PICK t2 : t2 = nodes' /\ DOMAIN t2 = DOMAIN nodes
    BY <1>1
  <2>b. ToTrash(nodes, t2, M)
    BY <1>1, <2>1, <2>3, <2>4, <2>a DEF ToTrash
  <2>c. ASSUME NEW v
        PROVE  /\ BytesOf(t2, M) = BytesOf(nodes, M)
               /\ (\A m \in M : nodes[m].owner = v) =>
                     /\ LiveBytes(t2, v) + BytesOf(nodes, M) = LiveBytes(nodes, v)
                     /\ TrashBytes(t2, v) = TrashBytes(nodes, v) + BytesOf(nodes, M)
               /\ (\A m \in M : nodes[m].owner # v) =>
                     /\ LiveBytes(t2, v) = LiveBytes(nodes, v)
                     /\ TrashBytes(t2, v) = TrashBytes(nodes, v)
    BY <2>a, <2>b, BytesMoved
  <2>5. /\ LiveBytes(nodes', o) + k = LiveBytes(nodes, o)
        /\ TrashBytes(nodes', o) = TrashBytes(nodes, o) + k
    BY <2>1, <2>3, <2>a, <2>c
  <2>6. \A v \in Users \ {o} : LiveBytes(nodes', v) = LiveBytes(nodes, v)
                               /\ TrashBytes(nodes', v) = TrashBytes(nodes, v)
    BY <2>3, <2>a, <2>c
  <2>7. /\ usage[o] \in UsageRow /\ usage[o].live \in Nat /\ usage[o].trashed \in Nat
        /\ LiveBytes(nodes, o) \in Nat /\ LiveBytes(nodes', o) \in Nat
        /\ TrashBytes(nodes, o) \in Nat /\ usage[o].live = LiveBytes(nodes, o)
    BY <1>2, RecomputeIs DEF UsageRow, Counted
  <2>8. k <= usage[o].live
    BY <2>5, <2>7
  <2>9. PICK q \in UsageRow : /\ q = move_to_trash(usage[o], k)
                              /\ q.live = usage[o].live - k /\ q.trashed = usage[o].trashed + k
    BY <2>7, <2>8, BucketFields, TrashBuckets
  <2>10. usage' = [usage EXCEPT ![o] = q]
    BY <1>6, <2>1, <2>2, <2>9 DEF delete, _move_bytes
  <2>11. /\ q.live = LiveBytes(nodes', o)
         /\ q.trashed + TrashBytes(nodes, o) = usage[o].trashed + TrashBytes(nodes', o)
    BY <2>5, <2>7, <2>9
  <2> QED BY <1>3, <2>6, <2>10, <2>11, CounterFollows
<1>7. CASE restore(u, n)
  <2>1. PICK M \in SUBSET DOMAIN nodes, k \in Nat :
              M = Batch(nodes, n) /\ k = BytesOf(nodes, M)
    <3>1. Batch(nodes, n) \in SUBSET DOMAIN nodes
      BY SubtreeClosed DEF Batch
    <3> QED BY <3>1, TableSums
  <2>2. nodes[n].owner = u /\ nodes[n].deletedAt # Never
    BY <1>7 DEF restore, Trashed
  <2>3. \A m \in M : nodes[m].owner = u /\ nodes[m].deletedAt # Never
    BY <2>1, <2>2, SubtreeOwner DEF Batch
  <2>4. \A m \in DOMAIN nodes : IF m \in M THEN nodes'[m].deletedAt = Never
                                ELSE nodes'[m].deletedAt = nodes[m].deletedAt
    <3> DEFINE t == restore_subtree(nodes, n)
               d == RestoreTarget(u, n)
    <3>1. \A m \in DOMAIN nodes : /\ [nodes[m] EXCEPT !.deletedAt = Never].deletedAt = Never
                                  /\ [nodes[m] EXCEPT !.deletedAt = Never] \in Row
      BY <1>2, StampedRow DEF Never
    <3>2. /\ t \in [DOMAIN nodes -> Row]
          /\ \A m \in DOMAIN nodes : IF m \in M THEN t[m].deletedAt = Never
                                     ELSE t[m].deletedAt = nodes[m].deletedAt
      BY <1>2, <2>1, <3>1 DEF restore_subtree
    <3>3. nodes' = [t EXCEPT ![n].parent = d]
      BY <1>7 DEF restore
    <3>4. d \in Nodes
      BY ConstantsAssumption DEF RestoreTarget, Live, IInv, RowsOK, Nodes, Roots
    <3> HIDE DEF t, d
    <3>5. [t[n] EXCEPT !.parent = d].deletedAt = t[n].deletedAt
      BY <3>2, <3>4, HungRow
    <3> QED BY <3>2, <3>3, <3>5
  <2>a. PICK t2 : t2 = nodes' /\ Table(t2) /\ DOMAIN t2 = DOMAIN nodes /\ M \in SUBSET DOMAIN t2
    BY <1>1, <2>1
  <2>b. ToTrash(t2, nodes, M) /\ \A m \in M : t2[m].owner = u
    BY <1>1, <2>1, <2>3, <2>4, <2>a DEF ToTrash
  <2>c. ASSUME NEW v
        PROVE  /\ BytesOf(nodes, M) = BytesOf(t2, M)
               /\ (\A m \in M : t2[m].owner = v) =>
                     /\ LiveBytes(nodes, v) + BytesOf(t2, M) = LiveBytes(t2, v)
                     /\ TrashBytes(nodes, v) = TrashBytes(t2, v) + BytesOf(t2, M)
               /\ (\A m \in M : t2[m].owner # v) =>
                     /\ LiveBytes(nodes, v) = LiveBytes(t2, v)
                     /\ TrashBytes(nodes, v) = TrashBytes(t2, v)
    BY <2>a, <2>b, BytesMoved
  <2>5. /\ BytesOf(nodes, M) = BytesOf(t2, M)
        /\ LiveBytes(nodes, u) + BytesOf(t2, M) = LiveBytes(t2, u)
        /\ TrashBytes(nodes, u) = TrashBytes(t2, u) + BytesOf(t2, M)
    BY <2>b, <2>c
  <2>6. \A v \in Users \ {u} : LiveBytes(nodes', v) = LiveBytes(nodes, v)
                               /\ TrashBytes(nodes', v) = TrashBytes(nodes, v)
    BY <2>a, <2>b, <2>c
  <2>7. /\ usage[u] \in UsageRow /\ usage[u].live \in Nat /\ usage[u].trashed \in Nat
        /\ LiveBytes(nodes, u) \in Nat /\ TrashBytes(nodes', u) \in Nat
        /\ TrashBytes(nodes, u) \in Nat
        /\ usage[u].live = LiveBytes(nodes, u) /\ usage[u].trashed >= TrashBytes(nodes, u)
    BY <1>2, RecomputeIs DEF UsageRow, Counted
  <2>8. k <= usage[u].trashed
    BY <2>1, <2>a, <2>5, <2>7
  <2>9. PICK q \in UsageRow : /\ q = restore_from_trash(usage[u], k)
                              /\ q.live = usage[u].live + k /\ q.trashed = usage[u].trashed - k
    BY <2>7, <2>8, BucketFields, TrashBuckets
  <2>10. usage' = [usage EXCEPT ![u] = q]
    BY <1>7, <2>1, <2>9 DEF restore, _move_bytes
  <2>11. /\ q.live = LiveBytes(nodes', u)
         /\ q.trashed + TrashBytes(nodes, u) = usage[u].trashed + TrashBytes(nodes', u)
    BY <2>1, <2>a, <2>5, <2>7, <2>9
  <2> QED BY <1>3, <2>6, <2>10, <2>11, CounterFollows
<1> QED BY <1>4, <1>5, <1>6, <1>7

(* create_folder, the upload of a new file and copy: live rows of o are    *)
(* added and their bytes charged.                                          *)
LEMMA RowsCounted ==
    ASSUME Table(nodes), Table(nodes'), Counted, DOMAIN nodes \subseteq DOMAIN nodes',
           \A m \in DOMAIN nodes : nodes'[m] = nodes[m], NEW o \in Users,
           \A m \in DOMAIN nodes' \ DOMAIN nodes :
                /\ nodes'[m].deletedAt = Never /\ nodes'[m].owner = o
                /\ nodes'[m].kind = "folder" => nodes'[m].versions = <<>>,
           NEW q \in UsageRow, usage' = [usage EXCEPT ![o] = q],
           q.live = usage[o].live + BytesOf(nodes', DOMAIN nodes' \ DOMAIN nodes),
           q.trashed = usage[o].trashed
    PROVE  Counted' /\ (TrashCounted => TrashCounted')
<1>1. PICK N : N = DOMAIN nodes' \ DOMAIN nodes
  OBVIOUS
<1>2. ASSUME NEW u
      PROVE  /\ TrashBytes(nodes', u) = TrashBytes(nodes, u)
             /\ (\A n \in N : nodes'[n].owner = u) =>
                   LiveBytes(nodes', u) = LiveBytes(nodes, u) + BytesOf(nodes', N)
             /\ (\A n \in N : nodes'[n].owner # u) => LiveBytes(nodes', u) = LiveBytes(nodes, u)
  BY <1>1, BytesAdded
<1>3. /\ LiveBytes(nodes', o) = LiveBytes(nodes, o) + BytesOf(nodes', N)
      /\ \A u \in Users \ {o} : LiveBytes(nodes', u) = LiveBytes(nodes, u)
      /\ \A u \in Users : TrashBytes(nodes', u) = TrashBytes(nodes, u)
  <2>1. \A m \in N : nodes'[m].owner = o
    BY <1>1
  <2>2. LiveBytes(nodes', o) = LiveBytes(nodes, o) + BytesOf(nodes', N)
    BY <1>2, <2>1
  <2>3. ASSUME NEW u \in Users, u # o PROVE LiveBytes(nodes', u) = LiveBytes(nodes, u)
    <3>1. \A m \in N : nodes'[m].owner # u
      BY <2>1, <2>3
    <3> QED BY <1>2, <3>1
  <2> QED BY <1>2, <2>2, <2>3
<1>4. FoldersEmpty(nodes')
  BY <1>1 DEF Counted, FoldersEmpty
<1>5. usage[o].live = LiveBytes(nodes, o)
  BY DEF Counted
<1>6. q.live = LiveBytes(nodes', o)
  BY <1>1, <1>3, <1>5
<1> QED BY <1>3, <1>4, <1>6, CounterFollows

(* One row.                                                                *)
LEMMA RowCounted ==
    ASSUME Table(nodes), Table(nodes'), Counted, NEW n, n \notin DOMAIN nodes,
           NEW row \in Row, nodes' = WithRow(nodes, n, row), row.deletedAt = Never,
           row.kind = "folder" => row.versions = <<>>,
           NEW q \in UsageRow, usage' = [usage EXCEPT ![row.owner] = q],
           q.live = usage[row.owner].live + size_bytes(nodes', n),
           q.trashed = usage[row.owner].trashed
    PROVE  Counted' /\ (TrashCounted => TrashCounted')
<1>1. /\ DOMAIN nodes' = DOMAIN nodes \cup {n} /\ nodes'[n] = row
      /\ \A m \in DOMAIN nodes : nodes'[m] = nodes[m]
  BY DEF WithRow
<1>2. PICK o \in Users : o = row.owner
  BY RowFields
<1>3. DOMAIN nodes' \ DOMAIN nodes = {n}
  BY <1>1
<1>0. PICK size \in Nat : size = size_bytes(nodes', n)
  BY <1>1, TableSums
<1>4. BytesOf(nodes', {n}) = size
  <2>1. PICK h : h = Size(nodes')
    OBVIOUS
  <2>2. h[n] = size /\ BytesOf(nodes', {n}) = SumFunctionOnSet(h, {n})
    BY <1>0, <1>1, <2>1, SizeSums
  <2>3. IsFiniteSet({n}) /\ n \in {n} /\ {n} \ {n} = {} /\ \A x \in {n} : h[x] \in Nat
    BY <2>2, FS_Singleton
  <2>4. SumFunctionOnSet(h, {n}) = h[n] + SumFunctionOnSet(h, {n} \ {n})
    BY <2>3, SumSplit
  <2>5. SumFunctionOnSet(h, {n} \ {n}) = 0
    BY <2>3, SumEmpty
  <2> QED BY <2>2, <2>4, <2>5
<1>5. \A m \in DOMAIN nodes' \ DOMAIN nodes :
           /\ nodes'[m].deletedAt = Never /\ nodes'[m].owner = o
           /\ nodes'[m].kind = "folder" => nodes'[m].versions = <<>>
  BY <1>1, <1>2, <1>3
<1>6. q.live = usage[o].live + BytesOf(nodes', DOMAIN nodes' \ DOMAIN nodes)
  BY <1>0, <1>2, <1>3, <1>4
<1> QED BY <1>1, <1>2, <1>5, <1>6, RowsCounted

(* A copy: the bytes of the copies are those of their sources.             *)
LEMMA CopyCounted ==
    ASSUME IInv, Table(nodes), Table(nodes'), Counted, NEW u \in Users,
           NEW s \in DOMAIN nodes, NEW d \in DOMAIN nodes, NEW name \in Names,
           copy(u, s, d, name)
    PROVE  Counted' /\ (TrashCounted => TrashCounted')
<1> DEFINE N == DOMAIN nodes' \ DOMAIN nodes
<1>1. PICK S \in SUBSET DOMAIN nodes : CopyOf(u, s, d, S)
  BY CopyRows
<1>2. /\ usage' = [usage EXCEPT ![u] = charge_live(usage[u], BytesOf(nodes, S))]
      /\ DOMAIN nodes \subseteq DOMAIN nodes'
      /\ \A m \in DOMAIN nodes : nodes'[m] = nodes[m]
  BY <1>1 DEF CopyOf
<1>3. PICK f \in Bijection(S, N) : \A x \in S : CopyMade(u, s, d, S, f, x)
  BY <1>1 DEF CopyOf
<1>4. \A x \in S : /\ nodes'[f[x]].owner = u /\ nodes'[f[x]].deletedAt = Never
                   /\ nodes'[f[x]].kind = nodes[x].kind
                   /\ nodes'[f[x]].versions =
                         IF nodes[x].kind = "folder" THEN <<>>
                         ELSE <<[size |-> size_bytes(nodes, x), owner |-> u]>>
  BY <1>3 DEF CopyMade
<1>5. \A m \in N : \E x \in S : f[x] = m
  BY DEF Bijection, Surjection
<1>6. \A x \in S : f[x] \in N
  BY DEF Bijection, Injection
<1>7. \A m \in N : /\ nodes'[m].owner = u /\ nodes'[m].deletedAt = Never
                   /\ nodes'[m].kind = "folder" => nodes'[m].versions = <<>>
  <2> SUFFICES ASSUME NEW m \in N
               PROVE  /\ nodes'[m].owner = u /\ nodes'[m].deletedAt = Never
                      /\ nodes'[m].kind = "folder" => nodes'[m].versions = <<>>
    OBVIOUS
  <2>1. PICK x \in S : f[x] = m
    BY <1>5
  <2> QED BY <1>4, <2>1
<1>8. /\ IsFiniteSet(S) /\ \A x \in S : size_bytes(nodes, x) \in Nat
      /\ N \in SUBSET DOMAIN nodes'
  BY TableSums
<1>9. ASSUME NEW x \in S
      PROVE  size_bytes(nodes', f[x]) = size_bytes(nodes, x)
  <2>1. PICK k \in Nat : k = size_bytes(nodes, x)
    BY <1>8
  <2>2. CASE nodes[x].kind = "folder"
    <3>1. nodes'[f[x]].versions = <<>> /\ nodes[x].versions = <<>>
      BY <1>4, <2>2 DEF Counted, FoldersEmpty
    <3> QED BY <3>1 DEF size_bytes
  <2>3. CASE nodes[x].kind # "folder"
    <3>1. PICK c : c = [size |-> k, owner |-> u]
      OBVIOUS
    <3>2. nodes'[f[x]].versions = <<c>> /\ c.size = k
      BY <1>4, <2>1, <2>3, <3>1
    <3>3. size_bytes(nodes', f[x]) = c.size
      BY <3>2 DEF size_bytes
    <3> QED BY <2>1, <3>2, <3>3
  <2> QED BY <2>2, <2>3
<1> DEFINE g == [x \in S |-> size_bytes(nodes, x)]
           h == Size(nodes')
<1>10. \A x \in S : g[x] \in Nat /\ h[f[x]] = g[x]
  <2> SUFFICES ASSUME NEW x \in S PROVE g[x] \in Nat /\ h[f[x]] = g[x]
    OBVIOUS
  <2>1. f[x] \in DOMAIN nodes'
    BY <1>6
  <2> QED BY <1>8, <1>9, <2>1 DEF Size
<1>11. BytesOf(nodes, S) = SumFunctionOnSet(g, S)
  BY DEF BytesOf, SumFunction
<1>12. BytesOf(nodes', N) = SumFunctionOnSet(h, N)
  BY <1>8, SizeSums
<1> HIDE DEF N, g, h
<1>13. SumFunctionOnSet(h, N) = SumFunctionOnSet(g, S)
  BY <1>8, <1>10, SumReindexed
<1>14. PICK b \in Nat : b = BytesOf(nodes, S) /\ b = BytesOf(nodes', N)
  BY <1>11, <1>12, <1>13, TableSums
<1>15. usage[u] \in UsageRow
  BY DEF Counted
<1>16. PICK q \in UsageRow : /\ q = charge_live(usage[u], b)
                             /\ q.live = usage[u].live + b /\ q.trashed = usage[u].trashed
  <2>1. charge_live(usage[u], b) \in UsageRow
    BY <1>15, Buckets
  <2>2. /\ charge_live(usage[u], b).live = usage[u].live + b
        /\ charge_live(usage[u], b).trashed = usage[u].trashed
    BY <1>15, BucketFields
  <2> QED BY <2>1, <2>2
<1>17. usage' = [usage EXCEPT ![u] = q] /\ q.live = usage[u].live + BytesOf(nodes', N)
  BY <1>2, <1>14, <1>16
<1> QED BY <1>2, <1>7, <1>16, <1>17, RowsCounted DEF N

(* A new version of a live file: the size of the one it replaces leaves    *)
(* the live bucket, which has it.                                          *)
LEMMA VersionCounted ==
    ASSUME Table(nodes), Table(nodes'), Counted, NEW n \in DOMAIN nodes, NEW size \in Nat,
           nodes[n].deletedAt = Never, nodes[n].kind # "folder", _store_version(n, size)
    PROVE  Counted' /\ (TrashCounted => TrashCounted')
<1>1. PICK o \in Users : o = nodes[n].owner
  BY RowFields DEF Table
<1>2. nodes[n] \in Row /\ nodes[n].versions \in Seq(Version)
  BY RowFields DEF Table
<1>3. PICK c \in Version : c = [size |-> size, owner |-> o] /\ c.size = size
  <2>1. [size |-> size, owner |-> o] \in Version
    BY DEF Version
  <2> QED BY <2>1
<1>4. PICK old \in Seq(Version) : old = nodes[n].versions
  BY <1>2
<1>5. PICK v \in Seq(Version) : v = Append(old, c) /\ Len(v) = Len(old) + 1 /\ v[Len(v)] = c
  <2>1. PICK v : v = Append(old, c)
    OBVIOUS
  <2>2. v \in Seq(Version) /\ Len(v) = Len(old) + 1
    BY <2>1
  <2>3. v[Len(old) + 1] = c
    BY <2>1
  <2> QED BY <2>1, <2>2, <2>3
<1>6. PICK w : w = prune_beyond(v)
  OBVIOUS
<1>a. PICK q, p : /\ q = _prune_versions(_charge(Retired(nodes, usage, n), size), v)
                  /\ p = Retired(nodes, usage, n)
  OBVIOUS
<1>b. PICK r \in UsageRow, k \in Nat : r = usage[o] /\ k = size_bytes(nodes, n)
  BY TableSums DEF Counted
<1>7. /\ q = _prune_versions(_charge(p, size), v) /\ p = Retired(nodes, usage, n)
      /\ r = usage[o] /\ k = size_bytes(nodes, n)
  BY <1>a, <1>b
<1>8. /\ nodes' = [nodes EXCEPT ![n].versions = w]
      /\ usage' = [usage EXCEPT ![o] = q]
  BY <1>1, <1>3, <1>4, <1>5, <1>6, <1>7 DEF _store_version
<1>9. w \in Seq(Version) /\ Len(w) \in Nat /\ w # <<>> /\ w[Len(w)] = c
  <2>1. Len(v) \in Nat /\ Excess(v) \in Nat /\ Excess(v) < Len(v)
    BY <1>5, ConstantsAssumption DEF Excess, AtLeastZero
  <2>2. PICK e \in Nat, l \in Nat : e = Excess(v) /\ l = Len(v) /\ e < l
    BY <2>1
  <2>3. \A i \in e + 1 .. l : v[i] \in Version
    BY <2>2
  <2>4. w = SubSeq(v, e + 1, l)
    BY <1>6, <2>2 DEF prune_beyond
  <2>5. w \in Seq(Version) /\ Len(w) = l - e /\ \A i \in 1 .. l - e : w[i] = v[e + i]
    BY <2>2, <2>3, <2>4
  <2>6. l - e \in 1 .. l - e /\ e + (l - e) = l
    BY <2>2
  <2>7. w[Len(w)] = c
    BY <1>5, <2>2, <2>5, <2>6
  <2> QED BY <2>5, <2>6, <2>7
<1>10. /\ DOMAIN nodes' = DOMAIN nodes /\ nodes'[n].versions = w /\ nodes'[n].owner = o
       /\ nodes'[n].deletedAt = Never /\ nodes'[n].kind = nodes[n].kind
       /\ \A m \in DOMAIN nodes \ {n} : nodes'[m] = nodes[m]
  <2>1. /\ [nodes[n] EXCEPT !.versions = w].versions = w /\ [nodes[n] EXCEPT !.versions = w].owner = o
        /\ [nodes[n] EXCEPT !.versions = w].deletedAt = Never
        /\ [nodes[n] EXCEPT !.versions = w].kind = nodes[n].kind
    BY <1>1, <1>2, <1>9, VersionedRow
  <2> QED BY <1>8, <2>1
<1>11. size_bytes(nodes', n) = size
  BY <1>3, <1>9, <1>10 DEF size_bytes
<1>12. ASSUME NEW u
       PROVE  /\ TrashBytes(nodes', u) = TrashBytes(nodes, u)
              /\ u = o => /\ LiveBytes(nodes', u) + k = LiveBytes(nodes, u) + size
                          /\ k <= LiveBytes(nodes, u)
              /\ u # o => LiveBytes(nodes', u) = LiveBytes(nodes, u)
  BY <1>1, <1>7, <1>10, <1>11, BytesChanged
<1>13. /\ r.live \in Nat /\ r.trashed \in Nat /\ r.live = LiveBytes(nodes, o) /\ k <= r.live
       /\ LiveBytes(nodes', o) \in Nat
  BY <1>7, <1>12, RecomputeIs DEF Counted, UsageRow
<1>14. p \in UsageRow /\ p.live = r.live - k /\ p.trashed = r.trashed
  <2>1. CASE old = <<>>
    <3>1. p = r /\ k = 0
      BY <1>1, <1>4, <1>7, <2>1 DEF Retired, size_bytes
    <3> QED BY <1>13, <3>1
  <2>2. CASE old # <<>>
    <3>1. PICK s : s = charge_live(r, -k)
      OBVIOUS
    <3>2. s \in UsageRow /\ s.live = r.live - k /\ s.trashed = r.trashed
      BY <1>13, <3>1, Buckets, BucketFields
    <3>3. p = charge_versions(s, k)
      BY <1>1, <1>4, <1>7, <2>2, <3>1 DEF Retired
    <3> QED BY <3>2, <3>3, Buckets, BucketFields
  <2> QED BY <2>1, <2>2
<1>15. q \in UsageRow /\ q.live = p.live + size /\ q.trashed = p.trashed
  <2>1. PICK s : s = charge_live(p, size)
    OBVIOUS
  <2>2. s \in UsageRow /\ s.live = p.live + size /\ s.trashed = p.trashed
    BY <1>14, <2>1, Buckets, BucketFields
  <2>3. PICK e \in Nat : e = SumFunction([i \in 1 .. Excess(v) |-> v[i].size])
    BY SeqBytesPruned
  <2>4. q = charge_versions(s, -e)
    BY <1>7, <2>1, <2>3 DEF _prune_versions, _charge
  <2>5. q \in UsageRow
    BY <2>2, <2>4, Buckets
  <2>6. q.live = s.live /\ q.trashed = s.trashed
    BY <2>2, <2>4, BucketFields
  <2> QED BY <2>2, <2>5, <2>6
<1>16. q.live = LiveBytes(nodes', o)
  <2>1. LiveBytes(nodes', o) + k = LiveBytes(nodes, o) + size
    BY <1>12
  <2>2. q.live = LiveBytes(nodes, o) - k + size
    BY <1>13, <1>14, <1>15
  <2>3. PICK a \in Nat, b \in Nat : a = LiveBytes(nodes', o) /\ b = LiveBytes(nodes, o)
    BY <1>13
  <2>4. k \in Nat /\ size \in Nat
    BY <1>7
  <2>5. a + k = b + size /\ q.live = b - k + size
    BY <2>1, <2>2, <2>3
  <2>6. b - k + size = a
    BY <2>4, <2>5
  <2> QED BY <2>3, <2>5, <2>6
<1>17. q.trashed + TrashBytes(nodes, o) = usage[o].trashed + TrashBytes(nodes', o)
  BY <1>7, <1>12, <1>14, <1>15
<1>18. FoldersEmpty(nodes')
  BY <1>10 DEF Counted, FoldersEmpty
<1> QED BY <1>8, <1>12, <1>15, <1>16, <1>17, <1>18, CounterFollows

(* Trashed rows go; what is stripped of them is released to its owner.     *)
LEMMA PurgeCounted ==
    ASSUME Table(nodes), Counted, NEW G \in SUBSET DOMAIN nodes,
           \A n \in G : nodes[n].deletedAt # Never, NEW K \in SUBSET G, Purged(K, G)
    PROVE  Counted' /\ (K = G /\ TrashCounted => TrashCounted')
<1>1. /\ nodes' = WithoutRows(nodes, G)
      /\ usage' = [v \in Users |-> purge_from_trash(usage[v], OwnedBytes(nodes, K, v))]
  BY DEF Purged
<1>2. FoldersEmpty(nodes')
  BY <1>1 DEF Counted, FoldersEmpty, WithoutRows
<1>3. ASSUME NEW u \in Users
      PROVE  /\ usage'[u] \in UsageRow
             /\ usage'[u].live = LiveBytes(nodes', u)
             /\ usage'[u].trashed >= TrashBytes(nodes', u)
             /\ K = G /\ usage[u].trashed = TrashBytes(nodes, u) =>
                   usage'[u].trashed = TrashBytes(nodes', u)
  <2>1. PICK q \in UsageRow : q = usage[u]
    BY DEF Counted
  <2>2. PICK k \in Nat, b \in Nat, x \in Nat, y \in Nat :
             /\ k = OwnedBytes(nodes, K, u) /\ b = OwnedBytes(nodes, G, u)
             /\ x = TrashBytes(nodes, u) /\ y = TrashBytes(nodes', u)
             /\ y + b = x /\ k <= b /\ LiveBytes(nodes', u) = LiveBytes(nodes, u)
    BY <1>1, BytesCut, RecomputeIs
  <2>3. usage'[u] = purge_from_trash(q, k)
    BY <1>1, <2>1, <2>2
  <2>4. q.trashed \in Nat /\ q.trashed >= x /\ q.live = LiveBytes(nodes, u)
    BY <2>1, <2>2 DEF Counted, UsageRow
  <2>5. k <= q.trashed
    BY <2>2, <2>4
  <2>6. /\ usage'[u] \in UsageRow /\ usage'[u].live = q.live
        /\ usage'[u].trashed = q.trashed - k
    BY <2>3, <2>5, BucketFields, TrashBuckets
  <2>7. usage'[u].trashed >= y
    BY <2>2, <2>4, <2>6
  <2>8. ASSUME K = G, q.trashed = x PROVE usage'[u].trashed = y
    <3>1. k = b
      BY <2>2, <2>8
    <3> QED BY <2>2, <2>6, <2>8, <3>1
  <2> QED BY <2>1, <2>2, <2>4, <2>6, <2>7, <2>8
<1>4. usage' \in [Users -> UsageRow]
  BY <1>1, <1>3
<1> QED BY <1>2, <1>3, <1>4 DEF Counted, TrashCounted

(* The purge job takes nothing.                                            *)
NoSweep == ~\E cutoff \in 1 .. clock + 1 : PurgeJob(cutoff)

(* Every step but a transfer keeps the counters; only the purge job, whose *)
(* cascade takes rows it did not strip, lets the trashed one run ahead.    *)
LEMMA CounterStep ==
    ASSUME IInv, IInv', OneOwner, Table(nodes), Table(nodes'), Counted, [Next]_vars,
           [NoTransfer]_vars
    PROVE  Counted' /\ (TrashCounted /\ [NoSweep]_vars => TrashCounted')
<1> DEFINE Goal == Counted' /\ (TrashCounted => TrashCounted')
<1>0. /\ RowsOK /\ DOMAIN nodes \subseteq Nodes /\ usage \in [Users -> UsageRow]
      /\ \A n \in DOMAIN nodes : nodes[n] \in Row
  BY DEF IInv, RowsOK, Counted
<1>1. ASSUME nodes' = nodes, usage' = usage
      PROVE  Goal
  BY <1>1 DEF Counted, TrashCounted
<1>2. ASSUME NEW u \in Users, NEW p \in DOMAIN nodes, NEW n \in OneOf(Fresh),
             NEW name \in Names, create_folder(u, p, n, name)
      PROVE  Goal
  <2>1. PICK o \in Users : o = nodes[p].owner
    BY <1>0, RowFields
  <2>2. n \notin DOMAIN nodes
    BY DEF OneOf, Fresh
  <2>3. PICK row : row = Folder(o, p, name)
    OBVIOUS
  <2>4. row.versions = <<>> /\ row.owner = o /\ row.deletedAt = Never
    BY <2>3 DEF Folder
  <2>5. nodes' = WithRow(nodes, n, row) /\ usage' = usage
    BY <1>2, <2>1, <2>3 DEF create_folder
  <2>6. row \in Row /\ nodes'[n] = row
    BY <2>5 DEF Table, WithRow
  <2>7. PICK q \in UsageRow, k \in Nat : q = usage[o] /\ k = 0 /\ q.live \in Nat
    BY <1>0 DEF UsageRow
  <2>8. size_bytes(nodes', n) = k
    BY <2>4, <2>6, <2>7 DEF size_bytes
  <2>9. /\ usage' = [usage EXCEPT ![row.owner] = q] /\ q.trashed = usage[row.owner].trashed
        /\ q.live = usage[row.owner].live + size_bytes(nodes', n)
    BY <1>0, <2>4, <2>5, <2>7, <2>8
  <2> QED BY <2>2, <2>4, <2>5, <2>6, <2>9, RowCounted
<1>3. ASSUME NEW u \in Users, NEW p \in DOMAIN nodes, NEW n \in OneOf(Fresh),
             NEW name \in Names, NEW size \in Sizes, upload_new(u, p, n, name, size)
      PROVE  Goal
  <2>1. PICK o \in Users : o = nodes[p].owner
    BY <1>0, RowFields
  <2>2. n \notin DOMAIN nodes /\ size \in Nat
    BY ConstantsAssumption DEF OneOf, Fresh
  <2>3. PICK row, c : row = File(o, p, name, size) /\ c = [size |-> size, owner |-> o]
    OBVIOUS
  <2>4. /\ row.versions = <<c>> /\ row.owner = o /\ row.deletedAt = Never /\ c.size = size
        /\ row.kind # "folder"
    BY <2>3 DEF File
  <2>5. nodes' = WithRow(nodes, n, row) /\ usage' = [usage EXCEPT ![o] = charge_live(usage[o], size)]
    BY <1>3, <2>1, <2>3 DEF upload_new, _charge
  <2>6. row \in Row /\ nodes'[n] = row
    BY <2>5 DEF Table, WithRow
  <2>7. size_bytes(nodes', n) = size
    <3>1. nodes'[n].versions = <<c>>
      BY <2>4, <2>6
    <3>2. size_bytes(nodes', n) = c.size
      BY <3>1 DEF size_bytes
    <3> QED BY <2>4, <3>2
  <2>8. usage[o] \in UsageRow
    BY <1>0
  <2>9. PICK q \in UsageRow : /\ q = charge_live(usage[o], size)
                              /\ q.live = usage[o].live + size /\ q.trashed = usage[o].trashed
    <3>1. charge_live(usage[o], size) \in UsageRow
      BY <2>2, <2>8, Buckets
    <3>2. /\ charge_live(usage[o], size).live = usage[o].live + size
          /\ charge_live(usage[o], size).trashed = usage[o].trashed
      BY <2>2, <2>8, BucketFields
    <3> QED BY <3>1, <3>2
  <2>10. /\ usage' = [usage EXCEPT ![row.owner] = q] /\ q.trashed = usage[row.owner].trashed
         /\ q.live = usage[row.owner].live + size_bytes(nodes', n)
    BY <2>4, <2>5, <2>7, <2>9
  <2> QED BY <2>2, <2>4, <2>5, <2>6, <2>10, RowCounted
<1>4. ASSUME NEW u \in Users, NEW n \in DOMAIN nodes,
             \/ \E name \in Names : rename(u, n, name)
             \/ \E d \in DOMAIN nodes : move(u, n, d)
             \/ delete(u, n)
             \/ restore(u, n)
      PROVE  Goal
  BY <1>4, KeptCounted
<1>5. ASSUME NEW u \in Users, NEW n \in DOMAIN nodes, NEW size \in Sizes, upload_version(u, n, size)
      PROVE  Goal
  <2>1. /\ nodes[n].deletedAt = Never /\ nodes[n].kind # "folder" /\ size \in Nat
        /\ _store_version(n, size)
    BY <1>5, ConstantsAssumption DEF upload_version, Live
  <2> QED BY <2>1, VersionCounted
<1>6. ASSUME NEW u \in Users, NEW n \in DOMAIN nodes, NEW i \in 1 .. Retention, restore_version(u, n, i)
      PROVE  Goal
  <2>1. nodes[n].versions \in Seq(Version) /\ i \in 1 .. Len(nodes[n].versions)
    BY <1>6, TableSums DEF restore_version
  <2>2. nodes[n].versions[i].size \in Nat
    BY <2>1, SeqBytesOf
  <2>3. nodes[n].versions # <<>>
    BY <2>1
  <2>4. nodes[n].deletedAt = Never /\ nodes[n].kind # "folder"
    BY <1>6, <2>3 DEF restore_version, MayEdit, Live, Counted, FoldersEmpty
  <2> QED BY <1>6, <2>2, <2>4, VersionCounted DEF restore_version
<1>7. ASSUME NEW u \in Users, NEW n \in DOMAIN nodes,
             \/ \E m \in OneOf(Fresh), name \in Names, size \in Sizes :
                    upload_new_refused(u, n, m, name, size)
             \/ \E size \in Sizes : upload_version_refused(u, n, size)
             \/ \E d \in DOMAIN nodes, name \in Names : copy_refused(u, n, d, name)
      PROVE  Goal
  BY <1>1, <1>7 DEF upload_new_refused, upload_version_refused, copy_refused, StrayObject
<1>8. ASSUME NEW u \in Users, NEW n \in DOMAIN nodes, NEW d \in DOMAIN nodes, NEW name \in Names,
             copy(u, n, d, name)
      PROVE  Goal
  BY <1>8, CopyCounted
<1>9. ASSUME NEW u \in Users, NEW n \in DOMAIN nodes, purge(u, n)
      PROVE  Goal
  <2>1. PICK G : G = Subtree(nodes, n)
    OBVIOUS
  <2>2. Purged(G, G) /\ Trashed(nodes, n)
    BY <1>9, <2>1 DEF purge, purge_subtree, _destroy_entry
  <2>3. G \in SUBSET DOMAIN nodes /\ G \in SUBSET G
    BY <2>1, SubtreeClosed
  <2>4. \A m \in G : nodes[m].deletedAt # Never
    BY <2>1, <2>2, TrashedBelow DEF Trashed
  <2> QED BY <2>2, <2>3, <2>4, PurgeCounted
<1>10. ASSUME NEW u \in Users, empty_trash(u)
       PROVE  Goal
  <2>1. PICK G : G = UNION {Subtree(nodes, e) : e \in _spend_purge_budget(u)}
    OBVIOUS
  <2>2. Purged(G, G)
    BY <1>10, <2>1 DEF empty_trash, purge_subtree, _destroy_entry
  <2>3. G \in SUBSET DOMAIN nodes /\ G \in SUBSET G
    BY <2>1, SubtreeClosed
  <2>4. \A e \in _spend_purge_budget(u) : e \in DOMAIN nodes /\ Trashed(nodes, e)
    BY DEF _spend_purge_budget, TrashEntries
  <2>5. \A m \in G : nodes[m].deletedAt # Never
    <3> SUFFICES ASSUME NEW m \in G PROVE nodes[m].deletedAt # Never
      OBVIOUS
    <3>1. PICK e \in _spend_purge_budget(u) : m \in Subtree(nodes, e)
      BY <2>1
    <3> QED BY <2>4, <3>1, TrashedBelow DEF Trashed
  <2> QED BY <2>2, <2>3, <2>5, PurgeCounted
<1>11. ASSUME NEW cutoff \in 1 .. clock + 1, PurgeJob(cutoff)
       PROVE  Counted'
  <2>1. PICK E \in Expired(cutoff) : \E K \in Reached(E) :
               Purged(K, UNION {Subtree(nodes, n) : n \in K})
    BY <1>11 DEF PurgeJob
  <2>2. PICK K \in Reached(E) : Purged(K, UNION {Subtree(nodes, n) : n \in K})
    BY <2>1
  <2>3. PICK G : G = UNION {Subtree(nodes, n) : n \in K}
    OBVIOUS
  <2>4. \A n \in K : n \in DOMAIN nodes /\ Trashed(nodes, n)
    BY DEF Expired, Reached
  <2>5. \A n \in K : n \in Subtree(nodes, n)
    BY <2>4, SubtreeSelf
  <2>6. K \in SUBSET G /\ G \in SUBSET DOMAIN nodes
    BY <2>3, <2>5, SubtreeClosed
  <2>7. Purged(K, G)
    BY <2>2, <2>3
  <2>8. \A m \in G : nodes[m].deletedAt # Never
    <3> SUFFICES ASSUME NEW m \in G PROVE nodes[m].deletedAt # Never
      OBVIOUS
    <3>1. PICK e \in K : m \in Subtree(nodes, e)
      BY <2>3
    <3> QED BY <2>4, <3>1, TrashedBelow DEF Trashed
  <2> QED BY <2>6, <2>7, <2>8, PurgeCounted
<1>12. CASE ReconcileQuotasJob
  <2>1. nodes' = nodes
    BY <1>12 DEF ReconcileQuotasJob
  <2>2. PICK page : usage' = [u \in Users |-> IF u \in page THEN recompute(nodes, u) ELSE usage[u]]
    BY <1>12 DEF ReconcileQuotasJob
  <2>3. ASSUME NEW u \in Users
        PROVE  /\ usage'[u] \in UsageRow /\ usage'[u].live = LiveBytes(nodes, u)
               /\ usage'[u].trashed >= TrashBytes(nodes, u)
               /\ usage[u].trashed = TrashBytes(nodes, u) => usage'[u].trashed = TrashBytes(nodes, u)
    <3>1. /\ recompute(nodes, u) \in UsageRow /\ recompute(nodes, u).live = LiveBytes(nodes, u)
          /\ recompute(nodes, u).trashed = TrashBytes(nodes, u) /\ TrashBytes(nodes, u) \in Nat
      BY RecomputeIs
    <3>2. /\ usage[u] \in UsageRow /\ usage[u].live = LiveBytes(nodes, u)
          /\ usage[u].trashed >= TrashBytes(nodes, u)
      BY DEF Counted
    <3>3. usage'[u] = recompute(nodes, u) \/ usage'[u] = usage[u]
      BY <2>2
    <3>4. CASE usage'[u] = recompute(nodes, u)
      BY <3>1, <3>4
    <3>5. CASE usage'[u] = usage[u]
      BY <3>2, <3>5
    <3> QED BY <3>3, <3>4, <3>5
  <2>4. usage' \in [Users -> UsageRow]
    BY <2>2, <2>3
  <2>5. FoldersEmpty(nodes)
    BY DEF Counted
  <2> QED BY <2>1, <2>3, <2>4, <2>5 DEF Counted, TrashCounted
<1>13. CASE OrphanReaper
  BY <1>1, <1>13 DEF OrphanReaper
<1>14. CASE UNCHANGED vars
  BY <1>1, <1>14 DEF vars
<1>15. ASSUME NEW cutoff \in 1 .. clock + 1, PurgeJob(cutoff), [NoSweep]_vars
       PROVE  nodes' = nodes /\ usage' = usage
  BY <1>15 DEF NoSweep, vars
<1>16. ASSUME NEW cutoff \in 1 .. clock + 1, PurgeJob(cutoff)
       PROVE  Counted' /\ (TrashCounted /\ [NoSweep]_vars => TrashCounted')
  BY <1>1, <1>11, <1>15, <1>16
<1> QED
  BY <1>2, <1>3, <1>4, <1>5, <1>6, <1>7, <1>8, <1>9, <1>10, <1>12, <1>13, <1>14, <1>16
     DEF NoTransfer, Next, nodes_router, content_router, trash_router

(* Nothing is counted at first.                                            *)
LEMMA InitCounted ==
    ASSUME IsFiniteSet(Nodes), Init
    PROVE  Counted /\ TrashCounted
<1>1. DOMAIN nodes = Roots /\ \A n \in Roots : nodes[n].versions = <<>>
  BY DEF Init, Folder
<1>2. Table(nodes)
  BY InitIInv, NodesTable DEF IInv
<1>3. ASSUME NEW u \in Users PROVE LiveBytes(nodes, u) = 0 /\ TrashBytes(nodes, u) = 0
  <2>1. LiveOf(nodes, u) \in SUBSET DOMAIN nodes /\ TrashOf(nodes, u) \in SUBSET DOMAIN nodes
    BY DEF LiveOf, TrashOf
  <2>2. IsFiniteSet(LiveOf(nodes, u)) /\ IsFiniteSet(TrashOf(nodes, u))
    BY <1>2, <2>1, TableSums
  <2>3. \A n \in DOMAIN nodes : Size(nodes)[n] = 0
    BY <1>1 DEF Size, size_bytes
  <2>4. /\ \A n \in LiveOf(nodes, u) : Size(nodes)[n] = 0
        /\ \A n \in TrashOf(nodes, u) : Size(nodes)[n] = 0
    BY <2>1, <2>3
  <2> QED BY <2>2, <2>4, SumZero DEF LiveBytes, TrashBytes
<1>4. NoUsage \in UsageRow /\ NoUsage.live = 0 /\ NoUsage.trashed = 0
  BY DEF NoUsage, UsageRow
<1>5. usage \in [Users -> UsageRow] /\ \A u \in Users : usage[u] = NoUsage
  BY <1>4 DEF Init
<1>6. FoldersEmpty(nodes)
  BY <1>1 DEF FoldersEmpty
<1> QED BY <1>3, <1>4, <1>5, <1>6 DEF Counted, TrashCounted

(* The counters of a user are never behind the rows, the live one exact.   *)
CountersNeverBehind ==
    \A u \in Users : /\ usage[u].live = recompute(nodes, u).live
                     /\ usage[u].trashed >= recompute(nodes, u).trashed

(* While no file changes hands and every row belongs to the owner of its   *)
(* folder, the live counter is what a recomputation would find and the     *)
(* trashed one no less, in every state: trashing and restoring whole       *)
(* batches, pruning and purging move no byte to a wrong bucket.            *)
THEOREM CountersKeepUp ==
    ASSUME IsFiniteSet(Nodes)
    PROVE  Spec /\ [][NoTransfer]_vars /\ []OneOwner => []CountersNeverBehind
<1>1. Init => IInv /\ Counted
  BY InitIInv, InitCounted
<1>2. ASSUME IInv, Counted, OneOwner, [Next]_vars, [NoTransfer]_vars
      PROVE  (IInv /\ Counted)'
  <2>1. IInv'
    BY <1>2, NextStep
  <2>2. Table(nodes)
    BY <1>2, NodesTable DEF IInv
  <2>3. Table(nodes')
    <3>1. DOMAIN nodes' \subseteq Nodes /\ nodes' \in [DOMAIN nodes' -> Row]
      BY <2>1 DEF IInv, RowsOK
    <3> QED BY <3>1, FS_Subset DEF Table
  <2> QED BY <1>2, <2>1, <2>2, <2>3, CounterStep
<1>3. IInv /\ Counted => CountersNeverBehind
  <2> SUFFICES ASSUME IInv, Counted PROVE CountersNeverBehind
    OBVIOUS
  <2>1. Table(nodes)
    BY NodesTable DEF IInv
  <2> QED BY <2>1, RecomputeIs DEF Counted, CountersNeverBehind
<1> QED BY <1>1, <1>2, <1>3, PTL DEF Spec

(* Where the purge job takes nothing either, both counters are exact.      *)
THEOREM CountersAreExact ==
    ASSUME IsFiniteSet(Nodes)
    PROVE  Spec /\ [][NoTransfer]_vars /\ [][NoSweep]_vars /\ []OneOwner => []CountersExact
<1>1. Init => IInv /\ Counted /\ TrashCounted
  BY InitIInv, InitCounted
<1>2. ASSUME IInv, Counted, TrashCounted, OneOwner, [Next]_vars, [NoTransfer]_vars, [NoSweep]_vars
      PROVE  (IInv /\ Counted /\ TrashCounted)'
  <2>1. IInv'
    BY <1>2, NextStep
  <2>2. Table(nodes)
    BY <1>2, NodesTable DEF IInv
  <2>3. Table(nodes')
    <3>1. DOMAIN nodes' \subseteq Nodes /\ nodes' \in [DOMAIN nodes' -> Row]
      BY <2>1 DEF IInv, RowsOK
    <3> QED BY <3>1, FS_Subset DEF Table
  <2> QED BY <1>2, <2>1, <2>2, <2>3, CounterStep
<1>3. IInv /\ Counted /\ TrashCounted => CountersExact
  <2> SUFFICES ASSUME IInv, Counted, TrashCounted PROVE CountersExact
    OBVIOUS
  <2>1. Table(nodes)
    BY NodesTable DEF IInv
  <2> QED BY <2>1, RecomputeIs DEF Counted, TrashCounted, CountersExact
<1> QED BY <1>1, <1>2, <1>3, PTL DEF Spec

-----------------------------------------------------------------------------
(* Without grants: the root folder of a user is theirs, and what is under  *)
(* it too.                                                                 *)
Private ==
    /\ grants = {}
    /\ OneOwner
    /\ \A u \in Users : nodes[RootOf[u]].owner = u

(* Rows keep their owners, and a row that is hung elsewhere is hung under  *)
(* a row of the same owner.                                                *)
LEMMA OwnersKept ==
    ASSUME IInv, Private, grants' = {}, DOMAIN nodes' = DOMAIN nodes,
           \A m \in DOMAIN nodes :
                /\ nodes'[m].owner = nodes[m].owner
                /\ m \notin Roots =>
                      \/ nodes'[m].parent = nodes[m].parent
                      \/ /\ nodes'[m].parent \in DOMAIN nodes
                         /\ nodes[nodes'[m].parent].owner = nodes[m].owner
    PROVE  Private'
<1>1. \A m \in DOMAIN nodes \ Roots : nodes[m].parent \in DOMAIN nodes
  BY DEF IInv, RowsOK
<1>2. ASSUME NEW m \in DOMAIN nodes' \ Roots
      PROVE  nodes'[m].owner = nodes'[nodes'[m].parent].owner
  BY <1>1, <1>2 DEF Private, OneOwner
<1>3. \A u \in Users : RootOf[u] \in DOMAIN nodes
  BY ConstantsAssumption DEF IInv, RowsOK, Roots
<1> QED BY <1>2, <1>3 DEF Private, OneOwner

(* Rows are added under rows of the same owner.                            *)
LEMMA OwnersAdded ==
    ASSUME IInv, Private, grants' = {}, DOMAIN nodes \subseteq DOMAIN nodes',
           \A m \in DOMAIN nodes : nodes'[m] = nodes[m],
           \A m \in DOMAIN nodes' \ DOMAIN nodes :
                nodes'[m].owner = nodes'[nodes'[m].parent].owner
    PROVE  Private'
<1>1. \A m \in DOMAIN nodes \ Roots : nodes[m].parent \in DOMAIN nodes
  BY DEF IInv, RowsOK
<1>2. ASSUME NEW m \in DOMAIN nodes' \ Roots
      PROVE  nodes'[m].owner = nodes'[nodes'[m].parent].owner
  BY <1>1, <1>2 DEF Private, OneOwner
<1>3. \A u \in Users : RootOf[u] \in DOMAIN nodes
  BY ConstantsAssumption DEF IInv, RowsOK, Roots
<1> QED BY <1>2, <1>3 DEF Private, OneOwner

(* Rows go, with all beneath them.                                         *)
LEMMA OwnersCut ==
    ASSUME IInv, IInv', Private, NEW G, NEW K, Purged(K, G)
    PROVE  Private'
<1>1. nodes' = [m \in DOMAIN nodes \ G |-> nodes[m]] /\ grants' = {}
  BY DEF Purged, WithoutRows, Private
<1>2. ASSUME NEW m \in DOMAIN nodes' \ Roots
      PROVE  nodes'[m].owner = nodes'[nodes'[m].parent].owner
  <2>1. nodes'[m].parent \in DOMAIN nodes'
    BY <1>2 DEF IInv, RowsOK
  <2> QED BY <1>1, <2>1 DEF Private, OneOwner
<1>3. \A u \in Users : RootOf[u] \in DOMAIN nodes'
  BY ConstantsAssumption DEF IInv, RowsOK, Roots
<1> QED BY <1>1, <1>2, <1>3 DEF Private, OneOwner

(* Every step but a transfer keeps what is private private.                *)
LEMMA PrivateStep ==
    ASSUME IInv, IInv', Private, [Next]_vars, [NoTransfer]_vars
    PROVE  Private'
<1>0. /\ nodes \in [DOMAIN nodes -> Row] /\ grants = {} /\ clock \in Nat
      /\ DOMAIN nodes \subseteq Nodes
      /\ \A n \in DOMAIN nodes : nodes[n] \in Row
  BY DEF IInv, RowsOK, Private
<1>1. ASSUME nodes' = nodes, grants' = grants
      PROVE  Private'
  BY <1>1 DEF Private, OneOwner
<1>2. ASSUME NEW u \in Users, NEW p \in DOMAIN nodes, NEW n \in OneOf(Fresh),
             NEW name \in Names,
             \/ create_folder(u, p, n, name)
             \/ \E size \in Sizes : upload_new(u, p, n, name, size)
      PROVE  Private'
  <2>1. n \notin DOMAIN nodes /\ grants' = {}
    BY <1>0, <1>2 DEF OneOf, Fresh, create_folder, upload_new
  <2>2. PICK row : /\ nodes' = WithRow(nodes, n, row)
                   /\ row.owner = nodes[p].owner /\ row.parent = p
    <3>1. \A size : /\ File(nodes[p].owner, p, name, size).owner = nodes[p].owner
                    /\ File(nodes[p].owner, p, name, size).parent = p
      BY DEF File
    <3>2. /\ Folder(nodes[p].owner, p, name).owner = nodes[p].owner
          /\ Folder(nodes[p].owner, p, name).parent = p
      BY DEF Folder
    <3> QED BY <1>2, <3>1, <3>2 DEF create_folder, upload_new
  <2>3. /\ DOMAIN nodes' = DOMAIN nodes \cup {n} /\ nodes'[n] = row
        /\ \A m \in DOMAIN nodes : nodes'[m] = nodes[m]
    BY <2>1, <2>2 DEF WithRow
  <2>4. \A m \in DOMAIN nodes' \ DOMAIN nodes :
              nodes'[m].owner = nodes'[nodes'[m].parent].owner
    BY <2>2, <2>3
  <2> QED BY <2>1, <2>3, <2>4, OwnersAdded
<1>3. ASSUME NEW u \in Users, NEW n \in DOMAIN nodes, NEW name \in Names, rename(u, n, name)
      PROVE  Private'
  <2>1. /\ [nodes[n] EXCEPT !.name = name].parent = nodes[n].parent
        /\ [nodes[n] EXCEPT !.name = name].owner = nodes[n].owner
    BY <1>0, NamedRow
  <2>2. /\ DOMAIN nodes' = DOMAIN nodes /\ grants' = {}
        /\ \A m \in DOMAIN nodes : nodes'[m].owner = nodes[m].owner
                                   /\ nodes'[m].parent = nodes[m].parent
    BY <1>0, <1>3, <2>1 DEF rename
  <2> QED BY <2>2, OwnersKept
<1>4. ASSUME NEW u \in Users, NEW n \in DOMAIN nodes, NEW d \in DOMAIN nodes, move(u, n, d)
      PROVE  Private'
  <2>1. /\ [nodes[n] EXCEPT !.parent = d].parent = d
        /\ [nodes[n] EXCEPT !.parent = d].owner = nodes[n].owner
    BY <1>0, HungRow
  <2>2. /\ DOMAIN nodes' = DOMAIN nodes /\ grants' = {}
        /\ \A m \in DOMAIN nodes : /\ nodes'[m].owner = nodes[m].owner
                                   /\ nodes'[m].parent = IF m = n THEN d ELSE nodes[m].parent
    BY <1>0, <1>4, <2>1 DEF move
  <2>3. nodes[d].owner = nodes[n].owner
    BY <1>4 DEF move, CanMove
  <2> QED BY <2>2, <2>3, OwnersKept
<1>5. ASSUME NEW u \in Users, NEW n \in DOMAIN nodes, delete(u, n)
      PROVE  Private'
  <2>1. \A m \in DOMAIN nodes :
           /\ [nodes[m] EXCEPT !.deletedAt = clock + 1].parent = nodes[m].parent
           /\ [nodes[m] EXCEPT !.deletedAt = clock + 1].owner = nodes[m].owner
    BY <1>0, StampedRow
  <2>2. /\ DOMAIN nodes' = DOMAIN nodes /\ grants' = {}
        /\ \A m \in DOMAIN nodes : nodes'[m].owner = nodes[m].owner
                                   /\ nodes'[m].parent = nodes[m].parent
    BY <1>0, <1>5, <2>1 DEF delete, soft_delete_subtree
  <2> QED BY <2>2, OwnersKept
<1>6. ASSUME NEW u \in Users, NEW n \in DOMAIN nodes, restore(u, n)
      PROVE  Private'
  <2> DEFINE t == restore_subtree(nodes, n)
             d == RestoreTarget(u, n)
  <2>1. \A m \in DOMAIN nodes : /\ [nodes[m] EXCEPT !.deletedAt = Never].parent = nodes[m].parent
                                /\ [nodes[m] EXCEPT !.deletedAt = Never].owner = nodes[m].owner
                                /\ [nodes[m] EXCEPT !.deletedAt = Never] \in Row
    BY <1>0, StampedRow DEF Never
  <2>2. /\ t \in [DOMAIN nodes -> Row]
        /\ \A m \in DOMAIN nodes : t[m].parent = nodes[m].parent /\ t[m].owner = nodes[m].owner
    BY <1>0, <2>1 DEF restore_subtree
  <2>3. nodes' = [t EXCEPT ![n].parent = d] /\ grants' = {} /\ nodes[n].owner = u
    BY <1>0, <1>6 DEF restore
  <2>4. d \in DOMAIN nodes /\ (d = nodes[n].parent \/ nodes[d].owner = u)
    <3>1. RootOf[u] \in DOMAIN nodes /\ nodes[RootOf[u]].owner = u
      BY ConstantsAssumption DEF IInv, RowsOK, Roots, Private
    <3> QED BY <3>1 DEF RestoreTarget, Live
  <2> HIDE DEF t, d
  <2>5. [t[n] EXCEPT !.parent = d].parent = d /\ [t[n] EXCEPT !.parent = d].owner = nodes[n].owner
    BY <1>0, <2>2, <2>4, HungRow
  <2>6. /\ DOMAIN nodes' = DOMAIN nodes
        /\ \A m \in DOMAIN nodes : /\ nodes'[m].owner = nodes[m].owner
                                   /\ nodes'[m].parent = IF m = n THEN d ELSE nodes[m].parent
    BY <2>2, <2>3, <2>5
  <2> QED BY <2>3, <2>4, <2>6, OwnersKept
<1>7. ASSUME NEW u \in Users, NEW n \in DOMAIN nodes, NEW size, _store_version(n, size)
      PROVE  Private'
  <2>1. PICK w : nodes' = [nodes EXCEPT ![n].versions = w]
    BY <1>7 DEF _store_version
  <2>2. /\ [nodes[n] EXCEPT !.versions = w].parent = nodes[n].parent
        /\ [nodes[n] EXCEPT !.versions = w].owner = nodes[n].owner
    <3>1. nodes[n] \in Row
      BY <1>0
    <3> QED BY <3>1 DEF Row
  <2>3. /\ DOMAIN nodes' = DOMAIN nodes /\ grants' = {}
        /\ \A m \in DOMAIN nodes : nodes'[m].owner = nodes[m].owner
                                   /\ nodes'[m].parent = nodes[m].parent
    BY <1>0, <1>7, <2>1, <2>2 DEF _store_version
  <2> QED BY <2>3, OwnersKept
<1>8. ASSUME NEW u \in Users, NEW n \in DOMAIN nodes,
             \/ \E m \in OneOf(Fresh), name \in Names, size \in Sizes :
                    upload_new_refused(u, n, m, name, size)
             \/ \E size \in Sizes : upload_version_refused(u, n, size)
             \/ \E d \in DOMAIN nodes, name \in Names : copy_refused(u, n, d, name)
      PROVE  Private'
  BY <1>1, <1>8 DEF upload_new_refused, upload_version_refused, copy_refused, StrayObject
<1>9. ASSUME NEW u \in Users, NEW s \in DOMAIN nodes, NEW d \in DOMAIN nodes, NEW name \in Names,
             copy(u, s, d, name)
      PROVE  Private'
  <2>1. PICK S \in SUBSET DOMAIN nodes : CopyOf(u, s, d, S)
    BY <1>9, CopyRows
  <2>2. /\ DOMAIN nodes \subseteq DOMAIN nodes'
        /\ \A m \in DOMAIN nodes : nodes'[m] = nodes[m]
    BY <2>1 DEF CopyOf
  <2>3. PICK f \in Bijection(S, DOMAIN nodes' \ DOMAIN nodes) : \A x \in S : CopyMade(u, s, d, S, f, x)
    BY <2>1 DEF CopyOf
  <2>4. \A x \in S : /\ nodes'[f[x]].owner = u
                     /\ nodes'[f[x]].parent = IF x = s THEN d ELSE f[nodes[x].parent]
                     /\ x # s => nodes[x].parent \in S
    BY <2>3 DEF CopyMade
  <2>5. nodes'[d].owner = u
    <3>1. nodes[d].owner = u
      BY <1>0, <1>9 DEF copy, CanCopy, MayEdit, HasRole
    <3> QED BY <2>2, <3>1
  <2>6. \A m \in DOMAIN nodes' \ DOMAIN nodes : \E x \in S : f[x] = m
    BY DEF Bijection, Surjection
  <2>7. \A m \in DOMAIN nodes' \ DOMAIN nodes : nodes'[m].owner = nodes'[nodes'[m].parent].owner
    BY <2>4, <2>5, <2>6
  <2>8. grants' = {}
    BY <1>0, <1>9 DEF copy
  <2> QED BY <2>2, <2>7, <2>8, OwnersAdded
<1>10. ASSUME NEW u \in Users, NEW n \in DOMAIN nodes, purge(u, n)
       PROVE  Private'
  BY <1>10, OwnersCut DEF purge, purge_subtree
<1>11. ASSUME NEW u \in Users, empty_trash(u)
       PROVE  Private'
  BY <1>11, OwnersCut DEF empty_trash, purge_subtree
<1>12. ASSUME NEW cutoff \in 1 .. clock + 1, PurgeJob(cutoff)
       PROVE  Private'
  BY <1>12, OwnersCut DEF PurgeJob
<1>13. CASE ReconcileQuotasJob \/ OrphanReaper \/ UNCHANGED vars
  BY <1>1, <1>13 DEF ReconcileQuotasJob, OrphanReaper, vars
<1>14. ASSUME NEW u \in Users, NEW n \in DOMAIN nodes,
              \/ \E size \in Sizes : upload_version(u, n, size)
              \/ \E i \in 1 .. Retention : restore_version(u, n, i)
       PROVE  Private'
  BY <1>7, <1>14 DEF upload_version, restore_version
<1> QED
  BY <1>2, <1>3, <1>4, <1>5, <1>6, <1>8, <1>9, <1>10, <1>11, <1>12, <1>13, <1>14
     DEF NoTransfer, Next, nodes_router, content_router, trash_router

(* While nothing is shared and nothing changes hands, every row belongs to *)
(* the owner of its folder.                                                *)
THEOREM PrivateTrees ==
    ASSUME Shares = {}
    PROVE  Spec /\ [][NoTransfer]_vars => []OneOwner
<1>1. Init => IInv /\ Private
  <2> SUFFICES ASSUME Init PROVE Private
    BY InitIInv
  <2>1. DOMAIN nodes = Roots /\ grants = {}
    BY DEF Init
  <2>2. ASSUME NEW u \in Users PROVE nodes[RootOf[u]].owner = u
    <3>1. (CHOOSE v \in Users : RootOf[v] = RootOf[u]) = u
      BY ConstantsAssumption
    <3>2. RootOf[u] \in Roots
      BY DEF Roots
    <3>3. nodes[RootOf[u]] = Folder(u, NoParent, RootName)
      BY <3>1, <3>2 DEF Init
    <3> QED BY <3>3 DEF Folder
  <2> QED BY <2>1, <2>2 DEF Private, OneOwner
<1>2. IInv /\ Private /\ [Next]_vars /\ [NoTransfer]_vars => (IInv /\ Private)'
  BY NextStep, PrivateStep
<1>3. Private => OneOwner
  BY DEF Private
<1> QED BY <1>1, <1>2, <1>3, PTL DEF Spec
=============================================================================
