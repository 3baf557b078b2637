---------------------------- MODULE CommonLemmas ----------------------------
(***************************************************************************)
(* What the walks of NodeTree return, for every table, and how the three   *)
(* ways a table changes shape -- a row moves, rows are added, rows go --   *)
(* keep every row under a root.                                            *)
(*                                                                         *)
(* And what SumFunctionOnSet adds up, for every finite set: its definition *)
(* is a recursive function, so the facts rest on an induction over the     *)
(* subsets of the set, stated without an operator for the induction        *)
(* hypothesis.                                                             *)
(***************************************************************************)
EXTENDS NodeTree, Functions, FiniteSetTheorems, WellFoundedInduction, TLAPS

(* Every down-closed set that holds the roots holds every row: the form of *)
(* "every row hangs from a root" that is preserved step by step.           *)
Grounded(t, roots) ==
    \A S \in SUBSET DOMAIN t : roots \subseteq S /\ DownClosed(t, S) => S = DOMAIN t

-----------------------------------------------------------------------------
(* A row is in its own subtree.                                            *)
LEMMA SubtreeSelf ==
    ASSUME NEW t, NEW n \in DOMAIN t
    PROVE  n \in Subtree(t, n)
BY DEF Subtree

(* descendants walks to the end: the children of a member are members.     *)
LEMMA SubtreeClosed ==
    ASSUME NEW t, NEW n
    PROVE  /\ Subtree(t, n) \subseteq DOMAIN t
           /\ DownClosed(t, Subtree(t, n))
<1>1. Subtree(t, n) \subseteq DOMAIN t
  BY DEF Subtree
<1>2. ASSUME NEW m \in DOMAIN t, t[m].parent \in Subtree(t, n)
      PROVE  m \in Subtree(t, n)
  <2>1. ASSUME NEW S \in SUBSET DOMAIN t, n \in S, DownClosed(t, S)
        PROVE  m \in S
    <3>1. t[m].parent \in S
      BY <1>2, <2>1 DEF Subtree
    <3> QED
      BY <2>1, <3>1 DEF DownClosed
  <2> QED
    BY <2>1 DEF Subtree
<1> QED
  BY <1>1, <1>2 DEF DownClosed

(* It walks no further than it must.                                       *)
LEMMA SubtreeLeast ==
    ASSUME NEW t, NEW n, NEW S \in SUBSET DOMAIN t, n \in S, DownClosed(t, S)
    PROVE  Subtree(t, n) \subseteq S
BY DEF Subtree

(* Every member of a subtree but its top has its parent there.             *)
LEMMA SubtreeParent ==
    ASSUME NEW t, NEW n, NEW m \in Subtree(t, n), m # n, n \in DOMAIN t
    PROVE  t[m].parent \in Subtree(t, n)
<1> DEFINE T == Subtree(t, n) \ {m}
<1>1. SUFFICES ASSUME t[m].parent \notin Subtree(t, n) PROVE FALSE
  OBVIOUS
<1>2. Subtree(t, n) \subseteq DOMAIN t /\ DownClosed(t, Subtree(t, n))
  BY SubtreeClosed
<1>3. n \in T
  BY SubtreeSelf
<1>4. DownClosed(t, T)
  BY <1>1, <1>2 DEF DownClosed
<1>5. Subtree(t, n) \subseteq T
  BY <1>2, <1>3, <1>4, SubtreeLeast
<1> QED
  BY <1>5

(* A row without a parent in the table is in no subtree but its own.       *)
LEMMA SubtreeOfOther ==
    ASSUME NEW t, NEW n \in DOMAIN t, NEW r \in DOMAIN t, n # r,
           t[r].parent \notin DOMAIN t
    PROVE  r \notin Subtree(t, n)
BY SubtreeParent, SubtreeClosed

(* The chain of a row holds the row and is closed upwards.                 *)
LEMMA ChainClosed ==
    ASSUME NEW t, NEW n \in DOMAIN t
    PROVE  /\ Chain(t, n) \subseteq DOMAIN t
           /\ n \in Chain(t, n)
           /\ UpClosed(t, Chain(t, n))
<1>1. Chain(t, n) \subseteq DOMAIN t /\ n \in Chain(t, n)
  BY DEF Chain
<1>2. ASSUME NEW m \in Chain(t, n), t[m].parent \in DOMAIN t
      PROVE  t[m].parent \in Chain(t, n)
  <2>1. ASSUME NEW S \in SUBSET DOMAIN t, n \in S, UpClosed(t, S)
        PROVE  t[m].parent \in S
    <3>1. m \in S
      BY <1>2, <2>1 DEF Chain
    <3> QED
      BY <1>2, <2>1, <3>1 DEF UpClosed
  <2> QED
    BY <1>2, <2>1 DEF Chain
<1> QED
  BY <1>1, <1>2 DEF UpClosed

(* The walk up finds what the walk down would: is_ancestor_of, which walks *)
(* up, decides membership in a subtree.                                    *)
LEMMA ChainFindsSubtree ==
    ASSUME NEW t, NEW n \in DOMAIN t, NEW m \in Subtree(t, n)
    PROVE  is_ancestor_of(t, n, m)
<1> DEFINE Below == DOMAIN t \ Chain(t, m)
<1>1. m \in DOMAIN t
  BY SubtreeClosed
<1>2. Chain(t, m) \subseteq DOMAIN t /\ m \in Chain(t, m) /\ UpClosed(t, Chain(t, m))
  BY <1>1, ChainClosed
<1>3. DownClosed(t, Below)
  BY <1>2 DEF DownClosed, UpClosed
<1>4. SUFFICES ASSUME n \in Below PROVE FALSE
  BY DEF is_ancestor_of
<1>5. Subtree(t, n) \subseteq Below
  BY <1>3, <1>4, SubtreeLeast
<1> QED
  BY <1>2, <1>5

(* In a grounded table the chain of every row ends at a root.              *)
LEMMA GroundedChain ==
    ASSUME NEW t, NEW roots, roots \subseteq DOMAIN t, Grounded(t, roots),
           NEW n \in DOMAIN t
    PROVE  \E r \in roots : r \in Chain(t, n)
<1> DEFINE Off == DOMAIN t \ Chain(t, n)
<1>1. SUFFICES ASSUME \A r \in roots : r \notin Chain(t, n) PROVE FALSE
  OBVIOUS
<1>2. n \in Chain(t, n) /\ UpClosed(t, Chain(t, n))
  BY ChainClosed
<1>3. roots \subseteq Off
  BY <1>1
<1>4. DownClosed(t, Off)
  BY <1>2 DEF DownClosed, UpClosed
<1>5. Off = DOMAIN t
  BY <1>3, <1>4 DEF Grounded
<1> QED
  BY <1>2, <1>5

-----------------------------------------------------------------------------
(* Parents unchanged: still grounded.                                      *)
LEMMA GroundedSameParents ==
    ASSUME NEW t, NEW t2, NEW roots, Grounded(t, roots),
           DOMAIN t2 = DOMAIN t,
           \A m \in DOMAIN t : t2[m].parent = t[m].parent
    PROVE  Grounded(t2, roots)
BY DEF Grounded, DownClosed

(* One row hung elsewhere, not beneath itself: still grounded.             *)
LEMMA GroundedMove ==
    ASSUME NEW t, NEW t2, NEW roots, Grounded(t, roots),
           DOMAIN t2 = DOMAIN t,
           NEW n \in DOMAIN t, NEW d \in DOMAIN t, d \notin Subtree(t, n),
           t2[n].parent = d,
           \A m \in DOMAIN t \ {n} : t2[m].parent = t[m].parent
    PROVE  Grounded(t2, roots)
<1>1. SUFFICES ASSUME NEW S \in SUBSET DOMAIN t, roots \subseteq S, DownClosed(t2, S)
               PROVE  S = DOMAIN t
  BY DEF Grounded
<1> DEFINE T == S \cup Subtree(t, n)
<1>2. Subtree(t, n) \subseteq DOMAIN t /\ DownClosed(t, Subtree(t, n)) /\ n \in Subtree(t, n)
  BY SubtreeClosed, SubtreeSelf
<1>3. DownClosed(t, T)
  BY <1>1, <1>2 DEF DownClosed
<1>4. T = DOMAIN t
  BY <1>1, <1>2, <1>3 DEF Grounded
<1>5. n \in S
  BY <1>1, <1>4 DEF DownClosed
<1>6. DownClosed(t, S)
  BY <1>1, <1>5 DEF DownClosed
<1> QED
  BY <1>1, <1>6 DEF Grounded

(* One row added beneath an old one: still grounded.                       *)
LEMMA GroundedLeaf ==
    ASSUME NEW t, NEW t2, NEW roots, Grounded(t, roots), roots \subseteq DOMAIN t,
           NEW n, n \notin DOMAIN t, DOMAIN t2 = DOMAIN t \cup {n},
           t2[n].parent \in DOMAIN t,
           \A m \in DOMAIN t : t2[m].parent = t[m].parent
    PROVE  Grounded(t2, roots)
<1>1. SUFFICES ASSUME NEW S \in SUBSET DOMAIN t2, roots \subseteq S, DownClosed(t2, S)
               PROVE  S = DOMAIN t2
  BY DEF Grounded
<1>2. DownClosed(t, S \cap DOMAIN t)
  BY <1>1 DEF DownClosed
<1>3. S \cap DOMAIN t = DOMAIN t
  BY <1>1, <1>2 DEF Grounded
<1>4. n \in S
  BY <1>1, <1>3 DEF DownClosed
<1> QED
  BY <1>1, <1>3, <1>4

(* A copy of part of a subtree added beneath an old row: still grounded.   *)
LEMMA GroundedGraft ==
    ASSUME NEW t, NEW t2, NEW roots, Grounded(t, roots), roots \subseteq DOMAIN t,
           NEW s \in DOMAIN t, NEW d \in DOMAIN t,
           NEW part \in SUBSET Subtree(t, s), s \in part, NEW f,
           \A x \in part : f[x] \notin DOMAIN t,
           DOMAIN t2 = DOMAIN t \cup {f[x] : x \in part},
           \A m \in DOMAIN t : t2[m].parent = t[m].parent,
           t2[f[s]].parent = d,
           \A x \in part \ {s} : /\ t[x].parent \in part
                                 /\ t2[f[x]].parent = f[t[x].parent]
    PROVE  Grounded(t2, roots)
<1>1. SUFFICES ASSUME NEW S \in SUBSET DOMAIN t2, roots \subseteq S, DownClosed(t2, S)
               PROVE  S = DOMAIN t2
  BY DEF Grounded
<1>2. DownClosed(t, S \cap DOMAIN t)
  BY <1>1 DEF DownClosed
<1>3. S \cap DOMAIN t = DOMAIN t
  BY <1>1, <1>2 DEF Grounded
<1>4. f[s] \in S
  BY <1>1, <1>3 DEF DownClosed
<1> DEFINE W == {x \in DOMAIN t : x \in part => f[x] \in S}
<1>5. DownClosed(t, W)
  <2>1. SUFFICES ASSUME NEW x \in DOMAIN t, t[x].parent \in W, x \in part
                 PROVE  f[x] \in S
    BY DEF DownClosed
  <2>2. CASE x = s
    BY <1>4, <2>2
  <2>3. CASE x # s
    <3>1. f[t[x].parent] \in S
      BY <2>1, <2>3
    <3> QED
      BY <1>1, <2>1, <2>3, <3>1 DEF DownClosed
  <2> QED
    BY <2>2, <2>3
<1>6. s \in W
  BY <1>4
<1>7. Subtree(t, s) \subseteq W
  BY <1>5, <1>6, SubtreeLeast
<1>8. \A x \in part : f[x] \in S
  BY <1>7
<1> QED
  BY <1>1, <1>3, <1>8

(* Whole subtrees cut out: still grounded, and every parent still there.   *)
LEMMA GroundedCut ==
    ASSUME NEW t, NEW roots, Grounded(t, roots),
           NEW gone \in SUBSET DOMAIN t, DownClosed(t, gone), roots \cap gone = {}
    PROVE  Grounded(WithoutRows(t, gone), roots)
<1> DEFINE t2 == WithoutRows(t, gone)
<1>1. DOMAIN t2 = DOMAIN t \ gone /\ \A m \in DOMAIN t2 : t2[m] = t[m]
  BY DEF WithoutRows
<1> HIDE DEF t2
<1>2. SUFFICES ASSUME NEW S \in SUBSET DOMAIN t2, roots \subseteq S, DownClosed(t2, S)
               PROVE  S = DOMAIN t2
  BY DEF Grounded, t2
<1>3. DownClosed(t, S \cup gone)
  BY <1>1, <1>2 DEF DownClosed
<1>4. S \cup gone = DOMAIN t
  BY <1>1, <1>2, <1>3 DEF Grounded
<1> QED
  BY <1>1, <1>2, <1>4

(* A union of subtrees is closed downwards.                                *)
LEMMA UnionOfSubtrees ==
    ASSUME NEW t, NEW E
    PROVE  /\ UNION {Subtree(t, e) : e \in E} \subseteq DOMAIN t
           /\ DownClosed(t, UNION {Subtree(t, e) : e \in E})
BY SubtreeClosed DEF DownClosed

-----------------------------------------------------------------------------
(* Sums.                                                                   *)

(* Induction over the subsets of a finite set, as a statement about the    *)
(* set of those that are good: if a subset is good whenever all smaller    *)
(* ones are, all are.                                                      *)
LEMMA SubsetInduction ==
    ASSUME NEW S, IsFiniteSet(S), NEW Good \in SUBSET SUBSET S,
           \A s \in SUBSET S : (\A r \in SUBSET s : r # s => r \in Good) => s \in Good
    PROVE  Good = SUBSET S
<1> DEFINE Bad == (SUBSET S) \ Good
<1> SUFFICES ASSUME Bad # {} PROVE FALSE OBVIOUS
<1>1. IsWellFoundedOn(StrictSubsetOrdering(S), FiniteSubsetsOf(S))
  BY FS_StrictSubsetOrderingWellFounded
<1>2. Bad \subseteq FiniteSubsetsOf(S)
  BY FS_Subset DEF FiniteSubsetsOf
<1>3. \E a \in Bad : \A b \in Bad : <<b, a>> \notin StrictSubsetOrdering(S)
  <2> HIDE DEF Bad
  <2> QED BY <1>1, <1>2, WFMin
<1>5. PICK a \in Bad : \A b \in Bad : <<b, a>> \notin StrictSubsetOrdering(S)
  BY <1>3
<1>4. ASSUME NEW r \in SUBSET a, r # a PROVE r \in Good
  BY <1>5, <1>4 DEF StrictSubsetOrdering
<1> QED BY <1>4

(* The element MapThenFoldSet takes out of s.                              *)
Picked(s) == CHOOSE x \in s : TRUE

(* A set that has an element gives one.                                    *)
LEMMA PickedIn == ASSUME NEW s, s # {} PROVE Picked(s) \in s
BY DEF Picked

(* What the recursive function behind SumFunctionOnSet(g, S) must satisfy. *)
Solves(h, g, S) ==
   h = [s \in SUBSET S |-> IF s = {} THEN 0 ELSE g[Picked(s)] + h[s \ {Picked(s)}]]

(* SumFunctionOnSet is the value at S of some solution.                    *)
LEMMA SumIsChoice ==
    ASSUME NEW g, NEW S
    PROVE SumFunctionOnSet(g, S) = (CHOOSE h : Solves(h, g, S))[S]
BY DEF SumFunctionOnSet, FoldFunctionOnSet, MapThenFoldSet, Solves, Picked

(* Two solutions agree.                                                    *)
LEMMA SolutionsAgree ==
    ASSUME NEW g, NEW S, IsFiniteSet(S), NEW h1, NEW h2, Solves(h1, g, S), Solves(h2, g, S)
    PROVE h1[S] = h2[S]
<1> DEFINE Good == {s \in SUBSET S : h1[s] = h2[s]}
<1>1. ASSUME NEW s \in SUBSET S, \A r \in SUBSET s : r # s => r \in Good
      PROVE  s \in Good
  <2>1. CASE s = {}
    BY <2>1 DEF Solves
  <2>2. CASE s # {}
    <3> DEFINE r == s \ {Picked(s)}
    <3>1. r \in SUBSET s /\ r # s BY <2>2, PickedIn
    <3>2. h1[r] = h2[r] BY <3>1, <1>1
    <3>3. h1[s] = g[Picked(s)] + h1[r] BY <2>2 DEF Solves
    <3>4. h2[s] = g[Picked(s)] + h2[r] BY <2>2 DEF Solves
    <3> QED BY <3>2, <3>3, <3>4
  <2> QED BY <2>1, <2>2
<1>2. Good \in SUBSET SUBSET S OBVIOUS
<1>3. Good = SUBSET S
  <2> HIDE DEF Good
  <2> QED BY <1>1, <1>2, SubsetInduction
<1> QED BY <1>3

(* The same equation on the sums themselves.                               *)
SumEqn(g, s) ==
  SumFunctionOnSet(g, s) = IF s = {} THEN 0 ELSE g[Picked(s)] + SumFunctionOnSet(g, s \ {Picked(s)})

(* On a finite set the equation has a solution, so the sum satisfies it.   *)
LEMMA SumEquation ==
    ASSUME NEW g, NEW S, IsFiniteSet(S)
    PROVE SumEqn(g, S)
<1> DEFINE Good == {s \in SUBSET S : SumEqn(g, s)}
<1>1. ASSUME NEW s \in SUBSET S, \A r \in SUBSET s : r # s => r \in Good
      PROVE  s \in Good
  <2> DEFINE top == IF s = {} THEN 0 ELSE g[Picked(s)] + SumFunctionOnSet(g, s \ {Picked(s)})
             K == [r \in SUBSET s |-> IF r = s THEN top ELSE SumFunctionOnSet(g, r)]
  <2>1. ASSUME NEW r \in SUBSET s
        PROVE  K[r] = IF r = {} THEN 0 ELSE g[Picked(r)] + K[r \ {Picked(r)}]
    <3>1. CASE r = {}
      <4>1. CASE r = s BY <4>1, <3>1
      <4>2. CASE r # s
        <5>1. SumEqn(g, r) BY <4>2, <1>1
        <5>2. K[r] = SumFunctionOnSet(g, r) BY <4>2
        <5> QED BY <5>1, <5>2, <3>1 DEF SumEqn
      <4> QED BY <4>1, <4>2
    <3>2. CASE r # {}
      <4> DEFINE q == r \ {Picked(r)}
      <4>1. q \in SUBSET s /\ q # s BY <3>2, PickedIn
      <4>2. K[q] = SumFunctionOnSet(g, q) BY <4>1
      <4>3. CASE r = s
        <5>1. K[r] = g[Picked(r)] + SumFunctionOnSet(g, q)
          BY <4>3, <3>2
        <5> QED BY <5>1, <4>2, <3>2
      <4>4. CASE r # s
        <5>1. SumEqn(g, r) BY <4>4, <1>1
        <5>2. K[r] = SumFunctionOnSet(g, r) BY <4>4
        <5> QED BY <5>1, <5>2, <4>2, <3>2 DEF SumEqn
      <4> QED BY <4>3, <4>4
    <3> QED BY <3>1, <3>2
  <2>2. K = [r \in SUBSET s |-> K[r]] OBVIOUS
  <2>3. K[s] = top OBVIOUS
  <2> HIDE DEF K
  <2>4. Solves(K, g, s) BY <2>1, <2>2 DEF Solves
  <2>5. Solves(CHOOSE h : Solves(h, g, s), g, s) BY <2>4
  <2>6. IsFiniteSet(s) BY FS_Subset
  <2>7. SumFunctionOnSet(g, s) = K[s]
    BY <2>4, <2>5, <2>6, SolutionsAgree, SumIsChoice
  <2> QED BY <2>7, <2>3 DEF SumEqn
<1>2. Good \in SUBSET SUBSET S OBVIOUS
<1>3. Good = SUBSET S
  <2> HIDE DEF Good
  <2> QED BY <1>1, <1>2, SubsetInduction
<1> QED BY <1>3

(* The sum over nothing is zero.                                           *)
LEMMA SumEmpty ==
    ASSUME NEW g
    PROVE SumFunctionOnSet(g, {}) = 0
BY SumEquation, FS_EmptySet DEF SumEqn

(* A sum of naturals is a natural.                                         *)
LEMMA SumNat ==
    ASSUME NEW S, IsFiniteSet(S), NEW g, \A x \in S : g[x] \in Nat
    PROVE SumFunctionOnSet(g, S) \in Nat
<1> DEFINE Good == {s \in SUBSET S : SumFunctionOnSet(g, s) \in Nat}
<1>1. ASSUME NEW s \in SUBSET S, \A r \in SUBSET s : r # s => r \in Good
      PROVE  s \in Good
  <2>1. SumEqn(g, s) BY SumEquation, FS_Subset
  <2>2. CASE s = {} BY <2>1, <2>2 DEF SumEqn
  <2>3. CASE s # {}
    <3>1. Picked(s) \in s BY <2>3, PickedIn
    <3>2. SumFunctionOnSet(g, s \ {Picked(s)}) \in Nat
      BY <3>1, <1>1
    <3> QED BY <3>1, <3>2, <2>1, <2>3 DEF SumEqn
  <2> QED BY <2>2, <2>3
<1>2. Good \in SUBSET SUBSET S OBVIOUS
<1>3. Good = SUBSET S
  <2> HIDE DEF Good
  <2> QED BY <1>1, <1>2, SubsetInduction
<1> QED BY <1>3

(* A sum depends on the summands only.                                     *)
LEMMA SumEqual ==
    ASSUME NEW S, IsFiniteSet(S), NEW g, NEW h, \A x \in S : g[x] = h[x]
    PROVE SumFunctionOnSet(g, S) = SumFunctionOnSet(h, S)
<1> DEFINE Good == {s \in SUBSET S : SumFunctionOnSet(g, s) = SumFunctionOnSet(h, s)}
<1>1. ASSUME NEW s \in SUBSET S, \A r \in SUBSET s : r # s => r \in Good
      PROVE  s \in Good
  <2>1. SumEqn(g, s) /\ SumEqn(h, s)
    BY SumEquation, FS_Subset
  <2>2. CASE s = {} BY <2>1, <2>2 DEF SumEqn
  <2>3. CASE s # {}
    <3>1. Picked(s) \in s BY <2>3, PickedIn
    <3>2. SumFunctionOnSet(g, s \ {Picked(s)}) = SumFunctionOnSet(h, s \ {Picked(s)})
      BY <3>1, <1>1
    <3> QED BY <3>1, <3>2, <2>1, <2>3 DEF SumEqn
  <2> QED BY <2>2, <2>3
<1>2. Good \in SUBSET SUBSET S OBVIOUS
<1>3. Good = SUBSET S
  <2> HIDE DEF Good
  <2> QED BY <1>1, <1>2, SubsetInduction
<1> QED BY <1>3

(* Any element may be the one that is taken out: the choice in the         *)
(* definition does not matter.                                             *)
LEMMA SumSplit ==
    ASSUME NEW S, IsFiniteSet(S), NEW g, \A x \in S : g[x] \in Nat, NEW y \in S
    PROVE SumFunctionOnSet(g, S) = g[y] + SumFunctionOnSet(g, S \ {y})
<1> DEFINE Splits(s, x) == SumFunctionOnSet(g, s) = g[x] + SumFunctionOnSet(g, s \ {x})
           Good == {s \in SUBSET S : \A x \in s : Splits(s, x)}
<1>1. ASSUME NEW s \in SUBSET S, \A r \in SUBSET s : r # s => r \in Good
      PROVE  s \in Good
  <2> SUFFICES ASSUME NEW x \in s PROVE Splits(s, x) OBVIOUS
  <2> DEFINE p == Picked(s)
  <2>1. p \in s BY PickedIn
  <2>2. SumFunctionOnSet(g, s) = g[p] + SumFunctionOnSet(g, s \ {p})
    BY SumEquation, FS_Subset DEF SumEqn
  <2> HIDE DEF p
  <2>3. CASE p = x BY <2>2, <2>3
  <2>4. CASE p # x
    <3>1. s \ {p} \in SUBSET s /\ s \ {p} # s /\ x \in s \ {p}
      BY <2>1, <2>4
    <3>2. s \ {x} \in SUBSET s /\ s \ {x} # s /\ p \in s \ {x}
      BY <2>1, <2>4
    <3>3. SumFunctionOnSet(g, s \ {p}) = g[x] + SumFunctionOnSet(g, (s \ {p}) \ {x})
      BY <1>1, <3>1
    <3>4. SumFunctionOnSet(g, s \ {x}) = g[p] + SumFunctionOnSet(g, (s \ {x}) \ {p})
      BY <1>1, <3>2
    <3>5. (s \ {p}) \ {x} = (s \ {x}) \ {p} OBVIOUS
    <3>6. PICK k : k = SumFunctionOnSet(g, (s \ {x}) \ {p})
      OBVIOUS
    <3>7. k \in Nat
      <4>1. IsFiniteSet((s \ {x}) \ {p}) BY FS_Subset
      <4> QED BY <4>1, <3>6, SumNat
    <3>8. g[p] \in Nat /\ g[x] \in Nat BY <2>1
    <3>9. SumFunctionOnSet(g, s \ {p}) = g[x] + k
      BY <3>3, <3>5, <3>6
    <3>10. SumFunctionOnSet(g, s \ {x}) = g[p] + k
      BY <3>4, <3>6
    <3>11. SumFunctionOnSet(g, s) = g[p] + (g[x] + k)
      BY <2>2, <3>9
    <3>12. g[p] + (g[x] + k) = g[x] + (g[p] + k)
      BY <3>7, <3>8
    <3> QED BY <3>10, <3>11, <3>12
  <2> QED BY <2>3, <2>4
<1>2. Good \in SUBSET SUBSET S OBVIOUS
<1>3. Good = SUBSET S
  <2> HIDE DEF Good
  <2> QED BY <1>1, <1>2, SubsetInduction
<1> QED BY <1>3

(* The sum over two disjoint sets is the sum of the two sums.              *)
LEMMA SumUnion ==
    ASSUME NEW S, IsFiniteSet(S), NEW T, IsFiniteSet(T), S \cap T = {},
           NEW g, \A x \in S \cup T : g[x] \in Nat
    PROVE SumFunctionOnSet(g, S \cup T) = SumFunctionOnSet(g, S) + SumFunctionOnSet(g, T)
<1> DEFINE Good == {s \in SUBSET T : SumFunctionOnSet(g, S \cup s) = SumFunctionOnSet(g, S) + SumFunctionOnSet(g, s)}
<1>a. SumFunctionOnSet(g, S) \in Nat BY SumNat
<1>1. ASSUME NEW s \in SUBSET T, \A r \in SUBSET s : r # s => r \in Good
      PROVE  s \in Good
  <2>2. CASE s = {}
    <3>1. S \cup s = S BY <2>2
    <3> QED BY <3>1, <2>2, SumEmpty, <1>a
  <2>3. CASE s # {}
    <3> DEFINE x == Picked(s) r == s \ {x}
    <3>1. x \in s BY <2>3, PickedIn
    <3>a. IsFiniteSet(s) /\ IsFiniteSet(S \cup s) /\ IsFiniteSet(r)
      BY FS_Subset, FS_Union
    <3>2. SumFunctionOnSet(g, S \cup r) = SumFunctionOnSet(g, S) + SumFunctionOnSet(g, r)
      BY <3>1, <1>1
    <3>3. (S \cup s) \ {x} = S \cup r BY <3>1
    <3>4. SumFunctionOnSet(g, s) = g[x] + SumFunctionOnSet(g, r)
      BY <3>1, <3>a, SumSplit
    <3>5. SumFunctionOnSet(g, S \cup s) = g[x] + SumFunctionOnSet(g, (S \cup s) \ {x})
       BY <3>1, <3>a, SumSplit
    <3>6. SumFunctionOnSet(g, r) \in Nat BY <3>a, SumNat
    <3>7. g[x] \in Nat BY <3>1
    <3> HIDE DEF x, r
    <3>8. PICK a, b : a = SumFunctionOnSet(g, S) /\ b = SumFunctionOnSet(g, r)
      OBVIOUS
    <3>9. SumFunctionOnSet(g, S \cup s) = g[x] + (a + b)
      BY <3>2, <3>3, <3>5, <3>8
    <3>10. g[x] + (a + b) = a + (g[x] + b)
      BY <3>6, <3>7, <3>8, <1>a
    <3>11. SumFunctionOnSet(g, S \cup s) = SumFunctionOnSet(g, S) + SumFunctionOnSet(g, s)
       BY <3>4, <3>8, <3>9, <3>10
    <3> QED BY <3>11
  <2> QED BY <2>2, <2>3
<1>2. Good \in SUBSET SUBSET T OBVIOUS
<1>3. Good = SUBSET T
  <2> HIDE DEF Good
  <2> QED BY <1>1, <1>2, SubsetInduction
<1> QED BY <1>3

(* A part of the set and the rest.                                         *)
LEMMA SumSubset ==
    ASSUME NEW S, IsFiniteSet(S), NEW R \in SUBSET S,
           NEW g, \A x \in S : g[x] \in Nat
    PROVE /\ SumFunctionOnSet(g, S) = SumFunctionOnSet(g, R) + SumFunctionOnSet(g, S \ R)
          /\ SumFunctionOnSet(g, R) \in Nat
          /\ SumFunctionOnSet(g, S \ R) \in Nat
          /\ SumFunctionOnSet(g, R) <= SumFunctionOnSet(g, S)
<1>1. IsFiniteSet(R) /\ IsFiniteSet(S \ R) BY FS_Subset
<1>2. R \cup (S \ R) = S /\ R \cap (S \ R) = {} OBVIOUS
<1>3. SumFunctionOnSet(g, R) \in Nat BY <1>1, SumNat
<1>4. SumFunctionOnSet(g, S \ R) \in Nat BY <1>1, SumNat
<1>5. SumFunctionOnSet(g, R \cup (S \ R)) = SumFunctionOnSet(g, R) + SumFunctionOnSet(g, S \ R)
  BY <1>1, <1>2, SumUnion
<1>6. SumFunctionOnSet(g, S) = SumFunctionOnSet(g, R) + SumFunctionOnSet(g, S \ R)
  BY <1>2, <1>5, Zenon
<1> QED BY <1>3, <1>4, <1>6

(* Larger summands, larger sum.                                            *)
LEMMA SumMonotonic ==
    ASSUME NEW S, IsFiniteSet(S), NEW g, NEW h,
           \A x \in S : g[x] \in Nat /\ h[x] \in Nat /\ g[x] <= h[x]
    PROVE SumFunctionOnSet(g, S) <= SumFunctionOnSet(h, S)
<1> DEFINE Good == {s \in SUBSET S : SumFunctionOnSet(g, s) <= SumFunctionOnSet(h, s)}
<1>1. ASSUME NEW s \in SUBSET S, \A r \in SUBSET s : r # s => r \in Good
      PROVE  s \in Good
  <2>1. SumEqn(g, s) /\ SumEqn(h, s)
    BY SumEquation, FS_Subset
  <2>2. CASE s = {} BY <2>1, <2>2 DEF SumEqn
  <2>3. CASE s # {}
    <3> DEFINE r == s \ {Picked(s)}
    <3>1. Picked(s) \in s BY <2>3, PickedIn
    <3>2. SumFunctionOnSet(g, r) <= SumFunctionOnSet(h, r)
      BY <3>1, <1>1
    <3>3. IsFiniteSet(r) BY FS_Subset
    <3>4. SumFunctionOnSet(g, r) \in Nat /\ SumFunctionOnSet(h, r) \in Nat
      BY <3>3, SumNat
    <3>5. SumFunctionOnSet(g, s) = g[Picked(s)] + SumFunctionOnSet(g, r)
      BY <2>1, <2>3 DEF SumEqn
    <3>6. SumFunctionOnSet(h, s) = h[Picked(s)] + SumFunctionOnSet(h, r)
      BY <2>1, <2>3 DEF SumEqn
    <3>7. SumFunctionOnSet(g, s) <= SumFunctionOnSet(h, s)
      <4> HIDE DEF r
      <4> QED BY <3>1, <3>2, <3>4, <3>5, <3>6
    <3> QED BY <3>7
  <2> QED BY <2>2, <2>3
<1>2. Good \in SUBSET SUBSET S OBVIOUS
<1>3. Good = SUBSET S
  <2> HIDE DEF Good
  <2> QED BY <1>1, <1>2, SubsetInduction
<1> QED BY <1>3

(* Summands that are sums themselves.                                      *)
LEMMA SumOfSums ==
    ASSUME NEW S, IsFiniteSet(S), NEW g, NEW h, NEW k,
           \A x \in S : g[x] \in Nat /\ h[x] \in Nat /\ k[x] = g[x] + h[x]
    PROVE SumFunctionOnSet(k, S) = SumFunctionOnSet(g, S) + SumFunctionOnSet(h, S)
<1> DEFINE Good == {s \in SUBSET S : SumFunctionOnSet(k, s) = SumFunctionOnSet(g, s) + SumFunctionOnSet(h, s)}
<1>1. ASSUME NEW s \in SUBSET S, \A r \in SUBSET s : r # s => r \in Good
      PROVE  s \in Good
  <2>1. SumEqn(g, s) /\ SumEqn(h, s) /\ SumEqn(k, s)
    BY SumEquation, FS_Subset
  <2>2. CASE s = {} BY <2>1, <2>2 DEF SumEqn
  <2>3. CASE s # {}
    <3> DEFINE r == s \ {Picked(s)}
    <3>1. Picked(s) \in s BY <2>3, PickedIn
    <3>2. SumFunctionOnSet(k, r) = SumFunctionOnSet(g, r) + SumFunctionOnSet(h, r)
      BY <3>1, <1>1
    <3>3. IsFiniteSet(r) BY FS_Subset
    <3>4. SumFunctionOnSet(g, r) \in Nat /\ SumFunctionOnSet(h, r) \in Nat
      BY <3>3, SumNat
    <3>5. SumFunctionOnSet(g, s) = g[Picked(s)] + SumFunctionOnSet(g, r)
      BY <2>1, <2>3 DEF SumEqn
    <3>6. SumFunctionOnSet(h, s) = h[Picked(s)] + SumFunctionOnSet(h, r)
      BY <2>1, <2>3 DEF SumEqn
    <3>a. SumFunctionOnSet(k, s) = k[Picked(s)] + SumFunctionOnSet(k, r)
      BY <2>1, <2>3 DEF SumEqn
    <3>7. SumFunctionOnSet(k, s) = SumFunctionOnSet(g, s) + SumFunctionOnSet(h, s)
      <4> HIDE DEF r
      <4> QED BY <3>1, <3>2, <3>4, <3>5, <3>6, <3>a
    <3> QED BY <3>7
  <2> QED BY <2>2, <2>3
<1>2. Good \in SUBSET SUBSET S OBVIOUS
<1>3. Good = SUBSET S
  <2> HIDE DEF Good
  <2> QED BY <1>1, <1>2, SubsetInduction
<1> QED BY <1>3

(* The image of a finite set is finite.                                    *)
LEMMA ImageFinite ==
    ASSUME NEW S, IsFiniteSet(S), NEW f
    PROVE IsFiniteSet({f[x] : x \in S})
<1>1. [x \in S |-> f[x]] \in Surjection(S, {f[x] : x \in S})
  BY DEF Surjection
<1> QED BY <1>1, FS_Surjection

(* A sum under other names for the elements.                               *)
LEMMA SumReindexed ==
    ASSUME NEW S, IsFiniteSet(S), NEW T, NEW f \in Bijection(S, T), NEW g, NEW h,
           \A x \in S : g[x] \in Nat /\ h[f[x]] = g[x]
    PROVE  SumFunctionOnSet(h, T) = SumFunctionOnSet(g, S)
<1>a. T = {f[x] : x \in S} /\ \A x, y \in S : f[x] = f[y] => x = y
  BY DEF Bijection, Injection, Surjection, IsInjective
<1> DEFINE Im(s) == {f[x] : x \in s}
           Good == {s \in SUBSET S : SumFunctionOnSet(h, Im(s)) = SumFunctionOnSet(g, s)}
<1>1. ASSUME NEW s \in SUBSET S, \A r \in SUBSET s : r # s => r \in Good
      PROVE  s \in Good
  <2>2. CASE s = {}
    <3>1. Im(s) = {} BY <2>2
    <3>2. SumFunctionOnSet(h, Im(s)) = 0 BY <3>1, SumEmpty
    <3>3. SumFunctionOnSet(g, s) = 0 BY <2>2, SumEmpty
    <3> QED BY <3>2, <3>3
  <2>3. CASE s # {}
    <3> DEFINE p == Picked(s) r == s \ {p}
    <3>1. p \in s BY <2>3, PickedIn
    <3>2. SumFunctionOnSet(h, Im(r)) = SumFunctionOnSet(g, r)
      BY <3>1, <1>1
    <3>3. IsFiniteSet(s) /\ IsFiniteSet(Im(s))
      BY FS_Subset, ImageFinite
    <3>4. \A y \in Im(s) : h[y] \in Nat OBVIOUS
    <3>5. f[p] \in Im(s) BY <3>1
    <3>6. Im(s) \ {f[p]} = Im(r)
      BY <3>1, <1>a
    <3>7. SumFunctionOnSet(h, Im(s)) = h[f[p]] + SumFunctionOnSet(h, Im(s) \ {f[p]})
      <4> HIDE DEF Im, p
      <4> QED BY <3>3, <3>4, <3>5, SumSplit
    <3>8. SumFunctionOnSet(g, s) = g[p] + SumFunctionOnSet(g, r)
      BY <3>1, <3>3, SumSplit
    <3>9. h[f[p]] = g[p] BY <3>1
    <3>10. SumFunctionOnSet(h, Im(s)) = SumFunctionOnSet(g, s)
      <4> HIDE DEF Im, p, r
      <4> QED BY <3>2, <3>6, <3>7, <3>8, <3>9
    <3> QED BY <3>10
  <2> QED BY <2>2, <2>3
<1>2. Good \in SUBSET SUBSET S OBVIOUS
<1>3. Good = SUBSET S
  <2> HIDE DEF Good
  <2> QED BY <1>1, <1>2, SubsetInduction
<1> QED BY <1>3, <1>a

(* A sum of zeros and ones counts the ones.                                *)
LEMMA SumCounts ==
    ASSUME NEW S, IsFiniteSet(S), NEW g, \A x \in S : g[x] \in {0, 1}
    PROVE SumFunctionOnSet(g, S) = Cardinality({x \in S : g[x] = 1})
<1> DEFINE Ones(s) == {x \in s : g[x] = 1}
           Good == {s \in SUBSET S : SumFunctionOnSet(g, s) = Cardinality(Ones(s))}
<1>1. ASSUME NEW s \in SUBSET S, \A r \in SUBSET s : r # s => r \in Good
      PROVE  s \in Good
  <2>1. SumEqn(g, s) BY SumEquation, FS_Subset
  <2>2. CASE s = {}
    <3>1. Ones(s) = {} BY <2>2
    <3> QED BY <3>1, <2>1, <2>2, FS_EmptySet DEF SumEqn
  <2>3. CASE s # {}
    <3> DEFINE p == Picked(s) r == s \ {p}
    <3>1. p \in s BY <2>3, PickedIn
    <3>2. SumFunctionOnSet(g, r) = Cardinality(Ones(r))
      BY <3>1, <1>1
    <3>3. IsFiniteSet(Ones(r)) BY FS_Subset
    <3>4. Cardinality(Ones(r)) \in Nat
      BY <3>3, FS_CardinalityType
    <3>5. SumFunctionOnSet(g, s) = g[p] + SumFunctionOnSet(g, r)
      BY <2>1, <2>3 DEF SumEqn
    <3>6. CASE g[p] = 1
      <4>1. Ones(s) = Ones(r) \cup {p} /\ p \notin Ones(r)
        BY <3>1, <3>6
      <4>2. Cardinality(Ones(s)) = Cardinality(Ones(r)) + 1
        <5> HIDE DEF Ones, p, r
        <5> QED BY <4>1, <3>3, FS_AddElement
      <4>3. SumFunctionOnSet(g, s) = Cardinality(Ones(s))
        <5> HIDE DEF Ones, p, r
        <5> QED BY <4>2, <3>2, <3>4, <3>5, <3>6
      <4> QED BY <4>3
    <3>7. CASE g[p] = 0
      <4>1. Ones(s) = Ones(r) BY <3>1, <3>7
      <4>3. SumFunctionOnSet(g, s) = Cardinality(Ones(s))
        <5> HIDE DEF Ones, p, r
        <5> QED BY <4>1, <3>2, <3>4, <3>5, <3>7
      <4> QED BY <4>3
    <3>8. g[p] \in {0, 1} BY <3>1
    <3> QED BY <3>6, <3>7, <3>8
  <2> QED BY <2>2, <2>3
<1>2. Good \in SUBSET SUBSET S OBVIOUS
<1>3. Good = SUBSET S
  <2> HIDE DEF Good
  <2> QED BY <1>1, <1>2, SubsetInduction
<1> QED BY <1>3

(* One summand changes.                                                    *)
LEMMA SumChanged ==
    ASSUME NEW S, IsFiniteSet(S), NEW y \in S, NEW g, NEW h,
           \A x \in S : g[x] \in Nat /\ h[x] \in Nat,
           \A x \in S \ {y} : g[x] = h[x]
    PROVE  SumFunctionOnSet(h, S) + g[y] = SumFunctionOnSet(g, S) + h[y]
<1>1. IsFiniteSet(S \ {y})
  BY FS_Subset
<1>2. SumFunctionOnSet(g, S \ {y}) = SumFunctionOnSet(h, S \ {y})
  BY <1>1, SumEqual
<1>3. SumFunctionOnSet(g, S) = g[y] + SumFunctionOnSet(g, S \ {y})
  BY SumSplit
<1>4. SumFunctionOnSet(h, S) = h[y] + SumFunctionOnSet(h, S \ {y})
  BY SumSplit
<1>5. SumFunctionOnSet(g, S \ {y}) \in Nat
  BY <1>1, SumNat
<1> QED
  BY <1>2, <1>3, <1>4, <1>5

(* One summand grows.                                                      *)
LEMMA SumGrows ==
    ASSUME NEW S, IsFiniteSet(S), NEW y \in S, NEW g, NEW h, NEW k \in Nat,
           \A x \in S : g[x] \in Nat, h[y] = g[y] + k, \A x \in S \ {y} : h[x] = g[x]
    PROVE  SumFunctionOnSet(h, S) = SumFunctionOnSet(g, S) + k
<1>1. g[y] \in Nat /\ h[y] \in Nat
  OBVIOUS
<1>2. \A x \in S : g[x] \in Nat /\ h[x] \in Nat
  BY <1>1
<1>3. SumFunctionOnSet(g, S) \in Nat /\ SumFunctionOnSet(h, S) \in Nat
  BY <1>2, SumNat
<1>4. \A x \in S \ {y} : g[x] = h[x]
  OBVIOUS
<1>5. SumFunctionOnSet(h, S) + g[y] = SumFunctionOnSet(g, S) + h[y]
  BY <1>2, <1>4, SumChanged
<1> QED BY <1>1, <1>3, <1>5
=============================================================================
