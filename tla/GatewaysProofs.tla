-------------------------- MODULE GatewaysProofs ----------------------------
(***************************************************************************)
(* Theorems about the S3 and WebDAV requests and about the views, for all  *)
(* values of the constants.  A request folds over a path or over a batch   *)
(* of keys; the fold is turned into an induction on the front of the       *)
(* sequence.  What is carried along it is FileTreeProofs' invariant, and   *)
(* that the names passed so far lead to the folder reached, and to it      *)
(* only.  For the views the way up from a row is shown to be a line with   *)
(* one row to each depth, and the names on it the one address of the row.  *)
(***************************************************************************)
EXTENDS Views, FileTreeProofs, SequenceTheorems

-----------------------------------------------------------------------------
(* Folds.  FoldLeft takes the elements of a sequence off from its end.     *)

(* A set of numbers that is not empty has a least one.                     *)
LEMMA LeastNumber ==
    ASSUME NEW S \in SUBSET Nat, S # {}
    PROVE  \E m \in S : \A k \in S : m <= k
<1>1. PICK R : R = OpToRel(<, Nat) /\ IsWellFoundedOn(R, Nat)
  BY NatLessThanWellFounded
<1>2. PICK m \in S : \A k \in S : ~ <<k, m>> \in R
  BY <1>1, WFMin
<1>3. ASSUME NEW k \in S PROVE m <= k
  <2>1. ~ k < m
    BY <1>1, <1>2 DEF OpToRel
  <2>2. k \in Nat /\ m \in Nat
    OBVIOUS
  <2> QED BY <2>1, <2>2
<1> QED BY <1>3

(* A set of numbers up to l that is not empty has a greatest.              *)
LEMMA TopIn ==
    ASSUME NEW l \in Nat, NEW S \in SUBSET (1 .. l), S # {}
    PROVE  Max(S) \in S /\ \A y \in S : y <= Max(S)
<1> DEFINE Above == {j \in Nat : \A y \in S : y <= j}
<1>1. l \in Above
  OBVIOUS
<1>2. PICK m \in Above : \A k \in Above : m <= k
  <2> HIDE DEF Above
  <2>1. Above \in SUBSET Nat
    BY DEF Above
  <2> QED BY <1>1, <2>1, LeastNumber
<1>3. m \in S
  <2> SUFFICES ASSUME m \notin S PROVE FALSE
    OBVIOUS
  <2>0. \A y \in S : y \in Nat /\ 1 <= y /\ y <= m /\ y # m
    BY <1>2
  <2>1. m - 1 \in Nat /\ \A y \in S : y <= m - 1
    <3>1. PICK z \in S : TRUE
      OBVIOUS
    <3>2. m \in Nat /\ 1 <= m
      BY <1>2, <2>0, <3>1
    <3> QED BY <2>0, <3>2
  <2>2. m - 1 \in Above
    BY <2>1
  <2> QED BY <1>2, <2>1, <2>2
<1>4. \E x \in S : \A y \in S : x >= y
  BY <1>2, <1>3
<1>5. Max(S) \in S /\ \A y \in S : Max(S) >= y
  BY <1>4 DEF Max
<1> QED BY <1>5

(* The three folds of this module, on the values they run through: the     *)
(* rows a path leads to, the tables and folders a path can be made to lead *)
(* to, and the state of a batch of deletions.                              *)
FoldStep(kind, w, v, x) ==
    IF kind = "resolve" THEN UNION {get_child_by_name(w, n, x) : n \in v}
    ELSE IF kind = "parents" THEN UNION {_child_or_create(w, at, x) : at \in v}
    ELSE _delete_one(w, v, x)

FoldSolves(h, kind, w, base, q, S) ==
    h = [s \in SUBSET S |->
            IF s = {} THEN base ELSE FoldStep(kind, w, h[s \ {Max(s)}], q[Max(s)])]

Folded(kind, w, base, q, S) == (CHOOSE h : FoldSolves(h, kind, w, base, q, S))[S]

(* Two solutions agree.                                                    *)
LEMMA FoldsAgree ==
    ASSUME NEW kind, NEW w, NEW base, NEW q, NEW l \in Nat, NEW S \in SUBSET (1 .. l),
           NEW h1, NEW h2, FoldSolves(h1, kind, w, base, q, S),
           FoldSolves(h2, kind, w, base, q, S)
    PROVE  h1[S] = h2[S]
<1> DEFINE Good == {s \in SUBSET S : h1[s] = h2[s]}
<1>1. ASSUME NEW s \in SUBSET S, \A r \in SUBSET s : r # s => r \in Good
      PROVE  s \in Good
  <2>1. CASE s = {}
    BY <2>1 DEF FoldSolves
  <2>2. CASE s # {}
    <3> DEFINE r == s \ {Max(s)}
    <3>1. r \in SUBSET s /\ r # s BY <2>2, TopIn
    <3>2. h1[r] = h2[r] BY <3>1, <1>1
    <3>3. h1[s] = FoldStep(kind, w, h1[r], q[Max(s)]) BY <2>2 DEF FoldSolves
    <3>4. h2[s] = FoldStep(kind, w, h2[r], q[Max(s)]) BY <2>2 DEF FoldSolves
    <3> QED BY <3>2, <3>3, <3>4
  <2> QED BY <2>1, <2>2
<1>2. Good \in SUBSET SUBSET S OBVIOUS
<1>3. IsFiniteSet(S)
  <2>1. IsFiniteSet(1 .. l)
    BY FS_Interval
  <2> QED BY <2>1, FS_Subset
<1>4. Good = SUBSET S
  <2> HIDE DEF Good
  <2> QED BY <1>1, <1>2, <1>3, SubsetInduction
<1> QED BY <1>4

(* Positions of a sequence.                                                *)
Positions(S) == \E l \in Nat : S \in SUBSET (1 .. l)

(* The same for any set of positions.                                      *)
LEMMA FoldsMeet ==
    ASSUME NEW kind, NEW w, NEW base, NEW q, NEW S, Positions(S),
           NEW h1, NEW h2, FoldSolves(h1, kind, w, base, q, S),
           FoldSolves(h2, kind, w, base, q, S)
    PROVE  h1[S] = h2[S]
<1>1. PICK l \in Nat : S \in SUBSET (1 .. l)
  BY DEF Positions
<1> QED BY <1>1, FoldsAgree, SMTT(30)

FoldEqn(kind, w, base, q, s) ==
    /\ FoldSolves(CHOOSE h : FoldSolves(h, kind, w, base, q, s), kind, w, base, q, s)
    /\ Folded(kind, w, base, q, s) =
          IF s = {} THEN base
          ELSE FoldStep(kind, w, Folded(kind, w, base, q, s \ {Max(s)}), q[Max(s)])

(* There is a solution, and so the values satisfy the equation.            *)
LEMMA FoldEquation ==
    ASSUME NEW kind, NEW w, NEW base, NEW q, NEW l \in Nat, NEW S \in SUBSET (1 .. l)
    PROVE  FoldEqn(kind, w, base, q, S)
<1> DEFINE F(s) == Folded(kind, w, base, q, s)
           Good == {s \in SUBSET S : FoldEqn(kind, w, base, q, s)}
<1>1. ASSUME NEW s \in SUBSET S, \A r \in SUBSET s : r # s => r \in Good
      PROVE  s \in Good
  <2> DEFINE top == IF s = {} THEN base ELSE FoldStep(kind, w, F(s \ {Max(s)}), q[Max(s)])
             K == [r \in SUBSET s |-> IF r = s THEN top ELSE F(r)]
  <2> HIDE DEF F
  <2>0. \A r \in SUBSET s : r # s =>
            F(r) = IF r = {} THEN base ELSE FoldStep(kind, w, F(r \ {Max(r)}), q[Max(r)])
    BY <1>1 DEF FoldEqn, F
  <2>1. ASSUME NEW r \in SUBSET s
        PROVE  K[r] = IF r = {} THEN base ELSE FoldStep(kind, w, K[r \ {Max(r)}], q[Max(r)])
    <3>1. CASE r = {}
      <4>1. CASE r = s BY <4>1, <3>1
      <4>2. CASE r # s
        BY <2>0, <3>1, <4>2
      <4> QED BY <4>1, <4>2
    <3>2. CASE r # {}
      <4> DEFINE p == r \ {Max(r)}
      <4>1. p \in SUBSET s /\ p # s BY <3>2, TopIn
      <4>2. K[p] = F(p) BY <4>1
      <4>3. CASE r = s
        <5>1. K[r] = FoldStep(kind, w, F(p), q[Max(r)])
          BY <4>3, <3>2
        <5> QED BY <5>1, <4>2, <3>2
      <4>4. CASE r # s
        <5>1. K[r] = F(r) BY <4>4
        <5>2. F(r) = FoldStep(kind, w, F(p), q[Max(r)])
          BY <2>0, <3>2, <4>4
        <5> QED BY <5>1, <5>2, <4>2, <3>2
      <4> QED BY <4>3, <4>4
    <3> QED BY <3>1, <3>2
  <2>2. K = [r \in SUBSET s |-> K[r]] OBVIOUS
  <2>3. K[s] = top OBVIOUS
  <2> HIDE DEF K
  <2>4. FoldSolves(K, kind, w, base, q, s) BY <2>1, <2>2 DEF FoldSolves
  <2>5. FoldSolves(CHOOSE h : FoldSolves(h, kind, w, base, q, s), kind, w, base, q, s) BY <2>4
  <2>6. s \in SUBSET (1 .. l)
    OBVIOUS
  <2>7. Folded(kind, w, base, q, s) = K[s]
    <3>1. PICK h : h = CHOOSE x : FoldSolves(x, kind, w, base, q, s)
      OBVIOUS
    <3>2. FoldSolves(h, kind, w, base, q, s)
      BY <2>5, <3>1
    <3>3. h[s] = K[s]
      BY <2>4, <2>6, <3>2, FoldsAgree
    <3> QED BY <3>1, <3>3 DEF Folded
  <2> QED BY <2>3, <2>5, <2>7 DEF FoldEqn, F
<1>2. Good \in SUBSET SUBSET S OBVIOUS
<1>3. IsFiniteSet(S)
  <2>1. IsFiniteSet(1 .. l)
    BY FS_Interval
  <2> QED BY <2>1, FS_Subset
<1>4. Good = SUBSET S
  <2> HIDE DEF Good
  <2> QED BY <1>1, <1>2, <1>3, SubsetInduction
<1> QED BY <1>4

(* A fold over a sequence is a step on the fold over its front.            *)
LEMMA FoldFront ==
    ASSUME NEW kind, NEW w, NEW base, NEW X, NEW q \in Seq(X), q # <<>>
    PROVE  Folded(kind, w, base, q, DOMAIN q)
             = FoldStep(kind, w, Folded(kind, w, base, Front(q), DOMAIN Front(q)), Last(q))
<1>1. PICK l \in Nat : l = Len(q) /\ l > 0 /\ DOMAIN q = 1 .. l
  OBVIOUS
<1>2. PICK p \in Seq(X) : /\ p = Front(q) /\ DOMAIN p = 1 .. l - 1
                          /\ \A i \in 1 .. l - 1 : p[i] = q[i]
  <2>1. 0 <= l - 1 /\ l - 1 <= Len(q) /\ l - 1 \in Nat
    BY <1>1
  <2>2. \A i \in 1 .. l - 1 : i \in 1 .. l /\ q[i] \in X
    BY <1>1
  <2>3. PICK p : p = SubSeq(q, 1, l - 1)
    OBVIOUS
  <2>4. p \in Seq(X) /\ Len(p) = l - 1 /\ \A i \in 1 .. l - 1 : p[i] = q[i]
    BY <1>1, <2>1, <2>2, <2>3
  <2> QED BY <1>1, <2>3, <2>4 DEF Front
<1>3. Max(1 .. l) = l
  <2>1. 1 .. l # {} /\ l \in 1 .. l
    BY <1>1
  <2>2. Max(1 .. l) \in 1 .. l /\ l <= Max(1 .. l)
    BY <2>1, TopIn
  <2> QED BY <2>2
<1>4. (1 .. l) \ {l} = 1 .. l - 1
  BY <1>1
<1>5. Folded(kind, w, base, q, 1 .. l) = FoldStep(kind, w, Folded(kind, w, base, q, 1 .. l - 1), q[l])
  <2>1. FoldEqn(kind, w, base, q, 1 .. l)
    BY FoldEquation
  <2>2. l \in 1 .. l
    BY <1>1
  <2> QED BY <1>3, <1>4, <2>1, <2>2 DEF FoldEqn
<1>6. Folded(kind, w, base, q, 1 .. l - 1) = Folded(kind, w, base, p, 1 .. l - 1)
  <2>0. PICK S : S = 1 .. l - 1
    OBVIOUS
  <2>1. S \in SUBSET (1 .. l)
    BY <1>4, <2>0
  <2>2. ASSUME NEW s \in SUBSET S, s # {} PROVE Max(s) \in S /\ q[Max(s)] = p[Max(s)]
    BY <1>2, <2>0, <2>2, <2>1, TopIn
  <2>3. PICK h : h = (CHOOSE x : FoldSolves(x, kind, w, base, q, S))
    OBVIOUS
  <2>4. PICK g : g = (CHOOSE x : FoldSolves(x, kind, w, base, p, S))
    OBVIOUS
  <2>5. FoldSolves(h, kind, w, base, q, S) /\ FoldSolves(g, kind, w, base, p, S)
    BY <1>1, <2>1, <2>3, <2>4, FoldEquation DEF FoldEqn
  <2>6. FoldSolves(g, kind, w, base, q, S)
    BY <2>2, <2>5 DEF FoldSolves
  <2>7. h[S] = g[S]
    <3>1. FoldSolves(h, kind, w, base, q, S)
      BY <2>5
    <3> QED BY <2>1, <2>6, <3>1, FoldsAgree
  <2> QED BY <2>0, <2>3, <2>4, <2>7 DEF Folded
<1> QED BY <1>1, <1>2, <1>5, <1>6 DEF Last

(* The fold over nothing is its base.                                      *)
LEMMA FoldNone ==
    ASSUME NEW kind, NEW w, NEW base
    PROVE  Folded(kind, w, base, <<>>, DOMAIN <<>>) = base
<1>1. DOMAIN <<>> = {}
  OBVIOUS
<1>2. {} \in SUBSET (1 .. 0)
  OBVIOUS
<1>3. FoldEqn(kind, w, base, <<>>, {})
  BY <1>2, FoldEquation
<1> QED BY <1>1, <1>3 DEF FoldEqn

(* What holds of the empty sequence, and of a sequence if of its front,    *)
(* holds of all.                                                           *)
LEMMA FrontInduction ==
    ASSUME NEW X, NEW G, <<>> \in G, \A q \in Seq(X) : q # <<>> /\ Front(q) \in G => q \in G
    PROVE  Seq(X) \subseteq G
<1> DEFINE Bad == {k \in Nat : \E q \in Seq(X) : Len(q) = k /\ q \notin G}
<1> SUFFICES ASSUME NEW z \in Seq(X), z \notin G PROVE FALSE
  OBVIOUS
<1>1. Len(z) \in Bad
  OBVIOUS
<1>2. PICK m \in Bad : \A k \in Bad : m <= k
  <2> HIDE DEF Bad
  <2>1. Bad \in SUBSET Nat
    BY DEF Bad
  <2> QED BY <1>1, <2>1, LeastNumber
<1>3. PICK q \in Seq(X) : Len(q) = m /\ q \notin G
  BY <1>2
<1>4. q # <<>>
  BY <1>3
<1>5. Front(q) \in Seq(X) /\ Len(Front(q)) = m - 1 /\ m - 1 \in Nat
  BY <1>3, <1>4 DEF Front
<1>6. m - 1 \in Bad
  BY <1>3, <1>4, <1>5
<1> QED BY <1>2, <1>5, <1>6

ResolveSolves(h, t, root, q, S) ==
    h = [s \in SUBSET S |->
            IF s = {} THEN {root}
            ELSE UNION {get_child_by_name(t, n, q[Max(s)]) : n \in h[s \ {Max(s)}]}]

ParentsSolve(h, u, base, q, S) ==
    h = [s \in SUBSET S |->
            IF s = {} THEN base
            ELSE UNION {_child_or_create(u, at, q[Max(s)]) : at \in h[s \ {Max(s)}]}]

DeletesSolve(h, u, base, q, S) ==
    h = [s \in SUBSET S |->
            IF s = {} THEN base ELSE _delete_one(u, h[s \ {Max(s)}], q[Max(s)])]

(* The folds of the module are these.                                      *)
LEMMA ResolveFolds ==
    ASSUME NEW t, NEW root, NEW X, NEW q \in Seq(X)
    PROVE  _resolve(t, root, q) = Folded("resolve", t, {root}, q, DOMAIN q)
<1>1. _resolve(t, root, q) = (CHOOSE h : ResolveSolves(h, t, root, q, DOMAIN q))[DOMAIN q]
  BY DEF _resolve, FoldLeft, MapThenFoldSet, ResolveSolves
<1>2. \A h : ResolveSolves(h, t, root, q, DOMAIN q) <=> FoldSolves(h, "resolve", t, {root}, q, DOMAIN q)
  BY DEF ResolveSolves, FoldSolves, FoldStep
<1>3. DOMAIN q = 1 .. Len(q) /\ Len(q) \in Nat
  OBVIOUS
<1>4. PICK g : g = CHOOSE h : FoldSolves(h, "resolve", t, {root}, q, DOMAIN q)
  OBVIOUS
<1>5. PICK h : h = CHOOSE x : ResolveSolves(x, t, root, q, DOMAIN q)
  OBVIOUS
<1>6. FoldSolves(g, "resolve", t, {root}, q, DOMAIN q)
  BY <1>3, <1>4, FoldEquation DEF FoldEqn
<1>7. FoldSolves(h, "resolve", t, {root}, q, DOMAIN q)
  BY <1>2, <1>5, <1>6
<1>8. h[DOMAIN q] = g[DOMAIN q]
  <2>1. PICK l \in Nat : l = Len(q) /\ DOMAIN q = 1 .. l
    BY <1>3
  <2>a. PICK S : S = DOMAIN q
    OBVIOUS
  <2>b. Positions(S)
    BY <2>1, <2>a DEF Positions
  <2>c. PICK kind, base : kind = "resolve" /\ base = {root}
    OBVIOUS
  <2>2. FoldSolves(g, kind, t, base, q, S)
    BY <1>6, <2>a, <2>c
  <2>3. FoldSolves(h, kind, t, base, q, S)
    BY <1>7, <2>a, <2>c
  <2>4. h[S] = g[S]
    BY <2>b, <2>2, <2>3, FoldsMeet
  <2> QED BY <2>a, <2>4
<1> QED BY <1>1, <1>4, <1>5, <1>8 DEF Folded

(* So is the walk that makes the folders of a path.                        *)
LEMMA ParentsFold ==
    ASSUME NEW u, NEW root, NEW X, NEW q \in Seq(X)
    PROVE  _ensure_parents(u, root, q)
             = Folded("parents", u, {[t |-> nodes, folder |-> root]}, q, DOMAIN q)
<1>0. PICK b : b = {[t |-> nodes, folder |-> root]}
  OBVIOUS
<1>1. _ensure_parents(u, root, q) = (CHOOSE h : ParentsSolve(h, u, b, q, DOMAIN q))[DOMAIN q]
  BY <1>0 DEF _ensure_parents, FoldLeft, MapThenFoldSet, ParentsSolve
<1>2. \A h : ParentsSolve(h, u, b, q, DOMAIN q) <=> FoldSolves(h, "parents", u, b, q, DOMAIN q)
  BY DEF ParentsSolve, FoldSolves, FoldStep
<1>3. DOMAIN q = 1 .. Len(q) /\ Len(q) \in Nat
  OBVIOUS
<1>4. PICK g : g = CHOOSE h : FoldSolves(h, "parents", u, b, q, DOMAIN q)
  OBVIOUS
<1>5. PICK h : h = CHOOSE x : ParentsSolve(x, u, b, q, DOMAIN q)
  OBVIOUS
<1>6. FoldSolves(g, "parents", u, b, q, DOMAIN q)
  BY <1>3, <1>4, FoldEquation DEF FoldEqn
<1>7. FoldSolves(h, "parents", u, b, q, DOMAIN q)
  BY <1>2, <1>5, <1>6
<1>8. h[DOMAIN q] = g[DOMAIN q]
  <2>1. PICK l \in Nat : l = Len(q) /\ DOMAIN q = 1 .. l
    BY <1>3
  <2>a. PICK S : S = DOMAIN q
    OBVIOUS
  <2>b. Positions(S)
    BY <2>1, <2>a DEF Positions
  <2>c. PICK kind, base : kind = "parents" /\ base = b
    OBVIOUS
  <2>2. FoldSolves(g, kind, u, base, q, S)
    BY <1>6, <2>a, <2>c
  <2>3. FoldSolves(h, kind, u, base, q, S)
    BY <1>7, <2>a, <2>c
  <2>4. h[S] = g[S]
    BY <2>b, <2>2, <2>3, FoldsMeet
  <2> QED BY <2>a, <2>4
<1> QED BY <1>0, <1>1, <1>4, <1>5, <1>8 DEF Folded

(* So is a batch of deletions.                                             *)
LEMMA DeletesFold ==
    ASSUME NEW u, NEW X, NEW q \in Seq(X)
    PROVE  FoldLeft(LAMBDA s, key : _delete_one(u, s, key), Before, q)
             = Folded("deletes", u, Before, q, DOMAIN q)
<1>1. FoldLeft(LAMBDA s, key : _delete_one(u, s, key), Before, q)
        = (CHOOSE h : DeletesSolve(h, u, Before, q, DOMAIN q))[DOMAIN q]
  BY DEF FoldLeft, MapThenFoldSet, DeletesSolve
<1>2. \A h : DeletesSolve(h, u, Before, q, DOMAIN q)
               <=> FoldSolves(h, "deletes", u, Before, q, DOMAIN q)
  BY DEF DeletesSolve, FoldSolves, FoldStep
<1>3. DOMAIN q = 1 .. Len(q) /\ Len(q) \in Nat
  OBVIOUS
<1>4. PICK g : g = CHOOSE h : FoldSolves(h, "deletes", u, Before, q, DOMAIN q)
  OBVIOUS
<1>5. PICK h : h = CHOOSE x : DeletesSolve(x, u, Before, q, DOMAIN q)
  OBVIOUS
<1>6. FoldSolves(g, "deletes", u, Before, q, DOMAIN q)
  BY <1>3, <1>4, FoldEquation DEF FoldEqn
<1>7. FoldSolves(h, "deletes", u, Before, q, DOMAIN q)
  BY <1>2, <1>5, <1>6
<1>8. h[DOMAIN q] = g[DOMAIN q]
  <2>1. PICK l \in Nat : l = Len(q) /\ DOMAIN q = 1 .. l
    BY <1>3
  <2>a. PICK S : S = DOMAIN q
    OBVIOUS
  <2>b. Positions(S)
    BY <2>1, <2>a DEF Positions
  <2>c. PICK kind, base : kind = "deletes" /\ base = Before
    OBVIOUS
  <2>2. FoldSolves(g, kind, u, base, q, S)
    BY <1>6, <2>a, <2>c
  <2>3. FoldSolves(h, kind, u, base, q, S)
    BY <1>7, <2>a, <2>c
  <2>4. h[S] = g[S]
    BY <2>b, <2>2, <2>3, FoldsMeet
  <2> QED BY <2>a, <2>4
<1> QED BY <1>1, <1>4, <1>5, <1>8 DEF Folded

(* The front and the last element of a sequence.                           *)
LEMMA FrontLast ==
    ASSUME NEW X, NEW q \in Seq(X), q # <<>>
    PROVE  Front(q) \in Seq(X) /\ Last(q) \in X /\ Len(Front(q)) = Len(q) - 1
<1>1. PICK l \in Nat : l = Len(q) /\ l > 0 /\ DOMAIN q = 1 .. l
  OBVIOUS
<1>2. Front(q) = SubSeq(q, 1, l - 1) /\ Last(q) = q[l]
  BY <1>1 DEF Front, Last
<1>3. 0 <= l - 1 /\ l - 1 <= Len(q) /\ l - 1 \in Nat
  BY <1>1
<1>4. \A i \in 1 .. l - 1 : q[i] \in X
  BY <1>1
<1>5. SubSeq(q, 1, l - 1) \in Seq(X) /\ Len(SubSeq(q, 1, l - 1)) = l - 1
  BY <1>1, <1>3, <1>4
<1>6. q[l] \in X
  BY <1>1
<1> QED BY <1>1, <1>2, <1>5, <1>6

(* A path leads to the children, by its last name, of what its front leads *)
(* to.                                                                     *)
LEMMA ResolveNone ==
    ASSUME NEW t, NEW root
    PROVE  _resolve(t, root, <<>>) = {root}
<1>1. <<>> \in Seq({})
  OBVIOUS
<1>2. _resolve(t, root, <<>>) = Folded("resolve", t, {root}, <<>>, DOMAIN <<>>)
  BY <1>1, ResolveFolds
<1> QED BY <1>2, FoldNone

(* A path is resolved by resolving its front, then its last name.          *)
LEMMA ResolveNext ==
    ASSUME NEW t, NEW root, NEW X, NEW q \in Seq(X), q # <<>>, NEW m
    PROVE  m \in _resolve(t, root, q)
             <=> \E p \in _resolve(t, root, Front(q)) :
                    m \in get_child_by_name(t, p, Last(q))
<1>1. Front(q) \in Seq(X) /\ Last(q) \in X
  BY FrontLast
<1>2. PICK z : z = Front(q)
  OBVIOUS
<1>3. PICK name, S : name = Last(q) /\ S = _resolve(t, root, z)
  OBVIOUS
<1>4. _resolve(t, root, q) = FoldStep("resolve", t, S, name)
  <2>1. /\ _resolve(t, root, q) = Folded("resolve", t, {root}, q, DOMAIN q)
        /\ S = Folded("resolve", t, {root}, Front(q), DOMAIN Front(q))
    BY <1>1, <1>2, <1>3, ResolveFolds
  <2> QED BY <1>3, <2>1, FoldFront
<1>5. _resolve(t, root, q) = UNION {get_child_by_name(t, p, name) : p \in S}
  BY <1>4 DEF FoldStep
<1>6. m \in _resolve(t, root, q) <=> \E p \in S : m \in get_child_by_name(t, p, name)
  BY <1>5
<1> QED BY <1>2, <1>3, <1>6

(* So with the folders a path is made to lead to.                          *)
LEMMA ParentsNone ==
    ASSUME NEW u, NEW root
    PROVE  _ensure_parents(u, root, <<>>) = {[t |-> nodes, folder |-> root]}
<1>1. <<>> \in Seq({})
  OBVIOUS
<1>2. _ensure_parents(u, root, <<>>)
        = Folded("parents", u, {[t |-> nodes, folder |-> root]}, <<>>, DOMAIN <<>>)
  BY <1>1, ParentsFold
<1> QED BY <1>2, FoldNone

(* Its folders are made front first, the last name last.                   *)
LEMMA ParentsNext ==
    ASSUME NEW u, NEW root, NEW X, NEW q \in Seq(X), q # <<>>, NEW at
    PROVE  at \in _ensure_parents(u, root, q)
             <=> \E b \in _ensure_parents(u, root, Front(q)) :
                    at \in _child_or_create(u, b, Last(q))
<1>1. Front(q) \in Seq(X) /\ Last(q) \in X
  BY FrontLast
<1>2. PICK z : z = Front(q)
  OBVIOUS
<1>3. PICK name, S : name = Last(q) /\ S = _ensure_parents(u, root, z)
  OBVIOUS
<1>4. _ensure_parents(u, root, q) = FoldStep("parents", u, S, name)
  <2>0. PICK b : b = {[t |-> nodes, folder |-> root]}
    OBVIOUS
  <2>1. /\ _ensure_parents(u, root, q) = Folded("parents", u, b, q, DOMAIN q)
        /\ S = Folded("parents", u, b, Front(q), DOMAIN Front(q))
    BY <1>1, <1>2, <1>3, <2>0, ParentsFold
  <2> QED BY <1>3, <2>1, FoldFront
<1>5. _ensure_parents(u, root, q) = UNION {_child_or_create(u, b, name) : b \in S}
  BY <1>4 DEF FoldStep
<1>6. at \in _ensure_parents(u, root, q) <=> \E b \in S : at \in _child_or_create(u, b, name)
  BY <1>5
<1> QED BY <1>2, <1>3, <1>6

(* The state of a batch of deletions after the keys of q.                  *)
AfterKeys(u, q) == Folded("deletes", u, Before, q, DOMAIN q)

(* A batch deletes its keys front first, the last key last.                *)
LEMMA DeletesNext ==
    ASSUME NEW u, NEW X
    PROVE  /\ AfterKeys(u, <<>>) = Before
           /\ \A q \in Seq(X) : q # <<>> =>
                AfterKeys(u, q) = _delete_one(u, AfterKeys(u, Front(q)), Last(q))
<1>1. ASSUME NEW q \in Seq(X), q # <<>>
      PROVE  AfterKeys(u, q) = FoldStep("deletes", u, AfterKeys(u, Front(q)), Last(q))
  BY <1>1, FoldFront DEF AfterKeys
<1>2. AfterKeys(u, <<>>) = Before
  BY FoldNone DEF AfterKeys
<1> QED BY <1>1, <1>2 DEF FoldStep

-----------------------------------------------------------------------------
(* Addresses.                                                              *)

(* An address is a sequence of names, and so is what stands before its     *)
(* last one.                                                               *)
LEMMA AddressParts ==
    ASSUME NEW path \in Addresses
    PROVE  /\ path \in Seq(Names) /\ path # <<>>
           /\ Front(path) \in Seq(Names) /\ Last(path) \in Names
<1>1. PICK k \in 1 .. MaxPath : path \in [1 .. k -> Names]
  BY DEF Addresses
<1>2. k \in Nat /\ k > 0
  BY <1>1, GatewaysAssumption
<1>3. path \in Seq(Names) /\ Len(path) = k
  BY <1>1, <1>2
<1>4. path # <<>>
  BY <1>2, <1>3
<1> QED BY <1>3, <1>4, FrontLast

(* One step down an address.                                               *)
LEMMA ChildIs ==
    ASSUME NEW t, NEW p, NEW name, NEW m
    PROVE  m \in get_child_by_name(t, p, name)
             <=> m \in DOMAIN t /\ t[m].parent = p /\ t[m].deletedAt = Never /\ t[m].name = name
BY DEF get_child_by_name, LiveChildren, Children, Live

(* An address leads to live rows, to no more than one, and to no root      *)
(* folder but by the address of the root itself.                           *)
Leads(t, root, q) ==
    /\ \A m \in _resolve(t, root, q) : Live(t, m) /\ (q # <<>> => m \notin Roots)
    /\ \A m, k \in _resolve(t, root, q) : m = k

(* From a live row any address leads to one live row at most.              *)
LEMMA AddressLeads ==
    ASSUME NEW t, NEW c, TreeOK(t, c), NEW root \in DOMAIN t, Live(t, root), NEW X
    PROVE  \A q \in Seq(X) : Leads(t, root, q)
<1> DEFINE G == {q \in Seq(X) : Leads(t, root, q)}
<1>1. <<>> \in G
  <2>1. _resolve(t, root, <<>>) = {root} /\ <<>> \in Seq(X)
    BY ResolveNone
  <2> QED BY <2>1 DEF Leads
<1>2. ASSUME NEW q \in Seq(X), q # <<>>, Front(q) \in G PROVE q \in G
  <2> DEFINE R == _resolve(t, root, Front(q))
  <2>2. \A m : m \in _resolve(t, root, q)
                  <=> \E p \in R : m \in get_child_by_name(t, p, Last(q))
    BY <1>2, ResolveNext
  <2>3. (\A m \in R : Live(t, m)) /\ (\A m, k \in R : m = k)
    BY <1>2 DEF Leads
  <2> HIDE DEF R
  <2>4. ASSUME NEW m \in _resolve(t, root, q)
        PROVE  \E p \in R : /\ m \in DOMAIN t /\ t[m].parent = p /\ t[m].deletedAt = Never
                            /\ t[m].name = Last(q)
    BY <2>2, ChildIs
  <2>5. \A p \in R : p \in DOMAIN t /\ p # NoParent
    BY <2>3, ConstantsAssumption DEF Live, TreeOK, RowsFit
  <2>6. ASSUME NEW m \in _resolve(t, root, q) PROVE Live(t, m) /\ m \notin Roots
    <3>1. m \in DOMAIN t /\ t[m].parent # NoParent /\ t[m].deletedAt = Never
      BY <2>4, <2>5
    <3> QED BY <3>1 DEF Live, TreeOK, RowsFit
  <2>7. ASSUME NEW m \in _resolve(t, root, q), NEW k \in _resolve(t, root, q) PROVE m = k
    <3>1. /\ m \in DOMAIN t /\ k \in DOMAIN t /\ t[m].parent = t[k].parent
          /\ t[m].parent # NoParent /\ t[m].deletedAt = t[k].deletedAt /\ t[m].name = t[k].name
      BY <2>3, <2>4, <2>5
    <3> QED BY <3>1 DEF TreeOK, NamesApart
  <2> QED BY <2>6, <2>7 DEF Leads
<1> HIDE DEF G
<1>3. Seq(X) \subseteq G
  BY <1>1, <1>2, FrontInduction
<1> QED BY <1>3 DEF G

(* A row that an address leads to is the only one.                         *)
LEMMA OnlyRow ==
    ASSUME NEW t, NEW c, TreeOK(t, c), NEW root \in Roots, NEW X, NEW q \in Seq(X),
           NEW n \in _resolve(t, root, q)
    PROVE  _resolve(t, root, q) = {n} /\ Live(t, n) /\ (q # <<>> => n \notin Roots)
<1>1. root \in DOMAIN t /\ Live(t, root)
  BY DEF TreeOK, RowsFit
<1>2. Leads(t, root, q)
  BY <1>1, AddressLeads
<1> QED BY <1>2 DEF Leads

(* The rows outside of B stay as they are, as far as addresses see.        *)
SameOutside(t, t2, B) ==
    \A m \in DOMAIN t \ B : /\ m \in DOMAIN t2 /\ t2[m].parent = t[m].parent
                            /\ t2[m].name = t[m].name /\ t2[m].deletedAt = t[m].deletedAt

(* An address is not disturbed by what happens elsewhere: if whole subtrees*)
(* change, it still leads to a row outside of them.                        *)
LEMMA StillLeads ==
    ASSUME NEW t, NEW root, NEW X, NEW q \in Seq(X),
           NEW t2, NEW B, DownClosed(t, B), SameOutside(t, t2, B),
           NEW n \in _resolve(t, root, q), n \notin B
    PROVE  n \in _resolve(t2, root, q)
<1> DEFINE G == {z \in Seq(X) : \A m \in _resolve(t, root, z) : m \notin B => m \in _resolve(t2, root, z)}
<1>1. <<>> \in G
  BY ResolveNone
<1>2. ASSUME NEW z \in Seq(X), z # <<>>, Front(z) \in G PROVE z \in G
  <2> SUFFICES ASSUME NEW m \in _resolve(t, root, z), m \notin B PROVE m \in _resolve(t2, root, z)
    OBVIOUS
  <2> DEFINE R == _resolve(t, root, Front(z))
             R2 == _resolve(t2, root, Front(z))
  <2>2. \A k : /\ k \in _resolve(t, root, z)
                     <=> \E p \in R : k \in get_child_by_name(t, p, Last(z))
               /\ k \in _resolve(t2, root, z)
                     <=> \E p \in R2 : k \in get_child_by_name(t2, p, Last(z))
    BY <1>2, ResolveNext
  <2> HIDE DEF R, R2
  <2>3. PICK p \in R : m \in get_child_by_name(t, p, Last(z))
    BY <2>2
  <2>4. m \in DOMAIN t /\ t[m].parent = p /\ t[m].deletedAt = Never /\ t[m].name = Last(z)
    BY <2>3, ChildIs
  <2>5. p \notin B
    BY <2>4 DEF DownClosed
  <2>6. p \in R2
    BY <1>2, <2>5 DEF R, R2
  <2>7. m \in get_child_by_name(t2, p, Last(z))
    BY <2>4, ChildIs DEF SameOutside
  <2> QED BY <2>2, <2>6, <2>7
<1> HIDE DEF G
<1>3. Seq(X) \subseteq G
  BY <1>1, <1>2, FrontInduction
<1> QED BY <1>3 DEF G


(* The child of a folder that an address leads to, after a change that     *)
(* spares the folder.                                                      *)
LEMMA ChildFound ==
    ASSUME NEW t, NEW root, NEW X, NEW q \in Seq(X), q # <<>>,
           NEW t2, NEW B, DownClosed(t, B), SameOutside(t, t2, B),
           NEW p \in _resolve(t, root, Front(q)), p \notin B,
           NEW n \in get_child_by_name(t2, p, Last(q))
    PROVE  n \in _resolve(t2, root, q)
<1>1. Front(q) \in Seq(X)
  BY FrontLast
<1>2. p \in _resolve(t2, root, Front(q))
  BY <1>1, StillLeads
<1> QED BY <1>2, ResolveNext

(* A row that is not a root folder is not above its parent.                *)
LEMMA ParentAbove ==
    ASSUME NEW t, NEW c, TreeOK(t, c), NEW n \in DOMAIN t \ Roots
    PROVE  t[n].parent \in DOMAIN t /\ t[n].parent \notin Subtree(t, n)
<1>1. t[n].parent \in DOMAIN t
  BY DEF TreeOK, RowsFit
<1>2. SUFFICES ASSUME t[n].parent \in Subtree(t, n) PROVE FALSE
  BY <1>1
<1> DEFINE S == DOMAIN t \ Subtree(t, n)
<1>3. n \in Subtree(t, n) /\ Subtree(t, n) \subseteq DOMAIN t
  BY SubtreeSelf, SubtreeClosed
<1>4. Roots \subseteq S
  <2>1. ASSUME NEW r \in Roots PROVE r \in DOMAIN t /\ t[r].parent = NoParent
    BY DEF TreeOK, RowsFit
  <2>2. NoParent \notin Subtree(t, n)
    BY <1>3, ConstantsAssumption DEF TreeOK, RowsFit
  <2>3. ASSUME NEW r \in Roots PROVE r \notin Subtree(t, n)
    BY <2>1, <2>2, SubtreeParent
  <2> QED BY <2>1, <2>3
<1>5. DownClosed(t, S)
  <2>1. ASSUME NEW m \in DOMAIN t, m \in Subtree(t, n) PROVE t[m].parent \in Subtree(t, n)
    BY <1>2, <2>1, SubtreeParent
  <2> QED BY <2>1 DEF DownClosed
<1>6. S = DOMAIN t
  <2> HIDE DEF S
  <2>1. S \in SUBSET DOMAIN t
    BY DEF S
  <2> QED BY <1>4, <1>5, <2>1 DEF TreeOK, Grounded
<1> QED BY <1>3, <1>6

-----------------------------------------------------------------------------
(* The guards of the use cases, on a table of the request.                 *)

(* The guards, on a table in the middle of a request, speak of that table. *)
LEMMA ThenEdits ==
    ASSUME NEW t, NEW u, NEW p
    PROVE  /\ Then(t)!MayEdit(u, p) => Live(t, p)
           /\ Then(t)!MayView(u, p) => Live(t, p)
           /\ Then(t)!MayOwn(u, p) => Live(t, p)
BY DEF Then!MayEdit, Then!MayView, Then!MayOwn, Then!Live, Then!Never, Live, Never

(* Being a folder, in the middle of a request.                             *)
LEMMA ThenFolder ==
    ASSUME NEW t, NEW p
    PROVE  Then(t)!IsFolder(p) <=> t[p].kind = "folder"
BY DEF Then!IsFolder

(* Being fresh, in the middle of a request.                                *)
LEMMA ThenFresh ==
    ASSUME NEW t, NEW n
    PROVE  n \in Then(t)!Fresh <=> n \in Ids /\ n \notin DOMAIN t /\ objects[n] = 0
BY DEF Then!Fresh

(* A name being free, in the middle of a request.                          *)
LEMMA ThenFree ==
    ASSUME NEW t, NEW p, NEW name, NEW n
    PROVE  Then(t)!_ensure_name_free(p, name, n) <=> get_child_by_name(t, p, name) \subseteq {n}
BY DEF Then!_ensure_name_free, Then!get_child_by_name, Then!LiveChildren, Then!Children,
       Then!Live, Then!Never, get_child_by_name, LiveChildren, Children, Live, Never

(* Being an ancestor, in the middle of a request.                          *)
LEMMA ThenAncestor ==
    ASSUME NEW t, NEW n, NEW d
    PROVE  Then(t)!is_ancestor_of(t, n, d) <=> is_ancestor_of(t, n, d)
BY DEF Then!is_ancestor_of, Then!Chain, Then!UpClosed, is_ancestor_of, Chain, UpClosed

(* What a move has checked, in the middle of a request.                    *)
LEMMA ThenMoves ==
    ASSUME NEW t, NEW n, NEW d, Then(t)!CanMove(n, d)
    PROVE  /\ t[n].parent # NoParent /\ t[d].kind = "folder"
           /\ get_child_by_name(t, d, t[n].name) \subseteq {n}
           /\ ~ is_ancestor_of(t, n, d)
<1>1. /\ t[n].parent # NoParent /\ t[d].kind = "folder"
      /\ Then(t)!_ensure_name_free(d, t[n].name, n)
      /\ ~ Then(t)!is_ancestor_of(t, n, d)
  BY DEF Then!CanMove, Then!IsRoot, Then!IsFolder
<1> QED BY <1>1, ThenFree, ThenAncestor

(* What a copy has checked, in the middle of a request.                    *)
LEMMA ThenCopies ==
    ASSUME NEW t, NEW u, NEW s, NEW d, NEW name, Then(t)!CanCopy(u, s, d, name)
    PROVE  /\ Live(t, s) /\ Live(t, d) /\ t[d].kind = "folder"
           /\ get_child_by_name(t, d, name) \subseteq {NoParent}
<1>1. /\ Then(t)!MayView(u, s) /\ Then(t)!MayEdit(u, d) /\ t[d].kind = "folder"
      /\ Then(t)!_ensure_name_free(d, name, NoParent)
  BY DEF Then!CanCopy, Then!IsFolder
<1> QED BY <1>1, ThenFree, ThenEdits

(* One of a set is of the set.                                             *)
LEMMA OneOfIn ==
    ASSUME NEW S, NEW x \in OneOf(S)
    PROVE  x \in S
BY DEF OneOf

(* What _child_or_create returns: the child that is there and the table    *)
(* as it was, or a new child of a live folder.                             *)
LEMMA ChildMade ==
    ASSUME NEW u, NEW t, NEW p, NEW name, NEW b \in _child_or_create(u, [t |-> t, folder |-> p], name)
    PROVE  \/ b.t = t /\ b.folder \in get_child_by_name(t, p, name)
           \/ /\ get_child_by_name(t, p, name) = {} /\ Live(t, p) /\ t[p].kind = "folder"
              /\ b.folder \in Ids /\ b.folder \notin DOMAIN t
              /\ b.t = WithRow(t, b.folder, Folder(t[p].owner, p, name))
<1> DEFINE at == [t |-> t, folder |-> p]
           there == get_child_by_name(t, p, name)
           allowed == /\ Then(t)!MayEdit(u, p) /\ Then(t)!IsFolder(p)
                      /\ Then(t)!_ensure_not_reserved_root_name(p, name)
                      /\ Then(t)!_ensure_depth(p)
           new(n) == [t |-> WithRow(t, n, Folder(t[p].owner, p, name)), folder |-> n]
<1>1. b \in IF there # {}
            THEN {[t |-> t, folder |-> m] : m \in {m \in there : Then(t)!IsFolder(m)}}
            ELSE {new(n) : n \in IF allowed THEN OneOf(Then(t)!Fresh) ELSE {}}
  <2>1. at.t = t /\ at.folder = p
    OBVIOUS
  <2> QED BY <2>1 DEF _child_or_create
<1> HIDE DEF there, new, allowed
<1>2. CASE there # {}
  <2>1. PICK m \in there : b = [t |-> t, folder |-> m]
    BY <1>1, <1>2
  <2> QED BY <2>1 DEF there
<1>3. CASE there = {}
  <2>1. PICK n \in OneOf(Then(t)!Fresh) : allowed /\ b = new(n)
    BY <1>1, <1>3
  <2>2. n \in Ids /\ n \notin DOMAIN t
    BY <2>1, OneOfIn, ThenFresh
  <2>3. Live(t, p) /\ t[p].kind = "folder"
    BY <2>1, ThenEdits, ThenFolder DEF allowed
  <2>4. b.folder = n /\ b.t = WithRow(t, n, Folder(t[p].owner, p, name))
    BY <2>1 DEF new
  <2> QED BY <1>3, <2>2, <2>3, <2>4 DEF there
<1> QED BY <1>2, <1>3

(* Rows hang from folders.                                                 *)
FoldersAbove(t) ==
    /\ \A m \in DOMAIN t : t[m].parent \in DOMAIN t => t[t[m].parent].kind = "folder"
    /\ \A r \in Roots : t[r].kind = "folder"

(* A new row beneath a folder.                                             *)
LEMMA LeafUnderFolder ==
    ASSUME NEW t, NEW c, TreeOK(t, c), FoldersAbove(t), NEW n \in Ids \ DOMAIN t, NEW row,
           row.parent \in DOMAIN t, t[row.parent].kind = "folder", NEW t2, t2 = WithRow(t, n, row)
    PROVE  FoldersAbove(t2)
<1>1. DOMAIN t2 = DOMAIN t \cup {n} /\ t2[n] = row /\ \A m \in DOMAIN t : t2[m] = t[m]
  BY DEF WithRow
<1>2. Roots \subseteq DOMAIN t /\ n \notin Roots /\ n # NoParent
  BY ConstantsAssumption DEF TreeOK, RowsFit, Nodes
<1>3. \A m \in DOMAIN t : t[m].parent \in DOMAIN t \cup {NoParent}
  BY DEF TreeOK, RowsFit
<1>4. ASSUME NEW m \in DOMAIN t2, t2[m].parent \in DOMAIN t2
      PROVE  t2[t2[m].parent].kind = "folder"
  <2>1. CASE m = n
    BY <1>1, <2>1
  <2>2. CASE m \in DOMAIN t
    BY <1>1, <1>2, <1>3, <1>4, <2>2 DEF FoldersAbove
  <2> QED BY <1>1, <2>1, <2>2
<1> QED BY <1>1, <1>2, <1>4 DEF FoldersAbove

(* The table and the folder on the way of _ensure_parents: a table of the  *)
(* tree that keeps all rows of the committed one, and a folder its address *)
(* leads to.  Once a folder is new there is nothing beneath it.            *)
OnTheWay(at, root, q) ==
    /\ at = [t |-> at.t, folder |-> at.folder]
    /\ TreeOK(at.t, clock)
    /\ DOMAIN nodes \subseteq DOMAIN at.t
    /\ \A m \in DOMAIN nodes : at.t[m] = nodes[m]
    /\ \A m \in DOMAIN at.t \ DOMAIN nodes : at.t[m].versions = <<>>
    /\ FoldersAbove(nodes) => FoldersAbove(at.t)
    /\ at.folder \in _resolve(at.t, root, q)
    /\ at.t = nodes \/ Children(at.t, at.folder) = {}

(* Making the folders of a path keeps the tree sound, and they lead to the *)
(* folder it ends in.                                                      *)
LEMMA ParentsOnTheWay ==
    ASSUME IInv, NEW u, NEW root \in Roots
    PROVE  \A q \in Seq(Names) : \A at \in _ensure_parents(u, root, q) : OnTheWay(at, root, q)
<1> DEFINE G == {q \in Seq(Names) :
                    \A at \in _ensure_parents(u, root, q) : OnTheWay(at, root, q)}
<1>1. <<>> \in G
  <2>1. _ensure_parents(u, root, <<>>) = {[t |-> nodes, folder |-> root]}
    BY ParentsNone
  <2>2. OnTheWay([t |-> nodes, folder |-> root], root, <<>>)
    BY ResolveNone, TreeIs DEF OnTheWay
  <2> QED BY <2>1, <2>2
<1>2. ASSUME NEW q \in Seq(Names), q # <<>>, Front(q) \in G PROVE q \in G
  <2> SUFFICES ASSUME NEW b \in _ensure_parents(u, root, q) PROVE OnTheWay(b, root, q)
    OBVIOUS
  <2>1. Front(q) \in Seq(Names) /\ Last(q) \in Names
    BY <1>2, FrontLast
  <2>2. PICK at \in _ensure_parents(u, root, Front(q)) : b \in _child_or_create(u, at, Last(q))
    BY <1>2, ParentsNext
  <2>3. PICK t, p, name : t = at.t /\ p = at.folder /\ name = Last(q)
    OBVIOUS
  <2>4. /\ at = [t |-> t, folder |-> p]
        /\ TreeOK(t, clock)
        /\ DOMAIN nodes \subseteq DOMAIN t
        /\ \A m \in DOMAIN nodes : t[m] = nodes[m]
        /\ \A m \in DOMAIN t \ DOMAIN nodes : t[m].versions = <<>>
        /\ FoldersAbove(nodes) => FoldersAbove(t)
        /\ p \in _resolve(t, root, Front(q))
        /\ t = nodes \/ Children(t, p) = {}
    BY <1>2, <2>2, <2>3 DEF OnTheWay
  <2>5. b \in _child_or_create(u, [t |-> t, folder |-> p], name)
    BY <2>2, <2>3, <2>4
  <2>6. b = [t |-> b.t, folder |-> b.folder]
    BY <2>5 DEF _child_or_create
  <2>7. CASE b.t = t /\ b.folder \in get_child_by_name(t, p, name)
    <3>1. t = nodes
      BY <2>4, <2>7 DEF get_child_by_name, LiveChildren
    <3>2. b.folder \in _resolve(t, root, q)
      BY <1>2, <2>3, <2>4, <2>7, ResolveNext
    <3> QED BY <2>4, <2>6, <2>7, <3>1, <3>2 DEF OnTheWay
  <2>8. ASSUME get_child_by_name(t, p, name) = {}, Live(t, p), t[p].kind = "folder",
               NEW n \in Ids \ DOMAIN t, n = b.folder, NEW t2, t2 = b.t,
               t2 = WithRow(t, n, Folder(t[p].owner, p, name))
        PROVE  OnTheWay(b, root, q)
    <3> DEFINE row == Folder(t[p].owner, p, name)
    <3>1. p \in DOMAIN t /\ p \in Nodes /\ t[p] \in Row /\ p # n
      BY <2>4, <2>8 DEF Live, TreeOK, RowsFit
    <3>2. row \in Row /\ row.parent = p /\ row.name = name /\ row.deletedAt = Never
          /\ row.versions = <<>>
      <4>1. t[p].owner \in Users
        BY <3>1, RowFields
      <4>2. name \in Names
        BY <2>1, <2>3
      <4> QED BY <3>1, <4>1, <4>2 DEF Folder, Row, Never
    <3> HIDE DEF row
    <3>3. t2 = WithRow(t, n, row)
      BY <2>8 DEF row
    <3>4. TreeOK(t2, clock)
      BY <2>4, <2>8, <3>2, <3>3, LeafAdded
    <3>5. DOMAIN t2 = DOMAIN t \cup {n} /\ t2[n] = row /\ \A m \in DOMAIN t : t2[m] = t[m]
      BY <2>8, <3>3 DEF WithRow
    <3>6. n \in get_child_by_name(t2, p, name)
      BY <3>2, <3>5, ChildIs
    <3>7. n \in _resolve(t2, root, q)
      <4>1. SameOutside(t, t2, {}) /\ DownClosed(t, {})
        BY <3>5 DEF SameOutside, DownClosed
      <4>2. n \in get_child_by_name(t2, p, Last(q))
        BY <2>3, <3>6
      <4> QED BY <1>2, <2>4, <4>1, <4>2, ChildFound
    <3>8. Children(t2, n) = {}
      <4>1. n \in Nodes /\ n # NoParent
        BY ConstantsAssumption DEF Nodes
      <4>2. \A m \in DOMAIN t : t[m].parent # n
        BY <2>4, <4>1 DEF TreeOK, RowsFit
      <4>3. \A m \in DOMAIN t2 : t2[m].parent # n
        BY <3>1, <3>2, <3>5, <4>2
      <4> QED BY <4>3 DEF Children
    <3>9. /\ DOMAIN nodes \subseteq DOMAIN t2 /\ \A m \in DOMAIN nodes : t2[m] = nodes[m]
          /\ \A m \in DOMAIN t2 \ DOMAIN nodes : t2[m].versions = <<>>
      BY <2>4, <3>2, <3>5
    <3>10. FoldersAbove(nodes) => FoldersAbove(t2)
      BY <2>4, <2>8, <3>1, <3>2, <3>3, LeafUnderFolder
    <3> QED BY <2>6, <2>8, <3>4, <3>7, <3>8, <3>9, <3>10 DEF OnTheWay
  <2>9. \/ b.t = t /\ b.folder \in get_child_by_name(t, p, name)
        \/ /\ get_child_by_name(t, p, name) = {} /\ Live(t, p) /\ t[p].kind = "folder"
           /\ b.folder \in Ids /\ b.folder \notin DOMAIN t
           /\ b.t = WithRow(t, b.folder, Folder(t[p].owner, p, name))
    BY <2>5, ChildMade
  <2> QED BY <2>7, <2>8, <2>9
<1> HIDE DEF G
<1>3. Seq(Names) \subseteq G
  BY <1>1, <1>2, FrontInduction
<1> QED BY <1>3 DEF G

-----------------------------------------------------------------------------
(* Batches of deletions.                                                   *)

(* The table t2 has the rows of t with their contents, in their places,    *)
(* whichever are in the trash.                                             *)
InPlace(t, t2) ==
    /\ DOMAIN t2 = DOMAIN t
    /\ \A m \in DOMAIN t : /\ t2[m].parent = t[m].parent /\ t2[m].name = t[m].name
                            /\ t2[m].kind = t[m].kind /\ t2[m].owner = t[m].owner
                            /\ t2[m].versions = t[m].versions

(* Moving a subtree to the trash leaves every row in its place.            *)
LEMMA TrashKeepsRows ==
    ASSUME NEW t, NEW c, TreeOK(t, c), NEW n
    PROVE  InPlace(t, soft_delete_subtree(t, n, c + 1))
<1>1. PICK t2 : t2 = soft_delete_subtree(t, n, c + 1)
  OBVIOUS
<1>2. /\ DOMAIN t2 = DOMAIN t
      /\ \A m \in DOMAIN t : t2[m] = t[m] \/ t2[m] = [t[m] EXCEPT !.deletedAt = c + 1]
  BY <1>1 DEF soft_delete_subtree
<1>3. c + 1 \in Nat
  BY DEF TreeOK, RowsFit
<1>4. ASSUME NEW m \in DOMAIN t
      PROVE  /\ t2[m].parent = t[m].parent /\ t2[m].name = t[m].name
             /\ t2[m].kind = t[m].kind /\ t2[m].owner = t[m].owner
             /\ t2[m].versions = t[m].versions
  <2>1. t[m] \in Row
    BY DEF TreeOK, RowsFit
  <2>2. PICK r : r = [t[m] EXCEPT !.deletedAt = c + 1]
    OBVIOUS
  <2>3. /\ r.parent = t[m].parent /\ r.name = t[m].name /\ r.kind = t[m].kind
        /\ r.owner = t[m].owner /\ r.versions = t[m].versions
    BY <1>3, <2>1, <2>2, StampedRow
  <2> QED BY <1>2, <2>2, <2>3
<1> QED BY <1>1, <1>2, <1>4 DEF InPlace

(* What a key leads to, in whichever tree, is a row and no root folder.    *)
LEMMA ObjectIsFile ==
    ASSUME NEW t, NEW c, TreeOK(t, c), NEW u \in Users, NEW v, NEW path \in Addresses,
           NEW n \in resolve_object(t, u, v, path)
    PROVE  n \in DOMAIN t \ Roots
<1>1. PICK r \in Roots : n \in _resolve(t, r, path)
  BY DEF resolve_object, Roots
<1>2. path \in Seq(Names) /\ path # <<>>
  BY AddressParts
<1> QED BY <1>1, <1>2, OnlyRow DEF Live

(* Each deletion takes a subtree that hangs from a root folder.            *)
LEMMA BatchOK ==
    ASSUME IInv, NEW u \in Users
    PROVE  \A q \in Seq(ObjectKeys) :
              /\ TreeOK(AfterKeys(u, q).t, AfterKeys(u, q).clock)
              /\ InPlace(nodes, AfterKeys(u, q).t)
<1> DEFINE G == {q \in Seq(ObjectKeys) : /\ TreeOK(AfterKeys(u, q).t, AfterKeys(u, q).clock)
                                        /\ InPlace(nodes, AfterKeys(u, q).t)}
<1>1. <<>> \in G
  <2>1. AfterKeys(u, <<>>) = Before
    BY DeletesNext
  <2>2. Before.t = nodes /\ Before.clock = clock
    BY DEF Before
  <2>3. InPlace(nodes, nodes)
    BY DEF InPlace
  <2> QED BY <2>1, <2>2, <2>3, TreeIs
<1>2. ASSUME NEW q \in Seq(ObjectKeys), q # <<>>, Front(q) \in G PROVE q \in G
  <2>1. PICK s : s = AfterKeys(u, Front(q))
    OBVIOUS
  <2>2. TreeOK(s.t, s.clock) /\ InPlace(nodes, s.t)
    BY <1>2, <2>1
  <2>3. PICK key \in ObjectKeys : key = Last(q)
    BY <1>2, FrontLast
  <2>4. AfterKeys(u, q) = _delete_one(u, s, key)
    BY <1>2, <2>1, <2>3, DeletesNext
  <2>a. PICK found : found = resolve_object(s.t, u, key[1], key[2])
    OBVIOUS
  <2>5. PICK n : n = CHOOSE m \in found : TRUE
    OBVIOUS
  <2>6. CASE found # {} /\ Then(s.t)!MayOwn(u, n)
    <3>1. n \in resolve_object(s.t, u, key[1], key[2])
      BY <2>a, <2>5, <2>6
    <3>2. key[2] \in Addresses
      BY DEF ObjectKeys
    <3>3. n \in DOMAIN s.t \ Roots
      BY <2>2, <3>1, <3>2, ObjectIsFile
    <3>4. TreeOK(soft_delete_subtree(s.t, n, s.clock + 1), s.clock + 1)
      BY <2>2, <3>3, SubtreeTrashed
    <3>5. AfterKeys(u, q) = Trash(s, n)
      BY <2>4, <2>a, <2>5, <2>6 DEF _delete_one
    <3>6. Trash(s, n).t = soft_delete_subtree(s.t, n, s.clock + 1) /\ Trash(s, n).clock = s.clock + 1
      BY DEF Trash
    <3>7. InPlace(nodes, soft_delete_subtree(s.t, n, s.clock + 1))
      BY <2>2, TrashKeepsRows DEF InPlace
    <3> QED BY <3>4, <3>5, <3>6, <3>7
  <2>7. CASE ~ (found # {} /\ Then(s.t)!MayOwn(u, n))
    <3>1. AfterKeys(u, q) = s
      BY <2>4, <2>a, <2>5, <2>7 DEF _delete_one
    <3> QED BY <2>2, <3>1
  <2> QED BY <2>6, <2>7
<1> HIDE DEF G
<1>3. Seq(ObjectKeys) \subseteq G
  BY <1>1, <1>2, FrontInduction
<1> QED BY <1>3 DEF G

(* A batch is a sequence of keys.                                          *)
LEMMA BatchKeys ==
    ASSUME NEW keys \in Batches
    PROVE  keys \in Seq(ObjectKeys)
<1>1. PICK k \in 1 .. MaxBatch : keys \in [1 .. k -> ObjectKeys]
  BY DEF Batches
<1>2. k \in Nat
  BY <1>1, GatewaysAssumption
<1> QED BY <1>1, <1>2

(* A DeleteObjects keeps the tree sound and every row in its place.        *)
LEMMA BatchStep ==
    ASSUME IInv, NEW u \in Users, NEW keys \in Batches, delete_objects(u, keys)
    PROVE  IInv' /\ InPlace(nodes, nodes')
<1>1. keys \in Seq(ObjectKeys)
  BY BatchKeys
<1>2. FoldLeft(LAMBDA s, key : _delete_one(u, s, key), Before, keys) = AfterKeys(u, keys)
  BY <1>1, DeletesFold DEF AfterKeys
<1>3. nodes' = AfterKeys(u, keys).t /\ clock' = AfterKeys(u, keys).clock
  BY <1>2 DEF delete_objects
<1>4. TreeOK(AfterKeys(u, keys).t, AfterKeys(u, keys).clock) /\ InPlace(nodes, AfterKeys(u, keys).t)
  BY <1>1, BatchOK
<1> QED BY <1>3, <1>4, TreeIs

-----------------------------------------------------------------------------
(* What a request wrote is found.                                          *)

(* If the address leads to the row in the tree the request leaves, what it *)
(* wrote is found.                                                         *)
LEMMA FoundAfter ==
    ASSUME TreeOK(nodes', clock'), NEW root \in Roots, NEW path \in Addresses,
           NEW n \in _resolve(nodes', root, path), NEW self,
           answer' = Wrote(root, path, n, self)
    PROVE  IInv' /\ WrittenIsFound'
<1>1. path \in Seq(Names)
  BY AddressParts
<1>2. _resolve(nodes', root, path) = {n}
  BY <1>1, OnlyRow
<1>3. answer'.root = root /\ answer'.path = path /\ answer'.node = n
  BY DEF Wrote
<1> QED BY <1>2, <1>3, TreeIs DEF WrittenIsFound

(* The parts of a table that a copy takes, and the rows it makes of them.  *)
LEMMA ThenPart ==
    ASSUME NEW t, NEW s, NEW S \in Then(t)!CopiedSets(s)
    PROVE  /\ S \in SUBSET Subtree(t, s) /\ s \in S
           /\ \A x \in S \ {s} : t[x].parent \in S /\ Live(t, x)
<1>1. /\ S \in SUBSET Then(t)!Subtree(t, s) /\ s \in S
      /\ \A x \in S : Then(t)!IsPage({m \in S \ {s} : t[m].parent = x}, x)
      /\ \A x \in S \ {s} : t[x].parent \in S
  BY DEF Then!CopiedSets
<1>2. Then(t)!Subtree(t, s) = Subtree(t, s)
  BY DEF Then!Subtree, Then!DownClosed, Subtree, DownClosed
<1>3. ASSUME NEW x \in S \ {s} PROVE Live(t, x)
  <2>1. Then(t)!IsPage({m \in S \ {s} : t[m].parent = t[x].parent}, t[x].parent)
    BY <1>1
  <2>2. x \in Then(t)!LiveChildren(t, t[x].parent)
    BY <2>1 DEF Then!IsPage
  <2> QED BY <2>2 DEF Then!LiveChildren, Then!Live, Then!Never, Live, Never
<1> QED BY <1>1, <1>2, <1>3

(* The row a copy writes, in the middle of a request.                      *)
LEMMA ThenCopyRow ==
    ASSUME NEW t, NEW c, TreeOK(t, c), NEW u \in Users, NEW s, NEW d \in Nodes,
           NEW name \in Names, NEW f, NEW x \in DOMAIN t, x # s => f[t[x].parent] \in Nodes
    PROVE  /\ Then(t)!CopyRow(u, s, d, name, f, x) \in Row
           /\ Then(t)!CopyRow(u, s, d, name, f, x).deletedAt = Never
           /\ x = s => /\ Then(t)!CopyRow(u, s, d, name, f, x).parent = d
                       /\ Then(t)!CopyRow(u, s, d, name, f, x).name = name
           /\ x # s => /\ Then(t)!CopyRow(u, s, d, name, f, x).parent = f[t[x].parent]
                       /\ Then(t)!CopyRow(u, s, d, name, f, x).name = t[x].name
<1>1. t[x] \in Row
  BY DEF TreeOK, RowsFit
<1>2. PICK v \in Seq(Version) : v = t[x].versions
  BY <1>1, RowFields
<1>3. Then(t)!size_bytes(t, x) \in Nat
  <2>1. v # <<>> => v[Len(v)] \in Version
    OBVIOUS
  <2>2. v # <<>> => v[Len(v)].size \in Nat
    BY <2>1 DEF Version
  <2> QED BY <1>2, <2>2 DEF Then!size_bytes
<1>4. PICK w \in Seq(Version) :
         w = IF t[x].kind = "folder" THEN <<>>
             ELSE <<[size |-> Then(t)!size_bytes(t, x), owner |-> u]>>
  <2>1. [size |-> Then(t)!size_bytes(t, x), owner |-> u] \in Version
    BY <1>3 DEF Version
  <2>2. <<[size |-> Then(t)!size_bytes(t, x), owner |-> u]>> \in Seq(Version)
    BY <2>1
  <2>3. CASE t[x].kind = "folder"
    <3>1. <<>> \in Seq(Version)
      OBVIOUS
    <3> QED BY <2>3, <3>1
  <2>4. CASE t[x].kind # "folder"
    BY <2>2, <2>4
  <2> QED BY <2>3, <2>4
<1>5. PICK p \in Nodes : p = IF x = s THEN d ELSE f[t[x].parent]
  OBVIOUS
<1>6. PICK a \in Names \cup {RootName} : a = IF x = s THEN name ELSE t[x].name
  BY <1>1, RowFields
<1>7. PICK k \in {"folder", "file"} : k = t[x].kind
  BY <1>1, RowFields
<1>8. Then(t)!CopyRow(u, s, d, name, f, x)
        = [kind |-> k, owner |-> u, parent |-> p, name |-> a, deletedAt |-> Never, versions |-> w]
  BY <1>4, <1>5, <1>6, <1>7 DEF Then!CopyRow, Then!Never, Never
<1>9. PICK r : r = Then(t)!CopyRow(u, s, d, name, f, x)
  OBVIOUS
<1>10. /\ r \in Row /\ r.deletedAt = Never /\ r.parent = p /\ r.name = a
  BY <1>8, <1>9 DEF Row, Never
<1> QED BY <1>5, <1>6, <1>9, <1>10

(* A copy in the middle of a request.                                      *)
LEMMA CopiedStep ==
    ASSUME NEW s, TreeOK(s.t, s.clock), NEW u \in Users, NEW root \in Roots,
           NEW path \in Addresses, NEW from, NEW p \in _resolve(s.t, root, Front(path)),
           Copied(u, root, path, s, from, p)
    PROVE  IInv' /\ WrittenIsFound'
<1> DEFINE t == s.t
           name == Last(path)
           Result(S, f) ==
             /\ nodes' = [m \in DOMAIN t \cup Range(f) |->
                            IF m \in Range(f)
                            THEN Then(t)!CopyRow(u, from, p, name, f, CHOOSE n \in S : f[n] = m)
                            ELSE t[m]]
             /\ clock' = s.clock
             /\ answer' = Wrote(root, path, f[from], FALSE)
<1>a. PICK S \in Then(t)!CopiedSets(from) :
          \E f \in OneOf(Injection(S, Then(t)!Fresh)) : Result(S, f)
  BY DEF Copied
<1>1. PICK f \in OneOf(Injection(S, Then(t)!Fresh)) : Result(S, f)
  BY <1>a
<1>2. f \in Injection(S, Then(t)!Fresh)
  BY OneOfIn
<1>3. /\ f \in [S -> Then(t)!Fresh]
      /\ \A x, y \in S : f[x] = f[y] => x = y
      /\ Range(f) = {f[x] : x \in S}
  BY <1>2 DEF Injection, IsInjective, Range
<1>4. /\ S \in SUBSET Subtree(t, from)
      /\ from \in S
      /\ \A x \in S \ {from} : t[x].parent \in S /\ Live(t, x)
  BY ThenPart
<1>5. /\ S \subseteq DOMAIN t
      /\ \A x \in S : f[x] \in Ids /\ f[x] \notin DOMAIN t
  BY <1>3, <1>4, SubtreeClosed, ThenFresh
<1>6. ASSUME NEW x \in S PROVE nodes'[f[x]] = Then(t)!CopyRow(u, from, p, name, f, x)
  <2>1. (CHOOSE n \in S : f[n] = f[x]) = x
    BY <1>3
  <2> QED
    BY <1>1, <1>3, <2>1
<1>7. /\ DOMAIN nodes' = DOMAIN t \cup {f[x] : x \in S}
      /\ \A m \in DOMAIN t : nodes'[m] = t[m]
      /\ clock' = s.clock /\ answer' = Wrote(root, path, f[from], FALSE)
  BY <1>1, <1>3, <1>5
<1>b. nodes' = [m \in DOMAIN nodes' |-> nodes'[m]]
  BY <1>1
<1> HIDE DEF Result, t, name
<1>8. /\ Live(t, p) /\ get_child_by_name(t, p, name) \subseteq {NoParent}
  <2>1. Then(t)!CanCopy(u, from, p, name)
    BY DEF Copied, t, name
  <2> QED BY <2>1, ThenCopies
<1>9. TreeOK(t, clock') /\ p \in DOMAIN t /\ p \in Nodes /\ name \in Names /\ from \in DOMAIN t
  BY <1>4, <1>5, <1>7, <1>8, AddressParts DEF Live, TreeOK, RowsFit, t, name
<1>10. get_child_by_name(t, p, name) = {}
  <2>1. NoParent \notin DOMAIN t
    BY <1>9, ConstantsAssumption DEF TreeOK, RowsFit
  <2> QED BY <1>8, <2>1, ChildIs
<1>11. ASSUME NEW x \in S
       PROVE  /\ nodes'[f[x]] \in Row
              /\ nodes'[f[x]].deletedAt = Never
              /\ x = from => nodes'[f[x]].parent = p /\ nodes'[f[x]].name = name
              /\ x # from => /\ nodes'[f[x]].parent = f[t[x].parent]
                             /\ nodes'[f[x]].name = t[x].name
  <2>1. x # from => f[t[x].parent] \in Nodes
    BY <1>4, <1>5 DEF Nodes
  <2> QED BY <1>5, <1>6, <1>9, <2>1, ThenCopyRow
<1>12. nodes' \in [DOMAIN t \cup {f[x] : x \in S} -> Row]
  <2>1. \A m \in DOMAIN nodes' : nodes'[m] \in Row
    BY <1>7, <1>9, <1>11 DEF TreeOK, RowsFit
  <2> QED
    BY <1>b, <1>7, <2>1
<1>13. TreeOK(nodes', clock')
  <2>1. CopyHangs(t, nodes', from, p, name, S, f)
    BY <1>3, <1>4, <1>5, <1>7, <1>11, <1>12 DEF CopyHangs
  <2> QED BY <1>8, <1>9, <1>10, <2>1, CopyGrafted
<1>14. f[from] \in _resolve(nodes', root, path)
  <2>1. SameOutside(t, nodes', {}) /\ DownClosed(t, {})
    BY <1>7 DEF SameOutside, DownClosed
  <2>2. f[from] \in get_child_by_name(nodes', p, Last(path))
    BY <1>4, <1>7, <1>11, ChildIs DEF name
  <2>3. path \in Seq(Names) /\ path # <<>> /\ p \in _resolve(t, root, Front(path))
    BY AddressParts DEF t
  <2> QED BY <2>1, <2>2, <2>3, ChildFound
<1> QED BY <1>7, <1>13, <1>14, FoundAfter

(* A file in a folder the address leads to.                                *)
LEMMA UploadedStep ==
    ASSUME NEW t, TreeOK(t, clock), NEW u \in Users, NEW root \in Roots,
           NEW path \in Addresses, NEW p \in _resolve(t, root, Front(path)),
           NEW size \in Sizes, get_child_by_name(t, p, Last(path)) = {},
           Uploaded(u, root, path, t, p, size)
    PROVE  IInv' /\ WrittenIsFound'
<1>1. PICK n \in OneOf(Then(t)!Fresh) :
         /\ nodes' = WithRow(t, n, File(t[p].owner, p, Last(path), size))
         /\ answer' = Wrote(root, path, n, FALSE)
  BY DEF Uploaded
<1>2. clock' = clock /\ Live(t, p)
  BY ThenEdits DEF Uploaded
<1>3. n \in Ids /\ n \notin DOMAIN t
  BY OneOfIn, ThenFresh
<1> DEFINE row == File(t[p].owner, p, Last(path), size)
<1>4. p \in Nodes /\ t[p] \in Row
  BY <1>2 DEF Live, TreeOK, RowsFit
<1>5. Last(path) \in Names /\ size \in Nat
  BY AddressParts, ConstantsAssumption
<1>6. row \in Row /\ row.parent = p /\ row.name = Last(path) /\ row.deletedAt = Never
  <2>1. t[p].owner \in Users
    BY <1>4, RowFields
  <2>2. [size |-> size, owner |-> t[p].owner] \in Version
    BY <1>5, <2>1 DEF Version
  <2>3. <<[size |-> size, owner |-> t[p].owner]>> \in Seq(Version)
    BY <2>2
  <2> QED BY <1>4, <1>5, <2>1, <2>3 DEF File, Row, Never
<1>7. nodes' = WithRow(t, n, row)
  BY <1>1
<1> HIDE DEF row
<1>8. TreeOK(nodes', clock')
  BY <1>2, <1>3, <1>6, <1>7, LeafAdded
<1>9. DOMAIN nodes' = DOMAIN t \cup {n} /\ nodes'[n] = row /\ \A m \in DOMAIN t : nodes'[m] = t[m]
  BY <1>3, <1>7 DEF WithRow
<1>10. n \in _resolve(nodes', root, path)
  <2>1. SameOutside(t, nodes', {}) /\ DownClosed(t, {})
    BY <1>9 DEF SameOutside, DownClosed
  <2>2. n \in get_child_by_name(nodes', p, Last(path))
    BY <1>6, <1>9, ChildIs
  <2>3. path \in Seq(Names) /\ path # <<>>
    BY AddressParts
  <2> QED BY <2>1, <2>2, <2>3, ChildFound
<1> QED BY <1>1, <1>8, <1>10, FoundAfter

(* A version of the file the address leads to.                             *)
LEMMA VersionFound ==
    ASSUME IInv, NEW u \in Users, NEW root \in Roots, NEW path \in Addresses,
           NEW n \in _resolve(nodes, root, path), NEW size \in Sizes,
           upload_version(u, n, size), answer' = Wrote(root, path, n, FALSE)
    PROVE  IInv' /\ WrittenIsFound'
<1>1. n \in DOMAIN nodes /\ _store_version(n, size) /\ size \in Nat
  BY ConstantsAssumption DEF upload_version, Live
<1>2. IInv' /\ DOMAIN nodes' = DOMAIN nodes
  BY <1>1, VersionStep
<1>3. PICK v : nodes' = [nodes EXCEPT ![n].versions = v]
  BY <1>1 DEF _store_version
<1>4. nodes[n] \in Row
  BY <1>1 DEF IInv, RowsOK
<1>5. /\ nodes'[n].parent = nodes[n].parent
      /\ nodes'[n].name = nodes[n].name
      /\ nodes'[n].deletedAt = nodes[n].deletedAt
  BY <1>1, <1>3, <1>4 DEF Row
<1>6. \A m \in DOMAIN nodes \ {n} : nodes'[m] = nodes[m]
  BY <1>3
<1>7. SameOutside(nodes, nodes', {}) /\ DownClosed(nodes, {})
  BY <1>2, <1>5, <1>6 DEF SameOutside, DownClosed
<1>8. path \in Seq(Names)
  BY AddressParts
<1>9. n \in _resolve(nodes', root, path)
  BY <1>7, <1>8, StillLeads
<1> QED BY <1>2, <1>9, TreeIs, FoundAfter

(* A PUT of S3 keeps the tree sound, and what it wrote is found.           *)
LEMMA PutObjectStep ==
    ASSUME IInv, NEW u \in Users, NEW v \in Users, NEW path \in Addresses,
           NEW size \in Sizes, put_object(u, v, path, size)
    PROVE  IInv' /\ WrittenIsFound'
<1>1. PICK at \in _ensure_parents(u, RootOf[v], Front(path)) :
         \/ /\ get_child_by_name(at.t, at.folder, Last(path)) = {}
            /\ Uploaded(u, RootOf[v], path, at.t, at.folder, size)
         \/ \E n \in get_child_by_name(at.t, at.folder, Last(path)) :
                upload_version(u, n, size) /\ answer' = Wrote(RootOf[v], path, n, FALSE)
  BY DEF put_object
<1>2. RootOf[v] \in Roots /\ path \in Seq(Names) /\ path # <<>> /\ Front(path) \in Seq(Names)
  BY AddressParts DEF Roots
<1>3. OnTheWay(at, RootOf[v], Front(path))
  BY <1>2, ParentsOnTheWay
<1>4. CASE /\ get_child_by_name(at.t, at.folder, Last(path)) = {}
           /\ Uploaded(u, RootOf[v], path, at.t, at.folder, size)
  BY <1>2, <1>3, <1>4, UploadedStep DEF OnTheWay
<1>5. ASSUME NEW n \in get_child_by_name(at.t, at.folder, Last(path)),
             upload_version(u, n, size), answer' = Wrote(RootOf[v], path, n, FALSE)
      PROVE  IInv' /\ WrittenIsFound'
  <2>1. n \in Children(at.t, at.folder)
    BY DEF get_child_by_name, LiveChildren
  <2>2. at.t = nodes /\ at.folder \in _resolve(nodes, RootOf[v], Front(path))
    BY <1>3, <2>1 DEF OnTheWay
  <2>3. n \in _resolve(nodes, RootOf[v], path)
    BY <1>2, <1>5, <2>2, ResolveNext
  <2> QED BY <1>2, <1>5, <2>3, VersionFound
<1> QED BY <1>1, <1>4, <1>5

(* So does a PUT of WebDAV.                                                *)
LEMMA DavPutStep ==
    ASSUME IInv, NEW u \in Users, NEW path \in Addresses, NEW size \in Sizes,
           dav_put(u, path, size)
    PROVE  IInv' /\ WrittenIsFound'
<1>1. PICK p \in _resolve(nodes, RootOf[u], Front(path)) :
         \/ /\ get_child_by_name(nodes, p, Last(path)) = {}
            /\ Uploaded(u, RootOf[u], path, nodes, p, size)
         \/ \E n \in get_child_by_name(nodes, p, Last(path)) :
                upload_version(u, n, size) /\ answer' = Wrote(RootOf[u], path, n, FALSE)
  BY DEF dav_put
<1>2. RootOf[u] \in Roots /\ path \in Seq(Names) /\ path # <<>>
  BY AddressParts DEF Roots
<1>3. CASE /\ get_child_by_name(nodes, p, Last(path)) = {}
           /\ Uploaded(u, RootOf[u], path, nodes, p, size)
  BY <1>2, <1>3, TreeIs, UploadedStep
<1>4. ASSUME NEW n \in get_child_by_name(nodes, p, Last(path)),
             upload_version(u, n, size), answer' = Wrote(RootOf[u], path, n, FALSE)
      PROVE  IInv' /\ WrittenIsFound'
  <2>1. n \in _resolve(nodes, RootOf[u], path)
    BY <1>2, <1>4, ResolveNext
  <2> QED BY <1>2, <1>4, <2>1, VersionFound
<1> QED BY <1>1, <1>3, <1>4

(* So does an MKCOL.                                                       *)
LEMMA DavMkcolStep ==
    ASSUME IInv, NEW u \in Users, NEW path \in Addresses, dav_mkcol(u, path)
    PROVE  IInv' /\ WrittenIsFound'
<1>1. PICK p \in _resolve(nodes, RootOf[u], Front(path)), n \in OneOf(Fresh) :
         create_folder(u, p, n, Last(path)) /\ answer' = Wrote(RootOf[u], path, n, FALSE)
  BY DEF dav_mkcol
<1> DEFINE row == Folder(nodes[p].owner, p, Last(path))
<1>2. /\ nodes' = WithRow(nodes, n, row) /\ clock' = clock /\ Live(nodes, p)
      /\ get_child_by_name(nodes, p, Last(path)) \subseteq {n}
  BY <1>1 DEF create_folder, MayEdit, _ensure_name_free
<1>3. n \in Ids /\ n \notin DOMAIN nodes
  BY OneOfIn DEF Fresh
<1>4. p \in Nodes /\ nodes[p] \in Row
  BY <1>2 DEF Live, IInv, RowsOK
<1>5. path \in Seq(Names) /\ path # <<>> /\ Last(path) \in Names /\ RootOf[u] \in Roots
  BY AddressParts DEF Roots
<1>6. row \in Row /\ row.parent = p /\ row.name = Last(path) /\ row.deletedAt = Never
  <2>1. nodes[p].owner \in Users
    BY <1>4, RowFields
  <2> QED BY <1>4, <1>5, <2>1 DEF Folder, Row, Never
<1> HIDE DEF row
<1>7. get_child_by_name(nodes, p, Last(path)) = {}
  BY <1>2, <1>3, ChildIs
<1>8. TreeOK(nodes', clock')
  BY <1>2, <1>3, <1>6, <1>7, TreeIs, LeafAdded
<1>9. /\ DOMAIN nodes' = DOMAIN nodes \cup {n} /\ nodes'[n] = row
      /\ \A m \in DOMAIN nodes : nodes'[m] = nodes[m]
  BY <1>2, <1>3 DEF WithRow
<1>10. n \in _resolve(nodes', RootOf[u], path)
  <2>1. SameOutside(nodes, nodes', {}) /\ DownClosed(nodes, {})
    BY <1>9 DEF SameOutside, DownClosed
  <2>2. n \in get_child_by_name(nodes', p, Last(path))
    BY <1>6, <1>9, ChildIs
  <2> QED BY <1>5, <2>1, <2>2, ChildFound
<1> QED BY <1>1, <1>5, <1>8, <1>10, FoundAfter

-----------------------------------------------------------------------------
(* COPY and MOVE.                                                          *)

(* So does a CopyObject.                                                   *)
LEMMA CopyObjectStep ==
    ASSUME IInv, NEW u \in Users, NEW v \in Users, NEW key \in ObjectKeys,
           NEW path \in Addresses, copy_object(u, v, key, path)
    PROVE  IInv' /\ WrittenIsFound'
<1>1. PICK from, at :
         /\ at \in _ensure_parents(u, RootOf[v], Front(path))
         /\ Copied(u, RootOf[v], path, [Before EXCEPT !.t = at.t], from, at.folder)
  BY DEF copy_object
<1>2. RootOf[v] \in Roots /\ Front(path) \in Seq(Names)
  BY AddressParts DEF Roots
<1>3. OnTheWay(at, RootOf[v], Front(path))
  BY <1>1, <1>2, ParentsOnTheWay
<1>4. PICK s : s = [Before EXCEPT !.t = at.t]
  OBVIOUS
<1>5. s.t = at.t /\ s.clock = clock
  BY <1>4 DEF Before
<1>6. TreeOK(s.t, s.clock) /\ at.folder \in _resolve(s.t, RootOf[v], Front(path))
  BY <1>3, <1>5 DEF OnTheWay
<1>7. Copied(u, RootOf[v], path, s, from, at.folder)
  BY <1>1, <1>4
<1> QED BY <1>2, <1>6, <1>7, CopiedStep

(* The table without its occupant t2, where B is what went to the trash.   *)
Cleared(t, t2, B) ==
    /\ DownClosed(t, B) /\ SameOutside(t, t2, B) /\ InPlace(t, t2)
    /\ \A m \in B : ~ Live(t2, m)

(* Clearing the way of a COPY or MOVE keeps the tree sound and only        *)
(* trashes rows.                                                           *)
LEMMA OverwrittenOK ==
    ASSUME IInv, NEW u, NEW p \in DOMAIN nodes, NEW name, NEW s \in overwritten(u, p, name)
    PROVE  TreeOK(s.t, s.clock) /\ \E B : Cleared(nodes, s.t, B)
<1>1. CASE get_child_by_name(nodes, p, name) = {}
  <2>1. s = Before
    BY <1>1 DEF overwritten
  <2>2. s.t = nodes /\ s.clock = clock
    BY <2>1 DEF Before
  <2>3. Cleared(nodes, nodes, {})
    BY DEF Cleared, DownClosed, SameOutside, InPlace
  <2> QED BY <2>2, <2>3, TreeIs
<1>2. CASE get_child_by_name(nodes, p, name) # {}
  <2>1. PICK c \in get_child_by_name(nodes, p, name) : s = Trash(Before, c)
    BY <1>2 DEF overwritten
  <2>2. s.t = soft_delete_subtree(nodes, c, clock + 1) /\ s.clock = clock + 1
    BY <2>1 DEF Trash, Before
  <2>3. c \in DOMAIN nodes \ Roots
    <3>1. c \in DOMAIN nodes /\ nodes[c].parent = p
      BY <2>1, ChildIs
    <3>2. p # NoParent
      BY ConstantsAssumption DEF IInv, RowsOK
    <3> QED BY <3>1, <3>2 DEF IInv, RowsOK
  <2>4. TreeOK(s.t, s.clock)
    BY <2>2, <2>3, TreeIs, SubtreeTrashed
  <2> DEFINE B == Subtree(nodes, c)
  <2>5. DownClosed(nodes, B)
    BY SubtreeClosed
  <2>6. /\ DOMAIN s.t = DOMAIN nodes
        /\ \A m \in DOMAIN nodes :
              s.t[m] = IF m \in B /\ Live(nodes, m) THEN [nodes[m] EXCEPT !.deletedAt = clock + 1]
                       ELSE nodes[m]
    BY <2>2 DEF soft_delete_subtree, Moving
  <2> HIDE DEF B
  <2>7. clock \in Nat /\ clock + 1 \in Nat /\ clock + 1 # Never
    BY DEF IInv, RowsOK, Never
  <2>8. ASSUME NEW m \in DOMAIN nodes
        PROVE  /\ m \notin B => s.t[m].deletedAt = nodes[m].deletedAt
               /\ m \in B => s.t[m].deletedAt # Never
    <3>1. nodes[m] \in Row
      BY DEF IInv, RowsOK
    <3>2. PICK r : r = [nodes[m] EXCEPT !.deletedAt = clock + 1]
      OBVIOUS
    <3>3. r.deletedAt = clock + 1
      BY <2>7, <3>1, <3>2, StampedRow
    <3>4. s.t[m] = IF m \in B /\ Live(nodes, m) THEN r ELSE nodes[m]
      BY <2>6, <3>2
    <3> QED BY <2>7, <3>3, <3>4 DEF Live
  <2>9. InPlace(nodes, s.t)
    BY <2>2, TreeIs, TrashKeepsRows
  <2>10. SameOutside(nodes, s.t, B)
    BY <2>8, <2>9 DEF SameOutside, InPlace
  <2>11. Cleared(nodes, s.t, B)
    BY <2>5, <2>6, <2>8, <2>9, <2>10 DEF Cleared, Live
  <2> QED BY <2>4, <2>11
<1> QED BY <1>1, <1>2

(* A COPY keeps the tree sound, and what it wrote is found.                *)
LEMMA DavCopyStep ==
    ASSUME IInv, NEW u \in Users, NEW key \in Addresses, NEW path \in Addresses,
           dav_copy(u, key, path)
    PROVE  IInv' /\ WrittenIsFound'
<1>1. PICK from \in _resolve(nodes, RootOf[u], key), p \in _resolve(nodes, RootOf[u], Front(path)) :
         \E s \in overwritten(u, p, Last(path)) : Copied(u, RootOf[u], path, s, from, p)
  BY DEF dav_copy
<1>2. PICK s \in overwritten(u, p, Last(path)) : Copied(u, RootOf[u], path, s, from, p)
  BY <1>1
<1>3. RootOf[u] \in Roots /\ Front(path) \in Seq(Names)
  BY AddressParts DEF Roots
<1>4. p \in DOMAIN nodes
  BY <1>3, TreeIs, OnlyRow DEF Live
<1>5. TreeOK(s.t, s.clock)
  BY <1>4, OverwrittenOK
<1>6. PICK B : Cleared(nodes, s.t, B)
  BY <1>4, OverwrittenOK
<1>7. Live(s.t, p)
  BY <1>2, ThenCopies DEF Copied
<1>8. p \in _resolve(s.t, RootOf[u], Front(path))
  BY <1>3, <1>6, <1>7, StillLeads DEF Cleared
<1> QED BY <1>2, <1>3, <1>5, <1>8, CopiedStep

(* A row that lands in a folder which is not beneath it.                   *)
LEMMA LandsThere ==
    ASSUME NEW t, NEW root, NEW path \in Addresses, NEW n \in DOMAIN t,
           NEW p \in _resolve(t, root, Front(path)), p \notin Subtree(t, n),
           NEW t2, DOMAIN t2 = DOMAIN t, \A m \in DOMAIN t \ {n} : t2[m] = t[m],
           t2[n].parent = p, t2[n].name = Last(path), t2[n].deletedAt = Never
    PROVE  n \in _resolve(t2, root, path)
<1>1. n \in Subtree(t, n) /\ DownClosed(t, Subtree(t, n))
  BY SubtreeSelf, SubtreeClosed
<1>2. SameOutside(t, t2, Subtree(t, n))
  BY <1>1 DEF SameOutside
<1>3. n \in get_child_by_name(t2, p, Last(path))
  BY ChildIs
<1>4. path \in Seq(Names) /\ path # <<>>
  BY AddressParts
<1> QED BY <1>1, <1>2, <1>3, <1>4, ChildFound

(* MOVE keeps the tree in its first half and in its second, and the row is *)
(* then where its address leads, unless it was its own occupant.           *)
LEMMA DavMoveStep ==
    ASSUME IInv, NEW u \in Users, NEW key \in Addresses, NEW path \in Addresses,
           dav_move(u, key, path)
    PROVE  IInv' /\ WrittenIsFound'
<1> DEFINE Moves(n, p) == p # nodes[n].parent
           Moved(n, p, s) == IF Moves(n, p) THEN [s.t EXCEPT ![n].parent = p] ELSE s.t
           Result(n, p, s) ==
             /\ Moves(n, p) => /\ Then(s.t)!MayEdit(u, n) /\ Then(s.t)!MayEdit(u, p)
                               /\ Then(s.t)!CanMove(n, p)
             /\ Renames(n, p, Last(path)) =>
                    /\ Then(Moved(n, p, s))!MayEdit(u, n) /\ ~ IsRoot(n)
                    /\ Then(Moved(n, p, s))!_ensure_name_free(p, Last(path), n)
             /\ nodes' = IF Renames(n, p, Last(path))
                         THEN [Moved(n, p, s) EXCEPT ![n].name = Last(path)] ELSE Moved(n, p, s)
             /\ usage' = s.usage /\ clock' = s.clock
             /\ answer' = Wrote(RootOf[u], path, n, ~ Moves(n, p) /\ ~ Renames(n, p, Last(path)))
             /\ UNCHANGED <<objects, grants>>
<1>1. PICK n \in _resolve(nodes, RootOf[u], key), p \in _resolve(nodes, RootOf[u], Front(path)) :
         \E s \in overwritten(u, p, Last(path)) : Result(n, p, s)
  BY DEF dav_move
<1>2. PICK s \in overwritten(u, p, Last(path)) : Result(n, p, s)
  BY <1>1
<1>3. PICK t, mid, name : t = s.t /\ mid = Moved(n, p, s) /\ name = Last(path)
  OBVIOUS
<1>4. /\ p # nodes[n].parent => /\ Then(t)!MayEdit(u, n) /\ Then(t)!MayEdit(u, p)
                                /\ Then(t)!CanMove(n, p)
      /\ name # nodes[n].name => /\ Then(mid)!MayEdit(u, n)
                                 /\ Then(mid)!_ensure_name_free(p, name, n)
      /\ nodes' = IF name # nodes[n].name THEN [mid EXCEPT ![n].name = name] ELSE mid
      /\ mid = IF p # nodes[n].parent THEN [t EXCEPT ![n].parent = p] ELSE t
      /\ clock' = s.clock
      /\ answer' = Wrote(RootOf[u], path, n, ~ (p # nodes[n].parent) /\ ~ (name # nodes[n].name))
  BY <1>2, <1>3 DEF Renames
<1> HIDE DEF Result, Moved, Moves
<1>5. /\ RootOf[u] \in Roots /\ Front(path) \in Seq(Names) /\ name \in Names
      /\ key \in Seq(Names) /\ key # <<>> /\ path \in Seq(Names)
  BY <1>3, AddressParts DEF Roots
<1>6. p \in DOMAIN nodes /\ n \in DOMAIN nodes \ Roots
  BY <1>5, TreeIs, OnlyRow DEF Live
<1>7. TreeOK(t, s.clock)
  BY <1>3, <1>6, OverwrittenOK
<1>8. PICK B : Cleared(nodes, t, B)
  BY <1>3, <1>6, OverwrittenOK
<1>9. /\ n \in DOMAIN t \ Roots /\ p \in DOMAIN t /\ t[n].parent = nodes[n].parent
      /\ t[n].name = nodes[n].name /\ t[n] \in Row /\ p \in Nodes
  BY <1>6, <1>7, <1>8 DEF Cleared, InPlace, TreeOK, RowsFit
<1>10. CASE p = nodes[n].parent /\ name = nodes[n].name
  <2>1. nodes' = t /\ clock' = s.clock /\ answer'.self
    BY <1>4, <1>10 DEF Wrote
  <2> QED BY <1>7, <2>1, TreeIs DEF WrittenIsFound
<1>11. CASE p # nodes[n].parent \/ name # nodes[n].name
  <2>1. Live(mid, n) /\ TreeOK(mid, s.clock) /\ p \notin Subtree(t, n) /\ p \notin B
        /\ DOMAIN mid = DOMAIN t /\ (\A m \in DOMAIN t \ {n} : mid[m] = t[m])
        /\ mid[n].parent = p /\ mid[n].name = t[n].name
    <3>1. CASE p # nodes[n].parent
      <4>1. /\ Live(t, n) /\ Live(t, p) /\ ~ is_ancestor_of(t, n, p)
            /\ get_child_by_name(t, p, t[n].name) \subseteq {n}
        BY <1>4, <3>1, ThenEdits, ThenMoves
      <4>2. mid = [t EXCEPT ![n].parent = p]
        BY <1>4, <3>1
      <4>3. TreeOK(mid, s.clock)
        BY <1>7, <1>9, <4>1, <4>2, RowMoved
      <4>4. p \notin Subtree(t, n)
        BY <1>9, <4>1, ChainFindsSubtree
      <4>5. p \notin B
        BY <1>8, <4>1 DEF Cleared
      <4>6. PICK row : row = [t[n] EXCEPT !.parent = p]
        OBVIOUS
      <4>7. row.parent = p /\ row.name = t[n].name /\ row.deletedAt = t[n].deletedAt
        BY <1>9, <4>6, HungRow
      <4>8. mid = [t EXCEPT ![n] = row]
        BY <4>2, <4>6
      <4>9. /\ DOMAIN mid = DOMAIN t /\ mid[n] = row /\ \A m \in DOMAIN t \ {n} : mid[m] = t[m]
        BY <1>9, <4>8
      <4>10. Live(mid, n)
        BY <1>9, <4>1, <4>7, <4>9 DEF Live
      <4> QED BY <4>3, <4>4, <4>5, <4>7, <4>9, <4>10
    <3>2. CASE p = nodes[n].parent
      <4>1. mid = t /\ Live(t, n)
        BY <1>4, <1>11, <3>2, ThenEdits
      <4>2. p \notin Subtree(t, n)
        BY <1>7, <1>9, <3>2, ParentAbove
      <4>3. n \notin B
        BY <1>8, <4>1 DEF Cleared
      <4>4. p \notin B
        BY <1>6, <1>8, <3>2, <4>3 DEF Cleared, DownClosed
      <4> QED BY <1>7, <1>9, <3>2, <4>1, <4>2, <4>4
    <3> QED BY <3>1, <3>2
  <2>2. p \in _resolve(t, RootOf[u], Front(path))
    BY <1>5, <1>8, <2>1, StillLeads DEF Cleared
  <2>3. /\ TreeOK(nodes', s.clock) /\ DOMAIN nodes' = DOMAIN t
        /\ \A m \in DOMAIN t \ {n} : nodes'[m] = t[m]
        /\ nodes'[n].parent = p /\ nodes'[n].name = name /\ nodes'[n].deletedAt = Never
    <3>1. CASE name = nodes[n].name
      BY <1>4, <1>9, <2>1, <3>1 DEF Live
    <3>2. CASE name # nodes[n].name
      <4>1. get_child_by_name(mid, p, name) \subseteq {n}
        BY <1>4, <3>2, ThenFree
      <4>2. nodes' = [mid EXCEPT ![n].name = name]
        BY <1>4, <3>2
      <4>3. n \in DOMAIN mid /\ mid[n] \in Row
        BY <1>9, <2>1 DEF TreeOK, RowsFit
      <4>4. TreeOK(nodes', s.clock)
        BY <1>5, <2>1, <4>1, <4>2, <4>3, RowRenamed
      <4>5. PICK row : row = [mid[n] EXCEPT !.name = name]
        OBVIOUS
      <4>6. row.parent = p /\ row.name = name /\ row.deletedAt = Never
        BY <1>5, <2>1, <4>3, <4>5, NamedRow DEF Live
      <4>7. nodes' = [mid EXCEPT ![n] = row]
        BY <4>2, <4>5
      <4>8. /\ DOMAIN nodes' = DOMAIN t /\ nodes'[n] = row
            /\ \A m \in DOMAIN t \ {n} : nodes'[m] = t[m]
        BY <2>1, <4>3, <4>7
      <4> QED BY <4>4, <4>6, <4>8
    <3> QED BY <3>1, <3>2
  <2>4. n \in _resolve(nodes', RootOf[u], path)
    BY <1>3, <1>9, <2>1, <2>2, <2>3, LandsThere
  <2> QED BY <1>4, <1>5, <2>3, <2>4, FoundAfter
<1> QED BY <1>10, <1>11

-----------------------------------------------------------------------------
(* Every request of a gateway keeps the tree as the use cases do, and can  *)
(* be asked for what it wrote.                                             *)
LEMMA GwStep ==
    ASSUME IInv, WrittenIsFound, [GwNext]_gwVars
    PROVE  IInv' /\ WrittenIsFound'
<1>1. CASE UNCHANGED gwVars
  <2>1. nodes' = nodes /\ clock' = clock /\ answer' = answer
    BY <1>1 DEF gwVars
  <2> QED BY <2>1, TreeIs DEF WrittenIsFound
<1>2. ASSUME IInv', answer' = NoAnswer PROVE IInv' /\ WrittenIsFound'
  BY <1>2 DEF WrittenIsFound
<1>3. CASE Next /\ answer' = NoAnswer
  <2>1. [Next]_vars
    BY <1>3
  <2>2. IInv'
    BY <2>1, NextStep
  <2> QED BY <1>2, <1>3, <2>2
<1>4. ASSUME NEW u \in Users, _dispatch_bucket(u) PROVE IInv' /\ WrittenIsFound'
  <2>1. PICK keys \in Batches : delete_objects(u, keys)
    BY <1>4 DEF _dispatch_bucket
  <2>2. answer' = NoAnswer
    BY <2>1 DEF delete_objects
  <2>3. IInv'
    BY <2>1, BatchStep
  <2> QED BY <1>2, <2>2, <2>3
<1>5. ASSUME NEW u \in Users, NEW path \in Addresses, _handle(u, path)
      PROVE  IInv' /\ WrittenIsFound'
  <2>1. ASSUME dav_delete(u, path) PROVE IInv' /\ WrittenIsFound'
    <3>1. PICK n \in _resolve(nodes, RootOf[u], path) : delete(u, n)
      BY <2>1 DEF dav_delete
    <3>2. answer' = NoAnswer
      BY <2>1 DEF dav_delete
    <3>3. n \in DOMAIN nodes
      BY <3>1 DEF delete, MayOwn, Live
    <3>4. IInv'
      BY <3>1, <3>3, DeleteStep
    <3> QED BY <1>2, <3>2, <3>4
  <2>2. \/ \E size \in Sizes : dav_put(u, path, size)
        \/ dav_mkcol(u, path)
        \/ dav_delete(u, path)
        \/ \E key \in Addresses : dav_copy(u, key, path)
        \/ \E key \in Addresses : dav_move(u, key, path)
    BY <1>5 DEF _handle
  <2> QED BY <2>1, <2>2, DavPutStep, DavMkcolStep, DavCopyStep, DavMoveStep
<1>6. ASSUME NEW u \in Users, NEW path \in Addresses, _dispatch_object(u, path)
      PROVE  IInv' /\ WrittenIsFound'
  BY <1>6, PutObjectStep, CopyObjectStep DEF _dispatch_object
<1> QED BY <1>1, <1>3, <1>4, <1>5, <1>6 DEF GwNext

(* To begin with both hold.                                                *)
LEMMA GwStart == GwInit => IInv /\ WrittenIsFound
BY InitIInv DEF GwInit, WrittenIsFound

(* The tree is as sound with the gateways as without them: no PUT that     *)
(* makes folders, batch of deletions, COPY or MOVE that clears its way     *)
(* first, in any order with the use cases, breaks the shape of the rows,   *)
(* cuts one off, nests the trash wrongly or lets two names meet.           *)
THEOREM GatewaysKeepTree == GwSpec => [](RowsOK /\ Rooted /\ TrashNested /\ SiblingNamesUnique)
<1>1. IInv /\ WrittenIsFound /\ [GwNext]_gwVars => IInv' /\ WrittenIsFound'
  BY GwStep
<1>2. IInv => RowsOK /\ Rooted /\ TrashNested /\ SiblingNamesUnique
  BY GroundedChain DEF IInv, RowsOK, Rooted
<1> QED BY GwStart, <1>1, <1>2, PTL DEF GwSpec

(* What a request of S3 or WebDAV wrote is found at the address it gave,   *)
(* and nothing else is.                                                    *)
THEOREM WritesAreFound == GwSpec => []WrittenIsFound
<1>1. IInv /\ WrittenIsFound /\ [GwNext]_gwVars => IInv' /\ WrittenIsFound'
  BY GwStep
<1> QED BY GwStart, <1>1, PTL DEF GwSpec

-----------------------------------------------------------------------------
(* The objects behind the files.                                           *)

(* How many objects the version rows of a table name.                      *)
HeldIn(t, m) == IF m \in DOMAIN t THEN Len(t[m].versions) ELSE 0

(* A table of the request names what the committed one does.               *)
SameHeld(t) == \A m \in Nodes : HeldIn(t, m) = HeldIn(nodes, m)

(* Versions counted in the table as it is, and as a step leaves it.        *)
LEMMA HeldIs ==
    ASSUME NEW m
    PROVE  Referenced(m) = HeldIn(nodes, m) /\ Referenced(m)' = HeldIn(nodes', m)
BY DEF Referenced, HeldIn

(* Rows that stay in place keep their versions.                            *)
LEMMA InPlaceHeld ==
    ASSUME NEW t, InPlace(nodes, t)
    PROVE  SameHeld(t)
BY DEF InPlace, SameHeld, HeldIn

(* Folders made on the way add no version.                                 *)
LEMMA OnTheWayHeld ==
    ASSUME NEW at, NEW root, NEW q, OnTheWay(at, root, q)
    PROVE  SameHeld(at.t)
<1>1. PICK t : t = at.t
  OBVIOUS
<1>2. /\ DOMAIN nodes \subseteq DOMAIN t /\ \A m \in DOMAIN nodes : t[m] = nodes[m]
      /\ \A m \in DOMAIN t \ DOMAIN nodes : t[m].versions = <<>>
  BY <1>1 DEF OnTheWay
<1>3. ASSUME NEW m PROVE HeldIn(t, m) = HeldIn(nodes, m)
  <2>1. CASE m \in DOMAIN nodes
    BY <1>2, <2>1 DEF HeldIn
  <2>2. CASE m \in DOMAIN t \ DOMAIN nodes
    BY <1>2, <2>2 DEF HeldIn
  <2>3. CASE m \notin DOMAIN t
    BY <1>2, <2>3 DEF HeldIn
  <2> QED BY <2>1, <2>2, <2>3
<1> QED BY <1>1, <1>3 DEF SameHeld

(* A step that changes what is named and what is stored under the ids of F *)
(* alone, where there was nothing of either and there is now as much of    *)
(* one as of the other.                                                    *)
LEMMA StoredAnew ==
    ASSUME IInv, StoreOK, NEW F,
           objects' = [m \in Nodes |-> objects'[m]],
           \A m \in Nodes \ F : HeldIn(nodes', m) = HeldIn(nodes, m) /\ objects'[m] = objects[m],
           \A m \in Nodes \cap F : /\ HeldIn(nodes, m) = 0 /\ objects[m] = 0
                                   /\ objects'[m] \in Nat /\ HeldIn(nodes', m) = objects'[m]
    PROVE  StoreOK' /\ NoNewStray
<1>1. /\ objects \in [Nodes -> Nat]
      /\ \A m \in Nodes : Referenced(m) \in Nat /\ objects[m] >= Referenced(m)
  BY ReferencedIsNat DEF IInv, StoreOK, NoObjectMissing
<1>2. ASSUME NEW m \in Nodes
      PROVE  /\ objects'[m] \in Nat /\ objects'[m] >= Referenced(m)'
             /\ objects'[m] - Referenced(m)' <= objects[m] - Referenced(m)
  <2>1. CASE m \in F
    BY <2>1, HeldIs
  <2>2. CASE m \notin F
    <3>1. objects'[m] = objects[m] /\ Referenced(m)' = Referenced(m)
      BY <2>2, HeldIs
    <3>2. PICK o \in Nat, r \in Nat : o = objects[m] /\ r = Referenced(m) /\ o >= r
      BY <1>1
    <3> QED BY <3>1, <3>2
  <2> QED BY <2>1, <2>2
<1>3. objects' \in [Nodes -> Nat]
  BY <1>2
<1> QED BY <1>2, <1>3 DEF StoreOK, NoObjectMissing, NoNewStray

(* An upload of a gateway keeps the store sound and strands nothing.       *)
LEMMA UploadedStored ==
    ASSUME IInv, StoreOK, NEW t, SameHeld(t), NEW u, NEW root, NEW path, NEW p, NEW size,
           Uploaded(u, root, path, t, p, size)
    PROVE  StoreOK' /\ NoNewStray
<1> DEFINE row == File(t[p].owner, p, Last(path), size)
<1>1. PICK n \in OneOf(Then(t)!Fresh) :
         nodes' = WithRow(t, n, row) /\ objects' = [objects EXCEPT ![n] = 1]
  BY DEF Uploaded
<1>2. n \in Nodes /\ n \notin DOMAIN t /\ objects[n] = 0
  BY OneOfIn, ThenFresh DEF Nodes
<1>3. Len(row.versions) = 1
  BY DEF File
<1> HIDE DEF row
<1>4. objects \in [Nodes -> Nat]
  BY DEF StoreOK
<1>5. objects' = [m \in Nodes |-> objects'[m]] /\ objects'[n] = 1
      /\ \A m \in Nodes \ {n} : objects'[m] = objects[m]
  BY <1>1, <1>2, <1>4
<1>6. DOMAIN nodes' = DOMAIN t \cup {n} /\ nodes'[n] = row /\ \A m \in DOMAIN t : nodes'[m] = t[m]
  BY <1>1, <1>2 DEF WithRow
<1>7. HeldIn(nodes', n) = 1 /\ HeldIn(t, n) = 0
  BY <1>2, <1>3, <1>6 DEF HeldIn
<1>8. \A m \in Nodes \ {n} : HeldIn(nodes', m) = HeldIn(t, m)
  BY <1>6 DEF HeldIn
<1>9. \A m \in Nodes : HeldIn(t, m) = HeldIn(nodes, m)
  BY DEF SameHeld
<1>10. \A m \in Nodes \ {n} : HeldIn(nodes', m) = HeldIn(nodes, m) /\ objects'[m] = objects[m]
  BY <1>5, <1>8, <1>9
<1>11. \A m \in Nodes \cap {n} : /\ HeldIn(nodes, m) = 0 /\ objects[m] = 0
                                 /\ objects'[m] \in Nat /\ HeldIn(nodes', m) = objects'[m]
  BY <1>2, <1>5, <1>7, <1>9
<1> QED BY <1>5, <1>10, <1>11, StoredAnew

(* A first version is one version.                                         *)
LEMMA OneLong ==
    ASSUME NEW e
    PROVE  Len(<<e>>) = 1
OBVIOUS

(* So does a copy of a gateway.                                            *)
LEMMA CopiedStored ==
    ASSUME IInv, StoreOK, NEW s, TreeOK(s.t, s.clock), SameHeld(s.t),
           NEW u, NEW root, NEW path, NEW from, NEW p, Copied(u, root, path, s, from, p)
    PROVE  StoreOK' /\ NoNewStray
<1> DEFINE t == s.t
           name == Last(path)
           Result(S, f) ==
             /\ nodes' = [m \in DOMAIN t \cup Range(f) |->
                            IF m \in Range(f)
                            THEN Then(t)!CopyRow(u, from, p, name, f, CHOOSE n \in S : f[n] = m)
                            ELSE t[m]]
             /\ objects' = [m \in Nodes |->
                            IF m \in Range(f) /\ t[CHOOSE n \in S : f[n] = m].kind = "file"
                            THEN 1 ELSE objects[m]]
<1>a. PICK S \in Then(t)!CopiedSets(from) :
          \E f \in OneOf(Injection(S, Then(t)!Fresh)) : Result(S, f)
  BY DEF Copied
<1>1. PICK f \in OneOf(Injection(S, Then(t)!Fresh)) : Result(S, f)
  BY <1>a
<1>2. f \in [S -> Then(t)!Fresh] /\ Range(f) = {f[x] : x \in S}
  BY OneOfIn DEF Injection, Range
<1>3. TreeOK(t, s.clock) /\ \A m \in Nodes : HeldIn(t, m) = HeldIn(nodes, m)
  BY DEF SameHeld
<1> HIDE DEF t, name
<1>4. S \subseteq DOMAIN t
  BY ThenPart, SubtreeClosed
<1>5. objects \in [Nodes -> Nat]
  BY DEF StoreOK
<1>6. ASSUME NEW m \in Nodes \cap Range(f)
      PROVE  /\ HeldIn(nodes, m) = 0 /\ objects[m] = 0
             /\ objects'[m] \in Nat /\ HeldIn(nodes', m) = objects'[m]
  <2> DEFINE x == CHOOSE n \in S : f[n] = m
  <2>1. m \in Then(t)!Fresh /\ x \in S
    BY <1>2
  <2>2. objects[m] = 0 /\ m \notin DOMAIN t
    BY <2>1, ThenFresh
  <2>3. /\ m \in DOMAIN nodes' /\ nodes'[m] = Then(t)!CopyRow(u, from, p, name, f, x)
        /\ objects'[m] = IF t[x].kind = "file" THEN 1 ELSE objects[m]
    BY <1>1
  <2> HIDE DEF x
  <2>4. t[x].kind \in {"folder", "file"}
    BY <1>3, <1>4, <2>1, RowFields DEF TreeOK, RowsFit
  <2>5a. PICK e : e = [size |-> Then(t)!size_bytes(t, x), owner |-> u]
    OBVIOUS
  <2>5. PICK v : v = <<e>> /\ Len(v) = 1
    BY OneLong
  <2>6. Then(t)!CopyRow(u, from, p, name, f, x).versions = IF t[x].kind = "folder" THEN <<>> ELSE v
    BY <2>5a, <2>5 DEF Then!CopyRow
  <2>7. HeldIn(nodes', m) = IF t[x].kind = "folder" THEN 0 ELSE 1
    BY <2>3, <2>5, <2>6 DEF HeldIn
  <2>8. HeldIn(nodes, m) = 0
    BY <1>3, <2>2 DEF HeldIn
  <2> QED BY <2>2, <2>3, <2>4, <2>7, <2>8
<1>7. ASSUME NEW m \in Nodes \ Range(f)
      PROVE  HeldIn(nodes', m) = HeldIn(nodes, m) /\ objects'[m] = objects[m]
  <2>1. HeldIn(nodes', m) = HeldIn(t, m) /\ objects'[m] = objects[m]
    BY <1>1 DEF HeldIn
  <2> QED BY <1>3, <2>1
<1>8. objects' = [m \in Nodes |-> objects'[m]]
  BY <1>1
<1> HIDE DEF Result
<1> QED BY <1>6, <1>7, <1>8, StoredAnew

(* Rows that keep their versions in a store that keeps its objects.        *)
LEMMA MovedStored ==
    ASSUME IInv, StoreOK, SameHeld(nodes'), objects' = objects
    PROVE  StoreOK' /\ NoNewStray
<1>1. objects' = [m \in Nodes |-> objects'[m]]
  BY DEF StoreOK
<1>2. \A m \in Nodes \ {} : HeldIn(nodes', m) = HeldIn(nodes, m) /\ objects'[m] = objects[m]
  BY DEF SameHeld
<1>3. \A m \in Nodes \cap {} : /\ HeldIn(nodes, m) = 0 /\ objects[m] = 0
                              /\ objects'[m] \in Nat /\ HeldIn(nodes', m) = objects'[m]
  OBVIOUS
<1> QED BY <1>1, <1>2, <1>3, StoredAnew

(* So does a MOVE, which stores nothing.                                   *)
LEMMA DavMoveStored ==
    ASSUME IInv, StoreOK, NEW u \in Users, NEW key \in Addresses, NEW path \in Addresses,
           dav_move(u, key, path)
    PROVE  StoreOK' /\ NoNewStray
<1> DEFINE Moves(n, p) == p # nodes[n].parent
           Moved(n, p, s) == IF Moves(n, p) THEN [s.t EXCEPT ![n].parent = p] ELSE s.t
           Result(n, p, s) ==
             /\ Moves(n, p) => /\ Then(s.t)!MayEdit(u, n) /\ Then(s.t)!MayEdit(u, p)
                               /\ Then(s.t)!CanMove(n, p)
             /\ Renames(n, p, Last(path)) =>
                    /\ Then(Moved(n, p, s))!MayEdit(u, n) /\ ~ IsRoot(n)
                    /\ Then(Moved(n, p, s))!_ensure_name_free(p, Last(path), n)
             /\ nodes' = IF Renames(n, p, Last(path))
                         THEN [Moved(n, p, s) EXCEPT ![n].name = Last(path)] ELSE Moved(n, p, s)
             /\ usage' = s.usage /\ clock' = s.clock
             /\ answer' = Wrote(RootOf[u], path, n, ~ Moves(n, p) /\ ~ Renames(n, p, Last(path)))
             /\ UNCHANGED <<objects, grants>>
<1>1. PICK n \in _resolve(nodes, RootOf[u], key), p \in _resolve(nodes, RootOf[u], Front(path)) :
         \E s \in overwritten(u, p, Last(path)) : Result(n, p, s)
  BY DEF dav_move
<1>2. PICK s \in overwritten(u, p, Last(path)) : Result(n, p, s)
  BY <1>1
<1>3. PICK t, mid : /\ t = s.t
                    /\ mid = IF p # nodes[n].parent THEN [t EXCEPT ![n].parent = p] ELSE t
                    /\ nodes' = mid \/ nodes' = [mid EXCEPT ![n].name = Last(path)]
                    /\ objects' = objects
  BY <1>2
<1> HIDE DEF Result, Moved, Moves
<1>4. /\ RootOf[u] \in Roots /\ Front(path) \in Seq(Names) /\ Last(path) \in Names
      /\ key \in Seq(Names)
  BY AddressParts DEF Roots
<1>5. p \in DOMAIN nodes /\ n \in DOMAIN nodes
  BY <1>4, TreeIs, OnlyRow DEF Live
<1>6. InPlace(nodes, t) /\ TreeOK(t, s.clock)
  BY <1>3, <1>5, OverwrittenOK DEF Cleared
<1>7. t \in [DOMAIN t -> Row] /\ DOMAIN t = DOMAIN nodes /\ p \in Nodes
  BY <1>5, <1>6 DEF InPlace, TreeOK, RowsFit
<1>8. mid \in [DOMAIN t -> Row] /\ \A m \in DOMAIN t : mid[m].versions = t[m].versions
  <2>1. PICK row : row = [t[n] EXCEPT !.parent = p]
    OBVIOUS
  <2>2. row \in Row /\ row.versions = t[n].versions
    BY <1>5, <1>7, <2>1, HungRow
  <2>3. mid = t \/ mid = [t EXCEPT ![n] = row]
    BY <1>3, <2>1
  <2> QED BY <1>5, <1>7, <2>2, <2>3
<1>9. DOMAIN nodes' = DOMAIN t /\ \A m \in DOMAIN t : nodes'[m].versions = t[m].versions
  <2>1. PICK row : row = [mid[n] EXCEPT !.name = Last(path)]
    OBVIOUS
  <2>2. row.versions = mid[n].versions
    BY <1>4, <1>5, <1>7, <1>8, <2>1, NamedRow
  <2>3. nodes' = mid \/ nodes' = [mid EXCEPT ![n] = row]
    BY <1>3, <2>1
  <2> QED BY <1>5, <1>7, <1>8, <2>2, <2>3
<1>10. SameHeld(nodes')
  <2>1. SameHeld(t)
    BY <1>6, InPlaceHeld
  <2>2. \A m : HeldIn(nodes', m) = HeldIn(t, m)
    BY <1>9 DEF HeldIn
  <2> QED BY <2>1, <2>2 DEF SameHeld
<1> QED BY <1>3, <1>10, MovedStored

(* A request of a gateway takes no object a row names and leaves no stray. *)
LEMMA GwStoreStep ==
    ASSUME IInv, StoreOK, [GwNext]_gwVars
    PROVE  StoreOK' /\ (NoNewStray \/ LeavesStrays)
<1> DEFINE Goal == StoreOK' /\ NoNewStray
<1>0. SameHeld(nodes) /\ TreeOK(nodes, clock)
  BY TreeIs DEF SameHeld
<1>a. \A u \in Users : RootOf[u] \in Roots
  BY DEF Roots
<1>1. ASSUME UNCHANGED gwVars PROVE Goal
  <2>1. nodes' = nodes /\ objects' = objects
    BY <1>1 DEF gwVars
  <2> QED BY <1>0, <2>1, MovedStored
<1>2. CASE Next
  BY <1>2, StoreStep
<1>3. ASSUME NEW u \in Users, NEW keys \in Batches, delete_objects(u, keys) PROVE Goal
  <2>1. objects' = objects
    BY <1>3 DEF delete_objects
  <2>2. SameHeld(nodes')
    BY <1>3, BatchStep, InPlaceHeld
  <2> QED BY <2>1, <2>2, MovedStored
<1>4. ASSUME NEW u \in Users, NEW path \in Addresses, NEW size \in Sizes, dav_put(u, path, size)
      PROVE  Goal
  <2>1. PICK p : \/ Uploaded(u, RootOf[u], path, nodes, p, size)
                 \/ \E n : upload_version(u, n, size)
    BY <1>4 DEF dav_put
  <2>2. ASSUME NEW n, upload_version(u, n, size) PROVE Goal
    BY <2>2, ConstantsAssumption, VersionStored DEF upload_version, Live
  <2> QED BY <1>0, <2>1, <2>2, UploadedStored
<1>5. ASSUME NEW u \in Users, NEW path \in Addresses, dav_mkcol(u, path) PROVE Goal
  <2>1. PICK p \in _resolve(nodes, RootOf[u], Front(path)), n \in OneOf(Fresh) : create_folder(u, p, n, Last(path))
    BY <1>5 DEF dav_mkcol
  <2>2. n \in Fresh /\ n \in Nodes /\ objects[n] = 0
    BY OneOfIn DEF Fresh, Nodes
  <2> DEFINE row == Folder(nodes[p].owner, p, Last(path))
  <2>3. row.versions = <<>> /\ Len(row.versions) = 0
    BY DEF Folder
  <2>4. nodes' = WithRow(nodes, n, row) /\ objects' = [objects EXCEPT ![n] = Len(row.versions)]
    BY <2>1, <2>2, <2>3 DEF create_folder, StoreOK
  <2> HIDE DEF row
  <2> QED BY <2>2, <2>3, <2>4, RowAdded
<1>6. ASSUME NEW u \in Users, NEW path \in Addresses, dav_delete(u, path) PROVE Goal
  <2>1. PICK n : delete(u, n)
    BY <1>6 DEF dav_delete
  <2>2. n \in DOMAIN nodes
    BY <2>1 DEF delete, MayOwn, Live
  <2> QED BY <2>1, <2>2, RowChanges
<1>7. ASSUME NEW u \in Users, NEW key \in Addresses, NEW path \in Addresses, dav_copy(u, key, path)
      PROVE  Goal
  <2>1. PICK from \in _resolve(nodes, RootOf[u], key), p \in _resolve(nodes, RootOf[u], Front(path)) :
           \E s \in overwritten(u, p, Last(path)) : Copied(u, RootOf[u], path, s, from, p)
    BY <1>7 DEF dav_copy
  <2>2. PICK s \in overwritten(u, p, Last(path)) : Copied(u, RootOf[u], path, s, from, p)
    BY <2>1
  <2>3. p \in DOMAIN nodes
    BY <1>0, <1>a, AddressParts, OnlyRow DEF Live
  <2>4. TreeOK(s.t, s.clock) /\ SameHeld(s.t)
    BY <2>3, OverwrittenOK, InPlaceHeld DEF Cleared
  <2> QED BY <2>2, <2>4, CopiedStored
<1>8. ASSUME NEW u \in Users, NEW key \in Addresses, NEW path \in Addresses, dav_move(u, key, path)
      PROVE  Goal
  BY <1>8, DavMoveStored
<1>9. ASSUME NEW u \in Users, NEW v \in Users, NEW path \in Addresses, NEW size \in Sizes,
             put_object(u, v, path, size)
      PROVE  Goal
  <2>1. PICK at \in _ensure_parents(u, RootOf[v], Front(path)) :
           \/ Uploaded(u, RootOf[v], path, at.t, at.folder, size)
           \/ \E n : upload_version(u, n, size)
    BY <1>9 DEF put_object
  <2>2. ASSUME NEW n, upload_version(u, n, size) PROVE Goal
    BY <2>2, ConstantsAssumption, VersionStored DEF upload_version, Live
  <2>3. SameHeld(at.t)
    BY <1>a, AddressParts, ParentsOnTheWay, OnTheWayHeld
  <2> QED BY <2>1, <2>2, <2>3, UploadedStored
<1>10. ASSUME NEW u \in Users, NEW v \in Users, NEW key \in ObjectKeys, NEW path \in Addresses,
              copy_object(u, v, key, path)
       PROVE  Goal
  <2>1. PICK from, at :
           /\ at \in _ensure_parents(u, RootOf[v], Front(path))
           /\ Copied(u, RootOf[v], path, [Before EXCEPT !.t = at.t], from, at.folder)
    BY <1>10 DEF copy_object
  <2>2. OnTheWay(at, RootOf[v], Front(path))
    BY <1>a, <2>1, AddressParts, ParentsOnTheWay
  <2>3. PICK s : s = [Before EXCEPT !.t = at.t]
    OBVIOUS
  <2>4. s.t = at.t /\ s.clock = clock
    BY <2>3 DEF Before
  <2>5. TreeOK(s.t, s.clock) /\ SameHeld(s.t)
    BY <2>2, <2>4, OnTheWayHeld DEF OnTheWay
  <2>6. Copied(u, RootOf[v], path, s, from, at.folder)
    BY <2>1, <2>3
  <2> QED BY <2>5, <2>6, CopiedStored
<1> HIDE DEF Goal
<1>11. \/ UNCHANGED gwVars
       \/ Next
       \/ \E u \in Users, keys \in Batches : delete_objects(u, keys)
       \/ \E u \in Users, path \in Addresses :
            \/ \E size \in Sizes : dav_put(u, path, size)
            \/ dav_mkcol(u, path)
            \/ dav_delete(u, path)
            \/ \E key \in Addresses : dav_copy(u, key, path) \/ dav_move(u, key, path)
            \/ \E v \in Users, size \in Sizes : put_object(u, v, path, size)
            \/ \E v \in Users, key \in ObjectKeys : copy_object(u, v, key, path)
  BY DEF GwNext, _handle, _dispatch_object, _dispatch_bucket
<1>12. Goal \/ Next
  BY <1>1, <1>3, <1>4, <1>5, <1>6, <1>7, <1>8, <1>9, <1>10, <1>11 DEF Goal
<1> QED BY <1>2, <1>12 DEF Goal

(* The inductive invariant of the gateways' specification.                 *)
LEMMA GatewaysStore == GwSpec => [](IInv /\ StoreOK)
<1>1. GwInit => IInv /\ WrittenIsFound /\ StoreOK
  BY GwStart, InitStore DEF GwInit
<1>2. /\ IInv /\ WrittenIsFound /\ StoreOK /\ [GwNext]_gwVars
      => IInv' /\ WrittenIsFound' /\ StoreOK'
  BY GwStep, GwStoreStep
<1> QED BY <1>1, <1>2, PTL DEF GwSpec

(* No request of a gateway takes an object that a version row names.       *)
THEOREM GatewaysLoseNothing == GwSpec => []NoObjectMissing
<1>1. StoreOK => NoObjectMissing
  BY DEF StoreOK
<1> QED BY GatewaysStore, <1>1, PTL

(* Nor does one leave an object that no row names: what S3 and WebDAV      *)
(* overwrite goes to the trash with its bytes, and each file they create   *)
(* or copy gets an object of its own.                                      *)
THEOREM GatewaysStoreExact ==
    ASSUME MaxStrays = 0, SweepBatch = 0, IsFiniteSet(Nodes)
    PROVE  GwSpec => []ObjectsReferenced
<1>1. IInv /\ StoreOK /\ (IInv /\ StoreOK)' /\ [GwNext]_gwVars /\ ObjectsReferenced
        => ObjectsReferenced'
  <2> SUFFICES ASSUME IInv, StoreOK, IInv', StoreOK', [GwNext]_gwVars, ObjectsReferenced
               PROVE  ObjectsReferenced'
    OBVIOUS
  <2>1. NoNewStray
    BY NoStrays, GwStoreStep
  <2> QED BY <2>1, StaysExact
<1>2. GwInit => ObjectsReferenced
  BY StartsExact DEF GwInit
<1> QED BY GatewaysStore, <1>1, <1>2, PTL DEF GwSpec

-----------------------------------------------------------------------------
(* Only folders have children.                                             *)

(* Rows keep their kinds, and one that is hung elsewhere is hung under a   *)
(* folder.                                                                 *)
LEMMA FoldersKept ==
    ASSUME NEW t, NEW c, TreeOK(t, c), FoldersAbove(t), NEW t2, DOMAIN t2 = DOMAIN t,
           \A m \in DOMAIN t :
                /\ t2[m].kind = t[m].kind
                /\ \/ t2[m].parent = t[m].parent
                   \/ t2[m].parent \in DOMAIN t /\ t[t2[m].parent].kind = "folder"
    PROVE  FoldersAbove(t2)
<1>1. Roots \subseteq DOMAIN t
  BY DEF TreeOK, RowsFit
<1> QED BY <1>1 DEF FoldersAbove

(* Rows are added under folders, old or new.                               *)
LEMMA FoldersAdded ==
    ASSUME NEW t, NEW c, TreeOK(t, c), FoldersAbove(t), NEW t2, DOMAIN t \subseteq DOMAIN t2,
           \A m \in DOMAIN t : t2[m] = t[m],
           NoParent \notin DOMAIN t2,
           \A m \in DOMAIN t2 \ DOMAIN t : t2[t2[m].parent].kind = "folder"
    PROVE  FoldersAbove(t2)
<1>1. Roots \subseteq DOMAIN t
  BY DEF TreeOK, RowsFit
<1>2. \A m \in DOMAIN t : t[m].parent \in DOMAIN t \cup {NoParent}
  BY DEF TreeOK, RowsFit
<1> QED BY <1>1, <1>2 DEF FoldersAbove

(* Rows go.                                                                *)
LEMMA FoldersCut ==
    ASSUME IInv', FoldersAbove(nodes), NEW G, NEW K, Purged(K, G)
    PROVE  FoldersAbove(nodes')
<1>1. nodes' = [m \in DOMAIN nodes \ G |-> nodes[m]]
  BY DEF Purged, WithoutRows
<1>2. Roots \subseteq DOMAIN nodes'
  BY DEF IInv, RowsOK
<1> QED BY <1>1, <1>2 DEF FoldersAbove

(* No use case hangs a row from a file.                                    *)
LEMMA FoldersStep ==
    ASSUME IInv, IInv', FoldersAbove(nodes), [Next]_vars
    PROVE  FoldersAbove(nodes')
<1>0. /\ nodes \in [DOMAIN nodes -> Row] /\ clock \in Nat /\ TreeOK(nodes, clock)
      /\ DOMAIN nodes \subseteq Nodes /\ \A n \in DOMAIN nodes : nodes[n] \in Row
  BY TreeIs DEF IInv, RowsOK
<1>1. ASSUME nodes' = nodes PROVE FoldersAbove(nodes')
  BY <1>1
<1>2. ASSUME NEW u \in Users, NEW p \in DOMAIN nodes, NEW n \in OneOf(Fresh),
             NEW name \in Names,
             \/ create_folder(u, p, n, name)
             \/ \E size \in Sizes : upload_new(u, p, n, name, size)
      PROVE  FoldersAbove(nodes')
  <2>1. n \in Ids \ DOMAIN nodes /\ nodes[p].kind = "folder"
    BY <1>2 DEF OneOf, Fresh, create_folder, upload_new, IsFolder
  <2>2. PICK row : nodes' = WithRow(nodes, n, row) /\ row.parent = p
    <3>1. \A size : File(nodes[p].owner, p, name, size).parent = p
      BY DEF File
    <3>2. Folder(nodes[p].owner, p, name).parent = p
      BY DEF Folder
    <3> QED BY <1>2, <3>1, <3>2 DEF create_folder, upload_new
  <2> QED BY <1>0, <2>1, <2>2, LeafUnderFolder
<1>3. ASSUME NEW u \in Users, NEW n \in DOMAIN nodes, NEW name \in Names, rename(u, n, name)
      PROVE  FoldersAbove(nodes')
  <2>1. /\ [nodes[n] EXCEPT !.name = name].parent = nodes[n].parent
        /\ [nodes[n] EXCEPT !.name = name].kind = nodes[n].kind
    BY <1>0, NamedRow
  <2>2. /\ DOMAIN nodes' = DOMAIN nodes
        /\ \A m \in DOMAIN nodes : nodes'[m].kind = nodes[m].kind
                                   /\ nodes'[m].parent = nodes[m].parent
    BY <1>0, <1>3, <2>1 DEF rename
  <2> QED BY <1>0, <2>2, FoldersKept
<1>4. ASSUME NEW u \in Users, NEW n \in DOMAIN nodes, NEW d \in DOMAIN nodes, move(u, n, d)
      PROVE  FoldersAbove(nodes')
  <2>1. /\ [nodes[n] EXCEPT !.parent = d].parent = d
        /\ [nodes[n] EXCEPT !.parent = d].kind = nodes[n].kind
    BY <1>0, HungRow
  <2>2. /\ DOMAIN nodes' = DOMAIN nodes
        /\ \A m \in DOMAIN nodes : /\ nodes'[m].kind = nodes[m].kind
                                   /\ nodes'[m].parent = IF m = n THEN d ELSE nodes[m].parent
    BY <1>0, <1>4, <2>1 DEF move
  <2>3. nodes[d].kind = "folder"
    BY <1>4 DEF move, CanMove, IsFolder
  <2> QED BY <1>0, <2>2, <2>3, FoldersKept
<1>5. ASSUME NEW u \in Users, NEW n \in DOMAIN nodes, delete(u, n)
      PROVE  FoldersAbove(nodes')
  <2>1. InPlace(nodes, nodes')
    BY <1>0, <1>5, TrashKeepsRows DEF delete
  <2> QED BY <1>0, <2>1, FoldersKept DEF InPlace
<1>6. ASSUME NEW u \in Users, NEW n \in DOMAIN nodes, restore(u, n)
      PROVE  FoldersAbove(nodes')
  <2> DEFINE t == restore_subtree(nodes, n)
             d == RestoreTarget(u, n)
  <2>1. \A m \in DOMAIN nodes : /\ [nodes[m] EXCEPT !.deletedAt = Never].parent = nodes[m].parent
                                /\ [nodes[m] EXCEPT !.deletedAt = Never].kind = nodes[m].kind
                                /\ [nodes[m] EXCEPT !.deletedAt = Never] \in Row
    BY <1>0, StampedRow DEF Never
  <2>2. /\ t \in [DOMAIN nodes -> Row]
        /\ \A m \in DOMAIN nodes : t[m].parent = nodes[m].parent /\ t[m].kind = nodes[m].kind
    BY <1>0, <2>1 DEF restore_subtree
  <2>3. nodes' = [t EXCEPT ![n].parent = d]
    BY <1>6 DEF restore
  <2>4. d \in DOMAIN nodes /\ (d = nodes[n].parent \/ nodes[d].kind = "folder")
    <3>1. RootOf[u] \in DOMAIN nodes /\ nodes[RootOf[u]].kind = "folder"
      BY ConstantsAssumption DEF IInv, RowsOK, Roots, FoldersAbove
    <3> QED BY <3>1 DEF RestoreTarget, Live
  <2> HIDE DEF t, d
  <2>5. [t[n] EXCEPT !.parent = d].parent = d /\ [t[n] EXCEPT !.parent = d].kind = nodes[n].kind
    BY <1>0, <2>2, <2>4, HungRow
  <2>6. /\ DOMAIN nodes' = DOMAIN nodes
        /\ \A m \in DOMAIN nodes : /\ nodes'[m].kind = nodes[m].kind
                                   /\ nodes'[m].parent = IF m = n THEN d ELSE nodes[m].parent
    BY <2>2, <2>3, <2>5
  <2> QED BY <1>0, <2>4, <2>6, FoldersKept
<1>7. ASSUME NEW n \in DOMAIN nodes, NEW size, _store_version(n, size)
      PROVE  FoldersAbove(nodes')
  <2>1. PICK w : nodes' = [nodes EXCEPT ![n].versions = w]
    BY <1>7 DEF _store_version
  <2>2. /\ [nodes[n] EXCEPT !.versions = w].parent = nodes[n].parent
        /\ [nodes[n] EXCEPT !.versions = w].kind = nodes[n].kind
    <3>1. nodes[n] \in Row
      BY <1>0
    <3> QED BY <3>1 DEF Row
  <2>3. /\ DOMAIN nodes' = DOMAIN nodes
        /\ \A m \in DOMAIN nodes : nodes'[m].kind = nodes[m].kind
                                   /\ nodes'[m].parent = nodes[m].parent
    BY <1>0, <2>1, <2>2
  <2> QED BY <1>0, <2>3, FoldersKept
<1>8. ASSUME NEW u \in Users, NEW n \in DOMAIN nodes,
             \/ \E m \in OneOf(Fresh), name \in Names, size \in Sizes :
                    upload_new_refused(u, n, m, name, size)
             \/ \E size \in Sizes : upload_version_refused(u, n, size)
             \/ \E d \in DOMAIN nodes, name \in Names : copy_refused(u, n, d, name)
      PROVE  FoldersAbove(nodes')
  BY <1>1, <1>8 DEF upload_new_refused, upload_version_refused, copy_refused, StrayObject
<1>9. ASSUME NEW u \in Users, NEW s \in DOMAIN nodes, NEW d \in DOMAIN nodes, NEW name \in Names,
             copy(u, s, d, name)
      PROVE  FoldersAbove(nodes')
  <2>1. PICK S \in SUBSET DOMAIN nodes : CopyOf(u, s, d, S)
    BY <1>9, CopyRows
  <2>2. /\ DOMAIN nodes \subseteq DOMAIN nodes'
        /\ \A m \in DOMAIN nodes : nodes'[m] = nodes[m]
    BY <2>1 DEF CopyOf
  <2>3. PICK f \in Bijection(S, DOMAIN nodes' \ DOMAIN nodes) : \A x \in S : CopyMade(u, s, d, S, f, x)
    BY <2>1 DEF CopyOf
  <2>4. \A x \in S : /\ nodes'[f[x]].kind = nodes[x].kind
                     /\ nodes'[f[x]].parent = IF x = s THEN d ELSE f[nodes[x].parent]
                     /\ x # s => nodes[x].parent \in S
    BY <2>3 DEF CopyMade
  <2>5. nodes'[d].kind = "folder"
    <3>1. nodes[d].kind = "folder"
      BY <1>9 DEF copy, CanCopy, IsFolder
    <3> QED BY <2>2, <3>1
  <2>6. \A m \in DOMAIN nodes' \ DOMAIN nodes : \E x \in S : f[x] = m
    BY DEF Bijection, Surjection
  <2>7. ASSUME NEW x \in S PROVE nodes'[nodes'[f[x]].parent].kind = "folder"
    <3>1. CASE x = s
      BY <2>4, <2>5, <3>1
    <3>2. CASE x # s
      BY <2>4, <3>2 DEF FoldersAbove
    <3> QED BY <3>1, <3>2
  <2>8. \A m \in DOMAIN nodes' \ DOMAIN nodes : nodes'[nodes'[m].parent].kind = "folder"
    BY <2>6, <2>7
  <2>9. NoParent \notin DOMAIN nodes'
    BY ConstantsAssumption DEF IInv, RowsOK
  <2> QED BY <1>0, <2>2, <2>8, <2>9, FoldersAdded
<1>10. ASSUME NEW u \in Users, NEW n \in DOMAIN nodes, purge(u, n)
       PROVE  FoldersAbove(nodes')
  BY <1>10, FoldersCut DEF purge, purge_subtree
<1>11. ASSUME NEW u \in Users, empty_trash(u)
       PROVE  FoldersAbove(nodes')
  BY <1>11, FoldersCut DEF empty_trash, purge_subtree
<1>12. ASSUME NEW cutoff \in 1 .. clock + 1, PurgeJob(cutoff)
       PROVE  FoldersAbove(nodes')
  BY <1>12, FoldersCut DEF PurgeJob
<1>13. CASE ReconcileQuotasJob \/ OrphanReaper \/ UNCHANGED vars
  BY <1>1, <1>13 DEF ReconcileQuotasJob, OrphanReaper, vars
<1>14. ASSUME NEW u \in Users, NEW n \in DOMAIN nodes,
              \/ \E size \in Sizes : upload_version(u, n, size)
              \/ \E i \in 1 .. Retention : restore_version(u, n, i)
       PROVE  FoldersAbove(nodes')
  BY <1>7, <1>14 DEF upload_version, restore_version
<1>15. ASSUME NEW u \in Users, shares_router(u)
       PROVE  FoldersAbove(nodes')
  <2>1. PICK n \in DOMAIN nodes, v \in Users, keep \in BOOLEAN : transfer_ownership(u, n, v, keep)
    BY <1>15 DEF shares_router
  <2>2. PICK S : nodes' = [m \in DOMAIN nodes |->
                        IF m \in S THEN [nodes[m] EXCEPT !.owner = v] ELSE nodes[m]]
    BY <2>1 DEF transfer_ownership
  <2>3. \A m \in DOMAIN nodes : /\ [nodes[m] EXCEPT !.owner = v].parent = nodes[m].parent
                                /\ [nodes[m] EXCEPT !.owner = v].kind = nodes[m].kind
    BY <1>0, OwnedRow
  <2>4. /\ DOMAIN nodes' = DOMAIN nodes
        /\ \A m \in DOMAIN nodes : nodes'[m].kind = nodes[m].kind
                                   /\ nodes'[m].parent = nodes[m].parent
    BY <2>2, <2>3
  <2> QED BY <1>0, <2>4, FoldersKept
<1> QED
  BY <1>2, <1>3, <1>4, <1>5, <1>6, <1>8, <1>9, <1>10, <1>11, <1>12, <1>13, <1>14, <1>15
     DEF Next, nodes_router, content_router, trash_router

(* An upload of a gateway hangs its file from a folder.                    *)
LEMMA UploadedFolders ==
    ASSUME NEW t, NEW c, TreeOK(t, c), FoldersAbove(t), NEW u, NEW root, NEW path, NEW p, NEW size,
           Uploaded(u, root, path, t, p, size)
    PROVE  FoldersAbove(nodes')
<1> DEFINE row == File(t[p].owner, p, Last(path), size)
<1>1. PICK n \in OneOf(Then(t)!Fresh) : nodes' = WithRow(t, n, row)
  BY DEF Uploaded
<1>2. n \in Ids \ DOMAIN t
  BY OneOfIn, ThenFresh
<1>3. Live(t, p) /\ t[p].kind = "folder"
  <2>1. Then(t)!MayEdit(u, p) /\ Then(t)!IsFolder(p)
    BY DEF Uploaded
  <2> QED BY <2>1, ThenEdits, ThenFolder
<1>4. row.parent = p
  BY DEF File
<1> HIDE DEF row
<1> QED BY <1>1, <1>2, <1>3, <1>4, LeafUnderFolder DEF Live

(* A copy keeps the kinds of the rows it takes, so it hangs from folders   *)
(* what hung from folders.                                                 *)
LEMMA CopiedFolders ==
    ASSUME NEW s, TreeOK(s.t, s.clock), FoldersAbove(s.t), IInv',
           NEW u, NEW root, NEW path, NEW from, NEW p, Copied(u, root, path, s, from, p)
    PROVE  FoldersAbove(nodes')
<1> DEFINE t == s.t
           name == Last(path)
           Result(S, f) ==
             nodes' = [m \in DOMAIN t \cup Range(f) |->
                            IF m \in Range(f)
                            THEN Then(t)!CopyRow(u, from, p, name, f, CHOOSE n \in S : f[n] = m)
                            ELSE t[m]]
<1>a. PICK S \in Then(t)!CopiedSets(from) :
          \E f \in OneOf(Injection(S, Then(t)!Fresh)) : Result(S, f)
  BY DEF Copied
<1>1. PICK f \in OneOf(Injection(S, Then(t)!Fresh)) : Result(S, f)
  BY <1>a
<1>2. /\ f \in [S -> Then(t)!Fresh] /\ \A x, y \in S : f[x] = f[y] => x = y
      /\ Range(f) = {f[x] : x \in S}
  BY OneOfIn DEF Injection, IsInjective, Range
<1>3. /\ S \in SUBSET Subtree(t, from)
      /\ \A x \in S \ {from} : t[x].parent \in S
  BY ThenPart
<1>4. S \subseteq DOMAIN t /\ \A x \in S : f[x] \notin DOMAIN t
  BY <1>2, <1>3, SubtreeClosed, ThenFresh
<1>5. ASSUME NEW x \in S PROVE nodes'[f[x]] = Then(t)!CopyRow(u, from, p, name, f, x)
  <2>1. (CHOOSE n \in S : f[n] = f[x]) = x
    BY <1>2
  <2> QED BY <1>1, <1>2, <2>1
<1>6. /\ DOMAIN nodes' = DOMAIN t \cup {f[x] : x \in S}
      /\ \A m \in DOMAIN t : nodes'[m] = t[m]
  BY <1>1, <1>2, <1>4
<1>7. TreeOK(t, s.clock) /\ FoldersAbove(t)
  OBVIOUS
<1>8. t[p].kind = "folder" /\ p \in DOMAIN t
  <2>1. Then(t)!CanCopy(u, from, p, name)
    BY DEF Copied
  <2> QED BY <2>1, ThenCopies DEF Live
<1> HIDE DEF Result, t, name
<1>9. ASSUME NEW x \in S
      PROVE  /\ nodes'[f[x]].kind = t[x].kind
             /\ nodes'[f[x]].parent = IF x = from THEN p ELSE f[t[x].parent]
  <2>1. PICK row : row = Then(t)!CopyRow(u, from, p, name, f, x)
    OBVIOUS
  <2>2. row.kind = t[x].kind /\ row.parent = IF x = from THEN p ELSE f[t[x].parent]
    BY <2>1 DEF Then!CopyRow
  <2> QED BY <1>5, <2>1, <2>2
<1>10. ASSUME NEW x \in S PROVE nodes'[nodes'[f[x]].parent].kind = "folder"
  <2>1. CASE x = from
    BY <1>6, <1>8, <1>9, <2>1
  <2>2. CASE x # from
    <3>1. t[x].parent \in S /\ t[t[x].parent].kind = "folder"
      BY <1>3, <1>4, <1>7, <2>2 DEF FoldersAbove
    <3> QED BY <1>9, <2>2, <3>1
  <2> QED BY <2>1, <2>2
<1>11. \A m \in DOMAIN nodes' \ DOMAIN t : nodes'[nodes'[m].parent].kind = "folder"
  BY <1>6, <1>10
<1>12. NoParent \notin DOMAIN nodes'
  BY ConstantsAssumption DEF IInv, RowsOK
<1> QED BY <1>6, <1>7, <1>11, <1>12, FoldersAdded

(* Rows that stay in place keep their folders.                             *)
LEMMA InPlaceFolders ==
    ASSUME IInv, FoldersAbove(nodes), NEW t, InPlace(nodes, t)
    PROVE  FoldersAbove(t)
BY TreeIs, FoldersKept DEF InPlace

(* The folder a MOVE goes to is one, in the table of the request.          *)
LEMMA DavMoveFolders ==
    ASSUME IInv, FoldersAbove(nodes), NEW u \in Users, NEW key \in Addresses,
           NEW path \in Addresses, dav_move(u, key, path)
    PROVE  FoldersAbove(nodes')
<1> DEFINE Moves(n, p) == p # nodes[n].parent
           Moved(n, p, s) == IF Moves(n, p) THEN [s.t EXCEPT ![n].parent = p] ELSE s.t
           Result(n, p, s) ==
             /\ Moves(n, p) => /\ Then(s.t)!MayEdit(u, n) /\ Then(s.t)!MayEdit(u, p)
                               /\ Then(s.t)!CanMove(n, p)
             /\ Renames(n, p, Last(path)) =>
                    /\ Then(Moved(n, p, s))!MayEdit(u, n) /\ ~ IsRoot(n)
                    /\ Then(Moved(n, p, s))!_ensure_name_free(p, Last(path), n)
             /\ nodes' = IF Renames(n, p, Last(path))
                         THEN [Moved(n, p, s) EXCEPT ![n].name = Last(path)] ELSE Moved(n, p, s)
             /\ usage' = s.usage /\ clock' = s.clock
             /\ answer' = Wrote(RootOf[u], path, n, ~ Moves(n, p) /\ ~ Renames(n, p, Last(path)))
             /\ UNCHANGED <<objects, grants>>
<1>1. PICK n \in _resolve(nodes, RootOf[u], key), p \in _resolve(nodes, RootOf[u], Front(path)) :
         \E s \in overwritten(u, p, Last(path)) : Result(n, p, s)
  BY DEF dav_move
<1>2. PICK s \in overwritten(u, p, Last(path)) : Result(n, p, s)
  BY <1>1
<1>3. PICK t, mid : /\ t = s.t
                    /\ mid = IF p # nodes[n].parent THEN [t EXCEPT ![n].parent = p] ELSE t
                    /\ nodes' = mid \/ nodes' = [mid EXCEPT ![n].name = Last(path)]
                    /\ p # nodes[n].parent => Then(t)!CanMove(n, p)
  BY <1>2
<1> HIDE DEF Result, Moved, Moves
<1>4. /\ RootOf[u] \in Roots /\ Front(path) \in Seq(Names) /\ Last(path) \in Names
      /\ key \in Seq(Names)
  BY AddressParts DEF Roots
<1>5. p \in DOMAIN nodes /\ n \in DOMAIN nodes
  BY <1>4, TreeIs, OnlyRow DEF Live
<1>6. InPlace(nodes, t) /\ TreeOK(t, s.clock)
  BY <1>3, <1>5, OverwrittenOK DEF Cleared
<1>7. t \in [DOMAIN t -> Row] /\ DOMAIN t = DOMAIN nodes /\ p \in Nodes
  BY <1>5, <1>6 DEF InPlace, TreeOK, RowsFit
<1>8. p # nodes[n].parent => t[p].kind = "folder"
  BY <1>3, ThenMoves
<1>9. /\ mid \in [DOMAIN t -> Row]
      /\ \A m \in DOMAIN t : mid[m].kind = t[m].kind
                             /\ mid[m].parent = IF m = n /\ p # nodes[n].parent THEN p ELSE t[m].parent
  <2>1. PICK row : row = [t[n] EXCEPT !.parent = p]
    OBVIOUS
  <2>2. row \in Row /\ row.parent = p /\ row.kind = t[n].kind
    BY <1>5, <1>7, <2>1, HungRow
  <2>3. mid = IF p # nodes[n].parent THEN [t EXCEPT ![n] = row] ELSE t
    BY <1>3, <2>1
  <2> QED BY <1>5, <1>7, <2>2, <2>3
<1>10. /\ DOMAIN nodes' = DOMAIN t
       /\ \A m \in DOMAIN t : nodes'[m].kind = mid[m].kind /\ nodes'[m].parent = mid[m].parent
  <2>1. PICK row : row = [mid[n] EXCEPT !.name = Last(path)]
    OBVIOUS
  <2>2. row.kind = mid[n].kind /\ row.parent = mid[n].parent
    BY <1>4, <1>5, <1>7, <1>9, <2>1, NamedRow
  <2>3. nodes' = mid \/ nodes' = [mid EXCEPT ![n] = row]
    BY <1>3, <2>1
  <2> QED BY <1>5, <1>7, <1>9, <2>2, <2>3
<1>11. FoldersAbove(t)
  BY <1>6, InPlaceFolders
<1> QED BY <1>5, <1>6, <1>7, <1>8, <1>9, <1>10, <1>11, FoldersKept

(* Nor does a request of a gateway hang a row from a file.                 *)
LEMMA GwFoldersStep ==
    ASSUME IInv, IInv', FoldersAbove(nodes), [GwNext]_gwVars
    PROVE  FoldersAbove(nodes')
<1>0. TreeOK(nodes, clock) /\ \A u \in Users : RootOf[u] \in Roots
  BY TreeIs DEF Roots
<1>1. CASE UNCHANGED gwVars
  BY <1>1 DEF gwVars
<1>2. CASE Next
  BY <1>2, FoldersStep
<1>3. ASSUME NEW u \in Users, NEW keys \in Batches, delete_objects(u, keys)
      PROVE  FoldersAbove(nodes')
  BY <1>3, BatchStep, InPlaceFolders
<1>v. ASSUME NEW u \in Users, NEW n, NEW size \in Sizes, upload_version(u, n, size)
      PROVE  FoldersAbove(nodes')
  <2>1. n \in DOMAIN nodes
    BY <1>v DEF upload_version, Live
  <2>2. content_router(u)
    BY <1>v, <2>1 DEF content_router
  <2> QED BY <2>2, FoldersStep DEF Next
<1>4. ASSUME NEW u \in Users, NEW path \in Addresses, NEW size \in Sizes, dav_put(u, path, size)
      PROVE  FoldersAbove(nodes')
  <2>1. PICK p : \/ Uploaded(u, RootOf[u], path, nodes, p, size)
                 \/ \E n : upload_version(u, n, size)
    BY <1>4 DEF dav_put
  <2> QED BY <1>0, <1>v, <2>1, UploadedFolders
<1>5. ASSUME NEW u \in Users, NEW path \in Addresses, dav_mkcol(u, path)
      PROVE  FoldersAbove(nodes')
  <2>1. PICK p \in _resolve(nodes, RootOf[u], Front(path)), n \in OneOf(Fresh) :
           create_folder(u, p, n, Last(path))
    BY <1>5 DEF dav_mkcol
  <2>2. p \in DOMAIN nodes /\ Last(path) \in Names
    BY <2>1, AddressParts DEF create_folder, MayEdit, Live
  <2>3. nodes_router(u)
    BY <2>1, <2>2 DEF nodes_router
  <2> QED BY <2>3, FoldersStep DEF Next
<1>6. ASSUME NEW u \in Users, NEW path \in Addresses, dav_delete(u, path)
      PROVE  FoldersAbove(nodes')
  <2>1. PICK n : delete(u, n)
    BY <1>6 DEF dav_delete
  <2>2. n \in DOMAIN nodes
    BY <2>1 DEF delete, MayOwn, Live
  <2>3. nodes_router(u)
    BY <2>1, <2>2 DEF nodes_router
  <2> QED BY <2>3, FoldersStep DEF Next
<1>7. ASSUME NEW u \in Users, NEW key \in Addresses, NEW path \in Addresses, dav_copy(u, key, path)
      PROVE  FoldersAbove(nodes')
  <2>1. PICK from \in _resolve(nodes, RootOf[u], key), p \in _resolve(nodes, RootOf[u], Front(path)) :
           \E s \in overwritten(u, p, Last(path)) : Copied(u, RootOf[u], path, s, from, p)
    BY <1>7 DEF dav_copy
  <2>2. PICK s \in overwritten(u, p, Last(path)) : Copied(u, RootOf[u], path, s, from, p)
    BY <2>1
  <2>3. p \in DOMAIN nodes
    BY <1>0, AddressParts, OnlyRow DEF Live
  <2>4. TreeOK(s.t, s.clock) /\ InPlace(nodes, s.t)
    BY <2>3, OverwrittenOK DEF Cleared
  <2>5. FoldersAbove(s.t)
    BY <2>4, InPlaceFolders
  <2> QED BY <2>2, <2>4, <2>5, CopiedFolders
<1>8. ASSUME NEW u \in Users, NEW key \in Addresses, NEW path \in Addresses, dav_move(u, key, path)
      PROVE  FoldersAbove(nodes')
  BY <1>8, DavMoveFolders
<1>9. ASSUME NEW u \in Users, NEW v \in Users, NEW path \in Addresses, NEW size \in Sizes,
             put_object(u, v, path, size)
      PROVE  FoldersAbove(nodes')
  <2>1. PICK at \in _ensure_parents(u, RootOf[v], Front(path)) :
           \/ Uploaded(u, RootOf[v], path, at.t, at.folder, size)
           \/ \E n : upload_version(u, n, size)
    BY <1>9 DEF put_object
  <2>2. OnTheWay(at, RootOf[v], Front(path))
    BY <1>0, AddressParts, ParentsOnTheWay
  <2>3. TreeOK(at.t, clock) /\ FoldersAbove(at.t)
    BY <2>2 DEF OnTheWay
  <2> QED BY <1>v, <2>1, <2>3, UploadedFolders
<1>10. ASSUME NEW u \in Users, NEW v \in Users, NEW key \in ObjectKeys, NEW path \in Addresses,
              copy_object(u, v, key, path)
       PROVE  FoldersAbove(nodes')
  <2>1. PICK from, at :
           /\ at \in _ensure_parents(u, RootOf[v], Front(path))
           /\ Copied(u, RootOf[v], path, [Before EXCEPT !.t = at.t], from, at.folder)
    BY <1>10 DEF copy_object
  <2>2. OnTheWay(at, RootOf[v], Front(path))
    BY <1>0, <2>1, AddressParts, ParentsOnTheWay
  <2>3. PICK s : s = [Before EXCEPT !.t = at.t]
    OBVIOUS
  <2>4. s.t = at.t /\ s.clock = clock
    BY <2>3 DEF Before
  <2>5. TreeOK(s.t, s.clock) /\ FoldersAbove(s.t)
    BY <2>2, <2>4 DEF OnTheWay
  <2>6. Copied(u, RootOf[v], path, s, from, at.folder)
    BY <2>1, <2>3
  <2> QED BY <2>5, <2>6, CopiedFolders
<1>11. \/ UNCHANGED gwVars
       \/ Next
       \/ \E u \in Users, keys \in Batches : delete_objects(u, keys)
       \/ \E u \in Users, path \in Addresses :
            \/ \E size \in Sizes : dav_put(u, path, size)
            \/ dav_mkcol(u, path)
            \/ dav_delete(u, path)
            \/ \E key \in Addresses : dav_copy(u, key, path) \/ dav_move(u, key, path)
            \/ \E v \in Users, size \in Sizes : put_object(u, v, path, size)
            \/ \E v \in Users, key \in ObjectKeys : copy_object(u, v, key, path)
  BY DEF GwNext, _handle, _dispatch_object, _dispatch_bucket
<1> QED BY <1>1, <1>2, <1>3, <1>4, <1>5, <1>6, <1>7, <1>8, <1>9, <1>10, <1>11

-----------------------------------------------------------------------------
(* The way up from a row.                                                  *)

(* What holds of the root folders, and of a row if of its folder, holds of *)
(* every row.                                                              *)
LEMMA RowInduction ==
    ASSUME NEW t, NEW c, TreeOK(t, c), NEW S \in SUBSET DOMAIN t, Roots \subseteq S,
           \A m \in DOMAIN t : t[m].parent \in S => m \in S
    PROVE  S = DOMAIN t
BY DEF TreeOK, Grounded, DownClosed

(* A chain is the least set that holds the row and is closed upwards.      *)
LEMMA ChainLeast ==
    ASSUME NEW t, NEW n, NEW S \in SUBSET DOMAIN t, n \in S, UpClosed(t, S)
    PROVE  Chain(t, n) \subseteq S
BY DEF Chain

(* The chain of a row is the row and the chain of its folder.              *)
LEMMA ChainParent ==
    ASSUME NEW t, NEW n \in DOMAIN t, NEW p \in DOMAIN t, t[n].parent = p
    PROVE  Chain(t, n) = {n} \cup Chain(t, p)
<1>1. /\ Chain(t, n) \subseteq DOMAIN t /\ n \in Chain(t, n) /\ UpClosed(t, Chain(t, n))
      /\ Chain(t, p) \subseteq DOMAIN t /\ p \in Chain(t, p) /\ UpClosed(t, Chain(t, p))
  BY ChainClosed
<1>2. p \in Chain(t, n)
  BY <1>1 DEF UpClosed
<1>3. Chain(t, p) \subseteq Chain(t, n)
  BY <1>1, <1>2, ChainLeast
<1>4. UpClosed(t, {n} \cup Chain(t, p))
  BY <1>1 DEF UpClosed
<1>5. Chain(t, n) \subseteq {n} \cup Chain(t, p)
  BY <1>1, <1>4, ChainLeast
<1> QED BY <1>1, <1>3, <1>5

(* The chain of a row without a folder is the row.                         *)
LEMMA ChainRoot ==
    ASSUME NEW t, NEW n \in DOMAIN t, t[n].parent \notin DOMAIN t
    PROVE  Chain(t, n) = {n}
<1>1. UpClosed(t, {n})
  BY DEF UpClosed
<1> QED BY <1>1, ChainClosed, ChainLeast

(* A row on a chain has its own chain there.                               *)
LEMMA ChainInside ==
    ASSUME NEW t, NEW n \in DOMAIN t, NEW a \in Chain(t, n)
    PROVE  a \in DOMAIN t /\ Chain(t, a) \subseteq Chain(t, n)
BY ChainClosed, ChainLeast

(* Up from m is n exactly if down from n is m.                             *)
LEMMA UpIsDown ==
    ASSUME NEW t, NEW n \in DOMAIN t, NEW m \in DOMAIN t
    PROVE  m \in Subtree(t, n) <=> n \in Chain(t, m)
<1>1. m \in Subtree(t, n) => n \in Chain(t, m)
  BY ChainFindsSubtree DEF is_ancestor_of
<1>2. ASSUME n \in Chain(t, m) PROVE m \in Subtree(t, n)
  <2> DEFINE S == {x \in DOMAIN t : m \in Subtree(t, x)}
  <2>1. m \in S
    BY SubtreeSelf
  <2>2. ASSUME NEW x \in S, t[x].parent \in DOMAIN t PROVE t[x].parent \in S
    <3>1. PICK p \in DOMAIN t : p = t[x].parent
      BY <2>2
    <3>2. p \in Subtree(t, p) /\ DownClosed(t, Subtree(t, p)) /\ Subtree(t, p) \subseteq DOMAIN t
      BY SubtreeSelf, SubtreeClosed
    <3>3. x \in Subtree(t, p)
      BY <2>2, <3>1, <3>2 DEF DownClosed
    <3>4. Subtree(t, x) \subseteq Subtree(t, p)
      BY <3>2, <3>3, SubtreeLeast
    <3> QED BY <2>2, <3>1, <3>4
  <2>3. UpClosed(t, S)
    BY <2>2 DEF UpClosed
  <2> HIDE DEF S
  <2>4. S \in SUBSET DOMAIN t
    BY DEF S
  <2>5. n \in S
    BY <1>2, <2>1, <2>3, <2>4, ChainLeast
  <2> QED BY <2>5 DEF S
<1> QED BY <1>1, <1>2

(* A row that is no root folder has a folder, which is not beneath it.     *)
LEMMA NotAboveFolder ==
    ASSUME NEW t, NEW c, TreeOK(t, c), NEW n \in DOMAIN t \ Roots
    PROVE  /\ t[n].parent \in DOMAIN t /\ n \notin Chain(t, t[n].parent)
           /\ Chain(t, n) = {n} \cup Chain(t, t[n].parent)
<1>1. PICK p \in DOMAIN t : p = t[n].parent
  BY DEF TreeOK, RowsFit
<1>2. p \notin Subtree(t, n)
  BY <1>1, ParentAbove
<1> QED BY <1>1, <1>2, UpIsDown, ChainParent

(* Nothing is above a root folder.                                         *)
LEMMA RootAlone ==
    ASSUME NEW t, NEW c, TreeOK(t, c), NEW r \in Roots
    PROVE  r \in DOMAIN t /\ Chain(t, r) = {r}
<1>1. r \in DOMAIN t /\ t[r].parent = NoParent /\ NoParent \notin DOMAIN t
  BY ConstantsAssumption DEF TreeOK, RowsFit
<1> QED BY <1>1, ChainRoot

(* How far down a row is.                                                  *)
DepthIn(t, n) == Cardinality(Chain(t, n) \ {n})

(* The chain of a row holds one row of each depth down to its own.         *)
OnePerDepth(t, n) ==
    /\ IsFiniteSet(Chain(t, n)) /\ DepthIn(t, n) \in Nat
    /\ \A k \in Chain(t, n) : DepthIn(t, k) \in 0 .. DepthIn(t, n)
    /\ \A j \in 0 .. DepthIn(t, n) : \E k \in Chain(t, n) : DepthIn(t, k) = j
    /\ \A a, b \in Chain(t, n) : DepthIn(t, a) = DepthIn(t, b) => a = b

(* A row is one further down than its folder.                              *)
LEMMA DepthNext ==
    ASSUME NEW t, NEW c, TreeOK(t, c), NEW n \in DOMAIN t \ Roots,
           OnePerDepth(t, t[n].parent)
    PROVE  DepthIn(t, n) = DepthIn(t, t[n].parent) + 1 /\ OnePerDepth(t, n)
<1>1. PICK p \in DOMAIN t : /\ p = t[n].parent /\ n \notin Chain(t, p)
                            /\ Chain(t, n) = {n} \cup Chain(t, p)
  BY NotAboveFolder
<1>2. p \in Chain(t, p)
  BY ChainClosed
<1>3. IsFiniteSet(Chain(t, p)) /\ OnePerDepth(t, p)
  BY <1>1 DEF OnePerDepth
<1>4. Chain(t, n) \ {n} = Chain(t, p)
  BY <1>1
<1>5. PICK h \in Nat : h = DepthIn(t, p)
  BY <1>1 DEF OnePerDepth
<1>6. Cardinality(Chain(t, p)) = h + 1
  <2>1. PICK C : C = Chain(t, p)
    OBVIOUS
  <2>2. IsFiniteSet(C) /\ p \in C /\ Cardinality(C) \in Nat /\ h = Cardinality(C \ {p})
    BY <1>2, <1>3, <1>5, <2>1, FS_CardinalityType DEF DepthIn
  <2>3. Cardinality(C \ {p}) = Cardinality(C) - 1
    BY <2>2, FS_RemoveElement
  <2> QED BY <2>1, <2>2, <2>3
<1>7. DepthIn(t, n) = h + 1
  BY <1>4, <1>6 DEF DepthIn
<1>8. IsFiniteSet(Chain(t, n))
  BY <1>1, <1>3, FS_AddElement
<1>9. /\ \A k \in Chain(t, p) : DepthIn(t, k) \in 0 .. h
      /\ \A j \in 0 .. h : \E k \in Chain(t, p) : DepthIn(t, k) = j
      /\ \A a, b \in Chain(t, p) : DepthIn(t, a) = DepthIn(t, b) => a = b
  BY <1>3, <1>5 DEF OnePerDepth
<1>10. \A k \in Chain(t, n) : DepthIn(t, k) \in 0 .. h + 1
  BY <1>1, <1>7, <1>9
<1>11. \A j \in 0 .. h + 1 : \E k \in Chain(t, n) : DepthIn(t, k) = j
  BY <1>1, <1>7, <1>9
<1>12. ASSUME NEW a \in Chain(t, n), NEW b \in Chain(t, n), DepthIn(t, a) = DepthIn(t, b)
       PROVE  a = b
  BY <1>1, <1>7, <1>9, <1>12
<1> QED BY <1>1, <1>5, <1>7, <1>8, <1>10, <1>11, <1>12 DEF OnePerDepth

(* Every chain has one row to each depth.                                  *)
LEMMA Depths ==
    ASSUME NEW t, NEW c, TreeOK(t, c)
    PROVE  \A n \in DOMAIN t : OnePerDepth(t, n)
<1> DEFINE S == {n \in DOMAIN t : OnePerDepth(t, n)}
<1>1. ASSUME NEW r \in Roots PROVE r \in S
  <2>1. r \in DOMAIN t /\ Chain(t, r) = {r}
    BY RootAlone
  <2>2. DepthIn(t, r) = 0 /\ IsFiniteSet({r})
    BY <2>1, FS_EmptySet, FS_Singleton DEF DepthIn
  <2> QED BY <2>1, <2>2 DEF OnePerDepth
<1>2. ASSUME NEW n \in DOMAIN t, t[n].parent \in S PROVE n \in S
  <2>1. n \notin Roots
    BY <1>2, ConstantsAssumption DEF TreeOK, RowsFit
  <2> QED BY <1>2, <2>1, DepthNext
<1> HIDE DEF S
<1>3. S \in SUBSET DOMAIN t
  BY DEF S
<1>4. S = DOMAIN t
  BY <1>1, <1>2, <1>3, RowInduction
<1> QED BY <1>4 DEF S

(* Of two rows on one chain the one is above the other, or they are one.   *)
LEMMA ChainIsLine ==
    ASSUME NEW t, NEW c, TreeOK(t, c)
    PROVE  \A n \in DOMAIN t : \A a, b \in Chain(t, n) : a \in Chain(t, b) \/ b \in Chain(t, a)
<1> DEFINE S == {n \in DOMAIN t : \A a, b \in Chain(t, n) : a \in Chain(t, b) \/ b \in Chain(t, a)}
<1>1. ASSUME NEW r \in Roots PROVE r \in S
  BY RootAlone
<1>2. ASSUME NEW n \in DOMAIN t, t[n].parent \in S PROVE n \in S
  <2>1. n \notin Roots
    BY <1>2, ConstantsAssumption DEF TreeOK, RowsFit
  <2>2. Chain(t, n) = {n} \cup Chain(t, t[n].parent) /\ n \in Chain(t, n)
    BY <2>1, NotAboveFolder
  <2> QED BY <1>2, <2>2
<1> HIDE DEF S
<1>3. S \in SUBSET DOMAIN t
  BY DEF S
<1>4. S = DOMAIN t
  BY <1>1, <1>2, <1>3, RowInduction
<1> QED BY <1>4 DEF S

(* A chain that meets G has a topmost row of G.                            *)
LEMMA TopmostOf ==
    ASSUME NEW t, NEW c, TreeOK(t, c), NEW G
    PROVE  \A n \in DOMAIN t : Chain(t, n) \cap G # {} =>
              \E a \in Chain(t, n) \cap G : (Chain(t, a) \ {a}) \cap G = {}
<1> DEFINE S == {n \in DOMAIN t : Chain(t, n) \cap G # {} =>
                     \E a \in Chain(t, n) \cap G : (Chain(t, a) \ {a}) \cap G = {}}
<1>1. ASSUME NEW r \in Roots PROVE r \in S
  BY RootAlone
<1>2. ASSUME NEW n \in DOMAIN t, t[n].parent \in S PROVE n \in S
  <2>1. n \notin Roots
    BY <1>2, ConstantsAssumption DEF TreeOK, RowsFit
  <2>2. PICK C : /\ C = Chain(t, t[n].parent) /\ Chain(t, n) = {n} \cup C /\ n \notin C
    BY <2>1, NotAboveFolder
  <2>3. CASE C \cap G # {}
    BY <1>2, <2>2, <2>3
  <2>4. CASE C \cap G = {}
    BY <2>2, <2>4
  <2> QED BY <2>3, <2>4
<1> HIDE DEF S
<1>3. S \in SUBSET DOMAIN t
  BY DEF S
<1>4. S = DOMAIN t
  BY <1>1, <1>2, <1>3, RowInduction
<1> QED BY <1>4 DEF S

(* Above a live row everything is live.                                    *)
LEMMA LiveAbove ==
    ASSUME NEW t, NEW c, TreeOK(t, c), NEW n \in DOMAIN t, Live(t, n)
    PROVE  \A k \in Chain(t, n) : Live(t, k)
<1> DEFINE S == {k \in DOMAIN t : Live(t, k)}
<1>1. UpClosed(t, S)
  BY DEF UpClosed, TreeOK, NestedIn, Live, Trashed
<1>2. n \in S
  OBVIOUS
<1> HIDE DEF S
<1>3. S \in SUBSET DOMAIN t
  BY DEF S
<1>4. Chain(t, n) \subseteq S
  BY <1>1, <1>2, <1>3, ChainLeast
<1> QED BY <1>4 DEF S

(* Above a row there are folders only.                                     *)
LEMMA FoldersOnly ==
    ASSUME NEW t, NEW c, TreeOK(t, c), FoldersAbove(t), NEW n \in DOMAIN t
    PROVE  \A k \in Chain(t, n) \ {n} : t[k].kind = "folder"
<1> DEFINE S == {k \in DOMAIN t : k = n \/ t[k].kind = "folder"}
<1>1. UpClosed(t, S)
  BY DEF UpClosed, FoldersAbove
<1>2. n \in S
  OBVIOUS
<1> HIDE DEF S
<1>3. S \in SUBSET DOMAIN t
  BY DEF S
<1>4. Chain(t, n) \subseteq S
  BY <1>1, <1>2, <1>3, ChainLeast
<1> QED BY <1>4 DEF S

-----------------------------------------------------------------------------
(* The names on the way down.                                              *)

AllNames == Names \cup {RootName}

(* The row of depth j on the way to n.                                     *)
At(n, j) == CHOOSE k \in Chain(nodes, n) : Depth(k) = j

(* The depth of the model is this one.                                     *)
LEMMA DepthIs ==
    ASSUME NEW n
    PROVE  Depth(n) = DepthIn(nodes, n)
BY DEF Depth, DepthIn, ancestors

(* There is such a row, and one only.                                      *)
LEMMA AtIs ==
    ASSUME IInv, NEW n \in DOMAIN nodes, NEW j \in 0 .. DepthIn(nodes, n)
    PROVE  /\ At(n, j) \in Chain(nodes, n) /\ DepthIn(nodes, At(n, j)) = j
           /\ \A k \in Chain(nodes, n) : DepthIn(nodes, k) = j => k = At(n, j)
<1>1. OnePerDepth(nodes, n)
  BY TreeIs, Depths
<1>2. \E k \in Chain(nodes, n) : DepthIn(nodes, k) = j
  BY <1>1 DEF OnePerDepth
<1>3. At(n, j) \in Chain(nodes, n) /\ DepthIn(nodes, At(n, j)) = j
  BY <1>2, DepthIs DEF At
<1> QED BY <1>1, <1>3 DEF OnePerDepth

(* A row above another is no deeper, and as deep only if it is the same.   *)
LEMMA DepthsOnWay ==
    ASSUME IInv, NEW n \in DOMAIN nodes, NEW a \in Chain(nodes, n)
    PROVE  /\ a \in DOMAIN nodes /\ DepthIn(nodes, n) \in Nat /\ DepthIn(nodes, a) \in Nat
           /\ DepthIn(nodes, a) <= DepthIn(nodes, n)
           /\ DepthIn(nodes, a) = DepthIn(nodes, n) => a = n
<1>1. OnePerDepth(nodes, n) /\ n \in Chain(nodes, n) /\ a \in DOMAIN nodes
  BY TreeIs, Depths, ChainClosed
<1> QED BY <1>1 DEF OnePerDepth

(* On the way to a row further up it is the same one.                      *)
LEMMA AtUp ==
    ASSUME IInv, NEW n \in DOMAIN nodes, NEW a \in Chain(nodes, n),
           NEW j \in 0 .. DepthIn(nodes, a)
    PROVE  At(n, j) = At(a, j)
<1>1. /\ a \in DOMAIN nodes /\ DepthIn(nodes, n) \in Nat /\ DepthIn(nodes, a) \in Nat
      /\ DepthIn(nodes, a) <= DepthIn(nodes, n) /\ Chain(nodes, a) \subseteq Chain(nodes, n)
  BY DepthsOnWay, ChainInside
<1>2. At(a, j) \in Chain(nodes, a) /\ DepthIn(nodes, At(a, j)) = j
  BY <1>1, AtIs
<1>3. j \in 0 .. DepthIn(nodes, n)
  BY <1>1
<1>4. \A k \in Chain(nodes, n) : DepthIn(nodes, k) = j => k = At(n, j)
  BY <1>3, AtIs
<1> QED BY <1>1, <1>2, <1>4

(* The names on the way, one by one.                                       *)
LEMMA WayNames ==
    ASSUME IInv, NEW n \in DOMAIN nodes, NEW a \in Chain(nodes, n)
    PROVE  /\ NamesBelow(a, n) \in Seq(AllNames)
           /\ Len(NamesBelow(a, n)) = DepthIn(nodes, n) - DepthIn(nodes, a)
           /\ \A i \in 1 .. DepthIn(nodes, n) - DepthIn(nodes, a) :
                 NamesBelow(a, n)[i] = nodes[At(n, DepthIn(nodes, a) + i)].name
<1>1. PICK h \in Nat, l \in Nat : /\ h = DepthIn(nodes, a) /\ h + l = DepthIn(nodes, n)
  <2>1. PICK h \in Nat, k \in Nat : h = DepthIn(nodes, a) /\ k = DepthIn(nodes, n) /\ h <= k
    BY DepthsOnWay
  <2>2. k - h \in Nat /\ h + (k - h) = k
    BY <2>1
  <2> QED BY <2>1, <2>2
<1>2. NamesBelow(a, n) = [i \in 1 .. l |-> nodes[At(n, h + i)].name]
  <2>1. NamesBelow(a, n) = [i \in 1 .. Depth(n) - Depth(a) |-> nodes[At(n, Depth(a) + i)].name]
    BY DEF NamesBelow, At
  <2>2. Depth(n) - Depth(a) = l /\ Depth(a) = h
    BY <1>1, DepthIs
  <2> QED BY <2>1, <2>2
<1>3. ASSUME NEW i \in 1 .. l PROVE nodes[At(n, h + i)].name \in AllNames
  <2>1. h + i \in 0 .. DepthIn(nodes, n)
    BY <1>1
  <2>2. At(n, h + i) \in DOMAIN nodes
    BY <2>1, AtIs, ChainClosed
  <2>3. nodes[At(n, h + i)] \in Row
    BY <2>2 DEF IInv, RowsOK
  <2> QED BY <2>3, RowFields DEF AllNames
<1>4. NamesBelow(a, n) \in [1 .. l -> AllNames]
  BY <1>2, <1>3
<1>5. NamesBelow(a, n) \in Seq(AllNames) /\ Len(NamesBelow(a, n)) = l
  BY <1>4
<1> QED BY <1>1, <1>2, <1>5

(* There are none on the way to itself.                                    *)
LEMMA WayNone ==
    ASSUME IInv, NEW n \in DOMAIN nodes
    PROVE  NamesBelow(n, n) = <<>>
<1>1. n \in Chain(nodes, n)
  BY ChainClosed
<1>2. DepthIn(nodes, n) \in Nat
  BY <1>1, DepthsOnWay
<1>3. NamesBelow(n, n) \in Seq(AllNames) /\ Len(NamesBelow(n, n)) = 0
  BY <1>1, <1>2, WayNames
<1> QED BY <1>3

(* The way to a row goes through each row above it.                        *)
LEMMA WayJoins ==
    ASSUME IInv, NEW n \in DOMAIN nodes, NEW b \in Chain(nodes, n), NEW a \in Chain(nodes, b)
    PROVE  NamesBelow(a, n) = NamesBelow(a, b) \o NamesBelow(b, n)
<1>1. b \in DOMAIN nodes /\ a \in Chain(nodes, n) /\ a \in DOMAIN nodes
  BY ChainInside
<1>2. PICK h \in Nat, k \in Nat, l \in Nat :
         /\ h = DepthIn(nodes, a) /\ k = DepthIn(nodes, b) /\ l = DepthIn(nodes, n)
         /\ h <= k /\ k <= l
  BY <1>1, DepthsOnWay
<1>3. PICK x \in Seq(AllNames), y \in Seq(AllNames), z \in Seq(AllNames) :
         /\ x = NamesBelow(a, n) /\ y = NamesBelow(a, b) /\ z = NamesBelow(b, n)
  BY <1>1, WayNames
<1>4. /\ Len(x) = l - h /\ Len(y) = k - h /\ Len(z) = l - k
      /\ \A i \in 1 .. l - h : x[i] = nodes[At(n, h + i)].name
      /\ \A i \in 1 .. k - h : y[i] = nodes[At(b, h + i)].name
      /\ \A i \in 1 .. l - k : z[i] = nodes[At(n, k + i)].name
  BY <1>1, <1>2, <1>3, WayNames
<1>5. /\ y \o z \in Seq(AllNames) /\ Len(y \o z) = Len(y) + Len(z)
      /\ \A i \in 1 .. Len(y) + Len(z) : (y \o z)[i] = IF i <= Len(y) THEN y[i] ELSE z[i - Len(y)]
  BY ConcatProperties
<1>0. PICK w \in Seq(AllNames) : /\ w = y \o z /\ Len(w) = l - h
                                 /\ \A i \in 1 .. l - h : w[i] = IF i <= k - h THEN y[i] ELSE z[i - (k - h)]
  <2>1. Len(y) + Len(z) = l - h
    BY <1>2, <1>4
  <2>2. PICK w : w = y \o z
    OBVIOUS
  <2>3. /\ w \in Seq(AllNames) /\ Len(w) = Len(y) + Len(z)
        /\ \A i \in 1 .. Len(y) + Len(z) : w[i] = IF i <= Len(y) THEN y[i] ELSE z[i - Len(y)]
    BY <1>5, <2>2
  <2>4. Len(y) = k - h
    BY <1>4
  <2>5. \A i \in 1 .. l - h : w[i] = IF i <= k - h THEN y[i] ELSE z[i - (k - h)]
    BY <2>1, <2>3, <2>4
  <2> QED BY <2>1, <2>2, <2>3, <2>5
<1>t. h <= k /\ k <= l
  BY <1>2
<1>6. ASSUME NEW i \in 1 .. l - h PROVE x[i] = w[i]
  <2>1. CASE i <= k - h
    <3>1. h + i \in 0 .. k /\ i \in 1 .. k - h
      BY <1>t, <2>1
    <3>2. At(n, h + i) = At(b, h + i)
      BY <1>2, <3>1, AtUp
    <3>3. x[i] = y[i]
      BY <1>4, <3>1, <3>2
    <3> QED BY <1>0, <2>1, <3>3
  <2>2. CASE ~(i <= k - h)
    <3>0. PICK j : j = i - (k - h)
      OBVIOUS
    <3>1. j = i - (k - h) /\ j \in 1 .. l - k /\ k + j = h + i
      BY <1>t, <2>2, <3>0
    <3>2. z[j] = nodes[At(n, k + j)].name
      BY <1>4, <3>1
    <3>3. x[i] = nodes[At(n, h + i)].name
      BY <1>4
    <3> QED BY <1>0, <2>2, <3>1, <3>2, <3>3
  <2> QED BY <2>1, <2>2
<1>8. x = w
  BY <1>0, <1>4, <1>6, SeqEqual
<1> QED BY <1>0, <1>3, <1>8

(* One row further down, one name more.                                    *)
LEMMA WayNext ==
    ASSUME IInv, NEW n \in DOMAIN nodes \ Roots, NEW p, p = nodes[n].parent,
           NEW a \in Chain(nodes, p)
    PROVE  /\ NamesBelow(a, n) \in Seq(AllNames) /\ NamesBelow(a, n) # <<>>
           /\ Front(NamesBelow(a, n)) = NamesBelow(a, p)
           /\ Last(NamesBelow(a, n)) = nodes[n].name
<1>1. p \in DOMAIN nodes /\ Chain(nodes, n) = {n} \cup Chain(nodes, p) /\ TreeOK(nodes, clock)
  BY TreeIs, NotAboveFolder
<1>2. p \in Chain(nodes, n) /\ a \in Chain(nodes, n)
  BY <1>1, ChainClosed
<1>3. PICK h \in Nat : h = DepthIn(nodes, p) /\ DepthIn(nodes, n) = h + 1
  <2>1. OnePerDepth(nodes, p)
    BY <1>1, Depths
  <2> QED BY <1>1, <2>1, DepthNext DEF OnePerDepth
<1>4. PICK x \in Seq(AllNames), y \in Seq(AllNames), z \in Seq(AllNames) :
         /\ x = NamesBelow(a, n) /\ y = NamesBelow(a, p) /\ z = NamesBelow(p, n) /\ x = y \o z
  BY <1>1, <1>2, WayNames, WayJoins
<1>5. Len(z) = 1 /\ z[1] = nodes[n].name
  <2>0. PICK d : d = DepthIn(nodes, n) - DepthIn(nodes, p)
    OBVIOUS
  <2>a. d = 1 /\ 1 \in 1 .. d
    BY <1>3, <2>0
  <2>b. Len(z) = d /\ \A i \in 1 .. d : z[i] = nodes[At(n, h + i)].name
    BY <1>2, <1>3, <1>4, <2>0, WayNames
  <2>1. Len(z) = 1 /\ z[1] = nodes[At(n, h + 1)].name
    BY <2>a, <2>b
  <2>2. At(n, h + 1) = n
    BY <1>3, AtIs, ChainClosed
  <2> QED BY <2>1, <2>2
<1>e. PICK l \in Nat : l = Len(y)
  OBVIOUS
<1>6. /\ Len(x) = l + 1
      /\ \A i \in 1 .. l + 1 : x[i] = IF i <= l THEN y[i] ELSE z[i - l]
  <2>1. PICK w : w = y \o z
    OBVIOUS
  <2>2. /\ Len(w) = Len(y) + Len(z)
        /\ \A i \in 1 .. Len(y) + Len(z) : w[i] = IF i <= Len(y) THEN y[i] ELSE z[i - Len(y)]
    BY <2>1, ConcatProperties
  <2> QED BY <1>4, <1>5, <1>e, <2>1, <2>2
<1>f. x[l + 1] = z[1] /\ \A i \in 1 .. l : x[i] = y[i]
  <2>1. l + 1 \in 1 .. l + 1 /\ ~(l + 1 <= l) /\ l + 1 - l = 1
    BY <1>e
  <2> QED BY <1>6, <2>1
<1>7. x # <<>> /\ Last(x) = nodes[n].name
  <2>1. x # <<>>
    BY <1>e, <1>6
  <2> QED BY <1>5, <1>6, <1>f, <2>1 DEF Last
<1>8. Front(x) = y
  <2>1. PICK f \in Seq(AllNames) : f = Front(x) /\ Len(f) = l
    <3>1. Front(x) \in Seq(AllNames) /\ Len(Front(x)) = Len(x) - 1
      BY <1>7, FrontLast
    <3>2. Len(x) - 1 = l
      BY <1>e, <1>6
    <3> QED BY <3>1, <3>2
  <2>2. f = SubSeq(x, 1, l)
    BY <1>e, <1>6, <2>1 DEF Front
  <2>3. \A i \in 1 .. l : f[i] = x[i]
    BY <1>e, <1>6, <2>2
  <2>4. \A i \in 1 .. l : f[i] = y[i]
    BY <1>f, <2>3
  <2> QED BY <1>e, <2>1, <2>4, SeqEqual
<1> QED BY <1>4, <1>7, <1>8

(* A key that begins the way to a row is the way to a row above it.        *)
LEMMA WayPrefix ==
    ASSUME IInv, NEW n \in DOMAIN nodes, NEW a \in Chain(nodes, n),
           NEW q \in Seq(AllNames), IsPrefix(q, NamesBelow(a, n))
    PROVE  \E b \in Chain(nodes, n) : a \in Chain(nodes, b) /\ NamesBelow(a, b) = q
<1>1. PICK h \in Nat, l \in Nat : h = DepthIn(nodes, a) /\ l = DepthIn(nodes, n) /\ h <= l
  BY DepthsOnWay
<1>2. PICK x \in Seq(AllNames) : /\ x = NamesBelow(a, n) /\ Len(x) = l - h
                                 /\ \A i \in 1 .. l - h : x[i] = nodes[At(n, h + i)].name
  BY <1>1, WayNames
<1>3. PICK k \in Nat : k = Len(q) /\ k <= l - h /\ \A i \in 1 .. k : q[i] = x[i]
  <2>1. Len(q) \in Nat /\ Len(q) <= Len(x) /\ SubSeq(q, 1, Len(q)) = SubSeq(x, 1, Len(q))
    BY <1>2 DEF IsPrefix
  <2>2. \A i \in 1 .. Len(q) : SubSeq(q, 1, Len(q))[i] = q[i] /\ SubSeq(x, 1, Len(q))[i] = x[i]
    BY <2>1
  <2> QED BY <1>2, <2>1, <2>2
<1>4. PICK b : b = At(n, h + k)
  OBVIOUS
<1>5. h + k \in 0 .. l
  BY <1>1, <1>3
<1>6. b \in Chain(nodes, n) /\ DepthIn(nodes, b) = h + k /\ b \in DOMAIN nodes
  BY <1>1, <1>4, <1>5, AtIs, ChainClosed
<1>7. a \in Chain(nodes, b)
  <2>1. CASE b \in Chain(nodes, a)
    <3>1. a \in DOMAIN nodes /\ h + k <= h /\ (h + k = h => a = b)
      BY <1>1, <1>6, <2>1, DepthsOnWay
    <3> QED BY <1>6, <3>1, ChainClosed
  <2> QED BY <1>6, <2>1, TreeIs, ChainIsLine
<1>8. PICK y \in Seq(AllNames) : /\ y = NamesBelow(a, b) /\ Len(y) = k
                                 /\ \A i \in 1 .. k : y[i] = nodes[At(b, h + i)].name
  <2>1. PICK d : d = DepthIn(nodes, b) - DepthIn(nodes, a)
    OBVIOUS
  <2>2. d = k
    <3>1. h = DepthIn(nodes, a) /\ h + k = DepthIn(nodes, b)
      BY <1>1, <1>6
    <3>2. d = (h + k) - h
      BY <2>1, <3>1
    <3>3. (h + k) - h = k
      OBVIOUS
    <3> QED BY <3>2, <3>3
  <2>3. PICK y : y = NamesBelow(a, b)
    OBVIOUS
  <2>4. y \in Seq(AllNames) /\ Len(y) = d /\ \A i \in 1 .. d : y[i] = nodes[At(b, h + i)].name
    BY <1>1, <1>6, <1>7, <2>1, <2>3, WayNames
  <2> QED BY <2>2, <2>3, <2>4
<1>9. ASSUME NEW i \in 1 .. k PROVE y[i] = q[i]
  <2>1. h + i \in 0 .. h + k /\ i \in 1 .. l - h
    BY <1>3
  <2>2. At(n, h + i) = At(b, h + i)
    BY <1>6, <2>1, AtUp
  <2> QED BY <1>2, <1>3, <1>8, <2>1, <2>2
<1>10. y = q
  BY <1>3, <1>8, <1>9, SeqEqual
<1> QED BY <1>6, <1>7, <1>8, <1>10

-----------------------------------------------------------------------------
(* The names on the way to a row are its address.                          *)

(* Sequences with the same front and the same last are the same.           *)
LEMMA SameEnds ==
    ASSUME NEW X, NEW x \in Seq(X), NEW y \in Seq(X), x # <<>>, y # <<>>,
           Front(x) = Front(y), Last(x) = Last(y)
    PROVE  x = y
<1>1. Len(Front(x)) = Len(x) - 1 /\ Len(Front(y)) = Len(y) - 1
  BY FrontLast
<1>2. PICK l \in Nat : Len(x) = l + 1 /\ Len(y) = l + 1
  <2>1. Len(x) \in Nat /\ Len(y) \in Nat /\ Len(x) # 0 /\ Len(y) # 0
    OBVIOUS
  <2>2. Len(x) = Len(y) /\ Len(x) - 1 \in Nat
    BY <1>1, <2>1
  <2> QED BY <2>1, <2>2
<1>3. SubSeq(x, 1, l) = SubSeq(y, 1, l)
  BY <1>2 DEF Front
<1>4. \A i \in 1 .. l : SubSeq(x, 1, l)[i] = x[i] /\ SubSeq(y, 1, l)[i] = y[i]
  BY <1>2
<1>5. \A i \in 1 .. l : x[i] = y[i]
  BY <1>3, <1>4
<1>6. x[l + 1] = y[l + 1]
  BY <1>2 DEF Last
<1>7. \A i \in 1 .. l + 1 : x[i] = y[i]
  BY <1>5, <1>6
<1> QED BY <1>2, <1>7, SeqEqual

(* From any row above a live row its names lead down to it.                *)
LEMMA WayLeads ==
    ASSUME IInv
    PROVE  \A n \in DOMAIN nodes : Live(nodes, n) =>
              \A a \in Chain(nodes, n) : n \in _resolve(nodes, a, NamesBelow(a, n))
<1> DEFINE S == {n \in DOMAIN nodes : Live(nodes, n) =>
                    \A a \in Chain(nodes, n) : n \in _resolve(nodes, a, NamesBelow(a, n))}
<1>0. TreeOK(nodes, clock)
  BY TreeIs
<1>a. ASSUME NEW n \in DOMAIN nodes PROVE n \in _resolve(nodes, n, NamesBelow(n, n))
  BY WayNone, ResolveNone
<1>1. ASSUME NEW r \in Roots PROVE r \in S
  BY <1>0, <1>a, RootAlone
<1>2. ASSUME NEW n \in DOMAIN nodes, nodes[n].parent \in S PROVE n \in S
  <2> SUFFICES ASSUME Live(nodes, n), NEW a \in Chain(nodes, n)
               PROVE  n \in _resolve(nodes, a, NamesBelow(a, n))
    OBVIOUS
  <2>1. PICK p \in S : p = nodes[n].parent
    BY <1>2
  <2>2. n \in DOMAIN nodes \ Roots
    BY <1>0, <1>2, ConstantsAssumption DEF TreeOK, RowsFit
  <2>3. p \in DOMAIN nodes /\ Chain(nodes, n) = {n} \cup Chain(nodes, p)
    BY <1>0, <2>1, <2>2, NotAboveFolder
  <2>4. CASE a = n
    BY <1>a, <2>4
  <2>5. CASE a \in Chain(nodes, p)
    <3>1. Live(nodes, p)
      BY <1>0, <2>3, LiveAbove, ChainClosed
    <3>2. p \in _resolve(nodes, a, NamesBelow(a, p))
      BY <2>1, <2>5, <3>1
    <3>3. PICK q \in Seq(AllNames) : /\ q = NamesBelow(a, n) /\ q # <<>>
                                     /\ Front(q) = NamesBelow(a, p) /\ Last(q) = nodes[n].name
      BY <2>1, <2>2, <2>5, WayNext
    <3>4. n \in get_child_by_name(nodes, p, Last(q))
      BY <2>1, <3>3, ChildIs DEF Live
    <3>5. n \in _resolve(nodes, a, q)
      BY <3>2, <3>3, <3>4, ResolveNext
    <3> QED BY <3>3, <3>5
  <2> QED BY <2>3, <2>4, <2>5
<1> HIDE DEF S
<1>3. S \in SUBSET DOMAIN nodes
  BY DEF S
<1>4. S = DOMAIN nodes
  BY <1>0, <1>1, <1>2, <1>3, RowInduction
<1> QED BY <1>4 DEF S

(* Whatever leads down to a row is its names.                              *)
LEMMA LeadsWay ==
    ASSUME IInv, NEW a \in DOMAIN nodes
    PROVE  \A q \in Seq(AllNames) : \A m \in _resolve(nodes, a, q) :
              m \in DOMAIN nodes /\ a \in Chain(nodes, m) /\ q = NamesBelow(a, m)
<1> DEFINE G == {q \in Seq(AllNames) : \A m \in _resolve(nodes, a, q) :
                    m \in DOMAIN nodes /\ a \in Chain(nodes, m) /\ q = NamesBelow(a, m)}
<1>1. <<>> \in G
  <2>1. <<>> \in Seq(AllNames) /\ _resolve(nodes, a, <<>>) = {a}
    BY ResolveNone
  <2> QED BY <2>1, WayNone, ChainClosed
<1>2. ASSUME NEW q \in Seq(AllNames), q # <<>>, Front(q) \in G PROVE q \in G
  <2> SUFFICES ASSUME NEW m \in _resolve(nodes, a, q)
               PROVE  m \in DOMAIN nodes /\ a \in Chain(nodes, m) /\ q = NamesBelow(a, m)
    OBVIOUS
  <2>1. PICK p \in _resolve(nodes, a, Front(q)) : m \in get_child_by_name(nodes, p, Last(q))
    BY <1>2, ResolveNext
  <2>2. p \in DOMAIN nodes /\ a \in Chain(nodes, p) /\ Front(q) = NamesBelow(a, p)
    BY <1>2
  <2>3. m \in DOMAIN nodes /\ nodes[m].parent = p /\ nodes[m].name = Last(q)
    BY <2>1, ChildIs
  <2>4. m \in DOMAIN nodes \ Roots
    BY <2>2, <2>3, ConstantsAssumption DEF IInv, RowsOK
  <2>5. a \in Chain(nodes, m)
    BY <2>2, <2>3, <2>4, TreeIs, NotAboveFolder
  <2>6. PICK x \in Seq(AllNames) : /\ x = NamesBelow(a, m) /\ x # <<>>
                                   /\ Front(x) = NamesBelow(a, p) /\ Last(x) = nodes[m].name
    BY <2>2, <2>3, <2>4, WayNext
  <2>7. x = q
    BY <1>2, <2>2, <2>3, <2>6, SameEnds
  <2> QED BY <2>3, <2>5, <2>6, <2>7
<1> HIDE DEF G
<1>3. Seq(AllNames) \subseteq G
  BY <1>1, <1>2, FrontInduction
<1> QED BY <1>3 DEF G

(* So the names of a live row lead to it and to nothing else.              *)
LEMMA WayFound ==
    ASSUME IInv, NEW n \in DOMAIN nodes, Live(nodes, n), NEW a \in Chain(nodes, n)
    PROVE  _resolve(nodes, a, NamesBelow(a, n)) = {n}
<1>1. a \in DOMAIN nodes /\ Live(nodes, a) /\ TreeOK(nodes, clock)
  BY TreeIs, ChainClosed, LiveAbove
<1>2. NamesBelow(a, n) \in Seq(AllNames)
  BY WayNames
<1>3. Leads(nodes, a, NamesBelow(a, n))
  BY <1>1, <1>2, AddressLeads
<1>4. n \in _resolve(nodes, a, NamesBelow(a, n))
  BY WayLeads
<1> QED BY <1>3, <1>4 DEF Leads

(* Two live rows under one row have different names on the way to them.    *)
LEMMA WayTells ==
    ASSUME IInv, NEW n \in DOMAIN nodes, Live(nodes, n), NEW m \in DOMAIN nodes, Live(nodes, m),
           NEW a \in Chain(nodes, n) \cap Chain(nodes, m), NamesBelow(a, n) = NamesBelow(a, m)
    PROVE  n = m
<1>1. _resolve(nodes, a, NamesBelow(a, n)) = {n} /\ _resolve(nodes, a, NamesBelow(a, m)) = {m}
  BY WayFound
<1> QED BY <1>1

-----------------------------------------------------------------------------
(* Listings.                                                               *)

(* The live files beneath a folder, each under the names on its way.       *)
LEMMA WalkIs ==
    ASSUME IInv, NEW folder \in DOMAIN nodes, NEW key, NEW e
    PROVE  e \in _walk(folder, key)
             <=> \E m \in DOMAIN nodes :
                    /\ folder \in Chain(nodes, m) /\ m # folder
                    /\ Live(nodes, m) /\ nodes[m].kind # "folder"
                    /\ e = [key |-> key \o NamesBelow(folder, m), node |-> m]
<1>1. ASSUME NEW m \in DOMAIN nodes, m # folder, folder \in Chain(nodes, m)
      PROVE  Live(nodes, m) <=> \A k \in (Chain(nodes, m) \cap Subtree(nodes, folder)) \ {folder} :
                                    Live(nodes, k)
  <2>1. m \in (Chain(nodes, m) \cap Subtree(nodes, folder)) \ {folder}
    BY <1>1, UpIsDown, ChainClosed
  <2>2. Live(nodes, m) => \A k \in Chain(nodes, m) : Live(nodes, k)
    BY TreeIs, LiveAbove
  <2> QED BY <2>1, <2>2
<1>2. \A m : m \in Subtree(nodes, folder) <=> m \in DOMAIN nodes /\ folder \in Chain(nodes, m)
  BY UpIsDown, SubtreeClosed
<1>3. e \in _walk(folder, key)
        <=> \E m \in Subtree(nodes, folder) \ {folder} :
                /\ nodes[m].kind # "folder"
                /\ \A k \in (Chain(nodes, m) \cap Subtree(nodes, folder)) \ {folder} : Live(nodes, k)
                /\ e = [key |-> key \o NamesBelow(folder, m), node |-> m]
  BY DEF _walk, IsFolder
<1> QED BY <1>1, <1>2, <1>3

(* The top of the way to a row is a root folder.                           *)
LEMMA TopIs ==
    ASSUME IInv, NEW n \in DOMAIN nodes
    PROVE  TopOf(n) \in Chain(nodes, n) /\ TopOf(n) \in Roots
<1>1. PICK r \in Roots : r \in Chain(nodes, n)
  BY GroundedChain DEF IInv, RowsOK
<1>2. Chain(nodes, n) \subseteq DOMAIN nodes
  BY ChainClosed
<1>3. \A m \in DOMAIN nodes : IsRoot(m) <=> m \in Roots
  BY DEF IInv, RowsOK, IsRoot
<1> QED BY <1>1, <1>2, <1>3 DEF TopOf

(* A path is a sequence of names.                                          *)
LEMMA PathIs ==
    ASSUME IInv, NEW n \in DOMAIN nodes
    PROVE  _path_of(n) = NamesBelow(TopOf(n), n) /\ _path_of(n) \in Seq(AllNames)
BY TopIs, WayNames DEF _path_of

(* The file m is listed through the shared root n.                         *)
ListedAt(G, n, m) ==
    /\ n \in _shared_roots(G) /\ n \in Chain(nodes, m)
    /\ Live(nodes, m) /\ nodes[m].kind # "folder"

(* The shared listing: each file under the path of its shared root and the *)
(* names on from there.                                                    *)
LEMMA SharedIs ==
    ASSUME IInv, FoldersAbove(nodes), NEW G \in SUBSET DOMAIN nodes, NEW e
    PROVE  e \in _gather_shared(G)
             <=> \E n \in DOMAIN nodes, m \in DOMAIN nodes :
                    /\ ListedAt(G, n, m)
                    /\ e = [key |-> _path_of(n) \o NamesBelow(n, m), node |-> m]
<1> DEFINE R == _shared_roots(G)
           Of(n) == IF IsFolder(n) THEN _walk(n, _path_of(n))
                    ELSE {[key |-> _path_of(n), node |-> n]}
<1>1. e \in _gather_shared(G) <=> \E n \in R : e \in Of(n)
  BY DEF _gather_shared
<1>2. \A n \in R : n \in DOMAIN nodes /\ Live(nodes, n)
  BY DEF _shared_roots, Live
<1>3. ASSUME NEW n \in R
      PROVE  e \in Of(n) <=> \E m \in DOMAIN nodes :
                    /\ ListedAt(G, n, m)
                    /\ e = [key |-> _path_of(n) \o NamesBelow(n, m), node |-> m]
  <2>0. n \in DOMAIN nodes /\ Live(nodes, n)
    BY <1>2
  <2>1. CASE IsFolder(n)
    <3>1. e \in _walk(n, _path_of(n))
             <=> \E m \in DOMAIN nodes :
                    /\ n \in Chain(nodes, m) /\ m # n
                    /\ Live(nodes, m) /\ nodes[m].kind # "folder"
                    /\ e = [key |-> _path_of(n) \o NamesBelow(n, m), node |-> m]
      BY <2>0, WalkIs
    <3>2. nodes[n].kind = "folder"
      BY <2>1 DEF IsFolder
    <3> QED BY <2>1, <3>1, <3>2 DEF ListedAt
  <2>2. CASE ~IsFolder(n)
    <3>1. \A m \in DOMAIN nodes : n \in Chain(nodes, m) => m = n
      BY <2>2, TreeIs, FoldersOnly DEF IsFolder
    <3>2. n \in Chain(nodes, n) /\ nodes[n].kind # "folder"
      BY <2>0, <2>2, ChainClosed DEF IsFolder
    <3>3. _path_of(n) \o NamesBelow(n, n) = _path_of(n)
      BY <2>0, PathIs, WayNone, ConcatEmptySeq
    <3>4. ASSUME NEW m \in DOMAIN nodes PROVE ListedAt(G, n, m) <=> m = n
      BY <2>0, <3>1, <3>2 DEF ListedAt
    <3> QED BY <2>0, <2>2, <3>3, <3>4
  <2> QED BY <2>1, <2>2
<1>4. \A n, m \in DOMAIN nodes : ListedAt(G, n, m) => n \in R
  BY DEF ListedAt
<1> HIDE DEF R, Of
<1> QED BY <1>1, <1>2, <1>3, <1>4

(* No file is listed through two of them.                                  *)
LEMMA OneListing ==
    ASSUME IInv, NEW G \in SUBSET DOMAIN nodes, NEW m \in DOMAIN nodes,
           NEW n \in _shared_roots(G), n \in Chain(nodes, m),
           NEW k \in _shared_roots(G), k \in Chain(nodes, m)
    PROVE  n = k
<1>1. n \in Chain(nodes, k) \/ k \in Chain(nodes, n)
  BY TreeIs, ChainIsLine
<1>2. /\ n \in G /\ (Chain(nodes, n) \ {n}) \cap G = {}
      /\ k \in G /\ (Chain(nodes, k) \ {k}) \cap G = {}
  BY DEF _shared_roots, ancestors
<1> QED BY <1>1, <1>2

(* What is listed is what may be read, once.                               *)
ListsReadable ==
    \A G \in SUBSET DOMAIN nodes :
        LET entries == _gather_shared(G) IN
        /\ Listed(entries) = Files(Readable(G))
        /\ \A e, f \in entries : e.node = f.node => e = f

(* In a sound tree the listing is exact.                                   *)
LEMMA ReadableListed ==
    ASSUME IInv, FoldersAbove(nodes)
    PROVE  ListsReadable
<1> SUFFICES ASSUME NEW G \in SUBSET DOMAIN nodes
             PROVE  /\ Listed(_gather_shared(G)) = Files(Readable(G))
                    /\ \A e, f \in _gather_shared(G) : e.node = f.node => e = f
  BY DEF ListsReadable
<1>1. ASSUME NEW m PROVE m \in Listed(_gather_shared(G)) <=> \E e \in _gather_shared(G) : e.node = m
  BY DEF Listed
<1>2. ASSUME NEW m \in DOMAIN nodes
      PROVE  (\E n \in DOMAIN nodes : ListedAt(G, n, m)) <=> m \in Files(Readable(G))
  <2>1. ASSUME NEW n \in DOMAIN nodes, ListedAt(G, n, m) PROVE m \in Files(Readable(G))
    BY <2>1 DEF ListedAt, _shared_roots, Files, Readable, IsFolder
  <2>2. ASSUME m \in Files(Readable(G)) PROVE \E n \in DOMAIN nodes : ListedAt(G, n, m)
    <3>1. Live(nodes, m) /\ Chain(nodes, m) \cap G # {} /\ nodes[m].kind # "folder"
      BY <2>2 DEF Files, Readable, IsFolder
    <3>2. PICK a \in Chain(nodes, m) \cap G : (Chain(nodes, a) \ {a}) \cap G = {}
      BY <3>1, TreeIs, TopmostOf
    <3>3. Live(nodes, a)
      BY <3>1, TreeIs, LiveAbove
    <3> QED BY <3>1, <3>2, <3>3 DEF ListedAt, _shared_roots, ancestors
  <2> QED BY <2>1, <2>2
<1>3. ASSUME NEW m PROVE m \in Listed(_gather_shared(G)) <=> m \in Files(Readable(G))
  <2>1. ASSUME NEW e \in _gather_shared(G), e.node = m PROVE m \in Files(Readable(G))
    <3>1. PICK n \in DOMAIN nodes, k \in DOMAIN nodes :
             ListedAt(G, n, k) /\ e = [key |-> _path_of(n) \o NamesBelow(n, k), node |-> k]
      BY SharedIs
    <3>2. k = m
      BY <2>1, <3>1
    <3> QED BY <1>2, <3>1, <3>2
  <2>2. ASSUME m \in Files(Readable(G)) PROVE \E e \in _gather_shared(G) : e.node = m
    <3>1. m \in DOMAIN nodes
      BY <2>2 DEF Files, Readable
    <3>2. PICK n \in DOMAIN nodes : ListedAt(G, n, m)
      BY <1>2, <2>2, <3>1
    <3>3. PICK e : e = [key |-> _path_of(n) \o NamesBelow(n, m), node |-> m]
      OBVIOUS
    <3>4. e \in _gather_shared(G)
      BY <3>1, <3>2, <3>3, SharedIs
    <3> QED BY <3>3, <3>4
  <2> QED BY <1>1, <2>1, <2>2
<1>4. ASSUME NEW e \in _gather_shared(G), NEW f \in _gather_shared(G), e.node = f.node
      PROVE  e = f
  <2>1. PICK n \in DOMAIN nodes, m \in DOMAIN nodes :
           ListedAt(G, n, m) /\ e = [key |-> _path_of(n) \o NamesBelow(n, m), node |-> m]
    BY SharedIs
  <2>2. PICK n2 \in DOMAIN nodes, m2 \in DOMAIN nodes :
           ListedAt(G, n2, m2) /\ f = [key |-> _path_of(n2) \o NamesBelow(n2, m2), node |-> m2]
    BY SharedIs
  <2>3. m = m2
    BY <1>4, <2>1, <2>2
  <2>4. n = n2
    BY <2>1, <2>2, <2>3, OneListing DEF ListedAt
  <2> QED BY <2>1, <2>2, <2>3, <2>4
<1> QED BY <1>3, <1>4

-----------------------------------------------------------------------------
(* The views, whatever was done.                                           *)

(* The tree stays sound, and only folders have rows beneath them.          *)
LEMMA ViewsHold == GwSpec => [](IInv /\ FoldersAbove(nodes))
<1> DEFINE Inv == IInv /\ WrittenIsFound /\ FoldersAbove(nodes)
<1>1. GwInit => Inv
  <2>1. GwInit => FoldersAbove(nodes)
    BY ConstantsAssumption DEF GwInit, Init, Folder, FoldersAbove
  <2> QED BY <2>1, GwStart
<1>2. Inv /\ [GwNext]_gwVars => Inv'
  <2> SUFFICES ASSUME Inv, [GwNext]_gwVars PROVE Inv'
    OBVIOUS
  <2>1. IInv' /\ WrittenIsFound'
    BY GwStep
  <2> QED BY <2>1, GwFoldersStep
<1> QED BY <1>1, <1>2, PTL DEF GwSpec

(* Whatever nodes are granted, a recipient is listed the files they may    *)
(* read, all of them and each once: the walk down from the grants and the  *)
(* walk up of authorization agree.                                         *)
THEOREM SharedListsReadable == GwSpec => []ListsReadable
BY ViewsHold, ReadableListed, PTL

(* What a sequence begins with, and the rest.                              *)
LEMMA RestOf ==
    ASSUME NEW X, NEW y \in Seq(X), NEW z \in Seq(X)
    PROVE  IsPrefix(y, y \o z) /\ SubSeq(y \o z, Len(y) + 1, Len(y \o z)) = z
<1>1. PICK k \in Nat, l \in Nat : k = Len(y) /\ l = Len(z)
  BY LenProperties
<1>2. PICK x \in Seq(X) :
         /\ x = y \o z /\ Len(x) = k + l
         /\ \A i \in 1 .. k + l : x[i] = IF i <= k THEN y[i] ELSE z[i - k]
  <2>1. /\ y \o z \in Seq(X) /\ Len(y \o z) = Len(y) + Len(z)
        /\ \A i \in 1 .. Len(y) + Len(z) :
              (y \o z)[i] = IF i <= Len(y) THEN y[i] ELSE z[i - Len(y)]
    BY ConcatProperties
  <2> QED BY <1>1, <2>1
<1>3. IsPrefix(y, x)
  <2>1. PICK a \in Seq(X) : a = SubSeq(x, 1, k) /\ Len(a) = k /\ \A i \in 1 .. k : a[i] = x[i]
    BY <1>1, <1>2
  <2>2. \A i \in 1 .. k : a[i] = y[i]
    BY <1>1, <1>2, <2>1
  <2>3. a = y
    BY <1>1, <2>1, <2>2, SeqEqual
  <2>4. SubSeq(y, 1, k) = y
    BY <1>1, SubSeqFull
  <2> QED BY <1>1, <1>2, <2>1, <2>3, <2>4 DEF IsPrefix
<1>4. SubSeq(x, k + 1, k + l) = z
  <2>1. PICK a \in Seq(X) : /\ a = SubSeq(x, k + 1, k + l) /\ Len(a) = l
                            /\ \A i \in 1 .. l : a[i] = x[k + i]
    <3>1. PICK from \in Int, to \in Int : from = k + 1 /\ to = k + l
      OBVIOUS
    <3>2. \A i \in from .. to : x[i] \in X
      BY <1>2, <3>1
    <3>3. PICK a : a = SubSeq(x, from, to)
      OBVIOUS
    <3>4. /\ a \in Seq(X) /\ Len(a) = IF from <= to THEN to - from + 1 ELSE 0
          /\ \A i \in 1 .. to - from + 1 : a[i] = x[from + i - 1]
      BY <3>2, <3>3, SubSeqProperties
    <3>5. to - from + 1 = l /\ (IF from <= to THEN to - from + 1 ELSE 0) = l
      BY <3>1
    <3>6. \A i \in 1 .. l : from + i - 1 = k + i
      BY <3>1
    <3>7. Len(a) = l /\ \A i \in 1 .. l : a[i] = x[k + i]
      BY <3>4, <3>5, <3>6
    <3> QED BY <3>1, <3>3, <3>4, <3>7
  <2>2. \A i \in 1 .. l : a[i] = z[i]
    BY <1>1, <1>2, <2>1
  <2> QED BY <1>1, <2>1, <2>2, SeqEqual
<1> QED BY <1>1, <1>2, <1>3, <1>4

(* Within one tree a key of the shared view resolves to its node, through  *)
(* whichever grant: no other shared root begins the key.                   *)
LEMMA KeyResolves ==
    ASSUME IInv, FoldersAbove(nodes), NEW r \in Roots, NEW G \in SUBSET DOMAIN nodes,
           \A n \in G : r \in Chain(nodes, n),
           NEW e \in _gather_shared(G)
    PROVE  _resolve_shared(G, e.key) = {{e.node}}
<1>1. PICK n \in DOMAIN nodes, m \in DOMAIN nodes :
         ListedAt(G, n, m) /\ e = [key |-> _path_of(n) \o NamesBelow(n, m), node |-> m]
  BY SharedIs
<1>2. /\ n \in _shared_roots(G) /\ n \in Chain(nodes, m) /\ n \in G
      /\ Live(nodes, m)
  BY <1>1 DEF ListedAt, _shared_roots
<1>3. ASSUME NEW k \in G PROVE k \in DOMAIN nodes /\ _path_of(k) = NamesBelow(r, k)
                              /\ r \in Chain(nodes, k)
  <2>1. k \in DOMAIN nodes /\ r \in Chain(nodes, k) /\ TreeOK(nodes, clock)
    BY TreeIs
  <2>2. TopOf(k) \in Chain(nodes, k) /\ TopOf(k) \in Roots
    BY <2>1, TopIs
  <2>3. TopOf(k) \in Chain(nodes, r) \/ r \in Chain(nodes, TopOf(k))
    BY <2>1, <2>2, ChainIsLine
  <2>4. TopOf(k) = r
    BY <2>1, <2>2, <2>3, RootAlone
  <2> QED BY <2>1, <2>4 DEF _path_of
<1>4. PICK y \in Seq(AllNames), z \in Seq(AllNames) :
         y = NamesBelow(r, n) /\ z = NamesBelow(n, m) /\ y = _path_of(n)
  BY <1>2, <1>3, WayNames
<1>5. e.key = y \o z /\ e.node = m
  BY <1>1, <1>4
<1>6. IsPrefix(y, y \o z) /\ SubSeq(y \o z, Len(y) + 1, Len(y \o z)) = z
  BY RestOf
<1>7. r \in Chain(nodes, m) /\ NamesBelow(r, m) = y \o z
  BY <1>2, <1>3, <1>4, WayJoins, ChainInside
<1>8. _descend(n, z) = {m}
  BY <1>2, <1>4, WayFound DEF _descend
<1>9. ASSUME NEW k \in _shared_roots(G), IsPrefix(_path_of(k), e.key) PROVE k = n
  <2>1. k \in G /\ Live(nodes, k)
    BY DEF _shared_roots
  <2>2. k \in DOMAIN nodes /\ r \in Chain(nodes, k) /\ _path_of(k) = NamesBelow(r, k)
    BY <1>3, <2>1
  <2>3. PICK q \in Seq(AllNames) : q = NamesBelow(r, k) /\ IsPrefix(q, NamesBelow(r, m))
    BY <1>5, <1>7, <1>9, <2>2, WayNames
  <2>4. PICK b \in Chain(nodes, m) : r \in Chain(nodes, b) /\ NamesBelow(r, b) = q
    BY <1>7, <2>3, WayPrefix
  <2>5. b \in DOMAIN nodes /\ Live(nodes, b)
    BY <1>2, TreeIs, LiveAbove, ChainInside
  <2>6. k = b
    BY <2>1, <2>2, <2>3, <2>4, <2>5, WayTells
  <2> QED BY <1>2, <2>4, <2>6, OneListing
<1>10. \A x : x \in {k \in _shared_roots(G) : IsPrefix(_path_of(k), e.key)} <=> x = n
  BY <1>2, <1>4, <1>5, <1>6, <1>9
<1>11. {k \in _shared_roots(G) : IsPrefix(_path_of(k), e.key)} = {n}
  BY <1>10
<1>12. _descend(n, SubSeq(e.key, Len(_path_of(n)) + 1, Len(e.key))) = {m}
  BY <1>4, <1>5, <1>6, <1>8
<1> QED BY <1>5, <1>11, <1>12 DEF _resolve_shared

(* A key names the owner and the path: among the grants in one tree, each  *)
(* key of the listing resolves to the file it is listed for and to no      *)
(* other, whichever grant is looked at first.                              *)
SharedKeysResolve ==
    \A r \in Roots : \A G \in SUBSET {n \in DOMAIN nodes : r \in Chain(nodes, n)} :
        \A e \in _gather_shared(G) : _resolve_shared(G, e.key) = {{e.node}}

(* So it is in every state, whatever was requested.                        *)
THEOREM SharedKeysHold == GwSpec => []SharedKeysResolve
<1>1. IInv /\ FoldersAbove(nodes) => SharedKeysResolve
  BY KeyResolves DEF SharedKeysResolve
<1> QED BY <1>1, ViewsHold, PTL

(* With one tree that is all of the shared view: what is listed is what    *)
(* may be read, once, under a key that resolves to it.                     *)
THEOREM SharedViewsExact ==
    ASSUME \A u, v \in Users : u = v
    PROVE  GwSpec => []SharedViewExact
<1>1. ASSUME IInv, FoldersAbove(nodes) PROVE SharedViewExact
  <2>1. ASSUME NEW G \in SUBSET DOMAIN nodes, NEW e \in _gather_shared(G)
        PROVE  _resolve_shared(G, e.key) = {{e.node}}
    <3>1. PICK n \in DOMAIN nodes : n \in G
      BY <1>1, <2>1, SharedIs DEF ListedAt, _shared_roots
    <3>2. PICK r \in Roots : r \in Chain(nodes, n)
      BY <1>1, TopIs
    <3>3. \A k \in Roots : k = r
      BY DEF Roots
    <3>4. \A k \in G : r \in Chain(nodes, k)
      BY <1>1, <3>3, TopIs
    <3> QED BY <1>1, <3>4, KeyResolves
  <2> QED BY <1>1, <2>1, ReadableListed DEF SharedViewExact, ListsReadable
<1> QED BY <1>1, ViewsHold, PTL

-----------------------------------------------------------------------------
(* One's own view.                                                         *)

(* No row is of another owner than its tree: how it is until a transfer.   *)
OwnTrees == OneOwner /\ \A u \in Users : nodes[RootOf[u]].owner = u

(* Then what one owns is what is beneath one's root.                       *)
LEMMA OwnedIs ==
    ASSUME IInv, OwnTrees, NEW u \in Users, NEW m \in DOMAIN nodes
    PROVE  nodes[m].owner = u <=> RootOf[u] \in Chain(nodes, m)
<1>1. ASSUME NEW v \in Users, RootOf[v] \in Chain(nodes, m) PROVE nodes[m].owner = v
  <2>1. RootOf[v] \in DOMAIN nodes
    BY <1>1, ChainClosed
  <2>2. m \in Subtree(nodes, RootOf[v])
    BY <1>1, <2>1, UpIsDown
  <2>3. nodes[m].owner = nodes[RootOf[v]].owner
    BY <2>1, <2>2, SubtreeOwner DEF OwnTrees
  <2> QED BY <2>3 DEF OwnTrees
<1>2. PICK v \in Users : RootOf[v] \in Chain(nodes, m)
  BY TopIs DEF Roots
<1> QED BY <1>1, <1>2

(* The listing beneath a folder: the live files whose way goes through it. *)
OwnEntry(r, b, m, e) ==
    /\ r \in Chain(nodes, b) /\ b \in Chain(nodes, m) /\ m # b
    /\ Live(nodes, m) /\ nodes[m].kind # "folder"
    /\ e = [key |-> NamesBelow(r, m), node |-> m]

(* The listing of a prefix is that.                                        *)
LEMMA GatherIs ==
    ASSUME IInv, FoldersAbove(nodes), NEW u \in Users, NEW dir \in Seq(AllNames), NEW e
    PROVE  e \in _gather_own(u, dir)
             <=> \E b \in DOMAIN nodes, m \in DOMAIN nodes :
                    NamesBelow(RootOf[u], b) = dir /\ OwnEntry(RootOf[u], b, m, e)
<1>0. PICK r \in DOMAIN nodes : r = RootOf[u]
  BY DEF IInv, RowsOK, Roots
<1>1. e \in _gather_own(u, dir)
        <=> \E b \in _resolve(nodes, r, dir) : nodes[b].kind = "folder" /\ e \in _walk(b, dir)
  BY <1>0 DEF _gather_own, _descend, IsFolder
<1>2. ASSUME NEW b \in DOMAIN nodes, NEW m \in DOMAIN nodes, r \in Chain(nodes, b),
             b \in Chain(nodes, m), NamesBelow(r, b) = dir
      PROVE  dir \o NamesBelow(b, m) = NamesBelow(r, m)
  BY <1>2, WayJoins
<1>3. ASSUME NEW b \in _resolve(nodes, r, dir), e \in _walk(b, dir)
      PROVE  \E m \in DOMAIN nodes : b \in DOMAIN nodes /\ NamesBelow(r, b) = dir /\ OwnEntry(r, b, m, e)
  <2>1. b \in DOMAIN nodes /\ r \in Chain(nodes, b) /\ NamesBelow(r, b) = dir
    BY LeadsWay
  <2>2. PICK m \in DOMAIN nodes :
           /\ b \in Chain(nodes, m) /\ m # b
           /\ Live(nodes, m) /\ nodes[m].kind # "folder"
           /\ e = [key |-> dir \o NamesBelow(b, m), node |-> m]
    BY <1>3, <2>1, WalkIs
  <2>3. dir \o NamesBelow(b, m) = NamesBelow(r, m)
    BY <1>2, <2>1, <2>2
  <2> QED BY <2>1, <2>2, <2>3 DEF OwnEntry
<1>4. ASSUME NEW b \in DOMAIN nodes, NEW m \in DOMAIN nodes, NamesBelow(r, b) = dir,
             OwnEntry(r, b, m, e)
      PROVE  b \in _resolve(nodes, r, dir) /\ nodes[b].kind = "folder" /\ e \in _walk(b, dir)
  <2>1. /\ r \in Chain(nodes, b) /\ b \in Chain(nodes, m) /\ m # b
        /\ Live(nodes, m) /\ nodes[m].kind # "folder"
        /\ e = [key |-> NamesBelow(r, m), node |-> m]
    BY <1>4 DEF OwnEntry
  <2>2. Live(nodes, b)
    BY <2>1, TreeIs, LiveAbove
  <2>3. b \in _resolve(nodes, r, dir)
    BY <1>4, <2>1, <2>2, WayLeads
  <2>4. nodes[b].kind = "folder"
    BY <2>1, TreeIs, FoldersOnly
  <2>5. e = [key |-> dir \o NamesBelow(b, m), node |-> m]
    BY <1>2, <1>4, <2>1
  <2>6. e \in _walk(b, dir)
    BY <2>1, <2>5, WalkIs
  <2> QED BY <2>3, <2>4, <2>6
<1> QED BY <1>0, <1>1, <1>3, <1>4

(* From the top it is every live file of the tree.                         *)
LEMMA EntriesAre ==
    ASSUME IInv, FoldersAbove(nodes), NEW u \in Users, NEW e
    PROVE  e \in _gather_own(u, <<>>)
             <=> \E m \in DOMAIN nodes :
                    /\ RootOf[u] \in Chain(nodes, m)
                    /\ Live(nodes, m) /\ nodes[m].kind # "folder"
                    /\ e = [key |-> NamesBelow(RootOf[u], m), node |-> m]
<1>0. PICK r \in DOMAIN nodes : r = RootOf[u] /\ r \in Roots
  BY DEF IInv, RowsOK, Roots
<1>1. <<>> \in Seq(AllNames)
  OBVIOUS
<1>2. e \in _gather_own(u, <<>>)
        <=> \E b \in DOMAIN nodes, m \in DOMAIN nodes :
               NamesBelow(r, b) = <<>> /\ OwnEntry(r, b, m, e)
  BY <1>0, <1>1, GatherIs
<1>3. ASSUME NEW b \in DOMAIN nodes, NEW m \in DOMAIN nodes, OwnEntry(r, b, m, e)
      PROVE  r \in Chain(nodes, m)
  BY <1>3, ChainInside DEF OwnEntry
<1>4. ASSUME NEW m \in DOMAIN nodes, r \in Chain(nodes, m), nodes[m].kind # "folder"
      PROVE  m # r
  BY <1>0, <1>4 DEF FoldersAbove
<1>5. NamesBelow(r, r) = <<>> /\ r \in Chain(nodes, r)
  BY WayNone, ChainClosed
<1> QED BY <1>0, <1>2, <1>3, <1>4, <1>5 DEF OwnEntry

(* An address is a sequence of names, of all kinds.                        *)
LEMMA AddressesAreNames == Addresses \subseteq Seq(AllNames)
<1> SUFFICES ASSUME NEW k \in 1 .. MaxPath, NEW dir \in [1 .. k -> Names]
             PROVE  dir \in Seq(AllNames)
  BY DEF Addresses
<1>1. k \in Nat
  BY GatewaysAssumption
<1> QED BY <1>1 DEF AllNames

(* A listing that descends to the folder of its prefix first is the        *)
(* listing from the top of what has the prefix.                            *)
LEMMA PrefixListed ==
    ASSUME IInv, FoldersAbove(nodes), NEW u \in Users, NEW dir \in Seq(AllNames)
    PROVE  _gather_own(u, dir) = {e \in _gather_own(u, <<>>) : IsStrictPrefix(dir, e.key)}
<1>0. PICK r \in DOMAIN nodes : r = RootOf[u]
  BY DEF IInv, RowsOK, Roots
<1>1. ASSUME NEW e \in _gather_own(u, dir)
      PROVE  e \in _gather_own(u, <<>>) /\ IsStrictPrefix(dir, e.key)
  <2>1. PICK b \in DOMAIN nodes, m \in DOMAIN nodes :
           NamesBelow(r, b) = dir /\ OwnEntry(r, b, m, e)
    BY <1>0, GatherIs
  <2>2. /\ r \in Chain(nodes, b) /\ b \in Chain(nodes, m) /\ m # b
        /\ Live(nodes, m) /\ nodes[m].kind # "folder"
        /\ e = [key |-> NamesBelow(r, m), node |-> m]
    BY <2>1 DEF OwnEntry
  <2>3. r \in Chain(nodes, m)
    BY <2>2, ChainInside
  <2>4. e \in _gather_own(u, <<>>)
    BY <1>0, <2>2, <2>3, EntriesAre
  <2>5. PICK z \in Seq(AllNames) : z = NamesBelow(b, m)
    BY <2>2, WayNames
  <2>6. e.key = dir \o z
    BY <2>1, <2>2, <2>5, WayJoins
  <2>7. IsPrefix(dir, e.key)
    BY <2>6, RestOf
  <2>8. Live(nodes, b)
    BY <2>2, TreeIs, LiveAbove
  <2>9. NamesBelow(r, b) # NamesBelow(r, m)
    BY <2>2, <2>3, <2>8, WayTells
  <2>10. dir # e.key
    BY <2>1, <2>2, <2>9
  <2> QED BY <2>4, <2>7, <2>10 DEF IsStrictPrefix
<1>2. ASSUME NEW e \in _gather_own(u, <<>>), IsStrictPrefix(dir, e.key)
      PROVE  e \in _gather_own(u, dir)
  <2>1. PICK m \in DOMAIN nodes :
           /\ r \in Chain(nodes, m) /\ Live(nodes, m) /\ nodes[m].kind # "folder"
           /\ e = [key |-> NamesBelow(r, m), node |-> m]
    BY <1>0, EntriesAre
  <2>2. IsPrefix(dir, NamesBelow(r, m)) /\ dir # NamesBelow(r, m)
    BY <1>2, <2>1 DEF IsStrictPrefix
  <2>3. PICK b \in Chain(nodes, m) : r \in Chain(nodes, b) /\ NamesBelow(r, b) = dir
    BY <2>1, <2>2, WayPrefix
  <2>4. b \in DOMAIN nodes /\ b # m
    BY <2>2, <2>3, ChainInside
  <2>5. OwnEntry(r, b, m, e)
    BY <2>1, <2>3, <2>4 DEF OwnEntry
  <2> QED BY <1>0, <2>3, <2>4, <2>5, GatherIs
<1> QED BY <1>1, <1>2

(* So the three parts of the view hold where no row is of another owner    *)
(* than its tree.                                                          *)
LEMMA OwnExact ==
    ASSUME IInv, FoldersAbove(nodes), OwnTrees
    PROVE  OwnViewExact
<1> SUFFICES ASSUME NEW u \in Users
             PROVE  /\ Listed(_gather_own(u, <<>>)) = Files(_visible_to(u, {}))
                    /\ \A e \in _gather_own(u, <<>>) :
                        Unshadowed(e.key) => resolve_object(nodes, u, u, e.key) = {e.node}
                    /\ \A dir \in Addresses :
                        Unshadowed(dir) =>
                            list_objects(u, dir) =
                                {e \in _gather_own(u, <<>>) : IsStrictPrefix(dir, e.key)}
  BY DEF OwnViewExact, list_objects
<1>0. PICK r \in DOMAIN nodes : r = RootOf[u]
  BY DEF IInv, RowsOK, Roots
<1>1. ASSUME NEW m \in Listed(_gather_own(u, <<>>)) PROVE m \in Files(_visible_to(u, {}))
  <2>1. PICK e \in _gather_own(u, <<>>) : e.node = m
    BY DEF Listed
  <2>2. PICK k \in DOMAIN nodes :
           /\ RootOf[u] \in Chain(nodes, k) /\ Live(nodes, k) /\ nodes[k].kind # "folder"
           /\ e = [key |-> NamesBelow(RootOf[u], k), node |-> k]
    BY EntriesAre
  <2>3. k = m /\ nodes[k].owner = u
    BY <2>1, <2>2, OwnedIs
  <2> QED BY <2>2, <2>3 DEF Files, _visible_to, IsFolder
<1>2. ASSUME NEW m \in Files(_visible_to(u, {})) PROVE m \in Listed(_gather_own(u, <<>>))
  <2>1. m \in DOMAIN nodes /\ Live(nodes, m) /\ nodes[m].owner = u /\ nodes[m].kind # "folder"
    BY DEF Files, _visible_to, IsFolder
  <2>2. RootOf[u] \in Chain(nodes, m)
    BY <2>1, OwnedIs
  <2>3. PICK e : e = [key |-> NamesBelow(RootOf[u], m), node |-> m]
    OBVIOUS
  <2>4. e \in _gather_own(u, <<>>)
    BY <2>1, <2>2, <2>3, EntriesAre
  <2> QED BY <2>3, <2>4 DEF Listed
<1>3. ASSUME NEW e \in _gather_own(u, <<>>), Unshadowed(e.key)
      PROVE  resolve_object(nodes, u, u, e.key) = {e.node}
  <2>1. PICK m \in DOMAIN nodes :
           /\ r \in Chain(nodes, m) /\ Live(nodes, m) /\ nodes[m].kind # "folder"
           /\ e = [key |-> NamesBelow(r, m), node |-> m]
    BY <1>0, EntriesAre
  <2>2. _resolve(nodes, r, NamesBelow(r, m)) = {m}
    BY <2>1, WayFound
  <2>3. nodes[m].kind = "file" /\ e.key = NamesBelow(r, m) /\ e.node = m
    BY <2>1 DEF IInv, RowsOK, Row
  <2>4. resolve_object(nodes, u, u, e.key)
          = {n \in _resolve(nodes, r, e.key) : nodes[n].kind = "file"}
    BY <1>0, <1>3 DEF resolve_object, resolve_key, Unshadowed
  <2> QED BY <2>2, <2>3, <2>4
<1>4. ASSUME NEW dir \in Addresses, Unshadowed(dir)
      PROVE  list_objects(u, dir) = {e \in _gather_own(u, <<>>) : IsStrictPrefix(dir, e.key)}
  <2>1. list_objects(u, dir) = _gather_own(u, dir)
    BY <1>4 DEF list_objects, Unshadowed
  <2> QED BY <2>1, PrefixListed, AddressesAreNames
<1> QED BY <1>1, <1>2, <1>3, <1>4

(* As long as no transfer has left a row of another owner in a tree, an    *)
(* owner is listed the live files search can find, under keys that resolve *)
(* to them, and a prefix misses none, but for what stands under the        *)
(* reserved name at the root: its key is one of the shared view.           *)
THEOREM OwnTreesViewsExact == GwSpec /\ []OwnTrees => []OwnViewExact
BY ViewsHold, OwnExact, PTL

(* With one user that is always so.                                        *)
THEOREM OwnViewsExact ==
    ASSUME \A u, v \in Users : u = v
    PROVE  GwSpec => []OwnViewExact
<1>1. ASSUME IInv, FoldersAbove(nodes) PROVE OwnViewExact
  <2>1. \A m \in DOMAIN nodes : nodes[m].owner \in Users
    BY <1>1 DEF IInv, RowsOK, Row
  <2>2. \A m \in DOMAIN nodes \ Roots : nodes[m].parent \in DOMAIN nodes
    BY <1>1 DEF IInv, RowsOK
  <2>3. \A u \in Users : RootOf[u] \in DOMAIN nodes
    BY <1>1 DEF IInv, RowsOK, Roots
  <2>4. OwnTrees
    BY <2>1, <2>2, <2>3 DEF OwnTrees, OneOwner
  <2> QED BY <1>1, <2>4, OwnExact
<1> QED BY <1>1, ViewsHold, PTL
=============================================================================
