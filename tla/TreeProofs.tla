----------------------------- MODULE TreeProofs ------------------------------
(***************************************************************************)
(* Editing the trees of a macro, for any trees that fit, any number of     *)
(* edits and any bound on the height.                                      *)
(*                                                                         *)
(* Induction on trees is that on the levels they have: a set of trees that *)
(* has a tree whenever it has its children has all trees (TreeInduction),  *)
(* as there would be a least level with a tree that it lacks.  The walks   *)
(* are functions on trees that are defined by themselves; by recursion on  *)
(* the levels there is such a function, and the lemmas named ...Is say so. *)
(*                                                                         *)
(* A walk counts positions; the properties speak of names.  What relates   *)
(* them is where the rows of each child start (First) and where a walk     *)
(* believes so (CountFirst); the two agree up to the first ForEach.  Each  *)
(* theorem about an edit says, by induction on the tree and for any        *)
(* position that the tree may start at, that the walk does at a row what   *)
(* is to be done at the node that the row shows.                           *)
(*                                                                         *)
(* The inductive invariant Inv is TypeOK with a bound on the levels and    *)
(* the names of the trees, which grow with the edits.                      *)
(***************************************************************************)
EXTENDS TreeEditor, SequenceTheorems, WellFoundedInduction, TLAPS

-----------------------------------------------------------------------------
(* Induction and recursion over numbers.  Induction is used in the form of a *)
(* least counterexample, for which a set is enough.                          *)

\* Among some numbers there is a least one.
LEMMA LeastNat ==
  ASSUME NEW S \in SUBSET Nat, S # {}
  PROVE  \E x \in S : \A y \in S : x <= y
<1>1. IsWellFoundedOn(OpToRel(<, Nat), Nat)
  BY NatLessThanWellFounded
<1>2. PICK x \in S : \A y \in S : ~ (<<y, x>> \in OpToRel(<, Nat))
  BY <1>1, WFMin
<1>3. \A y \in S : ~ (y < x)
  BY <1>2 DEF OpToRel
<1> QED
  BY <1>3

\* A set that has 0, and the successor of each of its numbers, has all of them.
LEMMA AllNat ==
  ASSUME NEW S, 0 \in S, \A n \in Nat : n \in S => n + 1 \in S
  PROVE  Nat \subseteq S
<1> SUFFICES ASSUME Nat \ S # {} PROVE FALSE
  OBVIOUS
<1>1. PICK x \in Nat \ S : \A y \in Nat \ S : x <= y
  BY LeastNat
<1>2. x # 0 /\ x - 1 \in Nat /\ x - 1 \in S
  BY <1>1
<1> QED
  BY <1>1, <1>2

\* g is given by its value for 0 and by its next value.
Iterates(g, V, v0, F) ==
  g \in [Nat -> V] /\ g[0] = v0 /\ \A n \in Nat : g[n + 1] = F[<<n, g[n]>>]

\* A function of numbers may be given by its value for 0 and by its next value.
LEMMA NatRecursion ==
  ASSUME NEW V, NEW v0 \in V, NEW F \in [Nat \X V -> V]
  PROVE  \E g : Iterates(g, V, v0, F)
<1> DEFINE Up(g, d) == g \in [0..d -> V] /\ g[0] = v0 /\ \A i \in 0..d - 1 : g[i + 1] = F[<<i, g[i]>>]
           S == {d \in Nat : \E g : Up(g, d)}
<1>1. 0 \in S
  <2>1. Up([i \in 0..0 |-> v0], 0)
    OBVIOUS
  <2> QED BY <2>1
<1>2. ASSUME NEW d \in Nat, d \in S PROVE d + 1 \in S
  <2>1. PICK g : Up(g, d)
    BY <1>2
  <2> DEFINE h == [i \in 0..d + 1 |-> IF i <= d THEN g[i] ELSE F[<<d, g[d]>>]]
  <2>2. /\ \A i \in 0..d : h[i] = g[i] /\ h[i] \in V
        /\ h[0] = g[0] /\ h[d] = g[d]
        /\ h[d + 1] = F[<<d, g[d]>>] /\ h[d + 1] \in V
    BY <2>1
  <2>9. DOMAIN h = 0..d + 1 /\ h = [i \in 0..d + 1 |-> h[i]]
    OBVIOUS
  <2> HIDE DEF h
  <2>3. h \in [0..d + 1 -> V]
    <3>1. \A i \in 0..d + 1 : h[i] \in V
      BY <2>2
    <3> QED BY <2>9, <3>1
  <2>4. h[0] = v0
    BY <2>1, <2>2
  <2>5. ASSUME NEW i \in 0..d + 1 - 1 PROVE h[i + 1] = F[<<i, h[i]>>]
    <3>1. CASE i = d
      <4>1. h[i + 1] = F[<<d, g[d]>>] /\ h[i] = g[d]
        BY <2>2, <3>1
      <4> QED BY <3>1, <4>1
    <3>2. CASE i # d
      <4>1. i \in 0..d - 1 /\ i + 1 \in 0..d /\ i \in 0..d
        BY <3>2
      <4>2. g[i + 1] = F[<<i, g[i]>>]
        BY <2>1, <4>1
      <4>3. h[i + 1] = g[i + 1] /\ h[i] = g[i]
        BY <2>2, <4>1
      <4> QED BY <4>2, <4>3
    <3> QED BY <3>1, <3>2
  <2>6. Up(h, d + 1)
    BY <2>3, <2>4, <2>5
  <2> QED BY <2>6
<1>3. Nat \subseteq S
  BY <1>1, <1>2, AllNat
<1>4. ASSUME NEW g, NEW h, NEW d \in Nat, NEW e \in Nat, Up(g, d), Up(h, e)
      PROVE  \A i \in Nat : i <= d /\ i <= e => g[i] = h[i]
  <2> DEFINE T == {i \in Nat : i <= d /\ i <= e => g[i] = h[i]}
  <2>1. 0 \in T
    BY <1>4
  <2>2. ASSUME NEW i \in Nat, i \in T PROVE i + 1 \in T
    <3> SUFFICES ASSUME i + 1 <= d, i + 1 <= e PROVE g[i + 1] = h[i + 1]
      OBVIOUS
    <3>1. i \in 0..d - 1 /\ i \in 0..e - 1 /\ g[i] = h[i]
      BY <2>2
    <3> QED BY <1>4, <3>1
  <2>3. Nat \subseteq T
    BY <2>1, <2>2, AllNat
  <2> QED BY <2>3
<1> DEFINE G(d) == CHOOSE g : Up(g, d)
           f == [d \in Nat |-> G(d)[d]]
<1>5. \A d \in Nat : Up(G(d), d)
  BY <1>3
<1> HIDE DEF G, S
<1>6. f \in [Nat -> V]
  BY <1>5
<1>7. f[0] = v0
  BY <1>5
<1>8. ASSUME NEW n \in Nat PROVE f[n + 1] = F[<<n, f[n]>>]
  <2>1. Up(G(n), n) /\ Up(G(n + 1), n + 1)
    BY <1>5
  <2>2. G(n + 1)[n] = G(n)[n]
    BY <1>4, <2>1, SMTT(30)
  <2>3. G(n + 1)[n + 1] = F[<<n, G(n + 1)[n]>>]
    BY <2>1
  <2> QED BY <2>2, <2>3
<1> QED
  BY <1>6, <1>7, <1>8 DEF Iterates

-----------------------------------------------------------------------------
(* Trees, and induction and recursion over them.                             *)

\* The trees whose children are in S.
TreeOver(S) == [kind : Conditions \union Nodes, id : Nat, cfg : Nat, kids : Seq(S)]

\* The trees of one level more have those of the levels below as children.
LEMMA TreesDef ==
  /\ TreesTo = [d \in Nat |-> IF d = 0 THEN {} ELSE TreeOver(TreesTo[d - 1])]
  /\ TreesTo[0] = {}
  /\ \A d \in Nat : TreesTo[d + 1] = TreeOver(TreesTo[d])
<1> DEFINE Up(g, d) == g[0] = {} /\ \A i \in 0..d - 1 : g[i + 1] = TreeOver(g[i])
           S == {d \in Nat : \E g : Up(g, d)}
<1>1. 0 \in S
  <2>1. Up([i \in 0..0 |-> {}], 0)
    OBVIOUS
  <2> QED BY <2>1
<1>2. ASSUME NEW d \in Nat, d \in S PROVE d + 1 \in S
  <2>1. PICK g : Up(g, d)
    BY <1>2
  <2> DEFINE h == [i \in 0..d + 1 |-> IF i <= d THEN g[i] ELSE TreeOver(g[d])]
  <2>2. (\A i \in 0..d : h[i] = g[i]) /\ h[d + 1] = TreeOver(g[d])
    OBVIOUS
  <2> HIDE DEF h
  <2>3. ASSUME NEW i \in 0..d + 1 - 1 PROVE h[i + 1] = TreeOver(h[i])
    <3>1. CASE i = d
      BY <2>2, <3>1
    <3>2. CASE i # d
      <4>1. i \in 0..d - 1 /\ i + 1 \in 0..d /\ i \in 0..d
        BY <3>2
      <4> QED BY <2>1, <2>2, <4>1
    <3> QED BY <3>1, <3>2
  <2>4. Up(h, d + 1)
    BY <2>1, <2>2, <2>3
  <2> QED BY <2>4
<1>3. Nat \subseteq S
  BY <1>1, <1>2, AllNat
<1>4. ASSUME NEW g, NEW h, NEW d \in Nat, NEW e \in Nat, Up(g, d), Up(h, e)
      PROVE  \A i \in Nat : i <= d /\ i <= e => g[i] = h[i]
  <2> DEFINE T == {i \in Nat : i <= d /\ i <= e => g[i] = h[i]}
  <2>1. 0 \in T
    BY <1>4
  <2>2. ASSUME NEW i \in Nat, i \in T PROVE i + 1 \in T
    <3> SUFFICES ASSUME i + 1 <= d, i + 1 <= e PROVE g[i + 1] = h[i + 1]
      OBVIOUS
    <3>1. i \in 0..d - 1 /\ i \in 0..e - 1 /\ g[i] = h[i]
      BY <2>2
    <3> QED BY <1>4, <3>1
  <2>3. Nat \subseteq T
    BY <2>1, <2>2, AllNat
  <2> QED BY <2>3
<1> DEFINE G(d) == CHOOSE g : Up(g, d)
           f == [d \in Nat |-> G(d)[d]]
<1>5. \A d \in Nat : Up(G(d), d)
  BY <1>3
<1> HIDE DEF G, S
<1>6. f[0] = {}
  BY <1>5
<1>7. ASSUME NEW n \in Nat PROVE f[n + 1] = TreeOver(f[n])
  <2>1. Up(G(n), n) /\ Up(G(n + 1), n + 1)
    BY <1>5
  <2>2. G(n + 1)[n] = G(n)[n]
    <3>1. \A i \in Nat : i <= n + 1 /\ i <= n => G(n + 1)[i] = G(n)[i]
      <4> HIDE DEF Up
      <4> QED BY <1>4, <2>1
    <3> QED BY <3>1
  <2>3. G(n + 1)[n + 1] = TreeOver(G(n + 1)[n])
    BY <2>1
  <2> QED BY <2>2, <2>3
<1>8. f = [d \in Nat |-> IF d = 0 THEN {} ELSE TreeOver(f[d - 1])]
  <2>1. ASSUME NEW d \in Nat, d # 0 PROVE d - 1 \in Nat /\ f[d] = TreeOver(f[d - 1])
    <3>1. d - 1 \in Nat /\ d = (d - 1) + 1
      BY <2>1
    <3> QED BY <3>1, <1>7
  <2> QED BY <1>6, <2>1
<1> HIDE DEF f
<1>9. TreesTo = [d \in Nat |-> IF d = 0 THEN {} ELSE TreeOver(TreesTo[d - 1])]
  BY <1>8 DEF TreesTo, TreeOver
<1>10. TreesTo[0] = {}
  BY <1>9
<1>11. ASSUME NEW d \in Nat PROVE TreesTo[d + 1] = TreeOver(TreesTo[d])
  <2>1. d + 1 \in Nat /\ d + 1 # 0 /\ (d + 1) - 1 = d
    OBVIOUS
  <2>2. TreesTo[d + 1] = TreeOver(TreesTo[(d + 1) - 1])
    BY <1>9, <2>1
  <2> QED BY <2>1, <2>2
<1> QED
  BY <1>9, <1>10, <1>11

\* The levels are nested.
LEMMA TreesMono ==
  ASSUME NEW d \in Nat, NEW e \in Nat, d <= e
  PROVE  TreesTo[d] \subseteq TreesTo[e]
<1> DEFINE T == {i \in Nat : TreesTo[i] \subseteq TreesTo[i + 1]}
<1>1. 0 \in T
  BY TreesDef
<1>2. ASSUME NEW i \in Nat, i \in T PROVE i + 1 \in T
  <2>1. TreesTo[i] \subseteq TreesTo[i + 1]
    BY <1>2
  <2>2. TreeOver(TreesTo[i]) \subseteq TreeOver(TreesTo[i + 1])
    BY <2>1 DEF TreeOver
  <2>3. TreesTo[i + 1] = TreeOver(TreesTo[i]) /\ TreesTo[(i + 1) + 1] = TreeOver(TreesTo[i + 1])
    BY TreesDef
  <2> QED BY <2>2, <2>3
<1>3. Nat \subseteq T
  BY <1>1, <1>2, AllNat
<1> DEFINE S == {i \in Nat : TreesTo[d] \subseteq TreesTo[d + i]}
<1>4. 0 \in S
  OBVIOUS
<1>5. ASSUME NEW i \in Nat, i \in S PROVE i + 1 \in S
  <2>1. TreesTo[d + i] \subseteq TreesTo[(d + i) + 1]
    BY <1>3
  <2>2. d + (i + 1) = (d + i) + 1
    OBVIOUS
  <2> QED BY <1>5, <2>1, <2>2
<1>6. Nat \subseteq S
  BY <1>4, <1>5, AllNat
<1>7. e - d \in Nat /\ d + (e - d) = e
  OBVIOUS
<1> QED BY <1>6, <1>7

\* The parts of a tree; its children are trees of one level less.
LEMMA TreeParts ==
  ASSUME NEW d \in Nat, NEW n \in TreesTo[d]
  PROVE  /\ d > 0
         /\ n = [kind |-> n.kind, id |-> n.id, cfg |-> n.cfg, kids |-> n.kids]
         /\ n.kind \in Conditions \union Nodes /\ n.id \in Nat /\ n.cfg \in Nat
         /\ n.kids \in Seq(TreesTo[d - 1])
<1>1. d # 0
  BY TreesDef
<1>2. d - 1 \in Nat /\ d = (d - 1) + 1
  BY <1>1
<1>3. n \in TreeOver(TreesTo[d - 1])
  BY <1>2, TreesDef
<1> QED
  BY <1>1, <1>3 DEF TreeOver

\* The children of a tree are trees.
LEMMA TreeKids ==
  ASSUME NEW n \in Tree
  PROVE  /\ n = [kind |-> n.kind, id |-> n.id, cfg |-> n.cfg, kids |-> n.kids]
         /\ n.kind \in Conditions \union Nodes /\ n.id \in Nat /\ n.cfg \in Nat
         /\ n.kids \in Seq(Tree)
         /\ DOMAIN n.kids = 1..Len(n.kids) /\ Len(n.kids) \in Nat
         /\ \A k \in DOMAIN n.kids : n.kids[k] \in Tree
<1>1. MaxHeight > 0 /\ n.kids \in Seq(TreesTo[MaxHeight - 1])
  BY TreeParts, MaxHeightAssumption DEF Tree
<1>2. TreesTo[MaxHeight - 1] \subseteq Tree
  BY <1>1, TreesMono, MaxHeightAssumption DEF Tree
<1>3. n.kids \in Seq(Tree)
  BY <1>1, <1>2
<1> QED
  BY <1>3, TreeParts, MaxHeightAssumption DEF Tree

\* What holds of a tree whenever it holds of its children holds of all trees.
LEMMA TreeInduction ==
  ASSUME NEW S, \A n \in Tree : (\A k \in DOMAIN n.kids : n.kids[k] \in S) => n \in S
  PROVE  Tree \subseteq S
<1> DEFINE T == {d \in Nat : d <= MaxHeight => TreesTo[d] \subseteq S}
<1>1. 0 \in T
  BY TreesDef
<1>2. ASSUME NEW d \in Nat, d \in T PROVE d + 1 \in T
  <2> SUFFICES ASSUME d + 1 <= MaxHeight, NEW n \in TreesTo[d + 1] PROVE n \in S
    OBVIOUS
  <2>1. n \in Tree
    BY TreesMono, MaxHeightAssumption DEF Tree
  <2>2. n.kids \in Seq(TreesTo[d])
    <3>1. n.kids \in Seq(TreesTo[(d + 1) - 1])
      BY TreeParts
    <3> QED BY <3>1
  <2>3. TreesTo[d] \subseteq S
    BY <1>2, MaxHeightAssumption
  <2>4. \A k \in DOMAIN n.kids : n.kids[k] \in S
    BY <2>2, <2>3
  <2> QED BY <2>1, <2>4
<1>3. Nat \subseteq T
  BY <1>1, <1>2, AllNat
<1> QED
  BY <1>3, MaxHeightAssumption DEF Tree

-----------------------------------------------------------------------------
(* Sums and concatenations.                                                  *)

\* The sums are those that the definition describes.
LEMMA BeforeDef ==
  ASSUME NEW w \in Seq(Nat)
  PROVE  /\ Before(w) \in [0..Len(w) -> Nat]
         /\ Before(w)[0] = 0
         /\ \A k \in 1..Len(w) : Before(w)[k] = Before(w)[k - 1] + w[k]
<1>len. Len(w) \in Nat /\ DOMAIN w = 1..Len(w) /\ \A k \in 1..Len(w) : w[k] \in Nat
  OBVIOUS
<1> DEFINE Next1(x) == IF x[1] + 1 \in 1..Len(w) THEN x[2] + w[x[1] + 1] ELSE 0
           F == [x \in Nat \X Nat |-> Next1(x)]
<1>1. F \in [Nat \X Nat -> Nat]
  <2>1. \A x \in Nat \X Nat : Next1(x) \in Nat
    OBVIOUS
  <2> HIDE DEF Next1
  <2> QED BY <2>1
<1>it. PICK g : Iterates(g, Nat, 0, F)
  <2> HIDE DEF F
  <2>1. 0 \in Nat
    OBVIOUS
  <2> QED BY <1>1, <2>1, NatRecursion
<1>2. g \in [Nat -> Nat] /\ g[0] = 0 /\ \A n \in Nat : g[n + 1] = F[<<n, g[n]>>]
  <2> HIDE DEF F
  <2> QED BY <1>it DEF Iterates
<1>3. ASSUME NEW k \in 1..Len(w) PROVE g[k] = g[k - 1] + w[k]
  <2>0. k - 1 \in Nat /\ (k - 1) + 1 = k
    BY <1>len
  <2>1. k - 1 \in Nat /\ (k - 1) + 1 = k /\ g[k - 1] \in Nat
    BY <1>2, <2>0
  <2>2. g[(k - 1) + 1] = F[<<k - 1, g[k - 1]>>]
    BY <1>2, <2>1
  <2>3. F[<<k - 1, g[k - 1]>>] = g[k - 1] + w[k]
    BY <2>1
  <2> QED BY <2>1, <2>2, <2>3
<1> DEFINE Is(f) == f = [k \in 0..Len(w) |-> IF k = 0 THEN 0 ELSE f[k - 1] + w[k]]
           h == [k \in 0..Len(w) |-> g[k]]
<1>4. Is(h)
  <2>1. \A k \in 0..Len(w) : k # 0 => k \in 1..Len(w) /\ k - 1 \in 0..Len(w)
    OBVIOUS
  <2>2. ASSUME NEW k \in 0..Len(w) PROVE h[k] = IF k = 0 THEN 0 ELSE h[k - 1] + w[k]
    <3>1. CASE k = 0
      BY <1>2, <3>1
    <3>2. CASE k # 0
      <4>1. h[k] = g[k] /\ h[k - 1] = g[k - 1]
        BY <2>1, <3>2
      <4>2. g[k] = g[k - 1] + w[k]
        BY <1>3, <2>1, <3>2
      <4> HIDE DEF h
      <4> QED BY <3>2, <4>1, <4>2
    <3> QED BY <3>1, <3>2
  <2>3. h = [k \in 0..Len(w) |-> h[k]]
    OBVIOUS
  <2> HIDE DEF h
  <2> QED BY <2>2, <2>3
<1>5. Is(Before(w))
  <2> HIDE DEF h
  <2>1. Before(w) = CHOOSE f : Is(f)
    BY DEF Before
  <2> HIDE DEF Is
  <2> QED BY <1>4, <2>1
<1> DEFINE b == Before(w)
<1> HIDE DEF b
<1>6. Is(b)
  BY <1>5 DEF b
<1> HIDE DEF h, F
<1>7. b[0] = 0
  BY <1>6
<1>8. ASSUME NEW k \in 1..Len(w) PROVE b[k] = b[k - 1] + w[k]
  <2>1. k \in 0..Len(w) /\ k # 0
    BY <1>len
  <2> QED BY <1>6, <2>1
<1>9. \A k \in 0..Len(w) : b[k] \in Nat
  <2> DEFINE T == {k \in Nat : k <= Len(w) => b[k] \in Nat}
  <2>1. 0 \in T
    BY <1>7
  <2>2. ASSUME NEW k \in Nat, k \in T PROVE k + 1 \in T
    <3> SUFFICES ASSUME k + 1 <= Len(w) PROVE b[k + 1] \in Nat
      BY <1>len
    <3>1. k + 1 \in 1..Len(w) /\ (k + 1) - 1 = k /\ b[k] \in Nat /\ w[k + 1] \in Nat
      BY <2>2, <1>len
    <3>2. b[k + 1] = b[(k + 1) - 1] + w[k + 1]
      BY <1>8, <3>1
    <3>3. b[k + 1] = b[k] + w[k + 1]
      BY <3>1, <3>2
    <3> QED BY <3>1, <3>3
  <2>3. Nat \subseteq T
    BY <2>1, <2>2, AllNat
  <2> QED BY <2>3
<1>10. b \in [0..Len(w) -> Nat]
  <2>1. DOMAIN b = 0..Len(w) /\ b = [k \in 0..Len(w) |-> b[k]]
    BY <1>6
  <2> QED BY <1>9, <2>1
<1> QED
  BY <1>7, <1>8, <1>10 DEF b

\* Each element comes after the sum of those before it, and before the next sums.
LEMMA BeforeMono ==
  ASSUME NEW w \in Seq(Nat), NEW i \in 0..Len(w), NEW j \in i..Len(w)
  PROVE  Before(w)[i] \in Nat /\ Before(w)[j] \in Nat /\ Before(w)[i] <= Before(w)[j]
<1>1. Len(w) \in Nat /\ i \in Nat /\ j \in Nat /\ \A k \in 1..Len(w) : w[k] \in Nat
  OBVIOUS
<1> DEFINE b == Before(w)
<1>2. /\ b \in [0..Len(w) -> Nat]
      /\ \A k \in 1..Len(w) : b[k] = b[k - 1] + w[k]
  BY BeforeDef
<1> HIDE DEF b
<1> DEFINE T == {k \in Nat : i + k <= Len(w) => b[i] <= b[i + k]}
<1>3. 0 \in T
  <2>1. i \in 0..Len(w) /\ i + 0 = i
    BY <1>1
  <2>2. b[i] \in Nat /\ b[i + 0] = b[i]
    BY <1>2, <2>1
  <2> QED BY <2>2
<1>4. ASSUME NEW k \in Nat, k \in T PROVE k + 1 \in T
  <2> SUFFICES ASSUME i + (k + 1) <= Len(w) PROVE b[i] <= b[i + (k + 1)]
    BY <1>1
  <2>1. /\ i + k \in 0..Len(w) /\ i + (k + 1) \in 1..Len(w) /\ (i + (k + 1)) - 1 = i + k
        /\ i \in 0..Len(w) /\ b[i] <= b[i + k]
    BY <1>1, <1>4
  <2>2. b[i + (k + 1)] = b[(i + (k + 1)) - 1] + w[i + (k + 1)]
    BY <1>2, <2>1
  <2>3. b[i + k] \in Nat /\ b[i] \in Nat /\ w[i + (k + 1)] \in Nat
    BY <1>1, <1>2, <2>1
  <2>4. b[i + (k + 1)] = b[i + k] + w[i + (k + 1)]
    BY <2>1, <2>2
  <2> QED BY <2>1, <2>3, <2>4
<1>5. Nat \subseteq T
  BY <1>3, <1>4, AllNat
<1>6. j - i \in Nat /\ i + (j - i) = j /\ j \in 0..Len(w)
  BY <1>1
<1>7. b[i] <= b[i + (j - i)]
  BY <1>1, <1>5, <1>6
<1>8. b[i] <= b[j] /\ b[i] \in Nat /\ b[j] \in Nat
  BY <1>2, <1>6, <1>7
<1> QED BY <1>8 DEF b

\* An element between two sums, which are sorted.
LEMMA BeforeStep ==
  ASSUME NEW w \in Seq(Nat), NEW k \in 1..Len(w)
  PROVE  /\ Before(w)[k - 1] \in Nat /\ w[k] \in Nat /\ Before(w)[k] \in Nat
         /\ Before(w)[k] = Before(w)[k - 1] + w[k]
         /\ \A j \in k..Len(w) : Before(w)[k] <= Before(w)[j]
         /\ \A j \in 0..k - 1 : Before(w)[j] <= Before(w)[k - 1]
         /\ Total(w) \in Nat /\ Before(w)[k] <= Total(w)
<1>1. Len(w) \in Nat /\ k - 1 \in 0..Len(w) /\ k \in 0..Len(w) /\ k \in k - 1..Len(w)
      /\ Len(w) \in k..Len(w) /\ Len(w) \in 0..Len(w)
      /\ w[k] \in Nat /\ k \in Nat
  OBVIOUS
<1>2. Before(w)[k - 1] \in Nat /\ Before(w)[k] \in Nat /\ Before(w)[k] = Before(w)[k - 1] + w[k]
  BY <1>1, BeforeDef
<1>3. ASSUME NEW j \in k..Len(w) PROVE Before(w)[k] <= Before(w)[j]
  BY <1>1, BeforeMono
<1>4. ASSUME NEW j \in 0..k - 1 PROVE Before(w)[j] <= Before(w)[k - 1]
  <2>1. j \in 0..Len(w) /\ k - 1 \in j..Len(w)
    BY <1>1
  <2> QED BY <2>1, BeforeMono
<1>5. Total(w) \in Nat /\ Before(w)[k] <= Total(w)
  BY <1>1, <1>3, BeforeDef DEF Total
<1> QED BY <1>1, <1>2, <1>3, <1>4, <1>5

LEMMA TotalType ==
  ASSUME NEW w \in Seq(Nat)
  PROVE  Total(w) \in Nat
<1>1. Len(w) \in 0..Len(w)
  OBVIOUS
<1> QED BY <1>1, BeforeDef DEF Total

\* Every number below the total belongs to one element.
LEMMA Locate ==
  ASSUME NEW w \in Seq(Nat), NEW q \in Nat, q < Total(w)
  PROVE  \E k \in 1..Len(w) : Before(w)[k - 1] <= q /\ q < Before(w)[k]
<1> DEFINE S == {k \in Nat : k <= Len(w) /\ q < Before(w)[k]}
<1>1. Len(w) \in S
  BY DEF Total
<1>2. PICK k \in S : \A j \in S : k <= j
  BY <1>1, LeastNat
<1>3. k # 0
  BY BeforeDef, <1>2
<1>4. k \in 1..Len(w) /\ k - 1 \in Nat /\ k - 1 <= Len(w)
  BY <1>2, <1>3
<1>5. ~(q < Before(w)[k - 1])
  BY <1>2, <1>4
<1>6. Before(w)[k - 1] \in Nat
  BY <1>4, BeforeStep
<1> QED BY <1>2, <1>4, <1>5, <1>6

\* Sums of equal elements are equal.
LEMMA BeforeSame ==
  ASSUME NEW w \in Seq(Nat), NEW v \in Seq(Nat), NEW m \in Nat, m <= Len(w), m <= Len(v),
         \A j \in 1..m : w[j] = v[j]
  PROVE  \A i \in 0..m : Before(w)[i] = Before(v)[i]
<1> DEFINE T == {i \in Nat : i <= m => Before(w)[i] = Before(v)[i]}
<1>1. 0 \in T
  BY BeforeDef
<1>2. ASSUME NEW i \in Nat, i \in T PROVE i + 1 \in T
  <2> SUFFICES ASSUME i + 1 <= m PROVE Before(w)[i + 1] = Before(v)[i + 1]
    OBVIOUS
  <2>1. /\ i + 1 \in 1..Len(w) /\ i + 1 \in 1..Len(v) /\ (i + 1) - 1 = i /\ i + 1 \in 1..m
        /\ Before(w)[i] = Before(v)[i]
    BY <1>2
  <2>2. Before(w)[i + 1] = Before(w)[(i + 1) - 1] + w[i + 1]
    BY <2>1, BeforeStep
  <2>3. Before(v)[i + 1] = Before(v)[(i + 1) - 1] + v[i + 1]
    BY <2>1, BeforeStep
  <2> QED BY <2>1, <2>2, <2>3
<1>3. Nat \subseteq T
  BY <1>1, <1>2, AllNat
<1> QED BY <1>3

\* Elements that are equal from where the sums are have equal totals.
LEMMA TotalFrom ==
  ASSUME NEW w \in Seq(Nat), NEW v \in Seq(Nat), NEW m \in 0..Len(w), Len(v) = Len(w),
         Before(w)[m] = Before(v)[m],
         \A j \in m + 1..Len(w) : w[j] = v[j]
  PROVE  Total(w) = Total(v)
<1> DEFINE T == {i \in Nat : m + i <= Len(w) => Before(w)[m + i] = Before(v)[m + i]}
<1>1. 0 \in T
  OBVIOUS
<1>2. ASSUME NEW i \in Nat, i \in T PROVE i + 1 \in T
  <2> SUFFICES ASSUME m + (i + 1) <= Len(w) PROVE Before(w)[m + (i + 1)] = Before(v)[m + (i + 1)]
    OBVIOUS
  <2> DEFINE j == m + (i + 1)
  <2>1. /\ j \in 1..Len(w) /\ j \in 1..Len(v) /\ j - 1 = m + i /\ j \in m + 1..Len(w)
        /\ Before(w)[m + i] = Before(v)[m + i]
    BY <1>2
  <2> HIDE DEF j
  <2>2. Before(w)[j] = Before(w)[j - 1] + w[j]
    BY <2>1, BeforeStep
  <2>3. Before(v)[j] = Before(v)[j - 1] + v[j]
    BY <2>1, BeforeStep
  <2>4. Before(w)[j] = Before(v)[j]
    BY <2>1, <2>2, <2>3
  <2> QED BY <2>4 DEF j
<1>3. Nat \subseteq T
  BY <1>1, <1>2, AllNat
<1>4. Len(w) - m \in Nat /\ m + (Len(w) - m) = Len(w)
  OBVIOUS
<1>5. Before(w)[Len(w)] = Before(v)[Len(w)]
  <2>1. PICK i \in Nat : m + i = Len(w)
    BY <1>4
  <2>2. m + i <= Len(w) /\ Before(w)[m + i] = Before(v)[m + i]
    <3>1. i \in T
      BY <1>3
    <3>2. Len(w) \in Nat
      OBVIOUS
    <3>3. m + i <= Len(w)
      BY <2>1, <3>2
    <3> QED BY <3>1, <3>3
  <2> QED BY <2>1, <2>2
<1> QED BY <1>5 DEF Total

\* Two neighbours may change places.
LEMMA TotalSwap ==
  ASSUME NEW w \in Seq(Nat), NEW v \in Seq(Nat), Len(v) = Len(w), NEW i \in 1..Len(w) - 1,
         v[i] = w[i + 1], v[i + 1] = w[i], \A j \in 1..Len(w) : j # i /\ j # i + 1 => v[j] = w[j]
  PROVE  Total(v) = Total(w)
<1>1. /\ i - 1 \in Nat /\ i - 1 <= Len(w) /\ i \in 1..Len(w) /\ i + 1 \in 1..Len(w)
      /\ i - 1 \in 0..i - 1 /\ (i + 1) - 1 = i /\ i + 1 \in 0..Len(w)
  OBVIOUS
<1>2. ASSUME NEW j \in 1..i - 1 PROVE v[j] = w[j]
  <2>1. j \in 1..Len(w) /\ j # i /\ j # i + 1
    BY <1>1
  <2> QED BY <2>1
<1>3. Before(v)[i - 1] = Before(w)[i - 1]
  BY <1>1, <1>2, BeforeSame
<1>4. /\ Before(w)[i] = Before(w)[i - 1] + w[i] /\ Before(w)[i + 1] = Before(w)[i] + w[i + 1]
      /\ w[i] \in Nat /\ w[i + 1] \in Nat /\ Before(w)[i - 1] \in Nat
  BY <1>1, BeforeStep
<1>5. Before(v)[i] = Before(v)[i - 1] + v[i] /\ Before(v)[i + 1] = Before(v)[i] + v[i + 1]
  BY <1>1, BeforeStep
<1>6. Before(v)[i + 1] = Before(w)[i + 1]
  BY <1>3, <1>4, <1>5
<1>7. ASSUME NEW j \in (i + 1) + 1..Len(w) PROVE v[j] = w[j]
  <2>1. j \in 1..Len(w) /\ j # i /\ j # i + 1
    BY <1>1, SMTT(30)
  <2> QED BY <2>1
<1> QED BY <1>1, <1>6, <1>7, TotalFrom

\* The sum of smaller elements is smaller.
LEMMA TotalGrows ==
  ASSUME NEW w \in Seq(Nat), NEW v \in Seq(Nat), Len(v) = Len(w),
         \A j \in 1..Len(w) : w[j] <= v[j]
  PROVE  Total(w) <= Total(v)
<1> DEFINE T == {i \in Nat : i <= Len(w) => Before(w)[i] <= Before(v)[i]}
<1>1. 0 \in T
  BY BeforeDef
<1>2. ASSUME NEW i \in Nat, i \in T PROVE i + 1 \in T
  <2> SUFFICES ASSUME i + 1 <= Len(w) PROVE Before(w)[i + 1] <= Before(v)[i + 1]
    OBVIOUS
  <2> DEFINE j == i + 1
  <2>1. j \in 1..Len(w) /\ j \in 1..Len(v) /\ j - 1 = i /\ Before(w)[i] <= Before(v)[i]
    BY <1>2
  <2> HIDE DEF j
  <2>2. Before(w)[j] = Before(w)[j - 1] + w[j] /\ Before(w)[j - 1] \in Nat /\ w[j] \in Nat
    BY <2>1, BeforeStep
  <2>3. Before(v)[j] = Before(v)[j - 1] + v[j] /\ Before(v)[j - 1] \in Nat /\ v[j] \in Nat
    BY <2>1, BeforeStep
  <2>4. Before(w)[j] <= Before(v)[j]
    BY <2>1, <2>2, <2>3
  <2> QED BY <2>4 DEF j
<1>3. Nat \subseteq T
  BY <1>1, <1>2, AllNat
<1>4. Len(w) \in Nat
  OBVIOUS
<1> QED BY <1>3, <1>4 DEF Total

\* A function on 1..n is a sequence.
LEMMA FcnSeq ==
  ASSUME NEW S, NEW n \in Nat, NEW f \in [1..n -> S]
  PROVE  f \in Seq(S) /\ Len(f) = n
<1>1. f \in Seq(S)
  BY SeqDef
<1>2. Len(f) \in Nat /\ 1..Len(f) = 1..n
  BY <1>1, LenProperties
<1>3. Len(f) = n
  <2>1. CASE n = 0
    <3>1. ~(1 \in 1..n)
      BY <2>1
    <3>2. ~(1 \in 1..Len(f))
      BY <1>2, <3>1
    <3> QED BY <1>2, <2>1, <3>2
  <2>2. CASE n > 0
    <3>1. n \in 1..Len(f) /\ ~(n + 1 \in 1..Len(f))
      BY <1>2, <2>2
    <3> QED BY <1>2, <2>2, <3>1
  <2> QED BY <2>1, <2>2
<1> QED BY <1>1, <1>3

LEMMA Concatenated ==
  ASSUME NEW S, NEW s \in Seq(S), NEW t \in Seq(S)
  PROVE  /\ s \o t \in Seq(S) /\ Len(s \o t) = Len(s) + Len(t)
         /\ Len(s) \in Nat /\ Len(t) \in Nat
         /\ \A i \in 1..Len(s) : (s \o t)[i] = s[i]
         /\ \A j \in 1..Len(t) : (s \o t)[Len(s) + j] = t[j]
<1>1. ASSUME NEW j \in 1..Len(t) PROVE (s \o t)[Len(s) + j] = t[j]
  <2>1. Len(s) + j \in 1..Len(s) + Len(t) /\ ~(Len(s) + j <= Len(s)) /\ Len(s) + j - Len(s) = j
    OBVIOUS
  <2> QED BY <2>1
<1> QED BY <1>1

Lengths(s) == [k \in DOMAIN s |-> Len(s[k])]

LEMMA LengthsType ==
  ASSUME NEW S, NEW s \in Seq(Seq(S))
  PROVE  Lengths(s) \in Seq(Nat) /\ Len(Lengths(s)) = Len(s) /\ \A k \in 1..Len(s) : Lengths(s)[k] = Len(s[k])
<1>1. \A k \in DOMAIN s : Len(s[k]) \in Nat
  OBVIOUS
<1>2. DOMAIN s = 1..Len(s) /\ Len(s) \in Nat
  OBVIOUS
<1> DEFINE w == Lengths(s)
<1>3. w = [k \in 1..Len(s) |-> Len(s[k])]
  BY <1>2 DEF Lengths
<1>4. w \in [1..Len(s) -> Nat]
  BY <1>1, <1>2, <1>3
<1> HIDE DEF w
<1>5. w \in Seq(Nat) /\ Len(w) = Len(s)
  BY <1>2, <1>4, FcnSeq
<1> QED BY <1>2, <1>3, <1>5 DEF w

\* A sequence of sequences, flattened: each one stands in it after those before it.
LEMMA Flattened ==
  ASSUME NEW S, NEW s \in Seq(Seq(S))
  PROVE  /\ FlattenSeq(s) \in Seq(S)
         /\ Len(FlattenSeq(s)) = Total(Lengths(s))
         /\ \A k \in 1..Len(s) : \A j \in 1..Len(s[k]) :
              FlattenSeq(s)[Before(Lengths(s))[k - 1] + j] = s[k][j]
<1> DEFINE w == Lengths(s)
           N == Len(s)
<1>w. w \in Seq(Nat) /\ Len(w) = N /\ \A k \in 1..N : w[k] = Len(s[k])
  BY LengthsType
<1>n. N \in Nat /\ \A k \in 1..N : s[k] \in Seq(S)
  OBVIOUS
<1> HIDE DEF w, N
<1> DEFINE More(x) == IF x[1] + 1 \in 1..N THEN x[2] \o s[x[1] + 1] ELSE <<>>
           F == [x \in Nat \X Seq(S) |-> More(x)]
<1>1. F \in [Nat \X Seq(S) -> Seq(S)]
  <2>1. \A x \in Nat \X Seq(S) : More(x) \in Seq(S)
    BY <1>n
  <2> HIDE DEF More
  <2> QED BY <2>1
<1>2. PICK g : Iterates(g, Seq(S), <<>>, F)
  <2> HIDE DEF F
  <2>1. <<>> \in Seq(S)
    OBVIOUS
  <2> QED BY <1>1, <2>1, NatRecursion
<1>3. g \in [Nat -> Seq(S)] /\ g[0] = <<>> /\ \A n \in Nat : g[n + 1] = F[<<n, g[n]>>]
  <2> HIDE DEF F
  <2> QED BY <1>2 DEF Iterates
<1>4. ASSUME NEW k \in 1..N PROVE k - 1 \in Nat /\ g[k - 1] \in Seq(S) /\ g[k] = g[k - 1] \o s[k]
  <2>1. k - 1 \in Nat /\ (k - 1) + 1 = k
    BY <1>n
  <2>2. g[k - 1] \in Seq(S)
    BY <1>3, <2>1
  <2>3. g[(k - 1) + 1] = F[<<k - 1, g[k - 1]>>]
    BY <1>3, <2>1
  <2>4. F[<<k - 1, g[k - 1]>>] = g[k - 1] \o s[k]
    BY <2>1, <2>2
  <2> QED BY <2>1, <2>2, <2>3, <2>4
<1> HIDE DEF F, More
<1>5. CASE N = 0
  <2>1. FlattenSeq(s) = s /\ s = <<>>
    BY <1>5 DEF FlattenSeq, N
  <2>2. Total(w) = 0
    BY <1>5, <1>w, BeforeDef DEF Total
  <2> QED BY <1>5, <2>1, <2>2 DEF N, w
<1>6. CASE N # 0
  <2> DEFINE Is(f) == f = [i \in 1..N |-> IF i = 1 THEN s[i] ELSE f[i - 1] \o s[i]]
             h == [i \in 1..N |-> g[i]]
  <2>1. Is(h)
    <3>1. ASSUME NEW i \in 1..N PROVE h[i] = IF i = 1 THEN s[i] ELSE h[i - 1] \o s[i]
      <4>1. h[i] = g[i - 1] \o s[i]
        BY <1>4
      <4>2. CASE i = 1
        <5>1. i - 1 = 0 /\ s[i] \in Seq(S)
          BY <1>n, <4>2
        <5>2. <<>> \o s[i] = s[i]
          BY <5>1
        <5> HIDE DEF h
        <5> QED BY <1>3, <4>1, <4>2, <5>1, <5>2
      <4>3. CASE i # 1
        <5>1. i - 1 \in 1..N
          BY <1>n, <4>3
        <5>2. h[i - 1] = g[i - 1]
          BY <5>1
        <5> HIDE DEF h
        <5> QED BY <4>1, <4>3, <5>2
      <4> QED BY <4>2, <4>3
    <3>2. h = [i \in 1..N |-> h[i]]
      OBVIOUS
    <3> HIDE DEF h
    <3> QED BY <3>1, <3>2
  <2> DEFINE f == CHOOSE x : Is(x)
  <2>2. Is(f)
    <3> HIDE DEF h, Is
    <3> QED BY <2>1
  <2>3. FlattenSeq(s) = f[N]
    BY <1>6 DEF FlattenSeq, N
  <2> HIDE DEF h, f
  <2>4. ASSUME NEW i \in 1..N PROVE f[i] = g[i]
    <3> DEFINE T == {m \in Nat : m + 1 <= N => f[m + 1] = g[m + 1]}
    <3>1. 0 \in T
      <4>1. 1 \in 1..N
        BY <1>6, <1>n
      <4>2. f[1] = s[1]
        BY <2>2, <4>1
      <4>3. g[1] = g[1 - 1] \o s[1]
        BY <1>4, <4>1
      <4>4. 1 - 1 = 0 /\ 0 + 1 = 1 /\ <<>> \o s[1] = s[1]
        BY <1>n, <4>1
      <4>5. f[1] = g[1]
        BY <1>3, <4>2, <4>3, <4>4
      <4> QED BY <4>4, <4>5
    <3>2. ASSUME NEW m \in Nat, m \in T PROVE m + 1 \in T
      <4> SUFFICES ASSUME (m + 1) + 1 <= N PROVE f[(m + 1) + 1] = g[(m + 1) + 1]
        OBVIOUS
      <4> DEFINE j == (m + 1) + 1
      <4>1. j \in 1..N /\ j # 1 /\ j - 1 = m + 1 /\ m + 1 <= N
        BY <1>n
      <4>2. f[m + 1] = g[m + 1]
        BY <3>2, <4>1
      <4> HIDE DEF j
      <4>3. f[j] = f[j - 1] \o s[j]
        BY <2>2, <4>1
      <4>4. g[j] = g[j - 1] \o s[j]
        BY <1>4, <4>1
      <4>5. f[j] = g[j]
        BY <4>1, <4>2, <4>3, <4>4
      <4> QED BY <4>5 DEF j
    <3>3. Nat \subseteq T
      BY <3>1, <3>2, AllNat
    <3>4. i - 1 \in Nat /\ (i - 1) + 1 = i /\ i <= N
      BY <1>n
    <3>5. PICK m \in Nat : m + 1 = i
      BY <3>4
    <3> QED BY <3>3, <3>4, <3>5
  <2>5. FlattenSeq(s) = g[N]
    BY <1>6, <1>n, <2>3, <2>4
  <2> DEFINE b == Before(w)
             P(m) == /\ g[m] \in Seq(S) /\ Len(g[m]) = b[m]
                     /\ \A k \in 1..m : \A j \in 1..Len(s[k]) : g[m][b[k - 1] + j] = s[k][j]
  <2> HIDE DEF b
  <2>6. /\ b[0] = 0
        /\ \A k \in 1..N : /\ b[k] = b[k - 1] + Len(s[k]) /\ b[k - 1] \in Nat /\ Len(s[k]) \in Nat
                           /\ \A j \in k..N : b[k] <= b[j]
    <3>1. b[0] = 0
      BY <1>w, BeforeDef DEF b
    <3>2. ASSUME NEW k \in 1..N
          PROVE /\ b[k] = b[k - 1] + Len(s[k]) /\ b[k - 1] \in Nat /\ Len(s[k]) \in Nat
                /\ \A j \in k..N : b[k] <= b[j]
      BY <1>w, BeforeStep DEF b
    <3> QED BY <3>1, <3>2
  <2>7. ASSUME NEW m \in Nat PROVE m <= N => P(m)
    <3> DEFINE T == {i \in Nat : i <= N => P(i)}
    <3>1. 0 \in T
      BY <1>3, <2>6
    <3>2. ASSUME NEW i \in Nat, i \in T PROVE i + 1 \in T
      <4> SUFFICES ASSUME i + 1 <= N PROVE P(i + 1)
        OBVIOUS
      <4>1. /\ i + 1 \in 1..N /\ (i + 1) - 1 = i
            /\ g[i] \in Seq(S) /\ Len(g[i]) = b[i]
        <5>1. i <= N /\ P(i)
          BY <1>n, <3>2
        <5> QED BY <1>n, <5>1
      <4>p. \A k \in 1..i : \A j \in 1..Len(s[k]) : g[i][b[k - 1] + j] = s[k][j]
        BY <1>n, <3>2
      <4>2. g[i + 1] = g[i] \o s[i + 1] /\ s[i + 1] \in Seq(S)
        <5>1. g[i + 1] = g[(i + 1) - 1] \o s[i + 1]
          BY <1>4, <4>1
        <5> QED BY <1>n, <4>1, <5>1
      <4>c. /\ g[i] \o s[i + 1] \in Seq(S) /\ Len(g[i] \o s[i + 1]) = Len(g[i]) + Len(s[i + 1])
            /\ Len(g[i]) \in Nat /\ Len(s[i + 1]) \in Nat
            /\ \A x \in 1..Len(g[i]) : g[i + 1][x] = g[i][x]
            /\ \A j \in 1..Len(s[i + 1]) : g[i + 1][Len(g[i]) + j] = s[i + 1][j]
        <5> DEFINE u == g[i]
                   v == s[i + 1]
        <5>1. u \in Seq(S) /\ v \in Seq(S)
          BY <4>1, <4>2
        <5>2. g[i + 1] = u \o v
          BY <4>2
        <5> HIDE DEF u, v
        <5>3. /\ u \o v \in Seq(S) /\ Len(u \o v) = Len(u) + Len(v)
              /\ Len(u) \in Nat /\ Len(v) \in Nat
              /\ \A x \in 1..Len(u) : (u \o v)[x] = u[x]
              /\ \A j \in 1..Len(v) : (u \o v)[Len(u) + j] = v[j]
          BY <5>1, Concatenated
        <5> QED BY <5>2, <5>3 DEF u, v
      <4>3. b[i + 1] = b[i] + Len(s[i + 1]) /\ b[i] \in Nat
        <5>1. b[i + 1] = b[(i + 1) - 1] + Len(s[i + 1]) /\ b[(i + 1) - 1] \in Nat
          BY <2>6, <4>1
        <5> QED BY <4>1, <5>1
      <4>4. g[i + 1] \in Seq(S) /\ Len(g[i + 1]) = b[i + 1]
        BY <4>1, <4>2, <4>3, <4>c
      <4>5. ASSUME NEW k \in 1..i + 1, NEW j \in 1..Len(s[k])
            PROVE  g[i + 1][b[k - 1] + j] = s[k][j]
        <5>1. CASE k = i + 1
          <6>1. k - 1 = i /\ j \in Nat /\ j >= 1 /\ j <= Len(s[i + 1]) /\ Len(s[i + 1]) \in Nat
            BY <4>2, <5>1
          <6>2. g[i + 1][Len(g[i]) + j] = s[i + 1][j]
            BY <4>c, <5>1
          <6> QED BY <4>1, <5>1, <6>1, <6>2
        <5>2. CASE k # i + 1
          <6>1. k \in 1..i /\ k \in 1..N /\ i \in k..N
            BY <5>2, <4>1, <1>n
          <6>2. g[i][b[k - 1] + j] = s[k][j]
            BY <4>p, <6>1
          <6>3. b[k] = b[k - 1] + Len(s[k]) /\ b[k - 1] \in Nat /\ Len(s[k]) \in Nat /\ b[k] <= b[i]
            BY <2>6, <6>1
          <6>4. b[k - 1] + j \in 1..Len(g[i])
            <7>1. j \in Nat /\ 1 <= j /\ j <= Len(s[k])
              BY <6>3
            <7>2. Len(g[i]) = b[i] /\ b[i] \in Nat
              BY <4>1, <4>3
            <7>3. b[k - 1] + j <= b[i] /\ b[k - 1] + j \in Nat /\ 1 <= b[k - 1] + j
              BY <6>3, <7>1, <7>2, SMTT(30)
            <7> QED BY <7>2, <7>3
          <6>5. g[i + 1][b[k - 1] + j] = g[i][b[k - 1] + j]
            BY <4>c, <6>4
          <6> QED BY <6>2, <6>5
        <5> QED BY <5>1, <5>2
      <4> QED BY <4>4, <4>5
    <3>3. Nat \subseteq T
      BY <3>1, <3>2, AllNat
    <3> QED BY <3>3
  <2>8. P(N)
    BY <2>7, <1>n, SMTT(30)
  <2>9. Total(w) = b[N]
    BY <1>w DEF Total, b
  <2> QED BY <2>5, <2>8, <2>9 DEF w, N, b
<1> QED BY <1>5, <1>6

-----------------------------------------------------------------------------
(* The walks.  A function that is defined by its values for the children   *)
(* is what its definition says for every tree.                             *)

\* Two functions agree on the children of a node.
SameKids(g, h, n) == \A k \in DOMAIN n.kids : g[n.kids[k]] = h[n.kids[k]]

LEMMA KidsBelow ==
  ASSUME NEW d \in Nat, NEW n \in TreesTo[d + 1], NEW k \in DOMAIN n.kids
  PROVE  n.kids[k] \in TreesTo[d] /\ n.kids[k] \in TreesTo[d + 1]
<1>1. n.kids \in Seq(TreesTo[d])
  <2>1. d + 1 \in Nat /\ (d + 1) - 1 = d
    OBVIOUS
  <2> QED BY <2>1, TreeParts
<1>2. n.kids[k] \in TreesTo[d]
  BY <1>1
<1> QED BY <1>2, TreesMono

\* Each walk is the function that its definition describes: the sizes,
LEMMA SizeIs ==
  Size = [n \in Tree |-> 1 + Total([k \in DOMAIN n.kids |-> Labels(n) + Size[n.kids[k]]])]
<1> DEFINE Body(g, n) == 1 + Total([k \in DOMAIN n.kids |-> Labels(n) + g[n.kids[k]]])
           Is(g) == g = [n \in Tree |-> Body(g, n)]
           Up(g, d) == \A n \in TreesTo[d] : g[n] = Body(g, n)
           S == {d \in Nat : \E g : Up(g, d)}
<1>1. ASSUME NEW g, NEW h, NEW n, SameKids(g, h, n) PROVE Body(g, n) = Body(h, n)
  <2>1. [k \in DOMAIN n.kids |-> Labels(n) + g[n.kids[k]]]
          = [k \in DOMAIN n.kids |-> Labels(n) + h[n.kids[k]]]
    BY <1>1 DEF SameKids
  <2> QED BY <2>1
<1>2. Size = CHOOSE g : Is(g)
  BY DEF Size
<1> HIDE DEF Body
<1>3. 0 \in S
  BY TreesDef
<1>4. ASSUME NEW d \in Nat, d \in S PROVE d + 1 \in S
  <2>1. PICK g : Up(g, d)
    BY <1>4
  <2> DEFINE h == [n \in TreesTo[d + 1] |-> Body(g, n)]
  <2>2. ASSUME NEW n \in TreesTo[d + 1] PROVE h[n] = Body(h, n)
    <3>1. SameKids(g, h, n)
      BY <2>1, KidsBelow DEF SameKids
    <3> QED BY <1>1, <3>1
  <2> HIDE DEF h
  <2>3. \E x : Up(x, d + 1)
    BY <2>2
  <2> QED BY <2>3
<1>5. PICK g : Up(g, MaxHeight)
  BY <1>3, <1>4, AllNat, MaxHeightAssumption
<1> DEFINE h == [n \in Tree |-> g[n]]
<1>6. ASSUME NEW n \in Tree PROVE h[n] = Body(h, n)
  <2>1. SameKids(g, h, n)
    BY TreeKids DEF SameKids
  <2> QED BY <1>1, <1>5, <2>1 DEF Tree
<1>7. Is(h)
  BY <1>6
<1> HIDE DEF h, Is
<1>8. Is(Size)
  BY <1>2, <1>7
<1> QED BY <1>8 DEF Is, Body

\* the sizes without what is in a ForEach,
LEMMA CountedIs ==
  Counted = [n \in Tree |->
             IF NotEntered(n) THEN 1
             ELSE 1 + Total([k \in DOMAIN n.kids |-> Labels(n) + Counted[n.kids[k]]])]
<1> DEFINE Body(g, n) ==
             IF NotEntered(n) THEN 1
             ELSE 1 + Total([k \in DOMAIN n.kids |-> Labels(n) + g[n.kids[k]]])
           Is(g) == g = [n \in Tree |-> Body(g, n)]
           Up(g, d) == \A n \in TreesTo[d] : g[n] = Body(g, n)
           S == {d \in Nat : \E g : Up(g, d)}
<1>1. ASSUME NEW g, NEW h, NEW n, SameKids(g, h, n) PROVE Body(g, n) = Body(h, n)
  <2>1. [k \in DOMAIN n.kids |-> Labels(n) + g[n.kids[k]]]
          = [k \in DOMAIN n.kids |-> Labels(n) + h[n.kids[k]]]
    BY <1>1 DEF SameKids
  <2> QED BY <2>1
<1>2. Counted = CHOOSE g : Is(g)
  BY DEF Counted
<1> HIDE DEF Body
<1>3. 0 \in S
  BY TreesDef
<1>4. ASSUME NEW d \in Nat, d \in S PROVE d + 1 \in S
  <2>1. PICK g : Up(g, d)
    BY <1>4
  <2> DEFINE h == [n \in TreesTo[d + 1] |-> Body(g, n)]
  <2>2. ASSUME NEW n \in TreesTo[d + 1] PROVE h[n] = Body(h, n)
    <3>1. SameKids(g, h, n)
      BY <2>1, KidsBelow DEF SameKids
    <3> QED BY <1>1, <3>1
  <2> HIDE DEF h
  <2>3. \E x : Up(x, d + 1)
    BY <2>2
  <2> QED BY <2>3
<1>5. PICK g : Up(g, MaxHeight)
  BY <1>3, <1>4, AllNat, MaxHeightAssumption
<1> DEFINE h == [n \in Tree |-> g[n]]
<1>6. ASSUME NEW n \in Tree PROVE h[n] = Body(h, n)
  <2>1. SameKids(g, h, n)
    BY TreeKids DEF SameKids
  <2> QED BY <1>1, <1>5, <2>1 DEF Tree
<1>7. Is(h)
  BY <1>6
<1> HIDE DEF h, Is
<1>8. Is(Counted)
  BY <1>2, <1>7
<1> QED BY <1>8 DEF Is, Body

\* the rows,
LEMMA RowsIs ==
  Rows = [n \in Tree |->
             NodeRow(n) \o FlattenSeq([k \in DOMAIN n.kids |-> LabelRow(n) \o Rows[n.kids[k]]])]
<1> DEFINE Body(g, n) ==
             NodeRow(n) \o FlattenSeq([k \in DOMAIN n.kids |-> LabelRow(n) \o g[n.kids[k]]])
           Is(g) == g = [n \in Tree |-> Body(g, n)]
           Up(g, d) == \A n \in TreesTo[d] : g[n] = Body(g, n)
           S == {d \in Nat : \E g : Up(g, d)}
<1>1. ASSUME NEW g, NEW h, NEW n, SameKids(g, h, n) PROVE Body(g, n) = Body(h, n)
  <2>1. [k \in DOMAIN n.kids |-> LabelRow(n) \o g[n.kids[k]]]
          = [k \in DOMAIN n.kids |-> LabelRow(n) \o h[n.kids[k]]]
    BY <1>1 DEF SameKids
  <2> QED BY <2>1
<1>2. Rows = CHOOSE g : Is(g)
  BY DEF Rows
<1> HIDE DEF Body
<1>3. 0 \in S
  BY TreesDef
<1>4. ASSUME NEW d \in Nat, d \in S PROVE d + 1 \in S
  <2>1. PICK g : Up(g, d)
    BY <1>4
  <2> DEFINE h == [n \in TreesTo[d + 1] |-> Body(g, n)]
  <2>2. ASSUME NEW n \in TreesTo[d + 1] PROVE h[n] = Body(h, n)
    <3>1. SameKids(g, h, n)
      BY <2>1, KidsBelow DEF SameKids
    <3> QED BY <1>1, <3>1
  <2> HIDE DEF h
  <2>3. \E x : Up(x, d + 1)
    BY <2>2
  <2> QED BY <2>3
<1>5. PICK g : Up(g, MaxHeight)
  BY <1>3, <1>4, AllNat, MaxHeightAssumption
<1> DEFINE h == [n \in Tree |-> g[n]]
<1>6. ASSUME NEW n \in Tree PROVE h[n] = Body(h, n)
  <2>1. SameKids(g, h, n)
    BY TreeKids DEF SameKids
  <2> QED BY <1>1, <1>5, <2>1 DEF Tree
<1>7. Is(h)
  BY <1>6
<1> HIDE DEF h, Is
<1>8. Is(Rows)
  BY <1>2, <1>7
<1> QED BY <1>8 DEF Is, Body

\* the nodes,
LEMMA BelowIs ==
  Below = [n \in Tree |-> {n} \union UNION {Below[n.kids[k]] : k \in DOMAIN n.kids}]
<1> DEFINE Body(g, n) == {n} \union UNION {g[n.kids[k]] : k \in DOMAIN n.kids}
           Is(g) == g = [n \in Tree |-> Body(g, n)]
           Up(g, d) == \A n \in TreesTo[d] : g[n] = Body(g, n)
           S == {d \in Nat : \E g : Up(g, d)}
<1>1. ASSUME NEW g, NEW h, NEW n, SameKids(g, h, n) PROVE Body(g, n) = Body(h, n)
  <2>1. {g[n.kids[k]] : k \in DOMAIN n.kids} = {h[n.kids[k]] : k \in DOMAIN n.kids}
    BY <1>1 DEF SameKids
  <2> QED BY <2>1
<1>2. Below = CHOOSE g : Is(g)
  BY DEF Below
<1> HIDE DEF Body
<1>3. 0 \in S
  BY TreesDef
<1>4. ASSUME NEW d \in Nat, d \in S PROVE d + 1 \in S
  <2>1. PICK g : Up(g, d)
    BY <1>4
  <2> DEFINE h == [n \in TreesTo[d + 1] |-> Body(g, n)]
  <2>2. ASSUME NEW n \in TreesTo[d + 1] PROVE h[n] = Body(h, n)
    <3>1. SameKids(g, h, n)
      BY <2>1, KidsBelow DEF SameKids
    <3> QED BY <1>1, <3>1
  <2> HIDE DEF h
  <2>3. \E x : Up(x, d + 1)
    BY <2>2
  <2> QED BY <2>3
<1>5. PICK g : Up(g, MaxHeight)
  BY <1>3, <1>4, AllNat, MaxHeightAssumption
<1> DEFINE h == [n \in Tree |-> g[n]]
<1>6. ASSUME NEW n \in Tree PROVE h[n] = Body(h, n)
  <2>1. SameKids(g, h, n)
    BY TreeKids DEF SameKids
  <2> QED BY <1>1, <1>5, <2>1 DEF Tree
<1>7. Is(h)
  BY <1>6
<1> HIDE DEF h, Is
<1>8. Is(Below)
  BY <1>2, <1>7
<1> QED BY <1>8 DEF Is, Body

\* the update of a row,
LEMMA UpdatingIs ==
  ASSUME NEW pos, NEW cfg
  PROVE  Updating(pos, cfg) = [n \in Tree |-> [at \in Nat |->
             IF HasSettings(n) /\ at = pos THEN [n EXCEPT !.cfg = cfg]
             ELSE IF NotEntered(n) THEN n
             ELSE LET from == Starts(n, at, Counts(n))
                  IN  [n EXCEPT !.kids = [k \in DOMAIN n.kids |-> Updating(pos, cfg)[n.kids[k]][from[k]]]]]]
<1> DEFINE Body(g, n) == [at \in Nat |->
             IF HasSettings(n) /\ at = pos THEN [n EXCEPT !.cfg = cfg]
             ELSE IF NotEntered(n) THEN n
             ELSE LET from == Starts(n, at, Counts(n))
                  IN  [n EXCEPT !.kids = [k \in DOMAIN n.kids |-> g[n.kids[k]][from[k]]]]]
           Is(g) == g = [n \in Tree |-> Body(g, n)]
           Up(g, d) == \A n \in TreesTo[d] : g[n] = Body(g, n)
           S == {d \in Nat : \E g : Up(g, d)}
<1>1. ASSUME NEW g, NEW h, NEW n, SameKids(g, h, n) PROVE Body(g, n) = Body(h, n)
  <2>1. \A at : [k \in DOMAIN n.kids |-> g[n.kids[k]][Starts(n, at, Counts(n))[k]]]
          = [k \in DOMAIN n.kids |-> h[n.kids[k]][Starts(n, at, Counts(n))[k]]]
    BY <1>1 DEF SameKids
  <2> QED BY <2>1
<1>2. Updating(pos, cfg) = CHOOSE g : Is(g)
  BY DEF Updating
<1> HIDE DEF Body
<1>3. 0 \in S
  BY TreesDef
<1>4. ASSUME NEW d \in Nat, d \in S PROVE d + 1 \in S
  <2>1. PICK g : Up(g, d)
    BY <1>4
  <2> DEFINE h == [n \in TreesTo[d + 1] |-> Body(g, n)]
  <2>2. ASSUME NEW n \in TreesTo[d + 1] PROVE h[n] = Body(h, n)
    <3>1. SameKids(g, h, n)
      BY <2>1, KidsBelow DEF SameKids
    <3> QED BY <1>1, <3>1
  <2> HIDE DEF h
  <2>3. \E x : Up(x, d + 1)
    BY <2>2
  <2> QED BY <2>3
<1>5. PICK g : Up(g, MaxHeight)
  BY <1>3, <1>4, AllNat, MaxHeightAssumption
<1> DEFINE h == [n \in Tree |-> g[n]]
<1>6. ASSUME NEW n \in Tree PROVE h[n] = Body(h, n)
  <2>1. SameKids(g, h, n)
    BY TreeKids DEF SameKids
  <2> QED BY <1>1, <1>5, <2>1 DEF Tree
<1>7. Is(h)
  BY <1>6
<1> HIDE DEF h, Is
<1>8. Is(Updating(pos, cfg))
  BY <1>2, <1>7
<1> QED BY <1>8 DEF Is, Body

\* the deletion,
LEMMA DeletingIs ==
  ASSUME NEW pos
  PROVE  Deleting(pos) = [n \in Tree |-> [at \in Nat |->
             IF at = pos THEN <<>>
             ELSE IF NotEntered(n) THEN <<n>>
             ELSE LET from == Starts(n, at, Counts(n))
                  IN  <<Rebuilt(n, [k \in DOMAIN n.kids |-> Deleting(pos)[n.kids[k]][from[k]]])>>]]
<1> DEFINE Body(g, n) == [at \in Nat |->
             IF at = pos THEN <<>>
             ELSE IF NotEntered(n) THEN <<n>>
             ELSE LET from == Starts(n, at, Counts(n))
                  IN  <<Rebuilt(n, [k \in DOMAIN n.kids |-> g[n.kids[k]][from[k]]])>>]
           Is(g) == g = [n \in Tree |-> Body(g, n)]
           Up(g, d) == \A n \in TreesTo[d] : g[n] = Body(g, n)
           S == {d \in Nat : \E g : Up(g, d)}
<1>1. ASSUME NEW g, NEW h, NEW n, SameKids(g, h, n) PROVE Body(g, n) = Body(h, n)
  <2>1. \A at : [k \in DOMAIN n.kids |-> g[n.kids[k]][Starts(n, at, Counts(n))[k]]]
          = [k \in DOMAIN n.kids |-> h[n.kids[k]][Starts(n, at, Counts(n))[k]]]
    BY <1>1 DEF SameKids
  <2> QED BY <2>1
<1>2. Deleting(pos) = CHOOSE g : Is(g)
  BY DEF Deleting
<1> HIDE DEF Body
<1>3. 0 \in S
  BY TreesDef
<1>4. ASSUME NEW d \in Nat, d \in S PROVE d + 1 \in S
  <2>1. PICK g : Up(g, d)
    BY <1>4
  <2> DEFINE h == [n \in TreesTo[d + 1] |-> Body(g, n)]
  <2>2. ASSUME NEW n \in TreesTo[d + 1] PROVE h[n] = Body(h, n)
    <3>1. SameKids(g, h, n)
      BY <2>1, KidsBelow DEF SameKids
    <3> QED BY <1>1, <3>1
  <2> HIDE DEF h
  <2>3. \E x : Up(x, d + 1)
    BY <2>2
  <2> QED BY <2>3
<1>5. PICK g : Up(g, MaxHeight)
  BY <1>3, <1>4, AllNat, MaxHeightAssumption
<1> DEFINE h == [n \in Tree |-> g[n]]
<1>6. ASSUME NEW n \in Tree PROVE h[n] = Body(h, n)
  <2>1. SameKids(g, h, n)
    BY TreeKids DEF SameKids
  <2> QED BY <1>1, <1>5, <2>1 DEF Tree
<1>7. Is(h)
  BY <1>6
<1> HIDE DEF h, Is
<1>8. Is(Deleting(pos))
  BY <1>2, <1>7
<1> QED BY <1>8 DEF Is, Body

\* the move,
LEMMA MovingIs ==
  ASSUME NEW pos, NEW up
  PROVE  Moving(pos, up) = [n \in Tree |-> [at \in Nat |->
             LET from == Starts(n, at, Sizes(n))
                 Hit == {i \in DOMAIN n.kids : from[i] = pos}
                 Inside(k) == from[k] <= pos /\ pos < from[k] + Size[n.kids[k]]
             IN  IF n.kind \in Lists /\ Hit # {}
                   THEN LET i == CHOOSE x \in Hit : TRUE
                        IN  [n EXCEPT !.kids = Swapped(n.kids, i, Neighbour(n.kids, i, up))]
                   ELSE [n EXCEPT !.kids =
                           [k \in DOMAIN n.kids |->
                              IF Inside(k) THEN Moving(pos, up)[n.kids[k]][from[k]] ELSE n.kids[k]]]]]
<1> DEFINE Body(g, n) == [at \in Nat |->
             LET from == Starts(n, at, Sizes(n))
                 Hit == {i \in DOMAIN n.kids : from[i] = pos}
                 Inside(k) == from[k] <= pos /\ pos < from[k] + Size[n.kids[k]]
             IN  IF n.kind \in Lists /\ Hit # {}
                   THEN LET i == CHOOSE x \in Hit : TRUE
                        IN  [n EXCEPT !.kids = Swapped(n.kids, i, Neighbour(n.kids, i, up))]
                   ELSE [n EXCEPT !.kids =
                           [k \in DOMAIN n.kids |->
                              IF Inside(k) THEN g[n.kids[k]][from[k]] ELSE n.kids[k]]]]
           Is(g) == g = [n \in Tree |-> Body(g, n)]
           Up(g, d) == \A n \in TreesTo[d] : g[n] = Body(g, n)
           S == {d \in Nat : \E g : Up(g, d)}
<1>1. ASSUME NEW g, NEW h, NEW n, SameKids(g, h, n) PROVE Body(g, n) = Body(h, n)
  <2> DEFINE from(at) == Starts(n, at, Sizes(n))
             Inside(at, k) == from(at)[k] <= pos /\ pos < from(at)[k] + Size[n.kids[k]]
  <2>1. \A at : [k \in DOMAIN n.kids |->
                   IF Inside(at, k) THEN g[n.kids[k]][from(at)[k]] ELSE n.kids[k]]
              = [k \in DOMAIN n.kids |->
                   IF Inside(at, k) THEN h[n.kids[k]][from(at)[k]] ELSE n.kids[k]]
    BY <1>1 DEF SameKids
  <2> QED BY <2>1
<1>2. Moving(pos, up) = CHOOSE g : Is(g)
  BY DEF Moving
<1> HIDE DEF Body
<1>3. 0 \in S
  BY TreesDef
<1>4. ASSUME NEW d \in Nat, d \in S PROVE d + 1 \in S
  <2>1. PICK g : Up(g, d)
    BY <1>4
  <2> DEFINE h == [n \in TreesTo[d + 1] |-> Body(g, n)]
  <2>2. ASSUME NEW n \in TreesTo[d + 1] PROVE h[n] = Body(h, n)
    <3>1. SameKids(g, h, n)
      BY <2>1, KidsBelow DEF SameKids
    <3> QED BY <1>1, <3>1
  <2> HIDE DEF h
  <2>3. \E x : Up(x, d + 1)
    BY <2>2
  <2> QED BY <2>3
<1>5. PICK g : Up(g, MaxHeight)
  BY <1>3, <1>4, AllNat, MaxHeightAssumption
<1> DEFINE h == [n \in Tree |-> g[n]]
<1>6. ASSUME NEW n \in Tree PROVE h[n] = Body(h, n)
  <2>1. SameKids(g, h, n)
    BY TreeKids DEF SameKids
  <2> QED BY <1>1, <1>5, <2>1 DEF Tree
<1>7. Is(h)
  BY <1>6
<1> HIDE DEF h, Is
<1>8. Is(Moving(pos, up))
  BY <1>2, <1>7
<1> QED BY <1>8 DEF Is, Body

\* the wrap,
LEMMA WrappingIs ==
  ASSUME NEW pos, NEW kind, NEW id
  PROVE  Wrapping(pos, kind, id) = [n \in Tree |-> [at \in Nat |->
             IF at = pos THEN wrap_expr(n, kind, id)
             ELSE LET from == Starts(n, at, Sizes(n))
                  IN  [n EXCEPT !.kids = [k \in DOMAIN n.kids |-> Wrapping(pos, kind, id)[n.kids[k]][from[k]]]]]]
<1> DEFINE Body(g, n) == [at \in Nat |->
             IF at = pos THEN wrap_expr(n, kind, id)
             ELSE LET from == Starts(n, at, Sizes(n))
                  IN  [n EXCEPT !.kids = [k \in DOMAIN n.kids |-> g[n.kids[k]][from[k]]]]]
           Is(g) == g = [n \in Tree |-> Body(g, n)]
           Up(g, d) == \A n \in TreesTo[d] : g[n] = Body(g, n)
           S == {d \in Nat : \E g : Up(g, d)}
<1>1. ASSUME NEW g, NEW h, NEW n, SameKids(g, h, n) PROVE Body(g, n) = Body(h, n)
  <2>1. \A at : [k \in DOMAIN n.kids |-> g[n.kids[k]][Starts(n, at, Sizes(n))[k]]]
          = [k \in DOMAIN n.kids |-> h[n.kids[k]][Starts(n, at, Sizes(n))[k]]]
    BY <1>1 DEF SameKids
  <2> QED BY <2>1
<1>2. Wrapping(pos, kind, id) = CHOOSE g : Is(g)
  BY DEF Wrapping
<1> HIDE DEF Body
<1>3. 0 \in S
  BY TreesDef
<1>4. ASSUME NEW d \in Nat, d \in S PROVE d + 1 \in S
  <2>1. PICK g : Up(g, d)
    BY <1>4
  <2> DEFINE h == [n \in TreesTo[d + 1] |-> Body(g, n)]
  <2>2. ASSUME NEW n \in TreesTo[d + 1] PROVE h[n] = Body(h, n)
    <3>1. SameKids(g, h, n)
      BY <2>1, KidsBelow DEF SameKids
    <3> QED BY <1>1, <3>1
  <2> HIDE DEF h
  <2>3. \E x : Up(x, d + 1)
    BY <2>2
  <2> QED BY <2>3
<1>5. PICK g : Up(g, MaxHeight)
  BY <1>3, <1>4, AllNat, MaxHeightAssumption
<1> DEFINE h == [n \in Tree |-> g[n]]
<1>6. ASSUME NEW n \in Tree PROVE h[n] = Body(h, n)
  <2>1. SameKids(g, h, n)
    BY TreeKids DEF SameKids
  <2> QED BY <1>1, <1>5, <2>1 DEF Tree
<1>7. Is(h)
  BY <1>6
<1> HIDE DEF h, Is
<1>8. Is(Wrapping(pos, kind, id))
  BY <1>2, <1>7
<1> QED BY <1>8 DEF Is, Body

\* the evaluation of a condition,
LEMMA HoldsInIs ==
  ASSUME NEW true
  PROVE  HoldsIn(true) = [n \in Tree |->
             \/ n.kind = "Always"
             \/ n.kind = "Leaf" /\ n.id \in true
             \/ n.kind = "Not" /\ \A k \in DOMAIN n.kids : ~HoldsIn(true)[n.kids[k]]
             \/ n.kind = "All" /\ \A k \in DOMAIN n.kids : HoldsIn(true)[n.kids[k]]
             \/ n.kind = "Any" /\ \E k \in DOMAIN n.kids : HoldsIn(true)[n.kids[k]]]
<1> DEFINE Body(g, n) ==
             \/ n.kind = "Always"
             \/ n.kind = "Leaf" /\ n.id \in true
             \/ n.kind = "Not" /\ \A k \in DOMAIN n.kids : ~g[n.kids[k]]
             \/ n.kind = "All" /\ \A k \in DOMAIN n.kids : g[n.kids[k]]
             \/ n.kind = "Any" /\ \E k \in DOMAIN n.kids : g[n.kids[k]]
           Is(g) == g = [n \in Tree |-> Body(g, n)]
           Up(g, d) == \A n \in TreesTo[d] : g[n] = Body(g, n)
           S == {d \in Nat : \E g : Up(g, d)}
<1>1. ASSUME NEW g, NEW h, NEW n, SameKids(g, h, n) PROVE Body(g, n) = Body(h, n)
  BY <1>1 DEF SameKids
<1>2. HoldsIn(true) = CHOOSE g : Is(g)
  BY DEF HoldsIn
<1> HIDE DEF Body
<1>3. 0 \in S
  BY TreesDef
<1>4. ASSUME NEW d \in Nat, d \in S PROVE d + 1 \in S
  <2>1. PICK g : Up(g, d)
    BY <1>4
  <2> DEFINE h == [n \in TreesTo[d + 1] |-> Body(g, n)]
  <2>2. ASSUME NEW n \in TreesTo[d + 1] PROVE h[n] = Body(h, n)
    <3>1. SameKids(g, h, n)
      BY <2>1, KidsBelow DEF SameKids
    <3> QED BY <1>1, <3>1
  <2> HIDE DEF h
  <2>3. \E x : Up(x, d + 1)
    BY <2>2
  <2> QED BY <2>3
<1>5. PICK g : Up(g, MaxHeight)
  BY <1>3, <1>4, AllNat, MaxHeightAssumption
<1> DEFINE h == [n \in Tree |-> g[n]]
<1>6. ASSUME NEW n \in Tree PROVE h[n] = Body(h, n)
  <2>1. SameKids(g, h, n)
    BY TreeKids DEF SameKids
  <2> QED BY <1>1, <1>5, <2>1 DEF Tree
<1>7. Is(h)
  BY <1>6
<1> HIDE DEF h, Is
<1>8. Is(HoldsIn(true))
  BY <1>2, <1>7
<1> QED BY <1>8 DEF Is, Body

\* the plan,
LEMMA PlanIs ==
  Plan = [n \in Tree |-> [under \in Paths |->
             IF n.kind = "Always" THEN <<>>
             ELSE IF n.kind \in Leaves THEN <<[id |-> n.id, cfg |-> n.cfg, under |-> under]>>
             ELSE FlattenSeq([k \in DOMAIN n.kids |-> Plan[n.kids[k]][Deeper(n, k, under)]])]]
<1> DEFINE Body(g, n) == [under \in Paths |->
             IF n.kind = "Always" THEN <<>>
             ELSE IF n.kind \in Leaves THEN <<[id |-> n.id, cfg |-> n.cfg, under |-> under]>>
             ELSE FlattenSeq([k \in DOMAIN n.kids |-> g[n.kids[k]][Deeper(n, k, under)]])]
           Is(g) == g = [n \in Tree |-> Body(g, n)]
           Up(g, d) == \A n \in TreesTo[d] : g[n] = Body(g, n)
           S == {d \in Nat : \E g : Up(g, d)}
<1>1. ASSUME NEW g, NEW h, NEW n, SameKids(g, h, n) PROVE Body(g, n) = Body(h, n)
  <2>1. \A under : [k \in DOMAIN n.kids |-> g[n.kids[k]][Deeper(n, k, under)]]
          = [k \in DOMAIN n.kids |-> h[n.kids[k]][Deeper(n, k, under)]]
    BY <1>1 DEF SameKids
  <2> QED BY <2>1
<1>2. Plan = CHOOSE g : Is(g)
  BY DEF Plan
<1> HIDE DEF Body
<1>3. 0 \in S
  BY TreesDef
<1>4. ASSUME NEW d \in Nat, d \in S PROVE d + 1 \in S
  <2>1. PICK g : Up(g, d)
    BY <1>4
  <2> DEFINE h == [n \in TreesTo[d + 1] |-> Body(g, n)]
  <2>2. ASSUME NEW n \in TreesTo[d + 1] PROVE h[n] = Body(h, n)
    <3>1. SameKids(g, h, n)
      BY <2>1, KidsBelow DEF SameKids
    <3> QED BY <1>1, <3>1
  <2> HIDE DEF h
  <2>3. \E x : Up(x, d + 1)
    BY <2>2
  <2> QED BY <2>3
<1>5. PICK g : Up(g, MaxHeight)
  BY <1>3, <1>4, AllNat, MaxHeightAssumption
<1> DEFINE h == [n \in Tree |-> g[n]]
<1>6. ASSUME NEW n \in Tree PROVE h[n] = Body(h, n)
  <2>1. SameKids(g, h, n)
    BY TreeKids DEF SameKids
  <2> QED BY <1>1, <1>5, <2>1 DEF Tree
<1>7. Is(h)
  BY <1>6
<1> HIDE DEF h, Is
<1>8. Is(Plan)
  BY <1>2, <1>7
<1> QED BY <1>8 DEF Is, Body

\* A node with other children.
WithKids(n, ks) == [n EXCEPT !.kids = ks]

\* the update by name,
SetNode(n, ids, cfg, kids) == [n EXCEPT !.cfg = IF n.id \in ids THEN cfg ELSE @, !.kids = kids]

KidsSet(n, ids, cfg) == [k \in DOMAIN n.kids |-> SettingById(ids, cfg)[n.kids[k]]]

LEMMA SettingByIdIs ==
  ASSUME NEW ids, NEW cfg
  PROVE  \A n \in Tree : SettingById(ids, cfg)[n] = SetNode(n, ids, cfg, KidsSet(n, ids, cfg))
<1> DEFINE Body(g, n) == SetNode(n, ids, cfg, [k \in DOMAIN n.kids |-> g[n.kids[k]]])
           Is(g) == g = [n \in Tree |-> Body(g, n)]
           Up(g, d) == \A n \in TreesTo[d] : g[n] = Body(g, n)
           S == {d \in Nat : \E g : Up(g, d)}
<1>1. ASSUME NEW g, NEW h, NEW n, SameKids(g, h, n) PROVE Body(g, n) = Body(h, n)
  <2>1. [k \in DOMAIN n.kids |-> g[n.kids[k]]]
          = [k \in DOMAIN n.kids |-> h[n.kids[k]]]
    BY <1>1 DEF SameKids
  <2> QED BY <2>1
<1>2. SettingById(ids, cfg) = CHOOSE g : Is(g)
  BY DEF SettingById, SetNode
<1> HIDE DEF Body
<1>3. 0 \in S
  BY TreesDef
<1>4. ASSUME NEW d \in Nat, d \in S PROVE d + 1 \in S
  <2>1. PICK g : Up(g, d)
    BY <1>4
  <2> DEFINE h == [n \in TreesTo[d + 1] |-> Body(g, n)]
  <2>2. ASSUME NEW n \in TreesTo[d + 1] PROVE h[n] = Body(h, n)
    <3>1. SameKids(g, h, n)
      BY <2>1, KidsBelow DEF SameKids
    <3> QED BY <1>1, <3>1
  <2> HIDE DEF h
  <2>3. \E x : Up(x, d + 1)
    BY <2>2
  <2> QED BY <2>3
<1>5. PICK g : Up(g, MaxHeight)
  BY <1>3, <1>4, AllNat, MaxHeightAssumption
<1> DEFINE h == [n \in Tree |-> g[n]]
<1>6. ASSUME NEW n \in Tree PROVE h[n] = Body(h, n)
  <2>1. SameKids(g, h, n)
    BY TreeKids DEF SameKids
  <2> QED BY <1>1, <1>5, <2>1 DEF Tree
<1>7. Is(h)
  BY <1>6
<1> HIDE DEF h, Is
<1>8. Is(SettingById(ids, cfg))
  BY <1>2, <1>7
<1> QED BY <1>8 DEF Is, Body, KidsSet

\* the move by name,
SwapAt(n, id) == {i \in DOMAIN n.kids : n.kids[i].id = id}
SwapTo(n, id, up) == {j \in DOMAIN n.kids : \E i \in SwapAt(n, id) : j = IF up THEN i - 1 ELSE i + 1}

KidsExchanged(n, at, to) ==
  [k \in DOMAIN n.kids |-> IF k \in at THEN n.kids[CHOOSE j \in to : TRUE]
                           ELSE IF k \in to THEN n.kids[CHOOSE i \in at : TRUE] ELSE n.kids[k]]

SwapNode(n, id, up, kids) ==
  IF n.kind \in Lists /\ SwapAt(n, id) # {} /\ SwapTo(n, id, up) # {}
    THEN WithKids(n, KidsExchanged(n, SwapAt(n, id), SwapTo(n, id, up)))
    ELSE WithKids(n, kids)

KidsSwapping(n, id, up) == [k \in DOMAIN n.kids |-> SwappingById(id, up)[n.kids[k]]]

LEMMA SwappingByIdIs ==
  ASSUME NEW id, NEW up
  PROVE  \A n \in Tree : SwappingById(id, up)[n] = SwapNode(n, id, up, KidsSwapping(n, id, up))
<1> DEFINE Body(g, n) == SwapNode(n, id, up, [k \in DOMAIN n.kids |-> g[n.kids[k]]])
           Is(g) == g = [n \in Tree |-> Body(g, n)]
           Up(g, d) == \A n \in TreesTo[d] : g[n] = Body(g, n)
           S == {d \in Nat : \E g : Up(g, d)}
<1>1. ASSUME NEW g, NEW h, NEW n, SameKids(g, h, n) PROVE Body(g, n) = Body(h, n)
  <2>1. [k \in DOMAIN n.kids |-> g[n.kids[k]]]
          = [k \in DOMAIN n.kids |-> h[n.kids[k]]]
    BY <1>1 DEF SameKids
  <2> QED BY <2>1
<1>2. SwappingById(id, up) = CHOOSE g : Is(g)
  BY DEF SwappingById, SwapNode, SwapAt, SwapTo, KidsExchanged, WithKids
<1> HIDE DEF Body
<1>3. 0 \in S
  BY TreesDef
<1>4. ASSUME NEW d \in Nat, d \in S PROVE d + 1 \in S
  <2>1. PICK g : Up(g, d)
    BY <1>4
  <2> DEFINE h == [n \in TreesTo[d + 1] |-> Body(g, n)]
  <2>2. ASSUME NEW n \in TreesTo[d + 1] PROVE h[n] = Body(h, n)
    <3>1. SameKids(g, h, n)
      BY <2>1, KidsBelow DEF SameKids
    <3> QED BY <1>1, <3>1
  <2> HIDE DEF h
  <2>3. \E x : Up(x, d + 1)
    BY <2>2
  <2> QED BY <2>3
<1>5. PICK g : Up(g, MaxHeight)
  BY <1>3, <1>4, AllNat, MaxHeightAssumption
<1> DEFINE h == [n \in Tree |-> g[n]]
<1>6. ASSUME NEW n \in Tree PROVE h[n] = Body(h, n)
  <2>1. SameKids(g, h, n)
    BY TreeKids DEF SameKids
  <2> QED BY <1>1, <1>5, <2>1 DEF Tree
<1>7. Is(h)
  BY <1>6
<1> HIDE DEF h, Is
<1>8. Is(SwappingById(id, up))
  BY <1>2, <1>7
<1> QED BY <1>8 DEF Is, Body, KidsSwapping

\* and a condition without a node.
LEMMA HoldsWithoutIs ==
  ASSUME NEW id, NEW true
  PROVE  HoldsWithout(id, true) = [n \in Tree |->
             LET rest == {k \in DOMAIN n.kids : n.kids[k].id # id} IN
             \/ n.kind \in {"Always", "Leaf"} /\ HoldsIn(true)[n]
             \/ n.kind \notin {"Always", "Leaf"} /\ rest = {}
             \/ n.kind = "Not" /\ rest # {} /\ \A k \in rest : ~HoldsWithout(id, true)[n.kids[k]]
             \/ n.kind = "All" /\ rest # {} /\ \A k \in rest : HoldsWithout(id, true)[n.kids[k]]
             \/ n.kind = "Any" /\ rest # {} /\ \E k \in rest : HoldsWithout(id, true)[n.kids[k]]]
<1> DEFINE Body(g, n) ==
             LET rest == {k \in DOMAIN n.kids : n.kids[k].id # id} IN
             \/ n.kind \in {"Always", "Leaf"} /\ HoldsIn(true)[n]
             \/ n.kind \notin {"Always", "Leaf"} /\ rest = {}
             \/ n.kind = "Not" /\ rest # {} /\ \A k \in rest : ~g[n.kids[k]]
             \/ n.kind = "All" /\ rest # {} /\ \A k \in rest : g[n.kids[k]]
             \/ n.kind = "Any" /\ rest # {} /\ \E k \in rest : g[n.kids[k]]
           Is(g) == g = [n \in Tree |-> Body(g, n)]
           Up(g, d) == \A n \in TreesTo[d] : g[n] = Body(g, n)
           S == {d \in Nat : \E g : Up(g, d)}
<1>1. ASSUME NEW g, NEW h, NEW n, SameKids(g, h, n) PROVE Body(g, n) = Body(h, n)
  BY <1>1 DEF SameKids
<1>2. HoldsWithout(id, true) = CHOOSE g : Is(g)
  BY DEF HoldsWithout
<1> HIDE DEF Body
<1>3. 0 \in S
  BY TreesDef
<1>4. ASSUME NEW d \in Nat, d \in S PROVE d + 1 \in S
  <2>1. PICK g : Up(g, d)
    BY <1>4
  <2> DEFINE h == [n \in TreesTo[d + 1] |-> Body(g, n)]
  <2>2. ASSUME NEW n \in TreesTo[d + 1] PROVE h[n] = Body(h, n)
    <3>1. SameKids(g, h, n)
      BY <2>1, KidsBelow DEF SameKids
    <3> QED BY <1>1, <3>1
  <2> HIDE DEF h
  <2>3. \E x : Up(x, d + 1)
    BY <2>2
  <2> QED BY <2>3
<1>5. PICK g : Up(g, MaxHeight)
  BY <1>3, <1>4, AllNat, MaxHeightAssumption
<1> DEFINE h == [n \in Tree |-> g[n]]
<1>6. ASSUME NEW n \in Tree PROVE h[n] = Body(h, n)
  <2>1. SameKids(g, h, n)
    BY TreeKids DEF SameKids
  <2> QED BY <1>1, <1>5, <2>1 DEF Tree
<1>7. Is(h)
  BY <1>6
<1> HIDE DEF h, Is
<1>8. Is(HoldsWithout(id, true))
  BY <1>2, <1>7
<1> QED BY <1>8 DEF Is, Body

-----------------------------------------------------------------------------
(* The rows of a tree, and where those of its children start.              *)

LEMMA LabelsType == \A n : Labels(n) \in {0, 1}
  BY DEF Labels

\* A sequence that is given for each child.
LEMMA KidsSeq ==
  ASSUME NEW S, NEW n \in Tree, NEW s, s = [k \in DOMAIN n.kids |-> s[k]],
         \A k \in 1..Len(n.kids) : s[k] \in S
  PROVE  s \in Seq(S) /\ Len(s) = Len(n.kids)
<1>1. Len(n.kids) \in Nat /\ DOMAIN n.kids = 1..Len(n.kids)
  BY TreeKids
<1>2. s \in [1..Len(n.kids) -> S]
  BY <1>1
<1> QED BY <1>1, <1>2, FcnSeq

\* Every node takes a row.
LEMMA SizeType == \A n \in Tree : Size[n] \in Nat /\ Size[n] > 0
<1> DEFINE S == {n \in Tree : Size[n] \in Nat /\ Size[n] > 0}
<1>1. ASSUME NEW n \in Tree, \A k \in DOMAIN n.kids : n.kids[k] \in S PROVE n \in S
  <2> DEFINE w == [k \in DOMAIN n.kids |-> Labels(n) + Size[n.kids[k]]]
  <2>1. DOMAIN n.kids = 1..Len(n.kids)
    BY TreeKids
  <2>2. w = [k \in DOMAIN n.kids |-> w[k]] /\ \A k \in 1..Len(n.kids) : w[k] \in Nat
    BY <1>1, <2>1, LabelsType
  <2>3. Size[n] = 1 + Total(w)
    BY SizeIs
  <2> HIDE DEF w
  <2>4. w \in Seq(Nat)
    BY <2>2, KidsSeq
  <2> QED BY <2>3, <2>4, TotalType
<1>2. Tree \subseteq S
  <2> HIDE DEF S
  <2> QED BY <1>1, TreeInduction
<1> QED BY <1>2

LEMMA SizesDef ==
  ASSUME NEW n \in Tree
  PROVE  /\ Sizes(n) \in Seq(Nat) /\ Len(Sizes(n)) = Len(n.kids)
         /\ Size[n] = 1 + Total(Sizes(n)) /\ Total(Sizes(n)) \in Nat
         /\ \A k \in 1..Len(n.kids) : /\ Sizes(n)[k] = Labels(n) + Size[n.kids[k]]
                                      /\ Size[n.kids[k]] \in Nat /\ Size[n.kids[k]] > 0
<1> DEFINE w == Sizes(n)
<1>1. DOMAIN n.kids = 1..Len(n.kids) /\ \A k \in 1..Len(n.kids) : n.kids[k] \in Tree
  BY TreeKids
<1>2. w = [k \in DOMAIN n.kids |-> Labels(n) + Size[n.kids[k]]]
  BY DEF Sizes
<1>3. Size[n] = 1 + Total(w)
  BY SizeIs DEF Sizes
<1> HIDE DEF w
<1>4. \A k \in 1..Len(n.kids) : /\ w[k] = Labels(n) + Size[n.kids[k]] /\ w[k] \in Nat
                                /\ Size[n.kids[k]] \in Nat /\ Size[n.kids[k]] > 0
  BY <1>1, <1>2, SizeType, LabelsType
<1>5. w = [k \in DOMAIN n.kids |-> w[k]]
  BY <1>2
<1>6. w \in Seq(Nat) /\ Len(w) = Len(n.kids)
  BY <1>4, <1>5, KidsSeq
<1>7. Total(w) \in Nat
  BY <1>6, TotalType
<1> QED BY <1>3, <1>4, <1>6, <1>7 DEF w

LEMMA CountedType == \A n \in Tree : Counted[n] \in Nat /\ Counted[n] > 0
<1> DEFINE S == {n \in Tree : Counted[n] \in Nat /\ Counted[n] > 0}
<1>1. ASSUME NEW n \in Tree, \A k \in DOMAIN n.kids : n.kids[k] \in S PROVE n \in S
  <2> DEFINE w == [k \in DOMAIN n.kids |-> Labels(n) + Counted[n.kids[k]]]
  <2>1. DOMAIN n.kids = 1..Len(n.kids)
    BY TreeKids
  <2>2. w = [k \in DOMAIN n.kids |-> w[k]] /\ \A k \in 1..Len(n.kids) : w[k] \in Nat
    BY <1>1, <2>1, LabelsType
  <2>3. Counted[n] = IF NotEntered(n) THEN 1 ELSE 1 + Total(w)
    BY CountedIs
  <2> HIDE DEF w
  <2>4. w \in Seq(Nat)
    BY <2>2, KidsSeq
  <2> QED BY <2>3, <2>4, TotalType
<1>2. Tree \subseteq S
  <2> HIDE DEF S
  <2> QED BY <1>1, TreeInduction
<1> QED BY <1>2

LEMMA CountsDef ==
  ASSUME NEW n \in Tree
  PROVE  /\ Counts(n) \in Seq(Nat) /\ Len(Counts(n)) = Len(n.kids)
         /\ Counted[n] = IF NotEntered(n) THEN 1 ELSE 1 + Total(Counts(n))
         /\ Total(Counts(n)) \in Nat
         /\ \A k \in 1..Len(n.kids) : /\ Counts(n)[k] = Labels(n) + Counted[n.kids[k]]
                                      /\ Counted[n.kids[k]] \in Nat /\ Counted[n.kids[k]] > 0
<1> DEFINE w == Counts(n)
<1>1. DOMAIN n.kids = 1..Len(n.kids) /\ \A k \in 1..Len(n.kids) : n.kids[k] \in Tree
  BY TreeKids
<1>2. w = [k \in DOMAIN n.kids |-> Labels(n) + Counted[n.kids[k]]]
  BY DEF Counts
<1>3. Counted[n] = IF NotEntered(n) THEN 1 ELSE 1 + Total(w)
  BY CountedIs DEF Counts
<1> HIDE DEF w
<1>4. \A k \in 1..Len(n.kids) : /\ w[k] = Labels(n) + Counted[n.kids[k]] /\ w[k] \in Nat
                                /\ Counted[n.kids[k]] \in Nat /\ Counted[n.kids[k]] > 0
  BY <1>1, <1>2, CountedType, LabelsType
<1>5. w = [k \in DOMAIN n.kids |-> w[k]]
  BY <1>2
<1>6. w \in Seq(Nat) /\ Len(w) = Len(n.kids)
  BY <1>4, <1>5, KidsSeq
<1>7. Total(w) \in Nat
  BY <1>6, TotalType
<1> QED BY <1>3, <1>4, <1>6, <1>7 DEF w

\* The children start after the node, one behind the other.
LEMMA StartsDef ==
  ASSUME NEW n \in Tree, NEW at \in Nat, NEW w \in Seq(Nat), Len(w) = Len(n.kids),
         \A k \in 1..Len(n.kids) : w[k] >= Labels(n)
  PROVE  \A k \in 1..Len(n.kids) :
           /\ Starts(n, at, w)[k] = at + 1 + Before(w)[k - 1] + Labels(n)
           /\ Before(w)[k - 1] \in Nat /\ w[k] \in Nat
           /\ Starts(n, at, w)[k] \in Nat /\ Starts(n, at, w)[k] > at
           /\ Starts(n, at, w)[k] + w[k] <= at + 1 + Labels(n) + Total(w)
           /\ \A j \in k + 1..Len(n.kids) : Starts(n, at, w)[k] + w[k] <= Starts(n, at, w)[j]
<1>1. Len(n.kids) \in Nat /\ DOMAIN n.kids = 1..Len(n.kids)
  BY TreeKids
<1>2. \A k \in 1..Len(n.kids) : Starts(n, at, w)[k] = at + 1 + Before(w)[k - 1] + Labels(n)
  BY <1>1 DEF Starts
<1>3. Labels(n) \in Nat
  BY LabelsType
<1>4. ASSUME NEW k \in 1..Len(n.kids)
      PROVE  /\ Before(w)[k - 1] \in Nat /\ w[k] \in Nat
             /\ Starts(n, at, w)[k] \in Nat /\ Starts(n, at, w)[k] > at
             /\ Starts(n, at, w)[k] + w[k] <= at + 1 + Labels(n) + Total(w)
  <2>1. /\ Before(w)[k - 1] \in Nat /\ w[k] \in Nat /\ Before(w)[k] = Before(w)[k - 1] + w[k]
        /\ Total(w) \in Nat /\ Before(w)[k] <= Total(w)
    BY BeforeStep
  <2>2. Starts(n, at, w)[k] = at + 1 + Before(w)[k - 1] + Labels(n)
    BY <1>2
  <2> DEFINE b == Before(w)[k - 1]
             c == Before(w)[k]
             f == Starts(n, at, w)[k]
             l == Labels(n)
             t == Total(w)
             x == w[k]
  <2>3. /\ b \in Nat /\ x \in Nat /\ l \in Nat /\ t \in Nat
        /\ c = b + x /\ c <= t /\ f = at + 1 + b + l
    BY <1>3, <2>1, <2>2
  <2> HIDE DEF b, c, f, l, t, x
  <2>4. f \in Nat /\ f > at
    BY <2>3
  <2>5. f + x <= at + 1 + l + t
    BY <2>3
  <2> QED BY <2>3, <2>4, <2>5 DEF b, f, l, t, x
<1>5. ASSUME NEW k \in 1..Len(n.kids), NEW j \in k + 1..Len(n.kids)
      PROVE  Starts(n, at, w)[k] + w[k] <= Starts(n, at, w)[j]
  <2>1. j \in 1..Len(n.kids) /\ j - 1 \in k..Len(w) /\ k \in 1..Len(w)
    BY <1>1
  <2>2. /\ Before(w)[k - 1] \in Nat /\ w[k] \in Nat /\ Before(w)[k] = Before(w)[k - 1] + w[k]
        /\ Before(w)[k] <= Before(w)[j - 1]
    BY <2>1, BeforeStep
  <2>3. Before(w)[j - 1] \in Nat
    BY <1>4, <2>1
  <2>4. /\ Starts(n, at, w)[k] = at + 1 + Before(w)[k - 1] + Labels(n)
        /\ Starts(n, at, w)[j] = at + 1 + Before(w)[j - 1] + Labels(n)
    BY <1>2, <2>1
  <2> DEFINE b == Before(w)[k - 1]
             c == Before(w)[k]
             e == Before(w)[j - 1]
             f == Starts(n, at, w)[k]
             g == Starts(n, at, w)[j]
             l == Labels(n)
             x == w[k]
  <2>5. /\ b \in Nat /\ x \in Nat /\ l \in Nat /\ e \in Nat
        /\ c = b + x /\ c <= e /\ f = at + 1 + b + l /\ g = at + 1 + e + l
    BY <1>3, <2>2, <2>3, <2>4
  <2> HIDE DEF b, c, e, f, g, l, x
  <2>6. f + x <= g
    BY <2>5
  <2> QED BY <2>6 DEF f, g, x
<1> QED BY <1>2, <1>4, <1>5

\* What a row holds.
RowType == [id : Nat, label : BOOLEAN, shown : SUBSET Nat]

\* The rows of each child, under its label.
Blocks(n) == [k \in DOMAIN n.kids |-> LabelRow(n) \o Rows[n.kids[k]]]

\* A row of a node, of the given kind.
RowOf(n, label, shown) == [id |-> n.id, label |-> label, shown |-> shown]
Shown(n) == IF HasSettings(n) THEN {n.cfg} ELSE {}

LEMMA OneRow ==
  ASSUME NEW n \in Tree, NEW label \in BOOLEAN, NEW shown \in SUBSET Nat
  PROVE  /\ Shows(n, label, shown) \in Seq(RowType) /\ Len(Shows(n, label, shown)) = 1
         /\ Shows(n, label, shown)[1] = RowOf(n, label, shown)
<1>1. n.id \in Nat
  BY TreeKids
<1>2. RowOf(n, label, shown) \in RowType
  BY <1>1 DEF RowType, RowOf
<1>3. Shows(n, label, shown) = <<RowOf(n, label, shown)>>
  BY DEF Shows, RowOf
<1> QED BY <1>2, <1>3

Yes == TRUE
No  == FALSE

LEMMA NodeRowDef ==
  \A n \in Tree : NodeRow(n) \in Seq(RowType) /\ Len(NodeRow(n)) = 1 /\ NodeRow(n)[1] = RowOf(n, No, Shown(n))
<1> TAKE n \in Tree
<1>1. NodeRow(n) = Shows(n, No, Shown(n))
  BY DEF NodeRow, Shown, No
<1>2. Shown(n) \in SUBSET Nat
  BY TreeKids DEF Shown
<1>3. No \in BOOLEAN
  BY DEF No
<1> QED BY <1>1, <1>2, <1>3, OneRow

LEMMA LabelRowDef ==
  \A n \in Tree : /\ LabelRow(n) \in Seq(RowType) /\ Len(LabelRow(n)) = Labels(n)
                  /\ n.kind = "If" => LabelRow(n)[1] = RowOf(n, Yes, {})
<1> TAKE n \in Tree
<1>1. CASE n.kind = "If"
  <2>1. LabelRow(n) = Shows(n, Yes, {}) /\ Labels(n) = 1 /\ {} \in SUBSET Nat
    BY <1>1 DEF LabelRow, Labels, Yes
  <2>2. Yes \in BOOLEAN
    BY DEF Yes
  <2> QED BY <2>1, <2>2, OneRow
<1>2. CASE n.kind # "If"
  <2>1. LabelRow(n) = <<>> /\ Labels(n) = 0
    BY <1>2 DEF LabelRow, Labels
  <2> QED BY <1>2, <2>1
<1> QED BY <1>1, <1>2

LEMMA BlockOf ==
  ASSUME NEW n \in Tree, NEW c \in Seq(RowType)
  PROVE  /\ LabelRow(n) \o c \in Seq(RowType) /\ Len(LabelRow(n) \o c) = Labels(n) + Len(c)
         /\ \A j \in 1..Len(c) : (LabelRow(n) \o c)[Labels(n) + j] = c[j]
         /\ n.kind = "If" => (LabelRow(n) \o c)[1] = RowOf(n, Yes, {})
<1> DEFINE a == LabelRow(n)
<1>1. a \in Seq(RowType) /\ Len(a) = Labels(n)
  BY LabelRowDef
<1>2. n.kind = "If" => a[1] = RowOf(n, Yes, {}) /\ 1 \in 1..Labels(n)
  BY LabelRowDef DEF Labels
<1> HIDE DEF a
<1>a. a \in Seq(RowType)
  BY <1>1
<1>3. /\ a \o c \in Seq(RowType) /\ Len(a \o c) = Len(a) + Len(c)
      /\ \A i \in 1..Len(a) : (a \o c)[i] = a[i]
      /\ \A j \in 1..Len(c) : (a \o c)[Len(a) + j] = c[j]
  BY <1>a, Concatenated
<1>4. n.kind = "If" => (a \o c)[1] = RowOf(n, Yes, {})
  BY <1>1, <1>2, <1>3
<1> QED BY <1>1, <1>3, <1>4 DEF a

LEMMA BlocksDef ==
  ASSUME NEW n \in Tree,
         \A k \in 1..Len(n.kids) : Rows[n.kids[k]] \in Seq(RowType) /\ Len(Rows[n.kids[k]]) = Size[n.kids[k]]
  PROVE  /\ Blocks(n) \in Seq(Seq(RowType)) /\ Len(Blocks(n)) = Len(n.kids)
         /\ Lengths(Blocks(n)) = Sizes(n)
         /\ \A k \in 1..Len(n.kids) : Blocks(n)[k] = LabelRow(n) \o Rows[n.kids[k]]
<1> DEFINE s == Blocks(n)
<1>1. DOMAIN n.kids = 1..Len(n.kids)
  BY TreeKids
<1>2. s = [k \in DOMAIN n.kids |-> s[k]] /\ \A k \in 1..Len(n.kids) : s[k] = LabelRow(n) \o Rows[n.kids[k]]
  BY <1>1 DEF Blocks
<1>3. Sizes(n) = [k \in DOMAIN n.kids |-> Labels(n) + Size[n.kids[k]]]
  BY DEF Sizes
<1> HIDE DEF s
<1>4. ASSUME NEW k \in 1..Len(n.kids) PROVE s[k] \in Seq(RowType) /\ Len(s[k]) = Labels(n) + Size[n.kids[k]]
  <2> DEFINE c == Rows[n.kids[k]]
  <2>1. s[k] = LabelRow(n) \o c
    BY <1>2
  <2>2. c \in Seq(RowType)
    OBVIOUS
  <2>3. Len(c) = Size[n.kids[k]]
    OBVIOUS
  <2> HIDE DEF c
  <2>4. LabelRow(n) \o c \in Seq(RowType) /\ Len(LabelRow(n) \o c) = Labels(n) + Len(c)
    BY <2>2, BlockOf
  <2> QED BY <2>1, <2>3, <2>4
<1>a. s = [k \in DOMAIN n.kids |-> s[k]]
  BY <1>2
<1>b. \A k \in 1..Len(n.kids) : s[k] \in Seq(RowType)
  BY <1>4
<1>5. s \in Seq(Seq(RowType)) /\ Len(s) = Len(n.kids)
  BY <1>a, <1>b, KidsSeq
<1>6. DOMAIN s = DOMAIN n.kids
  BY <1>2
<1>7. [k \in DOMAIN s |-> Len(s[k])] = [k \in DOMAIN n.kids |-> Labels(n) + Size[n.kids[k]]]
  BY <1>1, <1>4, <1>6
<1>8. Lengths(s) = Sizes(n)
  BY <1>3, <1>7 DEF Lengths
<1> QED BY <1>2, <1>5, <1>8 DEF s

\* A tree has as many rows as the move helpers compute.
LEMMA RowsType == \A n \in Tree : Rows[n] \in Seq(RowType) /\ Len(Rows[n]) = Size[n]
<1> DEFINE S == {n \in Tree : Rows[n] \in Seq(RowType) /\ Len(Rows[n]) = Size[n]}
<1>1. ASSUME NEW n \in Tree, \A k \in DOMAIN n.kids : n.kids[k] \in S PROVE n \in S
  <2>1. \A k \in 1..Len(n.kids) : Rows[n.kids[k]] \in Seq(RowType) /\ Len(Rows[n.kids[k]]) = Size[n.kids[k]]
    BY <1>1, TreeKids
  <2>2. Blocks(n) \in Seq(Seq(RowType)) /\ Lengths(Blocks(n)) = Sizes(n)
    BY <2>1, BlocksDef
  <2>3. Rows[n] = NodeRow(n) \o FlattenSeq(Blocks(n))
    BY RowsIs DEF Blocks
  <2>4. FlattenSeq(Blocks(n)) \in Seq(RowType) /\ Len(FlattenSeq(Blocks(n))) = Total(Sizes(n))
    BY <2>2, Flattened
  <2>5. Rows[n] \in Seq(RowType) /\ Len(Rows[n]) = 1 + Total(Sizes(n))
    BY <2>3, <2>4, NodeRowDef, LabelRowDef, Concatenated, SMTT(30)
  <2> QED BY <2>5, SizesDef
<1>2. Tree \subseteq S
  <2> HIDE DEF S
  <2> QED BY <1>1, TreeInduction
<1> QED BY <1>2

\* The row at a position, from 0, and where the rows of a child start.
Row(n, q) == Rows[n][q + 1]
First(n, k) == Starts(n, 0, Sizes(n))[k]

\* The children of a node that take what z says, under their labels.
LEMMA StartsAre ==
  ASSUME NEW n \in Tree, NEW w \in Seq(Nat), Len(w) = Len(n.kids), NEW z,
         \A k \in 1..Len(n.kids) : w[k] = Labels(n) + z[k] /\ z[k] \in Nat /\ z[k] > 0
  PROVE  \A k \in 1..Len(n.kids) :
           /\ Starts(n, 0, w)[k] = 1 + Before(w)[k - 1] + Labels(n) /\ Before(w)[k - 1] \in Nat
           /\ Starts(n, 0, w)[k] \in Nat /\ Starts(n, 0, w)[k] > Labels(n)
           /\ Starts(n, 0, w)[k] + z[k] <= 1 + Total(w)
           /\ \A j \in k + 1..Len(n.kids) : Starts(n, 0, w)[k] + z[k] + Labels(n) <= Starts(n, 0, w)[j]
           /\ \A at \in Nat : Starts(n, at, w)[k] = at + Starts(n, 0, w)[k]
<1>3. Labels(n) \in Nat /\ Total(w) \in Nat
  <2>1. Labels(n) \in Nat
    BY LabelsType
  <2> QED BY <2>1, TotalType
<1>4. \A k \in 1..Len(n.kids) : w[k] >= Labels(n)
  <2> TAKE k \in 1..Len(n.kids)
  <2> DEFINE l == Labels(n)
             y == z[k]
  <2>1. w[k] = l + y /\ l \in Nat /\ y \in Nat
    BY <1>3
  <2> HIDE DEF l, y
  <2> QED BY <2>1 DEF l
<1> TAKE k \in 1..Len(n.kids)
<1> DEFINE b == Before(w)[k - 1]
           f == Starts(n, 0, w)[k]
           l == Labels(n)
           y == z[k]
<1>5. w[k] = l + y /\ y \in Nat /\ y > 0
  OBVIOUS
<1>6. f = 1 + b + l /\ b \in Nat /\ f \in Nat /\ f + (l + y) <= 1 + l + Total(w)
  <2>1. 0 \in Nat /\ \A x \in Nat : 0 + x = x
    OBVIOUS
  <2>2. /\ f = 0 + 1 + b + l /\ b \in Nat /\ f \in Nat /\ f + w[k] <= 0 + 1 + l + Total(w)
    BY <1>4, <2>1, StartsDef
  <2> QED BY <1>3, <1>5, <2>1, <2>2
<1>7. ASSUME NEW j \in k + 1..Len(n.kids) PROVE f + y + l <= Starts(n, 0, w)[j]
  <2>1. j \in 1..Len(n.kids) /\ 0 \in Nat
    OBVIOUS
  <2> DEFINE g == Starts(n, 0, w)[j]
  <2>2. f + w[k] <= g
    BY <1>4, <2>1, StartsDef
  <2>3. g \in Nat
    BY <1>4, <2>1, StartsDef
  <2> HIDE DEF f, l, y, g
  <2> QED BY <1>3, <1>5, <1>6, <2>2, <2>3 DEF l, g
<1>8. ASSUME NEW at \in Nat PROVE Starts(n, at, w)[k] = at + f
  <2>1. Starts(n, at, w)[k] = at + 1 + b + l
    BY <1>4, StartsDef
  <2> HIDE DEF f, b, l
  <2> QED BY <1>3, <1>6, <2>1 DEF l
<1>9. f > l /\ f + y <= 1 + Total(w)
  <2> DEFINE u == Total(w)
  <2>1. /\ f = 1 + b + l /\ b \in Nat /\ l \in Nat /\ u \in Nat /\ y \in Nat
        /\ f + (l + y) <= 1 + l + u
    BY <1>3, <1>5, <1>6
  <2> HIDE DEF f, b, l, y, u
  <2>2. f > l /\ f + y <= 1 + u
    BY <2>1
  <2> QED BY <2>2 DEF u
<1> QED BY <1>6, <1>7, <1>8, <1>9

\* Where the rows of the children are, by the walks that count the rows,
LEMMA FirstDef ==
  ASSUME NEW n \in Tree
  PROVE  \A k \in 1..Len(n.kids) :
           /\ First(n, k) = 1 + Before(Sizes(n))[k - 1] + Labels(n) /\ Before(Sizes(n))[k - 1] \in Nat
           /\ First(n, k) \in Nat /\ First(n, k) > Labels(n) /\ First(n, k) + Size[n.kids[k]] <= Size[n]
           /\ Size[n.kids[k]] \in Nat /\ Size[n.kids[k]] > 0
           /\ \A j \in k + 1..Len(n.kids) : First(n, k) + Size[n.kids[k]] + Labels(n) <= First(n, j)
           /\ \A at \in Nat : Starts(n, at, Sizes(n))[k] = at + First(n, k)
<1> DEFINE w == Sizes(n)
           z == [k \in DOMAIN n.kids |-> Size[n.kids[k]]]
<1>1. DOMAIN n.kids = 1..Len(n.kids)
  BY TreeKids
<1>2. \A k \in 1..Len(n.kids) : z[k] = Size[n.kids[k]]
  BY <1>1
<1> HIDE DEF z
<1>3. /\ w \in Seq(Nat) /\ Len(w) = Len(n.kids) /\ Size[n] = 1 + Total(w)
      /\ \A k \in 1..Len(n.kids) : w[k] = Labels(n) + z[k] /\ z[k] \in Nat /\ z[k] > 0
  BY <1>2, SizesDef
<1> HIDE DEF w
<1>4. \A k \in 1..Len(n.kids) :
           /\ Starts(n, 0, w)[k] = 1 + Before(w)[k - 1] + Labels(n) /\ Before(w)[k - 1] \in Nat
           /\ Starts(n, 0, w)[k] \in Nat /\ Starts(n, 0, w)[k] > Labels(n)
           /\ Starts(n, 0, w)[k] + z[k] <= 1 + Total(w)
           /\ \A j \in k + 1..Len(n.kids) : Starts(n, 0, w)[k] + z[k] + Labels(n) <= Starts(n, 0, w)[j]
           /\ \A at \in Nat : Starts(n, at, w)[k] = at + Starts(n, 0, w)[k]
  BY <1>3, StartsAre
<1> QED BY <1>2, <1>3, <1>4 DEF w, First

\* The same for the walks that do not look into a ForEach.
CountFirst(n, k) == Starts(n, 0, Counts(n))[k]

LEMMA CountFirstDef ==
  ASSUME NEW n \in Tree, ~NotEntered(n)
  PROVE  \A k \in 1..Len(n.kids) :
           /\ CountFirst(n, k) = 1 + Before(Counts(n))[k - 1] + Labels(n)
           /\ CountFirst(n, k) \in Nat /\ CountFirst(n, k) > Labels(n)
           /\ CountFirst(n, k) + Counted[n.kids[k]] <= Counted[n]
           /\ Counted[n.kids[k]] \in Nat /\ Counted[n.kids[k]] > 0
           /\ \A j \in k + 1..Len(n.kids) : CountFirst(n, k) + Counted[n.kids[k]] + Labels(n) <= CountFirst(n, j)
           /\ \A at \in Nat : Starts(n, at, Counts(n))[k] = at + CountFirst(n, k)
<1> DEFINE w == Counts(n)
           z == [k \in DOMAIN n.kids |-> Counted[n.kids[k]]]
<1>1. DOMAIN n.kids = 1..Len(n.kids)
  BY TreeKids
<1>2. \A k \in 1..Len(n.kids) : z[k] = Counted[n.kids[k]]
  BY <1>1
<1> HIDE DEF z
<1>3. /\ w \in Seq(Nat) /\ Len(w) = Len(n.kids) /\ Counted[n] = 1 + Total(w)
      /\ \A k \in 1..Len(n.kids) : w[k] = Labels(n) + z[k] /\ z[k] \in Nat /\ z[k] > 0
  BY <1>2, CountsDef
<1> HIDE DEF w
<1>4. \A k \in 1..Len(n.kids) :
           /\ Starts(n, 0, w)[k] = 1 + Before(w)[k - 1] + Labels(n) /\ Before(w)[k - 1] \in Nat
           /\ Starts(n, 0, w)[k] \in Nat /\ Starts(n, 0, w)[k] > Labels(n)
           /\ Starts(n, 0, w)[k] + z[k] <= 1 + Total(w)
           /\ \A j \in k + 1..Len(n.kids) : Starts(n, 0, w)[k] + z[k] + Labels(n) <= Starts(n, 0, w)[j]
           /\ \A at \in Nat : Starts(n, at, w)[k] = at + Starts(n, 0, w)[k]
  BY <1>3, StartsAre
<1> QED BY <1>2, <1>3, <1>4 DEF w, CountFirst

\* The rows of a child are those of the tree from where the child starts.
LEMMA RowsDef ==
  ASSUME NEW n \in Tree
  PROVE  /\ Row(n, 0) = RowOf(n, No, Shown(n))
         /\ \A k \in 1..Len(n.kids) :
              /\ \A q \in 0..Size[n.kids[k]] - 1 : Row(n, First(n, k) + q) = Row(n.kids[k], q)
              /\ n.kind = "If" => Row(n, First(n, k) - 1) = RowOf(n, Yes, {})
<1> DEFINE s == Blocks(n)
           t == FlattenSeq(s)
<1>1. DOMAIN n.kids = 1..Len(n.kids) /\ \A k \in 1..Len(n.kids) : n.kids[k] \in Tree
  BY TreeKids
<1>2. /\ s \in Seq(Seq(RowType)) /\ Len(s) = Len(n.kids) /\ Lengths(s) = Sizes(n)
      /\ \A k \in 1..Len(n.kids) : s[k] = LabelRow(n) \o Rows[n.kids[k]]
  BY <1>1, RowsType, BlocksDef
<1>3. Rows[n] = NodeRow(n) \o t
  BY RowsIs DEF Blocks
<1> HIDE DEF s
<1>4. /\ t \in Seq(RowType)
      /\ \A k \in 1..Len(s) : \A j \in 1..Len(s[k]) : t[Before(Sizes(n))[k - 1] + j] = s[k][j]
      /\ Len(t) = Total(Sizes(n))
  BY <1>2, Flattened
<1> HIDE DEF t
<1>5. Row(n, 0) = RowOf(n, No, Shown(n))
  <2>1. 0 + 1 = 1 /\ 1 \in 1..1
    OBVIOUS
  <2>2. Rows[n][1] = NodeRow(n)[1]
    BY <1>3, <1>4, <2>1, NodeRowDef, LabelRowDef, Concatenated
  <2> QED BY <2>1, <2>2, NodeRowDef, LabelRowDef DEF Row
<1>6. ASSUME NEW k \in 1..Len(n.kids), NEW j \in 1..Labels(n) + Size[n.kids[k]]
      PROVE  Rows[n][1 + (Before(Sizes(n))[k - 1] + j)] = s[k][j]
  <2>1. Before(Sizes(n))[k - 1] \in Nat /\ First(n, k) = 1 + Before(Sizes(n))[k - 1] + Labels(n)
        /\ First(n, k) + Size[n.kids[k]] <= Size[n] /\ Size[n.kids[k]] \in Nat
    BY FirstDef
  <2>2. Len(s[k]) = Labels(n) + Size[n.kids[k]]
    <3> DEFINE c == Rows[n.kids[k]]
    <3>1. s[k] = LabelRow(n) \o c
      BY <1>2
    <3>2. c \in Seq(RowType)
      BY <1>1, RowsType
    <3>3. Len(c) = Size[n.kids[k]]
      BY <1>1, RowsType
    <3> HIDE DEF c
    <3>4. Len(LabelRow(n) \o c) = Labels(n) + Len(c)
      BY <3>2, BlockOf
    <3> QED BY <3>1, <3>3, <3>4
  <2> DEFINE i == Before(Sizes(n))[k - 1] + j
  <2>3. t[i] = s[k][j]
    BY <1>2, <1>4, <2>2
  <2>a. Labels(n) \in Nat
    BY LabelsType
  <2>4. Labels(n) \in Nat /\ Size[n] = 1 + Total(Sizes(n)) /\ Total(Sizes(n)) \in Nat
    BY <2>a, SizesDef
  <2>5. i \in 1..Len(t)
    <3> DEFINE b == Before(Sizes(n))[k - 1]
               f == First(n, k)
               z == Size[n.kids[k]]
               l == Labels(n)
    <3>1. b \in Nat /\ f = 1 + b + l /\ f + z <= 1 + Len(t) /\ z \in Nat /\ l \in Nat /\ Len(t) \in Nat
          /\ j \in 1..l + z /\ i = b + j
      BY <1>4, <2>1, <2>4
    <3> HIDE DEF b, f, z, l, i
    <3> QED BY <3>1
  <2> HIDE DEF i
  <2>6. Rows[n][1 + i] = t[i]
    <3>1. NodeRow(n) \in Seq(RowType) /\ t \in Seq(RowType)
      BY <1>4, NodeRowDef
    <3>2. (NodeRow(n) \o t)[Len(NodeRow(n)) + i] = t[i]
      BY <2>5, <3>1, Concatenated
    <3>3. Len(NodeRow(n)) = 1
      BY NodeRowDef
    <3> QED BY <1>3, <3>2, <3>3
  <2> QED BY <2>3, <2>6 DEF i
<1> SUFFICES ASSUME NEW k \in 1..Len(n.kids)
             PROVE  /\ \A q \in 0..Size[n.kids[k]] - 1 : Row(n, First(n, k) + q) = Row(n.kids[k], q)
                    /\ n.kind = "If" => Row(n, First(n, k) - 1) = RowOf(n, Yes, {})
  BY <1>5
<1> DEFINE b == Before(Sizes(n))[k - 1]
           f == First(n, k)
           z == Size[n.kids[k]]
           l == Labels(n)
<1>8. b \in Nat /\ f = 1 + b + l /\ l \in Nat /\ z \in Nat /\ z > 0
  <2>1. l \in Nat
    BY LabelsType
  <2> QED BY <2>1, FirstDef
<1>9. ASSUME NEW q \in 0..z - 1 PROVE Row(n, f + q) = Row(n.kids[k], q)
  <2>1. /\ l + (q + 1) \in 1..l + z /\ 1 + (b + (l + (q + 1))) = (f + q) + 1
        /\ q + 1 \in 1..z
    <3> HIDE DEF b, f, z, l
    <3> QED BY <1>8
  <2>2. Rows[n][1 + (b + (l + (q + 1)))] = s[k][l + (q + 1)]
    BY <1>6, <2>1
  <2>3. s[k][l + (q + 1)] = Rows[n.kids[k]][q + 1]
    <3>1. Rows[n.kids[k]] \in Seq(RowType) /\ Len(Rows[n.kids[k]]) = z
      BY <1>1, RowsType
    <3> DEFINE c == Rows[n.kids[k]]
    <3>2. s[k] = LabelRow(n) \o c
      BY <1>2
    <3>3. c \in Seq(RowType)
      BY <3>1
    <3>4. q + 1 \in 1..Len(c)
      BY <2>1, <3>1
    <3> HIDE DEF c
    <3>5. (LabelRow(n) \o c)[Labels(n) + (q + 1)] = c[q + 1]
      BY <3>3, <3>4, BlockOf
    <3> QED BY <3>2, <3>5 DEF c
  <2> QED BY <2>1, <2>2, <2>3 DEF Row
<1>10. ASSUME n.kind = "If" PROVE Row(n, f - 1) = RowOf(n, Yes, {})
  <2>1. l = 1
    BY <1>10 DEF Labels
  <2>2. 1 \in 1..l + z /\ 1 + (b + 1) = (f - 1) + 1
    <3> HIDE DEF b, f, z, l
    <3> QED BY <1>8, <2>1
  <2>3. Rows[n][1 + (b + 1)] = s[k][1]
    BY <1>6, <2>2
  <2>4. s[k][1] = RowOf(n, Yes, {})
    <3>1. Rows[n.kids[k]] \in Seq(RowType)
      BY <1>1, RowsType
    <3> DEFINE c == Rows[n.kids[k]]
    <3>2. s[k] = LabelRow(n) \o c
      BY <1>2
    <3> HIDE DEF c
    <3>3. (LabelRow(n) \o c)[1] = RowOf(n, Yes, {})
      BY <1>10, <3>1, BlockOf DEF c
    <3> QED BY <3>2, <3>3
  <2> QED BY <2>2, <2>3, <2>4 DEF Row
<1> QED BY <1>9, <1>10

\* Position p of n is position q of its child k.
Within(n, p, k, q) == k \in 1..Len(n.kids) /\ q \in 0..Size[n.kids[k]] - 1 /\ p = First(n, k) + q

\* A row is that of the node, or in a child, or the label of a child.
LEMMA RowPlace ==
  ASSUME NEW n \in Tree, NEW p \in 0..Size[n] - 1, p # 0
  PROVE  \/ \E k, q : Within(n, p, k, q)
         \/ n.kind = "If" /\ \E k \in 1..Len(n.kids) : p = First(n, k) - 1
<1> DEFINE w == Sizes(n)
<1>1. w \in Seq(Nat) /\ Len(w) = Len(n.kids) /\ Size[n] = 1 + Total(w) /\ Total(w) \in Nat
  BY SizesDef
<1>2. p - 1 \in Nat /\ p - 1 < Total(w)
  BY <1>1
<1>3. PICK k \in 1..Len(w) : Before(w)[k - 1] <= p - 1 /\ p - 1 < Before(w)[k]
  BY <1>1, <1>2, Locate
<1> DEFINE b == Before(w)[k - 1]
           f == First(n, k)
           l == Labels(n)
           z == Size[n.kids[k]]
<1>4. k \in 1..Len(n.kids)
  BY <1>1
<1>5. f = 1 + b + l /\ b \in Nat /\ z \in Nat
  BY <1>4, FirstDef
<1>6. w[k] = l + z
  BY <1>4, SizesDef
<1>7. Before(w)[k] = b + w[k]
  BY <1>1, BeforeStep
<1>8. b <= p - 1 /\ p - 1 < b + (l + z)
  BY <1>3, <1>6, <1>7
<1>9. l = 0 \/ (l = 1 /\ n.kind = "If")
  BY DEF Labels
<1> HIDE DEF b, f, l, z, w
<1>10. (p = f - 1 /\ l = 1) \/ (p - f \in 0..z - 1 /\ p = f + (p - f))
  BY <1>2, <1>5, <1>8, <1>9, SMTT(30)
<1>11. CASE p = f - 1 /\ l = 1
  BY <1>4, <1>9, <1>11 DEF f
<1>12. CASE p - f \in 0..z - 1 /\ p = f + (p - f)
  <2>1. Within(n, p, k, p - f)
    BY <1>4, <1>12 DEF Within, f, z
  <2> QED BY <2>1
<1> QED BY <1>10, <1>11, <1>12

-----------------------------------------------------------------------------
(* The nodes of a tree and their names.                                    *)

\* The nodes of a tree are the root and those of the children,
LEMMA BelowDef ==
  ASSUME NEW n \in Tree
  PROVE  /\ n \in Below[n]
         /\ \A k \in DOMAIN n.kids : \A m \in Below[n.kids[k]] : m \in Below[n]
         /\ \A m \in Below[n] : m = n \/ \E k \in DOMAIN n.kids : m \in Below[n.kids[k]]
<1>1. Below[n] = {n} \union UNION {Below[n.kids[k]] : k \in DOMAIN n.kids}
  BY BelowIs
<1> QED BY <1>1

\* and so are the names.
LEMMA IdsDef ==
  ASSUME NEW n \in Tree
  PROVE  /\ n.id \in Ids(n)
         /\ \A k \in DOMAIN n.kids : \A x \in Ids(n.kids[k]) : x \in Ids(n)
         /\ \A x \in Ids(n) : x = n.id \/ \E k \in DOMAIN n.kids : x \in Ids(n.kids[k])
<1>1. ASSUME NEW x \in Ids(n) PROVE x = n.id \/ \E k \in DOMAIN n.kids : x \in Ids(n.kids[k])
  <2>1. PICK m \in Below[n] : x = m.id
    BY <1>1 DEF Ids
  <2>2. m = n \/ \E k \in DOMAIN n.kids : m \in Below[n.kids[k]]
    BY BelowDef
  <2> QED BY <2>1, <2>2 DEF Ids
<1> QED BY <1>1, BelowDef DEF Ids

LEMMA BelowType == \A n \in Tree : Below[n] \subseteq Tree /\ Ids(n) \subseteq Nat
<1> DEFINE S == {n \in Tree : Below[n] \subseteq Tree}
<1>1. ASSUME NEW n \in Tree, \A k \in DOMAIN n.kids : n.kids[k] \in S PROVE n \in S
  BY <1>1, BelowDef
<1>2. Tree \subseteq S
  <2> HIDE DEF S
  <2> QED BY <1>1, TreeInduction
<1>3. ASSUME NEW n \in Tree, NEW m \in Below[n] PROVE m.id \in Nat
  BY <1>2, TreeKids
<1> QED BY <1>2, <1>3 DEF Ids

\* A tree is well-formed if its root and its children are.
LEMMA WellFormedDef ==
  ASSUME NEW n \in Tree
  PROVE  WellFormed(n) <=> WellShaped(n) /\ Apart(n) /\ \A k \in DOMAIN n.kids : WellFormed(n.kids[k])
  BY BelowDef DEF WellFormed

LEMMA BelowTrans == \A n \in Tree : \A m \in Below[n] : Below[m] \subseteq Below[n] /\ Ids(m) \subseteq Ids(n)
<1> DEFINE S == {n \in Tree : \A m \in Below[n] : Below[m] \subseteq Below[n]}
<1>1. ASSUME NEW n \in Tree, \A k \in DOMAIN n.kids : n.kids[k] \in S PROVE n \in S
  <2> SUFFICES ASSUME NEW m \in Below[n] PROVE Below[m] \subseteq Below[n]
    OBVIOUS
  <2>1. CASE m = n
    BY <2>1
  <2>2. ASSUME NEW k \in DOMAIN n.kids, m \in Below[n.kids[k]] PROVE Below[m] \subseteq Below[n]
    BY <1>1, <2>2, BelowDef
  <2> QED BY <2>1, <2>2, BelowDef
<1>2. Tree \subseteq S
  <2> HIDE DEF S
  <2> QED BY <1>1, TreeInduction
<1> QED BY <1>2 DEF Ids

\* The children of a node have no name in common.
LEMMA ApartDef ==
  ASSUME NEW n \in Tree, Apart(n), NEW i \in DOMAIN n.kids
  PROVE  /\ n.id \notin Ids(n.kids[i])
         /\ \A j \in DOMAIN n.kids : i # j => Ids(n.kids[i]) \intersect Ids(n.kids[j]) = {}
<1>1. DOMAIN n.kids = 1..Len(n.kids) /\ Len(n.kids) \in Nat
  BY TreeKids
<1>2. ASSUME NEW j \in DOMAIN n.kids, i # j PROVE Ids(n.kids[i]) \intersect Ids(n.kids[j]) = {}
  <2>1. j \in 1..i - 1 \/ i \in 1..j - 1
    BY <1>1, <1>2
  <2> QED BY <2>1 DEF Apart
<1> QED BY <1>2 DEF Apart

\* A name is that of one node.
LEMMA UniqueIds ==
  \A n \in Tree : WellFormed(n) => \A x \in Below[n], y \in Below[n] : x.id = y.id => x = y
<1> DEFINE S == {n \in Tree : WellFormed(n) => \A x \in Below[n], y \in Below[n] : x.id = y.id => x = y}
<1>1. ASSUME NEW n \in Tree, \A k \in DOMAIN n.kids : n.kids[k] \in S PROVE n \in S
  <2> SUFFICES ASSUME WellFormed(n), NEW x \in Below[n], NEW y \in Below[n], x.id = y.id PROVE x = y
    OBVIOUS
  <2>1. Apart(n) /\ \A k \in DOMAIN n.kids : WellFormed(n.kids[k])
    BY WellFormedDef
  <2>2. \A k \in DOMAIN n.kids : \A m \in Below[n.kids[k]] : m.id \in Ids(n.kids[k]) /\ m.id # n.id
    BY <2>1, ApartDef DEF Ids
  <2>3. ASSUME NEW i \in DOMAIN n.kids, NEW j \in DOMAIN n.kids, x \in Below[n.kids[i]], y \in Below[n.kids[j]]
        PROVE  x = y
    <3>1. i = j
      BY <2>1, <2>2, <2>3, ApartDef
    <3> QED BY <1>1, <2>1, <2>3, <3>1
  <2> QED BY <2>2, <2>3, BelowDef
<1>2. Tree \subseteq S
  <2> HIDE DEF S
  <2> QED BY <1>1, TreeInduction
<1> QED BY <1>2

\* A row is that of a node of the tree,
LEMMA RowIds == \A n \in Tree : \A p \in 0..Size[n] - 1 : Row(n, p).id \in Ids(n)
<1> DEFINE S == {n \in Tree : \A p \in 0..Size[n] - 1 : Row(n, p).id \in Ids(n)}
<1>1. ASSUME NEW n \in Tree, \A k \in DOMAIN n.kids : n.kids[k] \in S PROVE n \in S
  <2> SUFFICES ASSUME NEW p \in 0..Size[n] - 1 PROVE Row(n, p).id \in Ids(n)
    OBVIOUS
  <2>d. DOMAIN n.kids = 1..Len(n.kids)
    BY TreeKids
  <2>1. CASE p = 0
    <3>1. Row(n, p).id = n.id
      <4>1. Row(n, 0) = RowOf(n, No, Shown(n))
        BY RowsDef
      <4>2. RowOf(n, No, Shown(n)).id = n.id
        BY DEF RowOf
      <4> QED BY <2>1, <4>1, <4>2
    <3> QED BY <3>1, IdsDef
  <2>2. ASSUME NEW k, NEW q, Within(n, p, k, q) PROVE Row(n, p).id \in Ids(n)
    <3>1. k \in DOMAIN n.kids /\ q \in 0..Size[n.kids[k]] - 1 /\ Row(n, p) = Row(n.kids[k], q)
      BY <2>2, <2>d, RowsDef DEF Within
    <3>2. Row(n.kids[k], q).id \in Ids(n.kids[k])
      BY <1>1, <3>1
    <3> QED BY <3>1, <3>2, IdsDef
  <2>3. ASSUME n.kind = "If", NEW k \in 1..Len(n.kids), p = First(n, k) - 1 PROVE Row(n, p).id \in Ids(n)
    <3>1. Row(n, p) = RowOf(n, Yes, {})
      BY <2>3, RowsDef
    <3>2. Row(n, p).id = n.id
      BY <3>1 DEF RowOf
    <3> QED BY <3>2, IdsDef
  <2> QED BY <2>1, <2>2, <2>3, RowPlace
<1>2. Tree \subseteq S
  <2> HIDE DEF S
  <2> QED BY <1>1, TreeInduction
<1> QED BY <1>2

\* and each node has one.
LEMMA HasRow == \A n \in Tree : \A m \in Below[n] : \E p \in 0..Size[n] - 1 : Row(n, p).id = m.id
<1> DEFINE S == {n \in Tree : \A m \in Below[n] : \E p \in 0..Size[n] - 1 : Row(n, p).id = m.id}
<1>1. ASSUME NEW n \in Tree, \A k \in DOMAIN n.kids : n.kids[k] \in S PROVE n \in S
  <2> SUFFICES ASSUME NEW m \in Below[n] PROVE \E p \in 0..Size[n] - 1 : Row(n, p).id = m.id
    OBVIOUS
  <2>d. DOMAIN n.kids = 1..Len(n.kids)
    BY TreeKids
  <2>0. Size[n] \in Nat /\ Size[n] > 0
    BY SizeType
  <2>1. CASE m = n
    <3>1. Row(n, 0).id = n.id
      <4>1. Row(n, 0) = RowOf(n, No, Shown(n))
        BY RowsDef
      <4>2. RowOf(n, No, Shown(n)).id = n.id
        BY DEF RowOf
      <4> QED BY <4>1, <4>2
    <3>2. 0 \in 0..Size[n] - 1
      BY <2>0
    <3> QED BY <2>1, <3>1, <3>2
  <2>2. ASSUME NEW k \in DOMAIN n.kids, m \in Below[n.kids[k]] PROVE \E p \in 0..Size[n] - 1 : Row(n, p).id = m.id
    <3>1. PICK q \in 0..Size[n.kids[k]] - 1 : Row(n.kids[k], q).id = m.id
      BY <1>1, <2>2
    <3>2. k \in 1..Len(n.kids)
      BY <2>d
    <3>3. Row(n, First(n, k) + q) = Row(n.kids[k], q)
      BY <3>2, RowsDef
    <3>4. First(n, k) \in Nat /\ First(n, k) + Size[n.kids[k]] <= Size[n] /\ Size[n.kids[k]] \in Nat
      BY <3>2, FirstDef
    <3>5. First(n, k) + q \in 0..Size[n] - 1
      BY <2>0, <3>4
    <3> QED BY <3>1, <3>3, <3>5
  <2> QED BY <2>1, <2>2, BelowDef
<1>2. Tree \subseteq S
  <2> HIDE DEF S
  <2> QED BY <1>1, TreeInduction
<1> QED BY <1>2

\* A node whose children are replaced by themselves.
LEMMA SameTree ==
  ASSUME NEW n \in Tree, NEW ks, ks = [k \in DOMAIN n.kids |-> ks[k]], \A k \in DOMAIN n.kids : ks[k] = n.kids[k]
  PROVE  ks = n.kids /\ WithKids(n, ks) = n
<1>1. n = [kind |-> n.kind, id |-> n.id, cfg |-> n.cfg, kids |-> n.kids] /\ n.kids = [k \in DOMAIN n.kids |-> n.kids[k]]
  BY TreeKids
<1>2. ks = n.kids
  BY <1>1
<1>3. [n EXCEPT !.kids = n.kids] = n
  BY <1>1
<1> QED BY <1>2, <1>3 DEF WithKids

-----------------------------------------------------------------------------
(* Positions up to the first ForEach.                                      *)

\* No ForEach in a tree,
Loopless(n) == \A m \in Below[n] : m.kind # "ForEach"

\* and none before a position.
Steady(n, p) == \A q \in 0..p - 1 : Row(n, q).id \notin Loops(n)

\* Without a ForEach all walks count the rows.
LEMMA LooplessCount == \A n \in Tree : Loopless(n) => Counted[n] = Size[n]
<1> DEFINE S == {n \in Tree : Loopless(n) => Counted[n] = Size[n]}
<1>1. ASSUME NEW n \in Tree, \A k \in DOMAIN n.kids : n.kids[k] \in S PROVE n \in S
  <2> SUFFICES ASSUME Loopless(n) PROVE Counted[n] = Size[n]
    OBVIOUS
  <2>1. ~NotEntered(n) /\ \A k \in DOMAIN n.kids : Loopless(n.kids[k])
    BY BelowDef DEF Loopless, NotEntered
  <2>2. \A k \in DOMAIN n.kids : Counted[n.kids[k]] = Size[n.kids[k]]
    BY <1>1, <2>1
  <2>3. Counts(n) = Sizes(n)
    BY <2>2 DEF Counts, Sizes
  <2>4. Counted[n] = 1 + Total(Counts(n))
    BY <2>1, CountsDef
  <2>5. Size[n] = 1 + Total(Sizes(n))
    BY SizesDef
  <2> QED BY <2>3, <2>4, <2>5
<1>2. Tree \subseteq S
  <2> HIDE DEF S
  <2> QED BY <1>1, TreeInduction
<1> QED BY <1>2

LEMMA LoopsOfKids ==
  ASSUME NEW n \in Tree, NEW k \in DOMAIN n.kids
  PROVE  Loops(n.kids[k]) \subseteq Loops(n)
  BY BelowDef DEF Loops

\* The children before such a position take as much as their rows.
LEMMA SteadyFirst ==
  ASSUME NEW n \in Tree, NEW p \in 0..Size[n] - 1, Steady(n, p),
         NEW k \in 1..Len(n.kids), First(n, k) - Labels(n) <= p
  PROVE  ~NotEntered(n) /\ CountFirst(n, k) = First(n, k)
<1>0. DOMAIN n.kids = 1..Len(n.kids) /\ Len(n.kids) \in Nat /\ Labels(n) \in Nat
  <2>1. Labels(n) \in Nat
    BY LabelsType
  <2> QED BY <2>1, TreeKids
<1>1. First(n, k) \in Nat /\ First(n, k) > Labels(n)
  BY FirstDef
<1>2. p > 0 /\ p \in Nat
  <2>1. Size[n] \in Nat
    BY SizeType
  <2> QED BY <1>0, <1>1, <2>1
<1>3. ~NotEntered(n)
  <2> SUFFICES ASSUME n.kind = "ForEach" PROVE FALSE
    BY DEF NotEntered
  <2>1. Row(n, 0) = RowOf(n, No, Shown(n))
    BY RowsDef
  <2>2. Row(n, 0).id = n.id
    BY <2>1 DEF RowOf
  <2>3. n.id \in Loops(n)
    BY BelowDef DEF Loops
  <2>4. 0 \in 0..p - 1
    BY <1>2
  <2> QED BY <2>2, <2>3, <2>4 DEF Steady
<1>4. ASSUME NEW j \in 1..k - 1 PROVE Loopless(n.kids[j])
  <2> SUFFICES ASSUME NEW m \in Below[n.kids[j]], m.kind = "ForEach" PROVE FALSE
    BY DEF Loopless
  <2>1. j \in 1..Len(n.kids) /\ j \in DOMAIN n.kids /\ k \in j + 1..Len(n.kids) /\ n.kids[j] \in Tree
    <3>1. j \in 1..Len(n.kids) /\ k \in j + 1..Len(n.kids)
      BY <1>0
    <3> QED BY <1>0, <3>1, TreeKids
  <2>2. PICK r \in 0..Size[n.kids[j]] - 1 : Row(n.kids[j], r).id = m.id
    BY <2>1, HasRow
  <2>3. Row(n, First(n, j) + r) = Row(n.kids[j], r)
    BY <2>1, RowsDef
  <2>4. /\ First(n, j) + Size[n.kids[j]] + Labels(n) <= First(n, k)
        /\ First(n, j) \in Nat /\ Size[n.kids[j]] \in Nat
    BY <2>1, FirstDef
  <2>5. First(n, j) + r \in 0..p - 1
    <3> DEFINE f == First(n, j)
               g == First(n, k)
               l == Labels(n)
               z == Size[n.kids[j]]
    <3>1. /\ f + z + l <= g /\ f \in Nat /\ z \in Nat /\ g \in Nat /\ l \in Nat /\ g - l <= p
          /\ r \in 0..z - 1
      BY <1>0, <1>1, <2>4
    <3> HIDE DEF f, g, l, z
    <3>2. f + r \in 0..p - 1
      BY <1>2, <3>1
    <3> QED BY <3>2 DEF f
  <2>6. m.id \in Loops(n)
    BY <2>1, BelowDef DEF Loops
  <2> QED BY <2>2, <2>3, <2>5, <2>6 DEF Steady
<1>5. ASSUME NEW j \in 1..k - 1 PROVE Counts(n)[j] = Sizes(n)[j]
  <2>1. j \in 1..Len(n.kids) /\ n.kids[j] \in Tree
    <3>1. j \in 1..Len(n.kids)
      BY <1>0
    <3> QED BY <1>0, <3>1, TreeKids
  <2>2. Counted[n.kids[j]] = Size[n.kids[j]]
    BY <1>4, <2>1, LooplessCount
  <2>3. Counts(n)[j] = Labels(n) + Counted[n.kids[j]]
    BY <2>1, CountsDef
  <2>4. Sizes(n)[j] = Labels(n) + Size[n.kids[j]]
    BY <2>1, SizesDef
  <2> QED BY <2>2, <2>3, <2>4
<1>6. Before(Counts(n))[k - 1] = Before(Sizes(n))[k - 1]
  <2> DEFINE v == Counts(n)
             w == Sizes(n)
             m == k - 1
  <2>1. v \in Seq(Nat) /\ w \in Seq(Nat) /\ Len(v) = Len(n.kids) /\ Len(w) = Len(n.kids)
    BY CountsDef, SizesDef
  <2>2. m \in Nat /\ m <= Len(n.kids) /\ m \in 0..m
    BY <1>0
  <2>3. \A j \in 1..m : v[j] = w[j]
    BY <1>5
  <2> HIDE DEF v, w, m
  <2>4. Before(v)[m] = Before(w)[m]
    BY <2>1, <2>2, <2>3, BeforeSame
  <2> QED BY <2>4 DEF v, w, m
<1>7. First(n, k) = 1 + Before(Sizes(n))[k - 1] + Labels(n)
  BY FirstDef
<1>8. CountFirst(n, k) = 1 + Before(Counts(n))[k - 1] + Labels(n)
  BY <1>3, CountFirstDef
<1> QED BY <1>3, <1>6, <1>7, <1>8

\* Such a position is one of the child that it is in.
LEMMA SteadyKid ==
  ASSUME NEW n \in Tree, NEW p \in 0..Size[n] - 1, Steady(n, p), NEW k, NEW q, Within(n, p, k, q)
  PROVE  Steady(n.kids[k], q)
<1>1. k \in 1..Len(n.kids) /\ k \in DOMAIN n.kids /\ q \in 0..Size[n.kids[k]] - 1 /\ p = First(n, k) + q
  BY TreeKids DEF Within
<1>2. First(n, k) \in Nat /\ Size[n.kids[k]] \in Nat
  BY <1>1, FirstDef
<1> SUFFICES ASSUME NEW r \in 0..q - 1 PROVE Row(n.kids[k], r).id \notin Loops(n.kids[k])
  BY DEF Steady
<1>3. r \in 0..Size[n.kids[k]] - 1 /\ First(n, k) + r \in 0..p - 1
  <2> DEFINE f == First(n, k)
             z == Size[n.kids[k]]
  <2>1. f \in Nat /\ z \in Nat /\ q \in 0..z - 1 /\ p = f + q /\ r \in 0..q - 1
    BY <1>1, <1>2
  <2> HIDE DEF f, z
  <2>2. r \in 0..z - 1 /\ f + r \in 0..p - 1
    BY <2>1
  <2> QED BY <2>2 DEF f, z
<1>4. Row(n, First(n, k) + r) = Row(n.kids[k], r)
  BY <1>1, <1>3, RowsDef
<1> QED BY <1>1, <1>3, <1>4, LoopsOfKids DEF Steady

\* They are positions of the walks that do not look into a ForEach, too.
LEMMA SteadyCount == \A n \in Tree : \A p \in 0..Size[n] - 1 : Steady(n, p) => p < Counted[n]
<1> DEFINE S == {n \in Tree : \A p \in 0..Size[n] - 1 : Steady(n, p) => p < Counted[n]}
<1>1. ASSUME NEW n \in Tree, \A k \in DOMAIN n.kids : n.kids[k] \in S PROVE n \in S
  <2> SUFFICES ASSUME NEW p \in 0..Size[n] - 1, Steady(n, p) PROVE p < Counted[n]
    OBVIOUS
  <2>0. DOMAIN n.kids = 1..Len(n.kids)
    BY TreeKids
  <2>1. CASE p = 0
    BY <2>1, CountedType
  <2>2. ASSUME NEW k, NEW q, Within(n, p, k, q) PROVE p < Counted[n]
    <3>1. k \in 1..Len(n.kids) /\ k \in DOMAIN n.kids /\ q \in 0..Size[n.kids[k]] - 1 /\ p = First(n, k) + q
      BY <2>0, <2>2 DEF Within
    <3>2. q < Counted[n.kids[k]]
      <4>1. Steady(n.kids[k], q)
        BY <2>2, SteadyKid
      <4> QED BY <1>1, <3>1, <4>1
    <3>3. First(n, k) - Labels(n) <= p
      <4>1. First(n, k) \in Nat /\ Size[n.kids[k]] \in Nat
        BY <3>1, FirstDef
      <4>2. Labels(n) \in Nat
        BY LabelsType
      <4> QED BY <3>1, <4>1, <4>2
    <3>4. ~NotEntered(n) /\ CountFirst(n, k) = First(n, k)
      BY <3>1, <3>3, SteadyFirst
    <3>5. CountFirst(n, k) \in Nat /\ CountFirst(n, k) + Counted[n.kids[k]] <= Counted[n] /\ Counted[n.kids[k]] \in Nat
      BY <3>1, <3>4, CountFirstDef
    <3>6. Counted[n] \in Nat /\ Size[n.kids[k]] \in Nat
      BY <3>1, CountedType, FirstDef
    <3> QED BY <3>1, <3>2, <3>4, <3>5, <3>6
  <2>3. ASSUME n.kind = "If", NEW k \in 1..Len(n.kids), p = First(n, k) - 1 PROVE p < Counted[n]
    <3>1. Labels(n) = 1
      BY <2>3 DEF Labels
    <3>2. ~NotEntered(n) /\ CountFirst(n, k) = First(n, k)
      BY <2>3, <3>1, SteadyFirst
    <3>3. CountFirst(n, k) \in Nat /\ CountFirst(n, k) + Counted[n.kids[k]] <= Counted[n] /\ Counted[n.kids[k]] \in Nat
      BY <3>2, CountFirstDef
    <3>4. Counted[n] \in Nat
      BY CountedType
    <3> QED BY <2>3, <3>2, <3>3, <3>4
  <2> QED BY <2>1, <2>2, <2>3, RowPlace
<1>2. Tree \subseteq S
  <2> HIDE DEF S
  <2> QED BY <1>1, TreeInduction
<1> QED BY <1>2

-----------------------------------------------------------------------------
(* The update of a row.                                                    *)

\* What the walk does below a node.
KidsUpdated(n, at, pos, cfg) ==
  [k \in DOMAIN n.kids |-> Updating(pos, cfg)[n.kids[k]][Starts(n, at, Counts(n))[k]]]

WithCfg(n, cfg) == [n EXCEPT !.cfg = cfg]

\* The update of a node, in terms of that of its children.
LEMMA UpdatingDef ==
  ASSUME NEW pos, NEW cfg, NEW n \in Tree, NEW at \in Nat
  PROVE  Updating(pos, cfg)[n][at]
           = IF HasSettings(n) /\ at = pos THEN WithCfg(n, cfg)
             ELSE IF NotEntered(n) THEN n
             ELSE WithKids(n, KidsUpdated(n, at, pos, cfg))
<1> DEFINE U == Updating(pos, cfg)
           Body(m, a) ==
             IF HasSettings(m) /\ a = pos THEN [m EXCEPT !.cfg = cfg]
             ELSE IF NotEntered(m) THEN m
             ELSE LET from == Starts(m, a, Counts(m))
                  IN  [m EXCEPT !.kids = [k \in DOMAIN m.kids |-> U[m.kids[k]][from[k]]]]
<1>1. U = [m \in Tree |-> [a \in Nat |-> Body(m, a)]]
  BY UpdatingIs
<1>2. Body(n, at) = IF HasSettings(n) /\ at = pos THEN WithCfg(n, cfg)
                    ELSE IF NotEntered(n) THEN n
                    ELSE WithKids(n, KidsUpdated(n, at, pos, cfg))
  BY DEF KidsUpdated, WithKids, WithCfg
<1> HIDE DEF Body, U
<1>3. U[n][at] = Body(n, at)
  BY <1>1
<1> QED BY <1>2, <1>3 DEF U

LEMMA UpdatingHit ==
  ASSUME NEW cfg, NEW n \in Tree, NEW at \in Nat, HasSettings(n)
  PROVE  Updating(at, cfg)[n][at] = WithCfg(n, cfg)
  BY UpdatingDef

LEMMA UpdatingStops ==
  ASSUME NEW pos, NEW cfg, NEW n \in Tree, NEW at \in Nat, ~HasSettings(n) \/ at # pos, NotEntered(n)
  PROVE  Updating(pos, cfg)[n][at] = n
  BY UpdatingDef

LEMMA UpdatingDown ==
  ASSUME NEW pos, NEW cfg, NEW n \in Tree, NEW at \in Nat, ~HasSettings(n) \/ at # pos, ~NotEntered(n)
  PROVE  Updating(pos, cfg)[n][at] = WithKids(n, KidsUpdated(n, at, pos, cfg))
  BY UpdatingDef

LEMMA KidsUpdatedDef ==
  ASSUME NEW pos, NEW cfg, NEW n \in Tree, ~NotEntered(n), NEW at \in Nat
  PROVE  \A k \in DOMAIN n.kids :
           KidsUpdated(n, at, pos, cfg)[k] = Updating(pos, cfg)[n.kids[k]][at + CountFirst(n, k)]
<1>1. \A k \in DOMAIN n.kids : Starts(n, at, Counts(n))[k] = at + CountFirst(n, k)
  BY TreeKids, CountFirstDef
<1> QED BY <1>1 DEF KidsUpdated

\* The walk changes nothing where the position is not.
LEMMA UpdatingAway ==
  ASSUME NEW pos \in Nat, NEW cfg
  PROVE  \A n \in Tree : \A at \in Nat :
           pos < at \/ pos >= at + Counted[n] => Updating(pos, cfg)[n][at] = n
<1> DEFINE S == {n \in Tree : \A at \in Nat :
                   pos < at \/ pos >= at + Counted[n] => Updating(pos, cfg)[n][at] = n}
<1>1. ASSUME NEW n \in Tree, \A k \in DOMAIN n.kids : n.kids[k] \in S PROVE n \in S
  <2> SUFFICES ASSUME NEW at \in Nat, pos < at \/ pos >= at + Counted[n] PROVE Updating(pos, cfg)[n][at] = n
    OBVIOUS
  <2>1. at # pos
    BY CountedType
  <2>2. CASE NotEntered(n)
    BY <2>1, <2>2, UpdatingStops
  <2>3. CASE ~NotEntered(n)
    <3> DEFINE ks == KidsUpdated(n, at, pos, cfg)
    <3>1. Updating(pos, cfg)[n][at] = WithKids(n, ks)
      BY <2>1, <2>3, UpdatingDown
    <3>a. ks = [k \in DOMAIN n.kids |-> ks[k]]
      BY DEF KidsUpdated
    <3>2. \A k \in DOMAIN n.kids : ks[k] = Updating(pos, cfg)[n.kids[k]][at + CountFirst(n, k)]
      BY <2>3, KidsUpdatedDef
    <3> HIDE DEF ks
    <3>3. ASSUME NEW k \in DOMAIN n.kids PROVE ks[k] = n.kids[k]
      <4>1. /\ CountFirst(n, k) \in Nat /\ CountFirst(n, k) + Counted[n.kids[k]] <= Counted[n]
            /\ Counted[n.kids[k]] \in Nat
        BY <2>3, TreeKids, CountFirstDef
      <4>2. Counted[n] \in Nat
        BY CountedType
      <4> DEFINE a == at + CountFirst(n, k)
      <4>3. a \in Nat /\ (pos < a \/ pos >= a + Counted[n.kids[k]])
        BY <4>1, <4>2
      <4> HIDE DEF a
      <4>4. Updating(pos, cfg)[n.kids[k]][a] = n.kids[k]
        BY <1>1, <4>3
      <4> QED BY <3>2, <4>4 DEF a
    <3> QED BY <3>1, <3>a, <3>3, SameTree
  <2> QED BY <2>2, <2>3
<1>2. Tree \subseteq S
  <2> HIDE DEF S
  <2> QED BY <1>1, TreeInduction
<1> QED BY <1>2

-----------------------------------------------------------------------------
(* The settings by name.                                                   *)

LEMMA TreeRecord == \A n \in Tree : n \in [kind : Conditions \union Nodes, id : Nat, cfg : Nat, kids : Seq(Tree)]
  BY TreeKids

LEMMA SettingDef ==
  ASSUME NEW ids, NEW cfg, NEW n \in Tree
  PROVE  /\ n.id \in ids => SettingById(ids, cfg)[n] = [n EXCEPT !.cfg = cfg, !.kids = KidsSet(n, ids, cfg)]
         /\ n.id \notin ids => SettingById(ids, cfg)[n] = WithKids(n, KidsSet(n, ids, cfg))
<1> DEFINE ks == KidsSet(n, ids, cfg)
<1>1. SettingById(ids, cfg)[n] = SetNode(n, ids, cfg, ks)
  BY SettingByIdIs
<1>2. n \in [kind : Conditions \union Nodes, id : Nat, cfg : Nat, kids : Seq(Tree)]
  BY TreeRecord
<1> HIDE DEF ks
<1>3. n.id \in ids => SetNode(n, ids, cfg, ks) = [n EXCEPT !.cfg = cfg, !.kids = ks]
  BY DEF SetNode
<1>4. n.id \notin ids => SetNode(n, ids, cfg, ks) = WithKids(n, ks)
  BY <1>2 DEF SetNode, WithKids
<1> QED BY <1>1, <1>3, <1>4 DEF ks

LEMMA SettingOthers ==
  ASSUME NEW ids, NEW cfg, NEW n \in Tree, n.id \notin ids
  PROVE  SettingById(ids, cfg)[n] = WithKids(n, KidsSet(n, ids, cfg))
  BY SettingDef

\* Names of another tree.
LEMMA SettingAway ==
  ASSUME NEW ids, NEW cfg
  PROVE  \A n \in Tree : ids \intersect Ids(n) = {} => SettingById(ids, cfg)[n] = n
<1> DEFINE S == {n \in Tree : ids \intersect Ids(n) = {} => SettingById(ids, cfg)[n] = n}
<1>1. ASSUME NEW n \in Tree, \A k \in DOMAIN n.kids : n.kids[k] \in S PROVE n \in S
  <2> SUFFICES ASSUME ids \intersect Ids(n) = {} PROVE SettingById(ids, cfg)[n] = n
    OBVIOUS
  <2> DEFINE ks == KidsSet(n, ids, cfg)
  <2>1. n.id \notin ids /\ \A k \in DOMAIN n.kids : ids \intersect Ids(n.kids[k]) = {}
    BY IdsDef
  <2>2. ks = [k \in DOMAIN n.kids |-> ks[k]] /\ \A k \in DOMAIN n.kids : ks[k] = n.kids[k]
    BY <1>1, <2>1 DEF KidsSet
  <2>3. SettingById(ids, cfg)[n] = WithKids(n, ks)
    BY <2>1, SettingOthers
  <2> HIDE DEF ks
  <2> QED BY <2>2, <2>3, SameTree
<1>2. Tree \subseteq S
  <2> HIDE DEF S
  <2> QED BY <1>1, TreeInduction
<1> QED BY <1>2

\* The names that the row of a position gives the settings to.
Hits(n, p) == IF Row(n, p).shown = {} THEN {} ELSE {Row(n, p).id}

\* The update of a row is that of the names of the row, wherever the tree is.
Hit(n, cfg) ==
  \A p \in 0..Size[n] - 1 : Steady(n, p) =>
    \A at \in Nat : Updating(at + p, cfg)[n][at] = SettingById(Hits(n, p), cfg)[n]

\* At the row of the node itself,
LEMMA HitHere ==
  ASSUME NEW cfg, NEW n \in Tree, WellFormed(n), NEW at \in Nat
  PROVE  Updating(at, cfg)[n][at] = SettingById(Hits(n, 0), cfg)[n]
<1>0. Row(n, 0) = RowOf(n, No, Shown(n))
  BY RowsDef
<1>r. Row(n, 0).id = n.id /\ Row(n, 0).shown = Shown(n)
  BY <1>0 DEF RowOf
<1>1. CASE HasSettings(n)
  <2>1. Updating(at, cfg)[n][at] = WithCfg(n, cfg)
    BY <1>1, UpdatingHit
  <2>2. Hits(n, 0) = {n.id}
    BY <1>1, <1>r DEF Hits, Shown
  <2>3. Len(n.kids) = 0
    BY <1>1, WellFormedDef DEF HasSettings, WellShaped, Leaves
  <2> DEFINE ks == KidsSet(n, {n.id}, cfg)
  <2>4. ks = [k \in DOMAIN n.kids |-> ks[k]]
    BY DEF KidsSet
  <2>5. SettingById({n.id}, cfg)[n] = [n EXCEPT !.cfg = cfg, !.kids = ks]
    BY SettingDef, ZenonT(30)
  <2> HIDE DEF ks
  <2>6. \A k \in DOMAIN n.kids : ks[k] = n.kids[k]
    BY <2>3, TreeKids
  <2>7. ks = n.kids
    BY <2>4, <2>6, SameTree
  <2>9. [n EXCEPT !.cfg = cfg, !.kids = n.kids] = WithCfg(n, cfg)
    BY TreeRecord DEF WithCfg
  <2> QED BY <2>1, <2>2, <2>5, <2>7, <2>9
<1>2. CASE ~HasSettings(n)
  <2>1. Hits(n, 0) = {}
    BY <1>2, <1>r DEF Hits, Shown
  <2>2. SettingById({}, cfg)[n] = n
    BY SettingAway
  <2>3. Updating(at, cfg)[n][at] = n
    <3>1. CASE NotEntered(n)
      BY <1>2, <3>1, UpdatingStops
    <3>2. CASE ~NotEntered(n)
      <4> DEFINE ks == KidsUpdated(n, at, at, cfg)
      <4>1. Updating(at, cfg)[n][at] = WithKids(n, ks)
        BY <1>2, <3>2, UpdatingDown
      <4>a. ks = [k \in DOMAIN n.kids |-> ks[k]]
        BY DEF KidsUpdated
      <4>2. \A k \in DOMAIN n.kids : ks[k] = Updating(at, cfg)[n.kids[k]][at + CountFirst(n, k)]
        BY <3>2, KidsUpdatedDef
      <4> HIDE DEF ks
      <4>3. ASSUME NEW k \in DOMAIN n.kids PROVE ks[k] = n.kids[k]
        <5>1. n.kids[k] \in Tree /\ k \in 1..Len(n.kids)
          BY TreeKids
        <5>2. CountFirst(n, k) \in Nat /\ CountFirst(n, k) > Labels(n)
          BY <3>2, <5>1, CountFirstDef
        <5>3. Labels(n) \in Nat
          BY LabelsType
        <5> DEFINE a == at + CountFirst(n, k)
        <5>4. a \in Nat /\ at < a
          BY <5>2, <5>3
        <5> HIDE DEF a
        <5>5. Updating(at, cfg)[n.kids[k]][a] = n.kids[k]
          BY <5>1, <5>4, UpdatingAway
        <5> QED BY <4>2, <5>5 DEF a
      <4> QED BY <4>1, <4>a, <4>3, SameTree
    <3> QED BY <3>1, <3>2
  <2> QED BY <2>1, <2>2, <2>3
<1> QED BY <1>1, <1>2

\* at a row of a child, which the walk reaches at that place,
LEMMA HitWithin ==
  ASSUME NEW cfg, NEW n \in Tree, WellFormed(n), \A k \in DOMAIN n.kids : Hit(n.kids[k], cfg),
         NEW p \in 0..Size[n] - 1, Steady(n, p), NEW at \in Nat, NEW k, NEW q, Within(n, p, k, q)
  PROVE  Updating(at + p, cfg)[n][at] = SettingById(Hits(n, p), cfg)[n]
<1>0. DOMAIN n.kids = 1..Len(n.kids) /\ Len(n.kids) \in Nat /\ \A j \in DOMAIN n.kids : n.kids[j] \in Tree
  BY TreeKids
<1>1. k \in 1..Len(n.kids) /\ k \in DOMAIN n.kids /\ q \in 0..Size[n.kids[k]] - 1 /\ p = First(n, k) + q
  BY <1>0 DEF Within
<1>2. First(n, k) \in Nat /\ Size[n.kids[k]] \in Nat /\ First(n, k) > Labels(n)
  BY <1>1, FirstDef
<1>3. Labels(n) \in Nat
  BY LabelsType
<1>4. ~NotEntered(n) /\ CountFirst(n, k) = First(n, k)
  <2>1. First(n, k) - Labels(n) <= p
    BY <1>1, <1>2, <1>3
  <2> QED BY <1>1, <2>1, SteadyFirst
<1>5. Steady(n.kids[k], q)
  BY SteadyKid
<1>6. q < Counted[n.kids[k]]
  BY <1>0, <1>1, <1>5, SteadyCount
<1>7. p \in Nat /\ q \in Nat /\ p > 0
  BY <1>1, <1>2, <1>3
<1> DEFINE ids == Hits(n, p)
           ks == KidsUpdated(n, at, at + p, cfg)
           ss == KidsSet(n, ids, cfg)
<1>8. Updating(at + p, cfg)[n][at] = WithKids(n, ks)
  <2>1. at # at + p
    BY <1>7
  <2> QED BY <1>4, <2>1, UpdatingDown
<1>a. ks = [j \in DOMAIN n.kids |-> ks[j]]
  BY DEF KidsUpdated
<1>9. \A j \in DOMAIN n.kids : ks[j] = Updating(at + p, cfg)[n.kids[j]][at + CountFirst(n, j)]
  BY <1>4, KidsUpdatedDef
<1>10. ids = Hits(n.kids[k], q)
  <2>1. Row(n, p) = Row(n.kids[k], q)
    BY <1>1, RowsDef
  <2> QED BY <2>1 DEF Hits
<1>11. ids \subseteq Ids(n.kids[k])
  <2>1. Row(n.kids[k], q).id \in Ids(n.kids[k])
    BY <1>0, <1>1, RowIds
  <2> QED BY <1>10, <2>1 DEF Hits
<1>12. Apart(n)
  BY WellFormedDef
<1>13. n.id \notin ids
  BY <1>1, <1>11, <1>12, ApartDef
<1>14. SettingById(ids, cfg)[n] = WithKids(n, ss)
  BY <1>13, SettingOthers
<1>15. ss = [j \in DOMAIN n.kids |-> ss[j]] /\ \A j \in DOMAIN n.kids : ss[j] = SettingById(ids, cfg)[n.kids[j]]
  BY DEF KidsSet
<1> HIDE DEF ids, ks, ss
<1>16. ks[k] = ss[k]
  <2> DEFINE a == at + CountFirst(n, k)
  <2>1. a \in Nat /\ at + p = a + q
    BY <1>1, <1>2, <1>4, <1>7
  <2>2. ks[k] = Updating(at + p, cfg)[n.kids[k]][a]
    BY <1>1, <1>9
  <2> HIDE DEF a
  <2>3. Updating(a + q, cfg)[n.kids[k]][a] = SettingById(Hits(n.kids[k], q), cfg)[n.kids[k]]
    BY <1>1, <1>5, <2>1 DEF Hit
  <2> QED BY <1>1, <1>10, <1>15, <2>1, <2>2, <2>3
<1>17. ASSUME NEW j \in DOMAIN n.kids, j # k PROVE ks[j] = ss[j]
  <2>0. j \in 1..Len(n.kids)
    BY <1>0
  <2>1. ss[j] = n.kids[j]
    <3>1. ids \intersect Ids(n.kids[j]) = {}
      BY <1>1, <1>11, <1>12, <1>17, ApartDef
    <3> QED BY <1>0, <1>15, <3>1, SettingAway
  <2>2. CountFirst(n, j) \in Nat /\ Counted[n.kids[j]] \in Nat /\ Counted[n.kids[k]] \in Nat
    BY <1>1, <1>4, <2>0, CountFirstDef
  <2>3. p < CountFirst(n, j) \/ p >= CountFirst(n, j) + Counted[n.kids[j]]
    <3>1. CASE j < k
      <4>1. k \in j + 1..Len(n.kids)
        BY <1>1, <2>0, <3>1
      <4>2. CountFirst(n, j) + Counted[n.kids[j]] + Labels(n) <= CountFirst(n, k)
        BY <1>4, <2>0, <4>1, CountFirstDef
      <4> QED BY <1>1, <1>2, <1>3, <1>4, <1>7, <2>2, <4>2
    <3>2. CASE j > k
      <4>1. j \in k + 1..Len(n.kids)
        BY <1>1, <2>0, <3>2
      <4>2. CountFirst(n, k) + Counted[n.kids[k]] + Labels(n) <= CountFirst(n, j)
        BY <1>1, <1>4, <4>1, CountFirstDef
      <4> QED BY <1>1, <1>2, <1>3, <1>4, <1>6, <1>7, <2>2, <4>2
    <3> QED BY <1>1, <1>17, <2>0, <3>1, <3>2
  <2> DEFINE a == at + CountFirst(n, j)
  <2>4. a \in Nat /\ at + p \in Nat /\ (at + p < a \/ at + p >= a + Counted[n.kids[j]])
    BY <1>7, <2>2, <2>3
  <2>5. ks[j] = Updating(at + p, cfg)[n.kids[j]][a]
    BY <1>9
  <2> HIDE DEF a
  <2>6. ks[j] = n.kids[j]
    BY <1>0, <2>4, <2>5, UpdatingAway
  <2> QED BY <2>1, <2>6
<1>18. ks = ss
  BY <1>a, <1>15, <1>16, <1>17
<1> QED BY <1>8, <1>14, <1>18 DEF ids

\* and at a label, where there is no leaf.
LEMMA HitLabel ==
  ASSUME NEW cfg, NEW n \in Tree, n.kind = "If", NEW p \in 0..Size[n] - 1, Steady(n, p),
         NEW at \in Nat, NEW k \in 1..Len(n.kids), p = First(n, k) - 1
  PROVE  Updating(at + p, cfg)[n][at] = SettingById(Hits(n, p), cfg)[n]
<1>0. DOMAIN n.kids = 1..Len(n.kids) /\ Len(n.kids) \in Nat /\ \A j \in DOMAIN n.kids : n.kids[j] \in Tree
  BY TreeKids
<1>1. Labels(n) = 1 /\ ~HasSettings(n)
  BY DEF Labels, HasSettings
<1>2. First(n, k) \in Nat /\ First(n, k) > 1
  BY <1>1, FirstDef
<1>3. ~NotEntered(n) /\ CountFirst(n, k) = First(n, k)
  BY <1>1, SteadyFirst
<1>4. Hits(n, p) = {}
  <2>1. Row(n, p) = RowOf(n, Yes, {})
    BY RowsDef
  <2>2. Row(n, p).shown = {}
    BY <2>1 DEF RowOf
  <2> QED BY <2>2 DEF Hits
<1>5. SettingById({}, cfg)[n] = n
  BY SettingAway
<1> DEFINE ks == KidsUpdated(n, at, at + p, cfg)
<1>6. Updating(at + p, cfg)[n][at] = WithKids(n, ks)
  BY <1>1, <1>3, UpdatingDown
<1>a. ks = [j \in DOMAIN n.kids |-> ks[j]]
  BY DEF KidsUpdated
<1>7. \A j \in DOMAIN n.kids : ks[j] = Updating(at + p, cfg)[n.kids[j]][at + CountFirst(n, j)]
  BY <1>3, KidsUpdatedDef
<1> HIDE DEF ks
<1>8. ASSUME NEW j \in DOMAIN n.kids PROVE ks[j] = n.kids[j]
  <2>0. j \in 1..Len(n.kids)
    BY <1>0
  <2>2. CountFirst(n, j) \in Nat /\ Counted[n.kids[j]] \in Nat /\ Counted[n.kids[k]] \in Nat
    BY <1>3, <2>0, CountFirstDef
  <2>3. p < CountFirst(n, j) \/ p >= CountFirst(n, j) + Counted[n.kids[j]]
    <3>1. CASE j < k
      <4>1. k \in j + 1..Len(n.kids)
        BY <2>0, <3>1
      <4>2. CountFirst(n, j) + Counted[n.kids[j]] + Labels(n) <= CountFirst(n, k)
        BY <1>3, <2>0, <4>1, CountFirstDef
      <4> QED BY <1>1, <1>2, <1>3, <2>2, <4>2
    <3>2. CASE j > k
      <4>1. j \in k + 1..Len(n.kids)
        BY <2>0, <3>2
      <4>2. CountFirst(n, k) + Counted[n.kids[k]] + Labels(n) <= CountFirst(n, j)
        BY <1>3, <4>1, CountFirstDef
      <4> QED BY <1>1, <1>2, <1>3, <2>2, <4>2
    <3>3. CASE j = k
      BY <1>2, <1>3, <3>3
    <3> QED BY <2>0, <3>1, <3>2, <3>3
  <2> DEFINE a == at + CountFirst(n, j)
  <2>4. a \in Nat /\ at + p \in Nat /\ (at + p < a \/ at + p >= a + Counted[n.kids[j]])
    <3> DEFINE f == CountFirst(n, j)
               z == Counted[n.kids[j]]
    <3>1. p \in Nat
      BY <1>2
    <3>2. f \in Nat /\ z \in Nat /\ a = at + f /\ (p < f \/ p >= f + z)
      BY <2>2, <2>3
    <3> HIDE DEF f, z, a
    <3>3. a \in Nat /\ at + p \in Nat /\ (at + p < a \/ at + p >= a + z)
      BY <3>1, <3>2
    <3> QED BY <3>3 DEF z
  <2>5. ks[j] = Updating(at + p, cfg)[n.kids[j]][a]
    BY <1>7
  <2> HIDE DEF a
  <2> QED BY <1>0, <2>4, <2>5, UpdatingAway
<1> QED BY <1>4, <1>5, <1>6, <1>a, <1>8, SameTree

\* The update finds the leaf that the row shows.
LEMMA HitAnywhere ==
  ASSUME NEW cfg
  PROVE  \A n \in Tree : WellFormed(n) => Hit(n, cfg)
<1> DEFINE S == {n \in Tree : WellFormed(n) => Hit(n, cfg)}
<1>1. ASSUME NEW n \in Tree, \A k \in DOMAIN n.kids : n.kids[k] \in S PROVE n \in S
  <2> SUFFICES ASSUME WellFormed(n), NEW p \in 0..Size[n] - 1, Steady(n, p), NEW at \in Nat
               PROVE  Updating(at + p, cfg)[n][at] = SettingById(Hits(n, p), cfg)[n]
    BY DEF Hit
  <2>1. \A k \in DOMAIN n.kids : Hit(n.kids[k], cfg)
    BY <1>1, WellFormedDef
  <2>2. CASE p = 0
    <3>1. at + p = at
      BY <2>2
    <3> QED BY <2>2, <3>1, HitHere
  <2>3. ASSUME NEW k, NEW q, Within(n, p, k, q)
        PROVE  Updating(at + p, cfg)[n][at] = SettingById(Hits(n, p), cfg)[n]
    BY <2>1, <2>3, HitWithin
  <2>4. ASSUME n.kind = "If", NEW k \in 1..Len(n.kids), p = First(n, k) - 1
        PROVE  Updating(at + p, cfg)[n][at] = SettingById(Hits(n, p), cfg)[n]
    BY <2>4, HitLabel
  <2> QED BY <2>2, <2>3, <2>4, RowPlace
<1>2. Tree \subseteq S
  <2> HIDE DEF S
  <2> QED BY <1>1, TreeInduction
<1> QED BY <1>2

-----------------------------------------------------------------------------
(* The move of a row.                                                      *)

\* The children that start at the position, and what the walk does below.
HitAt(n, at, pos) == {i \in DOMAIN n.kids : Starts(n, at, Sizes(n))[i] = pos}

KidsMoved(n, at, pos, up) ==
  [k \in DOMAIN n.kids |->
     IF /\ Starts(n, at, Sizes(n))[k] <= pos
        /\ pos < Starts(n, at, Sizes(n))[k] + Size[n.kids[k]]
     THEN Moving(pos, up)[n.kids[k]][Starts(n, at, Sizes(n))[k]] ELSE n.kids[k]]

KidsSwapped(n, hit, up) ==
  Swapped(n.kids, CHOOSE x \in hit : TRUE, Neighbour(n.kids, CHOOSE x \in hit : TRUE, up))

\* The move in a node, in terms of that in its children.
LEMMA MovingDef ==
  ASSUME NEW pos, NEW up, NEW n \in Tree, NEW at \in Nat
  PROVE  Moving(pos, up)[n][at]
           = IF n.kind \in Lists /\ HitAt(n, at, pos) # {}
               THEN WithKids(n, KidsSwapped(n, HitAt(n, at, pos), up))
               ELSE WithKids(n, KidsMoved(n, at, pos, up))
<1> DEFINE U == Moving(pos, up)
           Body(m, a) ==
             LET from == Starts(m, a, Sizes(m))
                 Hitting == {i \in DOMAIN m.kids : from[i] = pos}
                 Inside(k) == from[k] <= pos /\ pos < from[k] + Size[m.kids[k]]
             IN  IF m.kind \in Lists /\ Hitting # {}
                   THEN LET i == CHOOSE x \in Hitting : TRUE
                        IN  [m EXCEPT !.kids = Swapped(m.kids, i, Neighbour(m.kids, i, up))]
                   ELSE [m EXCEPT !.kids =
                           [k \in DOMAIN m.kids |->
                              IF Inside(k) THEN U[m.kids[k]][from[k]] ELSE m.kids[k]]]
<1>1. U = [m \in Tree |-> [a \in Nat |-> Body(m, a)]]
  BY MovingIs
<1>2. Body(n, at) = IF n.kind \in Lists /\ HitAt(n, at, pos) # {}
                      THEN WithKids(n, KidsSwapped(n, HitAt(n, at, pos), up))
                      ELSE WithKids(n, KidsMoved(n, at, pos, up))
  BY DEF KidsMoved, KidsSwapped, HitAt, WithKids
<1> HIDE DEF Body, U
<1>3. U[n][at] = Body(n, at)
  BY <1>1
<1> QED BY <1>2, <1>3 DEF U

LEMMA StartsFirst ==
  ASSUME NEW n \in Tree, NEW at \in Nat
  PROVE  \A k \in DOMAIN n.kids : /\ Starts(n, at, Sizes(n))[k] = at + First(n, k)
                                  /\ First(n, k) \in Nat /\ First(n, k) > Labels(n)
                                  /\ Size[n.kids[k]] \in Nat /\ Size[n.kids[k]] > 0
  BY TreeKids, FirstDef

\* Two children do not overlap.
LEMMA FirstApart ==
  ASSUME NEW n \in Tree, NEW i \in DOMAIN n.kids, NEW j \in DOMAIN n.kids, i # j
  PROVE  First(n, i) + Size[n.kids[i]] <= First(n, j) \/ First(n, j) + Size[n.kids[j]] <= First(n, i)
<1>1. i \in 1..Len(n.kids) /\ j \in 1..Len(n.kids) /\ Len(n.kids) \in Nat
  BY TreeKids
<1>2. Labels(n) \in Nat
  BY LabelsType
<1>3. \A k \in DOMAIN n.kids : First(n, k) \in Nat /\ Size[n.kids[k]] \in Nat
  BY TreeKids, FirstDef
<1>4. CASE i < j
  <2>1. j \in i + 1..Len(n.kids)
    BY <1>1, <1>4
  <2>2. First(n, i) + Size[n.kids[i]] + Labels(n) <= First(n, j)
    BY <1>1, <2>1, FirstDef
  <2> QED BY <1>2, <1>3, <2>2
<1>5. CASE j < i
  <2>1. i \in j + 1..Len(n.kids)
    BY <1>1, <1>5
  <2>2. First(n, j) + Size[n.kids[j]] + Labels(n) <= First(n, i)
    BY <1>1, <2>1, FirstDef
  <2> QED BY <1>2, <1>3, <2>2
<1> QED BY <1>1, <1>4, <1>5

LEMMA HitAtDef ==
  ASSUME NEW n \in Tree, NEW at \in Nat, NEW p
  PROVE  \A i \in DOMAIN n.kids : i \in HitAt(n, at, at + p) <=> at + First(n, i) = at + p
  BY StartsFirst DEF HitAt

LEMMA KidsMovedDef ==
  ASSUME NEW n \in Tree, NEW at \in Nat, NEW pos, NEW up
  PROVE  \A k \in DOMAIN n.kids :
           KidsMoved(n, at, pos, up)[k]
             = IF at + First(n, k) <= pos /\ pos < at + First(n, k) + Size[n.kids[k]]
               THEN Moving(pos, up)[n.kids[k]][at + First(n, k)] ELSE n.kids[k]
<1>1. \A k \in DOMAIN n.kids : Starts(n, at, Sizes(n))[k] = at + First(n, k)
  BY StartsFirst
<1> QED BY <1>1 DEF KidsMoved

\* The row of the node itself: the walk moves nothing.
LEMMA MoveHere ==
  ASSUME NEW n \in Tree, NEW at \in Nat, NEW up
  PROVE  Moving(at, up)[n][at] = n
<1> DEFINE ks == KidsMoved(n, at, at, up)
<1>0. Labels(n) \in Nat
  BY LabelsType
<1>1. ASSUME NEW k \in DOMAIN n.kids PROVE at + First(n, k) > at /\ at + First(n, k) \in Nat
  BY <1>0, StartsFirst
<1>2. HitAt(n, at, at) = {}
  <2>1. \A k \in DOMAIN n.kids : Starts(n, at, Sizes(n))[k] = at + First(n, k)
    BY StartsFirst
  <2> QED BY <1>1, <2>1 DEF HitAt
<1>3. Moving(at, up)[n][at] = WithKids(n, ks)
  BY <1>2, MovingDef
<1>4. ks = [k \in DOMAIN n.kids |-> ks[k]]
  BY DEF KidsMoved
<1>5. ASSUME NEW k \in DOMAIN n.kids PROVE ks[k] = n.kids[k]
  <2>1. ~(at + First(n, k) <= at)
    BY <1>1
  <2> QED BY <2>1, KidsMovedDef
<1> HIDE DEF ks
<1> QED BY <1>3, <1>4, <1>5, SameTree

-----------------------------------------------------------------------------
(* The move by name.                                                       *)

LEMMA SwappingDef ==
  ASSUME NEW id, NEW up, NEW n \in Tree
  PROVE  SwappingById(id, up)[n]
           = IF n.kind \in Lists /\ SwapAt(n, id) # {} /\ SwapTo(n, id, up) # {}
               THEN WithKids(n, KidsExchanged(n, SwapAt(n, id), SwapTo(n, id, up)))
               ELSE WithKids(n, KidsSwapping(n, id, up))
  BY SwappingByIdIs DEF SwapNode

\* A name that no child has: nothing is swapped.
LEMMA SwappingAway ==
  ASSUME NEW id, NEW up
  PROVE  \A n \in Tree : (\A k \in DOMAIN n.kids : id \notin Ids(n.kids[k])) => SwappingById(id, up)[n] = n
<1> DEFINE S == {n \in Tree : (\A k \in DOMAIN n.kids : id \notin Ids(n.kids[k])) => SwappingById(id, up)[n] = n}
<1>1. ASSUME NEW n \in Tree, \A k \in DOMAIN n.kids : n.kids[k] \in S PROVE n \in S
  <2> SUFFICES ASSUME \A k \in DOMAIN n.kids : id \notin Ids(n.kids[k]) PROVE SwappingById(id, up)[n] = n
    OBVIOUS
  <2> DEFINE ks == KidsSwapping(n, id, up)
  <2>0. \A k \in DOMAIN n.kids : n.kids[k] \in Tree
    BY TreeKids
  <2>1. SwapAt(n, id) = {}
    BY <2>0, IdsDef DEF SwapAt
  <2>2. SwappingById(id, up)[n] = WithKids(n, ks)
    BY <2>1, SwappingDef
  <2>3. ks = [k \in DOMAIN n.kids |-> ks[k]]
    BY DEF KidsSwapping
  <2>4. ASSUME NEW k \in DOMAIN n.kids PROVE ks[k] = n.kids[k]
    <3>1. \A j \in DOMAIN n.kids[k].kids : id \notin Ids(n.kids[k].kids[j])
      BY <2>0, IdsDef
    <3>2. SwappingById(id, up)[n.kids[k]] = n.kids[k]
      BY <1>1, <3>1
    <3> QED BY <3>2 DEF KidsSwapping
  <2> HIDE DEF ks
  <2> QED BY <2>2, <2>3, <2>4, SameTree
<1>2. Tree \subseteq S
  <2> HIDE DEF S
  <2> QED BY <1>1, TreeInduction
<1> QED BY <1>2

\* A row other than the first that is no label is not that of the node.
LEMMA RowAway ==
  ASSUME NEW n \in Tree, WellFormed(n), NEW p \in 0..Size[n] - 1, p # 0, ~Row(n, p).label
  PROVE  Row(n, p).id # n.id
<1>1. ASSUME NEW k, NEW q, Within(n, p, k, q) PROVE Row(n, p).id # n.id
  <2>1. k \in 1..Len(n.kids) /\ k \in DOMAIN n.kids /\ q \in 0..Size[n.kids[k]] - 1 /\ p = First(n, k) + q
    BY <1>1, TreeKids DEF Within
  <2>2. Row(n, p) = Row(n.kids[k], q) /\ n.kids[k] \in Tree
    BY <2>1, RowsDef, TreeKids
  <2>3. Row(n, p).id \in Ids(n.kids[k])
    BY <2>1, <2>2, RowIds
  <2>4. Apart(n)
    BY WellFormedDef
  <2> QED BY <2>1, <2>3, <2>4, ApartDef
<1>2. ASSUME n.kind = "If", NEW k \in 1..Len(n.kids), p = First(n, k) - 1 PROVE FALSE
  <2>1. Row(n, p) = RowOf(n, Yes, {})
    BY <1>2, RowsDef
  <2>2. Row(n, p).label = Yes
    BY <2>1 DEF RowOf
  <2> QED BY <2>2 DEF Yes
<1> QED BY <1>1, <1>2, RowPlace

\* The move of a row is that of the name of the row, wherever the tree is.
Moves(n, up) ==
  \A p \in 0..Size[n] - 1 : ~Row(n, p).label =>
    \A at \in Nat : Moving(at + p, up)[n][at] = SwappingById(Row(n, p).id, up)[n]

\* The row of a child: it is swapped with its neighbour, if the node is a list.
LEMMA MoveChild ==
  ASSUME NEW n \in Tree, WellFormed(n), NEW at \in Nat, NEW up, NEW k \in DOMAIN n.kids
  PROVE  Moving(at + First(n, k), up)[n][at] = SwappingById(n.kids[k].id, up)[n]
<1> DEFINE p == First(n, k)
           id == n.kids[k].id
           T == Neighbour(n.kids, k, up)
<1>0. /\ DOMAIN n.kids = 1..Len(n.kids) /\ Len(n.kids) \in Nat /\ \A j \in DOMAIN n.kids : n.kids[j] \in Tree
      /\ n.kids = [j \in DOMAIN n.kids |-> n.kids[j]]
  BY TreeKids
<1>1. Apart(n) /\ \A j \in DOMAIN n.kids : WellFormed(n.kids[j]) /\ Apart(n.kids[j])
  BY <1>0, WellFormedDef
<1>2. p \in Nat /\ p > 0
  <2>1. Labels(n) \in Nat
    BY LabelsType
  <2> QED BY <2>1, StartsFirst
<1>3. HitAt(n, at, at + p) = {k}
  <2>1. ASSUME NEW i \in DOMAIN n.kids, i # k PROVE at + First(n, i) # at + p
    <3>1. First(n, i) \in Nat /\ Size[n.kids[i]] \in Nat /\ Size[n.kids[i]] > 0 /\ Size[n.kids[k]] \in Nat /\ Size[n.kids[k]] > 0
      BY StartsFirst
    <3>2. First(n, i) + Size[n.kids[i]] <= First(n, k) \/ First(n, k) + Size[n.kids[k]] <= First(n, i)
      BY <2>1, FirstApart
    <3> QED BY <1>2, <3>1, <3>2
  <2> HIDE DEF p
  <2>2. \A i \in DOMAIN n.kids : i \in HitAt(n, at, at + p) <=> at + First(n, i) = at + p
    BY HitAtDef
  <2>3. k \in HitAt(n, at, at + p)
    BY <2>2 DEF p
  <2>4. HitAt(n, at, at + p) \subseteq DOMAIN n.kids
    BY DEF HitAt
  <2> QED BY <2>1, <2>2, <2>3, <2>4
<1>4. SwapAt(n, id) = {k}
  <2>1. ASSUME NEW j \in DOMAIN n.kids, j # k PROVE n.kids[j].id # id
    <3>1. n.kids[j].id \in Ids(n.kids[j]) /\ id \in Ids(n.kids[k])
      BY <1>0, IdsDef
    <3> QED BY <1>1, <2>1, <3>1, ApartDef
  <2> QED BY <2>1 DEF SwapAt
<1>5. SwapTo(n, id, up) = T
  <2>1. \A j : j \in SwapTo(n, id, up) <=> j \in DOMAIN n.kids /\ j = IF up THEN k - 1 ELSE k + 1
    BY <1>4 DEF SwapTo
  <2>2. \A j : j \in T <=> j \in DOMAIN n.kids /\ j = IF up THEN k - 1 ELSE k + 1
    BY DEF Neighbour
  <2> QED BY <2>1, <2>2
<1>6. \A j \in DOMAIN n.kids : SwappingById(id, up)[n.kids[j]] = n.kids[j]
  <2>1. ASSUME NEW j \in DOMAIN n.kids, NEW i \in DOMAIN n.kids[j].kids PROVE id \notin Ids(n.kids[j].kids[i])
    <3>1. CASE j = k
      BY <1>0, <1>1, <3>1, ApartDef
    <3>2. CASE j # k
      <4>1. id \in Ids(n.kids[k])
        BY <1>0, IdsDef
      <4>2. id \notin Ids(n.kids[j])
        BY <1>1, <3>2, <4>1, ApartDef
      <4> QED BY <1>0, <4>2, IdsDef
    <3> QED BY <3>1, <3>2
  <2> HIDE DEF id
  <2> QED BY <1>0, <2>1, SwappingAway
<1>7. WithKids(n, KidsSwapping(n, id, up)) = n
  <2> DEFINE ks == KidsSwapping(n, id, up)
  <2>1. ks = [j \in DOMAIN n.kids |-> ks[j]] /\ \A j \in DOMAIN n.kids : ks[j] = n.kids[j]
    BY <1>6 DEF KidsSwapping
  <2> HIDE DEF ks
  <2>2. WithKids(n, ks) = n
    BY <2>1, SameTree
  <2> QED BY <2>2 DEF ks
<1>8. WithKids(n, KidsMoved(n, at, at + p, up)) = n
  <2> DEFINE ks == KidsMoved(n, at, at + p, up)
  <2>1. ks = [j \in DOMAIN n.kids |-> ks[j]]
    BY DEF KidsMoved
  <2>2. ASSUME NEW j \in DOMAIN n.kids PROVE ks[j] = n.kids[j]
    <3>1. ks[j] = IF at + First(n, j) <= at + p /\ at + p < at + First(n, j) + Size[n.kids[j]]
                  THEN Moving(at + p, up)[n.kids[j]][at + First(n, j)] ELSE n.kids[j]
      BY KidsMovedDef
    <3>2. CASE j = k
      <4>1. Moving(at + p, up)[n.kids[k]][at + p] = n.kids[k]
        <5>1. at + p \in Nat /\ n.kids[k] \in Tree
          BY <1>0, <1>2
        <5> HIDE DEF p
        <5> QED BY <5>1, MoveHere
      <4> QED BY <3>1, <3>2, <4>1
    <3>3. CASE j # k
      <4>1. First(n, j) \in Nat /\ Size[n.kids[j]] \in Nat /\ Size[n.kids[k]] \in Nat /\ Size[n.kids[k]] > 0
        BY StartsFirst
      <4>2. First(n, j) + Size[n.kids[j]] <= First(n, k) \/ First(n, k) + Size[n.kids[k]] <= First(n, j)
        BY <3>3, FirstApart
      <4>3. ~(at + First(n, j) <= at + p /\ at + p < at + First(n, j) + Size[n.kids[j]])
        BY <1>2, <4>1, <4>2
      <4> QED BY <3>1, <4>3
    <3> QED BY <3>2, <3>3
  <2> HIDE DEF ks
  <2>3. WithKids(n, ks) = n
    BY <2>1, <2>2, SameTree
  <2> QED BY <2>3 DEF ks
<1>9. CASE n.kind \in Lists
  <2>1. Moving(at + p, up)[n][at] = WithKids(n, Swapped(n.kids, k, T))
    <3>1. (CHOOSE x \in {k} : TRUE) = k
      OBVIOUS
    <3>2. KidsSwapped(n, {k}, up) = Swapped(n.kids, k, T)
      BY <3>1 DEF KidsSwapped
    <3>3. Moving(at + p, up)[n][at] = WithKids(n, KidsSwapped(n, {k}, up))
      BY <1>3, <1>9, MovingDef
    <3> QED BY <3>2, <3>3
  <2>2. CASE T = {}
    <3> DEFINE ks == Swapped(n.kids, k, T)
    <3>1. ks = [j \in DOMAIN n.kids |-> ks[j]] /\ \A j \in DOMAIN n.kids : ks[j] = n.kids[j]
      BY <2>2 DEF Swapped
    <3>2. SwappingById(id, up)[n] = WithKids(n, KidsSwapping(n, id, up))
      BY <1>5, <2>2, SwappingDef
    <3> HIDE DEF ks
    <3>3. WithKids(n, ks) = n
      BY <3>1, SameTree
    <3> QED BY <1>7, <2>1, <3>2, <3>3 DEF ks
  <2>3. CASE T # {}
    <3>1. SwappingById(id, up)[n] = WithKids(n, KidsExchanged(n, {k}, T))
      BY <1>4, <1>5, <1>9, <2>3, SwappingDef
    <3>2. Swapped(n.kids, k, T) = KidsExchanged(n, {k}, T)
      <4> HIDE DEF T
      <4>1. (CHOOSE x \in {k} : TRUE) = k
        OBVIOUS
      <4> QED BY <2>3, <4>1 DEF Swapped, KidsExchanged
    <3> QED BY <2>1, <3>1, <3>2
  <2> QED BY <2>2, <2>3
<1>10. CASE n.kind \notin Lists
  <2>1. Moving(at + p, up)[n][at] = WithKids(n, KidsMoved(n, at, at + p, up))
    BY <1>10, MovingDef
  <2>2. SwappingById(id, up)[n] = WithKids(n, KidsSwapping(n, id, up))
    BY <1>10, SwappingDef
  <2> QED BY <1>7, <1>8, <2>1, <2>2
<1> QED BY <1>9, <1>10

\* A row further down: the walk enters the child that has it, and no other.
LEMMA MoveWithin ==
  ASSUME NEW n \in Tree, WellFormed(n), NEW up, \A k \in DOMAIN n.kids : Moves(n.kids[k], up),
         NEW p \in 0..Size[n] - 1, ~Row(n, p).label, NEW at \in Nat,
         NEW k, NEW q, Within(n, p, k, q), q # 0
  PROVE  Moving(at + p, up)[n][at] = SwappingById(Row(n, p).id, up)[n]
<1> DEFINE id == Row(n, p).id
           ks == KidsMoved(n, at, at + p, up)
           ss == KidsSwapping(n, id, up)
<1>0. \A j \in DOMAIN n.kids : n.kids[j] \in Tree
  BY TreeKids
<1>1. Apart(n) /\ \A j \in DOMAIN n.kids : WellFormed(n.kids[j])
  BY WellFormedDef
<1>2. k \in 1..Len(n.kids) /\ k \in DOMAIN n.kids /\ q \in 0..Size[n.kids[k]] - 1 /\ p = First(n, k) + q
  BY TreeKids DEF Within
<1>3. First(n, k) \in Nat /\ Size[n.kids[k]] \in Nat /\ Size[n.kids[k]] > 0
  BY <1>2, StartsFirst
<1>4. q \in Nat /\ q > 0 /\ p \in Nat /\ q < Size[n.kids[k]]
  BY <1>2, <1>3
<1>5. Row(n, p) = Row(n.kids[k], q)
  BY <1>2, RowsDef
<1>6. id \in Ids(n.kids[k]) /\ id # n.kids[k].id
  BY <1>0, <1>1, <1>2, <1>4, <1>5, RowIds, RowAway
<1>7. ASSUME NEW j \in DOMAIN n.kids, j # k
      PROVE  /\ id \notin Ids(n.kids[j]) /\ id # n.kids[j].id
             /\ ~(at + First(n, j) <= at + p /\ at + p < at + First(n, j) + Size[n.kids[j]])
             /\ at + First(n, j) # at + p
  <2>1. id \notin Ids(n.kids[j])
    BY <1>1, <1>2, <1>6, <1>7, ApartDef
  <2>2. n.kids[j].id \in Ids(n.kids[j])
    BY <1>0, IdsDef
  <2>3. First(n, j) \in Nat /\ Size[n.kids[j]] \in Nat /\ Size[n.kids[j]] > 0
    BY StartsFirst
  <2>4. First(n, j) + Size[n.kids[j]] <= First(n, k) \/ First(n, k) + Size[n.kids[k]] <= First(n, j)
    BY <1>2, <1>7, FirstApart
  <2>5. /\ ~(at + First(n, j) <= at + p /\ at + p < at + First(n, j) + Size[n.kids[j]])
        /\ at + First(n, j) # at + p
    <3>1. First(n, j) + Size[n.kids[j]] <= p \/ p < First(n, j)
      BY <1>2, <1>3, <1>4, <2>3, <2>4, SMTT(30)
    <3> QED BY <1>4, <2>3, <3>1
  <2> QED BY <2>1, <2>2, <2>5
<1>8. HitAt(n, at, at + p) = {}
  <2>1. at + First(n, k) # at + p
    BY <1>2, <1>3, <1>4
  <2>2. \A i \in DOMAIN n.kids : i \in HitAt(n, at, at + p) <=> at + First(n, i) = at + p
    BY HitAtDef
  <2>3. HitAt(n, at, at + p) \subseteq DOMAIN n.kids
    BY DEF HitAt
  <2> QED BY <1>7, <2>1, <2>2, <2>3
<1>9. SwapAt(n, id) = {}
  BY <1>6, <1>7 DEF SwapAt
<1>10. Moving(at + p, up)[n][at] = WithKids(n, ks)
  BY <1>8, MovingDef
<1>11. SwappingById(id, up)[n] = WithKids(n, ss)
  BY <1>9, SwappingDef
<1>12. ks = [j \in DOMAIN n.kids |-> ks[j]] /\ ss = [j \in DOMAIN n.kids |-> ss[j]]
  BY DEF KidsMoved, KidsSwapping
<1>13. \A j \in DOMAIN n.kids :
         ks[j] = IF at + First(n, j) <= at + p /\ at + p < at + First(n, j) + Size[n.kids[j]]
                 THEN Moving(at + p, up)[n.kids[j]][at + First(n, j)] ELSE n.kids[j]
  BY KidsMovedDef
<1>14. \A j \in DOMAIN n.kids : ss[j] = SwappingById(id, up)[n.kids[j]]
  BY DEF KidsSwapping
<1> HIDE DEF ks, ss
<1>15. ks[k] = ss[k]
  <2> DEFINE a == at + First(n, k)
  <2>1. a \in Nat /\ at + p = a + q
    BY <1>2, <1>3, <1>4
  <2>2. a <= at + p /\ at + p < a + Size[n.kids[k]]
    BY <1>3, <1>4, <2>1
  <2>3. ks[k] = Moving(at + p, up)[n.kids[k]][a]
    BY <1>2, <1>13, <2>2
  <2> HIDE DEF a
  <2>4. Moving(a + q, up)[n.kids[k]][a] = SwappingById(Row(n.kids[k], q).id, up)[n.kids[k]]
    BY <1>2, <1>5, <2>1 DEF Moves
  <2> QED BY <1>2, <1>5, <1>14, <2>1, <2>3, <2>4
<1>16. ASSUME NEW j \in DOMAIN n.kids, j # k PROVE ks[j] = ss[j]
  <2>1. ks[j] = n.kids[j]
    BY <1>7, <1>13, <1>16
  <2>2. \A i \in DOMAIN n.kids[j].kids : id \notin Ids(n.kids[j].kids[i])
    BY <1>0, <1>7, <1>16, IdsDef
  <2>3. SwappingById(id, up)[n.kids[j]] = n.kids[j]
    <3> HIDE DEF id
    <3> QED BY <1>0, <2>2, SwappingAway
  <2> QED BY <1>14, <2>1, <2>3
<1>17. ks = ss
  BY <1>12, <1>15, <1>16
<1> QED BY <1>10, <1>11, <1>17

\* The move finds the node that the row shows.
LEMMA MovesAnywhere ==
  ASSUME NEW up
  PROVE  \A n \in Tree : WellFormed(n) => Moves(n, up)
<1> DEFINE S == {n \in Tree : WellFormed(n) => Moves(n, up)}
<1>1. ASSUME NEW n \in Tree, \A k \in DOMAIN n.kids : n.kids[k] \in S PROVE n \in S
  <2> SUFFICES ASSUME WellFormed(n), NEW p \in 0..Size[n] - 1, ~Row(n, p).label, NEW at \in Nat
               PROVE  Moving(at + p, up)[n][at] = SwappingById(Row(n, p).id, up)[n]
    BY DEF Moves
  <2>0. Apart(n) /\ \A k \in DOMAIN n.kids : Moves(n.kids[k], up)
    BY <1>1, WellFormedDef
  <2>1. CASE p = 0
    <3>1. at + p = at
      BY <2>1
    <3>2. Row(n, 0) = RowOf(n, No, Shown(n))
      BY RowsDef
    <3>3. Row(n, 0).id = n.id
      BY <3>2 DEF RowOf
    <3>4. \A k \in DOMAIN n.kids : n.id \notin Ids(n.kids[k])
      BY <2>0, ApartDef
    <3>5. SwappingById(n.id, up)[n] = n
      BY <3>4, SwappingAway
    <3>6. Moving(at, up)[n][at] = n
      BY MoveHere
    <3> QED BY <2>1, <3>1, <3>3, <3>5, <3>6
  <2>2. ASSUME NEW k, NEW q, Within(n, p, k, q), q # 0
        PROVE  Moving(at + p, up)[n][at] = SwappingById(Row(n, p).id, up)[n]
    BY <2>0, <2>2, MoveWithin
  <2>3. ASSUME NEW k, NEW q, Within(n, p, k, q), q = 0
        PROVE  Moving(at + p, up)[n][at] = SwappingById(Row(n, p).id, up)[n]
    <3>1. k \in DOMAIN n.kids /\ k \in 1..Len(n.kids) /\ q \in 0..Size[n.kids[k]] - 1 /\ p = First(n, k) + q
      BY <2>3, TreeKids DEF Within
    <3>2. p = First(n, k)
      BY <2>3, <3>1, StartsFirst
    <3>3. Row(n, p) = Row(n.kids[k], 0)
      BY <2>3, <3>1, RowsDef
    <3>4. Row(n.kids[k], 0) = RowOf(n.kids[k], No, Shown(n.kids[k]))
      BY <3>1, TreeKids, RowsDef
    <3>5. Row(n, p).id = n.kids[k].id
      BY <3>3, <3>4 DEF RowOf
    <3>6. Moving(at + First(n, k), up)[n][at] = SwappingById(n.kids[k].id, up)[n]
      BY <3>1, MoveChild
    <3> QED BY <3>2, <3>5, <3>6
  <2>4. ASSUME n.kind = "If", NEW k \in 1..Len(n.kids), p = First(n, k) - 1 PROVE FALSE
    <3>1. Row(n, p) = RowOf(n, Yes, {})
      BY <2>4, RowsDef
    <3>2. Row(n, p).label = Yes
      BY <3>1 DEF RowOf
    <3> QED BY <3>2 DEF Yes
  <2> QED BY <2>1, <2>2, <2>3, <2>4, RowPlace
<1>2. Tree \subseteq S
  <2> HIDE DEF S
  <2> QED BY <1>1, TreeInduction
<1> QED BY <1>2

-----------------------------------------------------------------------------
(* What an edit keeps: a well-formed tree of its kind, with no names but   *)
(* the old ones and the new, and few enough levels.                        *)

\* A node by its parts.
Rec(kind, id, cfg, kids) == [kind |-> kind, id |-> id, cfg |-> cfg, kids |-> kids]

LEMMA RecFields == \A kind, id, cfg, kids :
  /\ Rec(kind, id, cfg, kids).kind = kind /\ Rec(kind, id, cfg, kids).id = id
  /\ Rec(kind, id, cfg, kids).cfg = cfg /\ Rec(kind, id, cfg, kids).kids = kids
  BY DEF Rec

LEMMA WithKidsRec == \A n \in Tree : \A ks : WithKids(n, ks) = Rec(n.kind, n.id, n.cfg, ks)
  BY TreeRecord DEF WithKids, Rec

LEMMA WithCfgRec == \A n \in Tree : \A c : WithCfg(n, c) = Rec(n.kind, n.id, c, n.kids)
  BY TreeRecord DEF WithCfg, Rec

LEMMA RecTree ==
  ASSUME NEW d \in Nat, d + 1 <= MaxHeight, NEW kind \in Conditions \union Nodes, NEW id \in Nat, NEW cfg \in Nat,
         NEW kids \in Seq(TreesTo[d])
  PROVE  Rec(kind, id, cfg, kids) \in TreesTo[d + 1] /\ Rec(kind, id, cfg, kids) \in Tree
<1>1. Rec(kind, id, cfg, kids) \in TreeOver(TreesTo[d])
  BY DEF Rec, TreeOver
<1>2. TreesTo[d + 1] = TreeOver(TreesTo[d])
  BY TreesDef
<1>3. TreesTo[d + 1] \subseteq Tree
  BY TreesMono, MaxHeightAssumption DEF Tree
<1> QED BY <1>1, <1>2, <1>3

\* m is what an edit makes of n, a tree of at most d levels: e levels are added, and
\* the names in new.
Kept(m, n, new, d, e) ==
  /\ m \in TreesTo[d + e] /\ m \in Tree
  /\ WellFormed(m)
  /\ Ids(m) \subseteq Ids(n) \union new
  /\ m.kind \in Conditions <=> n.kind \in Conditions

\* No edit.
LEMMA KeptSelf ==
  ASSUME NEW d \in Nat, d <= MaxHeight, NEW n \in TreesTo[d], WellFormed(n)
  PROVE  Kept(n, n, {}, d, 0) /\ n \in Tree
<1>1. TreesTo[d] \subseteq Tree
  BY TreesMono, MaxHeightAssumption DEF Tree
<1>2. d + 0 = d
  OBVIOUS
<1> QED BY <1>1, <1>2 DEF Kept

\* How many children a node of its kind has.
Shaped(kind, len) ==
  /\ kind \in Leaves => len = 0
  /\ kind \in Bodies \union {"Not"} => len = 1
  /\ kind = "If" => len \in {1, 2}

\* A node whose children are what the edit makes of some of the children, in some order.
LEMMA KeptMapped ==
  ASSUME NEW d \in Nat, NEW e \in Nat, (d + e) + 1 <= MaxHeight, NEW n \in TreesTo[d + 1], WellFormed(n),
         NEW new \in SUBSET Nat, new \intersect Ids(n) = {},
         NEW kind \in Conditions \union Nodes, kind \in Conditions <=> n.kind \in Conditions, NEW cfg \in Nat,
         NEW ks \in Seq(TreesTo[d + e]), Shaped(kind, Len(ks)),
         NEW g \in [1..Len(ks) -> 1..Len(n.kids)], \A i, j \in 1..Len(ks) : g[i] = g[j] => i = j,
         NEW i0, \A i \in 1..Len(ks) : Kept(ks[i], n.kids[g[i]], IF i = i0 THEN new ELSE {}, d, e)
  PROVE  Kept(Rec(kind, n.id, cfg, ks), n, new, d + 1, e)
<1> DEFINE m == Rec(kind, n.id, cfg, ks)
<1>1. n \in Tree
  <2>1. d + 1 <= MaxHeight
    BY MaxHeightAssumption
  <2> QED BY <2>1, TreesMono, MaxHeightAssumption DEF Tree
<1>2. m \in TreesTo[(d + e) + 1] /\ m \in Tree /\ (d + 1) + e = (d + e) + 1
  <2>1. n.id \in Nat
    BY <1>1, TreeKids
  <2>2. d + e \in Nat /\ (d + 1) + e = (d + e) + 1
    OBVIOUS
  <2> QED BY <2>1, <2>2, RecTree
<1>3. m.kind = kind /\ m.id = n.id /\ m.kids = ks
  BY RecFields
<1> HIDE DEF m
<1>4. DOMAIN ks = 1..Len(ks) /\ DOMAIN n.kids = 1..Len(n.kids) /\ \A i \in 1..Len(ks) : g[i] \in DOMAIN n.kids
  BY <1>1, TreeKids
<1>5. WellShaped(n) /\ Apart(n)
  BY <1>1, WellFormedDef
<1>6. \A i \in DOMAIN ks : Ids(ks[i]) \subseteq Ids(n.kids[g[i]]) \union (IF i = i0 THEN new ELSE {})
  BY <1>4 DEF Kept
<1>7. Ids(m) \subseteq Ids(n) \union new
  <2> SUFFICES ASSUME NEW x \in Ids(m) PROVE x \in Ids(n) \union new
    OBVIOUS
  <2>1. x = n.id \/ \E i \in DOMAIN ks : x \in Ids(ks[i])
    BY <1>2, <1>3, IdsDef
  <2>2. ASSUME NEW i \in DOMAIN ks, x \in Ids(ks[i]) PROVE x \in Ids(n) \union new
    BY <1>1, <1>4, <1>6, <2>2, IdsDef
  <2> QED BY <1>1, <2>1, <2>2, IdsDef
<1>8. WellShaped(m)
  <2>1. \A i \in DOMAIN ks : ks[i].kind \in Conditions <=> n.kids[g[i]].kind \in Conditions
    BY <1>4 DEF Kept
  <2>2. \A i \in DOMAIN ks : n.kids[g[i]].kind \in Conditions <=> n.kind \in Conditions
    BY <1>4, <1>5 DEF WellShaped
  <2> QED BY <1>3, <2>1, <2>2 DEF WellShaped, Shaped
<1>9. ASSUME NEW i \in DOMAIN ks PROVE n.id \notin Ids(ks[i])
  <2>1. n.id \notin Ids(n.kids[g[i]]) /\ n.id \in Ids(n)
    BY <1>1, <1>4, <1>5, ApartDef, IdsDef
  <2> QED BY <1>6, <2>1
<1>10. ASSUME NEW i \in DOMAIN ks, NEW j \in DOMAIN ks, i # j PROVE Ids(ks[i]) \intersect Ids(ks[j]) = {}
  <2>1. g[i] \in DOMAIN n.kids /\ g[j] \in DOMAIN n.kids /\ g[i] # g[j]
    BY <1>4, <1>10
  <2>2. Ids(n.kids[g[i]]) \intersect Ids(n.kids[g[j]]) = {}
    BY <1>1, <1>5, <2>1, ApartDef
  <2>3. Ids(n.kids[g[i]]) \subseteq Ids(n) /\ Ids(n.kids[g[j]]) \subseteq Ids(n)
    BY <1>1, <2>1, IdsDef
  <2>4. /\ Ids(ks[i]) \subseteq Ids(n.kids[g[i]]) \union (IF i = i0 THEN new ELSE {})
        /\ Ids(ks[j]) \subseteq Ids(n.kids[g[j]]) \union (IF j = i0 THEN new ELSE {})
    BY <1>6
  <2> QED BY <1>10, <2>2, <2>3, <2>4
<1>11. Apart(m)
  <2>1. ASSUME NEW i \in DOMAIN ks, NEW j \in 1..i - 1 PROVE Ids(ks[i]) \intersect Ids(ks[j]) = {}
    <3>1. j \in DOMAIN ks /\ i # j
      BY <1>4
    <3> QED BY <1>10, <3>1
  <2> QED BY <1>3, <1>9, <2>1 DEF Apart
<1>12. WellFormed(m)
  <2>1. \A i \in DOMAIN m.kids : WellFormed(m.kids[i])
    BY <1>3, <1>4 DEF Kept
  <2> QED BY <1>2, <1>8, <1>11, <2>1, WellFormedDef
<1> QED BY <1>2, <1>3, <1>7, <1>12 DEF Kept, m

\* The kids of a tree of d + 1 levels.
LEMMA KidsTo ==
  ASSUME NEW d \in Nat, d + 1 <= MaxHeight, NEW n \in TreesTo[d + 1], WellFormed(n)
  PROVE  /\ n \in Tree /\ d <= MaxHeight /\ Shaped(n.kind, Len(n.kids))
         /\ DOMAIN n.kids = 1..Len(n.kids) /\ Len(n.kids) \in Nat /\ n.kids \in Seq(TreesTo[d])
         /\ \A k \in DOMAIN n.kids : /\ n.kids[k] \in TreesTo[d] /\ n.kids[k] \in Tree /\ WellFormed(n.kids[k])
                                     /\ n.kids[k].kind \in Conditions <=> n.kind \in Conditions
                                     /\ Ids(n.kids[k]) \subseteq Ids(n)
<1>1. n \in Tree /\ d <= MaxHeight
  <2>1. TreesTo[d + 1] \subseteq Tree
    BY TreesMono, MaxHeightAssumption DEF Tree
  <2> QED BY <2>1, MaxHeightAssumption
<1>2. \A k \in DOMAIN n.kids : n.kids[k] \in TreesTo[d]
  BY KidsBelow
<1>3. WellShaped(n) /\ \A k \in DOMAIN n.kids : WellFormed(n.kids[k])
  BY <1>1, WellFormedDef
<1>4. n.kids \in Seq(TreesTo[d])
  <2>1. (d + 1) - 1 = d /\ d + 1 \in Nat
    OBVIOUS
  <2> QED BY <2>1, TreeParts
<1>5. \A k \in DOMAIN n.kids : Ids(n.kids[k]) \subseteq Ids(n)
  BY <1>1, IdsDef
<1> QED BY <1>1, <1>2, <1>3, <1>4, <1>5, TreeKids DEF WellShaped, Shaped

\* A node in which the edit has gone on in each child.
LEMMA KeptAll ==
  ASSUME NEW d \in Nat, NEW e \in Nat, (d + e) + 1 <= MaxHeight, NEW n \in TreesTo[d + 1], WellFormed(n),
         NEW new \in SUBSET Nat, new \intersect Ids(n) = {},
         NEW ks, ks = [k \in DOMAIN n.kids |-> ks[k]],
         NEW i0, \A k \in DOMAIN n.kids : Kept(ks[k], n.kids[k], IF k = i0 THEN new ELSE {}, d, e)
  PROVE  Kept(WithKids(n, ks), n, new, d + 1, e)
<1>0. d + 1 <= MaxHeight
  BY MaxHeightAssumption
<1>1. n \in Tree /\ Shaped(n.kind, Len(n.kids)) /\ DOMAIN n.kids = 1..Len(n.kids) /\ Len(n.kids) \in Nat
  BY <1>0, KidsTo
<1>2. n.kind \in Conditions \union Nodes /\ n.cfg \in Nat
  BY <1>1, TreeKids
<1>3. ks \in Seq(TreesTo[d + e]) /\ Len(ks) = Len(n.kids)
  <2>1. \A k \in 1..Len(n.kids) : ks[k] \in TreesTo[d + e]
    BY <1>1 DEF Kept
  <2> QED BY <1>1, <2>1, KidsSeq, ZenonT(30)
<1> DEFINE g == [k \in 1..Len(ks) |-> k]
<1>4. g \in [1..Len(ks) -> 1..Len(n.kids)] /\ \A i \in 1..Len(ks) : g[i] = i
  BY <1>3
<1>5. WithKids(n, ks) = Rec(n.kind, n.id, n.cfg, ks)
  BY <1>1, WithKidsRec
<1> HIDE DEF g
<1>6. \A i \in 1..Len(ks) : Kept(ks[i], n.kids[g[i]], IF i = i0 THEN new ELSE {}, d, e)
  BY <1>1, <1>3, <1>4
<1>7. \A i, j \in 1..Len(ks) : g[i] = g[j] => i = j
  BY <1>4
<1>8. Shaped(n.kind, Len(ks))
  BY <1>1, <1>3
<1>9. Kept(Rec(n.kind, n.id, n.cfg, ks), n, new, d + 1, e)
  BY <1>2, <1>3, <1>4, <1>6, <1>7, <1>8, KeptMapped, ZenonT(30)
<1> QED BY <1>5, <1>9

\* The rows do not get fewer.
LEMMA SizeGrows ==
  ASSUME NEW m \in Tree, NEW n \in Tree, m.kind = n.kind, Len(m.kids) = Len(n.kids),
         \A k \in DOMAIN n.kids : Size[n.kids[k]] <= Size[m.kids[k]]
  PROVE  Size[n] <= Size[m]
<1> DEFINE w == Sizes(n)
           v == Sizes(m)
<1>1. DOMAIN n.kids = 1..Len(n.kids) /\ Labels(m) = Labels(n) /\ Labels(n) \in Nat
  <2>1. Labels(n) \in Nat
    BY LabelsType
  <2>2. Labels(m) = Labels(n)
    BY DEF Labels
  <2> QED BY <2>1, <2>2, TreeKids
<1>2. /\ w \in Seq(Nat) /\ Len(w) = Len(n.kids) /\ Size[n] = 1 + Total(w) /\ Total(w) \in Nat
      /\ \A k \in 1..Len(n.kids) : w[k] = Labels(n) + Size[n.kids[k]] /\ Size[n.kids[k]] \in Nat
  BY SizesDef
<1>3. /\ v \in Seq(Nat) /\ Len(v) = Len(n.kids) /\ Size[m] = 1 + Total(v) /\ Total(v) \in Nat
      /\ \A k \in 1..Len(n.kids) : v[k] = Labels(m) + Size[m.kids[k]] /\ Size[m.kids[k]] \in Nat
  BY SizesDef
<1> HIDE DEF w, v
<1>4. ASSUME NEW k \in 1..Len(w) PROVE w[k] <= v[k]
  <2> DEFINE l == Labels(n)
             x == Size[n.kids[k]]
             y == Size[m.kids[k]]
  <2>1. w[k] = l + x /\ v[k] = l + y /\ x <= y /\ l \in Nat /\ x \in Nat /\ y \in Nat
    BY <1>1, <1>2, <1>3
  <2> HIDE DEF l, x, y
  <2> QED BY <2>1
<1>5. Total(w) <= Total(v)
  BY <1>2, <1>3, <1>4, TotalGrows
<1> QED BY <1>2, <1>3, <1>5

LEMMA NoNew == \A x, y : (IF x = y THEN {} ELSE {}) = {}
  OBVIOUS

\* No edit of the children.
LEMMA KidsKept ==
  ASSUME NEW d \in Nat, d + 1 <= MaxHeight, NEW n \in TreesTo[d + 1], WellFormed(n)
  PROVE  \A k \in DOMAIN n.kids : Kept(n.kids[k], n.kids[k], {}, d, 0)
<1>1. d <= MaxHeight /\ \A k \in DOMAIN n.kids : n.kids[k] \in TreesTo[d] /\ WellFormed(n.kids[k])
  BY KidsTo
<1> QED BY <1>1, KeptSelf

\* Other settings.
LEMMA CfgKept ==
  ASSUME NEW d \in Nat, d + 1 <= MaxHeight, NEW n \in TreesTo[d + 1], WellFormed(n), NEW cfg \in Nat
  PROVE  Kept(WithCfg(n, cfg), n, {}, d + 1, 0) /\ Size[n] <= Size[WithCfg(n, cfg)]
<1>1. /\ n \in Tree /\ Shaped(n.kind, Len(n.kids)) /\ DOMAIN n.kids = 1..Len(n.kids) /\ n.kids \in Seq(TreesTo[d])
      /\ Len(n.kids) \in Nat
  BY KidsTo
<1>2. n.kind \in Conditions \union Nodes
  BY <1>1, TreeKids
<1> DEFINE g == [k \in 1..Len(n.kids) |-> k]
<1>3. g \in [1..Len(n.kids) -> 1..Len(n.kids)] /\ \A i \in 1..Len(n.kids) : g[i] = i
  OBVIOUS
<1> HIDE DEF g
<1>4. \A i \in 1..Len(n.kids) : Kept(n.kids[i], n.kids[g[i]], IF i = 0 THEN {} ELSE {}, d, 0)
  BY <1>1, <1>3, NoNew, KidsKept
<1>5. \A i, j \in 1..Len(n.kids) : g[i] = g[j] => i = j
  BY <1>3
<1>6. d + 0 = d /\ {} \in SUBSET Nat /\ {} \intersect Ids(n) = {} /\ (d + 0) + 1 <= MaxHeight /\ 0 \in Nat
  OBVIOUS
<1> DEFINE m == Rec(n.kind, n.id, cfg, n.kids)
<1>7. Kept(m, n, {}, d + 1, 0)
  BY <1>1, <1>2, <1>3, <1>4, <1>5, <1>6, KeptMapped
<1>8. WithCfg(n, cfg) = m
  BY <1>1, WithCfgRec
<1>9. m.kind = n.kind /\ m.kids = n.kids
  BY RecFields
<1> HIDE DEF m
<1>10. m \in Tree
  BY <1>7 DEF Kept
<1>11. \A k \in DOMAIN n.kids : Size[n.kids[k]] <= Size[m.kids[k]]
  <2> TAKE k \in DOMAIN n.kids
  <2>1. Size[n.kids[k]] \in Nat
    BY <1>1, TreeKids, SizeType
  <2> QED BY <1>9, <2>1
<1>12. Size[n] <= Size[m]
  BY <1>1, <1>9, <1>10, <1>11, SizeGrows
<1> QED BY <1>7, <1>8, <1>12

\* A node in which the edit has gone on in each child, and the rows.
LEMMA KeptDown ==
  ASSUME NEW d \in Nat, NEW e \in Nat, (d + e) + 1 <= MaxHeight, NEW n \in TreesTo[d + 1], WellFormed(n),
         NEW new \in SUBSET Nat, new \intersect Ids(n) = {},
         NEW ks, ks = [k \in DOMAIN n.kids |-> ks[k]],
         NEW i0, \A k \in DOMAIN n.kids : /\ Kept(ks[k], n.kids[k], IF k = i0 THEN new ELSE {}, d, e)
                                          /\ Size[n.kids[k]] <= Size[ks[k]]
  PROVE  Kept(WithKids(n, ks), n, new, d + 1, e) /\ Size[n] <= Size[WithKids(n, ks)]
<1> DEFINE m == WithKids(n, ks)
<1>0. \A k \in DOMAIN n.kids : Kept(ks[k], n.kids[k], IF k = i0 THEN new ELSE {}, d, e)
  OBVIOUS
<1>1. Kept(m, n, new, d + 1, e)
  BY <1>0, KeptAll
<1>2. n \in Tree
  <2>1. d + 1 <= MaxHeight
    BY MaxHeightAssumption
  <2> QED BY <2>1, KidsTo
<1>6. Len(ks) = Len(n.kids)
  <2>1. DOMAIN n.kids = 1..Len(n.kids)
    BY <1>2, TreeKids
  <2>2. \A k \in 1..Len(n.kids) : ks[k] \in Tree
    BY <1>0, <2>1 DEF Kept
  <2> QED BY <1>2, <2>2, KidsSeq
<1>3. m.kind = n.kind /\ m.kids = ks
  BY <1>2, WithKidsRec, RecFields
<1> HIDE DEF m
<1>4. m \in Tree
  BY <1>1 DEF Kept
<1>5. Size[n] <= Size[m]
  BY <1>6, <1>2, <1>3, <1>4, SizeGrows
<1> QED BY <1>1, <1>5 DEF m

\* With no new name and no new level.
LEMMA KeptOn ==
  ASSUME NEW d \in Nat, d + 1 <= MaxHeight, NEW n \in TreesTo[d + 1], WellFormed(n),
         NEW ks, ks = [k \in DOMAIN n.kids |-> ks[k]],
         \A k \in DOMAIN n.kids : Kept(ks[k], n.kids[k], {}, d, 0) /\ Size[n.kids[k]] <= Size[ks[k]]
  PROVE  Kept(WithKids(n, ks), n, {}, d + 1, 0) /\ Size[n] <= Size[WithKids(n, ks)]
<1>1. {} \in SUBSET Nat /\ {} \intersect Ids(n) = {} /\ (d + 0) + 1 <= MaxHeight /\ 0 \in Nat
  OBVIOUS
<1>2. \A k \in DOMAIN n.kids : /\ Kept(ks[k], n.kids[k], IF k = 0 THEN {} ELSE {}, d, 0)
                               /\ Size[n.kids[k]] <= Size[ks[k]]
  BY NoNew
<1>3. \A new \in SUBSET Nat : \A e \in Nat : \A i0 :
        /\ (d + e) + 1 <= MaxHeight
        /\ new \intersect Ids(n) = {}
        /\ \A k \in DOMAIN n.kids : /\ Kept(ks[k], n.kids[k], IF k = i0 THEN new ELSE {}, d, e)
                                    /\ Size[n.kids[k]] <= Size[ks[k]]
        => Kept(WithKids(n, ks), n, new, d + 1, e) /\ Size[n] <= Size[WithKids(n, ks)]
  BY KeptDown, ZenonT(30)
<1> QED BY <1>1, <1>2, <1>3

\* The update keeps the tree well-formed.
LEMMA UpdatingKept ==
  ASSUME NEW pos, NEW cfg \in Nat
  PROVE  \A n \in Tree : \A d \in Nat : d <= MaxHeight /\ n \in TreesTo[d] /\ WellFormed(n) =>
           \A at \in Nat : /\ Kept(Updating(pos, cfg)[n][at], n, {}, d, 0)
                           /\ Size[n] <= Size[Updating(pos, cfg)[n][at]]
<1> DEFINE U == Updating(pos, cfg)
           S == {n \in Tree : \A d \in Nat : d <= MaxHeight /\ n \in TreesTo[d] /\ WellFormed(n) =>
                   \A at \in Nat : Kept(U[n][at], n, {}, d, 0) /\ Size[n] <= Size[U[n][at]]}
<1>1. ASSUME NEW n \in Tree, \A k \in DOMAIN n.kids : n.kids[k] \in S PROVE n \in S
  <2> SUFFICES ASSUME NEW d \in Nat, d <= MaxHeight, n \in TreesTo[d], WellFormed(n), NEW at \in Nat
               PROVE  Kept(U[n][at], n, {}, d, 0) /\ Size[n] <= Size[U[n][at]]
    OBVIOUS
  <2>1. PICK c \in Nat : d = c + 1
    <3>1. d > 0
      BY TreeParts
    <3>2. d - 1 \in Nat /\ d = (d - 1) + 1
      BY <3>1
    <3> QED BY <3>2
  <2>2. c + 1 <= MaxHeight /\ n \in TreesTo[c + 1]
    BY <2>1
  <2>3. c <= MaxHeight /\ \A k \in DOMAIN n.kids : n.kids[k] \in TreesTo[c] /\ WellFormed(n.kids[k])
    BY <2>2, KidsTo
  <2>4. CASE HasSettings(n) /\ at = pos
    <3>1. U[n][at] = WithCfg(n, cfg)
      BY <2>4, UpdatingHit
    <3> QED BY <2>1, <2>2, <3>1, CfgKept
  <2>5. CASE ~(HasSettings(n) /\ at = pos) /\ NotEntered(n)
    <3>1. U[n][at] = n
      BY <2>5, UpdatingStops
    <3>2. Size[n] \in Nat
      BY SizeType
    <3> QED BY <3>1, <3>2, KeptSelf
  <2>6. CASE ~(HasSettings(n) /\ at = pos) /\ ~NotEntered(n)
    <3> DEFINE ks == KidsUpdated(n, at, pos, cfg)
    <3>1. U[n][at] = WithKids(n, ks)
      BY <2>6, UpdatingDown
    <3>2. ks = [k \in DOMAIN n.kids |-> ks[k]]
      BY DEF KidsUpdated
    <3>3. \A k \in DOMAIN n.kids : ks[k] = U[n.kids[k]][at + CountFirst(n, k)]
      BY <2>6, KidsUpdatedDef
    <3>4. \A k \in DOMAIN n.kids : at + CountFirst(n, k) \in Nat
      <4> TAKE k \in DOMAIN n.kids
      <4>1. CountFirst(n, k) \in Nat
        BY <2>6, TreeKids, CountFirstDef
      <4> QED BY <4>1
    <3> HIDE DEF ks, U
    <3>5. \A k \in DOMAIN n.kids : Kept(ks[k], n.kids[k], {}, c, 0) /\ Size[n.kids[k]] <= Size[ks[k]]
      <4> TAKE k \in DOMAIN n.kids
      <4>1. Kept(ks[k], n.kids[k], {}, c, 0) /\ Size[n.kids[k]] <= Size[ks[k]]
        BY <1>1, <2>3, <3>3, <3>4
      <4> QED BY <4>1
    <3>6. Kept(WithKids(n, ks), n, {}, c + 1, 0) /\ Size[n] <= Size[WithKids(n, ks)]
      BY <2>2, <3>2, <3>5, KeptOn
    <3> QED BY <2>1, <3>1, <3>6
  <2> QED BY <2>4, <2>5, <2>6
<1>2. Tree \subseteq S
  <2> HIDE DEF S
  <2> QED BY <1>1, TreeInduction
<1> QED BY <1>2

-----------------------------------------------------------------------------
(* Two neighbours swapped.                                                 *)

\* The children a and a + 1 change places.
KidsTurned(n, a) == [k \in DOMAIN n.kids |-> IF k = a THEN n.kids[a + 1] ELSE IF k = a + 1 THEN n.kids[a] ELSE n.kids[k]]

LEMMA TurnedKept ==
  ASSUME NEW d \in Nat, d + 1 <= MaxHeight, NEW n \in TreesTo[d + 1], WellFormed(n),
         NEW a \in DOMAIN n.kids, a + 1 \in DOMAIN n.kids
  PROVE  /\ Kept(WithKids(n, KidsTurned(n, a)), n, {}, d + 1, 0)
         /\ Size[n] <= Size[WithKids(n, KidsTurned(n, a))]
<1>1. /\ n \in Tree /\ Shaped(n.kind, Len(n.kids)) /\ DOMAIN n.kids = 1..Len(n.kids) /\ Len(n.kids) \in Nat
      /\ \A k \in DOMAIN n.kids : n.kids[k] \in TreesTo[d] /\ n.kids[k] \in Tree
  BY KidsTo
<1>2. n.kind \in Conditions \union Nodes /\ n.cfg \in Nat
  BY <1>1, TreeKids
<1>a. a \in 1..Len(n.kids) - 1
  BY <1>1
<1> DEFINE ks == KidsTurned(n, a)
           g == [k \in 1..Len(n.kids) |-> IF k = a THEN a + 1 ELSE IF k = a + 1 THEN a ELSE k]
           m == WithKids(n, ks)
<1>3. /\ g \in [1..Len(n.kids) -> 1..Len(n.kids)]
      /\ \A i, j \in 1..Len(n.kids) : g[i] = g[j] => i = j
  BY <1>1, <1>a
<1>4. ks = [k \in DOMAIN n.kids |-> ks[k]] /\ \A k \in 1..Len(n.kids) : ks[k] = n.kids[g[k]]
  BY <1>1, <1>a DEF KidsTurned
<1>5. ks[a] = n.kids[a + 1] /\ ks[a + 1] = n.kids[a] /\ \A k \in DOMAIN n.kids : k # a /\ k # a + 1 => ks[k] = n.kids[k]
  BY <1>1, <1>a DEF KidsTurned
<1> HIDE DEF g, ks
<1>6. ks \in Seq(TreesTo[d]) /\ Len(ks) = Len(n.kids)
  <2>1. \A k \in 1..Len(n.kids) : ks[k] \in TreesTo[d]
    BY <1>1, <1>3, <1>4
  <2> QED BY <1>1, <1>4, <2>1, KidsSeq
<1>7. m = Rec(n.kind, n.id, n.cfg, ks)
  BY <1>1, WithKidsRec
<1>8. \A i \in 1..Len(ks) : Kept(ks[i], n.kids[g[i]], IF i = 0 THEN {} ELSE {}, d, 0)
  <2> TAKE i \in 1..Len(ks)
  <2>1. ks[i] = n.kids[g[i]] /\ g[i] \in DOMAIN n.kids
    BY <1>1, <1>3, <1>4, <1>6
  <2>2. Kept(ks[i], n.kids[g[i]], {}, d, 0)
    BY <2>1, KidsKept
  <2> QED BY <2>2, NoNew
<1>9. d + 0 = d /\ {} \in SUBSET Nat /\ {} \intersect Ids(n) = {} /\ (d + 0) + 1 <= MaxHeight /\ 0 \in Nat
  OBVIOUS
<1>10. Kept(Rec(n.kind, n.id, n.cfg, ks), n, {}, d + 1, 0)
  BY <1>1, <1>2, <1>3, <1>6, <1>8, <1>9, KeptMapped
<1>11. m.kind = n.kind /\ m.kids = ks
  BY <1>7, RecFields
<1> HIDE DEF m
<1>12. m \in Tree
  BY <1>7, <1>10 DEF Kept
<1>13. Size[m] = Size[n]
  <2> DEFINE w == Sizes(n)
             v == Sizes(m)
  <2>1. Labels(m) = Labels(n)
    BY <1>11 DEF Labels
  <2>2. /\ w \in Seq(Nat) /\ Len(w) = Len(n.kids) /\ Size[n] = 1 + Total(w)
        /\ \A k \in 1..Len(n.kids) : w[k] = Labels(n) + Size[n.kids[k]]
    BY <1>1, SizesDef
  <2>3. /\ v \in Seq(Nat) /\ Len(v) = Len(n.kids) /\ Size[m] = 1 + Total(v)
        /\ \A k \in 1..Len(n.kids) : v[k] = Labels(n) + Size[ks[k]]
    BY <1>6, <1>11, <1>12, <2>1, SizesDef
  <2> HIDE DEF w, v
  <2>4. v[a] = w[a + 1] /\ v[a + 1] = w[a]
    <3>1. a + 1 \in 1..Len(n.kids) /\ a \in 1..Len(n.kids)
      BY <1>1
    <3> QED BY <1>5, <2>2, <2>3, <3>1
  <2>5. \A k \in 1..Len(w) : k # a /\ k # a + 1 => v[k] = w[k]
    BY <1>1, <1>5, <2>2, <2>3
  <2>6. a \in 1..Len(w) - 1 /\ Len(v) = Len(w)
    BY <1>a, <2>2, <2>3
  <2>7. Total(v) = Total(w)
    BY <2>2, <2>3, <2>4, <2>5, <2>6, TotalSwap
  <2> QED BY <2>2, <2>3, <2>7
<1>14. Size[n] \in Nat
  BY <1>1, SizeType
<1> QED BY <1>7, <1>10, <1>13, <1>14 DEF m, ks

\* A child and its neighbour.
LEMMA NeighbourTurned ==
  ASSUME NEW n \in Tree, NEW i \in DOMAIN n.kids, NEW up, Neighbour(n.kids, i, up) # {}
  PROVE  \E a \in DOMAIN n.kids : /\ a + 1 \in DOMAIN n.kids
                                  /\ Swapped(n.kids, i, Neighbour(n.kids, i, up)) = KidsTurned(n, a)
<1>1. DOMAIN n.kids = 1..Len(n.kids) /\ Len(n.kids) \in Nat
  BY TreeKids
<1> DEFINE j == IF up THEN i - 1 ELSE i + 1
<1>2. Neighbour(n.kids, i, up) = {j} /\ j \in DOMAIN n.kids
  BY DEF Neighbour
<1>3. Swapped(n.kids, i, {j}) = [k \in DOMAIN n.kids |-> IF k = i THEN n.kids[j] ELSE IF k = j THEN n.kids[i] ELSE n.kids[k]]
  <2>1. (CHOOSE x \in {j} : TRUE) = j
    OBVIOUS
  <2> HIDE DEF j
  <2> QED BY <2>1 DEF Swapped
<1>4. CASE up
  <2>1. j \in DOMAIN n.kids /\ j + 1 = i
    BY <1>1, <1>2, <1>4
  <2>2. Swapped(n.kids, i, {j}) = KidsTurned(n, j)
    <3> HIDE DEF j
    <3> QED BY <1>3, <2>1 DEF KidsTurned
  <2> QED BY <1>2, <2>1, <2>2
<1>5. CASE ~up
  <2>1. i + 1 = j
    BY <1>5
  <2>2. Swapped(n.kids, i, {j}) = KidsTurned(n, i)
    <3> HIDE DEF j
    <3> QED BY <1>3, <2>1 DEF KidsTurned
  <2> QED BY <1>2, <2>1, <2>2
<1> QED BY <1>4, <1>5

\* And with no neighbour nothing is swapped.
LEMMA NoNeighbour ==
  ASSUME NEW n \in Tree, NEW i
  PROVE  WithKids(n, Swapped(n.kids, i, {})) = n
<1> DEFINE ks == Swapped(n.kids, i, {})
<1>1. ks = [j \in DOMAIN n.kids |-> ks[j]] /\ \A j \in DOMAIN n.kids : ks[j] = n.kids[j]
  BY DEF Swapped
<1> HIDE DEF ks
<1>2. WithKids(n, ks) = n
  BY <1>1, SameTree
<1> QED BY <1>2 DEF ks

\* The move keeps the tree well-formed, and its rows.
LEMMA MovingKept ==
  ASSUME NEW pos, NEW up
  PROVE  \A n \in Tree : \A d \in Nat : d <= MaxHeight /\ n \in TreesTo[d] /\ WellFormed(n) =>
           \A at \in Nat : /\ Kept(Moving(pos, up)[n][at], n, {}, d, 0)
                           /\ Size[n] <= Size[Moving(pos, up)[n][at]]
<1> DEFINE U == Moving(pos, up)
           S == {n \in Tree : \A d \in Nat : d <= MaxHeight /\ n \in TreesTo[d] /\ WellFormed(n) =>
                   \A at \in Nat : Kept(U[n][at], n, {}, d, 0) /\ Size[n] <= Size[U[n][at]]}
<1>1. ASSUME NEW n \in Tree, \A k \in DOMAIN n.kids : n.kids[k] \in S PROVE n \in S
  <2> SUFFICES ASSUME NEW d \in Nat, d <= MaxHeight, n \in TreesTo[d], WellFormed(n), NEW at \in Nat
               PROVE  Kept(U[n][at], n, {}, d, 0) /\ Size[n] <= Size[U[n][at]]
    OBVIOUS
  <2>1. PICK c \in Nat : d = c + 1
    <3>1. d > 0
      BY TreeParts
    <3>2. d - 1 \in Nat /\ d = (d - 1) + 1
      BY <3>1
    <3> QED BY <3>2
  <2>2. c + 1 <= MaxHeight /\ n \in TreesTo[c + 1]
    BY <2>1
  <2>3. c <= MaxHeight /\ \A k \in DOMAIN n.kids : /\ n.kids[k] \in TreesTo[c] /\ WellFormed(n.kids[k])
                                                   /\ n.kids[k] \in Tree
    BY <2>2, KidsTo
  <2>4. CASE n.kind \in Lists /\ HitAt(n, at, pos) # {}
    <3> DEFINE i == CHOOSE x \in HitAt(n, at, pos) : TRUE
               T == Neighbour(n.kids, i, up)
    <3>1. U[n][at] = WithKids(n, Swapped(n.kids, i, T))
      BY <2>4, MovingDef DEF KidsSwapped
    <3>2. i \in DOMAIN n.kids
      <4>1. i \in HitAt(n, at, pos)
        BY <2>4
      <4> QED BY <4>1 DEF HitAt
    <3> HIDE DEF i, U
    <3>3. CASE T = {}
      <4>1. U[n][at] = n
        BY <3>1, <3>3, NoNeighbour
      <4>2. Size[n] \in Nat
        BY SizeType
      <4> QED BY <4>1, <4>2, KeptSelf
    <3>4. CASE T # {}
      <4>1. PICK a \in DOMAIN n.kids : a + 1 \in DOMAIN n.kids /\ Swapped(n.kids, i, T) = KidsTurned(n, a)
        BY <3>2, <3>4, NeighbourTurned
      <4> QED BY <2>1, <2>2, <3>1, <4>1, TurnedKept
    <3> QED BY <3>3, <3>4
  <2>5. CASE ~(n.kind \in Lists /\ HitAt(n, at, pos) # {})
    <3> DEFINE ks == KidsMoved(n, at, pos, up)
    <3>1. U[n][at] = WithKids(n, ks)
      BY <2>5, MovingDef
    <3>2. ks = [k \in DOMAIN n.kids |-> ks[k]]
      BY DEF KidsMoved
    <3>3. \A k \in DOMAIN n.kids : ks[k] = U[n.kids[k]][at + First(n, k)] \/ ks[k] = n.kids[k]
      BY KidsMovedDef
    <3>4. \A k \in DOMAIN n.kids : at + First(n, k) \in Nat
      <4> TAKE k \in DOMAIN n.kids
      <4>1. First(n, k) \in Nat
        BY StartsFirst
      <4> QED BY <4>1
    <3> HIDE DEF ks, U
    <3>5. \A k \in DOMAIN n.kids : Kept(ks[k], n.kids[k], {}, c, 0) /\ Size[n.kids[k]] <= Size[ks[k]]
      <4> TAKE k \in DOMAIN n.kids
      <4>1. CASE ks[k] = U[n.kids[k]][at + First(n, k)]
        <5>1. Kept(ks[k], n.kids[k], {}, c, 0) /\ Size[n.kids[k]] <= Size[ks[k]]
          BY <1>1, <2>3, <3>4, <4>1
        <5> QED BY <5>1
      <4>2. CASE ks[k] = n.kids[k]
        <5>1. Kept(ks[k], n.kids[k], {}, c, 0) /\ Size[n.kids[k]] \in Nat
          BY <2>3, <4>2, KeptSelf, SizeType
        <5> QED BY <4>2, <5>1
      <4> QED BY <3>3, <4>1, <4>2
    <3>6. Kept(WithKids(n, ks), n, {}, c + 1, 0) /\ Size[n] <= Size[WithKids(n, ks)]
      BY <2>2, <3>2, <3>5, KeptOn
    <3> QED BY <2>1, <3>1, <3>6
  <2> QED BY <2>4, <2>5
<1>2. Tree \subseteq S
  <2> HIDE DEF S
  <2> QED BY <1>1, TreeInduction
<1> QED BY <1>2

\* The same with room to spare.
LEMMA KeptMono ==
  ASSUME NEW d \in Nat, NEW e \in Nat, NEW f \in Nat, e <= f, d + f <= MaxHeight, NEW m, NEW n,
         NEW old, NEW new, old \subseteq new, Kept(m, n, old, d, e)
  PROVE  Kept(m, n, new, d, f)
<1>1. d + e \in Nat /\ d + f \in Nat /\ d + e <= d + f
  OBVIOUS
<1>2. TreesTo[d + e] \subseteq TreesTo[d + f]
  BY <1>1, TreesMono
<1> QED BY <1>2 DEF Kept

\* No edit, with room to spare.
LEMMA KeptSpare ==
  ASSUME NEW d \in Nat, d + 1 <= MaxHeight, NEW n \in TreesTo[d], WellFormed(n), NEW new
  PROVE  Kept(n, n, new, d, 1) /\ Size[n] <= Size[n]
<1>1. d <= MaxHeight /\ 0 \in Nat /\ 1 \in Nat /\ 0 <= 1 /\ {} \subseteq new
  BY MaxHeightAssumption
<1>2. Kept(n, n, {}, d, 0) /\ n \in Tree
  BY <1>1, KeptSelf
<1>3. Kept(n, n, new, d, 1)
  BY <1>1, <1>2, KeptMono
<1>4. Size[n] \in Nat
  BY <1>2, SizeType
<1> QED BY <1>3, <1>4

LEMMA Single == \A T : \A n \in T : <<n>> \in Seq(T) /\ Len(<<n>>) = 1 /\ DOMAIN <<n>> = {1} /\ <<n>>[1] = n
<1> TAKE T
<1> TAKE n \in T
<1>1. <<n>> \in Seq(T) /\ Len(<<n>>) = 1 /\ <<n>>[1] = n
  OBVIOUS
<1>2. DOMAIN <<n>> = 1..1 /\ 1..1 = {1}
  OBVIOUS
<1> QED BY <1>1, <1>2

LEMMA Pair ==
  \A T : \A a, b \in T : /\ <<a, b>> \in Seq(T) /\ Len(<<a, b>>) = 2 /\ DOMAIN <<a, b>> = {1, 2}
                        /\ <<a, b>>[1] = a /\ <<a, b>>[2] = b
<1> SUFFICES ASSUME NEW T, NEW a \in T, NEW b \in T
             PROVE  /\ <<a, b>> \in Seq(T) /\ Len(<<a, b>>) = 2 /\ DOMAIN <<a, b>> = {1, 2}
                    /\ <<a, b>>[1] = a /\ <<a, b>>[2] = b
  OBVIOUS
<1>1. <<a, b>> \in Seq(T) /\ Len(<<a, b>>) = 2 /\ <<a, b>>[1] = a /\ <<a, b>>[2] = b
  OBVIOUS
<1>2. DOMAIN <<a, b>> = 1..2 /\ 1..2 = {1, 2}
  OBVIOUS
<1> QED BY <1>1, <1>2

-----------------------------------------------------------------------------
(* A new node around trees.                                                *)

\* A new node around some trees.
Around(id, ks) ==
  /\ \A i \in DOMAIN ks : WellFormed(ks[i]) /\ id \notin Ids(ks[i])
  /\ \A i, j \in DOMAIN ks : i # j => Ids(ks[i]) \intersect Ids(ks[j]) = {}

LEMMA NodeAround ==
  ASSUME NEW d \in Nat, d + 1 <= MaxHeight, NEW kind \in Conditions \union Nodes, NEW id \in Nat, NEW cfg \in Nat,
         NEW ks \in Seq(TreesTo[d]), Shaped(kind, Len(ks)), Around(id, ks),
         \A i \in DOMAIN ks : ks[i].kind \in Conditions <=> kind \in Conditions
  PROVE  /\ Rec(kind, id, cfg, ks) \in TreesTo[d + 1] /\ Rec(kind, id, cfg, ks) \in Tree
         /\ WellFormed(Rec(kind, id, cfg, ks))
         /\ \A x \in Ids(Rec(kind, id, cfg, ks)) : x = id \/ \E i \in DOMAIN ks : x \in Ids(ks[i])
<1> DEFINE m == Rec(kind, id, cfg, ks)
<1>1. m \in TreesTo[d + 1] /\ m \in Tree
  BY RecTree
<1>2. m.kind = kind /\ m.id = id /\ m.kids = ks
  BY RecFields
<1> HIDE DEF m
<1>3. WellShaped(m)
  BY <1>2 DEF WellShaped, Shaped
<1>4. Apart(m)
  <2>1. ASSUME NEW i \in DOMAIN ks, NEW j \in 1..i - 1 PROVE Ids(ks[i]) \intersect Ids(ks[j]) = {}
    <3>1. j \in DOMAIN ks /\ i # j
      OBVIOUS
    <3> QED BY <3>1 DEF Around
  <2> QED BY <1>2, <2>1 DEF Apart, Around
<1>5. WellFormed(m)
  BY <1>1, <1>2, <1>3, <1>4, WellFormedDef DEF Around
<1> QED BY <1>1, <1>2, <1>5, IdsDef DEF m

-----------------------------------------------------------------------------
(* Wrapping.                                                               *)

KidsWrapped(n, at, pos, kind, id) ==
  [k \in DOMAIN n.kids |-> Wrapping(pos, kind, id)[n.kids[k]][Starts(n, at, Sizes(n))[k]]]

LEMMA WrappingDef ==
  ASSUME NEW pos, NEW kind, NEW id, NEW n \in Tree, NEW at \in Nat
  PROVE  Wrapping(pos, kind, id)[n][at]
           = IF at = pos THEN wrap_expr(n, kind, id) ELSE WithKids(n, KidsWrapped(n, at, pos, kind, id))
<1> DEFINE U == Wrapping(pos, kind, id)
           Body(m, a) ==
             IF a = pos THEN wrap_expr(m, kind, id)
             ELSE LET from == Starts(m, a, Sizes(m))
                  IN  [m EXCEPT !.kids = [k \in DOMAIN m.kids |-> U[m.kids[k]][from[k]]]]
<1>1. U = [m \in Tree |-> [a \in Nat |-> Body(m, a)]]
  BY WrappingIs
<1>2. Body(n, at) = IF at = pos THEN wrap_expr(n, kind, id) ELSE WithKids(n, KidsWrapped(n, at, pos, kind, id))
  BY DEF KidsWrapped, WithKids
<1> HIDE DEF Body, U
<1>3. U[n][at] = Body(n, at)
  BY <1>1
<1> QED BY <1>2, <1>3 DEF U

LEMMA KidsWrappedDef ==
  ASSUME NEW n \in Tree, NEW at \in Nat, NEW pos, NEW kind, NEW id
  PROVE  \A k \in DOMAIN n.kids :
           KidsWrapped(n, at, pos, kind, id)[k] = Wrapping(pos, kind, id)[n.kids[k]][at + First(n, k)]
<1>1. \A k \in DOMAIN n.kids : Starts(n, at, Sizes(n))[k] = at + First(n, k)
  BY StartsFirst
<1> QED BY <1>1 DEF KidsWrapped

\* Not among the rows of a tree that starts there.
Outside(n, at, pos) == pos < at \/ at + Size[n] <= pos

\* Nothing is wrapped where the position is not.
LEMMA WrappingAway ==
  ASSUME NEW pos \in Nat, NEW kind, NEW id
  PROVE  \A n \in Tree : \A at \in Nat : Outside(n, at, pos) => Wrapping(pos, kind, id)[n][at] = n
<1> DEFINE U == Wrapping(pos, kind, id)
           S == {n \in Tree : \A at \in Nat : Outside(n, at, pos) => U[n][at] = n}
<1>1. ASSUME NEW n \in Tree, \A k \in DOMAIN n.kids : n.kids[k] \in S PROVE n \in S
  <2> SUFFICES ASSUME NEW at \in Nat, Outside(n, at, pos) PROVE U[n][at] = n
    OBVIOUS
  <2> DEFINE ks == KidsWrapped(n, at, pos, kind, id)
  <2>1. at # pos
    BY SizeType DEF Outside
  <2>2. U[n][at] = WithKids(n, ks)
    BY <2>1, WrappingDef
  <2>3. ks = [k \in DOMAIN n.kids |-> ks[k]]
    BY DEF KidsWrapped
  <2>4. \A k \in DOMAIN n.kids : ks[k] = U[n.kids[k]][at + First(n, k)]
    BY KidsWrappedDef
  <2> HIDE DEF ks, U
  <2>5. ASSUME NEW k \in DOMAIN n.kids PROVE ks[k] = n.kids[k]
    <3> DEFINE f == First(n, k)
               z == Size[n.kids[k]]
               w == Size[n]
    <3>1. f \in Nat /\ z \in Nat /\ f + z <= w /\ w \in Nat
      BY TreeKids, FirstDef, SizeType
    <3>2. pos < at \/ at + w <= pos
      BY DEF Outside
    <3> HIDE DEF f, z, w
    <3>3. at + f \in Nat /\ (pos < at + f \/ (at + f) + z <= pos)
      BY <3>1, <3>2
    <3>4. at + f \in Nat /\ Outside(n.kids[k], at + f, pos)
      BY <3>3 DEF Outside, z
    <3>5. U[n.kids[k]][at + f] = n.kids[k]
      BY <1>1, <3>4
    <3> QED BY <2>4, <3>5 DEF f
  <2>6. WithKids(n, ks) = n
    BY <2>3, <2>5, SameTree
  <2> QED BY <2>2, <2>6
<1>2. Tree \subseteq S
  <2> HIDE DEF S
  <2> QED BY <1>1, TreeInduction
<1> QED BY <1>2

\* A position is outside of all children but one.
LEMMA OutsideOthers ==
  ASSUME NEW n \in Tree, NEW at \in Nat, NEW pos \in Nat
  PROVE  \E i : \A k \in DOMAIN n.kids : k # i => Outside(n.kids[k], at + First(n, k), pos)
<1>1. \A k \in DOMAIN n.kids : First(n, k) \in Nat /\ Size[n.kids[k]] \in Nat
  BY StartsFirst
<1>2. CASE \A k \in DOMAIN n.kids : Outside(n.kids[k], at + First(n, k), pos)
  BY <1>2
<1>3. ASSUME NEW i \in DOMAIN n.kids, ~Outside(n.kids[i], at + First(n, i), pos),
             NEW k \in DOMAIN n.kids, k # i
      PROVE  Outside(n.kids[k], at + First(n, k), pos)
  <2> DEFINE f == First(n, i)
             g == First(n, k)
             x == Size[n.kids[i]]
             y == Size[n.kids[k]]
  <2>1. f \in Nat /\ g \in Nat /\ x \in Nat /\ y \in Nat
    BY <1>1
  <2>2. ~(pos < at + f \/ (at + f) + x <= pos)
    BY <1>3 DEF Outside
  <2>3. f + x <= g \/ g + y <= f
    BY <1>3, FirstApart
  <2> HIDE DEF f, g, x, y
  <2>4. pos < at + g \/ (at + g) + y <= pos
    BY <2>1, <2>2, <2>3
  <2> QED BY <2>4 DEF Outside, g, y
<1> QED BY <1>2, <1>3

Wraps == {"And", "Or", "Not"}

\* The node at the position is wrapped.
LEMMA WrapHere ==
  ASSUME NEW d \in Nat, d + 1 <= MaxHeight, NEW n \in TreesTo[d], WellFormed(n), n.kind \in Conditions,
         NEW kind \in Wraps, NEW id \in Nat, id \notin Ids(n)
  PROVE  Kept(wrap_expr(n, kind, id), n, {id}, d, 1) /\ Size[n] <= Size[wrap_expr(n, kind, id)]
<1>1. n \in Tree
  <2>1. d <= MaxHeight
    BY MaxHeightAssumption
  <2> QED BY <2>1, KeptSelf
<1>2. CASE kind # "Not" /\ n.kind = GroupOf(kind)
  BY <1>2, KeptSpare DEF wrap_expr
<1>3. CASE ~(kind # "Not" /\ n.kind = GroupOf(kind))
  <2> DEFINE ks == <<n>>
             g == GroupOf(kind)
             m == Rec(g, id, id, ks)
  <2>1. wrap_expr(n, kind, id) = m
    BY <1>3 DEF wrap_expr, Node, Rec
  <2>2. g \in {"All", "Any", "Not"}
    BY DEF GroupOf, Wraps
  <2>3. ks \in Seq(TreesTo[d]) /\ Len(ks) = 1 /\ DOMAIN ks = {1} /\ ks[1] = n
    BY Single
  <2> HIDE DEF ks, g
  <2>4. Shaped(g, Len(ks)) /\ g \in Conditions \union Nodes /\ g \in Conditions /\ g # "If"
    BY <2>2, <2>3 DEF Shaped, Leaves, Bodies, Conditions
  <2>5. Around(id, ks)
    BY <2>3 DEF Around
  <2>6. \A i \in DOMAIN ks : ks[i].kind \in Conditions <=> g \in Conditions
    BY <2>3, <2>4
  <2>7. /\ m \in TreesTo[d + 1] /\ m \in Tree /\ WellFormed(m)
        /\ \A x \in Ids(m) : x = id \/ \E i \in DOMAIN ks : x \in Ids(ks[i])
    BY <2>3, <2>4, <2>5, <2>6, NodeAround
  <2>8. m.kind = g /\ m.kids = ks
    BY RecFields
  <2> HIDE DEF m
  <2>9. Kept(m, n, {id}, d, 1)
    BY <2>3, <2>4, <2>7, <2>8 DEF Kept
  <2>10. First(m, 1) \in Nat /\ First(m, 1) + Size[m.kids[1]] <= Size[m] /\ Size[m.kids[1]] \in Nat /\ Size[m] \in Nat
    <3>1. m \in Tree /\ 1 \in 1..Len(m.kids)
      <4>1. 1 \in 1..1
        OBVIOUS
      <4> QED BY <2>3, <2>7, <2>8, <4>1
    <3> QED BY <3>1, FirstDef, SizeType
  <2>11. Size[n] <= Size[m]
    BY <2>3, <2>8, <2>10
  <2> QED BY <2>1, <2>9, <2>11
<1> QED BY <1>2, <1>3

\* The wrap keeps the tree well-formed; it adds a level and a name.
LEMMA WrappingKept ==
  ASSUME NEW pos \in Nat, NEW kind \in Wraps, NEW id \in Nat
  PROVE  \A n \in Tree : \A d \in Nat :
           d + 1 <= MaxHeight /\ n \in TreesTo[d] /\ WellFormed(n) /\ n.kind \in Conditions /\ id \notin Ids(n) =>
             \A at \in Nat : /\ Kept(Wrapping(pos, kind, id)[n][at], n, {id}, d, 1)
                             /\ Size[n] <= Size[Wrapping(pos, kind, id)[n][at]]
<1> DEFINE U == Wrapping(pos, kind, id)
           S == {n \in Tree : \A d \in Nat :
                   d + 1 <= MaxHeight /\ n \in TreesTo[d] /\ WellFormed(n) /\ n.kind \in Conditions /\ id \notin Ids(n) =>
                     \A at \in Nat : Kept(U[n][at], n, {id}, d, 1) /\ Size[n] <= Size[U[n][at]]}
<1>1. ASSUME NEW n \in Tree, \A k \in DOMAIN n.kids : n.kids[k] \in S PROVE n \in S
  <2> SUFFICES ASSUME NEW d \in Nat, d + 1 <= MaxHeight, n \in TreesTo[d], WellFormed(n), n.kind \in Conditions,
                      id \notin Ids(n), NEW at \in Nat
               PROVE  Kept(U[n][at], n, {id}, d, 1) /\ Size[n] <= Size[U[n][at]]
    OBVIOUS
  <2>1. CASE at = pos
    <3>1. U[n][at] = wrap_expr(n, kind, id)
      BY <2>1, WrappingDef
    <3> QED BY <3>1, WrapHere
  <2>2. CASE at # pos
    <3> DEFINE ks == KidsWrapped(n, at, pos, kind, id)
    <3>1. PICK c \in Nat : d = c + 1
      <4>1. d > 0
        BY TreeParts
      <4>2. d - 1 \in Nat /\ d = (d - 1) + 1
        BY <4>1
      <4> QED BY <4>2
    <3>2. (c + 1) + 1 <= MaxHeight /\ c + 1 <= MaxHeight /\ c <= MaxHeight /\ n \in TreesTo[c + 1] /\ 1 \in Nat
      BY <3>1, MaxHeightAssumption
    <3>3. \A k \in DOMAIN n.kids : /\ n.kids[k] \in TreesTo[c] /\ WellFormed(n.kids[k])
                                   /\ n.kids[k] \in Tree /\ n.kids[k].kind \in Conditions
                                   /\ id \notin Ids(n.kids[k])
      BY <3>2, KidsTo
    <3>4. U[n][at] = WithKids(n, ks)
      BY <2>2, WrappingDef
    <3>5. ks = [k \in DOMAIN n.kids |-> ks[k]]
      BY DEF KidsWrapped
    <3>6. \A k \in DOMAIN n.kids : ks[k] = U[n.kids[k]][at + First(n, k)] /\ at + First(n, k) \in Nat
      <4>1. \A k \in DOMAIN n.kids : ks[k] = U[n.kids[k]][at + First(n, k)]
        BY KidsWrappedDef
      <4>2. \A k \in DOMAIN n.kids : at + First(n, k) \in Nat
        BY StartsFirst
      <4> QED BY <4>1, <4>2
    <3>7. PICK i : \A k \in DOMAIN n.kids : k # i => Outside(n.kids[k], at + First(n, k), pos)
      BY OutsideOthers
    <3> HIDE DEF ks
    <3>8. \A k \in DOMAIN n.kids : /\ Kept(ks[k], n.kids[k], IF k = i THEN {id} ELSE {}, c, 1)
                                   /\ Size[n.kids[k]] <= Size[ks[k]]
      <4> TAKE k \in DOMAIN n.kids
      <4>1. CASE k = i
        <5> HIDE DEF U
        <5>1. Kept(ks[k], n.kids[k], {id}, c, 1) /\ Size[n.kids[k]] <= Size[ks[k]]
          BY <1>1, <3>2, <3>3, <3>6
        <5> QED BY <4>1, <5>1
      <4>2. CASE k # i
        <5>1. ks[k] = n.kids[k]
          BY <3>3, <3>6, <3>7, <4>2, WrappingAway
        <5>2. Kept(ks[k], n.kids[k], {}, c, 1) /\ Size[n.kids[k]] <= Size[ks[k]]
          BY <3>2, <3>3, <5>1, KeptSpare
        <5> QED BY <4>2, <5>2
      <4> QED BY <4>1, <4>2
    <3>9. {id} \in SUBSET Nat /\ {id} \intersect Ids(n) = {}
      OBVIOUS
    <3>10. Kept(WithKids(n, ks), n, {id}, c + 1, 1) /\ Size[n] <= Size[WithKids(n, ks)]
      <4> DEFINE new == {id}
      <4>1. \A k \in DOMAIN n.kids : /\ Kept(ks[k], n.kids[k], IF k = i THEN new ELSE {}, c, 1)
                                     /\ Size[n.kids[k]] <= Size[ks[k]]
        BY <3>8
      <4>2. new \in SUBSET Nat /\ new \intersect Ids(n) = {}
        BY <3>9
      <4> HIDE DEF new
      <4>3. \A x \in SUBSET Nat : \A f \in Nat : \A j :
              /\ (c + f) + 1 <= MaxHeight
              /\ x \intersect Ids(n) = {}
              /\ \A k \in DOMAIN n.kids : /\ Kept(ks[k], n.kids[k], IF k = j THEN x ELSE {}, c, f)
                                          /\ Size[n.kids[k]] <= Size[ks[k]]
              => Kept(WithKids(n, ks), n, x, c + 1, f) /\ Size[n] <= Size[WithKids(n, ks)]
        BY <3>2, <3>5, KeptDown
      <4>4. (c + 1) + 1 <= MaxHeight /\ 1 \in Nat
        BY <3>2
      <4>5. Kept(WithKids(n, ks), n, new, c + 1, 1) /\ Size[n] <= Size[WithKids(n, ks)]
        BY <4>1, <4>2, <4>3, <4>4
      <4> QED BY <4>5 DEF new
    <3> QED BY <3>1, <3>4, <3>10
  <2> QED BY <2>1, <2>2
<1>2. Tree \subseteq S
  <2> HIDE DEF S
  <2> QED BY <1>1, TreeInduction
<1> QED BY <1>2

\* One more child.
LEMMA SizeAppended ==
  ASSUME NEW n \in Tree, NEW m \in Tree, m.kind = n.kind, Len(m.kids) = Len(n.kids) + 1,
         \A k \in 1..Len(n.kids) : m.kids[k] = n.kids[k]
  PROVE  Size[n] <= Size[m]
<1> DEFINE l == Len(n.kids)
           w == Sizes(n)
           v == Sizes(m)
<1>1. l \in Nat /\ Labels(m) = Labels(n) /\ Labels(m) \in Nat
  <2>1. Labels(m) = Labels(n)
    BY DEF Labels
  <2>2. Labels(m) \in Nat
    BY LabelsType
  <2> QED BY <2>1, <2>2, TreeKids
<1>2. /\ w \in Seq(Nat) /\ Len(w) = l /\ Size[n] = 1 + Total(w) /\ Total(w) \in Nat
      /\ \A k \in 1..l : w[k] = Labels(n) + Size[n.kids[k]]
  BY SizesDef
<1>3. /\ v \in Seq(Nat) /\ Len(v) = l + 1
      /\ \A k \in 1..Len(m.kids) : v[k] = Labels(m) + Size[m.kids[k]]
  BY SizesDef
<1>4. l + 1 \in 1..Len(m.kids) /\ (l + 1) - 1 = l
  BY <1>1
<1>5. /\ First(m, l + 1) = 1 + Before(v)[(l + 1) - 1] + Labels(m) /\ First(m, l + 1) \in Nat
      /\ First(m, l + 1) + Size[m.kids[l + 1]] <= Size[m] /\ Size[m.kids[l + 1]] \in Nat
      /\ Before(v)[(l + 1) - 1] \in Nat
  BY <1>4, FirstDef
<1>6. ASSUME NEW k \in 1..l PROVE w[k] = v[k]
  <2>1. k \in 1..Len(m.kids) /\ m.kids[k] = n.kids[k]
    BY <1>1
  <2>2. v[k] = Labels(n) + Size[n.kids[k]]
    BY <1>1, <1>3, <2>1
  <2> QED BY <1>2, <2>2
<1>7. Before(v)[l] = Total(w)
  <2> HIDE DEF w, v
  <2>1. \A i \in 0..l : Before(w)[i] = Before(v)[i]
    <3>1. l <= Len(w) /\ l <= Len(v)
      BY <1>1, <1>2, <1>3
    <3> QED BY <1>1, <1>2, <1>3, <1>6, <3>1, BeforeSame
  <2>2. l \in 0..l
    BY <1>1
  <2> QED BY <1>2, <2>1, <2>2 DEF Total
<1>8. Size[m] \in Nat
  BY SizeType
<1> DEFINE t == Total(w)
           b == Before(v)[l]
           f == First(m, l + 1)
           z == Size[m.kids[l + 1]]
           c == Size[m]
           g == Labels(m)
<1>9. /\ t \in Nat /\ b = t /\ f = 1 + b + g /\ f + z <= c /\ z \in Nat /\ c \in Nat /\ g \in Nat /\ Size[n] = 1 + t
  BY <1>1, <1>2, <1>4, <1>5, <1>7, <1>8
<1> HIDE DEF t, b, f, z, c, g
<1>10. Size[n] <= c
  BY <1>9
<1> QED BY <1>10 DEF c

\* A tree that an edit brings, with names of its own.
Fresh(x, new) == x \in TreesTo[2] /\ x \in Tree /\ WellFormed(x) /\ Ids(x) \subseteq new

\* A new node behind the children of the root.
LEMMA AppendKept ==
  ASSUME NEW d \in Nat, 2 <= d, d + 1 <= MaxHeight, NEW n \in TreesTo[d], WellFormed(n), n.kind \in {"Seq", "All"},
         NEW new \in SUBSET Nat, new \intersect Ids(n) = {}, NEW x, Fresh(x, new),
         x.kind \in Conditions <=> n.kind \in Conditions
  PROVE  /\ Kept(WithKids(n, Append(n.kids, x)), n, new, d, 1)
         /\ Size[n] <= Size[WithKids(n, Append(n.kids, x))]
<1> DEFINE ks == Append(n.kids, x)
           m == WithKids(n, ks)
           l == Len(n.kids)
<1>1. PICK c \in Nat : d = c + 1
  <2>1. d - 1 \in Nat /\ d = (d - 1) + 1
    OBVIOUS
  <2> QED BY <2>1
<1>2. c + 1 <= MaxHeight /\ n \in TreesTo[c + 1] /\ d <= MaxHeight
  BY <1>1, MaxHeightAssumption
<1>3. /\ n \in Tree /\ DOMAIN n.kids = 1..l /\ l \in Nat /\ n.kids \in Seq(TreesTo[c])
      /\ \A k \in DOMAIN n.kids : /\ n.kids[k] \in TreesTo[c] /\ n.kids[k] \in Tree /\ WellFormed(n.kids[k])
                                  /\ n.kids[k].kind \in Conditions <=> n.kind \in Conditions
                                  /\ Ids(n.kids[k]) \subseteq Ids(n)
  BY <1>2, KidsTo
<1>4. TreesTo[c] \subseteq TreesTo[d] /\ TreesTo[2] \subseteq TreesTo[d]
  <2>1. c <= d /\ 2 \in Nat
    BY <1>1
  <2> QED BY <2>1, TreesMono
<1>5. x \in TreesTo[d] /\ n.kids \in Seq(TreesTo[d])
  BY <1>3, <1>4 DEF Fresh
<1>6. /\ ks \in Seq(TreesTo[d]) /\ Len(ks) = l + 1 /\ ks[l + 1] = x
      /\ \A k \in 1..l : ks[k] = n.kids[k]
  <2> DEFINE s == n.kids
  <2>1. s \in Seq(TreesTo[d]) /\ x \in TreesTo[d]
    BY <1>5
  <2> HIDE DEF s
  <2>2. /\ Append(s, x) \in Seq(TreesTo[d]) /\ Len(Append(s, x)) = Len(s) + 1 /\ Append(s, x)[Len(s) + 1] = x
        /\ \A k \in 1..Len(s) : Append(s, x)[k] = s[k]
    BY <2>1, AppendProperties
  <2> QED BY <2>2 DEF s
<1> HIDE DEF ks, l
<1>7. DOMAIN ks = 1..l + 1
  BY <1>6
<1>8. \A i \in DOMAIN ks : i = l + 1 \/ i \in 1..l
  BY <1>3, <1>7
<1>9. Apart(n) /\ n.id \in Nat /\ n.cfg \in Nat /\ n.kind \in Conditions \union Nodes
  BY <1>3, TreeKids, WellFormedDef
<1>10. n.id \in Ids(n)
  BY <1>3, IdsDef
<1>11. \A i \in 1..l : WellFormed(ks[i]) /\ n.id \notin Ids(ks[i]) /\ Ids(ks[i]) \subseteq Ids(n)
  BY <1>3, <1>6, <1>9, ApartDef
<1>12. Around(n.id, ks)
  <2>1. ASSUME NEW i \in DOMAIN ks PROVE WellFormed(ks[i]) /\ n.id \notin Ids(ks[i])
    <3>1. CASE i = l + 1
      BY <1>6, <1>10, <3>1 DEF Fresh
    <3> QED BY <1>8, <1>11, <3>1
  <2>2. ASSUME NEW i \in 1..l, NEW j \in 1..l, i # j PROVE Ids(ks[i]) \intersect Ids(ks[j]) = {}
    BY <1>3, <1>6, <1>9, <2>2, ApartDef
  <2>3. ASSUME NEW i \in 1..l PROVE Ids(ks[i]) \intersect Ids(ks[l + 1]) = {}
    BY <1>6, <1>11 DEF Fresh
  <2>4. ASSUME NEW i \in DOMAIN ks, NEW j \in DOMAIN ks, i # j PROVE Ids(ks[i]) \intersect Ids(ks[j]) = {}
    BY <1>8, <2>2, <2>3, <2>4
  <2> QED BY <2>1, <2>4 DEF Around
<1>13. \A i \in DOMAIN ks : ks[i].kind \in Conditions <=> n.kind \in Conditions
  BY <1>3, <1>6, <1>8
<1>14. Shaped(n.kind, Len(ks))
  BY DEF Shaped, Leaves, Bodies
<1> DEFINE r == Rec(n.kind, n.id, n.cfg, ks)
<1>15. /\ r \in TreesTo[d + 1] /\ r \in Tree /\ WellFormed(r)
       /\ \A y \in Ids(r) : y = n.id \/ \E i \in DOMAIN ks : y \in Ids(ks[i])
  BY <1>6, <1>9, <1>12, <1>13, <1>14, NodeAround
<1>16. m = r
  BY <1>3, WithKidsRec
<1>17. r.kind = n.kind /\ r.kids = ks
  BY RecFields
<1> HIDE DEF r, m
<1>18. Ids(r) \subseteq Ids(n) \union new
  <2> SUFFICES ASSUME NEW y \in Ids(r) PROVE y \in Ids(n) \union new
    OBVIOUS
  <2>1. ASSUME NEW i \in DOMAIN ks PROVE Ids(ks[i]) \subseteq Ids(n) \union new
    BY <1>6, <1>8, <1>11 DEF Fresh
  <2> QED BY <1>10, <1>15, <2>1
<1>19. Kept(r, n, new, d, 1)
  BY <1>15, <1>17, <1>18 DEF Kept
<1>20. Size[n] <= Size[r]
  BY <1>3, <1>6, <1>15, <1>17, SizeAppended DEF l
<1> QED BY <1>16, <1>19, <1>20 DEF m, ks

\* The root wrapped, with the new node behind it.
LEMMA BesideKept ==
  ASSUME NEW d \in Nat, 2 <= d, d + 1 <= MaxHeight, NEW n \in TreesTo[d], WellFormed(n),
         NEW kind \in {"Seq", "All"}, kind \in Conditions <=> n.kind \in Conditions,
         NEW new \in SUBSET Nat, new \intersect Ids(n) = {}, NEW x, Fresh(x, new),
         x.kind \in Conditions <=> n.kind \in Conditions,
         NEW id \in new, id \notin Ids(x)
  PROVE  Kept(Rec(kind, id, id, <<n, x>>), n, new, d, 1) /\ Size[n] <= Size[Rec(kind, id, id, <<n, x>>)]
<1> DEFINE ks == <<n, x>>
           r == Rec(kind, id, id, ks)
<1>1. x \in TreesTo[d] /\ n \in Tree
  <2>1. 2 \in Nat /\ d <= MaxHeight
    BY MaxHeightAssumption
  <2> QED BY <2>1, TreesMono, KeptSelf DEF Fresh
<1>2. ks \in Seq(TreesTo[d]) /\ Len(ks) = 2 /\ DOMAIN ks = {1, 2} /\ ks[1] = n /\ ks[2] = x
  BY <1>1, Pair
<1> HIDE DEF ks
<1>3. Around(id, ks)
  BY <1>2 DEF Around, Fresh
<1>4. Shaped(kind, Len(ks)) /\ kind \in Conditions \union Nodes
  BY DEF Shaped, Leaves, Bodies, Conditions, Nodes
<1>5. \A i \in DOMAIN ks : ks[i].kind \in Conditions <=> kind \in Conditions
  BY <1>2
<1>6. /\ r \in TreesTo[d + 1] /\ r \in Tree /\ WellFormed(r)
      /\ \A y \in Ids(r) : y = id \/ \E i \in DOMAIN ks : y \in Ids(ks[i])
  BY <1>2, <1>3, <1>4, <1>5, NodeAround
<1>7. r.kind = kind /\ r.kids = ks
  BY RecFields
<1> HIDE DEF r
<1>8. Ids(r) \subseteq Ids(n) \union new
  <2> SUFFICES ASSUME NEW y \in Ids(r) PROVE y \in Ids(n) \union new
    OBVIOUS
  <2> QED BY <1>2, <1>6 DEF Fresh
<1>9. Kept(r, n, new, d, 1)
  BY <1>6, <1>7, <1>8 DEF Kept
<1>10. First(r, 1) \in Nat /\ First(r, 1) + Size[r.kids[1]] <= Size[r] /\ Size[r.kids[1]] \in Nat /\ Size[r] \in Nat
  <2>1. r \in Tree /\ 1 \in 1..Len(r.kids)
    <3>1. 1 \in 1..2
      OBVIOUS
    <3> QED BY <1>2, <1>6, <1>7, <3>1
  <2> QED BY <2>1, FirstDef, SizeType
<1>11. Size[n] <= Size[r]
  BY <1>2, <1>7, <1>10
<1> QED BY <1>9, <1>11 DEF r, ks

\* The names that one edit may use.
NewIds(id) == id..id + 9

\* A new node without children.
LEMMA NewLeaf ==
  ASSUME 2 <= MaxHeight, NEW kind \in {"Action", "Leaf", "Seq"}, NEW id \in Nat
  PROVE  /\ Node(kind, id, <<>>) \in TreesTo[1] /\ Node(kind, id, <<>>) \in Tree
         /\ WellFormed(Node(kind, id, <<>>)) /\ Ids(Node(kind, id, <<>>)) = {id}
         /\ Node(kind, id, <<>>).kind = kind
<1> DEFINE ks == <<>>
           m == Rec(kind, id, id, ks)
<1>1. ks \in Seq(TreesTo[0]) /\ Len(ks) = 0 /\ DOMAIN ks = {}
  OBVIOUS
<1> HIDE DEF ks
<1>2. Shaped(kind, Len(ks)) /\ kind \in Conditions \union Nodes
  BY <1>1 DEF Shaped, Leaves, Bodies, Conditions, Nodes
<1>3. Around(id, ks) /\ \A i \in DOMAIN ks : ks[i].kind \in Conditions <=> kind \in Conditions
  BY <1>1 DEF Around
<1>4. /\ m \in TreesTo[0 + 1] /\ m \in Tree /\ WellFormed(m)
      /\ \A x \in Ids(m) : x = id \/ \E i \in DOMAIN ks : x \in Ids(ks[i])
  <2>1. 0 \in Nat /\ 0 + 1 <= MaxHeight
    BY MaxHeightAssumption
  <2> QED BY <1>1, <1>2, <1>3, <2>1, NodeAround
<1>5. m.kind = kind /\ m.id = id
  BY RecFields
<1> HIDE DEF m
<1>6. Ids(m) = {id}
  BY <1>1, <1>4, <1>5, IdsDef
<1>7. Node(kind, id, <<>>) = m
  BY DEF Node, Rec, m, ks
<1> QED BY <1>4, <1>5, <1>6, <1>7

LEMMA FreshLeaf ==
  ASSUME 3 <= MaxHeight, NEW kind \in {"Action", "Leaf", "Seq"}, NEW id \in Nat
  PROVE  Fresh(Node(kind, id, <<>>), {id})
<1>1. 2 <= MaxHeight /\ 1 \in Nat /\ 2 \in Nat /\ 1 <= 2
  BY MaxHeightAssumption
<1>2. TreesTo[1] \subseteq TreesTo[2]
  BY <1>1, TreesMono
<1> QED BY <1>1, <1>2, NewLeaf DEF Fresh

\* "if" with an empty branch, "parallel" with two.
LEMMA FreshIf ==
  ASSUME 3 <= MaxHeight, NEW id \in Nat
  PROVE  /\ Fresh(Node("If", id, <<Node("Seq", id + 1, <<>>)>>), {id, id + 1})
         /\ Node("If", id, <<Node("Seq", id + 1, <<>>)>>).kind = "If"
<1> DEFINE a == Node("Seq", id + 1, <<>>)
           ks == <<a>>
           m == Rec("If", id, id, ks)
<1>0. id + 1 \in Nat /\ id + 1 # id
  OBVIOUS
<1>1. a \in TreesTo[1] /\ WellFormed(a) /\ Ids(a) = {id + 1} /\ a.kind = "Seq"
  <2>1. 2 <= MaxHeight
    BY MaxHeightAssumption
  <2> QED BY <1>0, <2>1, NewLeaf
<1> HIDE DEF a
<1>2. ks \in Seq(TreesTo[1]) /\ Len(ks) = 1 /\ DOMAIN ks = {1} /\ ks[1] = a
  BY <1>1, Single
<1> HIDE DEF ks
<1>3. Shaped("If", Len(ks)) /\ "If" \in Conditions \union Nodes /\ "If" \notin Conditions /\ "Seq" \notin Conditions
  BY <1>2 DEF Shaped, Leaves, Bodies, Conditions, Nodes
<1>4. Around(id, ks) /\ \A i \in DOMAIN ks : ks[i].kind \in Conditions <=> "If" \in Conditions
  BY <1>0, <1>1, <1>2, <1>3 DEF Around
<1>5. /\ m \in TreesTo[1 + 1] /\ m \in Tree /\ WellFormed(m)
      /\ \A x \in Ids(m) : x = id \/ \E i \in DOMAIN ks : x \in Ids(ks[i])
  <2>1. 1 \in Nat /\ 1 + 1 <= MaxHeight
    BY MaxHeightAssumption
  <2> QED BY <1>2, <1>3, <1>4, <2>1, NodeAround
<1>6. m.kind = "If"
  BY RecFields
<1> HIDE DEF m
<1>7. Fresh(m, {id, id + 1})
  <2>1. 1 + 1 = 2
    OBVIOUS
  <2> QED BY <1>1, <1>2, <1>5, <2>1 DEF Fresh
<1>8. Node("If", id, <<a>>) = m
  BY DEF Node, Rec, m, ks
<1> QED BY <1>6, <1>7, <1>8 DEF a

LEMMA FreshParallel ==
  ASSUME 3 <= MaxHeight, NEW id \in Nat
  PROVE  /\ Fresh(Node("Parallel", id, <<Node("Seq", id + 1, <<>>), Node("Seq", id + 2, <<>>)>>),
                  {id, id + 1, id + 2})
         /\ Node("Parallel", id, <<Node("Seq", id + 1, <<>>), Node("Seq", id + 2, <<>>)>>).kind = "Parallel"
<1> DEFINE a == Node("Seq", id + 1, <<>>)
           b == Node("Seq", id + 2, <<>>)
           ks == <<a, b>>
           m == Rec("Parallel", id, id, ks)
<1>0. id + 1 \in Nat /\ id + 1 # id /\ id + 2 \in Nat /\ id + 2 # id /\ id + 1 # id + 2
  OBVIOUS
<1>1. /\ a \in TreesTo[1] /\ WellFormed(a) /\ Ids(a) = {id + 1} /\ a.kind = "Seq"
      /\ b \in TreesTo[1] /\ WellFormed(b) /\ Ids(b) = {id + 2} /\ b.kind = "Seq"
  <2>1. 2 <= MaxHeight
    BY MaxHeightAssumption
  <2> QED BY <1>0, <2>1, NewLeaf
<1> HIDE DEF a, b
<1>2. ks \in Seq(TreesTo[1]) /\ Len(ks) = 2 /\ DOMAIN ks = {1, 2} /\ ks[1] = a /\ ks[2] = b
  BY <1>1, Pair
<1> HIDE DEF ks
<1>3. /\ Shaped("Parallel", Len(ks)) /\ "Parallel" \in Conditions \union Nodes /\ "Parallel" \notin Conditions
      /\ "Seq" \notin Conditions
  BY <1>2 DEF Shaped, Leaves, Bodies, Conditions, Nodes
<1>4. Around(id, ks) /\ \A i \in DOMAIN ks : ks[i].kind \in Conditions <=> "Parallel" \in Conditions
  BY <1>0, <1>1, <1>2, <1>3 DEF Around
<1>5. /\ m \in TreesTo[1 + 1] /\ m \in Tree /\ WellFormed(m)
      /\ \A x \in Ids(m) : x = id \/ \E i \in DOMAIN ks : x \in Ids(ks[i])
  <2>1. 1 \in Nat /\ 1 + 1 <= MaxHeight
    BY MaxHeightAssumption
  <2> QED BY <1>2, <1>3, <1>4, <2>1, NodeAround
<1>6. m.kind = "Parallel"
  BY RecFields
<1> HIDE DEF m
<1>7. Fresh(m, {id, id + 1, id + 2})
  <2>1. 1 + 1 = 2
    OBVIOUS
  <2> QED BY <1>1, <1>2, <1>5, <2>1 DEF Fresh
<1>8. Node("Parallel", id, <<a, b>>) = m
  BY DEF Node, Rec, m, ks
<1> QED BY <1>6, <1>7, <1>8 DEF a, b

-----------------------------------------------------------------------------
(* Adding.                                                                 *)

\* Either of the two, as the root asks.
LEMMA AppendedKept ==
  ASSUME NEW d \in Nat, 2 <= d, d + 1 <= MaxHeight, NEW n \in TreesTo[d], WellFormed(n), n.kind \notin Conditions,
         NEW new \in SUBSET Nat, new \intersect Ids(n) = {}, NEW x, Fresh(x, new), x.kind \notin Conditions,
         NEW id \in new, id \notin Ids(x)
  PROVE  Kept(Appended(n, x, id), n, new, d, 1) /\ Size[n] <= Size[Appended(n, x, id)]
<1>0. "Seq" \notin Conditions
  BY DEF Conditions
<1>1. CASE n.kind = "Seq"
  <2>1. Appended(n, x, id) = WithKids(n, Append(n.kids, x))
    BY <1>1 DEF Appended, WithKids
  <2> QED BY <1>1, <2>1, AppendKept
<1>2. CASE n.kind # "Seq"
  <2>1. Appended(n, x, id) = Rec("Seq", id, id, <<n, x>>)
    BY <1>2 DEF Appended, Node, Rec
  <2>2. Kept(Rec("Seq", id, id, <<n, x>>), n, new, d, 1) /\ Size[n] <= Size[Rec("Seq", id, id, <<n, x>>)]
    BY <1>0, BesideKept
  <2> QED BY <2>1, <2>2
<1> QED BY <1>1, <1>2

\* What is added to a workflow
LEMMA AddedKept ==
  ASSUME NEW d \in Nat, 2 <= d, d + 1 <= MaxHeight, NEW n \in TreesTo[d], WellFormed(n), IsWorkflow(n),
         NEW id \in Nat, NewIds(id) \intersect Ids(n) = {},
         NEW m \in {add_workflow_action(n, id), add_workflow_if(n, id), add_workflow_parallel(n, id)}
  PROVE  Kept(m, n, NewIds(id), d, 1) /\ Size[n] <= Size[m]
<1>1. 3 <= MaxHeight
  BY MaxHeightAssumption
<1>2. /\ id \in NewIds(id) /\ id + 1 \in NewIds(id) /\ id + 2 \in NewIds(id) /\ id + 3 \in NewIds(id)
      /\ NewIds(id) \in SUBSET Nat
  BY DEF NewIds
<1>3. n.kind \notin Conditions
  BY DEF IsWorkflow, Nodes, Bodies, Conditions
<1>4. "Action" \notin Conditions /\ "If" \notin Conditions /\ "Parallel" \notin Conditions
  BY DEF Conditions
<1>5. CASE m = add_workflow_action(n, id)
  <2> DEFINE x == Node("Action", id, <<>>)
  <2>1. Fresh(x, {id}) /\ x.kind = "Action"
    BY <1>1, FreshLeaf DEF Node
  <2> HIDE DEF x
  <2>2. Fresh(x, NewIds(id)) /\ id + 1 \notin Ids(x)
    BY <1>2, <2>1 DEF Fresh
  <2>3. m = Appended(n, x, id + 1)
    BY <1>5 DEF add_workflow_action, x
  <2> QED BY <1>2, <1>3, <1>4, <2>1, <2>2, <2>3, AppendedKept
<1>6. CASE m = add_workflow_if(n, id)
  <2> DEFINE x == Node("If", id, <<Node("Seq", id + 1, <<>>)>>)
  <2>1. Fresh(x, {id, id + 1}) /\ x.kind = "If"
    BY <1>1, FreshIf
  <2> HIDE DEF x
  <2>2. Fresh(x, NewIds(id)) /\ id + 2 \notin Ids(x)
    BY <1>2, <2>1 DEF Fresh
  <2>3. m = Appended(n, x, id + 2)
    BY <1>6 DEF add_workflow_if, x
  <2> QED BY <1>2, <1>3, <1>4, <2>1, <2>2, <2>3, AppendedKept
<1>7. CASE m = add_workflow_parallel(n, id)
  <2> DEFINE x == Node("Parallel", id, <<Node("Seq", id + 1, <<>>), Node("Seq", id + 2, <<>>)>>)
  <2>1. Fresh(x, {id, id + 1, id + 2}) /\ x.kind = "Parallel"
    BY <1>1, FreshParallel
  <2> HIDE DEF x
  <2>2. Fresh(x, NewIds(id)) /\ id + 3 \notin Ids(x)
    BY <1>2, <2>1 DEF Fresh
  <2>3. m = Appended(n, x, id + 3)
    BY <1>7 DEF add_workflow_parallel, x
  <2> QED BY <1>2, <1>3, <1>4, <2>1, <2>2, <2>3, AppendedKept
<1> QED BY <1>5, <1>6, <1>7

\* and to a condition.
LEMMA LeafAddedKept ==
  ASSUME NEW d \in Nat, 2 <= d, d + 1 <= MaxHeight, NEW n \in TreesTo[d], WellFormed(n), n.kind \in Conditions,
         NEW id \in Nat, NewIds(id) \intersect Ids(n) = {}
  PROVE  Kept(add_constraint_leaf(n, id), n, NewIds(id), d, 1) /\ Size[n] <= Size[add_constraint_leaf(n, id)]
<1>1. 3 <= MaxHeight
  BY MaxHeightAssumption
<1>2. id \in NewIds(id) /\ id + 1 \in NewIds(id) /\ NewIds(id) \in SUBSET Nat
  BY DEF NewIds
<1> DEFINE x == Node("Leaf", id, <<>>)
<1>3. Fresh(x, {id}) /\ x.kind = "Leaf"
  BY <1>1, FreshLeaf DEF Node
<1> HIDE DEF x
<1>4. Fresh(x, NewIds(id)) /\ id + 1 \notin Ids(x)
  BY <1>2, <1>3 DEF Fresh
<1>5. "Leaf" \in Conditions /\ "All" \in Conditions
  BY DEF Conditions
<1>6. n \in Tree
  <2>1. d <= MaxHeight
    BY MaxHeightAssumption
  <2> QED BY <2>1, KeptSelf
<1>7. CASE n.kind = "Always"
  <2>1. add_constraint_leaf(n, id) = x
    BY <1>7 DEF add_constraint_leaf, x
  <2>2. TreesTo[2] \subseteq TreesTo[d + 1]
    <3>1. 2 \in Nat /\ d + 1 \in Nat /\ 2 <= d + 1
      OBVIOUS
    <3> QED BY <3>1, TreesMono
  <2>3. Kept(x, n, NewIds(id), d, 1)
    BY <1>3, <1>4, <1>5, <2>2 DEF Kept, Fresh
  <2>4. Size[n] <= Size[x]
    <3>1. Len(n.kids) = 0
      BY <1>6, <1>7, WellFormedDef DEF WellShaped, Leaves
    <3>2. Sizes(n) \in Seq(Nat) /\ Len(Sizes(n)) = 0 /\ Size[n] = 1 + Total(Sizes(n))
      BY <1>6, <3>1, SizesDef
    <3>3. Total(Sizes(n)) = 0
      BY <3>2, BeforeDef DEF Total
    <3>4. Size[x] \in Nat /\ Size[x] > 0
      BY <1>4, SizeType DEF Fresh
    <3> QED BY <3>2, <3>3, <3>4
  <2> QED BY <2>1, <2>3, <2>4
<1>8. CASE n.kind = "All"
  <2>1. add_constraint_leaf(n, id) = WithKids(n, Append(n.kids, x))
    BY <1>8 DEF add_constraint_leaf, WithKids, x
  <2> QED BY <1>2, <1>3, <1>4, <1>5, <1>8, <2>1, AppendKept
<1>9. CASE n.kind # "Always" /\ n.kind # "All"
  <2>1. add_constraint_leaf(n, id) = Rec("All", id + 1, id + 1, <<n, x>>)
    BY <1>9 DEF add_constraint_leaf, Node, Rec, x
  <2>2. /\ Kept(Rec("All", id + 1, id + 1, <<n, x>>), n, NewIds(id), d, 1)
        /\ Size[n] <= Size[Rec("All", id + 1, id + 1, <<n, x>>)]
    BY <1>2, <1>3, <1>4, <1>5, BesideKept
  <2> QED BY <2>1, <2>2
<1> QED BY <1>7, <1>8, <1>9

-----------------------------------------------------------------------------
(* A sequence of options: those that are something, in their order.        *)

\* t has the elements of the options s that are something, g says from where.
Picks(g, s, t) ==
  /\ g \in [1..Len(t) -> 1..Len(s)]
  /\ \A i \in 1..Len(t) : Len(s[g[i]]) = 1 /\ t[i] = s[g[i]][1]
  /\ \A i, j \in 1..Len(t) : i < j => g[i] < g[j]
  /\ \A k \in 1..Len(s) : Len(s[k]) = 1 => \E i \in 1..Len(t) : g[i] = k

LEMMA Chosen ==
  ASSUME NEW T, NEW s \in Seq(Seq(T)), \A k \in 1..Len(s) : Len(s[k]) = 0 \/ Len(s[k]) = 1
  PROVE  FlattenSeq(s) \in Seq(T) /\ \E g : Picks(g, s, FlattenSeq(s))
<1> DEFINE w == Lengths(s)
           t == FlattenSeq(s)
           B == Before(w)
           N == Len(s)
           g == [i \in 1..Len(t) |-> CHOOSE k \in 1..N : B[k - 1] <= i - 1 /\ i - 1 < B[k]]
<1>1. w \in Seq(Nat) /\ Len(w) = N /\ N \in Nat /\ \A k \in 1..N : w[k] = Len(s[k])
  BY LengthsType
<1>2. /\ t \in Seq(T) /\ Len(t) = Total(w) /\ Len(t) \in Nat
      /\ \A k \in 1..N : \A j \in 1..Len(s[k]) : t[B[k - 1] + j] = s[k][j]
  BY Flattened
<1> HIDE DEF w, t, N
<1>3. \A k \in 1..N : w[k] = 0 \/ w[k] = 1
  BY <1>1 DEF N
<1>4. \A k \in 1..N : /\ B[k - 1] \in Nat /\ B[k] \in Nat /\ B[k] = B[k - 1] + w[k]
                      /\ B[k] <= Total(w) /\ Total(w) \in Nat
                      /\ \A j \in 0..k - 1 : B[j] <= B[k - 1]
  BY <1>1, BeforeStep
<1> HIDE DEF B
<1>5. ASSUME NEW i \in 1..Len(t)
      PROVE  g[i] \in 1..N /\ B[g[i] - 1] = i - 1 /\ w[g[i]] = 1 /\ B[g[i]] = i
  <2>1. i - 1 \in Nat /\ i - 1 < Total(w)
    BY <1>2
  <2>2. \E k \in 1..N : B[k - 1] <= i - 1 /\ i - 1 < B[k]
    BY <1>1, <2>1, Locate DEF B
  <2>3. g[i] \in 1..N /\ B[g[i] - 1] <= i - 1 /\ i - 1 < B[g[i]]
    BY <2>2
  <2> DEFINE k == g[i]
  <2>4. k \in 1..N /\ B[k - 1] <= i - 1 /\ i - 1 < B[k]
    BY <2>3
  <2> HIDE DEF k, g
  <2>5. B[k - 1] = i - 1 /\ w[k] = 1 /\ B[k] = i
    BY <1>3, <1>4, <2>1, <2>4
  <2> QED BY <2>4, <2>5 DEF k
<1>6. g \in [1..Len(t) -> 1..N]
  BY <1>5
<1> HIDE DEF g
<1>7. ASSUME NEW i \in 1..Len(t) PROVE Len(s[g[i]]) = 1 /\ t[i] = s[g[i]][1]
  <2>1. Len(s[g[i]]) = 1
    BY <1>1, <1>5
  <2>2. 1 \in 1..Len(s[g[i]]) /\ (i - 1) + 1 = i
    BY <2>1
  <2>3. t[B[g[i] - 1] + 1] = s[g[i]][1]
    BY <1>2, <1>5, <2>2
  <2> QED BY <1>5, <2>1, <2>2, <2>3
<1>8. ASSUME NEW i \in 1..Len(t), NEW j \in 1..Len(t), i < j PROVE g[i] < g[j]
  <2>1. g[i] \in 1..N /\ g[j] \in 1..N /\ B[g[i] - 1] = i - 1 /\ B[g[j] - 1] = j - 1
    BY <1>5
  <2>2. SUFFICES ASSUME ~(g[i] < g[j]) PROVE FALSE
    OBVIOUS
  <2>3. g[j] - 1 \in 0..g[i] - 1
    BY <2>1, <2>2
  <2>4. B[g[j] - 1] <= B[g[i] - 1]
    BY <1>4, <2>1, <2>3
  <2> QED BY <1>8, <2>1, <2>4
<1>9. ASSUME NEW k \in 1..N, Len(s[k]) = 1 PROVE \E i \in 1..Len(t) : g[i] = k
  <2>1. w[k] = 1 /\ B[k - 1] \in Nat /\ B[k] = B[k - 1] + 1 /\ B[k] <= Total(w) /\ Total(w) \in Nat
    BY <1>1, <1>4, <1>9
  <2> DEFINE i == B[k]
  <2>2. i \in 1..Len(t) /\ B[k - 1] = i - 1
    BY <1>2, <2>1, SMTT(30)
  <2> HIDE DEF i
  <2>3. g[i] \in 1..N /\ B[g[i] - 1] = i - 1 /\ B[g[i]] = i
    BY <1>5, <2>2
  <2>4. ~(g[i] < k)
    <3>1. SUFFICES ASSUME g[i] < k PROVE FALSE
      OBVIOUS
    <3>2. g[i] \in 0..k - 1
      BY <2>3, <3>1
    <3>3. B[g[i]] <= B[k - 1]
      BY <1>4, <3>2
    <3> QED BY <2>2, <2>3, <3>3
  <2>5. ~(k < g[i])
    <3>1. SUFFICES ASSUME k < g[i] PROVE FALSE
      OBVIOUS
    <3>2. k \in 0..g[i] - 1
      BY <2>3, <3>1
    <3>3. B[k] <= B[g[i] - 1]
      BY <1>4, <2>3, <3>2
    <3> QED BY <2>2, <2>3, <3>3 DEF i
  <2>6. g[i] = k
    BY <2>3, <2>4, <2>5
  <2> QED BY <2>2, <2>6
<1>10. Picks(g, s, t)
  BY <1>6, <1>7, <1>8, <1>9 DEF Picks, N
<1> QED BY <1>2, <1>10 DEF t

-----------------------------------------------------------------------------
(* Deleting.                                                               *)

\* What a walk has left of a child: nothing, or a tree.
Left(o, n, d) == o = <<>> \/ \E m : o = <<m>> /\ Kept(m, n, {}, d, 0)

\* Nothing but the node itself is left.
LEMMA BareKept ==
  ASSUME NEW d \in Nat, d <= MaxHeight, NEW n \in TreesTo[d], WellFormed(n), NEW kind \in {"Seq", "Always"},
         kind \in Conditions <=> n.kind \in Conditions, NEW cfg \in Nat
  PROVE  Kept(Rec(kind, n.id, cfg, <<>>), n, {}, d, 0)
<1>1. PICK c \in Nat : d = c + 1
  <2>1. d > 0
    BY TreeParts
  <2>2. d - 1 \in Nat /\ d = (d - 1) + 1
    BY <2>1
  <2> QED BY <2>2
<1> DEFINE ks == <<>>
           g == [i \in 1..0 |-> i]
<1>2. ks \in Seq(TreesTo[c + 0]) /\ Len(ks) = 0
  OBVIOUS
<1> HIDE DEF ks
<1>3. ~\E i : i \in 1..0
  OBVIOUS
<1>4. g \in [1..Len(ks) -> 1..Len(n.kids)]
  BY <1>2, <1>3
<1> HIDE DEF g
<1>5. \A i, j \in 1..Len(ks) : g[i] = g[j] => i = j
  BY <1>2, <1>3
<1>6. \A i \in 1..Len(ks) : Kept(ks[i], n.kids[g[i]], IF i = 0 THEN {} ELSE {}, c, 0)
  BY <1>2, <1>3
<1>7. /\ {} \in SUBSET Nat /\ {} \intersect Ids(n) = {} /\ (c + 0) + 1 <= MaxHeight /\ 0 \in Nat
      /\ n \in TreesTo[c + 1]
  BY <1>1
<1>8. Shaped(kind, Len(ks)) /\ kind \in Conditions \union Nodes
  BY <1>2 DEF Shaped, Leaves, Bodies, Conditions, Nodes
<1>9. Kept(Rec(kind, n.id, cfg, ks), n, {}, c + 1, 0)
  BY <1>2, <1>4, <1>5, <1>6, <1>7, <1>8, KeptMapped
<1> QED BY <1>1, <1>9 DEF ks

\* A child in the place of its parent.
LEMMA KeptUp ==
  ASSUME NEW d \in Nat, d + 1 <= MaxHeight, NEW n \in TreesTo[d + 1], WellFormed(n), NEW k \in DOMAIN n.kids,
         NEW m, Kept(m, n.kids[k], {}, d, 0)
  PROVE  Kept(m, n, {}, d + 1, 0)
<1>1. d + 0 \in Nat /\ (d + 1) + 0 \in Nat /\ d + 0 <= (d + 1) + 0 /\ (d + 1) + 0 <= MaxHeight
  OBVIOUS
<1>2. TreesTo[d + 0] \subseteq TreesTo[(d + 1) + 0]
  BY <1>1, TreesMono
<1>3. Ids(n.kids[k]) \subseteq Ids(n) /\ (n.kids[k].kind \in Conditions <=> n.kind \in Conditions)
  BY KidsTo
<1> QED BY <1>2, <1>3 DEF Kept

\* A node that has the children of which something is left.
LEMMA KeptChosen ==
  ASSUME NEW d \in Nat, d + 1 <= MaxHeight, NEW n \in TreesTo[d + 1], WellFormed(n),
         NEW left, left = [k \in DOMAIN n.kids |-> left[k]],
         \A k \in DOMAIN n.kids : Left(left[k], n.kids[k], d)
  PROVE  /\ FlattenSeq(left) \in Seq(TreesTo[d])
         /\ \E g : Picks(g, left, FlattenSeq(left))
         /\ Len(left) = Len(n.kids)
         /\ \A i \in 1..Len(FlattenSeq(left)) : \E k \in DOMAIN n.kids : Kept(FlattenSeq(left)[i], n.kids[k], {}, d, 0)
         /\ Shaped(n.kind, Len(FlattenSeq(left))) => Kept(WithKids(n, FlattenSeq(left)), n, {}, d + 1, 0)
<1> DEFINE ks == FlattenSeq(left)
<1>1. /\ n \in Tree /\ DOMAIN n.kids = 1..Len(n.kids) /\ Len(n.kids) \in Nat
  BY KidsTo
<1>2. n.kind \in Conditions \union Nodes /\ n.cfg \in Nat
  BY <1>1, TreeKids
<1>3. ASSUME NEW k \in DOMAIN n.kids
      PROVE  /\ left[k] \in Seq(TreesTo[d]) /\ (Len(left[k]) = 0 \/ Len(left[k]) = 1)
             /\ Len(left[k]) = 1 => Kept(left[k][1], n.kids[k], {}, d, 0)
  <2>1. CASE left[k] = <<>>
    <3>1. <<>> \in Seq(TreesTo[d]) /\ Len(<<>>) = 0 /\ 0 # 1
      OBVIOUS
    <3> QED BY <2>1, <3>1
  <2>2. ASSUME NEW m, left[k] = <<m>>, Kept(m, n.kids[k], {}, d, 0)
        PROVE  /\ left[k] \in Seq(TreesTo[d]) /\ (Len(left[k]) = 0 \/ Len(left[k]) = 1)
               /\ Len(left[k]) = 1 => Kept(left[k][1], n.kids[k], {}, d, 0)
    <3>1. m \in TreesTo[d]
      <4>1. d + 0 = d
        OBVIOUS
      <4> QED BY <2>2, <4>1 DEF Kept
    <3>2. <<m>> \in Seq(TreesTo[d]) /\ Len(<<m>>) = 1 /\ <<m>>[1] = m
      BY <3>1, Single
    <3> QED BY <2>2, <3>2
  <2> QED BY <2>1, <2>2 DEF Left
<1>4. left \in Seq(Seq(TreesTo[d])) /\ Len(left) = Len(n.kids)
  BY <1>1, <1>3, KidsSeq
<1>5. \A k \in 1..Len(left) : Len(left[k]) = 0 \/ Len(left[k]) = 1
  BY <1>1, <1>3, <1>4
<1>6. ks \in Seq(TreesTo[d]) /\ \E g : Picks(g, left, ks)
  BY <1>4, <1>5, Chosen
<1> HIDE DEF ks
<1>7. PICK g : Picks(g, left, ks)
  BY <1>6
<1>8. g \in [1..Len(ks) -> 1..Len(n.kids)] /\ \A i \in 1..Len(ks) : g[i] \in DOMAIN n.kids
  BY <1>1, <1>4, <1>7 DEF Picks
<1>9. \A i \in 1..Len(ks) : Kept(ks[i], n.kids[g[i]], {}, d, 0)
  BY <1>3, <1>7, <1>8 DEF Picks
<1>10. ASSUME Shaped(n.kind, Len(ks)) PROVE Kept(WithKids(n, ks), n, {}, d + 1, 0)
  <2>1. \A i, j \in 1..Len(ks) : g[i] = g[j] => i = j
    <3> SUFFICES ASSUME NEW i \in 1..Len(ks), NEW j \in 1..Len(ks), g[i] = g[j] PROVE i = j
      OBVIOUS
    <3>1. g[i] \in Nat /\ i \in Nat /\ j \in Nat
      BY <1>1, <1>8
    <3>2. ~(i < j) /\ ~(j < i)
      BY <1>7, <3>1 DEF Picks
    <3> QED BY <3>1, <3>2
  <2>2. \A i \in 1..Len(ks) : Kept(ks[i], n.kids[g[i]], IF i = 0 THEN {} ELSE {}, d, 0)
    BY <1>9, NoNew
  <2>3. {} \in SUBSET Nat /\ {} \intersect Ids(n) = {} /\ (d + 0) + 1 <= MaxHeight /\ 0 \in Nat /\ d + 0 = d
    OBVIOUS
  <2>4. Kept(Rec(n.kind, n.id, n.cfg, ks), n, {}, d + 1, 0)
    BY <1>2, <1>6, <1>8, <1>10, <2>1, <2>2, <2>3, KeptMapped
  <2> QED BY <1>1, <2>4, WithKidsRec
<1> QED BY <1>4, <1>6, <1>8, <1>9, <1>10 DEF ks

\* A body, which is empty if nothing is left of it.
Body(n, left, k) == OrElse(left[k], EmptyBody(n.kids[k]))

\* An If keeps its `then`; the other bodies stay, if need be empty.
IfKids(n, left) == [k \in DOMAIN left |-> IF k = 1 THEN <<Body(n, left, 1)>> ELSE left[k]]
BodyKids(n, left) == [k \in DOMAIN left |-> Body(n, left, k)]

LEMMA BodyKept ==
  ASSUME NEW d \in Nat, d <= MaxHeight, NEW n, NEW left, NEW k, n.kids[k] \in TreesTo[d], WellFormed(n.kids[k]),
         n.kids[k].kind \notin Conditions, Left(left[k], n.kids[k], d)
  PROVE  Kept(Body(n, left, k), n.kids[k], {}, d, 0)
<1>1. CASE left[k] = <<>>
  <2> DEFINE kid == n.kids[k]
  <2>1. Body(n, left, k) = Rec("Seq", kid.id, kid.id, <<>>)
    BY <1>1 DEF Body, OrElse, EmptyBody, Node, Rec
  <2>2. kid \in Tree
    BY KeptSelf
  <2>3. kid.id \in Nat
    BY <2>2, TreeKids
  <2>4. "Seq" \in Conditions <=> kid.kind \in Conditions
    BY DEF Conditions
  <2>5. Kept(Rec("Seq", kid.id, kid.id, <<>>), kid, {}, d, 0)
    <3> HIDE DEF kid
    <3>1. kid \in TreesTo[d] /\ WellFormed(kid)
      BY DEF kid
    <3> QED BY <2>3, <2>4, <3>1, BareKept
  <2> QED BY <2>1, <2>5
<1>2. ASSUME NEW m, left[k] = <<m>>, Kept(m, n.kids[k], {}, d, 0)
      PROVE  Kept(Body(n, left, k), n.kids[k], {}, d, 0)
  <2>1. <<m>> # <<>> /\ <<m>>[1] = m
    OBVIOUS
  <2>2. Body(n, left, k) = m
    BY <1>2, <2>1 DEF Body, OrElse
  <2> QED BY <1>2, <2>2
<1> QED BY <1>1, <1>2 DEF Left

\* The arms of the match in delete_workflow_rec and delete_constraint_rec.
LEMMA RebuiltCases ==
  ASSUME NEW n, NEW left
  PROVE  /\ n.kind \in {"Seq", "All", "Any"} => Rebuilt(n, left) = Simplified(n, FlattenSeq(left))
         /\ n.kind = "Parallel" => Rebuilt(n, left) = WithKids(n, FlattenSeq(left))
         /\ n.kind = "Not" => Rebuilt(n, left) = IF FlattenSeq(left) = <<>> THEN Rec("Always", n.id, n.id, <<>>)
                                                 ELSE WithKids(n, FlattenSeq(left))
         /\ n.kind = "If" => Rebuilt(n, left) = WithKids(n, FlattenSeq(IfKids(n, left)))
         /\ n.kind \in Bodies => Rebuilt(n, left) = WithKids(n, BodyKids(n, left))
         /\ n.kind \in Leaves => Rebuilt(n, left) = n
<1>1. n.kind \in {"Seq", "All", "Any"} => Rebuilt(n, left) = Simplified(n, FlattenSeq(left))
  BY DEF Rebuilt, Without, Bodies
<1>2. n.kind = "Parallel" => Rebuilt(n, left) = WithKids(n, FlattenSeq(left))
  BY DEF Rebuilt, Without, WithKids, Bodies
<1>3. n.kind = "Not" => Rebuilt(n, left) = IF FlattenSeq(left) = <<>> THEN Rec("Always", n.id, n.id, <<>>)
                                           ELSE WithKids(n, FlattenSeq(left))
  BY DEF Rebuilt, Without, WithKids, Node, Rec, Bodies
<1>4. n.kind = "If" => Rebuilt(n, left) = WithKids(n, FlattenSeq(IfKids(n, left)))
  BY DEF Rebuilt, Without, WithKids, IfKids, Body, Bodies
<1>5. n.kind \in Bodies => Rebuilt(n, left) = WithKids(n, BodyKids(n, left))
  BY DEF Rebuilt, WithKids, BodyKids, Body, Bodies
<1>6. n.kind \in Leaves => Rebuilt(n, left) = n
  BY DEF Rebuilt, Leaves, Bodies
<1> QED BY <1>1, <1>2, <1>3, <1>4, <1>5, <1>6

LEMMA SimplifiedCases ==
  ASSUME NEW n \in Tree, NEW kids \in Seq(Tree), n.kind \in {"Seq", "All", "Any"}
  PROVE  /\ Len(kids) = 0 => Simplified(n, kids) = IF n.kind = "Seq" THEN Rec("Seq", n.id, n.cfg, <<>>)
                                                   ELSE Rec("Always", n.id, n.id, <<>>)
         /\ Len(kids) = 1 => Simplified(n, kids) = kids[1]
         /\ Len(kids) # 0 /\ Len(kids) # 1 => Simplified(n, kids) = WithKids(n, kids)
<1>1. Len(kids) = 0 => Simplified(n, kids) = IF n.kind = "Seq" THEN WithKids(n, <<>>)
                                             ELSE Rec("Always", n.id, n.id, <<>>)
  BY DEF Simplified, WithKids, Node, Rec
<1>2. Len(kids) = 1 => Simplified(n, kids) = kids[1]
  BY DEF Simplified
<1>3. Len(kids) # 0 /\ Len(kids) # 1 => Simplified(n, kids) = WithKids(n, kids)
  BY DEF Simplified, WithKids
<1>4. n.kind = "Seq" => WithKids(n, <<>>) = Rec("Seq", n.id, n.cfg, <<>>)
  BY WithKidsRec
<1> QED BY <1>1, <1>2, <1>3, <1>4

\* A node that is rebuilt of what is left is well-formed.
LEMMA RebuiltKept ==
  ASSUME NEW d \in Nat, d + 1 <= MaxHeight, NEW n \in TreesTo[d + 1], WellFormed(n),
         NEW left, left = [k \in DOMAIN n.kids |-> left[k]],
         \A k \in DOMAIN n.kids : Left(left[k], n.kids[k], d)
  PROVE  Kept(Rebuilt(n, left), n, {}, d + 1, 0)
<1> DEFINE ks == FlattenSeq(left)
<1>1. /\ n \in Tree /\ Shaped(n.kind, Len(n.kids)) /\ DOMAIN n.kids = 1..Len(n.kids) /\ Len(n.kids) \in Nat
      /\ d <= MaxHeight
      /\ \A k \in DOMAIN n.kids : /\ n.kids[k] \in TreesTo[d] /\ n.kids[k] \in Tree /\ WellFormed(n.kids[k])
                                  /\ n.kids[k].kind \in Conditions <=> n.kind \in Conditions
  BY KidsTo
<1>2. n.kind \in Conditions \union Nodes /\ n.cfg \in Nat /\ n.id \in Nat
  BY <1>1, TreeKids
<1>3. /\ ks \in Seq(TreesTo[d]) /\ \E g : Picks(g, left, ks) /\ Len(left) = Len(n.kids)
      /\ \A i \in 1..Len(ks) : \E k \in DOMAIN n.kids : Kept(ks[i], n.kids[k], {}, d, 0)
      /\ Shaped(n.kind, Len(ks)) => Kept(WithKids(n, ks), n, {}, d + 1, 0)
  BY KeptChosen
<1>4. TreesTo[d] \subseteq Tree
  BY <1>1, TreesMono, MaxHeightAssumption DEF Tree
<1>5. ks \in Seq(Tree) /\ Len(ks) \in Nat
  BY <1>3, <1>4
<1> HIDE DEF ks
<1>6. d + 1 \in Nat
  OBVIOUS
<1>always. ASSUME n.kind \in Conditions PROVE Kept(Rec("Always", n.id, n.id, <<>>), n, {}, d + 1, 0)
  <2>1. "Always" \in Conditions <=> n.kind \in Conditions
    BY <1>always DEF Conditions
  <2> QED BY <1>2, <1>6, <2>1, BareKept
<1>7. CASE n.kind \in {"Seq", "All", "Any"}
  <2>1. Rebuilt(n, left) = Simplified(n, ks)
    BY <1>7, RebuiltCases DEF ks
  <2>2. CASE Len(ks) = 0
    <3>1. CASE n.kind = "Seq"
      <4>1. "Seq" \in Conditions <=> n.kind \in Conditions
        BY <3>1
      <4>2. Kept(Rec("Seq", n.id, n.cfg, <<>>), n, {}, d + 1, 0)
        BY <1>2, <1>6, <4>1, BareKept
      <4> QED BY <1>1, <1>5, <1>7, <2>1, <2>2, <3>1, <4>2, SimplifiedCases
    <3>2. CASE n.kind # "Seq"
      <4>1. n.kind \in Conditions
        BY <1>7, <3>2 DEF Conditions
      <4> QED BY <1>1, <1>5, <1>7, <1>always, <2>1, <2>2, <3>2, <4>1, SimplifiedCases
    <3> QED BY <3>1, <3>2
  <2>3. CASE Len(ks) = 1
    <3>1. 1 \in 1..Len(ks)
      BY <2>3
    <3>2. PICK k \in DOMAIN n.kids : Kept(ks[1], n.kids[k], {}, d, 0)
      BY <1>3, <3>1
    <3>3. Kept(ks[1], n, {}, d + 1, 0)
      BY <3>2, KeptUp
    <3> QED BY <1>1, <1>5, <1>7, <2>1, <2>3, <3>3, SimplifiedCases
  <2>4. CASE Len(ks) # 0 /\ Len(ks) # 1
    <3>1. Shaped(n.kind, Len(ks))
      BY <1>7 DEF Shaped, Leaves, Bodies
    <3> QED BY <1>1, <1>3, <1>5, <1>7, <2>1, <2>4, <3>1, SimplifiedCases
  <2> QED BY <2>2, <2>3, <2>4
<1>8. CASE n.kind = "Parallel"
  <2>1. Shaped(n.kind, Len(ks))
    BY <1>8 DEF Shaped, Leaves, Bodies
  <2> QED BY <1>3, <1>8, <2>1, RebuiltCases DEF ks
<1>9. CASE n.kind = "Not"
  <2>1. CASE ks = <<>>
    <3>1. n.kind \in Conditions
      BY <1>9 DEF Conditions
    <3> QED BY <1>9, <1>always, <2>1, <3>1, RebuiltCases DEF ks
  <2>2. CASE ks # <<>>
    <3>1. Len(n.kids) = 1
      BY <1>1, <1>9 DEF Shaped
    <3>2. PICK g : Picks(g, left, ks)
      BY <1>3
    <3>3. Len(ks) # 0
      BY <1>5, <2>2
    <3>4. ~(1 < Len(ks))
      <4>1. SUFFICES ASSUME 1 < Len(ks) PROVE FALSE
        OBVIOUS
      <4>2. 1 \in 1..Len(ks) /\ 2 \in 1..Len(ks) /\ 1 < 2
        BY <1>5, <4>1
      <4>3. g[1] \in 1..1 /\ g[2] \in 1..1 /\ g[1] < g[2]
        BY <1>3, <3>1, <3>2, <4>2 DEF Picks
      <4> QED BY <4>3
    <3>5. Len(ks) = 1
      <4>1. \A x \in Nat : x # 0 /\ ~(1 < x) => x = 1
        OBVIOUS
      <4>2. Len(ks) \in Nat
        BY <1>5
      <4> QED BY <3>3, <3>4, <4>1, <4>2
    <3>6. Shaped(n.kind, Len(ks))
      BY <1>9, <3>5 DEF Shaped, Leaves, Bodies
    <3> QED BY <1>3, <1>9, <2>2, <3>6, RebuiltCases DEF ks
  <2> QED BY <2>1, <2>2
<1>10. CASE n.kind = "If"
  <2> DEFINE rest == IfKids(n, left)
             is == FlattenSeq(rest)
  <2>1. n.kind \notin Conditions /\ Len(n.kids) \in {1, 2}
    BY <1>1, <1>10 DEF Shaped, Conditions
  <2>2. DOMAIN left = DOMAIN n.kids
    OBVIOUS
  <2>3. rest = [k \in DOMAIN n.kids |-> rest[k]]
    BY <2>2 DEF IfKids
  <2>4. 1 \in DOMAIN n.kids
    <3>1. 1 \in 1..1 /\ 1 \in 1..2
      OBVIOUS
    <3> QED BY <1>1, <2>1, <3>1
  <2>5. rest[1] = <<Body(n, left, 1)>> /\ \A k \in DOMAIN n.kids : k # 1 => rest[k] = left[k]
    BY <2>2, <2>4 DEF IfKids
  <2> HIDE DEF rest
  <2>6. Kept(Body(n, left, 1), n.kids[1], {}, d, 0)
    BY <1>1, <2>1, <2>4, BodyKept
  <2>7. \A k \in DOMAIN n.kids : Left(rest[k], n.kids[k], d)
    <3> TAKE k \in DOMAIN n.kids
    <3>1. CASE k = 1
      BY <2>5, <2>6, <3>1 DEF Left
    <3>2. CASE k # 1
      BY <2>5, <3>2
    <3> QED BY <3>1, <3>2
  <2>8. /\ is \in Seq(TreesTo[d]) /\ \E g : Picks(g, rest, is) /\ Len(rest) = Len(n.kids)
        /\ Shaped(n.kind, Len(is)) => Kept(WithKids(n, is), n, {}, d + 1, 0)
    BY <2>3, <2>7, KeptChosen
  <2> HIDE DEF is
  <2>9. PICK g : Picks(g, rest, is)
    BY <2>8
  <2>10. Len(is) \in Nat
    BY <2>8
  <2>11. Len(is) # 0
    <3>1. Len(rest[1]) = 1
      BY <2>5
    <3>2. 1 \in 1..Len(rest)
      BY <1>1, <2>4, <2>8
    <3>3. \E i \in 1..Len(is) : g[i] = 1
      BY <2>9, <3>1, <3>2 DEF Picks
    <3> QED BY <2>10, <3>3
  <2>12. ~(2 < Len(is))
    <3>1. SUFFICES ASSUME 2 < Len(is) PROVE FALSE
      OBVIOUS
    <3>2. 1 \in 1..Len(is) /\ 2 \in 1..Len(is) /\ 3 \in 1..Len(is) /\ 1 < 2 /\ 2 < 3
      BY <2>10, <3>1
    <3>3. \A i \in 1..Len(is) : g[i] \in 1..Len(n.kids)
      BY <2>8, <2>9 DEF Picks
    <3>4. g[1] < g[2] /\ g[2] < g[3]
      BY <2>9, <3>2 DEF Picks
    <3>5. g[1] \in 1..2 /\ g[2] \in 1..2 /\ g[3] \in 1..2
      <4>1. 1..1 \subseteq 1..2
        OBVIOUS
      <4>2. 1..Len(n.kids) \subseteq 1..2
        BY <2>1, <4>1
      <4> QED BY <3>2, <3>3, <4>2
    <3> QED BY <3>4, <3>5
  <2>13. Shaped(n.kind, Len(is))
    <3>1. Len(is) \in {1, 2}
      <4>1. \A x \in Nat : x # 0 /\ ~(2 < x) => x \in {1, 2}
        OBVIOUS
      <4> QED BY <2>10, <2>11, <2>12, <4>1
    <3> QED BY <1>10, <3>1 DEF Shaped, Leaves, Bodies
  <2>14. Rebuilt(n, left) = WithKids(n, is)
    BY <1>10, RebuiltCases DEF rest, is
  <2> QED BY <2>8, <2>13, <2>14
<1>11. CASE n.kind \in Bodies
  <2> DEFINE rest == BodyKids(n, left)
  <2>1. n.kind \notin Conditions
    BY <1>11 DEF Conditions, Bodies
  <2>2. DOMAIN left = DOMAIN n.kids
    OBVIOUS
  <2>3. rest = [k \in DOMAIN n.kids |-> rest[k]] /\ \A k \in DOMAIN n.kids : rest[k] = Body(n, left, k)
    BY <2>2 DEF BodyKids
  <2> HIDE DEF rest
  <2>4. \A k \in DOMAIN n.kids : Kept(rest[k], n.kids[k], IF k = 0 THEN {} ELSE {}, d, 0)
    <3> TAKE k \in DOMAIN n.kids
    <3>1. Kept(Body(n, left, k), n.kids[k], {}, d, 0)
      BY <1>1, <2>1, BodyKept
    <3> QED BY <2>3, <3>1, NoNew
  <2>5. {} \in SUBSET Nat /\ {} \intersect Ids(n) = {} /\ (d + 0) + 1 <= MaxHeight /\ 0 \in Nat
    OBVIOUS
  <2>6. Kept(WithKids(n, rest), n, {}, d + 1, 0)
    BY <2>3, <2>4, <2>5, KeptAll
  <2> QED BY <1>11, <2>6, RebuiltCases DEF rest
<1>12. CASE n.kind \in Leaves
  <2>1. Kept(n, n, {}, d + 1, 0)
    BY <1>6, KeptSelf
  <2> QED BY <1>12, <2>1, RebuiltCases
<1> QED BY <1>2, <1>7, <1>8, <1>9, <1>10, <1>11, <1>12 DEF Conditions, Nodes, Leaves

-----------------------------------------------------------------------------
(* The walk of the deletion.                                               *)

\* What the walk leaves of the children.
KidsLeft(n, at, pos) == [k \in DOMAIN n.kids |-> Deleting(pos)[n.kids[k]][Starts(n, at, Counts(n))[k]]]

LEMMA DeletingDef ==
  ASSUME NEW pos, NEW n \in Tree, NEW at \in Nat
  PROVE  Deleting(pos)[n][at] = IF at = pos THEN <<>>
                                ELSE IF NotEntered(n) THEN <<n>>
                                ELSE <<Rebuilt(n, KidsLeft(n, at, pos))>>
<1> DEFINE U == Deleting(pos)
           New(m, a) ==
             IF a = pos THEN <<>>
             ELSE IF NotEntered(m) THEN <<m>>
             ELSE LET from == Starts(m, a, Counts(m))
                  IN  <<Rebuilt(m, [k \in DOMAIN m.kids |-> U[m.kids[k]][from[k]]])>>
<1>1. U = [m \in Tree |-> [a \in Nat |-> New(m, a)]]
  BY DeletingIs
<1>2. New(n, at) = IF at = pos THEN <<>>
                   ELSE IF NotEntered(n) THEN <<n>>
                   ELSE <<Rebuilt(n, KidsLeft(n, at, pos))>>
  BY DEF KidsLeft
<1> HIDE DEF New, U
<1>3. U[n][at] = New(n, at)
  BY <1>1
<1> QED BY <1>2, <1>3 DEF U

LEMMA KidsLeftDef ==
  ASSUME NEW pos, NEW n \in Tree, ~NotEntered(n), NEW at \in Nat
  PROVE  \A k \in DOMAIN n.kids : /\ KidsLeft(n, at, pos)[k] = Deleting(pos)[n.kids[k]][at + CountFirst(n, k)]
                                  /\ at + CountFirst(n, k) \in Nat /\ CountFirst(n, k) \in Nat
<1>1. \A k \in DOMAIN n.kids : Starts(n, at, Counts(n))[k] = at + CountFirst(n, k) /\ CountFirst(n, k) \in Nat
  BY TreeKids, CountFirstDef
<1>2. \A k \in DOMAIN n.kids : at + CountFirst(n, k) \in Nat
  BY <1>1
<1> QED BY <1>1, <1>2 DEF KidsLeft

\* What is left of a tree is well-formed.
LEMMA DeletingKept ==
  ASSUME NEW pos
  PROVE  \A n \in Tree : \A d \in Nat : d <= MaxHeight /\ n \in TreesTo[d] /\ WellFormed(n) =>
           \A at \in Nat : Left(Deleting(pos)[n][at], n, d)
<1> DEFINE U == Deleting(pos)
           S == {n \in Tree : \A d \in Nat : d <= MaxHeight /\ n \in TreesTo[d] /\ WellFormed(n) =>
                   \A at \in Nat : Left(U[n][at], n, d)}
<1>1. ASSUME NEW n \in Tree, \A k \in DOMAIN n.kids : n.kids[k] \in S PROVE n \in S
  <2> SUFFICES ASSUME NEW d \in Nat, d <= MaxHeight, n \in TreesTo[d], WellFormed(n), NEW at \in Nat
               PROVE  Left(U[n][at], n, d)
    OBVIOUS
  <2>1. CASE at = pos
    BY <2>1, DeletingDef DEF Left
  <2>2. CASE at # pos /\ NotEntered(n)
    <3>1. U[n][at] = <<n>>
      BY <2>2, DeletingDef
    <3>2. Kept(n, n, {}, d, 0)
      BY KeptSelf
    <3> QED BY <3>1, <3>2 DEF Left
  <2>3. CASE at # pos /\ ~NotEntered(n)
    <3> DEFINE left == KidsLeft(n, at, pos)
    <3>1. PICK c \in Nat : d = c + 1
      <4>1. d > 0
        BY TreeParts
      <4>2. d - 1 \in Nat /\ d = (d - 1) + 1
        BY <4>1
      <4> QED BY <4>2
    <3>2. c + 1 <= MaxHeight /\ n \in TreesTo[c + 1] /\ c <= MaxHeight
      BY <3>1, MaxHeightAssumption
    <3>3. \A k \in DOMAIN n.kids : n.kids[k] \in TreesTo[c] /\ WellFormed(n.kids[k])
      BY <3>2, KidsTo
    <3>4. left = [k \in DOMAIN n.kids |-> left[k]]
      BY DEF KidsLeft
    <3>5. \A k \in DOMAIN n.kids : left[k] = U[n.kids[k]][at + CountFirst(n, k)] /\ at + CountFirst(n, k) \in Nat
      BY <2>3, KidsLeftDef
    <3>6. U[n][at] = <<Rebuilt(n, left)>>
      BY <2>3, DeletingDef
    <3> HIDE DEF left, U
    <3>7. \A k \in DOMAIN n.kids : Left(left[k], n.kids[k], c)
      BY <1>1, <3>2, <3>3, <3>5
    <3>8. Kept(Rebuilt(n, left), n, {}, c + 1, 0)
      BY <3>2, <3>4, <3>7, RebuiltKept
    <3> QED BY <3>1, <3>6, <3>8 DEF Left
  <2> QED BY <2>1, <2>2, <2>3
<1>2. Tree \subseteq S
  <2> HIDE DEF S
  <2> QED BY <1>1, TreeInduction
<1> QED BY <1>2

-----------------------------------------------------------------------------
(* The inductive invariant.                                                *)

\* A tree after e edits.
Edited(n, e) == n \in TreesTo[Levels(e)] /\ WellFormed(n) /\ \A x \in Ids(n) : x < 100 + 10 * e

\* A selected row is one of the tree.
RowIn(row, n) == row \in {-1} \union 0..Size[n] - 1

\* The inductive invariant: how many levels and which names the trees may have follows
\* from the number of edits, so that there is always room for one more and its names
\* are new.
Inv ==
  /\ edits \in 0..MaxEdits
  /\ Edited(workflow, edits) /\ IsWorkflow(workflow)
  /\ Edited(constraints, edits) /\ ~IsWorkflow(constraints)
  /\ RowIn(flow.row, workflow) /\ RowIn(cond.row, constraints)
  /\ flow.shown \subseteq Nat /\ cond.shown \subseteq Nat

LEMMA LevelsType ==
  ASSUME NEW e \in 0..MaxEdits
  PROVE  /\ Levels(e) \in Nat /\ 2 <= Levels(e) /\ Levels(e) + 1 <= MaxHeight
         /\ Levels(e + 1) = Levels(e) + 1 /\ Levels(e) <= MaxHeight
         /\ TreesTo[Levels(e)] \subseteq Tree
<1>1. MaxHeight - (MaxEdits + 1) >= 2 /\ MaxEdits \in Nat /\ MaxHeight \in Nat
  BY MacrosAssumption, MaxHeightAssumption DEF Levels
<1>2. /\ Levels(e) \in Nat /\ 2 <= Levels(e) /\ Levels(e) + 1 <= MaxHeight
      /\ Levels(e + 1) = Levels(e) + 1 /\ Levels(e) <= MaxHeight
  BY <1>1 DEF Levels
<1> QED BY <1>1, <1>2, TreesMono DEF Tree

LEMMA KindsApart == \A n \in Tree : IsWorkflow(n) <=> n.kind \notin Conditions
  BY TreeKids DEF IsWorkflow, Nodes, Bodies, Conditions

\* What an edit makes of a tree.
LEMMA AfterEdit ==
  ASSUME NEW e \in 0..MaxEdits, e + 1 \in 0..MaxEdits, NEW n, Edited(n, e), NEW m, NEW new, NEW f \in {0, 1},
         \A x \in new : x \in Nat /\ x < 100 + 10 * (e + 1), Kept(m, n, new, Levels(e), f)
  PROVE  Edited(m, e + 1) /\ (IsWorkflow(m) <=> IsWorkflow(n))
<1>1. /\ Levels(e) \in Nat /\ Levels(e) + 1 <= MaxHeight /\ Levels(e + 1) = Levels(e) + 1 /\ n \in Tree
      /\ Levels(e) + f \in Nat /\ Levels(e) + f <= Levels(e + 1) /\ Levels(e + 1) \in Nat
  BY LevelsType DEF Edited
<1>2. m \in TreesTo[Levels(e + 1)] /\ m \in Tree
  <2>1. TreesTo[Levels(e) + f] \subseteq TreesTo[Levels(e + 1)]
    BY <1>1, TreesMono
  <2> QED BY <2>1 DEF Kept
<1>3. ASSUME NEW x \in Ids(m) PROVE x < 100 + 10 * (e + 1)
  <2>1. x \in new \/ x \in Ids(n)
    BY DEF Kept
  <2>2. CASE x \in Ids(n)
    <3>1. x \in Nat /\ x < 100 + 10 * e
      BY <1>1, <2>2, BelowType DEF Edited
    <3> QED BY <3>1
  <2> QED BY <2>1, <2>2
<1> QED BY <1>1, <1>2, <1>3, KindsApart DEF Kept, Edited

LEMMA NoEdit ==
  ASSUME NEW e \in 0..MaxEdits, e + 1 \in 0..MaxEdits, NEW n, Edited(n, e)
  PROVE  Edited(n, e + 1)
<1>1. Levels(e) \in Nat /\ Levels(e + 1) \in Nat /\ Levels(e) <= Levels(e + 1) /\ Levels(e + 1) <= MaxHeight /\ n \in Tree
  BY LevelsType DEF Edited
<1>2. TreesTo[Levels(e)] \subseteq TreesTo[Levels(e + 1)]
  BY <1>1, TreesMono
<1>3. ASSUME NEW x \in Ids(n) PROVE x < 100 + 10 * (e + 1)
  <2>1. x \in Nat /\ x < 100 + 10 * e
    BY <1>1, BelowType DEF Edited
  <2> QED BY <2>1
<1> QED BY <1>2, <1>3 DEF Edited

\* A selected row stays a row when rows do not get fewer.
LEMMA RowStays ==
  ASSUME NEW n \in Tree, NEW m \in Tree, Size[n] <= Size[m], NEW row, RowIn(row, n)
  PROVE  RowIn(row, m)
<1>1. Size[n] \in Nat /\ Size[m] \in Nat
  BY SizeType
<1> QED BY <1>1 DEF RowIn

\* The rows by position, and one that is selected.
LEMMA RowsAt ==
  ASSUME NEW n \in Tree
  PROVE  /\ DOMAIN ByPosition(Rows[n]) = 0..Size[n] - 1
         /\ \A p \in 0..Size[n] - 1 : ByPosition(Rows[n])[p] = Row(n, p) /\ Row(n, p) \in RowType
<1>1. Rows[n] \in Seq(RowType) /\ Len(Rows[n]) = Size[n] /\ Size[n] \in Nat
  BY RowsType, SizeType
<1>2. DOMAIN ByPosition(Rows[n]) = 0..Size[n] - 1
  BY <1>1 DEF ByPosition
<1>3. ASSUME NEW p \in 0..Size[n] - 1 PROVE ByPosition(Rows[n])[p] = Row(n, p) /\ Row(n, p) \in RowType
  <2>1. p + 1 \in 1..Len(Rows[n])
    BY <1>1
  <2>2. Rows[n][p + 1] \in RowType
    BY <1>1, <2>1
  <2> QED BY <1>1, <2>2 DEF ByPosition, Row
<1> QED BY <1>2, <1>3

LEMMA SelectedRow ==
  ASSUME NEW n \in Tree, NEW p \in DOMAIN ByPosition(Rows[n])
  PROVE  RowIn(Selected(ByPosition(Rows[n]), p).row, n) /\ Selected(ByPosition(Rows[n]), p).shown \subseteq Nat
<1>1. p \in 0..Size[n] - 1 /\ ByPosition(Rows[n])[p].shown \subseteq Nat
  BY RowsAt DEF RowType
<1> QED BY <1>1 DEF Selected, RowIn

\* At first, and after each step.
LEMMA InvInit == Init => Inv
<1> SUFFICES ASSUME Init PROVE Inv
  OBVIOUS
<1>1. PICK m \in Macros : workflow = m.workflow /\ constraints = m.constraints
  BY DEF Init
<1>2. /\ m.workflow \in TreesTo[Levels(0)] /\ IsWorkflow(m.workflow)
      /\ m.constraints \in TreesTo[Levels(0)] /\ ~IsWorkflow(m.constraints)
      /\ WellFormed(m.workflow) /\ Ids(m.workflow) \subseteq 0..99
      /\ WellFormed(m.constraints) /\ Ids(m.constraints) \subseteq 0..99
  BY MacrosAssumption
<1>3. edits = 0 /\ 0 \in 0..MaxEdits
  BY MacrosAssumption DEF Init
<1>4. \A n : n \in TreesTo[Levels(0)] /\ WellFormed(n) /\ Ids(n) \subseteq 0..99 => Edited(n, 0)
  <2>1. \A x \in 0..99 : x < 100 + 10 * 0
    OBVIOUS
  <2> QED BY <2>1 DEF Edited
<1>5. flow.row = -1 /\ flow.shown = {} /\ cond.row = -1 /\ cond.shown = {}
  BY DEF Init, NothingSelected
<1> QED BY <1>1, <1>2, <1>3, <1>4, <1>5 DEF Inv, RowIn

\* The workflow or the constraints are edited: the other tree stays.
LEMMA WorkflowEdited ==
  ASSUME Inv, EditsWorkflow, NEW new, NEW f \in {0, 1}, new \subseteq NewIds(NewId),
         Kept(workflow', workflow, new, Levels(edits), f),
         RowIn(flow'.row, workflow'), flow'.shown \subseteq Nat
  PROVE  Inv'
<1>1. edits \in 0..MaxEdits /\ edits' = edits + 1 /\ edits + 1 \in 0..MaxEdits /\ edits \in Nat
  BY MacrosAssumption DEF EditsWorkflow, Edits, Inv
<1>2. \A x \in new : x \in Nat /\ x < 100 + 10 * (edits + 1)
  BY <1>1 DEF NewIds, NewId
<1> DEFINE m == workflow'
<1>3. Kept(m, workflow, new, Levels(edits), f) /\ Edited(workflow, edits)
  BY DEF Inv
<1> HIDE DEF m
<1>4. Edited(m, edits + 1) /\ (IsWorkflow(m) <=> IsWorkflow(workflow))
  BY <1>1, <1>2, <1>3, AfterEdit
<1>5. Edited(constraints, edits + 1)
  BY <1>1, NoEdit DEF Inv
<1> QED BY <1>1, <1>4, <1>5 DEF Inv, m, EditsWorkflow

LEMMA ConstraintsEdited ==
  ASSUME Inv, EditsConstraints, NEW new, NEW f \in {0, 1}, new \subseteq NewIds(NewId),
         Kept(constraints', constraints, new, Levels(edits), f),
         RowIn(cond'.row, constraints'), cond'.shown \subseteq Nat
  PROVE  Inv'
<1>1. edits \in 0..MaxEdits /\ edits' = edits + 1 /\ edits + 1 \in 0..MaxEdits /\ edits \in Nat
  BY MacrosAssumption DEF EditsConstraints, Edits, Inv
<1>2. \A x \in new : x \in Nat /\ x < 100 + 10 * (edits + 1)
  BY <1>1 DEF NewIds, NewId
<1> DEFINE m == constraints'
<1>3. Kept(m, constraints, new, Levels(edits), f) /\ Edited(constraints, edits)
  BY DEF Inv
<1> HIDE DEF m
<1>4. Edited(m, edits + 1) /\ (IsWorkflow(m) <=> IsWorkflow(constraints))
  BY <1>1, <1>2, <1>3, AfterEdit
<1>5. Edited(workflow, edits + 1)
  BY <1>1, NoEdit DEF Inv
<1> QED BY <1>1, <1>4, <1>5 DEF Inv, m, EditsConstraints

\* What the lemmas on the edits ask of a tree.
LEMMA Editable ==
  ASSUME NEW e \in 0..MaxEdits, NEW n, Edited(n, e)
  PROVE  /\ n \in Tree /\ n \in TreesTo[Levels(e)] /\ WellFormed(n)
         /\ Levels(e) \in Nat /\ 2 <= Levels(e) /\ Levels(e) + 1 <= MaxHeight /\ Levels(e) <= MaxHeight
         /\ NewIds(100 + 10 * e) \intersect Ids(n) = {} /\ 100 + 10 * e \in Nat /\ 100 + 10 * e \notin Ids(n)
         /\ 100 + 10 * e \in NewIds(100 + 10 * e)
<1>1. n \in Tree /\ Ids(n) \subseteq Nat
  BY LevelsType, BelowType DEF Edited
<1>2. e \in Nat /\ \A x \in Ids(n) : x \in Nat /\ x < 100 + 10 * e
  BY <1>1 DEF Edited
<1> DEFINE a == 100 + 10 * e
<1>3. a \in Nat /\ \A x \in Ids(n) : x \in Nat /\ x < a
  BY <1>2
<1> HIDE DEF a
<1>4. NewIds(a) \intersect Ids(n) = {} /\ a \notin Ids(n) /\ a \in NewIds(a)
  BY <1>3 DEF NewIds
<1> QED BY <1>1, <1>3, <1>4, LevelsType DEF Edited, a

\* A deletion, and what stands for a tree that is deleted as a whole.
LEMMA DeletedKept ==
  ASSUME NEW d \in Nat, d <= MaxHeight, NEW n \in TreesTo[d], WellFormed(n), NEW pos,
         NEW kind \in {"Seq", "Always"}, kind \in Conditions <=> n.kind \in Conditions
  PROVE  Kept(OrElse(Deleting(pos)[n][0], Node(kind, n.id, <<>>)), n, {}, d, 0)
<1>1. n \in Tree
  BY KeptSelf
<1>2. Left(Deleting(pos)[n][0], n, d)
  BY <1>1, DeletingKept
<1>3. CASE Deleting(pos)[n][0] = <<>>
  <2>1. OrElse(Deleting(pos)[n][0], Node(kind, n.id, <<>>)) = Rec(kind, n.id, n.id, <<>>)
    BY <1>3 DEF OrElse, Node, Rec
  <2>2. n.id \in Nat
    BY <1>1, TreeKids
  <2> QED BY <2>1, <2>2, BareKept
<1>4. ASSUME NEW m, Deleting(pos)[n][0] = <<m>>, Kept(m, n, {}, d, 0)
      PROVE  Kept(OrElse(Deleting(pos)[n][0], Node(kind, n.id, <<>>)), n, {}, d, 0)
  <2>1. <<m>> # <<>> /\ <<m>>[1] = m
    OBVIOUS
  <2>2. OrElse(Deleting(pos)[n][0], Node(kind, n.id, <<>>)) = m
    BY <1>4, <2>1 DEF OrElse
  <2> QED BY <1>4, <2>2
<1> QED BY <1>2, <1>3, <1>4 DEF Left

LEMMA WorkflowTabKeeps == ASSUME Inv, WorkflowTab PROVE Inv'
<1> DEFINE d == Levels(edits)
<1>1. edits \in 0..MaxEdits /\ Edited(workflow, edits) /\ IsWorkflow(workflow)
  BY DEF Inv
<1>2. /\ workflow \in Tree /\ workflow \in TreesTo[d] /\ WellFormed(workflow)
      /\ d \in Nat /\ 2 <= d /\ d + 1 <= MaxHeight /\ d <= MaxHeight
      /\ NewIds(NewId) \intersect Ids(workflow) = {} /\ NewId \in Nat
  BY <1>1, Editable DEF NewId
<1>3. RowIn(flow.row, workflow) /\ flow.shown \subseteq Nat
  BY DEF Inv
<1> HIDE DEF d
<1>4. CASE workflow_node_selected
  <2>1. UNCHANGED <<workflow, constraints, cond, edits>>
    BY <1>4 DEF workflow_node_selected
  <2>2. PICK p \in DOMAIN ByPosition(Rows[workflow]) : flow' = Selected(ByPosition(Rows[workflow]), p)
    BY <1>4 DEF workflow_node_selected, flatten_workflow
  <2>3. RowIn(flow'.row, workflow) /\ flow'.shown \subseteq Nat
    BY <1>2, <2>2, SelectedRow
  <2> QED BY <2>1, <2>3 DEF Inv
<1>5. CASE workflow_update
  <2>1. PICK cfg \in flow.shown : workflow' = Updating(flow.row, cfg)[workflow][0]
    BY <1>5 DEF workflow_update, update_workflow_action
  <2>2. Kept(Updating(flow.row, cfg)[workflow][0], workflow, {}, d, 0)
        /\ Size[workflow] <= Size[Updating(flow.row, cfg)[workflow][0]]
    BY <1>2, <1>3, UpdatingKept
  <2>3. Kept(workflow', workflow, {}, d, 0) /\ Size[workflow] <= Size[workflow']
    BY <2>1, <2>2
  <2>4. RowIn(flow.row, workflow')
    BY <1>2, <1>3, <2>3, RowStays DEF Kept
  <2>5. EditsWorkflow /\ flow' = flow
    BY <1>5 DEF workflow_update
  <2> QED BY <1>3, <2>3, <2>4, <2>5, WorkflowEdited DEF d
<1>6. CASE workflow_delete_node
  <2> DEFINE m == OrElse(Deleting(flow.row)[workflow][0], Node("Seq", workflow.id, <<>>))
  <2>1. workflow' = m
    BY <1>6 DEF workflow_delete_node, delete_workflow_at, EmptyBody
  <2>2. "Seq" \in Conditions <=> workflow.kind \in Conditions
    BY <1>1, <1>2, KindsApart DEF Conditions
  <2>3. Kept(m, workflow, {}, d, 0)
    BY <1>2, <2>2, DeletedKept
  <2>4. flow'.row = -1 /\ flow'.shown = {} /\ EditsWorkflow
    BY <1>6 DEF workflow_delete_node, NothingSelected
  <2> HIDE DEF m
  <2> QED BY <2>1, <2>3, <2>4, WorkflowEdited DEF d, RowIn
<1>7. ASSUME NEW up \in BOOLEAN, workflow_move(up) PROVE Inv'
  <2>1. PICK p : workflow' = Moving(p, up)[workflow][0]
    BY <1>7 DEF workflow_move, move_workflow_node
  <2>2. Kept(Moving(p, up)[workflow][0], workflow, {}, d, 0)
        /\ Size[workflow] <= Size[Moving(p, up)[workflow][0]]
    BY <1>2, MovingKept
  <2>3. Kept(workflow', workflow, {}, d, 0) /\ Size[workflow] <= Size[workflow']
    BY <2>1, <2>2
  <2>4. RowIn(flow.row, workflow')
    BY <1>2, <1>3, <2>3, RowStays DEF Kept
  <2>5. EditsWorkflow /\ flow' = flow
    BY <1>7 DEF workflow_move
  <2> QED BY <1>3, <2>3, <2>4, <2>5, WorkflowEdited DEF d
<1>8. CASE workflow_add
  <2>1. workflow' \in {add_workflow_action(workflow, NewId), add_workflow_if(workflow, NewId),
                       add_workflow_parallel(workflow, NewId)}
    BY <1>8 DEF workflow_add
  <2>2. \A m \in {add_workflow_action(workflow, NewId), add_workflow_if(workflow, NewId),
                  add_workflow_parallel(workflow, NewId)} :
          Kept(m, workflow, NewIds(NewId), d, 1) /\ Size[workflow] <= Size[m]
    BY <1>1, <1>2, AddedKept
  <2>3. Kept(workflow', workflow, NewIds(NewId), d, 1) /\ Size[workflow] <= Size[workflow']
    BY <2>1, <2>2
  <2>4. RowIn(flow.row, workflow')
    BY <1>2, <1>3, <2>3, RowStays DEF Kept
  <2>5. EditsWorkflow /\ flow' = flow
    BY <1>8 DEF workflow_add
  <2> QED BY <1>3, <2>3, <2>4, <2>5, WorkflowEdited DEF d
<1> QED BY <1>4, <1>5, <1>6, <1>7, <1>8 DEF WorkflowTab

LEMMA ConstraintTabKeeps == ASSUME Inv, ConstraintTab PROVE Inv'
<1> DEFINE d == Levels(edits)
<1>1. edits \in 0..MaxEdits /\ Edited(constraints, edits) /\ ~IsWorkflow(constraints)
  BY DEF Inv
<1>2. /\ constraints \in Tree /\ constraints \in TreesTo[d] /\ WellFormed(constraints)
      /\ d \in Nat /\ 2 <= d /\ d + 1 <= MaxHeight /\ d <= MaxHeight
      /\ NewIds(NewId) \intersect Ids(constraints) = {} /\ NewId \in Nat
      /\ NewId \notin Ids(constraints) /\ NewId \in NewIds(NewId)
  BY <1>1, Editable DEF NewId
<1>3. RowIn(cond.row, constraints) /\ cond.shown \subseteq Nat
  BY DEF Inv
<1>4. constraints.kind \in Conditions
  BY <1>1, <1>2, KindsApart
<1> HIDE DEF d
<1>5. CASE constraint_node_selected
  <2>1. UNCHANGED <<workflow, constraints, flow, edits>>
    BY <1>5 DEF constraint_node_selected
  <2>2. PICK p \in DOMAIN ByPosition(Rows[constraints]) : cond' = Selected(ByPosition(Rows[constraints]), p)
    BY <1>5 DEF constraint_node_selected, flatten_constraint
  <2>3. RowIn(cond'.row, constraints) /\ cond'.shown \subseteq Nat
    BY <1>2, <2>2, SelectedRow
  <2> QED BY <2>1, <2>3 DEF Inv
<1>6. CASE constraint_update
  <2>1. PICK cfg \in cond.shown : constraints' = Updating(cond.row, cfg)[constraints][0]
    BY <1>6 DEF constraint_update, update_constraint_leaf
  <2>2. Kept(Updating(cond.row, cfg)[constraints][0], constraints, {}, d, 0)
        /\ Size[constraints] <= Size[Updating(cond.row, cfg)[constraints][0]]
    BY <1>2, <1>3, UpdatingKept
  <2>3. Kept(constraints', constraints, {}, d, 0) /\ Size[constraints] <= Size[constraints']
    BY <2>1, <2>2
  <2>4. RowIn(cond.row, constraints')
    BY <1>2, <1>3, <2>3, RowStays DEF Kept
  <2>5. EditsConstraints /\ cond' = cond
    BY <1>6 DEF constraint_update
  <2> QED BY <1>3, <2>3, <2>4, <2>5, ConstraintsEdited DEF d
<1>7. CASE constraint_delete_node
  <2> DEFINE m == OrElse(Deleting(cond.row)[constraints][0], Node("Always", constraints.id, <<>>))
  <2>1. constraints' = m
    BY <1>7 DEF constraint_delete_node, delete_constraint_at
  <2>2. "Always" \in Conditions <=> constraints.kind \in Conditions
    BY <1>4 DEF Conditions
  <2>3. Kept(m, constraints, {}, d, 0)
    BY <1>2, <2>2, DeletedKept
  <2>4. cond'.row = -1 /\ cond'.shown = {} /\ EditsConstraints
    BY <1>7 DEF constraint_delete_node, NothingSelected
  <2> HIDE DEF m
  <2> QED BY <2>1, <2>3, <2>4, ConstraintsEdited DEF d, RowIn
<1>8. ASSUME NEW up \in BOOLEAN, constraint_move(up) PROVE Inv'
  <2>1. PICK p : constraints' = Moving(p, up)[constraints][0]
    BY <1>8 DEF constraint_move, move_constraint_node
  <2>2. Kept(Moving(p, up)[constraints][0], constraints, {}, d, 0)
        /\ Size[constraints] <= Size[Moving(p, up)[constraints][0]]
    BY <1>2, MovingKept
  <2>3. Kept(constraints', constraints, {}, d, 0) /\ Size[constraints] <= Size[constraints']
    BY <2>1, <2>2
  <2>4. RowIn(cond.row, constraints')
    BY <1>2, <1>3, <2>3, RowStays DEF Kept
  <2>5. EditsConstraints /\ cond' = cond
    BY <1>8 DEF constraint_move
  <2> QED BY <1>3, <2>3, <2>4, <2>5, ConstraintsEdited DEF d
<1>9. CASE constraint_add_leaf
  <2>1. constraints' = add_constraint_leaf(constraints, NewId)
    BY <1>9 DEF constraint_add_leaf
  <2>2. /\ Kept(add_constraint_leaf(constraints, NewId), constraints, NewIds(NewId), d, 1)
        /\ Size[constraints] <= Size[add_constraint_leaf(constraints, NewId)]
    BY <1>2, <1>4, LeafAddedKept
  <2>3. Kept(constraints', constraints, NewIds(NewId), d, 1) /\ Size[constraints] <= Size[constraints']
    BY <2>1, <2>2
  <2>4. RowIn(cond.row, constraints')
    BY <1>2, <1>3, <2>3, RowStays DEF Kept
  <2>5. EditsConstraints /\ cond' = cond
    BY <1>9 DEF constraint_add_leaf
  <2> QED BY <1>3, <2>3, <2>4, <2>5, ConstraintsEdited DEF d
<1>10. ASSUME NEW kind \in Wraps, constraint_wrap(kind) PROVE Inv'
  <2> DEFINE pos == IF cond.row < 0 THEN 0 ELSE cond.row
             m == Wrapping(pos, kind, NewId)[constraints][0]
             new == {NewId}
  <2>1. constraints' = m
    BY <1>10 DEF constraint_wrap, wrap_constraint_at
  <2>2. pos \in Nat
    <3>1. Size[constraints] \in Nat
      BY <1>2, SizeType
    <3> QED BY <1>3, <3>1 DEF RowIn
  <2> HIDE DEF pos
  <2>3. Kept(m, constraints, {NewId}, d, 1) /\ Size[constraints] <= Size[m]
    BY <1>2, <1>4, <2>2, WrappingKept
  <2> HIDE DEF m
  <2>4. Kept(constraints', constraints, {NewId}, d, 1) /\ Size[constraints] <= Size[constraints']
    BY <2>1, <2>3
  <2>5. RowIn(cond.row, constraints')
    BY <1>2, <1>3, <2>4, RowStays DEF Kept
  <2>6. EditsConstraints /\ cond' = cond
    BY <1>10 DEF constraint_wrap
  <2>7. new \subseteq NewIds(NewId) /\ Kept(constraints', constraints, new, d, 1)
    BY <1>2, <2>4
  <2> HIDE DEF new
  <2> QED BY <1>3, <2>5, <2>6, <2>7, ConstraintsEdited DEF d
<1> QED BY <1>5, <1>6, <1>7, <1>8, <1>9, <1>10 DEF ConstraintTab, Wraps

LEMMA InvHolds == Spec => []Inv
<1>1. Inv /\ [Next]_vars => Inv'
  <2> SUFFICES ASSUME Inv, [Next]_vars PROVE Inv'
    OBVIOUS
  <2>1. CASE refresh_macro_detail
    <3>1. flow'.row = -1 /\ flow'.shown = {} /\ cond'.row = -1 /\ cond'.shown = {}
      BY <2>1 DEF refresh_macro_detail, NothingSelected
    <3>2. UNCHANGED <<workflow, constraints, edits>>
      BY <2>1 DEF refresh_macro_detail
    <3> QED BY <3>1, <3>2 DEF Inv, RowIn
  <2>2. CASE UNCHANGED vars
    BY <2>2 DEF vars, Inv
  <2> QED BY <2>1, <2>2, WorkflowTabKeeps, ConstraintTabKeeps DEF Next
<1> QED BY <1>1, InvInit, PTL DEF Spec

(* TypeOK: whatever is clicked, edited, moved, wrapped, added and deleted,   *)
(* in any order, both trees stay well-formed, each node with a name of its   *)
(* own, and a selected row is a row of the tree (the helpers of              *)
(* tree_model.rs and the callbacks that give them a row).                    *)
THEOREM TypeCorrect == Spec => []TypeOK
<1>1. Inv => TypeOK
  <2> SUFFICES ASSUME Inv PROVE TypeOK
    OBVIOUS
  <2>1. workflow \in Tree /\ WellFormed(workflow) /\ constraints \in Tree /\ WellFormed(constraints)
    BY Editable DEF Inv
  <2>2. /\ DOMAIN flatten_workflow(workflow) = 0..Size[workflow] - 1
        /\ DOMAIN flatten_constraint(constraints) = 0..Size[constraints] - 1
    BY <2>1, RowsAt DEF flatten_workflow, flatten_constraint
  <2> QED BY <2>1, <2>2 DEF Inv, TypeOK, RowIn
<1> QED BY <1>1, InvHolds, PTL

(* UpdateHitsItsRow: replace_action_rec and its twin for conditions count    *)
(* positions as the flatten walk does up to the first ForEach, so that the   *)
(* settings go to the leaf of the row and to no other.                       *)
THEOREM UpdatesHitTheirRows == Spec => []UpdateHitsItsRow
<1>1. Inv => UpdateHitsItsRow
  <2> SUFFICES ASSUME Inv, NEW n \in Trees, NEW p \in Stable(n, flatten_workflow(n))
               PROVE  update_workflow_action(n, p, 0)
                        = SettingById(IF flatten_workflow(n)[p].shown = {} THEN {} ELSE {flatten_workflow(n)[p].id}, 0)[n]
    BY DEF UpdateHitsItsRow
  <2>1. n \in Tree /\ WellFormed(n)
    BY Editable DEF Inv, Trees
  <2> DEFINE rows == flatten_workflow(n)
  <2>2. DOMAIN rows = 0..Size[n] - 1 /\ \A q \in 0..Size[n] - 1 : rows[q] = Row(n, q)
    BY <2>1, RowsAt DEF flatten_workflow
  <2> HIDE DEF rows
  <2>3. p \in 0..Size[n] - 1 /\ \A q \in 0..p - 1 : rows[q].id \notin Loops(n)
    BY <2>2 DEF Stable, rows
  <2>4. Steady(n, p)
    <3> SUFFICES ASSUME NEW q \in 0..p - 1 PROVE Row(n, q).id \notin Loops(n)
      BY DEF Steady
    <3>1. q \in 0..Size[n] - 1
      <4>1. Size[n] \in Nat
        BY <2>1, SizeType
      <4> QED BY <2>3, <4>1
    <3> QED BY <2>2, <2>3, <3>1
  <2>5. Updating(0 + p, 0)[n][0] = SettingById(Hits(n, p), 0)[n]
    BY <2>1, <2>3, <2>4, HitAnywhere DEF Hit
  <2>6. 0 + p = p
    BY <2>3, SizeType, <2>1
  <2> QED BY <2>2, <2>3, <2>5, <2>6 DEF update_workflow_action, Hits, rows
<1> QED BY <1>1, InvHolds, PTL

(* MovesSwapNeighbours: move_workflow_node and move_constraint_node, which   *)
(* compute where the rows of each child begin and end, swap the node of the  *)
(* row with its neighbour and change nothing else, also behind a ForEach.    *)
THEOREM MovesSwap == Spec => []MovesSwapNeighbours
<1>1. Inv => MovesSwapNeighbours
  <2> SUFFICES ASSUME Inv, NEW n \in Trees, NEW p \in DOMAIN flatten_workflow(n), NEW up \in BOOLEAN,
                      ~flatten_workflow(n)[p].label
               PROVE  move_workflow_node(n, p, up) = SwappingById(flatten_workflow(n)[p].id, up)[n]
    BY DEF MovesSwapNeighbours
  <2>1. n \in Tree /\ WellFormed(n)
    BY Editable DEF Inv, Trees
  <2>2. p \in 0..Size[n] - 1 /\ flatten_workflow(n)[p] = Row(n, p)
    BY <2>1, RowsAt DEF flatten_workflow
  <2>3. Moving(0 + p, up)[n][0] = SwappingById(Row(n, p).id, up)[n]
    BY <2>1, <2>2, MovesAnywhere DEF Moves
  <2>4. 0 + p = p
    BY <2>1, <2>2, SizeType
  <2> QED BY <2>2, <2>3, <2>4 DEF move_workflow_node
<1> QED BY <1>1, InvHolds, PTL

-----------------------------------------------------------------------------
(* What a condition means.                                                 *)

\* A condition holds, and holds without a node.
Holds(n, t) == HoldsIn(t)[n]
HoldsLess(n, id, t) == HoldsWithout(id, t)[n]

\* The children but those of that name.
Rest(n, id) == {k \in DOMAIN n.kids : n.kids[k].id # id}

LEMMA HoldsDef ==
  ASSUME NEW n \in Tree, NEW t
  PROVE  /\ n.kind = "Always" => Holds(n, t)
         /\ n.kind = "Leaf" => (Holds(n, t) <=> n.id \in t)
         /\ n.kind = "Not" => (Holds(n, t) <=> \A k \in DOMAIN n.kids : ~Holds(n.kids[k], t))
         /\ n.kind = "All" => (Holds(n, t) <=> \A k \in DOMAIN n.kids : Holds(n.kids[k], t))
         /\ n.kind = "Any" => (Holds(n, t) <=> \E k \in DOMAIN n.kids : Holds(n.kids[k], t))
<1> DEFINE H == HoldsIn(t)
           B(m) == \/ m.kind = "Always"
                   \/ m.kind = "Leaf" /\ m.id \in t
                   \/ m.kind = "Not" /\ \A k \in DOMAIN m.kids : ~H[m.kids[k]]
                   \/ m.kind = "All" /\ \A k \in DOMAIN m.kids : H[m.kids[k]]
                   \/ m.kind = "Any" /\ \E k \in DOMAIN m.kids : H[m.kids[k]]
<1>1. H = [m \in Tree |-> B(m)]
  BY HoldsInIs
<1>2. H[n] = B(n)
  <2> HIDE DEF B, H
  <2> QED BY <1>1
<1> QED BY <1>2 DEF Holds

LEMMA HoldsLessDef ==
  ASSUME NEW n \in Tree, NEW id, NEW t
  PROVE  /\ n.kind \in {"Always", "Leaf"} => (HoldsLess(n, id, t) <=> Holds(n, t))
         /\ n.kind \notin {"Always", "Leaf"} /\ Rest(n, id) = {} => HoldsLess(n, id, t)
         /\ n.kind = "Not" /\ Rest(n, id) # {} =>
              (HoldsLess(n, id, t) <=> \A k \in Rest(n, id) : ~HoldsLess(n.kids[k], id, t))
         /\ n.kind = "All" /\ Rest(n, id) # {} =>
              (HoldsLess(n, id, t) <=> \A k \in Rest(n, id) : HoldsLess(n.kids[k], id, t))
         /\ n.kind = "Any" /\ Rest(n, id) # {} =>
              (HoldsLess(n, id, t) <=> \E k \in Rest(n, id) : HoldsLess(n.kids[k], id, t))
<1> DEFINE H == HoldsWithout(id, t)
           G == HoldsIn(t)
           B(m) == LET rest == {k \in DOMAIN m.kids : m.kids[k].id # id} IN
                   \/ m.kind \in {"Always", "Leaf"} /\ G[m]
                   \/ m.kind \notin {"Always", "Leaf"} /\ rest = {}
                   \/ m.kind = "Not" /\ rest # {} /\ \A k \in rest : ~H[m.kids[k]]
                   \/ m.kind = "All" /\ rest # {} /\ \A k \in rest : H[m.kids[k]]
                   \/ m.kind = "Any" /\ rest # {} /\ \E k \in rest : H[m.kids[k]]
<1>1. H = [m \in Tree |-> B(m)]
  BY HoldsWithoutIs
<1>2. H[n] = B(n)
  <2> HIDE DEF B, H
  <2> QED BY <1>1
<1> DEFINE R == Rest(n, id)
<1>3. H[n] <=> \/ n.kind \in {"Always", "Leaf"} /\ G[n]
               \/ n.kind \notin {"Always", "Leaf"} /\ R = {}
               \/ n.kind = "Not" /\ R # {} /\ \A k \in R : ~H[n.kids[k]]
               \/ n.kind = "All" /\ R # {} /\ \A k \in R : H[n.kids[k]]
               \/ n.kind = "Any" /\ R # {} /\ \E k \in R : H[n.kids[k]]
  BY <1>2 DEF Rest
<1> HIDE DEF R
<1> QED BY <1>3 DEF HoldsLess, Holds, R

\* Nodes of one kind whose children mean the same mean the same.
LEMMA SameMeaning ==
  ASSUME NEW t, NEW n \in Tree, NEW m \in Tree, n.kind \in Conditions, m.kind = n.kind, m.id = n.id,
         \A i \in DOMAIN m.kids : \E k \in DOMAIN n.kids : Holds(m.kids[i], t) <=> Holds(n.kids[k], t),
         \A k \in DOMAIN n.kids : \E i \in DOMAIN m.kids : Holds(m.kids[i], t) <=> Holds(n.kids[k], t)
  PROVE  Holds(m, t) <=> Holds(n, t)
<1>1. CASE n.kind = "Always"
  BY <1>1, HoldsDef
<1>2. CASE n.kind = "Leaf"
  BY <1>2, HoldsDef
<1>3. CASE n.kind = "Not"
  <2>1. Holds(m, t) <=> \A k \in DOMAIN m.kids : ~Holds(m.kids[k], t)
    BY <1>3, HoldsDef
  <2>2. Holds(n, t) <=> \A k \in DOMAIN n.kids : ~Holds(n.kids[k], t)
    BY <1>3, HoldsDef
  <2> QED BY <2>1, <2>2
<1>4. CASE n.kind = "All"
  <2>1. Holds(m, t) <=> \A k \in DOMAIN m.kids : Holds(m.kids[k], t)
    BY <1>4, HoldsDef
  <2>2. Holds(n, t) <=> \A k \in DOMAIN n.kids : Holds(n.kids[k], t)
    BY <1>4, HoldsDef
  <2> QED BY <2>1, <2>2
<1>5. CASE n.kind = "Any"
  <2>1. Holds(m, t) <=> \E k \in DOMAIN m.kids : Holds(m.kids[k], t)
    BY <1>5, HoldsDef
  <2>2. Holds(n, t) <=> \E k \in DOMAIN n.kids : Holds(n.kids[k], t)
    BY <1>5, HoldsDef
  <2> QED BY <2>1, <2>2
<1> QED BY <1>1, <1>2, <1>3, <1>4, <1>5 DEF Conditions

\* The children of a condition are conditions.
LEMMA CondKids ==
  ASSUME NEW n \in Tree, WellFormed(n), n.kind \in Conditions
  PROVE  \A k \in DOMAIN n.kids : n.kids[k] \in Tree /\ WellFormed(n.kids[k]) /\ n.kids[k].kind \in Conditions
<1>1. \A k \in DOMAIN n.kids : n.kids[k] \in Tree
  BY TreeKids
<1> QED BY <1>1, WellFormedDef DEF WellShaped

-----------------------------------------------------------------------------
(* Moves, wraps and additions.                                             *)

\* The order of the children does not matter,
LEMMA TurnedMeans ==
  ASSUME NEW t, NEW n \in Tree, n.kind \in Conditions, NEW a \in DOMAIN n.kids, a + 1 \in DOMAIN n.kids,
         WithKids(n, KidsTurned(n, a)) \in Tree
  PROVE  Holds(WithKids(n, KidsTurned(n, a)), t) <=> Holds(n, t)
<1> DEFINE ks == KidsTurned(n, a)
           m == WithKids(n, ks)
<1>1. DOMAIN n.kids = 1..Len(n.kids) /\ Len(n.kids) \in Nat
  BY TreeKids
<1>2. a # a + 1
  BY <1>1
<1>3. DOMAIN ks = DOMAIN n.kids
  BY DEF KidsTurned
<1>4. ks[a] = n.kids[a + 1] /\ ks[a + 1] = n.kids[a] /\ \A k \in DOMAIN n.kids : k # a /\ k # a + 1 => ks[k] = n.kids[k]
  BY <1>2 DEF KidsTurned
<1> HIDE DEF ks
<1>5. m.kind = n.kind /\ m.id = n.id /\ m.kids = ks
  BY WithKidsRec, RecFields
<1> HIDE DEF m
<1>6. \A i \in DOMAIN ks : \E k \in DOMAIN n.kids : ks[i] = n.kids[k]
  BY <1>3, <1>4
<1>7. \A k \in DOMAIN n.kids : \E i \in DOMAIN ks : ks[i] = n.kids[k]
  BY <1>3, <1>4
<1>8. \A i \in DOMAIN m.kids : \E k \in DOMAIN n.kids : Holds(m.kids[i], t) <=> Holds(n.kids[k], t)
  BY <1>5, <1>6
<1>9. \A k \in DOMAIN n.kids : \E i \in DOMAIN m.kids : Holds(m.kids[i], t) <=> Holds(n.kids[k], t)
  BY <1>5, <1>7
<1>10. m \in Tree
  BY DEF m, ks
<1>11. Holds(m, t) <=> Holds(n, t)
  BY <1>5, <1>8, <1>9, <1>10, SameMeaning
<1> QED BY <1>11 DEF m, ks

\* and neither what they are made of.
LEMMA KidsMean ==
  ASSUME NEW t, NEW n \in Tree, n.kind \in Conditions, NEW ks, ks = [k \in DOMAIN n.kids |-> ks[k]],
         \A k \in DOMAIN n.kids : Holds(ks[k], t) <=> Holds(n.kids[k], t), WithKids(n, ks) \in Tree
  PROVE  Holds(WithKids(n, ks), t) <=> Holds(n, t)
<1> DEFINE m == WithKids(n, ks)
<1>1. m.kind = n.kind /\ m.id = n.id /\ m.kids = ks
  BY WithKidsRec, RecFields
<1>2. DOMAIN ks = DOMAIN n.kids
  OBVIOUS
<1>3. m \in Tree
  OBVIOUS
<1> HIDE DEF m
<1>4. \A i \in DOMAIN m.kids : \E k \in DOMAIN n.kids : Holds(m.kids[i], t) <=> Holds(n.kids[k], t)
  BY <1>1, <1>2
<1>5. \A k \in DOMAIN n.kids : \E i \in DOMAIN m.kids : Holds(m.kids[i], t) <=> Holds(n.kids[k], t)
  BY <1>1, <1>2
<1>6. Holds(m, t) <=> Holds(n, t)
  BY <1>1, <1>3, <1>4, <1>5, SameMeaning
<1> QED BY <1>6 DEF m

\* A move changes nothing of what a condition means.
LEMMA MovedMeans ==
  ASSUME NEW pos, NEW up, NEW t
  PROVE  \A n \in Tree : WellFormed(n) /\ n.kind \in Conditions =>
           \A at \in Nat : Holds(Moving(pos, up)[n][at], t) <=> Holds(n, t)
<1> DEFINE U == Moving(pos, up)
           S == {n \in Tree : WellFormed(n) /\ n.kind \in Conditions =>
                   \A at \in Nat : Holds(U[n][at], t) <=> Holds(n, t)}
<1>1. ASSUME NEW n \in Tree, \A k \in DOMAIN n.kids : n.kids[k] \in S PROVE n \in S
  <2> SUFFICES ASSUME WellFormed(n), n.kind \in Conditions, NEW at \in Nat
               PROVE  Holds(U[n][at], t) <=> Holds(n, t)
    OBVIOUS
  <2>1. U[n][at] \in Tree
    <3>1. MaxHeight \in Nat /\ MaxHeight <= MaxHeight /\ n \in TreesTo[MaxHeight]
      BY MaxHeightAssumption DEF Tree
    <3> QED BY <3>1, MovingKept DEF Kept
  <2>2. CASE n.kind \in Lists /\ HitAt(n, at, pos) # {}
    <3> DEFINE i == CHOOSE x \in HitAt(n, at, pos) : TRUE
               T == Neighbour(n.kids, i, up)
    <3>1. U[n][at] = WithKids(n, Swapped(n.kids, i, T))
      BY <2>2, MovingDef DEF KidsSwapped
    <3>2. i \in DOMAIN n.kids
      <4>1. i \in HitAt(n, at, pos)
        BY <2>2
      <4> QED BY <4>1 DEF HitAt
    <3> HIDE DEF i, U
    <3>3. CASE T = {}
      <4>1. U[n][at] = n
        BY <3>1, <3>3, NoNeighbour
      <4> QED BY <4>1
    <3>4. CASE T # {}
      <4>1. PICK a \in DOMAIN n.kids : a + 1 \in DOMAIN n.kids /\ Swapped(n.kids, i, T) = KidsTurned(n, a)
        BY <3>2, <3>4, NeighbourTurned
      <4> QED BY <2>1, <3>1, <4>1, TurnedMeans
    <3> QED BY <3>3, <3>4
  <2>3. CASE ~(n.kind \in Lists /\ HitAt(n, at, pos) # {})
    <3> DEFINE ks == KidsMoved(n, at, pos, up)
    <3>1. U[n][at] = WithKids(n, ks)
      BY <2>3, MovingDef
    <3>2. ks = [k \in DOMAIN n.kids |-> ks[k]]
      BY DEF KidsMoved
    <3>3. \A k \in DOMAIN n.kids : ks[k] = U[n.kids[k]][at + First(n, k)] \/ ks[k] = n.kids[k]
      BY KidsMovedDef
    <3>4. \A k \in DOMAIN n.kids : at + First(n, k) \in Nat
      <4> TAKE k \in DOMAIN n.kids
      <4>1. First(n, k) \in Nat
        BY StartsFirst
      <4> QED BY <4>1
    <3>5. \A k \in DOMAIN n.kids : WellFormed(n.kids[k]) /\ n.kids[k].kind \in Conditions
      BY CondKids
    <3> HIDE DEF ks, U
    <3>6. \A k \in DOMAIN n.kids : Holds(ks[k], t) <=> Holds(n.kids[k], t)
      BY <1>1, <3>3, <3>4, <3>5
    <3> QED BY <2>1, <3>1, <3>2, <3>6, KidsMean
  <2> QED BY <2>2, <2>3
<1>2. Tree \subseteq S
  <2> HIDE DEF S
  <2> QED BY <1>1, TreeInduction
<1> QED BY <1>2

\* A wrap in AND or OR changes nothing.
LEMMA WrappedMeans ==
  ASSUME NEW pos \in Nat, NEW kind \in {"And", "Or"}, NEW id \in Nat, NEW t
  PROVE  \A n \in Tree : \A d \in Nat :
           d + 1 <= MaxHeight /\ n \in TreesTo[d] /\ WellFormed(n) /\ n.kind \in Conditions /\ id \notin Ids(n) =>
             \A at \in Nat : Holds(Wrapping(pos, kind, id)[n][at], t) <=> Holds(n, t)
<1> DEFINE U == Wrapping(pos, kind, id)
           S == {n \in Tree : \A d \in Nat :
                   d + 1 <= MaxHeight /\ n \in TreesTo[d] /\ WellFormed(n) /\ n.kind \in Conditions /\ id \notin Ids(n) =>
                     \A at \in Nat : Holds(U[n][at], t) <=> Holds(n, t)}
<1>0. kind \in Wraps
  BY DEF Wraps
<1>1. ASSUME NEW n \in Tree, \A k \in DOMAIN n.kids : n.kids[k] \in S PROVE n \in S
  <2> SUFFICES ASSUME NEW d \in Nat, d + 1 <= MaxHeight, n \in TreesTo[d], WellFormed(n), n.kind \in Conditions,
                      id \notin Ids(n), NEW at \in Nat
               PROVE  Holds(U[n][at], t) <=> Holds(n, t)
    OBVIOUS
  <2>1. U[n][at] \in Tree
    BY <1>0, WrappingKept DEF Kept
  <2>2. CASE at = pos
    <3>1. U[n][at] = wrap_expr(n, kind, id)
      BY <2>2, WrappingDef
    <3>2. CASE n.kind = GroupOf(kind)
      BY <3>1, <3>2 DEF wrap_expr
    <3>3. CASE n.kind # GroupOf(kind)
      <4> DEFINE g == GroupOf(kind)
                 ks == <<n>>
                 m == Rec(g, id, id, ks)
      <4>1. U[n][at] = m
        BY <3>1, <3>3 DEF wrap_expr, Node, Rec
      <4>2. ks[1] = n /\ DOMAIN ks = {1}
        BY Single
      <4>3. g \in {"All", "Any"}
        BY DEF GroupOf
      <4> HIDE DEF ks, g
      <4>4. m.kind = g /\ m.kids = ks
        BY RecFields
      <4> HIDE DEF m, U
      <4>5. m \in Tree
        BY <2>1, <4>1
      <4>6. Holds(m, t) <=> Holds(n, t)
        BY <4>2, <4>3, <4>4, <4>5, HoldsDef
      <4> QED BY <4>1, <4>6
    <3> QED BY <3>2, <3>3
  <2>3. CASE at # pos
    <3> DEFINE ks == KidsWrapped(n, at, pos, kind, id)
    <3>1. PICK c \in Nat : d = c + 1
      <4>1. d > 0
        BY TreeParts
      <4>2. d - 1 \in Nat /\ d = (d - 1) + 1
        BY <4>1
      <4> QED BY <4>2
    <3>2. c + 1 <= MaxHeight /\ c <= MaxHeight /\ n \in TreesTo[c + 1]
      BY <3>1, MaxHeightAssumption
    <3>3. \A k \in DOMAIN n.kids : /\ n.kids[k] \in TreesTo[c] /\ WellFormed(n.kids[k])
                                   /\ n.kids[k] \in Tree /\ n.kids[k].kind \in Conditions
                                   /\ id \notin Ids(n.kids[k])
      BY <3>2, KidsTo
    <3>4. U[n][at] = WithKids(n, ks)
      BY <2>3, WrappingDef
    <3>5. ks = [k \in DOMAIN n.kids |-> ks[k]]
      BY DEF KidsWrapped
    <3>6. \A k \in DOMAIN n.kids : ks[k] = U[n.kids[k]][at + First(n, k)] /\ at + First(n, k) \in Nat
      <4>1. \A k \in DOMAIN n.kids : ks[k] = U[n.kids[k]][at + First(n, k)]
        BY KidsWrappedDef
      <4>2. \A k \in DOMAIN n.kids : at + First(n, k) \in Nat
        BY StartsFirst
      <4> QED BY <4>1, <4>2
    <3> HIDE DEF ks, U
    <3>7. \A k \in DOMAIN n.kids : Holds(ks[k], t) <=> Holds(n.kids[k], t)
      BY <1>1, <3>2, <3>3, <3>6
    <3> QED BY <2>1, <3>4, <3>5, <3>7, KidsMean
  <2> QED BY <2>2, <2>3
<1>2. Tree \subseteq S
  <2> HIDE DEF S
  <2> QED BY <1>1, TreeInduction
<1> QED BY <1>2

\* An added leaf is one more condition that must hold.
LEMMA AddedMeans ==
  ASSUME NEW d \in Nat, 2 <= d, d + 1 <= MaxHeight, NEW n \in TreesTo[d], WellFormed(n), n.kind \in Conditions,
         NEW id \in Nat, NewIds(id) \intersect Ids(n) = {}, NEW t
  PROVE  Holds(add_constraint_leaf(n, id), t) <=> Holds(n, t) /\ id \in t
<1> DEFINE x == Node("Leaf", id, <<>>)
           r == add_constraint_leaf(n, id)
<1>1. r \in Tree
  BY LeafAddedKept DEF Kept
<1>2. x \in Tree /\ x.kind = "Leaf"
  <2>1. 2 <= MaxHeight
    BY MaxHeightAssumption
  <2> QED BY <2>1, NewLeaf
<1>3. x.id = id
  BY DEF Node
<1> HIDE DEF x
<1>4. Holds(x, t) <=> id \in t
  BY <1>2, <1>3, HoldsDef
<1>5. n \in Tree
  <2>1. d <= MaxHeight
    BY MaxHeightAssumption
  <2> QED BY <2>1, KeptSelf
<1>6. CASE n.kind = "Always"
  <2>1. r = x
    BY <1>6 DEF add_constraint_leaf, x
  <2> QED BY <1>4, <1>5, <1>6, <2>1, HoldsDef
<1>7. CASE n.kind = "All"
  <2> DEFINE ks == Append(n.kids, x)
  <2>1. r = WithKids(n, ks)
    BY <1>7 DEF add_constraint_leaf, WithKids, x
  <2>2. n.kids \in Seq(Tree) /\ DOMAIN n.kids = 1..Len(n.kids) /\ Len(n.kids) \in Nat
    BY <1>5, TreeKids
  <2>3. /\ Len(ks) = Len(n.kids) + 1 /\ ks[Len(n.kids) + 1] = x /\ ks \in Seq(Tree)
        /\ \A k \in 1..Len(n.kids) : ks[k] = n.kids[k]
    <3> DEFINE s == n.kids
    <3>1. s \in Seq(Tree)
      BY <2>2
    <3> HIDE DEF s
    <3>2. /\ Append(s, x) \in Seq(Tree) /\ Len(Append(s, x)) = Len(s) + 1 /\ Append(s, x)[Len(s) + 1] = x
          /\ \A k \in 1..Len(s) : Append(s, x)[k] = s[k]
      BY <1>2, <3>1, AppendProperties
    <3> QED BY <3>2 DEF s
  <2> HIDE DEF ks
  <2>4. DOMAIN ks = 1..Len(n.kids) + 1
    BY <2>3
  <2>5. r.kind = "All" /\ r.kids = ks
    BY <1>5, <1>7, <2>1, WithKidsRec, RecFields
  <2>6. Holds(r, t) <=> \A k \in DOMAIN ks : Holds(ks[k], t)
    BY <1>1, <2>5, HoldsDef
  <2>7. Holds(n, t) <=> \A k \in DOMAIN n.kids : Holds(n.kids[k], t)
    BY <1>5, <1>7, HoldsDef
  <2> DEFINE l == Len(n.kids)
  <2>8. /\ \A k \in 1..l + 1 : k = l + 1 \/ k \in 1..l
        /\ l + 1 \in 1..l + 1 /\ \A k \in 1..l : k \in 1..l + 1
    BY <2>2
  <2> HIDE DEF l, r
  <2>9. DOMAIN ks = 1..l + 1 /\ DOMAIN n.kids = 1..l /\ ks[l + 1] = x /\ \A k \in 1..l : ks[k] = n.kids[k]
    BY <2>2, <2>3, <2>4 DEF l
  <2>10. (\A k \in DOMAIN ks : Holds(ks[k], t)) <=> (\A k \in DOMAIN n.kids : Holds(n.kids[k], t)) /\ Holds(x, t)
    BY <2>8, <2>9
  <2> QED BY <1>4, <2>6, <2>7, <2>10 DEF r
<1>8. CASE n.kind # "Always" /\ n.kind # "All"
  <2> DEFINE ks == <<n, x>>
  <2>1. r = Rec("All", id + 1, id + 1, ks)
    BY <1>8 DEF add_constraint_leaf, Node, Rec, x
  <2>2. DOMAIN ks = {1, 2} /\ ks[1] = n /\ ks[2] = x
    BY <1>2, <1>5, Pair
  <2> HIDE DEF ks
  <2>3. r.kind = "All" /\ r.kids = ks
    BY <2>1, RecFields
  <2>4. Holds(r, t) <=> \A k \in DOMAIN ks : Holds(ks[k], t)
    BY <1>1, <2>3, HoldsDef
  <2> QED BY <1>4, <2>2, <2>4
<1> QED BY <1>6, <1>7, <1>8

\* No condition is a ForEach: every walk counts its rows.
LEMMA CondLoopless == \A n \in Tree : WellFormed(n) /\ n.kind \in Conditions => Loopless(n)
<1> DEFINE S == {n \in Tree : WellFormed(n) /\ n.kind \in Conditions => Loopless(n)}
<1>1. ASSUME NEW n \in Tree, \A k \in DOMAIN n.kids : n.kids[k] \in S PROVE n \in S
  <2> SUFFICES ASSUME WellFormed(n), n.kind \in Conditions, NEW m \in Below[n] PROVE m.kind # "ForEach"
    BY DEF Loopless
  <2>1. n.kind # "ForEach"
    BY DEF Conditions
  <2>2. \A k \in DOMAIN n.kids : Loopless(n.kids[k])
    BY <1>1, CondKids
  <2> QED BY <2>1, <2>2, BelowDef DEF Loopless
<1>2. Tree \subseteq S
  <2> HIDE DEF S
  <2> QED BY <1>1, TreeInduction
<1> QED BY <1>2

LEMMA CondCount ==
  ASSUME NEW n \in Tree, WellFormed(n), n.kind \in Conditions
  PROVE  ~NotEntered(n) /\ \A k \in DOMAIN n.kids : CountFirst(n, k) = First(n, k)
<1>1. \A k \in DOMAIN n.kids : Counted[n.kids[k]] = Size[n.kids[k]]
  BY CondKids, CondLoopless, LooplessCount
<1>2. Counts(n) = Sizes(n)
  BY <1>1 DEF Counts, Sizes
<1> QED BY <1>2 DEF CountFirst, First, NotEntered, Conditions

\* A row other than the first is in a child, and not that of the node.
LEMMA CondRow ==
  ASSUME NEW n \in Tree, WellFormed(n), n.kind \in Conditions, NEW p \in 0..Size[n] - 1, p # 0
  PROVE  \E k, q : /\ Within(n, p, k, q) /\ k \in DOMAIN n.kids /\ Row(n, p) = Row(n.kids[k], q)
                   /\ Row(n, p).id \in Ids(n.kids[k]) /\ Row(n, p).id # n.id
<1>1. n.kind # "If"
  BY DEF Conditions
<1>2. PICK k, q : Within(n, p, k, q)
  BY <1>1, RowPlace
<1>3. k \in 1..Len(n.kids) /\ k \in DOMAIN n.kids /\ q \in 0..Size[n.kids[k]] - 1 /\ p = First(n, k) + q
  BY <1>2, TreeKids DEF Within
<1>4. Row(n, p) = Row(n.kids[k], q) /\ n.kids[k] \in Tree
  BY <1>3, RowsDef, TreeKids
<1>5. Row(n, p).id \in Ids(n.kids[k])
  BY <1>3, <1>4, RowIds
<1>6. Apart(n)
  BY WellFormedDef
<1>7. Row(n, p).id # n.id
  BY <1>3, <1>5, <1>6, ApartDef
<1> QED BY <1>2, <1>3, <1>4, <1>5, <1>7

\* The node at that position is the one of that name, unless neither is in the tree.
Aim(n, at, pos, id) ==
  \/ Outside(n, at, pos) /\ id \notin Ids(n)
  \/ \E p \in 0..Size[n] - 1 : p # 0 /\ pos = at + p /\ id = Row(n, p).id

\* The aim is taken on to the children, one of which may be the one to delete.
LEMMA AimKids ==
  ASSUME NEW n \in Tree, WellFormed(n), n.kind \in Conditions, NEW at \in Nat, NEW pos \in Nat, NEW id, Aim(n, at, pos, id)
  PROVE  /\ at # pos
         /\ \A k \in DOMAIN n.kids :
              \/ pos = at + First(n, k) /\ n.kids[k].id = id
              \/ Aim(n.kids[k], at + First(n, k), pos, id) /\ n.kids[k].id # id
<1>1. Size[n] \in Nat /\ Size[n] > 0
  BY SizeType
<1>2. DOMAIN n.kids = 1..Len(n.kids) /\ \A k \in DOMAIN n.kids : n.kids[k] \in Tree
  BY TreeKids
<1>3. CASE Outside(n, at, pos) /\ id \notin Ids(n)
  <2>1. at # pos
    BY <1>1, <1>3 DEF Outside
  <2>2. ASSUME NEW k \in DOMAIN n.kids
        PROVE  Aim(n.kids[k], at + First(n, k), pos, id) /\ n.kids[k].id # id
    <3> DEFINE f == First(n, k)
               z == Size[n.kids[k]]
               w == Size[n]
    <3>1. f \in Nat /\ z \in Nat /\ f + z <= w /\ w \in Nat
      BY <1>1, <1>2, FirstDef
    <3>2. pos < at \/ at + w <= pos
      BY <1>3 DEF Outside
    <3> HIDE DEF f, z, w
    <3>3. pos < at + f \/ (at + f) + z <= pos
      BY <3>1, <3>2
    <3>4. Outside(n.kids[k], at + f, pos)
      BY <3>3 DEF Outside, z
    <3>5. id \notin Ids(n.kids[k])
      BY <1>3, IdsDef
    <3>6. n.kids[k].id # id
      BY <1>2, <3>5, IdsDef
    <3> QED BY <3>4, <3>5, <3>6 DEF Aim, f
  <2> QED BY <2>1, <2>2
<1>4. ASSUME NEW p \in 0..Size[n] - 1, p # 0, pos = at + p, id = Row(n, p).id
      PROVE  /\ at # pos
             /\ \A k \in DOMAIN n.kids :
                  \/ pos = at + First(n, k) /\ n.kids[k].id = id
                  \/ Aim(n.kids[k], at + First(n, k), pos, id) /\ n.kids[k].id # id
  <2>1. PICK j, q : /\ Within(n, p, j, q) /\ j \in DOMAIN n.kids /\ Row(n, p) = Row(n.kids[j], q)
                    /\ Row(n, p).id \in Ids(n.kids[j])
    BY <1>4, CondRow
  <2>2. q \in 0..Size[n.kids[j]] - 1 /\ p = First(n, j) + q
    BY <2>1 DEF Within
  <2>3. \A k \in DOMAIN n.kids : First(n, k) \in Nat /\ Size[n.kids[k]] \in Nat
    BY StartsFirst
  <2>4. pos = (at + First(n, j)) + q
    BY <1>4, <2>1, <2>2, <2>3
  <2>5. n.kids[j] \in Tree /\ WellFormed(n.kids[j]) /\ n.kids[j].kind \in Conditions
    BY <2>1, CondKids
  <2>6. ASSUME q = 0 PROVE pos = at + First(n, j) /\ n.kids[j].id = id
    <3>1. pos = at + First(n, j)
      BY <2>1, <2>3, <2>4, <2>6
    <3> DEFINE x == n.kids[j]
    <3>2. Row(x, 0).id = x.id
      <4>1. x \in Tree
        BY <2>5
      <4> HIDE DEF x
      <4>2. Row(x, 0) = RowOf(x, No, Shown(x))
        BY <4>1, RowsDef
      <4> QED BY <4>2 DEF RowOf
    <3> QED BY <1>4, <2>1, <2>6, <3>1, <3>2
  <2>7. ASSUME q # 0 PROVE Aim(n.kids[j], at + First(n, j), pos, id) /\ n.kids[j].id # id
    <3>1. Aim(n.kids[j], at + First(n, j), pos, id)
      BY <1>4, <2>1, <2>2, <2>4, <2>7 DEF Aim
    <3>2. Row(n.kids[j], q).id # n.kids[j].id
      BY <2>2, <2>5, <2>7, CondRow
    <3> QED BY <1>4, <2>1, <3>1, <3>2
  <2>8. ASSUME NEW k \in DOMAIN n.kids, k # j
        PROVE  Aim(n.kids[k], at + First(n, k), pos, id) /\ n.kids[k].id # id
    <3> DEFINE f == First(n, k)
               z == Size[n.kids[k]]
               g == First(n, j)
               y == Size[n.kids[j]]
    <3>1. f \in Nat /\ z \in Nat /\ g \in Nat /\ y \in Nat
      BY <2>1, <2>3
    <3>2. f + z <= g \/ g + y <= f
      BY <2>1, <2>8, FirstApart
    <3>3. q \in 0..y - 1 /\ pos = (at + g) + q
      BY <2>2, <2>4
    <3> HIDE DEF f, z, g, y
    <3>4. pos < at + f \/ (at + f) + z <= pos
      BY <3>1, <3>2, <3>3
    <3>5. Outside(n.kids[k], at + f, pos)
      BY <3>4 DEF Outside, z
    <3>6. Apart(n)
      BY WellFormedDef
    <3>7. id \notin Ids(n.kids[k])
      BY <1>4, <2>1, <2>8, <3>6, ApartDef
    <3>8. n.kids[k].id # id
      BY <1>2, <3>7, IdsDef
    <3> QED BY <3>5, <3>7, <3>8 DEF Aim, f
  <2>9. \A k \in DOMAIN n.kids :
           \/ pos = at + First(n, k) /\ n.kids[k].id = id
           \/ Aim(n.kids[k], at + First(n, k), pos, id) /\ n.kids[k].id # id
    BY <2>6, <2>7, <2>8
  <2>10. at # pos
    BY <1>4
  <2> QED BY <2>9, <2>10
<1> QED BY <1>3, <1>4 DEF Aim

-----------------------------------------------------------------------------
(* Deletions.                                                              *)

\* What is left of a child means what it did without the node of that name.
LeftMeans(o, n, id, t) ==
  \/ n.id = id /\ o = <<>>
  \/ n.id # id /\ \E m : o = <<m>> /\ (Holds(m, t) <=> HoldsLess(n, id, t))

\* The children in a rebuilt node are those without that name.
Meant(n, id, t, ks, g) ==
  /\ \A i \in 1..Len(ks) : g[i] \in Rest(n, id) /\ (Holds(ks[i], t) <=> HoldsLess(n.kids[g[i]], id, t))
  /\ \A k \in Rest(n, id) : \E i \in 1..Len(ks) : g[i] = k

\* The children that are left are those without that name.
LEMMA ChosenMeans ==
  ASSUME NEW n \in Tree, NEW id, NEW t, NEW left, left = [k \in DOMAIN n.kids |-> left[k]],
         Len(left) = Len(n.kids),
         \A k \in DOMAIN n.kids : LeftMeans(left[k], n.kids[k], id, t),
         NEW ks \in Seq(Tree), NEW g, Picks(g, left, ks)
  PROVE  Meant(n, id, t, ks, g)
<1>1. DOMAIN n.kids = 1..Len(n.kids)
  BY TreeKids
<1>2. \A m : Len(<<m>>) = 1 /\ <<m>>[1] = m /\ Len(<<>>) = 0 /\ 0 # 1
  OBVIOUS
<1>3. ASSUME NEW i \in 1..Len(ks)
      PROVE  g[i] \in Rest(n, id) /\ (Holds(ks[i], t) <=> HoldsLess(n.kids[g[i]], id, t))
  <2>1. g[i] \in DOMAIN n.kids /\ Len(left[g[i]]) = 1 /\ ks[i] = left[g[i]][1]
    BY <1>1 DEF Picks
  <2>2. LeftMeans(left[g[i]], n.kids[g[i]], id, t)
    BY <2>1
  <2> QED BY <1>2, <2>1, <2>2 DEF LeftMeans, Rest
<1>4. ASSUME NEW k \in Rest(n, id) PROVE \E i \in 1..Len(ks) : g[i] = k
  <2>1. k \in DOMAIN n.kids /\ n.kids[k].id # id
    BY DEF Rest
  <2>2. Len(left[k]) = 1
    BY <1>2, <2>1 DEF LeftMeans
  <2> QED BY <1>1, <2>1, <2>2 DEF Picks
<1> QED BY <1>3, <1>4 DEF Meant

\* A condition that is rebuilt of what is left means what it did without that node.
LEMMA RebuiltMeans ==
  ASSUME NEW n \in Tree, n.kind \in Conditions, NEW id, NEW t, NEW left,
         Rebuilt(n, left) \in Tree, FlattenSeq(left) \in Seq(Tree), NEW g, Meant(n, id, t, FlattenSeq(left), g)
  PROVE  Holds(Rebuilt(n, left), t) <=> HoldsLess(n, id, t)
<1> DEFINE ks == FlattenSeq(left)
           m == Rebuilt(n, left)
           R == Rest(n, id)
<1>1. /\ ks \in Seq(Tree) /\ m \in Tree
      /\ \A i \in 1..Len(ks) : g[i] \in R /\ (Holds(ks[i], t) <=> HoldsLess(n.kids[g[i]], id, t))
      /\ \A k \in R : \E i \in 1..Len(ks) : g[i] = k
  BY DEF Meant
<1>2. /\ n.kind \in {"All", "Any"} => m = Simplified(n, ks)
      /\ n.kind = "Not" => m = IF ks = <<>> THEN Rec("Always", n.id, n.id, <<>>) ELSE WithKids(n, ks)
      /\ n.kind \in Leaves => m = n
  BY RebuiltCases
<1> HIDE DEF ks, m, R
<1>3. Len(ks) \in Nat /\ DOMAIN ks = 1..Len(ks) /\ (ks = <<>> <=> Len(ks) = 0)
  BY <1>1
<1>4. Len(ks) = 0 <=> R = {}
  <2>1. Len(ks) = 0 => ~\E i : i \in 1..Len(ks)
    OBVIOUS
  <2>2. Len(ks) # 0 => 1 \in 1..Len(ks)
    BY <1>3
  <2> QED BY <1>1, <2>1, <2>2
<1>5. Rec("Always", n.id, n.id, <<>>) = m => Holds(m, t)
  <2>1. Rec("Always", n.id, n.id, <<>>).kind = "Always"
    BY RecFields
  <2> QED BY <1>1, <2>1, HoldsDef
<1>6. CASE n.kind \in {"Always", "Leaf"}
  BY <1>2, <1>6, HoldsLessDef DEF Leaves, m
<1>7. CASE R = {} /\ n.kind \in {"All", "Any", "Not"}
  <2>1. Len(ks) = 0 /\ n.kind # "Seq"
    BY <1>4, <1>7
  <2>2. m = Rec("Always", n.id, n.id, <<>>)
    BY <1>1, <1>2, <1>3, <1>7, <2>1, SimplifiedCases
  <2>3. HoldsLess(n, id, t)
    BY <1>7, HoldsLessDef DEF R
  <2> QED BY <1>5, <2>2, <2>3 DEF m
<1>8. CASE R # {} /\ Len(ks) = 1 /\ n.kind \in {"All", "Any"}
  <2>1. m = ks[1]
    BY <1>1, <1>2, <1>8, SimplifiedCases
  <2>2. 1 \in 1..Len(ks) /\ \A i \in 1..Len(ks) : i = 1
    BY <1>8
  <2>3. R = {g[1]} /\ (Holds(m, t) <=> HoldsLess(n.kids[g[1]], id, t))
    BY <1>1, <2>1, <2>2
  <2>4. HoldsLess(n, id, t) <=> HoldsLess(n.kids[g[1]], id, t)
    <3>1. CASE n.kind = "All"
      <4>1. HoldsLess(n, id, t) <=> \A k \in R : HoldsLess(n.kids[k], id, t)
        BY <1>8, <3>1, HoldsLessDef DEF R
      <4> QED BY <2>3, <4>1
    <3>2. CASE n.kind = "Any"
      <4>1. HoldsLess(n, id, t) <=> \E k \in R : HoldsLess(n.kids[k], id, t)
        BY <1>8, <3>2, HoldsLessDef DEF R
      <4> QED BY <2>3, <4>1
    <3> QED BY <1>8, <3>1, <3>2
  <2> QED BY <2>3, <2>4 DEF m
<1>9. CASE R # {} /\ (Len(ks) = 1 => n.kind = "Not") /\ n.kind \in {"All", "Any", "Not"}
  <2>1. m = WithKids(n, ks)
    <3>1. Len(ks) # 0 /\ ks # <<>>
      BY <1>3, <1>4, <1>9
    <3>2. CASE n.kind = "Not"
      BY <1>2, <3>1, <3>2
    <3>3. CASE n.kind \in {"All", "Any"}
      <4>1. Len(ks) # 1 /\ n.kind \in {"Seq", "All", "Any"}
        BY <1>9, <3>3
      <4> QED BY <1>1, <1>2, <3>1, <3>3, <4>1, SimplifiedCases
    <3> QED BY <1>9, <3>2, <3>3
  <2>2. m.kind = n.kind /\ m.kids = ks
    BY <2>1, WithKidsRec, RecFields
  <2>3. CASE n.kind = "All"
    <3>1. Holds(m, t) <=> \A i \in 1..Len(ks) : Holds(ks[i], t)
      BY <1>1, <1>3, <2>2, <2>3, HoldsDef, SMTT(30)
    <3>2. HoldsLess(n, id, t) <=> \A k \in R : HoldsLess(n.kids[k], id, t)
      BY <1>9, <2>3, HoldsLessDef DEF R
    <3> QED BY <1>1, <3>1, <3>2 DEF m
  <2>4. CASE n.kind = "Any"
    <3>1. Holds(m, t) <=> \E i \in 1..Len(ks) : Holds(ks[i], t)
      <4>1. Holds(m, t) <=> \E i \in DOMAIN m.kids : Holds(m.kids[i], t)
        BY <1>1, <2>2, <2>4, HoldsDef
      <4> QED BY <1>3, <2>2, <4>1
    <3>2. HoldsLess(n, id, t) <=> \E k \in R : HoldsLess(n.kids[k], id, t)
      BY <1>9, <2>4, HoldsLessDef DEF R
    <3> QED BY <1>1, <3>1, <3>2 DEF m
  <2>5. CASE n.kind = "Not"
    <3>1. Holds(m, t) <=> \A i \in 1..Len(ks) : ~Holds(ks[i], t)
      BY <1>1, <1>3, <2>2, <2>5, HoldsDef
    <3>2. HoldsLess(n, id, t) <=> \A k \in R : ~HoldsLess(n.kids[k], id, t)
      BY <1>9, <2>5, HoldsLessDef DEF R
    <3> QED BY <1>1, <3>1, <3>2 DEF m
  <2> QED BY <1>9, <2>3, <2>4, <2>5
<1> QED BY <1>6, <1>7, <1>8, <1>9 DEF Conditions

\* What is left of a condition means what it did without that node.
LEMMA DeletedMeans ==
  ASSUME NEW pos \in Nat, NEW id, NEW t
  PROVE  \A n \in Tree : \A d \in Nat :
           d <= MaxHeight /\ n \in TreesTo[d] /\ WellFormed(n) /\ n.kind \in Conditions =>
             \A at \in Nat : Aim(n, at, pos, id) =>
               \E m : Deleting(pos)[n][at] = <<m>> /\ (Holds(m, t) <=> HoldsLess(n, id, t))
<1> DEFINE U == Deleting(pos)
           S == {n \in Tree : \A d \in Nat :
                   d <= MaxHeight /\ n \in TreesTo[d] /\ WellFormed(n) /\ n.kind \in Conditions =>
                     \A at \in Nat : Aim(n, at, pos, id) =>
                       \E m : U[n][at] = <<m>> /\ (Holds(m, t) <=> HoldsLess(n, id, t))}
<1>1. ASSUME NEW n \in Tree, \A k \in DOMAIN n.kids : n.kids[k] \in S PROVE n \in S
  <2> SUFFICES ASSUME NEW d \in Nat, d <= MaxHeight, n \in TreesTo[d], WellFormed(n), n.kind \in Conditions,
                      NEW at \in Nat, Aim(n, at, pos, id)
               PROVE  \E m : U[n][at] = <<m>> /\ (Holds(m, t) <=> HoldsLess(n, id, t))
    OBVIOUS
  <2> DEFINE left == KidsLeft(n, at, pos)
             ks == FlattenSeq(left)
  <2>1. PICK c \in Nat : d = c + 1
    <3>1. d > 0
      BY TreeParts
    <3>2. d - 1 \in Nat /\ d = (d - 1) + 1
      BY <3>1
    <3> QED BY <3>2
  <2>2. c + 1 <= MaxHeight /\ n \in TreesTo[c + 1] /\ c <= MaxHeight
    BY <2>1, MaxHeightAssumption
  <2>3. \A k \in DOMAIN n.kids : /\ n.kids[k] \in TreesTo[c] /\ n.kids[k] \in Tree /\ WellFormed(n.kids[k])
                                 /\ n.kids[k].kind \in Conditions
    BY <2>2, KidsTo
  <2>4. left = [k \in DOMAIN n.kids |-> left[k]]
    BY DEF KidsLeft
  <2>5. ~NotEntered(n) /\ at # pos
    BY CondCount, AimKids
  <2>6. \A k \in DOMAIN n.kids : left[k] = U[n.kids[k]][at + First(n, k)] /\ at + First(n, k) \in Nat
    BY <2>5, KidsLeftDef, CondCount
  <2>7. U[n][at] = <<Rebuilt(n, left)>>
    BY <2>5, DeletingDef
  <2>8. \A k \in DOMAIN n.kids : Left(left[k], n.kids[k], c)
    BY <2>2, <2>3, <2>6, DeletingKept
  <2>9. ASSUME NEW k \in DOMAIN n.kids PROVE LeftMeans(left[k], n.kids[k], id, t)
    <3>1. CASE pos = at + First(n, k) /\ n.kids[k].id = id
      <4>1. U[n.kids[k]][at + First(n, k)] = <<>>
        BY <2>3, <2>6, <3>1, DeletingDef
      <4> QED BY <2>6, <3>1, <4>1 DEF LeftMeans
    <3>2. CASE Aim(n.kids[k], at + First(n, k), pos, id) /\ n.kids[k].id # id
      <4>1. \E m : left[k] = <<m>> /\ (Holds(m, t) <=> HoldsLess(n.kids[k], id, t))
        <5> HIDE DEF left, U
        <5> QED BY <1>1, <2>2, <2>3, <2>6, <3>2
      <4> QED BY <3>2, <4>1 DEF LeftMeans
    <3> QED BY <3>1, <3>2, AimKids
  <2> HIDE DEF left
  <2>10. Kept(Rebuilt(n, left), n, {}, c + 1, 0)
    BY <2>2, <2>4, <2>8, RebuiltKept
  <2>11. /\ ks \in Seq(TreesTo[c]) /\ \E g : Picks(g, left, ks) /\ Len(left) = Len(n.kids)
    BY <2>2, <2>4, <2>8, KeptChosen
  <2>12. ks \in Seq(Tree)
    <3>1. TreesTo[c] \subseteq Tree
      BY <2>2, TreesMono, MaxHeightAssumption DEF Tree
    <3> QED BY <2>11, <3>1
  <2>13. PICK g : Picks(g, left, ks)
    BY <2>11
  <2> HIDE DEF ks
  <2>14. Meant(n, id, t, ks, g)
    <3>1. \A k \in DOMAIN n.kids : LeftMeans(left[k], n.kids[k], id, t)
      BY <2>9
    <3> QED BY <2>4, <2>11, <2>12, <2>13, <3>1, ChosenMeans
  <2>15. Rebuilt(n, left) \in Tree
    BY <2>10 DEF Kept
  <2>16. Holds(Rebuilt(n, left), t) <=> HoldsLess(n, id, t)
    BY <2>12, <2>14, <2>15, RebuiltMeans DEF ks
  <2> QED BY <2>7, <2>16
<1>2. Tree \subseteq S
  <2> HIDE DEF S
  <2> QED BY <1>1, TreeInduction
<1> QED BY <1>2

(* ConditionsKeepTheirMeaning: what add_constraint_leaf, the moves, the      *)
(* wraps and delete_constraint_rec make of a condition evaluates to what it  *)
(* should, for every choice of the leaves that hold.                         *)
THEOREM ConditionsKeep == Spec => []ConditionsKeepTheirMeaning
<1>1. Inv => ConditionsKeepTheirMeaning
  <2> DEFINE c == constraints
             rows == flatten_constraint(c)
             d == Levels(edits)
  <2> SUFFICES ASSUME Inv
               PROVE  /\ \A t : HoldsIn(t)[add_constraint_leaf(c, NewId)] <=> HoldsIn(t)[c] /\ NewId \in t
                      /\ \A p \in DOMAIN rows : \A up, t :
                           HoldsIn(t)[move_constraint_node(c, p, up)] <=> HoldsIn(t)[c]
                      /\ \A p \in DOMAIN rows : \A k \in {"And", "Or"} : \A t :
                           HoldsIn(t)[wrap_constraint_at(c, p, k, NewId)] <=> HoldsIn(t)[c]
                      /\ \A p \in DOMAIN rows \ {0} : \A t :
                           HoldsIn(t)[delete_constraint_at(c, p)] <=> HoldsWithout(rows[p].id, t)[c]
    BY DEF ConditionsKeepTheirMeaning
  <2>1. edits \in 0..MaxEdits /\ Edited(c, edits) /\ ~IsWorkflow(c)
    BY DEF Inv
  <2>2. /\ c \in Tree /\ c \in TreesTo[d] /\ WellFormed(c)
        /\ d \in Nat /\ 2 <= d /\ d + 1 <= MaxHeight /\ d <= MaxHeight
        /\ NewIds(NewId) \intersect Ids(c) = {} /\ NewId \in Nat /\ NewId \notin Ids(c)
    BY <2>1, Editable DEF NewId
  <2>3. c.kind \in Conditions
    BY <2>1, <2>2, KindsApart
  <2>4. DOMAIN rows = 0..Size[c] - 1 /\ \A p \in 0..Size[c] - 1 : rows[p] = Row(c, p)
    BY <2>2, RowsAt DEF flatten_constraint
  <2>5. 0 \in Nat /\ \A p \in 0..Size[c] - 1 : p \in Nat /\ 0 + p = p /\ ~(p < 0)
    <3>1. Size[c] \in Nat
      BY <2>2, SizeType
    <3> QED BY <3>1
  <2> HIDE DEF c, d, rows
  <2>6. ASSUME NEW t PROVE HoldsIn(t)[add_constraint_leaf(c, NewId)] <=> HoldsIn(t)[c] /\ NewId \in t
    BY <2>2, <2>3, AddedMeans DEF Holds
  <2>7. ASSUME NEW p \in DOMAIN rows, NEW up, NEW t
        PROVE  HoldsIn(t)[move_constraint_node(c, p, up)] <=> HoldsIn(t)[c]
    BY <2>2, <2>3, <2>5, MovedMeans DEF Holds, move_constraint_node
  <2>8. ASSUME NEW p \in DOMAIN rows, NEW k \in {"And", "Or"}, NEW t
        PROVE  HoldsIn(t)[wrap_constraint_at(c, p, k, NewId)] <=> HoldsIn(t)[c]
    <3>1. p \in Nat /\ wrap_constraint_at(c, p, k, NewId) = Wrapping(p, k, NewId)[c][0]
      BY <2>4, <2>5 DEF wrap_constraint_at
    <3>2. Holds(Wrapping(p, k, NewId)[c][0], t) <=> Holds(c, t)
      BY <2>2, <2>3, <2>5, <3>1, WrappedMeans
    <3> QED BY <3>1, <3>2 DEF Holds
  <2>9. ASSUME NEW p \in DOMAIN rows \ {0}, NEW t
        PROVE  HoldsIn(t)[delete_constraint_at(c, p)] <=> HoldsWithout(rows[p].id, t)[c]
    <3> DEFINE id == rows[p].id
    <3>1. p \in 0..Size[c] - 1 /\ p \in Nat /\ p # 0 /\ p = 0 + p /\ id = Row(c, p).id
      BY <2>4, <2>5
    <3> HIDE DEF id
    <3>2. Aim(c, 0, p, id)
      BY <3>1 DEF Aim
    <3>3. PICK m : Deleting(p)[c][0] = <<m>> /\ (Holds(m, t) <=> HoldsLess(c, id, t))
      <4>1. \A n \in Tree : \A e \in Nat :
              e <= MaxHeight /\ n \in TreesTo[e] /\ WellFormed(n) /\ n.kind \in Conditions =>
                \A at \in Nat : Aim(n, at, p, id) =>
                  \E m : Deleting(p)[n][at] = <<m>> /\ (Holds(m, t) <=> HoldsLess(n, id, t))
        <5>1. p \in Nat
          BY <3>1
        <5> QED BY <5>1, DeletedMeans
      <4> QED BY <2>2, <2>3, <2>5, <3>2, <4>1
    <3>4. <<m>> # <<>> /\ <<m>>[1] = m
      OBVIOUS
    <3>5. delete_constraint_at(c, p) = m
      BY <3>3, <3>4 DEF delete_constraint_at, OrElse
    <3> QED BY <3>3, <3>5 DEF Holds, HoldsLess, id
  <2> QED BY <2>6, <2>7, <2>8, <2>9
<1> QED BY <1>1, InvHolds, PTL

-----------------------------------------------------------------------------
(* Sequences that are mapped and flattened.                                *)

LEMMA Appending ==
  ASSUME NEW T, NEW s \in Seq(T), NEW x \in T
  PROVE  /\ Append(s, x) \in Seq(T) /\ Len(Append(s, x)) = Len(s) + 1 /\ Append(s, x)[Len(s) + 1] = x
         /\ \A k \in 1..Len(s) : Append(s, x)[k] = s[k]
         /\ Len(s) \in Nat /\ DOMAIN s = 1..Len(s) /\ DOMAIN Append(s, x) = 1..Len(s) + 1
         /\ Append(s, x) = s \o <<x>>
<1>1. /\ Append(s, x) \in Seq(T) /\ Len(Append(s, x)) = Len(s) + 1 /\ Append(s, x)[Len(s) + 1] = x
      /\ \A k \in 1..Len(s) : Append(s, x)[k] = s[k]
  BY AppendProperties
<1>2. Len(s) \in Nat /\ DOMAIN s = 1..Len(s) /\ DOMAIN Append(s, x) = 1..Len(Append(s, x))
  BY <1>1, LenProperties
<1>3. Append(s, x) = s \o <<x>>
  BY AppendIsConcat
<1> QED BY <1>1, <1>2, <1>3

\* Induction on sequences.
LEMMA AllSeqs ==
  ASSUME NEW T, NEW S, <<>> \in S, \A s \in Seq(T) : s \in S => \A x \in T : Append(s, x) \in S
  PROVE  Seq(T) \subseteq S
<1> DEFINE N == {n \in Nat : \A s \in Seq(T) : Len(s) = n => s \in S}
<1>1. 0 \in N
  <2> SUFFICES ASSUME NEW s \in Seq(T), Len(s) = 0 PROVE s \in S
    OBVIOUS
  <2>1. s = <<>>
    BY EmptySeq
  <2> QED BY <2>1
<1>2. ASSUME NEW n \in Nat, n \in N PROVE n + 1 \in N
  <2> SUFFICES ASSUME NEW s \in Seq(T), Len(s) = n + 1 PROVE s \in S
    OBVIOUS
  <2> DEFINE f == [i \in 1..n |-> s[i]]
             x == s[n + 1]
  <2>1. n + 1 \in 1..Len(s) /\ \A i \in 1..n : i \in 1..Len(s)
    OBVIOUS
  <2>2. x \in T /\ \A i \in 1..n : s[i] \in T
    BY <2>1, ElementOfSeq
  <2>3. f \in [1..n -> T] /\ \A i \in 1..n : f[i] = s[i]
    BY <2>2
  <2> HIDE DEF f, x
  <2>4. f \in Seq(T) /\ Len(f) = n
    BY <2>3, FcnSeq
  <2>5. Append(f, x) \in S
    BY <1>2, <2>2, <2>4
  <2> DEFINE a == Append(f, x)
  <2>6. /\ a \in Seq(T) /\ Len(a) = n + 1 /\ a[n + 1] = x /\ \A k \in 1..n : a[k] = f[k]
    BY <2>2, <2>4, Appending
  <2>7. \A k \in 1..Len(a) : k = n + 1 \/ k \in 1..n
    BY <2>6
  <2> HIDE DEF a
  <2>8. \A k \in 1..Len(a) : a[k] = s[k]
    BY <2>3, <2>6, <2>7 DEF x
  <2>9. a = s
    BY <2>6, <2>8, SeqEqual
  <2> QED BY <2>5, <2>9 DEF a
<1>3. Nat \subseteq N
  BY <1>1, <1>2, AllNat
<1> SUFFICES ASSUME NEW s \in Seq(T) PROVE s \in S
  OBVIOUS
<1>4. Len(s) \in Nat
  OBVIOUS
<1> QED BY <1>3, <1>4

LEMMA FlatNone == FlattenSeq(<<>>) = <<>>
  BY DEF FlattenSeq

LEMMA FlatAppend ==
  ASSUME NEW S, NEW s \in Seq(Seq(S)), NEW x \in Seq(S)
  PROVE  /\ FlattenSeq(Append(s, x)) = FlattenSeq(s) \o x
         /\ FlattenSeq(s) \in Seq(S)
<1> DEFINE N == Len(s)
           t == Append(s, x)
           w == Lengths(s)
           v == Lengths(t)
           a == FlattenSeq(t)
           c == FlattenSeq(s)
           b == c \o x
           lx == Len(x)
<1>1. /\ t \in Seq(Seq(S)) /\ Len(t) = N + 1 /\ t[N + 1] = x /\ \A k \in 1..N : t[k] = s[k]
      /\ N \in Nat
  BY Appending
<1> HIDE DEF t
<1>2. w \in Seq(Nat) /\ Len(w) = N /\ \A k \in 1..N : w[k] = Len(s[k])
  BY LengthsType
<1>3. v \in Seq(Nat) /\ Len(v) = N + 1 /\ \A k \in 1..N + 1 : v[k] = Len(t[k])
  BY <1>1, LengthsType
<1>4. /\ a \in Seq(S) /\ Len(a) = Total(v)
      /\ \A k \in 1..N + 1 : \A j \in 1..Len(t[k]) : a[Before(v)[k - 1] + j] = t[k][j]
  <2>1. /\ FlattenSeq(t) \in Seq(S) /\ Len(FlattenSeq(t)) = Total(Lengths(t))
        /\ \A k \in 1..Len(t) : \A j \in 1..Len(t[k]) :
             FlattenSeq(t)[Before(Lengths(t))[k - 1] + j] = t[k][j]
    BY <1>1, Flattened, ZenonT(30)
  <2> QED BY <1>1, <2>1
<1>5. /\ c \in Seq(S) /\ Len(c) = Total(w)
      /\ \A k \in 1..N : \A j \in 1..Len(s[k]) : c[Before(w)[k - 1] + j] = s[k][j]
  BY Flattened
<1> HIDE DEF a, c, w, v, N
<1>6. /\ b \in Seq(S) /\ Len(b) = Len(c) + lx /\ Len(c) \in Nat /\ lx \in Nat
      /\ \A i \in 1..Len(c) : b[i] = c[i]
      /\ \A j \in 1..lx : b[Len(c) + j] = x[j]
  <2>1. \A y, z \in Seq(S) :
          /\ y \o z \in Seq(S) /\ Len(y \o z) = Len(y) + Len(z) /\ Len(y) \in Nat /\ Len(z) \in Nat
          /\ \A i \in 1..Len(y) : (y \o z)[i] = y[i]
          /\ \A j \in 1..Len(z) : (y \o z)[Len(y) + j] = z[j]
    BY Concatenated
  <2>2. c \in Seq(S) /\ x \in Seq(S)
    BY <1>5
  <2> QED BY <2>1, <2>2, Zenon
<1>7. N + 1 \in 1..N + 1 /\ (N + 1) - 1 = N /\ N \in 0..N /\ \A k \in 1..N : k \in 1..N + 1 /\ k - 1 \in 0..N
  BY <1>1
<1>8. \A i \in 0..N : Before(v)[i] = Before(w)[i]
  <2>1. \A j \in 1..N : w[j] = v[j]
    BY <1>1, <1>2, <1>3, <1>7
  <2>2. N <= Len(w) /\ N <= Len(v)
    BY <1>1, <1>2, <1>3
  <2> QED BY <1>1, <1>2, <1>3, <2>1, <2>2, BeforeSame
<1> DEFINE B == Before(v)
<1>9. B[N] = Len(c) /\ v[N + 1] = lx
  <2>1. Before(w)[N] = Total(w)
    BY <1>2 DEF Total
  <2> QED BY <1>1, <1>3, <1>5, <1>7, <1>8, <2>1
<1>10. \A k \in 1..N + 1 : /\ B[k - 1] \in Nat /\ v[k] \in Nat /\ B[k] = B[k - 1] + v[k]
                           /\ \A j \in k..N + 1 : B[k] <= B[j]
  BY <1>3, BeforeStep
<1>11. Total(v) = Len(c) + lx
  <2>1. B[N + 1] = Total(v)
    BY <1>3 DEF Total
  <2>2. B[N + 1] = B[N] + v[N + 1]
    BY <1>7, <1>10
  <2> QED BY <1>9, <2>1, <2>2
<1>12. ASSUME NEW i \in 1..Len(a) PROVE a[i] = b[i]
  <2> HIDE DEF B, b, lx
  <2>1. i - 1 \in Nat /\ i - 1 < Total(v)
    BY <1>4, <1>6, <1>11
  <2>2. PICK k \in 1..N + 1 : B[k - 1] <= i - 1 /\ i - 1 < B[k]
    BY <1>3, <2>1, Locate DEF B
  <2> DEFINE p == B[k - 1]
             j == i - p
             z == v[k]
             y == B[k]
  <2>3. p \in Nat /\ v[k] \in Nat /\ B[k] = p + v[k]
    BY <1>10
  <2>4. j \in 1..z /\ p + j = i
    <3>1. p \in Nat /\ z \in Nat /\ y = p + z /\ p <= i - 1 /\ i - 1 < y /\ i \in Int
      BY <2>1, <2>2, <2>3
    <3> HIDE DEF p, z, y
    <3> QED BY <3>1
  <2>5. v[k] = Len(t[k])
    BY <1>3
  <2> HIDE DEF j, p, y
  <2>6. a[i] = t[k][j]
    BY <1>4, <2>4, <2>5 DEF p, B
  <2>7. CASE k = N + 1
    <3>1. p = Len(c)
      BY <1>7, <1>9, <2>7 DEF p
    <3>2. b[i] = x[j]
      BY <1>6, <1>9, <2>4, <2>7, <3>1
    <3> QED BY <1>1, <2>6, <2>7, <3>2
  <2>8. CASE k # N + 1
    <3>1. k \in 1..N /\ N \in k..N + 1
      BY <1>1, <2>8
    <3>2. p = Before(w)[k - 1] /\ t[k] = s[k]
      BY <1>1, <1>7, <1>8, <3>1 DEF p, B
    <3>3. c[i] = s[k][j]
      BY <1>5, <2>4, <2>5, <3>1, <3>2
    <3>4. i \in 1..Len(c)
      <4>1. B[k] <= Len(c)
        BY <1>9, <1>10, <3>1
      <4> QED BY <1>6, <2>1, <2>2, <2>3, <4>1
    <3> QED BY <1>6, <2>6, <3>2, <3>3, <3>4
  <2> QED BY <2>7, <2>8
<1>13. a = b
  BY <1>4, <1>6, <1>11, <1>12, SeqEqual
<1> QED BY <1>5, <1>13 DEF a, c, t

LEMMA FlatOne ==
  ASSUME NEW S, NEW x \in Seq(S)
  PROVE  FlattenSeq(<<x>>) = x
<1>1. <<>> \in Seq(Seq(S)) /\ Append(<<>>, x) = <<x>>
  OBVIOUS
<1>2. FlattenSeq(Append(<<>>, x)) = FlattenSeq(<<>>) \o x
  BY <1>1, FlatAppend
<1> QED BY <1>1, <1>2, FlatNone, ConcatEmptySeq

LEMMA AppendOne ==
  ASSUME NEW T, NEW x \in T, NEW y \in T
  PROVE  Append(<<x>>, y) = <<x, y>>
<1> DEFINE u == <<x>>
           a == Append(u, y)
           b == <<x, y>>
<1>1. u \in Seq(T) /\ Len(u) = 1 /\ u[1] = x
  BY Single
<1>2. b \in Seq(T) /\ Len(b) = 2 /\ b[1] = x /\ b[2] = y
  BY Pair
<1> HIDE DEF u, b
<1>3. a \in Seq(T) /\ Len(a) = Len(u) + 1 /\ a[Len(u) + 1] = y /\ \A k \in 1..Len(u) : a[k] = u[k]
  <2>1. \A v \in Seq(T) : /\ Append(v, y) \in Seq(T) /\ Len(Append(v, y)) = Len(v) + 1
                          /\ Append(v, y)[Len(v) + 1] = y /\ \A k \in 1..Len(v) : Append(v, y)[k] = v[k]
    BY Appending
  <2> QED BY <1>1, <2>1
<1>4. 1 + 1 = 2 /\ 1 \in 1..1 /\ \A i \in 1..2 : i = 1 \/ i = 2
  OBVIOUS
<1> HIDE DEF a
<1>5. Len(a) = 2 /\ \A i \in 1..Len(a) : a[i] = b[i]
  BY <1>1, <1>2, <1>3, <1>4
<1>6. a = b
  BY <1>2, <1>3, <1>5, SeqEqual
<1> QED BY <1>6 DEF a, b, u

LEMMA FlatTwo ==
  ASSUME NEW S, NEW x \in Seq(S), NEW y \in Seq(S)
  PROVE  FlattenSeq(<<x, y>>) = x \o y
<1>1. <<x>> \in Seq(Seq(S))
  BY Single
<1>2. Append(<<x>>, y) = <<x, y>>
  BY AppendOne
<1>3. FlattenSeq(Append(<<x>>, y)) = FlattenSeq(<<x>>) \o y
  BY <1>1, FlatAppend
<1> QED BY <1>2, <1>3, FlatOne

-----------------------------------------------------------------------------
(* Mappings.                                                               *)

\* F maps T to V; the elements of s mapped; and the results flattened.
Maps(F, T, V) == F \in [T -> V]

Mapped(F, s) == [i \in DOMAIN s |-> F[s[i]]]

Bind(F, s) == FlattenSeq(Mapped(F, s))

LEMMA MappedType ==
  ASSUME NEW T, NEW V, NEW F, Maps(F, T, V), NEW s \in Seq(T)
  PROVE  Mapped(F, s) \in Seq(V) /\ Len(Mapped(F, s)) = Len(s) /\ \A i \in 1..Len(s) : Mapped(F, s)[i] = F[s[i]]
<1>1. DOMAIN s = 1..Len(s) /\ Len(s) \in Nat /\ \A i \in 1..Len(s) : s[i] \in T
  OBVIOUS
<1> DEFINE f == Mapped(F, s)
<1>2. f \in [1..Len(s) -> V] /\ \A i \in 1..Len(s) : f[i] = F[s[i]]
  BY <1>1 DEF Mapped, Maps
<1> HIDE DEF f
<1>3. f \in Seq(V) /\ Len(f) = Len(s)
  BY <1>1, <1>2, FcnSeq
<1> QED BY <1>2, <1>3 DEF f

LEMMA MappedAppend ==
  ASSUME NEW T, NEW V, NEW F, Maps(F, T, V), NEW s \in Seq(T), NEW x \in T
  PROVE  Mapped(F, Append(s, x)) = Append(Mapped(F, s), F[x])
<1> DEFINE t == Append(s, x)
           a == Mapped(F, t)
           f == Mapped(F, s)
           b == Append(f, F[x])
           n == Len(s)
<1>1. /\ t \in Seq(T) /\ Len(t) = n + 1 /\ t[n + 1] = x /\ \A k \in 1..n : t[k] = s[k]
      /\ n \in Nat
  BY Appending
<1> HIDE DEF t
<1>2. a \in Seq(V) /\ Len(a) = n + 1 /\ \A i \in 1..n + 1 : a[i] = F[t[i]]
  <2>1. Mapped(F, t) \in Seq(V) /\ Len(Mapped(F, t)) = Len(t) /\ \A i \in 1..Len(t) : Mapped(F, t)[i] = F[t[i]]
    BY <1>1, MappedType
  <2> QED BY <1>1, <2>1
<1>3. f \in Seq(V) /\ Len(f) = n /\ \A i \in 1..n : f[i] = F[s[i]]
  BY MappedType
<1> HIDE DEF a, f, n
<1>v. F[x] \in V
  BY DEF Maps
<1>4. b \in Seq(V) /\ Len(b) = n + 1 /\ b[n + 1] = F[x] /\ \A k \in 1..n : b[k] = f[k]
  BY <1>3, <1>v, Appending
<1>5. n + 1 \in 1..n + 1 /\ \A k \in 1..n + 1 : k = n + 1 \/ k \in 1..n
  BY <1>1
<1> HIDE DEF b
<1>6. \A i \in 1..Len(a) : a[i] = b[i]
  BY <1>1, <1>2, <1>3, <1>4, <1>5
<1>7. a = b
  BY <1>2, <1>4, <1>6, SeqEqual
<1> QED BY <1>7 DEF a, b, f, t

LEMMA BindNone == \A F : Mapped(F, <<>>) = <<>> /\ Bind(F, <<>>) = <<>>
<1>1. \A F : Mapped(F, <<>>) = <<>>
  BY DEF Mapped
<1> QED BY <1>1, FlatNone DEF Bind

LEMMA BindAppend ==
  ASSUME NEW T, NEW V, NEW F, Maps(F, T, Seq(V)), NEW s \in Seq(T), NEW x \in T
  PROVE  Bind(F, s) \in Seq(V) /\ Bind(F, Append(s, x)) = Bind(F, s) \o F[x]
<1>1. Mapped(F, s) \in Seq(Seq(V)) /\ F[x] \in Seq(V)
  BY MappedType DEF Maps
<1>2. Mapped(F, Append(s, x)) = Append(Mapped(F, s), F[x])
  BY MappedAppend
<1>3. /\ FlattenSeq(Append(Mapped(F, s), F[x])) = FlattenSeq(Mapped(F, s)) \o F[x]
      /\ FlattenSeq(Mapped(F, s)) \in Seq(V)
  BY <1>1, FlatAppend
<1> QED BY <1>2, <1>3 DEF Bind

LEMMA BindType ==
  ASSUME NEW T, NEW V, NEW F, Maps(F, T, Seq(V)), NEW s \in Seq(T)
  PROVE  Bind(F, s) \in Seq(V)
<1>1. Mapped(F, s) \in Seq(Seq(V))
  BY MappedType
<1> QED BY <1>1, Flattened DEF Bind

LEMMA BindOne ==
  ASSUME NEW T, NEW V, NEW F, Maps(F, T, Seq(V)), NEW x \in T
  PROVE  Bind(F, <<x>>) = F[x]
<1>1. <<>> \in Seq(T) /\ Append(<<>>, x) = <<x>> /\ F[x] \in Seq(V)
  BY DEF Maps
<1>2. Bind(F, Append(<<>>, x)) = Bind(F, <<>>) \o F[x]
  <2>1. \A u \in Seq(T) : \A y \in T : Bind(F, Append(u, y)) = Bind(F, u) \o F[y]
    BY BindAppend
  <2> QED BY <1>1, <2>1, Zenon
<1> QED BY <1>1, <1>2, BindNone, ConcatEmptySeq

\* Two sequences are mapped one after the other.
LEMMA BindConcat ==
  ASSUME NEW T, NEW V, NEW F, Maps(F, T, Seq(V)), NEW s \in Seq(T)
  PROVE  \A t \in Seq(T) : Bind(F, s \o t) = Bind(F, s) \o Bind(F, t)
<1> DEFINE S == {t \in Seq(T) : Bind(F, s \o t) = Bind(F, s) \o Bind(F, t)}
<1>0. Bind(F, s) \in Seq(V)
  BY BindType
<1>1. <<>> \in S
  <2>1. <<>> \in Seq(T) /\ s \o <<>> = s
    BY ConcatEmptySeq
  <2>2. Bind(F, s) \o <<>> = Bind(F, s)
    BY <1>0, ConcatEmptySeq
  <2> QED BY <2>1, <2>2, BindNone
<1>2. ASSUME NEW t \in Seq(T), t \in S, NEW x \in T PROVE Append(t, x) \in S
  <2>1. Append(t, x) \in Seq(T) /\ s \o t \in Seq(T) /\ F[x] \in Seq(V) /\ Bind(F, t) \in Seq(V)
    <3>1. Append(t, x) \in Seq(T) /\ s \o t \in Seq(T)
      BY Appending, ConcatProperties
    <3>2. F[x] \in Seq(V)
      BY DEF Maps
    <3> QED BY <3>1, <3>2, BindType
  <2>2. s \o Append(t, x) = Append(s \o t, x)
    <3>1. <<x>> \in Seq(T)
      OBVIOUS
    <3>2. s \o (t \o <<x>>) = (s \o t) \o <<x>>
      BY <3>1, ConcatAssociative
    <3>3. Append(t, x) = t \o <<x>> /\ Append(s \o t, x) = (s \o t) \o <<x>>
      BY <2>1, Appending
    <3> QED BY <3>2, <3>3
  <2>3. Bind(F, Append(s \o t, x)) = Bind(F, s \o t) \o F[x]
    <3>1. \A u \in Seq(T) : \A y \in T : Bind(F, Append(u, y)) = Bind(F, u) \o F[y]
      BY BindAppend
    <3> QED BY <2>1, <3>1, Zenon
  <2>4. Bind(F, Append(t, x)) = Bind(F, t) \o F[x]
    BY BindAppend
  <2>5. (Bind(F, s) \o Bind(F, t)) \o F[x] = Bind(F, s) \o (Bind(F, t) \o F[x])
    <3> DEFINE y == Bind(F, s)
               z == Bind(F, t)
               u == F[x]
    <3>1. y \in Seq(V) /\ z \in Seq(V) /\ u \in Seq(V)
      BY <1>0, <2>1
    <3> HIDE DEF y, z, u
    <3>2. (y \o z) \o u = y \o (z \o u)
      BY <3>1, ConcatAssociative, SMTT(30)
    <3> QED BY <3>2 DEF y, z, u
  <2> QED BY <1>2, <2>1, <2>2, <2>3, <2>4, <2>5
<1>3. Seq(T) \subseteq S
  <2> HIDE DEF S
  <2> QED BY <1>1, <1>2, AllSeqs
<1> QED BY <1>3

\* What a flattened sequence is mapped to is what its parts are, flattened.
LEMMA BindFlat ==
  ASSUME NEW T, NEW V, NEW F, Maps(F, T, Seq(V)), NEW W, W = Seq(T),
         NEW G, Maps(G, W, Seq(V)), \A p \in W : G[p] = Bind(F, p)
  PROVE  \A s \in Seq(W) : Bind(F, FlattenSeq(s)) = Bind(G, s)
<1> DEFINE S == {s \in Seq(W) : Bind(F, FlattenSeq(s)) = Bind(G, s)}
<1>1. <<>> \in S
  <2>1. <<>> \in Seq(W)
    OBVIOUS
  <2> QED BY <2>1, BindNone, FlatNone
<1>2. ASSUME NEW s \in Seq(W), s \in S, NEW p \in W PROVE Append(s, p) \in S
  <2>1. Append(s, p) \in Seq(W)
    BY Appending
  <2>2. FlattenSeq(Append(s, p)) = FlattenSeq(s) \o p /\ FlattenSeq(s) \in Seq(T)
    BY FlatAppend
  <2>3. Bind(F, FlattenSeq(s) \o p) = Bind(F, FlattenSeq(s)) \o Bind(F, p)
    BY <2>2, BindConcat
  <2>4. Bind(G, Append(s, p)) = Bind(G, s) \o G[p]
    <3>1. \A u \in Seq(W) : \A y \in W : Bind(G, Append(u, y)) = Bind(G, u) \o G[y]
      BY BindAppend
    <3> QED BY <3>1, Zenon
  <2> QED BY <1>2, <2>1, <2>2, <2>3, <2>4
<1>3. Seq(W) \subseteq S
  <2> HIDE DEF S
  <2> QED BY <1>1, <1>2, AllSeqs
<1> QED BY <1>3

-----------------------------------------------------------------------------
(* The plan of a workflow.                                                 *)

\* The plans of the children, and the entries that a plan may have.
KidsPlanned(n, u) == [k \in DOMAIN n.kids |-> Plan[n.kids[k]][Deeper(n, k, u)]]

Entries(I) == [id : I, cfg : Nat, under : Paths]

Entry(n, u) == [id |-> n.id, cfg |-> n.cfg, under |-> u]

LEMMA PlanDef ==
  ASSUME NEW n \in Tree, NEW u \in Paths
  PROVE  /\ n.kind = "Always" => Plan[n][u] = <<>>
         /\ n.kind \in Leaves /\ n.kind # "Always" => Plan[n][u] = <<Entry(n, u)>>
         /\ n.kind \notin Leaves => Plan[n][u] = FlattenSeq(KidsPlanned(n, u))
<1> DEFINE P(m, v) ==
             IF m.kind = "Always" THEN <<>>
             ELSE IF m.kind \in Leaves THEN <<Entry(m, v)>>
             ELSE FlattenSeq(KidsPlanned(m, v))
<1>1. Plan = [m \in Tree |-> [v \in Paths |-> P(m, v)]]
  BY PlanIs DEF KidsPlanned, Entry
<1>2. Plan[n][u] = P(n, u)
  <2> HIDE DEF P
  <2> QED BY <1>1
<1>3. "Always" \in Leaves
  BY DEF Leaves
<1> QED BY <1>2, <1>3

LEMMA DeeperType ==
  ASSUME NEW n \in Tree, NEW k \in Nat, NEW u \in Paths
  PROVE  /\ Deeper(n, k, u) \in Paths
         /\ n.kind # "If" => Deeper(n, k, u) = Deeper(n, 1, u)
         /\ n.kind = "Seq" => Deeper(n, k, u) = u
<1>1. n.id \in Nat
  BY TreeKids
<1>2. Labels(n) * k \in Nat
  BY DEF Labels
<1>3. <<n.id, Labels(n) * k>> \in Nat \X Nat
  BY <1>1, <1>2
<1> DEFINE x == <<n.id, Labels(n) * k>>
           T == Nat \X Nat
<1>4. Append(u, x) \in Paths
  <2>1. u \in Seq(T) /\ x \in T
    BY <1>3 DEF Paths
  <2> HIDE DEF x, T
  <2>2. Append(u, x) \in Seq(T)
    BY <2>1, Appending
  <2> QED BY <2>2 DEF Paths, T
<1>5. Deeper(n, k, u) \in Paths
  BY <1>4 DEF Deeper
<1>6. n.kind # "If" => Labels(n) * k = Labels(n) * 1
  BY DEF Labels
<1> QED BY <1>5, <1>6 DEF Deeper

\* A node in whose place another stands.
LEMMA DeeperSame ==
  ASSUME NEW n, NEW m, m.kind = n.kind, m.id = n.id
  PROVE  \A k, u : Deeper(m, k, u) = Deeper(n, k, u)
  BY DEF Deeper, Labels

LEMMA KidsPlannedType ==
  ASSUME NEW n \in Tree, NEW u \in Paths, NEW T,
         \A k \in DOMAIN n.kids : \A v \in Paths : Plan[n.kids[k]][v] \in Seq(T)
  PROVE  /\ KidsPlanned(n, u) \in Seq(Seq(T)) /\ Len(KidsPlanned(n, u)) = Len(n.kids)
         /\ \A k \in DOMAIN n.kids : KidsPlanned(n, u)[k] = Plan[n.kids[k]][Deeper(n, k, u)]
<1> DEFINE s == KidsPlanned(n, u)
<1>1. DOMAIN n.kids = 1..Len(n.kids) /\ Len(n.kids) \in Nat
  BY TreeKids
<1>2. \A k \in DOMAIN n.kids : s[k] = Plan[n.kids[k]][Deeper(n, k, u)]
  BY DEF KidsPlanned
<1>3. s = [k \in DOMAIN n.kids |-> s[k]]
  BY DEF KidsPlanned
<1> HIDE DEF s
<1>4. \A k \in 1..Len(n.kids) : s[k] \in Seq(T)
  <2>1. \A k \in 1..Len(n.kids) : k \in Nat
    BY <1>1
  <2> QED BY <1>1, <1>2, <2>1, DeeperType
<1>5. s \in Seq(Seq(T)) /\ Len(s) = Len(n.kids)
  BY <1>3, <1>4, KidsSeq
<1> QED BY <1>2, <1>5 DEF s

\* A plan has the actions of the tree.
LEMMA PlanType == \A n \in Tree : \A u \in Paths : Plan[n][u] \in Seq(Entries(Ids(n)))
<1> DEFINE S == {n \in Tree : \A u \in Paths : Plan[n][u] \in Seq(Entries(Ids(n)))}
<1>1. ASSUME NEW n \in Tree, \A k \in DOMAIN n.kids : n.kids[k] \in S PROVE n \in S
  <2> SUFFICES ASSUME NEW u \in Paths PROVE Plan[n][u] \in Seq(Entries(Ids(n)))
    OBVIOUS
  <2> DEFINE T == Entries(Ids(n))
  <2>1. CASE n.kind = "Always"
    <3> HIDE DEF T
    <3>1. <<>> \in Seq(T)
      OBVIOUS
    <3> QED BY <2>1, <3>1, PlanDef DEF T
  <2>2. CASE n.kind \in Leaves /\ n.kind # "Always"
    <3>1. Entry(n, u) \in T
      BY TreeKids, IdsDef DEF Entry, Entries
    <3> HIDE DEF T
    <3>2. <<Entry(n, u)>> \in Seq(T)
      BY <3>1
    <3> QED BY <2>2, <3>2, PlanDef DEF T
  <2>3. CASE n.kind \notin Leaves
    <3>1. \A k \in DOMAIN n.kids : \A v \in Paths : Plan[n.kids[k]][v] \in Seq(T)
      <4> SUFFICES ASSUME NEW k \in DOMAIN n.kids, NEW v \in Paths PROVE Plan[n.kids[k]][v] \in Seq(T)
        OBVIOUS
      <4>1. Entries(Ids(n.kids[k])) \subseteq T
        BY IdsDef DEF Entries
      <4>2. Plan[n.kids[k]][v] \in Seq(Entries(Ids(n.kids[k])))
        BY <1>1
      <4> HIDE DEF T
      <4> QED BY <4>1, <4>2, SeqMonotonic
    <3> HIDE DEF T
    <3>2. KidsPlanned(n, u) \in Seq(Seq(T))
      BY <3>1, KidsPlannedType
    <3>3. FlattenSeq(KidsPlanned(n, u)) \in Seq(T)
      BY <3>2, Flattened
    <3> QED BY <2>3, <3>3, PlanDef DEF T
  <2> QED BY <2>1, <2>2, <2>3
<1>2. Tree \subseteq S
  <2> HIDE DEF S
  <2> QED BY <1>1, TreeInduction
<1> QED BY <1>2

LEMMA EntriesMono ==
  ASSUME NEW n \in Tree, NEW u \in Paths
  PROVE  Plan[n][u] \in Seq(Entries(Nat))
<1>1. Entries(Ids(n)) \subseteq Entries(Nat)
  BY BelowType DEF Entries
<1> QED BY <1>1, PlanType, SeqMonotonic

-----------------------------------------------------------------------------
(* A plan without some nodes.                                              *)

\* An entry is kept unless its node is gone.
Keep(gone) == [x \in Entries(Nat) |-> IF x.id \in gone THEN <<>> ELSE <<x>>]

LEMMA KeepType ==
  ASSUME NEW gone
  PROVE  /\ Maps(Keep(gone), Entries(Nat), Seq(Entries(Nat)))
         /\ \A x \in Entries(Nat) : Keep(gone)[x] = IF x.id \in gone THEN <<>> ELSE <<x>>
<1> DEFINE T == Entries(Nat)
           F == Keep(gone)
<1>1. F = [x \in T |-> IF x.id \in gone THEN <<>> ELSE <<x>>]
  BY DEF Keep
<1> HIDE DEF T, F
<1>2. \A x \in T : <<x>> \in Seq(T) /\ <<>> \in Seq(T)
  OBVIOUS
<1>3. F \in [T -> Seq(T)]
  BY <1>1, <1>2
<1> QED BY <1>1, <1>3 DEF Maps, T, F

\* Spared is such a mapping,
LEMMA SparedBind ==
  ASSUME NEW plan \in Seq(Entries(Nat)), NEW gone
  PROVE  Spared(plan, gone) = Bind(Keep(gone), plan) /\ Spared(plan, gone) \in Seq(Entries(Nat))
<1> DEFINE T == Entries(Nat)
           F == Keep(gone)
<1> HIDE DEF T
<1>1. DOMAIN plan = 1..Len(plan) /\ \A i \in DOMAIN plan : plan[i] \in T
  BY DEF T
<1>2. Maps(F, T, Seq(T)) /\ \A x \in T : F[x] = IF x.id \in gone THEN <<>> ELSE <<x>>
  BY KeepType DEF T
<1> HIDE DEF F
<1>3. Mapped(F, plan) = [i \in DOMAIN plan |-> IF plan[i].id \in gone THEN <<>> ELSE <<plan[i]>>]
  BY <1>1, <1>2 DEF Mapped
<1>4. Bind(F, plan) \in Seq(T)
  <2>1. plan \in Seq(T)
    BY DEF T
  <2> QED BY <1>2, <2>1, BindType
<1> QED BY <1>3, <1>4 DEF Bind, Spared, F, T

\* which keeps all or nothing of a plan of none or all of whose nodes are gone.
LEMMA SparedAlike ==
  ASSUME NEW I \in SUBSET Nat, NEW gone
  PROVE  /\ gone \intersect I = {} => \A p \in Seq(Entries(I)) : Spared(p, gone) = p
         /\ I \subseteq gone => \A p \in Seq(Entries(I)) : Spared(p, gone) = <<>>
<1> DEFINE T == Entries(I)
           N == Entries(Nat)
           F == Keep(gone)
           S == {p \in Seq(T) : Bind(F, p) = IF I \subseteq gone THEN <<>> ELSE p}
<1>1. T \subseteq N /\ \A x \in T : x.id \in I
  BY DEF Entries
<1>2. Maps(F, N, Seq(N)) /\ \A x \in N : F[x] = IF x.id \in gone THEN <<>> ELSE <<x>>
  BY KeepType
<1>3. \A p \in Seq(T) : p \in Seq(N)
  <2> HIDE DEF T, N
  <2> QED BY <1>1, SeqMonotonic
<1> HIDE DEF T, N, F
<1>4. ASSUME gone \intersect I = {} \/ I \subseteq gone PROVE Seq(T) \subseteq S
  <2>1. <<>> \in S
    <3>1. <<>> \in Seq(T)
      OBVIOUS
    <3> QED BY <3>1, BindNone
  <2>2. ASSUME NEW p \in Seq(T), p \in S, NEW x \in T PROVE Append(p, x) \in S
    <3>1. Append(p, x) \in Seq(T) /\ Append(p, x) = p \o <<x>>
      BY Appending
    <3>2. p \in Seq(N) /\ x \in N
      BY <1>1, <1>3
    <3>3. Bind(F, Append(p, x)) = Bind(F, p) \o F[x]
      <4>1. \A u \in Seq(N) : \A y \in N : Bind(F, Append(u, y)) = Bind(F, u) \o F[y]
        BY <1>2, BindAppend
      <4> QED BY <3>2, <4>1, Zenon
    <3>4. CASE I \subseteq gone
      <4>1. Bind(F, p) = <<>> /\ F[x] = <<>>
        BY <1>1, <1>2, <2>2, <3>2, <3>4
      <4>2. <<>> \o <<>> = <<>>
        BY ConcatEmptySeq
      <4> QED BY <3>1, <3>3, <3>4, <4>1, <4>2
    <3>5. CASE ~(I \subseteq gone) /\ gone \intersect I = {}
      <4>1. Bind(F, p) = p /\ F[x] = <<x>>
        BY <1>1, <1>2, <2>2, <3>2, <3>5
      <4> QED BY <3>1, <3>3, <3>5, <4>1
    <3> QED BY <1>4, <3>4, <3>5
  <2> HIDE DEF S
  <2> QED BY <2>1, <2>2, AllSeqs
<1>5. \A p \in Seq(T) : Spared(p, gone) = Bind(F, p)
  BY <1>3, SparedBind DEF F, N
<1>6. I = {} => \A p \in Seq(T) : p = <<>>
  <2> SUFFICES ASSUME I = {}, NEW p \in Seq(T) PROVE p = <<>>
    OBVIOUS
  <2>1. ~\E i : i \in 1..Len(p)
    BY <1>1
  <2>2. Len(p) = 0
    <3>1. Len(p) \in Nat
      OBVIOUS
    <3>2. Len(p) # 0 => 1 \in 1..Len(p)
      BY <3>1
    <3> QED BY <2>1, <3>2
  <2> QED BY <2>2, EmptySeq
<1> QED BY <1>4, <1>5, <1>6 DEF T

\* What a flattened plan leaves is what its parts leave.
LEMMA SparedFlat ==
  ASSUME NEW gone, NEW s \in Seq(Seq(Entries(Nat)))
  PROVE  Spared(FlattenSeq(s), gone) = FlattenSeq([k \in DOMAIN s |-> Spared(s[k], gone)])
<1> DEFINE T == Entries(Nat)
           F == Keep(gone)
           W == Seq(T)
           G == [p \in W |-> Bind(F, p)]
<1>1. Maps(F, T, Seq(T))
  BY KeepType
<1>2. s \in Seq(Seq(T)) /\ s \in Seq(W)
  OBVIOUS
<1>3. \A p \in W : Spared(p, gone) = Bind(F, p)
  BY SparedBind
<1>4. FlattenSeq(s) \in Seq(T)
  BY Flattened
<1> HIDE DEF T, F
<1>5. \A p \in W : Bind(F, p) \in Seq(T)
  BY <1>1, BindType
<1>6. Maps(G, W, Seq(T)) /\ \A p \in W : G[p] = Bind(F, p)
  BY <1>5 DEF Maps
<1>7. W = Seq(T) /\ \A k \in DOMAIN s : s[k] \in W
  BY <1>2
<1> HIDE DEF G
<1>8. Mapped(G, s) = [k \in DOMAIN s |-> Spared(s[k], gone)]
  BY <1>3, <1>6, <1>7 DEF Mapped
<1> HIDE DEF W
<1>9. Bind(F, FlattenSeq(s)) = Bind(G, s)
  BY <1>1, <1>2, <1>6, <1>7, BindFlat
<1>10. Spared(FlattenSeq(s), gone) = Bind(F, FlattenSeq(s))
  BY <1>3, <1>4, <1>7
<1> QED BY <1>8, <1>9, <1>10 DEF Bind

-----------------------------------------------------------------------------
(* What is left of a node, and its plan.                                   *)

\* Nothing is left of a node, or some node; its plan; and plans as a mapping.
Gap(o) == o = <<>> \/ \E m \in Tree : o = <<m>>

PlanOf(o, u) == IF o = <<>> THEN <<>> ELSE Plan[o[1]][u]

PlanFrom(u) == [m \in Tree |-> Plan[m][u]]

LEMMA PlanFromType ==
  ASSUME NEW u \in Paths
  PROVE  Maps(PlanFrom(u), Tree, Seq(Entries(Nat))) /\ \A m \in Tree : PlanFrom(u)[m] = Plan[m][u]
<1> DEFINE V == Seq(Entries(Nat))
<1>1. \A m \in Tree : Plan[m][u] \in V
  BY EntriesMono
<1> HIDE DEF V
<1> QED BY <1>1 DEF Maps, PlanFrom, V

LEMMA GapPlan ==
  ASSUME NEW o, Gap(o), NEW u \in Paths
  PROVE  o \in Seq(Tree) /\ PlanOf(o, u) \in Seq(Entries(Nat)) /\ PlanOf(o, u) = Bind(PlanFrom(u), o)
<1> DEFINE T == Entries(Nat)
           F == PlanFrom(u)
<1>1. Maps(F, Tree, Seq(T)) /\ \A m \in Tree : F[m] = Plan[m][u]
  BY PlanFromType
<1>2. \A m \in Tree : Plan[m][u] \in Seq(T)
  BY EntriesMono
<1> HIDE DEF T, F
<1>3. CASE o = <<>>
  <2>1. <<>> \in Seq(Tree) /\ <<>> \in Seq(T)
    OBVIOUS
  <2> QED BY <1>3, <2>1, BindNone DEF PlanOf, T, F
<1>4. CASE \E m \in Tree : o = <<m>>
  <2>1. PICK m \in Tree : o = <<m>>
    BY <1>4
  <2>2. <<m>> # <<>> /\ <<m>>[1] = m /\ <<m>> \in Seq(Tree)
    OBVIOUS
  <2>3. PlanOf(o, u) = Plan[m][u]
    BY <2>1, <2>2 DEF PlanOf
  <2>4. Bind(F, <<m>>) = F[m]
    <3>1. Maps(F, Tree, Seq(T))
      BY <1>1
    <3> QED BY <3>1, BindOne, Zenon
  <2> QED BY <1>1, <1>2, <2>1, <2>2, <2>3, <2>4 DEF T, F
<1> QED BY <1>3, <1>4 DEF Gap

\* The plans of the nodes that are left, in a row.
LEMMA GapsPlan ==
  ASSUME NEW left \in Seq(Seq(Tree)), \A k \in DOMAIN left : Gap(left[k]), NEW u \in Paths
  PROVE  LET ks == FlattenSeq(left) IN
         /\ ks \in Seq(Tree)
         /\ FlattenSeq([i \in DOMAIN ks |-> Plan[ks[i]][u]]) = FlattenSeq([k \in DOMAIN left |-> PlanOf(left[k], u)])
<1> DEFINE T == Entries(Nat)
           F == PlanFrom(u)
           W == Seq(Tree)
           G == [p \in W |-> Bind(F, p)]
           ks == FlattenSeq(left)
<1>1. Maps(F, Tree, Seq(T)) /\ \A m \in Tree : F[m] = Plan[m][u]
  BY PlanFromType
<1>2. ks \in Seq(Tree)
  BY Flattened
<1>3. W = Seq(Tree) /\ left \in Seq(W) /\ \A k \in DOMAIN left : left[k] \in W
  OBVIOUS
<1>4. \A i \in DOMAIN ks : ks[i] \in Tree
  BY <1>2
<1> HIDE DEF T, F, W, ks
<1>5. \A p \in W : Bind(F, p) \in Seq(T)
  BY <1>1, <1>3, BindType
<1>6. Maps(G, W, Seq(T)) /\ \A p \in W : G[p] = Bind(F, p)
  BY <1>5 DEF Maps
<1> HIDE DEF G
<1>7. Mapped(F, ks) = [i \in DOMAIN ks |-> Plan[ks[i]][u]]
  BY <1>1, <1>4 DEF Mapped
<1>8. Mapped(G, left) = [k \in DOMAIN left |-> PlanOf(left[k], u)]
  <2>1. \A k \in DOMAIN left : G[left[k]] = PlanOf(left[k], u)
    BY <1>3, <1>6, GapPlan DEF F
  <2> QED BY <2>1 DEF Mapped
<1>9. Bind(F, FlattenSeq(left)) = Bind(G, left)
  BY <1>1, <1>3, <1>6, BindFlat
<1> QED BY <1>2, <1>7, <1>8, <1>9 DEF Bind, ks

\* What is left of a node has its plan, without those that are gone.
Spares(o, n, gone) == Gap(o) /\ \A u \in Paths : PlanOf(o, u) = Spared(Plan[n][u], gone)

\* The plans of what is left of the children,
LeftPlans(n, left, u) == [k \in DOMAIN n.kids |-> PlanOf(left[k], Deeper(n, k, u))]

\* which are the plan of the node without the nodes that are gone.
LEMMA SparesKids ==
  ASSUME NEW n \in Tree, n.kind \notin Leaves, NEW gone, NEW left, left = [k \in DOMAIN n.kids |-> left[k]],
         \A k \in DOMAIN n.kids : Spares(left[k], n.kids[k], gone), NEW u \in Paths
  PROVE  FlattenSeq(LeftPlans(n, left, u)) = Spared(Plan[n][u], gone)
<1> DEFINE T == Entries(Nat)
           s == KidsPlanned(n, u)
<1>1. /\ s \in Seq(Seq(T)) /\ Len(s) = Len(n.kids)
      /\ \A k \in DOMAIN n.kids : s[k] = Plan[n.kids[k]][Deeper(n, k, u)]
  <2>1. \A k \in DOMAIN n.kids : \A v \in Paths : Plan[n.kids[k]][v] \in Seq(T)
    BY TreeKids, EntriesMono
  <2> HIDE DEF T
  <2> QED BY <2>1, KidsPlannedType
<1>2. Plan[n][u] = FlattenSeq(s)
  BY PlanDef
<1>3. DOMAIN s = DOMAIN n.kids
  BY DEF KidsPlanned
<1>4. Spared(FlattenSeq(s), gone) = FlattenSeq([k \in DOMAIN s |-> Spared(s[k], gone)])
  BY <1>1, SparedFlat
<1>5. \A k \in DOMAIN n.kids : Deeper(n, k, u) \in Paths
  <2>1. \A k \in DOMAIN n.kids : k \in Nat
    BY TreeKids
  <2> QED BY <2>1, DeeperType
<1> HIDE DEF s, T
<1>6. \A k \in DOMAIN n.kids : PlanOf(left[k], Deeper(n, k, u)) = Spared(s[k], gone)
  BY <1>1, <1>5 DEF Spares
<1>7. LeftPlans(n, left, u) = [k \in DOMAIN s |-> Spared(s[k], gone)]
  BY <1>3, <1>6 DEF LeftPlans
<1> QED BY <1>2, <1>4, <1>7

\* A node without children has no plan.
LEMMA BarePlan ==
  ASSUME NEW m \in Tree, m.kind \notin Leaves, m.kids = <<>>, NEW u \in Paths
  PROVE  Plan[m][u] = <<>>
<1>1. KidsPlanned(m, u) = <<>>
  <2>1. DOMAIN m.kids = {}
    OBVIOUS
  <2>2. KidsPlanned(m, u) = [k \in {} |-> Plan[m.kids[k]][Deeper(m, k, u)]]
    BY <2>1 DEF KidsPlanned
  <2> QED BY <2>2
<1> QED BY <1>1, PlanDef, FlatNone

\* An empty body has no plan.
LEMMA BodyPlan ==
  ASSUME NEW n, NEW left, NEW k, Gap(left[k]), Body(n, left, k) \in Tree, NEW u \in Paths
  PROVE  Plan[Body(n, left, k)][u] = PlanOf(left[k], u)
<1>1. CASE left[k] = <<>>
  <2> DEFINE m == Body(n, left, k)
  <2>1. m = EmptyBody(n.kids[k])
    BY <1>1 DEF Body, OrElse
  <2>2. m.kind = "Seq" /\ m.kids = <<>>
    BY <2>1 DEF EmptyBody, Node
  <2>3. m.kind \notin Leaves
    BY <2>2 DEF Leaves
  <2>4. Plan[m][u] = <<>>
    BY <2>2, <2>3, BarePlan
  <2> QED BY <1>1, <2>4 DEF PlanOf
<1>2. CASE left[k] # <<>>
  BY <1>2 DEF Body, OrElse, PlanOf
<1> QED BY <1>1, <1>2

\* The plan of a node, by the plans of its children one after the other.
LEMMA PlanOfKids ==
  ASSUME NEW m \in Tree, m.kind \notin Leaves, NEW u \in Paths, NEW v,
         \A k \in DOMAIN m.kids : Deeper(m, k, u) = v
  PROVE  Plan[m][u] = FlattenSeq([i \in DOMAIN m.kids |-> Plan[m.kids[i]][v]])
<1>1. KidsPlanned(m, u) = [i \in DOMAIN m.kids |-> Plan[m.kids[i]][v]]
  BY DEF KidsPlanned
<1> QED BY <1>1, PlanDef

LEMMA OnePlanned ==
  ASSUME NEW m \in Tree, NEW ks \in Seq(Tree), Len(ks) = 1, ks[1] = m, NEW u \in Paths
  PROVE  FlattenSeq([i \in DOMAIN ks |-> Plan[ks[i]][u]]) = Plan[m][u]
<1> DEFINE T == Entries(Nat)
           F == PlanFrom(u)
<1>1. Maps(F, Tree, Seq(T)) /\ \A x \in Tree : F[x] = Plan[x][u]
  BY PlanFromType
<1>2. \A i \in DOMAIN ks : ks[i] \in Tree
  OBVIOUS
<1> HIDE DEF T, F
<1>3. Mapped(F, ks) = [i \in DOMAIN ks |-> Plan[ks[i]][u]]
  BY <1>1, <1>2 DEF Mapped
<1>4. ks = <<m>>
  <2> DEFINE s == <<m>>
  <2>1. s \in Seq(Tree) /\ Len(s) = 1 /\ s[1] = m
    BY Single
  <2> HIDE DEF s
  <2>2. \A i \in 1..Len(ks) : ks[i] = s[i]
    BY <2>1
  <2>3. ks = s
    BY <2>1, <2>2, SeqEqual
  <2> QED BY <2>3 DEF s
<1>5. Bind(F, <<m>>) = F[m]
  <2>1. Maps(F, Tree, Seq(T))
    BY <1>1
  <2>2. \A x \in Tree : Bind(F, <<x>>) = F[x]
    BY <2>1, BindOne, ZenonT(30)
  <2> QED BY <2>2
<1> QED BY <1>1, <1>3, <1>4, <1>5 DEF Bind

\* The children that are left of a group, on one path.
LEMMA GroupPlan ==
  ASSUME NEW n \in Tree, n.kind \in {"Seq", "Parallel"}, NEW left \in Seq(Seq(Tree)),
         left = [k \in DOMAIN n.kids |-> left[k]], \A k \in DOMAIN n.kids : Gap(left[k]),
         NEW m \in Tree, m = Rebuilt(n, left), NEW u \in Paths
  PROVE  Plan[m][u] = FlattenSeq(LeftPlans(n, left, u))
<1> DEFINE ks == FlattenSeq(left)
           v == Deeper(n, 1, u)
<1>1. v \in Paths /\ \A k \in DOMAIN n.kids : Deeper(n, k, u) = v
  <2>1. n.kind # "If" /\ 1 \in Nat /\ \A k \in DOMAIN n.kids : k \in Nat
    BY TreeKids, SMTT(30)
  <2> HIDE DEF v
  <2>2. \A k \in Nat : Deeper(n, k, u) = Deeper(n, 1, u) /\ Deeper(n, k, u) \in Paths
    BY <2>1, DeeperType
  <2> QED BY <2>1, <2>2 DEF v
<1>2. DOMAIN left = DOMAIN n.kids
  <2>1. DOMAIN [k \in DOMAIN n.kids |-> left[k]] = DOMAIN n.kids
    OBVIOUS
  <2> QED BY <2>1
<1>3. ks \in Seq(Tree) /\ FlattenSeq([i \in DOMAIN ks |-> Plan[ks[i]][v]])
                            = FlattenSeq([k \in DOMAIN left |-> PlanOf(left[k], v)])
  <2>1. \A k \in DOMAIN left : Gap(left[k])
    BY <1>2
  <2> HIDE DEF v
  <2>2. v \in Paths
    BY <1>1
  <2> QED BY <2>1, <2>2, GapsPlan
<1>4. [k \in DOMAIN left |-> PlanOf(left[k], v)] = LeftPlans(n, left, u)
  BY <1>1, <1>2 DEF LeftPlans
<1> DEFINE p == FlattenSeq([i \in DOMAIN ks |-> Plan[ks[i]][v]])
<1>5. n.kind = "Seq" => v = u
  BY DEF Deeper
<1>6. /\ n.kind = "Seq" => m = Simplified(n, ks)
      /\ n.kind = "Parallel" => m = WithKids(n, ks)
  BY RebuiltCases
<1>7. n.kind \notin Leaves
  BY DEF Leaves
<1> SUFFICES Plan[m][u] = p
  BY <1>3, <1>4
<1> HIDE DEF ks, v, p
<1>8. ASSUME m = WithKids(n, ks) PROVE Plan[m][u] = p
  <2>1. m.kids = ks /\ m.kind = n.kind /\ m.id = n.id
    BY <1>8, WithKidsRec, RecFields
  <2>2. \A k \in DOMAIN m.kids : Deeper(m, k, u) = v
    <3>1. \A k \in DOMAIN m.kids : k \in Nat /\ Deeper(m, k, u) = Deeper(n, k, u)
      BY <2>1, TreeKids, DeeperSame, SMTT(30)
    <3>2. \A k \in Nat : Deeper(n, k, u) = v
      <4>1. n.kind # "If"
        OBVIOUS
      <4> QED BY <4>1, DeeperType DEF v
    <3> QED BY <3>1, <3>2
  <2>3. Plan[m][u] = FlattenSeq([i \in DOMAIN m.kids |-> Plan[m.kids[i]][v]])
    BY <1>7, <2>1, <2>2, PlanOfKids, ZenonT(30)
  <2> QED BY <2>1, <2>3 DEF p
<1>9. CASE n.kind = "Parallel"
  BY <1>6, <1>8, <1>9
<1>10. CASE n.kind = "Seq" /\ Len(ks) = 0
  <2>1. m = Rec("Seq", n.id, n.cfg, <<>>)
    BY <1>3, <1>6, <1>10, SimplifiedCases
  <2>2. m.kind = n.kind /\ m.kids = <<>>
    BY <1>10, <2>1, RecFields
  <2>3. Plan[m][u] = <<>>
    BY <1>7, <2>2, BarePlan
  <2>4. ks = <<>>
    BY <1>3, <1>10
  <2>5. [i \in DOMAIN ks |-> Plan[ks[i]][v]] = <<>>
    <3>1. DOMAIN ks = {}
      BY <2>4
    <3>2. [i \in DOMAIN ks |-> Plan[ks[i]][v]] = [i \in {} |-> Plan[ks[i]][v]]
      BY <3>1
    <3> QED BY <3>2
  <2> QED BY <2>3, <2>5, FlatNone DEF p
<1>11. CASE n.kind = "Seq" /\ Len(ks) = 1
  <2>1. m = ks[1]
    BY <1>3, <1>6, <1>11, SimplifiedCases
  <2> QED BY <1>3, <1>5, <1>11, <2>1, OnePlanned DEF p
<1>12. CASE n.kind = "Seq" /\ Len(ks) # 0 /\ Len(ks) # 1
  <2>1. m = WithKids(n, ks)
    BY <1>3, <1>6, <1>12, SimplifiedCases
  <2> QED BY <1>8, <2>1
<1> QED BY <1>9, <1>10, <1>11, <1>12

\* A body stays, if need be empty.
LEMMA BodiesPlan ==
  ASSUME NEW n \in Tree, n.kind \in Bodies, NEW left,
         left = [k \in DOMAIN n.kids |-> left[k]],
         \A k \in DOMAIN n.kids : Gap(left[k]),
         \A k \in DOMAIN n.kids : Body(n, left, k) \in Tree,
         NEW m \in Tree, m = Rebuilt(n, left), NEW u \in Paths
  PROVE  Plan[m][u] = FlattenSeq(LeftPlans(n, left, u))
<1>1. m = WithKids(n, BodyKids(n, left))
  BY RebuiltCases
<1>2. m.kids = BodyKids(n, left) /\ m.kind = n.kind /\ m.id = n.id
  BY <1>1, WithKidsRec, RecFields
<1>3. DOMAIN left = DOMAIN n.kids
  <2>1. DOMAIN [k \in DOMAIN n.kids |-> left[k]] = DOMAIN n.kids
    OBVIOUS
  <2> QED BY <2>1
<1>4. DOMAIN m.kids = DOMAIN n.kids /\ \A k \in DOMAIN n.kids : m.kids[k] = Body(n, left, k)
  BY <1>2, <1>3 DEF BodyKids
<1>5. n.kind \notin Leaves
  BY DEF Bodies, Leaves
<1>6. \A k \in DOMAIN n.kids : /\ Deeper(m, k, u) = Deeper(n, k, u)
                               /\ Plan[m.kids[k]][Deeper(m, k, u)] = PlanOf(left[k], Deeper(n, k, u))
  <2> SUFFICES ASSUME NEW k \in DOMAIN n.kids
               PROVE  /\ Deeper(m, k, u) = Deeper(n, k, u)
                      /\ Plan[m.kids[k]][Deeper(m, k, u)] = PlanOf(left[k], Deeper(n, k, u))
    OBVIOUS
  <2>1. Deeper(m, k, u) = Deeper(n, k, u)
    BY <1>2, DeeperSame
  <2>2. Deeper(n, k, u) \in Paths
    <3>1. k \in Nat
      BY TreeKids, SMTT(30)
    <3> QED BY <3>1, DeeperType
  <2>3. Plan[Body(n, left, k)][Deeper(n, k, u)] = PlanOf(left[k], Deeper(n, k, u))
    BY <2>2, BodyPlan
  <2> QED BY <1>4, <2>1, <2>3
<1>7. KidsPlanned(m, u) = LeftPlans(n, left, u)
  BY <1>4, <1>6 DEF KidsPlanned, LeftPlans
<1> QED BY <1>2, <1>5, <1>7, PlanDef

\* Sequences of one and of two.
LEMMA OneSeq ==
  ASSUME NEW T, NEW s \in Seq(T), Len(s) = 1, NEW x \in T, s[1] = x
  PROVE  s = <<x>>
<1> DEFINE o == <<x>>
<1>1. o \in Seq(T) /\ Len(o) = 1 /\ o[1] = x
  BY Single
<1>2. \A i \in 1..Len(s) : i = 1
  OBVIOUS
<1> HIDE DEF o
<1>3. \A i \in 1..Len(s) : s[i] = o[i]
  BY <1>1, <1>2
<1>4. s = o
  BY <1>1, <1>3, SeqEqual
<1> QED BY <1>4 DEF o

LEMMA TwoSeq ==
  ASSUME NEW T, NEW s \in Seq(T), Len(s) = 2, NEW x \in T, NEW y \in T, s[1] = x, s[2] = y
  PROVE  s = <<x, y>>
<1> DEFINE o == <<x, y>>
<1>1. o \in Seq(T) /\ Len(o) = 2 /\ o[1] = x /\ o[2] = y
  BY Pair
<1>2. \A i \in 1..Len(s) : i = 1 \/ i = 2
  OBVIOUS
<1> HIDE DEF o
<1>3. \A i \in 1..Len(s) : s[i] = o[i]
  BY <1>1, <1>2
<1>4. s = o
  BY <1>1, <1>3, SeqEqual
<1> QED BY <1>4 DEF o

\* The `then` stays, if need be empty, and an `otherwise` may go.
LEMMA IfPlan ==
  ASSUME NEW n \in Tree, n.kind = "If", Len(n.kids) \in {1, 2}, NEW left,
         left = [k \in DOMAIN n.kids |-> left[k]],
         \A k \in DOMAIN n.kids : Gap(left[k]), Body(n, left, 1) \in Tree,
         NEW m \in Tree, m = Rebuilt(n, left), NEW u \in Paths
  PROVE  Plan[m][u] = FlattenSeq(LeftPlans(n, left, u))
<1> DEFINE T == Entries(Nat)
           b == Body(n, left, 1)
           bb == <<b>>
           s == IfKids(n, left)
           p1 == PlanOf(left[1], Deeper(n, 1, u))
           p2 == PlanOf(left[2], Deeper(n, 2, u))
           all == LeftPlans(n, left, u)
           own == KidsPlanned(m, u)
<1>1. DOMAIN n.kids = 1..Len(n.kids) /\ 1 \in DOMAIN n.kids /\ Len(n.kids) \in Nat
  BY TreeKids
<1>2. DOMAIN left = DOMAIN n.kids
  <2>1. DOMAIN [k \in DOMAIN n.kids |-> left[k]] = DOMAIN n.kids
    OBVIOUS
  <2> QED BY <2>1
<1>3. m.kids = FlattenSeq(s) /\ m.kind = n.kind /\ m.id = n.id
  BY RebuiltCases, WithKidsRec, RecFields
<1>4. Plan[m][u] = FlattenSeq(own)
  <2>1. m.kind \notin Leaves
    BY <1>3 DEF Leaves
  <2> QED BY <2>1, PlanDef
<1>5. \A k \in Nat : Deeper(m, k, u) = Deeper(n, k, u) /\ Deeper(n, k, u) \in Paths
  BY <1>3, DeeperSame, DeeperType
<1>6. \A k \in DOMAIN n.kids : left[k] \in Seq(Tree) /\ PlanOf(left[k], Deeper(n, k, u)) \in Seq(T)
  <2>1. \A k \in DOMAIN n.kids : k \in Nat
    BY <1>1
  <2> QED BY <1>5, <2>1, GapPlan
<1>7. Plan[b][Deeper(n, 1, u)] = p1
  <2>1. Gap(left[1])
    BY <1>1
  <2>2. Deeper(n, 1, u) \in Paths
    BY <1>5
  <2> QED BY <2>1, <2>2, BodyPlan
<1>8. bb \in Seq(Tree) /\ Len(bb) = 1 /\ bb[1] = b
  BY Single
<1>9. /\ s = [k \in DOMAIN n.kids |-> s[k]]
      /\ s[1] = bb
      /\ 2 \in DOMAIN n.kids => s[2] = left[2]
  BY <1>1, <1>2 DEF IfKids
<1>10. /\ all = [k \in DOMAIN n.kids |-> all[k]]
       /\ all[1] = p1
       /\ 2 \in DOMAIN n.kids => all[2] = p2
  BY <1>1 DEF LeftPlans
<1>11. \A k \in DOMAIN n.kids : s[k] \in Seq(Tree) /\ all[k] \in Seq(T)
  BY <1>2, <1>6, <1>8 DEF IfKids, LeftPlans
<1>12. own = [i \in DOMAIN m.kids |-> Plan[m.kids[i]][Deeper(m, i, u)]]
  BY DEF KidsPlanned
<1>domain. DOMAIN own = DOMAIN m.kids /\ own = [i \in DOMAIN own |-> own[i]]
  BY <1>12
<1>planned. \A i \in DOMAIN m.kids : i \in Nat => own[i] = Plan[m.kids[i]][Deeper(n, i, u)]
  BY <1>5, <1>12
<1>13. p1 \in Seq(T) /\ (2 \in DOMAIN n.kids => p2 \in Seq(T) /\ left[2] \in Seq(Tree) /\ Gap(left[2]))
  BY <1>1, <1>6
<1> HIDE DEF bb, s, all, own, p1, p2, T, b
<1>14. s \in Seq(Seq(Tree)) /\ Len(s) = Len(n.kids) /\ all \in Seq(Seq(T)) /\ Len(all) = Len(n.kids)
  <2> DEFINE W == Seq(Tree)
             V == Seq(T)
  <2>1. \A k \in 1..Len(n.kids) : s[k] \in W
    BY <1>1, <1>11
  <2>2. \A k \in 1..Len(n.kids) : all[k] \in V
    BY <1>1, <1>11
  <2> HIDE DEF W, V
  <2>3. s \in Seq(W) /\ Len(s) = Len(n.kids)
    BY <1>9, <2>1, KidsSeq, ZenonT(30)
  <2>4. all \in Seq(V) /\ Len(all) = Len(n.kids)
    BY <1>10, <2>2, KidsSeq, ZenonT(30)
  <2> QED BY <2>3, <2>4 DEF W, V
<1>15. b \in Tree
  BY DEF b
<1>16. 1 \in Nat /\ 2 \in Nat
  OBVIOUS
<1>17. ASSUME m.kids = bb PROVE FlattenSeq(own) = p1
  <2>1. own = <<p1>>
    <3>1. DOMAIN m.kids = 1..1 /\ m.kids[1] = b
      BY <1>8, <1>17
    <3>2. DOMAIN own = 1..1 /\ own[1] = p1
      <4>1. 1 \in DOMAIN m.kids
        BY <3>1
      <4>2. own[1] = Plan[b][Deeper(n, 1, u)]
        BY <1>planned, <1>16, <3>1, <4>1
      <4> QED BY <1>7, <1>domain, <3>1, <4>2
    <3>3. own = [i \in 1..1 |-> p1]
      <4>1. \A i \in 1..1 : own[i] = p1
        BY <3>2
      <4>2. own = [i \in 1..1 |-> own[i]]
        BY <1>domain, <3>2
      <4> QED BY <4>1, <4>2
    <3>4. own \in Seq(Seq(T)) /\ Len(own) = 1
      <4> DEFINE W == Seq(T)
      <4>1. p1 \in W
        BY <1>13
      <4> HIDE DEF W
      <4>2. own \in [1..1 -> W]
        BY <3>3, <4>1
      <4>3. own \in Seq(W) /\ Len(own) = 1
        BY <1>16, <4>2, FcnSeq
      <4> QED BY <4>3 DEF W
    <3> QED BY <1>13, <3>2, <3>4, OneSeq
  <2> QED BY <1>13, <2>1, FlatOne
<1>18. CASE Len(n.kids) = 1
  <2>1. s = <<bb>>
    BY <1>8, <1>9, <1>14, <1>18, OneSeq
  <2>2. m.kids = bb
    BY <1>3, <1>8, <2>1, FlatOne
  <2>3. all = <<p1>>
    BY <1>10, <1>13, <1>14, <1>18, OneSeq
  <2>4. FlattenSeq(all) = p1
    BY <1>13, <2>3, FlatOne
  <2> QED BY <1>4, <1>17, <2>2, <2>4 DEF all
<1>19. CASE Len(n.kids) = 2
  <2>1. 2 \in DOMAIN n.kids
    BY <1>1, <1>19
  <2>2. s = <<bb, left[2]>>
    BY <1>8, <1>9, <1>13, <1>14, <1>19, <2>1, TwoSeq
  <2>3. m.kids = bb \o left[2]
    BY <1>3, <1>8, <1>13, <2>1, <2>2, FlatTwo
  <2>4. all = <<p1, p2>>
    BY <1>10, <1>13, <1>14, <1>19, <2>1, TwoSeq
  <2>5. FlattenSeq(all) = p1 \o p2
    BY <1>13, <2>1, <2>4, FlatTwo
  <2>6. CASE left[2] = <<>>
    <3>1. m.kids = bb
      BY <1>8, <2>3, <2>6, ConcatEmptySeq
    <3>2. p2 = <<>>
      BY <2>6 DEF p2, PlanOf
    <3>3. p1 \o p2 = p1
      BY <1>13, <3>2, ConcatEmptySeq
    <3> QED BY <1>4, <1>17, <2>5, <3>1, <3>3 DEF all
  <2>7. CASE \E x \in Tree : left[2] = <<x>>
    <3>1. PICK x \in Tree : left[2] = <<x>>
      BY <2>7
    <3>2. p2 = Plan[x][Deeper(n, 2, u)]
      <4>1. <<x>> # <<>> /\ <<x>>[1] = x
        OBVIOUS
      <4> QED BY <3>1, <4>1 DEF p2, PlanOf
    <3>3. m.kids = <<b, x>>
      <4>1. Append(<<b>>, x) = <<b>> \o <<x>>
        <5>1. <<b>> \in Seq(Tree)
          BY <1>15
        <5> QED BY <5>1, Appending
      <4>2. Append(<<b>>, x) = <<b, x>>
        BY <1>15, AppendOne
      <4> QED BY <2>3, <3>1, <4>1, <4>2 DEF bb
    <3>4. m.kids \in Seq(Tree) /\ Len(m.kids) = 2 /\ DOMAIN m.kids = 1..2 /\ m.kids[1] = b /\ m.kids[2] = x
      <4> DEFINE o == <<b, x>>
      <4>1. o \in Seq(Tree) /\ Len(o) = 2 /\ o[1] = b /\ o[2] = x
        BY <1>15, Pair
      <4>2. m.kids \in Seq(Tree) /\ Len(m.kids) = 2 /\ m.kids[1] = b /\ m.kids[2] = x
        BY <1>15, <3>3, <4>1
      <4> QED BY <4>2
    <3>5. own[1] = p1 /\ own[2] = p2 /\ own = [i \in 1..2 |-> own[i]] /\ DOMAIN own = 1..2
      <4>1. 1 \in DOMAIN m.kids /\ 2 \in DOMAIN m.kids
        BY <3>4
      <4>2. own[1] = Plan[b][Deeper(n, 1, u)] /\ own[2] = Plan[x][Deeper(n, 2, u)]
        BY <1>planned, <1>16, <3>4, <4>1
      <4> QED BY <1>7, <1>domain, <3>2, <3>4, <4>2
    <3>6. \A i \in 1..2 : own[i] = all[i]
      <4>1. \A i \in 1..2 : i = 1 \/ i = 2
        OBVIOUS
      <4> QED BY <1>10, <2>1, <3>5, <4>1
    <3>7. own = all
      <4>1. DOMAIN n.kids = 1..2
        BY <1>1, <1>19
      <4> QED BY <1>10, <3>5, <3>6, <4>1
    <3> QED BY <1>4, <3>7 DEF all
  <2> QED BY <1>13, <2>1, <2>6, <2>7 DEF Gap
<1> QED BY <1>18, <1>19

\* What is left of a workflow, rebuilt.
LEMMA RebuiltPlan ==
  ASSUME NEW n \in Tree, WellFormed(n), n.kind \notin Conditions, NEW gone, n.id \notin gone,
         NEW left \in Seq(Seq(Tree)), left = [k \in DOMAIN n.kids |-> left[k]],
         \A k \in DOMAIN n.kids : Spares(left[k], n.kids[k], gone),
         \A k \in DOMAIN n.kids : Body(n, left, k) \in Tree,
         Rebuilt(n, left) \in Tree, NEW u \in Paths
  PROVE  Plan[Rebuilt(n, left)][u] = Spared(Plan[n][u], gone)
<1> DEFINE m == Rebuilt(n, left)
<1>1. \A k \in DOMAIN n.kids : Gap(left[k])
  BY DEF Spares
<1>2. WellShaped(n)
  BY WellFormedDef
<1>3. CASE n.kind \in Leaves
  <2>1. m = n
    BY <1>3, RebuiltCases
  <2>2. Len(n.kids) = 0
    BY <1>2, <1>3 DEF WellShaped
  <2>3. DOMAIN n.kids = {}
    BY <2>2, TreeKids
  <2>4. Ids(n) \intersect gone = {}
    BY <2>3, IdsDef
  <2>5. Ids(n) \in SUBSET Nat /\ Plan[n][u] \in Seq(Entries(Ids(n))) /\ gone \intersect Ids(n) = {}
    BY <2>4, BelowType, PlanType
  <2>6. Spared(Plan[n][u], gone) = Plan[n][u]
    BY <2>5, SparedAlike
  <2> QED BY <2>1, <2>6
<1>4. CASE n.kind \notin Leaves
  <2>1. n.kind \in {"Seq", "Parallel"} \/ n.kind \in Bodies \/ n.kind = "If"
    BY <1>4, TreeKids DEF Nodes, Conditions, Leaves
  <2>2. m \in Tree /\ m = Rebuilt(n, left)
    OBVIOUS
  <2> HIDE DEF m
  <2> DEFINE all == FlattenSeq(LeftPlans(n, left, u))
  <2>s. all = Spared(Plan[n][u], gone)
    BY <1>4, SparesKids
  <2>3. CASE n.kind \in {"Seq", "Parallel"}
    <3>1. Plan[m][u] = all
      BY <1>1, <2>2, <2>3, GroupPlan
    <3> QED BY <2>s, <3>1 DEF m
  <2>4. CASE n.kind \in Bodies
    <3>1. Plan[m][u] = all
      BY <1>1, <2>2, <2>4, BodiesPlan
    <3> QED BY <2>s, <3>1 DEF m
  <2>5. CASE n.kind = "If"
    <3>1. Len(n.kids) \in {1, 2}
      BY <1>2, <2>5 DEF WellShaped
    <3>2. 1 \in DOMAIN n.kids
      BY <3>1, TreeKids
    <3>3. Body(n, left, 1) \in Tree
      BY <3>2
    <3>4. Plan[m][u] = all
      BY <1>1, <2>2, <2>5, <3>1, <3>3, IfPlan, ZenonT(30)
    <3> QED BY <2>s, <3>4 DEF m
  <2> QED BY <2>1, <2>3, <2>4, <2>5
<1> QED BY <1>3, <1>4

\* The nodes that are gone are those under the node at that position of the row p, unless
\* neither is in the tree.
AimedAt(n, p, gone) ==
  /\ p # 0 /\ Steady(n, p) /\ ~Row(n, p).label
  /\ \E x \in Below[n] : x.id = Row(n, p).id /\ gone = Ids(x)

\* Not among the positions of the walk.
Beyond(n, at, pos) == pos < at \/ at + Counted[n] <= pos

\* The aim of a deletion.
Cuts(n, at, pos, gone) ==
  \/ Beyond(n, at, pos) /\ gone \intersect Ids(n) = {}
  \/ \E p \in 0..Size[n] - 1 : pos = at + p /\ AimedAt(n, p, gone)

\* It is taken on to the children, where the position is not
LEMMA CutsBeyond ==
  ASSUME NEW n \in Tree, ~NotEntered(n), NEW at \in Nat, NEW pos \in Nat, NEW gone,
         Beyond(n, at, pos), gone \intersect Ids(n) = {}
  PROVE  /\ at # pos /\ n.id \notin gone
         /\ \A k \in DOMAIN n.kids : Cuts(n.kids[k], at + CountFirst(n, k), pos, gone)
<1>1. Counted[n] \in Nat /\ Counted[n] > 0
  BY CountedType
<1>2. at # pos
  BY <1>1 DEF Beyond
<1>3. n.id \notin gone
  BY IdsDef
<1>4. ASSUME NEW k \in DOMAIN n.kids PROVE Cuts(n.kids[k], at + CountFirst(n, k), pos, gone)
  <2> DEFINE f == CountFirst(n, k)
             z == Counted[n.kids[k]]
             w == Counted[n]
  <2>0. k \in 1..Len(n.kids)
    BY TreeKids
  <2>1. f \in Nat /\ z \in Nat /\ f + z <= w /\ w \in Nat
    BY <1>1, <2>0, CountFirstDef
  <2>2. pos < at \/ at + w <= pos
    BY DEF Beyond
  <2> HIDE DEF f, z, w
  <2>3. pos < at + f \/ (at + f) + z <= pos
    BY <2>1, <2>2
  <2>4. Beyond(n.kids[k], at + f, pos)
    BY <2>3 DEF Beyond, z
  <2>5. gone \intersect Ids(n.kids[k]) = {}
    BY IdsDef
  <2> QED BY <2>4, <2>5 DEF Cuts, f
<1> QED BY <1>2, <1>3, <1>4

\* A row of a child, which is the first of the rows of the child or not.
LEMMA AimedWithin ==
  ASSUME NEW n \in Tree, WellFormed(n), NEW p \in 0..Size[n] - 1, NEW gone, AimedAt(n, p, gone),
         NEW k, NEW q, Within(n, p, k, q)
  PROVE  /\ k \in DOMAIN n.kids /\ q \in 0..Size[n.kids[k]] - 1 /\ q \in Nat /\ p \in Nat /\ p > 0
         /\ ~NotEntered(n) /\ CountFirst(n, k) = First(n, k) /\ First(n, k) \in Nat
         /\ p = First(n, k) + q /\ q < Counted[n.kids[k]]
         /\ gone \subseteq Ids(n.kids[k])
         /\ q = 0 => gone = Ids(n.kids[k])
         /\ q # 0 => AimedAt(n.kids[k], q, gone)
<1> DEFINE kid == n.kids[k]
<1>1. k \in 1..Len(n.kids) /\ k \in DOMAIN n.kids /\ q \in 0..Size[kid] - 1 /\ p = First(n, k) + q
  BY TreeKids DEF Within
<1>2. First(n, k) \in Nat /\ Size[kid] \in Nat /\ First(n, k) > Labels(n) /\ Labels(n) \in Nat
  <2>1. Labels(n) \in Nat
    BY LabelsType
  <2> QED BY <1>1, <2>1, FirstDef
<1>3. Steady(n, p) /\ ~Row(n, p).label
  BY DEF AimedAt
<1>4. ~NotEntered(n) /\ CountFirst(n, k) = First(n, k)
  <2>1. First(n, k) - Labels(n) <= p
    <3> DEFINE f == First(n, k)
               l == Labels(n)
    <3>1. f \in Nat /\ l \in Nat /\ p = f + q /\ q \in 0..Size[kid] - 1 /\ Size[kid] \in Nat
      BY <1>1, <1>2
    <3> HIDE DEF f, l
    <3>2. f - l <= p
      BY <3>1
    <3> QED BY <3>2 DEF f, l
  <2> QED BY <1>1, <1>3, <2>1, SteadyFirst
<1>5. kid \in Tree /\ kid \in Below[n]
  <2>1. kid \in Tree
    BY <1>1, TreeKids
  <2> QED BY <1>1, <2>1, BelowDef
<1>6. Steady(kid, q)
  BY <1>3, SteadyKid
<1>7. Row(n, p) = Row(kid, q)
  BY <1>1, RowsDef
<1>8. PICK x \in Below[n] : x.id = Row(n, p).id /\ gone = Ids(x)
  BY DEF AimedAt
<1>9. \E y \in Below[kid] : y.id = Row(kid, q).id
  <2>1. Row(kid, q).id \in Ids(kid)
    BY <1>1, <1>5, RowIds
  <2> QED BY <2>1 DEF Ids
<1>10. x \in Below[kid]
  <2>1. PICK y \in Below[kid] : y.id = Row(kid, q).id
    BY <1>9
  <2>2. y \in Below[n]
    BY <1>1, <2>1, BelowDef
  <2>3. x = y
    BY <1>7, <1>8, <2>1, <2>2, UniqueIds
  <2> QED BY <2>1, <2>3
<1>11. gone \subseteq Ids(kid)
  BY <1>5, <1>8, <1>10, BelowTrans
<1>12. q < Counted[kid]
  BY <1>1, <1>5, <1>6, SteadyCount
<1>13. q = 0 => gone = Ids(kid)
  <2> SUFFICES ASSUME q = 0 PROVE gone = Ids(kid)
    OBVIOUS
  <2>1. Row(kid, 0).id = kid.id
    <3>1. Row(kid, 0) = RowOf(kid, No, Shown(kid))
      BY <1>5, RowsDef
    <3> QED BY <3>1 DEF RowOf
  <2>2. x.id = kid.id
    BY <1>7, <1>8, <2>1
  <2>3. x = kid
    BY <1>5, <1>8, <2>2, UniqueIds
  <2> QED BY <1>8, <2>3
<1>14. q # 0 => AimedAt(kid, q, gone)
  <2>1. ~Row(kid, q).label
    BY <1>3, <1>7
  <2>2. x.id = Row(kid, q).id
    BY <1>7, <1>8
  <2> QED BY <1>6, <1>8, <1>10, <2>1, <2>2 DEF AimedAt
<1>15. q \in Nat /\ p \in Nat /\ p > 0
  <2> DEFINE f == First(n, k)
             l == Labels(n)
             z == Size[kid]
  <2>1. f \in Nat /\ l \in Nat /\ f > l /\ p = f + q /\ q \in 0..z - 1 /\ z \in Nat
    BY <1>1, <1>2
  <2> HIDE DEF f, l, z
  <2> QED BY <2>1
<1> QED BY <1>1, <1>2, <1>4, <1>11, <1>12, <1>13, <1>14, <1>15

\* and where it is: then it is that of a child, or in one, and beyond the others.
LEMMA CutsHere ==
  ASSUME NEW n \in Tree, WellFormed(n), NEW at \in Nat, NEW p \in 0..Size[n] - 1, NEW gone, AimedAt(n, p, gone)
  PROVE  /\ ~NotEntered(n) /\ at # at + p /\ n.id \notin gone
         /\ \A k \in DOMAIN n.kids :
              \/ at + p = at + CountFirst(n, k) /\ gone = Ids(n.kids[k])
              \/ Cuts(n.kids[k], at + CountFirst(n, k), at + p, gone)
<1>1. ~Row(n, p).label /\ p # 0
  BY DEF AimedAt
<1>2. PICK j, q : Within(n, p, j, q)
  <2>1. ASSUME n.kind = "If", NEW k \in 1..Len(n.kids), p = First(n, k) - 1 PROVE FALSE
    <3>1. Row(n, p) = RowOf(n, Yes, {})
      BY <2>1, RowsDef
    <3>2. Row(n, p).label = Yes
      BY <3>1 DEF RowOf
    <3> QED BY <1>1, <3>2 DEF Yes
  <2> QED BY <1>1, <2>1, RowPlace
<1>3. /\ j \in DOMAIN n.kids /\ q \in 0..Size[n.kids[j]] - 1 /\ q \in Nat /\ p \in Nat /\ p > 0
      /\ ~NotEntered(n) /\ CountFirst(n, j) = First(n, j) /\ First(n, j) \in Nat
      /\ p = First(n, j) + q /\ q < Counted[n.kids[j]]
      /\ gone \subseteq Ids(n.kids[j])
      /\ q = 0 => gone = Ids(n.kids[j])
      /\ q # 0 => AimedAt(n.kids[j], q, gone)
  BY <1>2, AimedWithin
<1>4. Apart(n)
  BY WellFormedDef
<1>5. n.id \notin gone
  BY <1>3, <1>4, ApartDef
<1>6. at # at + p
  BY <1>3
<1>7. DOMAIN n.kids = 1..Len(n.kids) /\ Len(n.kids) \in Nat
  BY TreeKids
<1>9. \/ at + p = at + CountFirst(n, j) /\ gone = Ids(n.kids[j])
      \/ Cuts(n.kids[j], at + CountFirst(n, j), at + p, gone)
  <2>1. CASE q = 0
    <3>1. at + p = at + CountFirst(n, j)
      BY <1>3, <2>1
    <3> QED BY <1>3, <2>1, <3>1
  <2>2. CASE q # 0
    <3>1. at + p = (at + CountFirst(n, j)) + q
      BY <1>3
    <3> QED BY <1>3, <2>2, <3>1 DEF Cuts
  <2> QED BY <2>1, <2>2
<1>10. ASSUME NEW k \in DOMAIN n.kids, k # j PROVE Cuts(n.kids[k], at + CountFirst(n, k), at + p, gone)
  <2> DEFINE f == CountFirst(n, k)
             z == Counted[n.kids[k]]
             g == CountFirst(n, j)
             y == Counted[n.kids[j]]
             l == Labels(n)
  <2>1. f \in Nat /\ z \in Nat /\ g \in Nat /\ y \in Nat /\ l \in Nat /\ p = g + q /\ q \in Nat /\ q < y /\ p \in Nat
    <3>1. k \in 1..Len(n.kids) /\ j \in 1..Len(n.kids)
      BY <1>3, <1>7
    <3>2. l \in Nat
      BY LabelsType
    <3> QED BY <1>3, <3>1, <3>2, CountFirstDef
  <2>2. f + z + l <= g \/ g + y + l <= f
    <3>1. k \in 1..Len(n.kids) /\ j \in 1..Len(n.kids) /\ (j \in k + 1..Len(n.kids) \/ k \in j + 1..Len(n.kids))
      BY <1>3, <1>7, <1>10
    <3> QED BY <1>3, <3>1, CountFirstDef
  <2> HIDE DEF f, z, g, y, l
  <2>3. at + p < at + f \/ (at + f) + z <= at + p
    BY <2>1, <2>2
  <2>4. Beyond(n.kids[k], at + f, at + p)
    BY <2>3 DEF Beyond, z
  <2>5. gone \intersect Ids(n.kids[k]) = {}
    BY <1>3, <1>4, <1>10, ApartDef
  <2> QED BY <2>4, <2>5 DEF Cuts, f
<1> QED BY <1>3, <1>5, <1>6, <1>9, <1>10

\* Nothing is left of the plan of a node that is gone.
LEMMA GonePlan ==
  ASSUME NEW n \in Tree, NEW u \in Paths
  PROVE  Spared(Plan[n][u], Ids(n)) = <<>>
<1>1. Ids(n) \in SUBSET Nat /\ Plan[n][u] \in Seq(Entries(Ids(n))) /\ Ids(n) \subseteq Ids(n)
  BY BelowType, PlanType
<1> QED BY <1>1, SparedAlike

LEMMA StayPlan ==
  ASSUME NEW n \in Tree, NEW u \in Paths, NEW gone, gone \intersect Ids(n) = {}
  PROVE  Spared(Plan[n][u], gone) = Plan[n][u]
<1>1. Ids(n) \in SUBSET Nat /\ Plan[n][u] \in Seq(Entries(Ids(n)))
  BY BelowType, PlanType
<1> QED BY <1>1, SparedAlike

LEMMA SparesOne ==
  ASSUME NEW n, NEW m \in Tree, NEW gone, \A u \in Paths : Plan[m][u] = Spared(Plan[n][u], gone)
  PROVE  <<m>> # <<>> /\ Spares(<<m>>, n, gone)
<1>1. <<m>> # <<>> /\ <<m>>[1] = m
  OBVIOUS
<1>2. Gap(<<m>>)
  BY DEF Gap
<1> QED BY <1>1, <1>2 DEF Spares, PlanOf

\* Deleting a node takes away the plan under it and no more.
LEMMA DeletedPlan ==
  ASSUME NEW pos \in Nat, NEW gone
  PROVE  \A n \in Tree : \A d \in Nat :
           d <= MaxHeight /\ n \in TreesTo[d] /\ WellFormed(n) /\ n.kind \notin Conditions =>
             \A at \in Nat : Cuts(n, at, pos, gone) =>
               Deleting(pos)[n][at] # <<>> /\ Spares(Deleting(pos)[n][at], n, gone)
<1> DEFINE U == Deleting(pos)
           S == {n \in Tree : \A d \in Nat :
                   d <= MaxHeight /\ n \in TreesTo[d] /\ WellFormed(n) /\ n.kind \notin Conditions =>
                     \A at \in Nat : Cuts(n, at, pos, gone) => U[n][at] # <<>> /\ Spares(U[n][at], n, gone)}
<1>1. ASSUME NEW n \in Tree, \A k \in DOMAIN n.kids : n.kids[k] \in S PROVE n \in S
  <2> SUFFICES ASSUME NEW d \in Nat, d <= MaxHeight, n \in TreesTo[d], WellFormed(n), n.kind \notin Conditions,
                      NEW at \in Nat, Cuts(n, at, pos, gone)
               PROVE  U[n][at] # <<>> /\ Spares(U[n][at], n, gone)
    OBVIOUS
  <2>1. CASE NotEntered(n)
    <3>1. Beyond(n, at, pos) /\ gone \intersect Ids(n) = {}
      <4>1. ~\E p \in 0..Size[n] - 1 : AimedAt(n, p, gone)
        BY <2>1, CutsHere
      <4> QED BY <4>1 DEF Cuts
    <3>2. at # pos
      BY <3>1, CountedType DEF Beyond
    <3>3. U[n][at] = <<n>>
      BY <2>1, <3>2, DeletingDef
    <3>4. \A u \in Paths : Plan[n][u] = Spared(Plan[n][u], gone)
      BY <3>1, StayPlan
    <3> QED BY <3>3, <3>4, SparesOne
  <2>2. CASE ~NotEntered(n)
    <3> DEFINE left == KidsLeft(n, at, pos)
               Aims(k) == \/ pos = at + CountFirst(n, k) /\ gone = Ids(n.kids[k])
                          \/ Cuts(n.kids[k], at + CountFirst(n, k), pos, gone)
    <3>1. at # pos /\ n.id \notin gone /\ \A k \in DOMAIN n.kids : Aims(k)
      <4>1. CASE Beyond(n, at, pos) /\ gone \intersect Ids(n) = {}
        BY <2>2, <4>1, CutsBeyond
      <4>2. ASSUME NEW p \in 0..Size[n] - 1, pos = at + p, AimedAt(n, p, gone)
            PROVE  at # pos /\ n.id \notin gone /\ \A k \in DOMAIN n.kids : Aims(k)
        BY <4>2, CutsHere
      <4> QED BY <4>1, <4>2 DEF Cuts
    <3>2. PICK c \in Nat : d = c + 1
      <4>1. d > 0
        BY TreeParts
      <4>2. d - 1 \in Nat /\ d = (d - 1) + 1
        BY <4>1
      <4> QED BY <4>2
    <3>3. c + 1 <= MaxHeight /\ n \in TreesTo[c + 1] /\ c <= MaxHeight
      BY <3>2, MaxHeightAssumption
    <3>4. \A k \in DOMAIN n.kids : /\ n.kids[k] \in TreesTo[c] /\ n.kids[k] \in Tree /\ WellFormed(n.kids[k])
                                   /\ n.kids[k].kind \notin Conditions
      BY <3>3, KidsTo
    <3>5. left = [k \in DOMAIN n.kids |-> left[k]]
      BY DEF KidsLeft
    <3>6. \A k \in DOMAIN n.kids : /\ left[k] = U[n.kids[k]][at + CountFirst(n, k)]
                                   /\ at + CountFirst(n, k) \in Nat
      BY <2>2, KidsLeftDef
    <3>7. U[n][at] = <<Rebuilt(n, left)>>
      BY <2>2, <3>1, DeletingDef
    <3>8. \A k \in DOMAIN n.kids : Left(left[k], n.kids[k], c)
      BY <3>3, <3>4, <3>6, DeletingKept
    <3>9. ASSUME NEW k \in DOMAIN n.kids PROVE Spares(left[k], n.kids[k], gone)
      <4>1. CASE pos = at + CountFirst(n, k) /\ gone = Ids(n.kids[k])
        <5>1. left[k] = <<>>
          BY <3>4, <3>6, <4>1, DeletingDef
        <5>2. \A u \in Paths : Spared(Plan[n.kids[k]][u], gone) = <<>>
          BY <3>4, <4>1, GonePlan
        <5> QED BY <5>1, <5>2 DEF Spares, Gap, PlanOf
      <4>2. CASE Cuts(n.kids[k], at + CountFirst(n, k), pos, gone)
        <5> HIDE DEF left, U
        <5> QED BY <1>1, <3>3, <3>4, <3>6, <4>2
      <4> QED BY <3>1, <4>1, <4>2
    <3> HIDE DEF left, Aims
    <3>10. Rebuilt(n, left) \in Tree
      <4>1. Kept(Rebuilt(n, left), n, {}, c + 1, 0)
        BY <3>3, <3>5, <3>8, RebuiltKept
      <4> QED BY <4>1 DEF Kept
    <3>11. left \in Seq(Seq(Tree))
      <4> DEFINE W == Seq(Tree)
      <4>1. \A k \in 1..Len(n.kids) : left[k] \in W
        <5>1. DOMAIN n.kids = 1..Len(n.kids)
          BY TreeKids
        <5>2. \A k \in DOMAIN n.kids : Gap(left[k])
          BY <3>9 DEF Spares
        <5>3. \A o : Gap(o) => o \in Seq(Tree)
          <6>1. <<>> \in Seq(Tree) /\ \A m \in Tree : <<m>> \in Seq(Tree)
            OBVIOUS
          <6> QED BY <6>1 DEF Gap
        <5> QED BY <5>1, <5>2, <5>3
      <4> HIDE DEF W
      <4>2. left \in Seq(W)
        BY <3>5, <4>1, KidsSeq
      <4> QED BY <4>2 DEF W
    <3>12. \A k \in DOMAIN n.kids : Body(n, left, k) \in Tree
      <4> SUFFICES ASSUME NEW k \in DOMAIN n.kids PROVE Body(n, left, k) \in Tree
        OBVIOUS
      <4>1. Kept(Body(n, left, k), n.kids[k], {}, c, 0)
        BY <3>3, <3>4, <3>8, BodyKept
      <4> QED BY <4>1 DEF Kept
    <3>13. \A k \in DOMAIN n.kids : Spares(left[k], n.kids[k], gone)
      BY <3>9
    <3>14. \A u \in Paths : Plan[Rebuilt(n, left)][u] = Spared(Plan[n][u], gone)
      BY <3>1, <3>5, <3>10, <3>11, <3>12, <3>13, RebuiltPlan
    <3> QED BY <3>7, <3>10, <3>14, SparesOne
  <2> QED BY <2>1, <2>2
<1>2. Tree \subseteq S
  <2> HIDE DEF S
  <2> QED BY <1>1, TreeInduction
<1> QED BY <1>2

\* The names under a node.
LEMMA UnderDef ==
  ASSUME NEW n \in Tree, WellFormed(n), NEW x \in Below[n]
  PROVE  Under(n, x.id) = Ids(x)
<1>1. {m \in Below[n] : m.id = x.id} = {x}
  BY UniqueIds
<1>2. {Ids(m) : m \in {x}} = {Ids(x)}
  OBVIOUS
<1> QED BY <1>1, <1>2 DEF Under

(* DeleteSparesTheRest: delete_workflow_rec takes away the actions under the *)
(* node of the row and leaves the others in their order, under the same      *)
(* loops and branches, although it dissolves groups wherever it rebuilds a   *)
(* node.                                                                     *)
THEOREM DeletesSpare == Spec => []DeleteSparesTheRest
<1>1. Inv => DeleteSparesTheRest
  <2> DEFINE w == workflow
             rows == flatten_workflow(w)
             d == Levels(edits)
  <2> SUFFICES ASSUME Inv, NEW p \in Stable(w, rows), ~rows[p].label
               PROVE  Planned(delete_workflow_at(w, p)) = Spared(Planned(w), Under(w, rows[p].id))
    BY DEF DeleteSparesTheRest
  <2>1. edits \in 0..MaxEdits /\ Edited(w, edits) /\ IsWorkflow(w)
    BY DEF Inv
  <2>2. w \in Tree /\ w \in TreesTo[d] /\ WellFormed(w) /\ d \in Nat /\ 2 <= d /\ d + 1 <= MaxHeight /\ d <= MaxHeight
    BY <2>1, Editable
  <2>3. w.kind \notin Conditions
    BY <2>1, <2>2, KindsApart
  <2>4. DOMAIN rows = 0..Size[w] - 1 /\ \A q \in 0..Size[w] - 1 : rows[q] = Row(w, q)
    BY <2>2, RowsAt DEF flatten_workflow
  <2>5. Size[w] \in Nat /\ Size[w] > 0
    BY <2>2, SizeType
  <2>6. <<>> \in Paths
    BY DEF Paths
  <2> HIDE DEF w, rows, d
  <2>7. p \in 0..Size[w] - 1 /\ \A q \in 0..p - 1 : rows[q].id \notin Loops(w)
    BY <2>4 DEF Stable
  <2>8. p \in Nat /\ rows[p] = Row(w, p) /\ 0 + p = p /\ 0 \in Nat
    BY <2>4, <2>5, <2>7
  <2> DEFINE id == Row(w, p).id
  <2>9. PICK x \in Below[w] : x.id = id
    <3>1. id \in Ids(w)
      BY <2>2, <2>7, RowIds
    <3> QED BY <3>1 DEF Ids
  <2>10. Under(w, id) = Ids(x)
    BY <2>2, <2>9, UnderDef
  <2>11. CASE p = 0
    <3>1. id = w.id
      <4>1. Row(w, 0) = RowOf(w, No, Shown(w))
        BY <2>2, RowsDef
      <4> QED BY <2>11, <4>1 DEF RowOf
    <3>2. w \in Below[w]
      BY <2>2, BelowDef
    <3>3. x = w
      BY <2>2, <2>9, <3>1, <3>2, UniqueIds
    <3>4. Spared(Plan[w][<<>>], Ids(w)) = <<>>
      BY <2>2, <2>6, GonePlan
    <3>5. Deleting(p)[w][0] = <<>>
      BY <2>2, <2>8, <2>11, DeletingDef
    <3> DEFINE e == EmptyBody(w)
    <3>6. delete_workflow_at(w, p) = e
      BY <3>5 DEF delete_workflow_at, OrElse
    <3>7. e \in Tree /\ e.kind = "Seq" /\ e.kids = <<>>
      <4>1. e = Rec("Seq", w.id, w.id, <<>>)
        BY DEF EmptyBody, Node, Rec
      <4>2. "Seq" \in Conditions <=> w.kind \in Conditions
        BY <2>3 DEF Conditions
      <4>3. w.id \in Nat
        BY <2>2, TreeKids
      <4>4. Kept(Rec("Seq", w.id, w.id, <<>>), w, {}, d, 0)
        BY <2>2, <4>2, <4>3, BareKept
      <4> QED BY <4>1, <4>4, RecFields DEF Kept
    <3>8. Plan[e][<<>>] = <<>>
      <4>1. e.kind \notin Leaves
        BY <3>7 DEF Leaves
      <4> HIDE DEF e
      <4> QED BY <2>6, <3>7, <4>1, BarePlan
    <3> QED BY <2>8, <2>10, <3>3, <3>4, <3>6, <3>8 DEF Planned
  <2>12. CASE p # 0
    <3>1. Steady(w, p)
      <4> SUFFICES ASSUME NEW q \in 0..p - 1 PROVE Row(w, q).id \notin Loops(w)
        BY DEF Steady
      <4>1. q \in 0..Size[w] - 1
        BY <2>5, <2>7
      <4> QED BY <2>4, <2>7, <4>1
    <3>2. AimedAt(w, p, Ids(x))
      BY <2>8, <2>9, <2>12, <3>1 DEF AimedAt
    <3>3. Cuts(w, 0, p, Ids(x))
      BY <2>7, <2>8, <3>2 DEF Cuts
    <3> DEFINE o == Deleting(p)[w][0]
    <3>4. o # <<>> /\ Spares(o, w, Ids(x))
      BY <2>2, <2>3, <2>8, <3>3, DeletedPlan
    <3>5. delete_workflow_at(w, p) = o[1]
      BY <3>4 DEF delete_workflow_at, OrElse
    <3> HIDE DEF o
    <3>6. Plan[o[1]][<<>>] = Spared(Plan[w][<<>>], Ids(x))
      BY <2>6, <3>4 DEF Spares, PlanOf
    <3> QED BY <2>8, <2>10, <3>5, <3>6 DEF Planned
  <2> QED BY <2>11, <2>12
<1> QED BY <1>1, InvHolds, PTL

=============================================================================
