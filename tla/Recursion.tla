----------------------------- MODULE Recursion -----------------------------
(***************************************************************************)
(* A definition by recursion means what its equation says once there is a  *)
(* function that satisfies the equation.  Proved here once for a step that *)
(* is a parameter of the module: the other modules instantiate it with one *)
(* level of their own recursions.  Step(p, x, below) is the value at x,    *)
(* from the values below x; p are the parameters of the recursion.         *)
(* Induction is by the least counterexample: WFMin of the library, which   *)
(* takes a set where the induction theorems take a predicate.              *)
(***************************************************************************)
EXTENDS Integers, WellFoundedInduction, TLAPS

CONSTANT Step(_, _, _)

\* Over trees: x.args are the trees below x.
IsRecursive(f, p, T) ==
    f = [x \in T |-> Step(p, x, [i \in DOMAIN x.args |-> f[x.args[i]]])]

\* Along 0..n.
IsIterated(f, p, n) == f = [k \in 0..n |-> IF k = 0 THEN <<>> ELSE Step(p, k, f[k - 1])]

\* The arguments of a tree are trees of less depth.
IsRanked(T, depth) ==
    /\ depth \in [T -> Nat]
    /\ \A x \in T : \A i \in DOMAIN x.args : x.args[i] \in T /\ depth[x.args[i]] < depth[x]

-----------------------------------------------------------------------------
\* Every nonempty set of naturals has a least element.
LEMMA LeastNatural ==
    ASSUME NEW S, S \subseteq Nat, S # {}
    PROVE  \E n \in S : \A m \in S : n <= m
<1> DEFINE R == {ss \in Nat \X Nat : ss[1] < ss[2]}
<1>1. IsWellFoundedOn(R, Nat)
  BY NatLessThanWellFounded DEF OpToRel
<1>2. \A m, n \in Nat : m < n => <<m, n>> \in R
  OBVIOUS
<1> HIDE DEF R
<1>3. PICK n \in S : \A m \in S : ~(<<m, n>> \in R)
  BY <1>1, WFMin
<1>4. ASSUME NEW m \in S PROVE n <= m
  <2>1. m \in Nat /\ n \in Nat
    OBVIOUS
  <2>2. ~(m < n)
    BY <1>2, <1>3, <2>1
  <2> QED BY <2>1, <2>2
<1> QED BY <1>4

\* A nonempty set of trees has one no deeper than the others.
LEMMA ShallowestTree ==
    ASSUME NEW T, NEW depth, depth \in [T -> Nat], NEW S, S \subseteq T, S # {}
    PROVE  \E x \in S : \A y \in S : depth[x] <= depth[y]
<1> DEFINE D == {depth[x] : x \in S}
<1>1. D \subseteq Nat /\ D # {}
  OBVIOUS
<1> HIDE DEF D
<1>2. PICK n \in D : \A m \in D : n <= m
  BY <1>1, LeastNatural
<1>3. PICK x \in S : depth[x] = n
  BY <1>2 DEF D
<1> QED BY <1>2, <1>3 DEF D

-----------------------------------------------------------------------------
(* Recursion over trees: the trees of depth less than n first.             *)

Below(T, depth, n) == {x \in T : depth[x] < n}

IsPartial(g, p, T, depth, n) ==
    g = [x \in Below(T, depth, n) |-> Step(p, x, [i \in DOMAIN x.args |-> g[x.args[i]]])]

\* A partial function satisfies the equation at each tree it is defined at.
LEMMA PartialValue ==
    ASSUME NEW p, NEW T, NEW depth, IsRanked(T, depth), NEW n \in Nat, NEW g,
           IsPartial(g, p, T, depth, n), NEW x \in T, depth[x] < n
    PROVE  /\ g[x] = Step(p, x, [i \in DOMAIN x.args |-> g[x.args[i]]])
           /\ \A i \in DOMAIN x.args : x.args[i] \in T /\ depth[x.args[i]] < n
<1>1. x \in Below(T, depth, n)
  BY DEF Below
<1>2. g[x] = Step(p, x, [i \in DOMAIN x.args |-> g[x.args[i]]])
  BY <1>1, Zenon DEF IsPartial
<1>3. ASSUME NEW i \in DOMAIN x.args PROVE x.args[i] \in T /\ depth[x.args[i]] < n
  BY DEF IsRanked
<1> QED BY <1>2, <1>3

\* Two partial functions agree where both are defined.
LEMMA PartialUnique ==
    ASSUME NEW p, NEW T, NEW depth, IsRanked(T, depth),
           NEW m \in Nat, NEW g, IsPartial(g, p, T, depth, m),
           NEW n \in Nat, NEW h, IsPartial(h, p, T, depth, n)
    PROVE  \A x \in T : depth[x] < m /\ depth[x] < n => g[x] = h[x]
<1> DEFINE Bad == {x \in T : depth[x] < m /\ depth[x] < n /\ g[x] # h[x]}
<1> SUFFICES ASSUME Bad # {} PROVE FALSE
  OBVIOUS
<1>1. PICK x \in Bad : \A y \in Bad : depth[x] <= depth[y]
  <2>1. Bad \subseteq T
    OBVIOUS
  <2> HIDE DEF Bad
  <2> QED BY <2>1, ShallowestTree DEF IsRanked
<1>2. x \in T /\ depth[x] < m /\ depth[x] < n /\ g[x] # h[x] /\ depth[x] \in Nat
  BY <1>1 DEF IsRanked
<1>3. /\ g[x] = Step(p, x, [i \in DOMAIN x.args |-> g[x.args[i]]])
      /\ h[x] = Step(p, x, [i \in DOMAIN x.args |-> h[x.args[i]]])
  <2>1. x \in Below(T, depth, m) /\ x \in Below(T, depth, n)
    BY <1>2 DEF Below
  <2>2. g[x] = Step(p, x, [i \in DOMAIN x.args |-> g[x.args[i]]])
    BY <2>1, Zenon DEF IsPartial
  <2>3. h[x] = Step(p, x, [i \in DOMAIN x.args |-> h[x.args[i]]])
    BY <2>1, Zenon DEF IsPartial
  <2> QED BY <2>2, <2>3, Zenon
<1>4. ASSUME NEW i \in DOMAIN x.args PROVE g[x.args[i]] = h[x.args[i]]
  <2>1. x.args[i] \in T /\ depth[x.args[i]] < depth[x] /\ depth[x.args[i]] \in Nat
    BY <1>2 DEF IsRanked
  <2>2. depth[x.args[i]] < m /\ depth[x.args[i]] < n
    BY <1>2, <2>1
  <2>3. x.args[i] \notin Bad
    BY <1>1, <1>2, <2>1
  <2> QED BY <2>1, <2>2, <2>3
<1>5. [i \in DOMAIN x.args |-> g[x.args[i]]] = [i \in DOMAIN x.args |-> h[x.args[i]]]
  BY <1>4, Zenon
<1> QED BY <1>2, <1>3, <1>5, Zenon

\* There is a partial function for each depth.
LEMMA PartialExists ==
    ASSUME NEW p, NEW T, NEW depth, IsRanked(T, depth)
    PROVE  \A n \in Nat : \E g : IsPartial(g, p, T, depth, n)
<1> DEFINE Bad == {n \in Nat : ~\E g : IsPartial(g, p, T, depth, n)}
<1> SUFFICES ASSUME Bad # {} PROVE FALSE
  OBVIOUS
<1>1. PICK n \in Bad : \A m \in Bad : n <= m
  <2>1. Bad \subseteq Nat
    OBVIOUS
  <2> HIDE DEF Bad
  <2> QED BY <2>1, LeastNatural
<1>2. n \in Nat /\ ~\E g : IsPartial(g, p, T, depth, n)
  BY <1>1
<1>3. CASE n = 0
  <2> DEFINE g == [x \in {} |-> x]
  <2>1. Below(T, depth, 0) = {}
    BY DEF Below, IsRanked
  <2>2. g = [x \in {} |-> Step(p, x, [i \in DOMAIN x.args |-> g[x.args[i]]])]
    BY Zenon
  <2>3. IsPartial(g, p, T, depth, n)
    BY <1>3, <2>1, <2>2, Zenon DEF IsPartial
  <2> QED BY <1>2, <2>3
<1>4. CASE n # 0
  <2>1. n - 1 \in Nat /\ n - 1 \notin Bad
    BY <1>1, <1>2, <1>4
  <2>2. PICK g : IsPartial(g, p, T, depth, n - 1)
    BY <2>1
  <2> DEFINE h == [x \in Below(T, depth, n) |-> Step(p, x, [i \in DOMAIN x.args |-> g[x.args[i]]])]
  <2>3. ASSUME NEW x \in Below(T, depth, n - 1) PROVE h[x] = g[x]
    <3>1. x \in T /\ depth[x] < n - 1 /\ depth[x] \in Nat
      BY DEF Below, IsRanked
    <3>2. x \in Below(T, depth, n)
      BY <1>2, <3>1 DEF Below
    <3>3. g[x] = Step(p, x, [i \in DOMAIN x.args |-> g[x.args[i]]])
      BY <2>1, <2>2, <3>1, PartialValue
    <3> QED BY <3>2, <3>3, Zenon
  <2>4. ASSUME NEW x \in Below(T, depth, n), NEW i \in DOMAIN x.args
        PROVE  x.args[i] \in Below(T, depth, n - 1)
    <3>1. x \in T /\ depth[x] < n /\ depth[x] \in Nat
      BY DEF Below, IsRanked
    <3>2. x.args[i] \in T /\ depth[x.args[i]] < depth[x] /\ depth[x.args[i]] \in Nat
      BY <3>1 DEF IsRanked
    <3> QED BY <1>2, <3>1, <3>2 DEF Below
  <2> HIDE DEF h
  <2>5. ASSUME NEW x \in Below(T, depth, n)
        PROVE  [i \in DOMAIN x.args |-> g[x.args[i]]] = [i \in DOMAIN x.args |-> h[x.args[i]]]
    BY <2>3, <2>4, Zenon
  <2>6. h = [x \in Below(T, depth, n) |-> Step(p, x, [i \in DOMAIN x.args |-> h[x.args[i]]])]
    BY <2>5, Zenon DEF h
  <2>7. IsPartial(h, p, T, depth, n)
    BY <2>6, Zenon DEF IsPartial
  <2> QED BY <1>2, <2>7
<1> QED BY <1>3, <1>4

\* There is a function that satisfies the equation of a recursion over trees.
THEOREM RecursionExists ==
    ASSUME NEW p, NEW T, NEW depth, IsRanked(T, depth)
    PROVE  \E f : IsRecursive(f, p, T)
<1> DEFINE part(n) == CHOOSE g : IsPartial(g, p, T, depth, n)
           f == [x \in T |-> part(depth[x] + 1)[x]]
<1>1. \A n \in Nat : IsPartial(part(n), p, T, depth, n)
  BY PartialExists, Zenon
<1>2. \A x \in T : f[x] = part(depth[x] + 1)[x]
  BY Zenon
<1>3. f = [x \in T |-> f[x]]
  OBVIOUS
<1> HIDE DEF part, f
<1>4. ASSUME NEW x \in T
      PROVE  f[x] = Step(p, x, [i \in DOMAIN x.args |-> f[x.args[i]]])
  <2>1. PICK k \in Nat : k = depth[x] + 1 /\ depth[x] \in Nat /\ depth[x] < k
    BY DEF IsRanked
  <2>2. PICK g : g = part(k) /\ IsPartial(g, p, T, depth, k)
    BY <1>1, <2>1, Zenon
  <2>3. g[x] = Step(p, x, [i \in DOMAIN x.args |-> g[x.args[i]]])
    <3>1. depth[x] < k /\ IsPartial(g, p, T, depth, k)
      BY <2>1, <2>2
    <3> QED BY ONLY <3>1, IsRanked(T, depth), k \in Nat, x \in T, PartialValue
  <2>4. ASSUME NEW i \in DOMAIN x.args PROVE f[x.args[i]] = g[x.args[i]]
    <3>1. PICK y \in T : y = x.args[i] /\ depth[y] \in Nat /\ depth[y] < depth[x]
      BY DEF IsRanked
    <3>2. PICK m \in Nat : m = depth[y] + 1 /\ depth[y] < m /\ depth[y] < k
      BY <2>1, <3>1
    <3>3. PICK h : h = part(m) /\ IsPartial(h, p, T, depth, m)
      BY <1>1, <3>2, Zenon
    <3>4. h[y] = g[y]
      BY <2>2, <3>2, <3>3, PartialUnique
    <3>5. f[y] = h[y]
      BY <1>2, <3>2, <3>3, Zenon
    <3> QED BY <3>1, <3>4, <3>5, Zenon
  <2>5. [i \in DOMAIN x.args |-> f[x.args[i]]] = [i \in DOMAIN x.args |-> g[x.args[i]]]
    BY <2>4, Zenon
  <2>6. f[x] = g[x]
    BY <1>2, <2>1, <2>2, Zenon
  <2> QED BY <2>3, <2>5, <2>6, Zenon
<1>5. f = [x \in T |-> Step(p, x, [i \in DOMAIN x.args |-> f[x.args[i]]])]
  BY <1>3, <1>4, Zenon
<1> QED BY <1>5, Zenon DEF IsRecursive

-----------------------------------------------------------------------------
(* Iteration along 0..n.                                                   *)

\* There is a function that satisfies the equation of an iteration.
THEOREM IterationExists ==
    ASSUME NEW p
    PROVE  \A n \in Nat : \E f : IsIterated(f, p, n)
<1> DEFINE Bad == {n \in Nat : ~\E f : IsIterated(f, p, n)}
<1> SUFFICES ASSUME Bad # {} PROVE FALSE
  OBVIOUS
<1>1. PICK n \in Bad : \A m \in Bad : n <= m
  <2>1. Bad \subseteq Nat
    OBVIOUS
  <2> HIDE DEF Bad
  <2> QED BY <2>1, LeastNatural
<1>2. n \in Nat /\ ~\E f : IsIterated(f, p, n)
  BY <1>1
<1>3. CASE n = 0
  <2> DEFINE f == [k \in 0..0 |-> <<>>]
  <2>1. \A k \in 0..0 : (IF k = 0 THEN <<>> ELSE Step(p, k, f[k - 1])) = <<>>
    OBVIOUS
  <2>2. f = [k \in 0..0 |-> IF k = 0 THEN <<>> ELSE Step(p, k, f[k - 1])]
    BY <2>1, Zenon
  <2>3. IsIterated(f, p, 0)
    BY <2>2, Zenon DEF IsIterated
  <2> QED BY <1>2, <1>3, <2>3
<1>4. CASE n # 0
  <2>1. n - 1 \in Nat /\ n - 1 \notin Bad
    BY <1>1, <1>2, <1>4
  <2>2. PICK g : IsIterated(g, p, n - 1)
    BY <2>1
  <2>3. \A k \in 0..(n - 1) : g[k] = IF k = 0 THEN <<>> ELSE Step(p, k, g[k - 1])
    BY <2>2, Zenon DEF IsIterated
  <2> DEFINE f == [k \in 0..n |-> IF k = 0 THEN <<>> ELSE Step(p, k, g[k - 1])]
  <2>4. ASSUME NEW k \in 0..(n - 1) PROVE f[k] = g[k]
    <3>1. k \in 0..n
      BY <1>2
    <3>2. f[k] = IF k = 0 THEN <<>> ELSE Step(p, k, g[k - 1])
      BY <3>1, Zenon
    <3> QED BY <2>3, <3>2, Zenon
  <2> HIDE DEF f
  <2>5. ASSUME NEW k \in 0..n
        PROVE  (IF k = 0 THEN <<>> ELSE Step(p, k, g[k - 1]))
                 = (IF k = 0 THEN <<>> ELSE Step(p, k, f[k - 1]))
    <3>1. CASE k = 0
      BY <3>1, Zenon
    <3>2. CASE k # 0
      <4>1. k - 1 \in 0..(n - 1)
        BY <1>2, <3>2
      <4> QED BY <2>4, <4>1, Zenon
    <3> QED BY <3>1, <3>2
  <2>6. f = [k \in 0..n |-> IF k = 0 THEN <<>> ELSE Step(p, k, f[k - 1])]
    BY <2>5, Zenon DEF f
  <2>7. IsIterated(f, p, n)
    BY <2>6, Zenon DEF IsIterated
  <2> QED BY <1>2, <2>7
<1> QED BY <1>3, <1>4
=============================================================================
