-------------------------- MODULE PatchApplyProofs --------------------------
(***************************************************************************)
(* Proofs about the walk over a chain of patches: what it writes, frees    *)
(* and deletes, for any number of patches and addresses, any ranges, and   *)
(* whatever earlier walks have left in the links of the interval tree.     *)
(*                                                                         *)
(* The tree the walk builds is not balanced and never rebuilt, so its      *)
(* shape is a function of the patches in it, their ranges and the order    *)
(* they came in (TreeOf).  From this follow what the search answers, which *)
(* nodes an insertion passes, and that the two passes of a sweep, which    *)
(* have the same patches in the tree whenever they come to the same patch, *)
(* decide alike.  Recursion along the links of the tree is over data the   *)
(* code never clears: that it comes to an end where a walk follows it is   *)
(* shown, that it does elsewhere is not needed (FollowExists).             *)
(***************************************************************************)
EXTENDS PatchApply, FiniteSetTheorems, WellFoundedInduction, TLAPS

-----------------------------------------------------------------------------
(* Following links.                                                        *)

\* X is closed under going back to m along step, from where the search goes on.
Leads(S, Hit, step, m, X) ==
  m \in X /\ \A n \in S \ Hit : step[n] \in X => n \in X

\* The nodes from which following step ends in m.
Ends(S, Hit, step, m) ==
  {n \in S : \A X \in SUBSET S : Leads(S, Hit, step, m, X) => n \in X}

\* m ends in itself; another node ends where the next one does.
LEMMA EndsStep ==
  ASSUME NEW S, NEW Hit \in SUBSET S, NEW step \in [S -> S], NEW m \in Hit
  PROVE  /\ m \in Ends(S, Hit, step, m)
         /\ \A n \in S \ Hit : n \in Ends(S, Hit, step, m) <=> step[n] \in Ends(S, Hit, step, m)
         /\ \A n \in Hit : n \in Ends(S, Hit, step, m) => n = m
<1> DEFINE E == Ends(S, Hit, step, m)
<1>1. m \in E
  BY DEF Ends, Leads
<1>2. ASSUME NEW n \in S \ Hit, step[n] \in E PROVE n \in E
  BY <1>2 DEF Ends, Leads
<1>3. ASSUME NEW n \in S \ Hit, n \in E PROVE step[n] \in E
  <2> SUFFICES ASSUME step[n] \notin E PROVE FALSE
    OBVIOUS
  <2>1. E \subseteq S
    BY DEF Ends
  <2> HIDE DEF E
  <2>2. E \ {n} \in SUBSET S /\ m \in E \ {n}
    BY <1>1, <2>1
  <2>3. Leads(S, Hit, step, m, E \ {n})
    BY <1>2, <2>2 DEF Leads
  <2>4. n \in E \ {n}
    BY <1>3, <2>2, <2>3 DEF E, Ends
  <2> QED
    BY <2>4
<1>4. ASSUME NEW n \in Hit, n \in E PROVE n = m
  <2> DEFINE X == {k \in S : k \notin Hit \/ k = m}
  <2>1. X \in SUBSET S /\ Leads(S, Hit, step, m, X)
    BY DEF Leads
  <2>2. n \in X
    <3> HIDE DEF X
    <3> QED
      BY <1>4, <2>1 DEF Ends
  <2> QED
    BY <2>2
<1> QED
  BY <1>1, <1>2, <1>3, <1>4

\* No node leads to two.
LEMMA EndsUnique ==
  ASSUME NEW S, NEW Hit \in SUBSET S, NEW step \in [S -> S], NEW m \in Hit, NEW k \in Hit,
         NEW n, n \in Ends(S, Hit, step, m), n \in Ends(S, Hit, step, k)
  PROVE  m = k
<1> SUFFICES ASSUME m # k PROVE FALSE
  OBVIOUS
<1> DEFINE M == Ends(S, Hit, step, m)
           K == Ends(S, Hit, step, k)
<1>1. /\ m \in M /\ \A i \in S \ Hit : i \in M <=> step[i] \in M
      /\ \A i \in Hit : i \in M => i = m
  BY EndsStep
<1>2. /\ k \in K /\ \A i \in S \ Hit : i \in K <=> step[i] \in K
      /\ \A i \in Hit : i \in K => i = k
  BY EndsStep
<1>3. M \subseteq S
  BY DEF Ends
<1>4. n \in M /\ n \in K
  OBVIOUS
<1>5. \A X \in SUBSET S : Leads(S, Hit, step, m, X) => n \in X
  BY DEF Ends
<1> HIDE DEF M, K
<1>6. M \ K \in SUBSET S /\ Leads(S, Hit, step, m, M \ K)
  BY <1>1, <1>2, <1>3 DEF Leads
<1>7. n \in M \ K
  BY <1>5, <1>6
<1> QED
  BY <1>4, <1>7

\* s takes a node to where following step from it hits.
FollowOf(S, Hit, step, s) ==
  s \in [S -> S] /\ \A n \in S : s[n] = IF n \in Hit THEN n ELSE s[step[n]]

\* A recursive function that follows step until it hits exists, whatever the links are.
LEMMA FollowExists ==
  ASSUME NEW S, NEW Hit \in SUBSET S, NEW step \in [S -> S], NEW z \in S
  PROVE  \E s : FollowOf(S, Hit, step, s)
<1> DEFINE E(m) == Ends(S, Hit, step, m)
           W(n) == CHOOSE m \in Hit : n \in E(m)
           s == [n \in S |-> IF \E m \in Hit : n \in E(m) THEN W(n) ELSE z]
<1>1. ASSUME NEW m \in Hit, NEW n \in S, n \in E(m) PROVE s[n] = m
  <2>1. W(n) \in Hit /\ n \in E(W(n))
    BY <1>1
  <2>2. W(n) = m
    <3>1. PICK k : k = W(n)
      OBVIOUS
    <3>2. k \in Hit /\ n \in E(k)
      BY <2>1, <3>1
    <3> HIDE DEF W
    <3>3. m = k
      BY <1>1, <3>2, EndsUnique
    <3> QED
      BY <3>1, <3>3
  <2> QED
    BY <1>1, <2>2
<1>2. ASSUME NEW n \in S, ~ \E m \in Hit : n \in E(m) PROVE s[n] = z
  BY <1>2
<1>3. s \in [S -> S]
  <2> SUFFICES ASSUME NEW n \in S PROVE s[n] \in S
    OBVIOUS
  <2>1. CASE \E m \in Hit : n \in E(m)
    BY <1>1, <2>1
  <2> QED
    BY <1>2, <2>1
<1> HIDE DEF s
<1>4. ASSUME NEW n \in S PROVE s[n] = IF n \in Hit THEN n ELSE s[step[n]]
  <2>1. CASE n \in Hit
    <3>1. n \in E(n)
      BY <2>1, EndsStep
    <3> QED
      BY <1>1, <2>1, <3>1
  <2>2. CASE n \notin Hit
    <3>1. step[n] \in S /\ \A m \in Hit : n \in E(m) <=> step[n] \in E(m)
      BY <2>2, EndsStep
    <3> HIDE DEF E
    <3>2. CASE \E m \in Hit : n \in E(m)
      BY <1>1, <2>2, <3>1, <3>2
    <3>3. CASE ~ \E m \in Hit : n \in E(m)
      BY <1>2, <2>2, <3>1, <3>3
    <3> QED
      BY <3>2, <3>3
  <2> QED
    BY <2>1, <2>2
<1> QED
  BY <1>3, <1>4 DEF FollowOf

\* A set of numbers has a least one.
LEMMA LeastNumber ==
  ASSUME NEW S \in SUBSET Nat, S # {}
  PROVE  \E m \in S : \A n \in S : m <= n
<1> DEFINE F == {0..n : n \in S}
<1>1. F \subseteq FiniteSubsetsOf(Nat)
  <2> SUFFICES ASSUME NEW n \in S PROVE 0..n \in FiniteSubsetsOf(Nat)
    OBVIOUS
  <2>1. IsFiniteSet(0..n)
    BY FS_Interval
  <2>2. 0..n \subseteq Nat
    OBVIOUS
  <2> QED
    BY <2>1, <2>2 DEF FiniteSubsetsOf
<1>2. F # {}
  OBVIOUS
<1>3. IsWellFoundedOn(StrictSubsetOrdering(Nat), FiniteSubsetsOf(Nat))
  BY FS_StrictSubsetOrderingWellFounded, Zenon
<1> HIDE DEF F
<1>4. PICK x \in F : \A y \in F : ~ (<<y, x>> \in StrictSubsetOrdering(Nat))
  BY <1>1, <1>2, <1>3, WFMin, Zenon
<1>5. PICK m \in S : x = 0..m
  BY DEF F
<1>6. ASSUME NEW n \in S, n < m PROVE FALSE
  <2>1. 0..n \in F
    BY DEF F
  <2>2. 0..n \subseteq 0..m /\ 0..n # 0..m
    BY <1>6
  <2>3. <<0..n, 0..m>> \in StrictSubsetOrdering(Nat)
    <3>1. 0..n \in SUBSET Nat /\ 0..m \in SUBSET Nat
      OBVIOUS
    <3> QED
      BY <2>2, <3>1 DEF StrictSubsetOrdering
  <2> QED
    BY <2>1, <2>3, <1>4, <1>5
<1> QED
  BY <1>6

-----------------------------------------------------------------------------
(* The shape of the tree.  It depends only on the patches in it, their ranges   *)
(* and the order they came in, newest patch first.                             *)

Ordered(rk, T) ==
  /\ rk \in [Patch -> Nat] /\ T \subseteq Patch
  /\ \A m, n \in T : rk[m] = rk[n] => m = n

\* Order of the tree, of equal lower ends the one that came first.
Less(g, rk, m, n) == g[m].low < g[n].low \/ (g[m].low = g[n].low /\ rk[m] > rk[n])

\* The nodes of the subtree of n: no node that came before n separates them from n.
Sub(g, rk, T, n) ==
  {m \in T : /\ rk[m] <= rk[n]
             /\ \A k \in T : rk[k] > rk[n] => (Less(g, rk, k, m) <=> Less(g, rk, k, n))}

Lefts(g, rk, T, n)  == {m \in Sub(g, rk, T, n) : Less(g, rk, m, n)}
Rights(g, rk, T, n) == {m \in Sub(g, rk, T, n) : Less(g, rk, n, m)}

\* x came first of S.
Top(rk, S, x) == IF S = {} THEN x = NULL ELSE x \in S /\ \A m \in S : rk[m] <= rk[x]

Highest(g, S, h) == (\E m \in S : g[m].high = h) /\ \A m \in S : g[m].high <= h

TreeOf(g, rk, T, root, l, r, mx) ==
  /\ Top(rk, T, root)
  /\ \A n \in T : /\ Top(rk, Lefts(g, rk, T, n), l[n])
                  /\ Top(rk, Rights(g, rk, T, n), r[n])
                  /\ Highest(g, Sub(g, rk, T, n), mx[n])

\* The ends of a range are addresses.
LEMMA RangeBounds ==
  ASSUME NEW g \in [Patch -> PatchRange], NEW n \in Patch
  PROVE  g[n].low \in Addr /\ g[n].high \in Addr /\ g[n].low \in Nat /\ g[n].high \in Nat
         /\ g[n].low <= g[n].high
<1>1. PICK x \in PatchRange : x = g[n]
  OBVIOUS
<1>2. x \in [low: Addr, high: Addr] /\ x.low <= x.high
  BY DEF PatchRange
<1>3. g[n].low \in Addr /\ g[n].high \in Addr /\ g[n].low <= g[n].high
  BY <1>1, <1>2
<1> QED
  BY <1>3, ApplyAssumption DEF Addr

\* The order of the tree is total.
LEMMA LessIsOrder ==
  ASSUME NEW g \in [Patch -> PatchRange], NEW rk, NEW T, Ordered(rk, T)
  PROVE  /\ \A m, n \in T : Less(g, rk, m, n) \/ Less(g, rk, n, m) \/ m = n
         /\ \A m, n \in T : ~(Less(g, rk, m, n) /\ Less(g, rk, n, m))
         /\ \A k, m, n \in T : Less(g, rk, k, m) /\ Less(g, rk, m, n) => Less(g, rk, k, n)
<1>1. ASSUME NEW n \in T PROVE n \in Patch /\ rk[n] \in Nat /\ g[n].low \in Nat
  <2>1. n \in Patch /\ rk[n] \in Nat
    BY DEF Ordered
  <2> QED
    BY <2>1, RangeBounds
<1> QED
  BY <1>1 DEF Less, Ordered

\* The root's subtree is the tree.
LEMMA SubOfRoot ==
  ASSUME NEW g \in [Patch -> PatchRange], NEW rk, NEW T, Ordered(rk, T), NEW n \in T,
         \A m \in T : rk[m] <= rk[n]
  PROVE  Sub(g, rk, T, n) = T
<1>1. \A m \in T : rk[m] \in Nat
  BY DEF Ordered
<1> QED
  BY <1>1 DEF Sub

\* A node is in its own subtree
LEMMA SubSelf ==
  ASSUME NEW g \in [Patch -> PatchRange], NEW rk, NEW T, Ordered(rk, T), NEW n \in T
  PROVE  /\ n \in Sub(g, rk, T, n) /\ Sub(g, rk, T, n) \subseteq T
         /\ Sub(g, rk, T, n) = {n} \cup Lefts(g, rk, T, n) \cup Rights(g, rk, T, n)
<1>1. n \in Sub(g, rk, T, n) /\ Sub(g, rk, T, n) \subseteq T
  BY DEF Ordered, Sub
<1>2. \A m \in T : Less(g, rk, m, n) \/ Less(g, rk, n, m) \/ m = n
  BY LessIsOrder
<1> QED
  BY <1>1, <1>2 DEF Lefts, Rights

\* L is a total order of T.
Total(T, L) ==
  /\ \A x, y \in T : <<x, y>> \in L \/ <<y, x>> \in L \/ x = y
  /\ \A x, y \in T : ~(<<x, y>> \in L /\ <<y, x>> \in L)
  /\ \A x, y, z \in T : <<x, y>> \in L /\ <<y, z>> \in L => <<x, z>> \in L

\* S is the subtree of n under the order L.
Below(rk, T, L, n, S) ==
  \A m : m \in S <=> /\ m \in T /\ rk[m] <= rk[n]
                     /\ \A k \in T : rk[k] > rk[n] => (<<k, m>> \in L <=> <<k, n>> \in L)

OnSide(A, S, L, n) == \A m : m \in A <=> m \in S /\ <<m, n>> \in L

\* What lies on one side of n is the subtree of the first that came there.
LEMMA SideIsSubtree ==
  ASSUME NEW rk, NEW T, Ordered(rk, T), NEW L, Total(T, L), NEW n \in T,
         NEW S, Below(rk, T, L, n, S), NEW A, OnSide(A, S, L, n),
         NEW c \in A, \A m \in A : rk[m] <= rk[c], NEW C, Below(rk, T, L, c, C)
  PROVE  C = A /\ c \in T /\ rk[c] < rk[n]
<1>1. /\ \A x, y \in T : <<x, y>> \in L \/ <<y, x>> \in L \/ x = y
      /\ \A x, y \in T : ~(<<x, y>> \in L /\ <<y, x>> \in L)
      /\ \A x, y, z \in T : <<x, y>> \in L /\ <<y, z>> \in L => <<x, z>> \in L
  BY DEF Total
<1>2. \A m : m \in S <=> /\ m \in T /\ rk[m] <= rk[n]
                         /\ \A k \in T : rk[k] > rk[n] => (<<k, m>> \in L <=> <<k, n>> \in L)
  BY DEF Below
<1>3. \A m : m \in C <=> /\ m \in T /\ rk[m] <= rk[c]
                         /\ \A k \in T : rk[k] > rk[c] => (<<k, m>> \in L <=> <<k, c>> \in L)
  BY DEF Below
<1>4. \A m : m \in A <=> m \in S /\ <<m, n>> \in L
  BY DEF OnSide
<1>5. /\ \A m \in T : rk[m] \in Nat
      /\ \A x, y \in T : rk[x] = rk[y] => x = y
  BY DEF Ordered
<1>6. c \in A /\ \A m \in A : rk[m] <= rk[c]
  OBVIOUS
<1>7. c \in T /\ rk[c] < rk[n] /\ <<c, n>> \in L
  BY <1>1, <1>2, <1>4, <1>5, <1>6
<1>8. ASSUME NEW m \in A PROVE m \in C
  <2>1. m \in T /\ <<m, n>> \in L /\ rk[m] <= rk[c]
    BY <1>2, <1>4, <1>6
  <2> SUFFICES ASSUME NEW k \in T, rk[k] > rk[c] PROVE <<k, m>> \in L <=> <<k, c>> \in L
    BY <1>3, <2>1
  <2>2. CASE rk[k] > rk[n]
    BY <1>2, <1>4, <1>6, <2>2
  <2>3. CASE rk[k] = rk[n]
    <3>1. k = n
      BY <1>5, <2>3
    <3> QED
      BY <1>1, <1>7, <2>1, <3>1
  <2>4. CASE rk[k] < rk[n]
    <3>1. k \notin A
      BY <1>5, <1>6, <1>7
    <3>2. <<k, m>> \in L => ~<<c, k>> \in L
      <4> SUFFICES ASSUME <<k, m>> \in L, <<c, k>> \in L PROVE FALSE
        OBVIOUS
      <4>1. <<k, n>> \in L
        BY <1>1, <2>1
      <4>2. ASSUME NEW j \in T, rk[j] > rk[n] PROVE <<j, k>> \in L <=> <<j, n>> \in L
        <5>1. <<j, c>> \in L <=> <<j, n>> \in L
          BY <1>2, <1>4, <1>6, <4>2
        <5> QED
          BY <1>1, <1>7, <4>1, <5>1
      <4>3. k \in A
        BY <1>2, <1>4, <1>5, <2>4, <4>1, <4>2
      <4> QED
        BY <3>1, <4>3
    <3>3. <<k, c>> \in L => ~<<m, k>> \in L
      <4> SUFFICES ASSUME <<k, c>> \in L, <<m, k>> \in L PROVE FALSE
        OBVIOUS
      <4>1. <<k, n>> \in L
        BY <1>1, <1>7
      <4>2. ASSUME NEW j \in T, rk[j] > rk[n] PROVE <<j, k>> \in L <=> <<j, n>> \in L
        <5>1. <<j, m>> \in L <=> <<j, n>> \in L
          BY <1>2, <1>4, <4>2
        <5> QED
          BY <1>1, <2>1, <4>1, <5>1
      <4>3. k \in A
        BY <1>2, <1>4, <1>5, <2>4, <4>1, <4>2
      <4> QED
        BY <3>1, <4>3
    <3>4. k # c /\ k # m
      BY <1>5, <1>7, <2>1
    <3> QED
      BY <1>1, <1>7, <2>1, <3>2, <3>3, <3>4
  <2> QED
    BY <1>5, <1>7, <2>2, <2>3, <2>4
<1>9. ASSUME NEW m \in C PROVE m \in A
  <2>1. m \in T /\ rk[m] <= rk[c] /\ rk[m] <= rk[n]
    BY <1>3, <1>5, <1>7
  <2>2. <<n, m>> \in L <=> <<n, c>> \in L
    BY <1>3, <1>7
  <2>3. m # n
    BY <1>5, <1>7, <2>1
  <2>4. <<m, n>> \in L
    BY <1>1, <1>7, <2>1, <2>2, <2>3
  <2>5. ASSUME NEW k \in T, rk[k] > rk[n] PROVE <<k, m>> \in L <=> <<k, n>> \in L
    <3>1. rk[k] > rk[c]
      BY <1>5, <1>7, <2>5
    <3>2. (<<k, m>> \in L <=> <<k, c>> \in L) /\ (<<k, c>> \in L <=> <<k, n>> \in L)
      BY <1>2, <1>3, <1>4, <1>6, <2>5, <3>1
    <3> QED
      BY <3>2
  <2> QED
    BY <1>2, <1>4, <2>1, <2>4, <2>5
<1> QED
  BY <1>7, <1>8, <1>9

\* The subtree of a child is what lies on its side.
LEMMA SubOfChild ==
  ASSUME NEW g \in [Patch -> PatchRange], NEW rk, NEW T, Ordered(rk, T), NEW n \in T,
         NEW A, A \in {Lefts(g, rk, T, n), Rights(g, rk, T, n)},
         NEW c \in A, \A m \in A : rk[m] <= rk[c]
  PROVE  Sub(g, rk, T, c) = A /\ c \in T /\ rk[c] < rk[n]
<1> DEFINE L == {x \in T \X T : Less(g, rk, x[1], x[2])}
           R == {x \in T \X T : Less(g, rk, x[2], x[1])}
<1>1. /\ \A x, y \in T : <<x, y>> \in L <=> Less(g, rk, x, y)
      /\ \A x, y \in T : <<x, y>> \in R <=> Less(g, rk, y, x)
  OBVIOUS
<1> HIDE DEF L, R
<1>2. /\ \A x, y \in T : Less(g, rk, x, y) \/ Less(g, rk, y, x) \/ x = y
      /\ \A x, y \in T : ~(Less(g, rk, x, y) /\ Less(g, rk, y, x))
      /\ \A x, y, z \in T : Less(g, rk, x, y) /\ Less(g, rk, y, z) => Less(g, rk, x, z)
  BY LessIsOrder
<1>3. Total(T, L) /\ Total(T, R)
  BY <1>1, <1>2 DEF Total
<1>4. /\ \A m \in T : rk[m] \in Nat
      /\ \A x, y \in T : rk[x] = rk[y] => x = y
  BY DEF Ordered
<1>5. ASSUME NEW i \in T
      PROVE  /\ Below(rk, T, L, i, Sub(g, rk, T, i))
             /\ Below(rk, T, R, i, Sub(g, rk, T, i))
  <2>1. Below(rk, T, L, i, Sub(g, rk, T, i))
    BY <1>1 DEF Below, Sub
  <2>2. ASSUME NEW m \in T, rk[m] <= rk[i], NEW k \in T, rk[k] > rk[i]
        PROVE  (<<k, m>> \in R <=> <<k, i>> \in R) <=> (Less(g, rk, k, m) <=> Less(g, rk, k, i))
    <3>1. k # m /\ k # i
      BY <1>4, <2>2
    <3> QED
      BY <1>1, <1>2, <3>1
  <2>3. Below(rk, T, R, i, Sub(g, rk, T, i))
    BY <2>2 DEF Below, Sub
  <2> QED
    BY <2>1, <2>3
<1>6. c \in T /\ Sub(g, rk, T, n) \subseteq T
  BY DEF Lefts, Rights, Sub
<1>7. CASE A = Lefts(g, rk, T, n)
  <2>1. OnSide(A, Sub(g, rk, T, n), L, n)
    BY <1>1, <1>6, <1>7 DEF Lefts, OnSide
  <2>2. PICK S : S = Sub(g, rk, T, n)
    OBVIOUS
  <2>3. PICK C : C = Sub(g, rk, T, c)
    OBVIOUS
  <2>4. /\ Below(rk, T, L, n, S) /\ Below(rk, T, L, c, C) /\ OnSide(A, S, L, n)
        /\ Total(T, L) /\ Ordered(rk, T) /\ c \in A /\ \A m \in A : rk[m] <= rk[c]
    BY <1>3, <1>5, <1>6, <2>1, <2>2, <2>3
  <2>5. C = A /\ c \in T /\ rk[c] < rk[n]
    BY <2>4, SideIsSubtree
  <2> QED
    BY <2>3, <2>5
<1>8. CASE A = Rights(g, rk, T, n)
  <2>1. OnSide(A, Sub(g, rk, T, n), R, n)
    BY <1>1, <1>6, <1>8 DEF Rights, OnSide
  <2>2. PICK S : S = Sub(g, rk, T, n)
    OBVIOUS
  <2>3. PICK C : C = Sub(g, rk, T, c)
    OBVIOUS
  <2>4. /\ Below(rk, T, R, n, S) /\ Below(rk, T, R, c, C) /\ OnSide(A, S, R, n)
        /\ Total(T, R) /\ Ordered(rk, T) /\ c \in A /\ \A m \in A : rk[m] <= rk[c]
    BY <1>3, <1>5, <1>6, <2>1, <2>2, <2>3
  <2>5. C = A /\ c \in T /\ rk[c] < rk[n]
    BY <2>4, SideIsSubtree
  <2> QED
    BY <2>3, <2>5
<1> QED
  BY <1>7, <1>8

\* A child is NULL where nothing lies on its side, and otherwise the root of what does.
ChildOf(g, rk, T, n, A, c) ==
  /\ c = NULL => A = {}
  /\ c # NULL => c \in T /\ rk[c] < rk[n] /\ Sub(g, rk, T, c) = A

\* The links of a node are its children.
LEMMA Children ==
  ASSUME NEW g \in [Patch -> PatchRange], NEW rk, NEW T, Ordered(rk, T),
         NEW root, NEW l, NEW r, NEW mx, TreeOf(g, rk, T, root, l, r, mx), NEW n \in T
  PROVE  /\ ChildOf(g, rk, T, n, Lefts(g, rk, T, n), l[n])
         /\ ChildOf(g, rk, T, n, Rights(g, rk, T, n), r[n])
<1>1. NULL \notin T
  BY ApplyAssumption DEF Ordered
<1>2. ASSUME NEW A, A \in {Lefts(g, rk, T, n), Rights(g, rk, T, n)}, NEW c, Top(rk, A, c)
      PROVE  ChildOf(g, rk, T, n, A, c)
  <2>1. A \subseteq T
    BY <1>2 DEF Lefts, Rights, Sub
  <2>2. CASE A = {}
    BY <1>2, <2>2 DEF Top, ChildOf
  <2>3. CASE A # {}
    <3>1. c \in A /\ \A m \in A : rk[m] <= rk[c]
      BY <1>2, <2>3 DEF Top
    <3>2. Sub(g, rk, T, c) = A /\ c \in T /\ rk[c] < rk[n]
      BY <1>2, <3>1, SubOfChild
    <3> QED
      BY <1>1, <3>2 DEF ChildOf
  <2> QED
    BY <2>2, <2>3
<1> QED
  BY <1>2 DEF TreeOf

\* The fields of the patches in the tree depend on its patches only.
LEMMA TreeUnique ==
  ASSUME NEW g \in [Patch -> PatchRange], NEW rk, NEW T, Ordered(rk, T),
         NEW root, NEW l, NEW r, NEW mx, TreeOf(g, rk, T, root, l, r, mx),
         NEW root2, NEW l2, NEW r2, NEW mx2, TreeOf(g, rk, T, root2, l2, r2, mx2)
  PROVE  /\ root = root2
         /\ \A n \in T : l[n] = l2[n] /\ r[n] = r2[n] /\ mx[n] = mx2[n]
<1>1. \A m \in T : rk[m] \in Nat
  BY DEF Ordered
<1>2. ASSUME NEW A \in SUBSET T, NEW x, NEW y, Top(rk, A, x), Top(rk, A, y)
      PROVE  x = y
  BY <1>1, <1>2 DEF Top, Ordered
<1>3. ASSUME NEW A \in SUBSET T, NEW x, NEW y, Highest(g, A, x), Highest(g, A, y)
      PROVE  x = y
  <2>1. \A m \in A : m \in Patch
    BY DEF Ordered
  <2>2. \A m \in A : g[m].high \in Nat
    BY <2>1, RangeBounds
  <2> QED
    BY <1>3, <2>2 DEF Highest
<1>4. ASSUME NEW n \in T
      PROVE  Lefts(g, rk, T, n) \in SUBSET T /\ Rights(g, rk, T, n) \in SUBSET T
             /\ Sub(g, rk, T, n) \in SUBSET T
  BY DEF Lefts, Rights, Sub
<1> QED
  BY <1>2, <1>3, <1>4 DEF TreeOf

\* n's range meets lo..hi.
Hits(g, lo, hi, n) == g[n].low <= hi /\ lo <= g[n].high

\* s is what the search in the tree for an overlap with lo..hi computes.
SearchOf(g, T, l, r, mx, lo, hi, s) ==
  /\ s[NULL] = NULL
  /\ \A n \in T : s[n] = IF Hits(g, lo, hi, n) THEN n
                         ELSE IF l[n] # NULL /\ mx[l[n]] >= lo THEN s[l[n]] ELSE s[r[n]]

\* x is a right answer for the patches of S.
Answers(g, lo, hi, S, x) ==
  /\ x # NULL => x \in S /\ Hits(g, lo, hi, x)
  /\ x = NULL => \A m \in S : ~Hits(g, lo, hi, m)

\* The least of a set of patches, by rank.
LEMMA LastPatch ==
  ASSUME NEW rk, NEW T, Ordered(rk, T), NEW B \in SUBSET T, B # {}
  PROVE  \E n \in B : \A m \in B : rk[n] <= rk[m]
<1> DEFINE S == {rk[n] : n \in B}
<1>1. S \in SUBSET Nat /\ S # {}
  BY DEF Ordered
<1> HIDE DEF S
<1>2. PICK x \in S : \A y \in S : x <= y
  BY <1>1, LeastNumber
<1> QED
  BY <1>2 DEF S

\* The search is right in every subtree: where the left one is entered in vain, a
\* range of it ends at lo or above and yet misses lo..hi, so that it begins
\* above hi, and so does everything to the right.
LEMMA SearchAnswers ==
  ASSUME NEW g \in [Patch -> PatchRange], NEW rk, NEW T, Ordered(rk, T),
         NEW root, NEW l, NEW r, NEW mx, TreeOf(g, rk, T, root, l, r, mx),
         NEW lo \in Nat, NEW hi \in Nat, NEW s, SearchOf(g, T, l, r, mx, lo, hi, s)
  PROVE  /\ \A n \in T : Answers(g, lo, hi, Sub(g, rk, T, n), s[n])
         /\ Answers(g, lo, hi, T, s[root])
<1> DEFINE Good(n) == Answers(g, lo, hi, Sub(g, rk, T, n), s[n])
           Bad == {n \in T : ~Good(n)}
<1>0. NULL \notin T /\ \A n \in T : n \in Patch /\ rk[n] \in Nat
  BY ApplyAssumption DEF Ordered
<1>1. Bad = {}
  <2> SUFFICES ASSUME Bad # {} PROVE FALSE
    OBVIOUS
  <2>1. PICK n \in Bad : \A m \in Bad : rk[n] <= rk[m]
    <3>1. Bad \in SUBSET T
      OBVIOUS
    <3> HIDE DEF Bad
    <3> QED
      BY <3>1, LastPatch
  <2>2. n \in T /\ ~Good(n) /\ \A m \in T : rk[m] < rk[n] => Good(m)
    BY <1>0, <2>1
  <2> HIDE DEF Bad
  <2>3. /\ ChildOf(g, rk, T, n, Lefts(g, rk, T, n), l[n])
        /\ ChildOf(g, rk, T, n, Rights(g, rk, T, n), r[n])
    BY <2>2, Children
  <2>4. /\ n \in Sub(g, rk, T, n) /\ Sub(g, rk, T, n) \subseteq T
        /\ Sub(g, rk, T, n) = {n} \cup Lefts(g, rk, T, n) \cup Rights(g, rk, T, n)
    BY <2>2, SubSelf
  <2>5. s[n] = IF Hits(g, lo, hi, n) THEN n
               ELSE IF l[n] # NULL /\ mx[l[n]] >= lo THEN s[l[n]] ELSE s[r[n]]
    BY <2>2 DEF SearchOf
  <2>6. s[NULL] = NULL
    BY DEF SearchOf
  <2>7. ASSUME NEW m \in T PROVE g[m].low \in Nat /\ g[m].high \in Nat
    BY <1>0, <2>7, RangeBounds
  <2>8. ~Hits(g, lo, hi, n)
    BY <1>0, <2>2, <2>4, <2>5 DEF Answers
  <2>9. CASE l[n] # NULL /\ mx[l[n]] >= lo
    <3>1. /\ l[n] \in T /\ Sub(g, rk, T, l[n]) = Lefts(g, rk, T, n)
          /\ Answers(g, lo, hi, Lefts(g, rk, T, n), s[l[n]]) /\ s[n] = s[l[n]]
      BY <2>2, <2>3, <2>5, <2>8, <2>9 DEF ChildOf
    <3>2. s[n] = NULL
      BY <2>2, <2>4, <3>1 DEF Answers
    <3>3. \A m \in Lefts(g, rk, T, n) : ~Hits(g, lo, hi, m)
      BY <3>1, <3>2 DEF Answers
    <3>4. PICK m \in Lefts(g, rk, T, n) : g[m].high = mx[l[n]]
      <4>1. Highest(g, Sub(g, rk, T, l[n]), mx[l[n]])
        BY <3>1 DEF TreeOf
      <4> QED
        BY <3>1, <4>1 DEF Highest
    <3>5. m \in T /\ Less(g, rk, m, n)
      BY <2>4 DEF Lefts
    <3>6. g[m].low > hi /\ g[m].low <= g[n].low
      BY <2>2, <2>7, <2>9, <3>3, <3>4, <3>5 DEF Hits, Less
    <3>7. ASSUME NEW x \in Rights(g, rk, T, n) PROVE ~Hits(g, lo, hi, x)
      <4>1. x \in T /\ Less(g, rk, n, x)
        BY <2>4 DEF Rights
      <4> QED
        BY <2>2, <2>7, <3>5, <3>6, <4>1 DEF Hits, Less
    <3> QED
      BY <2>2, <2>4, <2>8, <3>2, <3>3, <3>7 DEF Answers
  <2>10. CASE ~(l[n] # NULL /\ mx[l[n]] >= lo)
    <3>1. s[n] = s[r[n]]
      BY <2>5, <2>8, <2>10
    <3>2. ASSUME NEW x \in Lefts(g, rk, T, n) PROVE ~Hits(g, lo, hi, x)
      <4>1. l[n] # NULL /\ ~(mx[l[n]] >= lo) /\ l[n] \in T /\ Sub(g, rk, T, l[n]) = Lefts(g, rk, T, n)
        BY <2>3, <2>10, <3>2 DEF ChildOf
      <4>2. Highest(g, Lefts(g, rk, T, n), mx[l[n]])
        BY <4>1 DEF TreeOf
      <4>3. g[x].high <= mx[l[n]] /\ x \in T
        BY <2>4, <4>2 DEF Highest
      <4>4. PICK y \in T : g[y].high = mx[l[n]]
        BY <2>4, <4>2 DEF Highest
      <4> QED
        BY <2>7, <4>1, <4>3, <4>4 DEF Hits
    <3>3. CASE r[n] = NULL
      <4>1. Rights(g, rk, T, n) = {}
        BY <2>3, <3>3 DEF ChildOf
      <4> QED
        BY <2>2, <2>4, <2>6, <2>8, <3>1, <3>2, <3>3, <4>1 DEF Answers
    <3>4. CASE r[n] # NULL
      <4>1. Answers(g, lo, hi, Rights(g, rk, T, n), s[n])
        BY <2>2, <2>3, <3>1, <3>4 DEF ChildOf
      <4> QED
        BY <2>2, <2>4, <2>8, <3>2, <4>1 DEF Answers
    <3> QED
      BY <3>3, <3>4
  <2> QED
    BY <2>9, <2>10
<1>2. Answers(g, lo, hi, T, s[root])
  <2>1. Top(rk, T, root)
    BY DEF TreeOf
  <2>2. CASE T = {}
    BY <2>1, <2>2 DEF Top, SearchOf, Answers
  <2>3. CASE T # {}
    <3>1. root \in T /\ \A m \in T : rk[m] <= rk[root]
      BY <2>1, <2>3 DEF Top
    <3>2. Sub(g, rk, T, root) = T
      BY <3>1, SubOfRoot
    <3> QED
      BY <1>1, <3>1, <3>2
  <2> QED
    BY <2>2, <2>3
<1> QED
  BY <1>1, <1>2

\* The answer depends on the patches of the tree only.
LEMMA SearchUnique ==
  ASSUME NEW g \in [Patch -> PatchRange], NEW rk, NEW T, Ordered(rk, T),
         NEW root, NEW l, NEW r, NEW mx, TreeOf(g, rk, T, root, l, r, mx),
         NEW root2, NEW l2, NEW r2, NEW mx2, TreeOf(g, rk, T, root2, l2, r2, mx2),
         NEW lo, NEW hi, NEW s, SearchOf(g, T, l, r, mx, lo, hi, s),
         NEW s2, SearchOf(g, T, l2, r2, mx2, lo, hi, s2)
  PROVE  s[root] = s2[root2]
<1> DEFINE Bad == {n \in T : s[n] # s2[n]}
<1>1. root = root2 /\ \A n \in T : l[n] = l2[n] /\ r[n] = r2[n] /\ mx[n] = mx2[n]
  BY TreeUnique
<1>2. s[NULL] = NULL /\ s2[NULL] = NULL
  BY DEF SearchOf
<1>3. Bad = {}
  <2> SUFFICES ASSUME Bad # {} PROVE FALSE
    OBVIOUS
  <2>1. PICK n \in Bad : \A m \in Bad : rk[n] <= rk[m]
    <3>1. Bad \in SUBSET T
      OBVIOUS
    <3> HIDE DEF Bad
    <3> QED
      BY <3>1, LastPatch
  <2>2. n \in T /\ s[n] # s2[n] /\ \A m \in T : rk[m] < rk[n] => s[m] = s2[m]
    <3>1. \A m \in T : rk[m] \in Nat
      BY DEF Ordered
    <3> QED
      BY <2>1, <3>1
  <2> HIDE DEF Bad
  <2>3. /\ l[n] # NULL => l[n] \in T /\ rk[l[n]] < rk[n]
        /\ r[n] # NULL => r[n] \in T /\ rk[r[n]] < rk[n]
    BY <2>2, Children DEF ChildOf
  <2>4. s[n] = IF Hits(g, lo, hi, n) THEN n
               ELSE IF l[n] # NULL /\ mx[l[n]] >= lo THEN s[l[n]] ELSE s[r[n]]
    BY <2>2 DEF SearchOf
  <2>5. s2[n] = IF Hits(g, lo, hi, n) THEN n
                ELSE IF l2[n] # NULL /\ mx2[l2[n]] >= lo THEN s2[l2[n]] ELSE s2[r2[n]]
    BY <2>2 DEF SearchOf
  <2>6. s[l[n]] = s2[l[n]] \/ l[n] = NULL
    BY <2>2, <2>3
  <2>7. s[r[n]] = s2[r[n]]
    BY <1>2, <2>2, <2>3
  <2>8. l2[n] = l[n] /\ r2[n] = r[n] /\ (l[n] # NULL => mx2[l[n]] = mx[l[n]])
    BY <1>1, <2>2, <2>3
  <2> QED
    BY <2>2, <2>4, <2>5, <2>6, <2>7, <2>8
<1>4. root = NULL \/ root \in T
  BY DEF TreeOf, Top
<1> QED
  BY <1>1, <1>2, <1>3, <1>4

-----------------------------------------------------------------------------
(* A patch enters the tree.                                                *)

\* p comes after all the patches of T.
Follows(rk, T, p) == Ordered(rk, T \cup {p}) /\ p \in Patch \ T /\ \A m \in T : rk[p] < rk[m]

\* The newcomer goes by its lower end alone.
LEMMA LessNew ==
  ASSUME NEW g \in [Patch -> PatchRange], NEW rk, NEW T, NEW p, Follows(rk, T, p), NEW n \in T
  PROVE  /\ Less(g, rk, p, n) <=> g[p].low < g[n].low
         /\ Less(g, rk, n, p) <=> ~(g[p].low < g[n].low)
<1>1. n \in Patch /\ p \in Patch /\ rk[n] \in Nat /\ rk[p] \in Nat /\ rk[p] < rk[n]
  BY DEF Follows, Ordered
<1>2. g[p].low \in Nat /\ g[n].low \in Nat
  BY <1>1, RangeBounds
<1> QED
  BY <1>1, <1>2 DEF Less

\* B is A, or A and p.
Grown(T, p, A, B) == A \subseteq T /\ B \subseteq T \cup {p} /\ \A m \in T : m \in B <=> m \in A

\* The subtrees p belongs to get it as one more node, the others stay.
LEMMA SubGrows ==
  ASSUME NEW g \in [Patch -> PatchRange], NEW rk, NEW T, NEW p, Follows(rk, T, p), NEW n \in T
  PROVE  /\ Grown(T, p, Sub(g, rk, T, n), Sub(g, rk, T \cup {p}, n))
         /\ Grown(T, p, Lefts(g, rk, T, n), Lefts(g, rk, T \cup {p}, n))
         /\ Grown(T, p, Rights(g, rk, T, n), Rights(g, rk, T \cup {p}, n))
<1>1. n \in Patch /\ p \in Patch /\ rk[n] \in Nat /\ rk[p] \in Nat /\ rk[p] < rk[n]
  BY DEF Follows, Ordered
<1>2. ~(rk[p] > rk[n])
  BY <1>1
<1>3. /\ Sub(g, rk, T, n) \subseteq T /\ Sub(g, rk, T \cup {p}, n) \subseteq T \cup {p}
      /\ \A m \in T : m \in Sub(g, rk, T \cup {p}, n) <=> m \in Sub(g, rk, T, n)
  BY <1>2 DEF Sub
<1> QED
  BY <1>3 DEF Lefts, Rights, Grown

\* d is what the descent of p collects.
DescentOf(g, T, p, l, r, d) ==
  /\ d[NULL] = {}
  /\ \A n \in T : d[n] = {n} \cup d[IF g[p].low < g[n].low THEN l[n] ELSE r[n]]

\* The descent passes exactly the nodes whose subtrees p belongs to.
LEMMA DescentPasses ==
  ASSUME NEW g \in [Patch -> PatchRange], NEW rk, NEW T, NEW p, Follows(rk, T, p),
         NEW root, NEW l, NEW r, NEW mx, TreeOf(g, rk, T, root, l, r, mx),
         NEW d, DescentOf(g, T, p, l, r, d)
  PROVE  d[root] = {m \in T : p \in Sub(g, rk, T \cup {p}, m)}
<1> DEFINE Q == T \cup {p}
           V(m) == p \in Sub(g, rk, Q, m)
           Good(n) == V(n) => d[n] = {m \in Sub(g, rk, T, n) : V(m)}
           Bad == {n \in T : ~Good(n)}
<1>1. /\ Ordered(rk, Q) /\ Ordered(rk, T) /\ p \notin T /\ NULL \notin T
      /\ \A n \in T : n \in Patch /\ rk[n] \in Nat /\ rk[p] < rk[n]
      /\ rk[p] \in Nat
  BY ApplyAssumption DEF Follows, Ordered
<1>2. Bad = {}
  <2> SUFFICES ASSUME Bad # {} PROVE FALSE
    OBVIOUS
  <2>1. PICK n \in Bad : \A m \in Bad : rk[n] <= rk[m]
    <3>1. Bad \in SUBSET T
      OBVIOUS
    <3> HIDE DEF Bad
    <3> QED
      BY <1>1, <3>1, LastPatch
  <2>2. n \in T /\ ~Good(n) /\ \A m \in T : rk[m] < rk[n] => Good(m)
    <3> HIDE DEF Good
    <3> QED
      BY <1>1, <2>1
  <2> HIDE DEF Bad
  <2>3. V(n) /\ d[n] # {m \in Sub(g, rk, T, n) : V(m)}
    BY <2>2
  <2>4. PICK A, c, X :
          /\ A \in {Lefts(g, rk, T, n), Rights(g, rk, T, n)}
          /\ ChildOf(g, rk, T, n, A, c)
          /\ Top(rk, A, c)
          /\ d[n] = {n} \cup d[c]
          /\ X \in {Lefts(g, rk, Q, n), Rights(g, rk, Q, n)} /\ p \in X
          /\ \A m \in T : m \in X <=> m \in A
          /\ X \subseteq Q
          /\ \A m \in Sub(g, rk, T, n) : m = n \/ m \in A
               \/ (Less(g, rk, n, m) <=> ~Less(g, rk, n, p))
    <3>1. /\ ChildOf(g, rk, T, n, Lefts(g, rk, T, n), l[n])
          /\ ChildOf(g, rk, T, n, Rights(g, rk, T, n), r[n])
      BY <1>1, <2>2, Children
    <3>2. /\ Top(rk, Lefts(g, rk, T, n), l[n]) /\ Top(rk, Rights(g, rk, T, n), r[n])
      BY <2>2 DEF TreeOf
    <3>3. d[n] = {n} \cup d[IF g[p].low < g[n].low THEN l[n] ELSE r[n]]
      BY <2>2 DEF DescentOf
    <3>4. /\ \A m \in T : m \in Lefts(g, rk, Q, n) <=> m \in Lefts(g, rk, T, n)
          /\ \A m \in T : m \in Rights(g, rk, Q, n) <=> m \in Rights(g, rk, T, n)
          /\ Less(g, rk, p, n) <=> g[p].low < g[n].low
          /\ Less(g, rk, n, p) <=> ~(g[p].low < g[n].low)
          /\ Sub(g, rk, Q, n) \subseteq Q
      <4>1. n \in T /\ Follows(rk, T, p)
        BY <2>2
      <4>2. /\ Grown(T, p, Sub(g, rk, T, n), Sub(g, rk, Q, n))
            /\ Grown(T, p, Lefts(g, rk, T, n), Lefts(g, rk, Q, n))
            /\ Grown(T, p, Rights(g, rk, T, n), Rights(g, rk, Q, n))
        BY <4>1, SubGrows
      <4>3. /\ Less(g, rk, p, n) <=> g[p].low < g[n].low
            /\ Less(g, rk, n, p) <=> ~(g[p].low < g[n].low)
        BY <4>1, LessNew
      <4> QED
        BY <4>2, <4>3 DEF Grown
    <3>5. Lefts(g, rk, Q, n) \subseteq Q /\ Rights(g, rk, Q, n) \subseteq Q
      BY <3>4 DEF Lefts, Rights
    <3>6. /\ Sub(g, rk, T, n) = {n} \cup Lefts(g, rk, T, n) \cup Rights(g, rk, T, n)
          /\ Sub(g, rk, T, n) \subseteq T
      BY <1>1, <2>2, SubSelf
    <3>7. \A x, y \in T : ~(Less(g, rk, x, y) /\ Less(g, rk, y, x))
      BY <1>1, LessIsOrder
    <3>8. CASE g[p].low < g[n].low
      <4>1. p \in Lefts(g, rk, Q, n)
        BY <2>3, <3>4, <3>8 DEF Lefts
      <4>2. \A m \in Rights(g, rk, T, n) : Less(g, rk, n, m)
        BY DEF Rights
      <4>3. d[n] = {n} \cup d[l[n]] /\ ~Less(g, rk, n, p)
        BY <3>3, <3>4, <3>8
      <4>4. \A m \in Sub(g, rk, T, n) : m = n \/ m \in Lefts(g, rk, T, n) \/ Less(g, rk, n, m)
        BY <3>6, <4>2
      <4> WITNESS Lefts(g, rk, T, n), l[n], Lefts(g, rk, Q, n)
      <4> QED
        BY <3>1, <3>2, <3>4, <3>5, <4>1, <4>3, <4>4
    <3>9. CASE ~(g[p].low < g[n].low)
      <4>1. p \in Rights(g, rk, Q, n)
        BY <2>3, <3>4, <3>9 DEF Rights
      <4>2. \A m \in Lefts(g, rk, T, n) : m \in T /\ Less(g, rk, m, n)
        BY <3>6 DEF Lefts
      <4>3. \A m \in Lefts(g, rk, T, n) : ~Less(g, rk, n, m)
        BY <2>2, <3>7, <4>2
      <4>4. d[n] = {n} \cup d[r[n]] /\ Less(g, rk, n, p)
        BY <3>3, <3>4, <3>9
      <4>5. \A m \in Sub(g, rk, T, n) : m = n \/ m \in Rights(g, rk, T, n) \/ ~Less(g, rk, n, m)
        BY <3>6, <4>3
      <4> WITNESS Rights(g, rk, T, n), r[n], Rights(g, rk, Q, n)
      <4> QED
        BY <3>1, <3>2, <3>4, <3>5, <4>1, <4>4, <4>5
    <3> QED
      BY <3>8, <3>9
  <2>5. A \subseteq Sub(g, rk, T, n) /\ Sub(g, rk, T, n) \subseteq T /\ n \in Sub(g, rk, T, n)
    BY <1>1, <2>2, <2>4, SubSelf DEF Lefts, Rights
  <2>6. ASSUME NEW m \in Sub(g, rk, T, n), V(m) PROVE m = n \/ m \in A
    <3> SUFFICES ASSUME m # n, m \notin A PROVE FALSE
      OBVIOUS
    <3>1. Less(g, rk, n, m) <=> ~Less(g, rk, n, p)
      BY <2>4
    <3>2. rk[n] > rk[m]
      <4>1. rk[m] <= rk[n] /\ m \in T
        BY <2>5 DEF Sub
      <4> QED
        BY <1>1, <2>2, <4>1 DEF Ordered
    <3>3. Less(g, rk, n, p) <=> Less(g, rk, n, m)
      BY <2>2, <2>6, <3>2 DEF Sub
    <3> QED
      BY <3>1, <3>3
  <2>7. CASE c = NULL
    <3>1. A = {} /\ d[c] = {}
      BY <2>4, <2>7 DEF ChildOf, DescentOf
    <3> QED
      BY <2>3, <2>4, <2>5, <2>6, <3>1
  <2>8. CASE c # NULL
    <3>1. c \in T /\ rk[c] < rk[n] /\ Sub(g, rk, T, c) = A
      BY <2>4, <2>8 DEF ChildOf
    <3>2. c \in A /\ \A m \in A : rk[m] <= rk[c]
      BY <2>4, <2>8 DEF Top
    <3>3. c \in X /\ \A m \in X : rk[m] <= rk[c]
      BY <1>1, <2>4, <3>1, <3>2
    <3>4. Sub(g, rk, Q, c) = X
      <4>1. n \in Q
        BY <2>2
      <4> HIDE DEF Q
      <4> QED
        BY <1>1, <2>4, <3>3, <4>1, SubOfChild
    <3>5. V(c)
      BY <2>4, <3>4
    <3>6. d[c] = {m \in A : V(m)}
      BY <2>2, <3>1, <3>5
    <3> QED
      BY <2>3, <2>4, <2>5, <2>6, <3>6
  <2> QED
    BY <2>7, <2>8
<1>3. Top(rk, T, root)
  BY DEF TreeOf
<1>4. CASE T = {}
  BY <1>3, <1>4 DEF Top, DescentOf
<1>5. CASE T # {}
  <2>1. root \in T /\ \A m \in T : rk[m] <= rk[root]
    BY <1>3, <1>5 DEF Top
  <2>2. Sub(g, rk, T, root) = T
    BY <1>1, <2>1, SubOfRoot
  <2>3. Sub(g, rk, Q, root) = Q
    <3>1. root \in Q /\ \A m \in Q : rk[m] <= rk[root]
      BY <1>1, <2>1
    <3> HIDE DEF Q
    <3> QED
      BY <1>1, <3>1, SubOfRoot
  <2>4. V(root)
    BY <2>3
  <2> QED
    BY <1>2, <2>1, <2>2, <2>4
<1> QED
  BY <1>4, <1>5

-----------------------------------------------------------------------------
(* The operators of the walk compute what the tree answers.                *)

\* The fields the tree is made of hold links and addresses, whatever is in them.
TreeTypes ==
  /\ range \in [Patch -> PatchRange] /\ it_root \in Node
  /\ left \in [Patch -> Node] /\ right \in [Patch -> Node]

\* Search follows the links of the tree.
LEMMA SearchIs ==
  ASSUME TreeTypes, NEW T \in SUBSET Patch, NEW lo, NEW hi
  PROVE  \E s : SearchOf(range, T, left, right, max, lo, hi, s) /\ Search(lo, hi) = s[it_root]
<1> DEFINE P(h) == h = [n \in Node |->
                          IF n = NULL \/ Overlap(n, lo, hi) THEN n
                          ELSE IF left[n] # NULL /\ max[left[n]] >= lo THEN h[left[n]] ELSE h[right[n]]]
           c == CHOOSE h : P(h)
<1>1. Search(lo, hi) = c[it_root]
  BY Zenon DEF Search
<1>2. \E h : P(h)
  <2> DEFINE Hit == {n \in Node : n = NULL \/ Overlap(n, lo, hi)}
             step == [n \in Node |-> IF n = NULL THEN NULL
                                     ELSE IF left[n] # NULL /\ max[left[n]] >= lo
                                          THEN left[n] ELSE right[n]]
  <2>1. Hit \in SUBSET Node /\ step \in [Node -> Node] /\ NULL \in Node
    BY DEF TreeTypes, Node
  <2>2. \A n \in Node \ Hit : step[n] = IF left[n] # NULL /\ max[left[n]] >= lo
                                        THEN left[n] ELSE right[n]
    OBVIOUS
  <2>3. \A n \in Node : n \in Hit <=> n = NULL \/ Overlap(n, lo, hi)
    OBVIOUS
  <2> HIDE DEF Hit, step
  <2>4. PICK h : FollowOf(Node, Hit, step, h)
    BY <2>1, FollowExists
  <2>5. ASSUME NEW n \in Node
        PROVE  h[n] = IF n = NULL \/ Overlap(n, lo, hi) THEN n
                      ELSE IF left[n] # NULL /\ max[left[n]] >= lo THEN h[left[n]] ELSE h[right[n]]
    BY <2>2, <2>3, <2>4 DEF FollowOf
  <2>6. h \in [Node -> Node]
    BY <2>4 DEF FollowOf
  <2>7. P(h)
    BY <2>5, <2>6
  <2> QED
    BY <2>7
<1>3. P(c)
  <2> HIDE DEF P
  <2> QED
    BY <1>2
<1>4. PICK s : s = c
  OBVIOUS
<1>5. s = [n \in Node |->
             IF n = NULL \/ Overlap(n, lo, hi) THEN n
             ELSE IF left[n] # NULL /\ max[left[n]] >= lo THEN c[left[n]] ELSE c[right[n]]]
  BY <1>3, <1>4
<1> HIDE DEF c, P
<1>6. s[NULL] = NULL
  BY <1>5 DEF Node
<1>7. ASSUME NEW n \in T
      PROVE  s[n] = IF Hits(range, lo, hi, n) THEN n
                    ELSE IF left[n] # NULL /\ max[left[n]] >= lo THEN s[left[n]] ELSE s[right[n]]
  <2>1. n \in Node /\ n # NULL
    BY ApplyAssumption DEF Node
  <2> QED
    BY <1>4, <1>5, <2>1 DEF Hits, Overlap
<1> QED
  BY <1>1, <1>4, <1>6, <1>7 DEF SearchOf

\* A set from which one cannot leave.
Closed(S, step, X) == \A n \in S : n \in X => step[n] \in X

\* The nodes met on the way from n.
Met(S, step, n) == {k \in S : \A X \in SUBSET S : n \in X /\ Closed(S, step, X) => k \in X}

\* On the way from n one meets n and what one meets from the next node.
LEMMA MetStep ==
  ASSUME NEW S, NEW step \in [S -> S], NEW n \in S
  PROVE  Met(S, step, n) = {n} \cup Met(S, step, step[n])
<1> DEFINE M == Met(S, step, n)
           K == Met(S, step, step[n])
<1>1. n \in M
  BY DEF Met
<1>2. ASSUME NEW k \in K PROVE k \in M
  <2> SUFFICES ASSUME NEW X \in SUBSET S, n \in X, Closed(S, step, X) PROVE k \in X
    BY DEF Met
  <2>1. step[n] \in X
    BY DEF Closed
  <2> QED
    BY <1>2, <2>1 DEF Met
<1>3. ASSUME NEW k \in M, k # n PROVE k \in K
  <2> SUFFICES ASSUME NEW X \in SUBSET S, step[n] \in X, Closed(S, step, X) PROVE k \in X
    BY <1>3 DEF Met
  <2>1. X \cup {n} \in SUBSET S /\ n \in X \cup {n} /\ Closed(S, step, X \cup {n})
    BY DEF Closed
  <2>2. k \in X \cup {n}
    <3>1. PICK Y : Y = X \cup {n}
      OBVIOUS
    <3>2. Y \in SUBSET S /\ n \in Y /\ Closed(S, step, Y)
      BY <2>1, <3>1
    <3> QED
      BY <1>3, <3>1, <3>2 DEF Met
  <2> QED
    BY <1>3, <2>2
<1> QED
  BY <1>1, <1>2, <1>3

\* Descent follows the links of the tree.
LEMMA DescentIs ==
  ASSUME TreeTypes, NEW T \in SUBSET Patch, NEW p
  PROVE  \E d : DescentOf(range, T, p, left, right, d) /\ Descent(p) = d[it_root]
<1> DEFINE P(h) == h = [n \in Node |->
                          IF n = NULL THEN {}
                          ELSE {n} \cup h[IF GoesLeft(p, n) THEN left[n] ELSE right[n]]]
           c == CHOOSE h : P(h)
<1>1. Descent(p) = c[it_root]
  BY Zenon DEF Descent
<1>2. \E h : P(h)
  <2> DEFINE step == [n \in Node |-> IF n = NULL THEN NULL
                                     ELSE IF GoesLeft(p, n) THEN left[n] ELSE right[n]]
             h == [n \in Node |-> Met(Node, step, n) \ {NULL}]
  <2>1. step \in [Node -> Node] /\ NULL \in Node /\ step[NULL] = NULL
    BY DEF TreeTypes, Node
  <2>2. \A n \in Node : n # NULL => step[n] = IF GoesLeft(p, n) THEN left[n] ELSE right[n]
    OBVIOUS
  <2> HIDE DEF step
  <2>3. \A n \in Node : Met(Node, step, n) = {n} \cup Met(Node, step, step[n])
    BY <2>1, MetStep
  <2>4. Met(Node, step, NULL) = {NULL}
    <3>1. {NULL} \in SUBSET Node /\ Closed(Node, step, {NULL})
      BY <2>1 DEF Closed
    <3>2. PICK Y : Y = {NULL}
      OBVIOUS
    <3>3. ASSUME NEW k \in Met(Node, step, NULL) PROVE k \in Y
      BY <3>1, <3>2 DEF Met
    <3> QED
      BY <2>1, <2>3, <3>2, <3>3
  <2>5. ASSUME NEW n \in Node
        PROVE  h[n] = IF n = NULL THEN {}
                      ELSE {n} \cup h[IF GoesLeft(p, n) THEN left[n] ELSE right[n]]
    <3>1. CASE n = NULL
      BY <2>4, <3>1
    <3>2. CASE n # NULL
      <4>1. step[n] \in Node /\ step[n] = IF GoesLeft(p, n) THEN left[n] ELSE right[n]
        BY <2>1, <2>2, <3>2
      <4>2. h[n] = {n} \cup h[step[n]]
        BY <2>3, <3>2, <4>1
      <4> QED
        BY <3>2, <4>1, <4>2
    <3> QED
      BY <3>1, <3>2
  <2>6. h = [n \in Node |-> h[n]]
    OBVIOUS
  <2> HIDE DEF h
  <2>7. P(h)
    BY <2>5, <2>6
  <2> QED
    BY <2>7
<1>3. P(c)
  <2> HIDE DEF P
  <2> QED
    BY <1>2
<1>4. PICK d : d = c
  OBVIOUS
<1>5. d = [n \in Node |->
             IF n = NULL THEN {}
             ELSE {n} \cup c[IF GoesLeft(p, n) THEN left[n] ELSE right[n]]]
  BY <1>3, <1>4
<1> HIDE DEF c, P
<1>6. d[NULL] = {}
  BY <1>5 DEF Node
<1>7. ASSUME NEW n \in T
      PROVE  d[n] = {n} \cup d[IF range[p].low < range[n].low THEN left[n] ELSE right[n]]
  <2>1. n \in Node /\ n # NULL
    BY ApplyAssumption DEF Node
  <2> QED
    BY <1>4, <1>5, <2>1 DEF GoesLeft
<1> QED
  BY <1>1, <1>4, <1>6, <1>7 DEF DescentOf

-----------------------------------------------------------------------------
(* A patch that enters the tree becomes a leaf of it.                      *)

\* p has nothing below it.
Leaf(g, rk, T, p) == Sub(g, rk, T, p) = {p} /\ Lefts(g, rk, T, p) = {} /\ Rights(g, rk, T, p) = {}

\* A patch that comes last has nothing below it.
LEMMA LastIsLeaf ==
  ASSUME NEW g \in [Patch -> PatchRange], NEW rk, NEW T, NEW p, Follows(rk, T, p)
  PROVE  Leaf(g, rk, T \cup {p}, p)
<1>1. /\ p \in Patch /\ rk[p] \in Nat /\ \A m \in T : rk[m] \in Nat /\ ~(rk[m] <= rk[p])
  BY DEF Follows, Ordered
<1>2. Sub(g, rk, T \cup {p}, p) = {p}
  BY <1>1 DEF Sub
<1>3. ~Less(g, rk, p, p)
  <2>1. g[p].low \in Nat
    BY <1>1, RangeBounds
  <2> QED
    BY <1>1, <2>1 DEF Less
<1> QED
  BY <1>2, <1>3 DEF Lefts, Rights, Leaf

\* A side that gets p keeps its root, or gets p as its root where it was empty.
LEMMA TopGrows ==
  ASSUME NEW rk, NEW T, NEW p, Follows(rk, T, p), NEW A, NEW B, Grown(T, p, A, B),
         NEW x, Top(rk, A, x), NEW y,
         y = IF p \in B /\ x = NULL THEN p ELSE x
  PROVE  Top(rk, B, y)
<1>1. /\ NULL \notin T /\ p \notin T /\ rk[p] \in Nat
      /\ \A m \in T : rk[m] \in Nat /\ rk[p] < rk[m]
  BY ApplyAssumption DEF Follows, Ordered
<1>2. A \subseteq T /\ B \subseteq T \cup {p} /\ \A m \in T : m \in B <=> m \in A
  BY DEF Grown
<1>3. CASE p \notin B
  <2>1. B = A
    BY <1>1, <1>2, <1>3
  <2> QED
    BY <1>3, <2>1
<1>4. CASE p \in B
  <2>1. B = A \cup {p}
    BY <1>1, <1>2, <1>4
  <2>2. CASE A = {}
    <3>1. x = NULL /\ B = {p}
      BY <2>1, <2>2 DEF Top
    <3> QED
      BY <1>1, <1>4, <3>1 DEF Top
  <2>3. CASE A # {}
    <3>1. x \in A /\ \A m \in A : rk[m] <= rk[x]
      BY <2>3 DEF Top
    <3>2. y = x
      BY <1>1, <1>2, <3>1
    <3>3. \A m \in B : rk[m] <= rk[x]
      BY <1>1, <1>2, <2>1, <3>1
    <3> QED
      BY <2>1, <3>1, <3>2, <3>3 DEF Top
  <2> QED
    BY <2>2, <2>3
<1> QED
  BY <1>3, <1>4

\* The fields of the nodes after p has entered, where it has passed the nodes of D.
Entered(g, T, p, D, root, l, r, mx, root2, l2, r2, mx2) ==
  /\ root2 = IF root = NULL THEN p ELSE root
  /\ l2[p] = NULL /\ r2[p] = NULL /\ mx2[p] = g[p].high
  /\ \A n \in T :
       /\ l2[n] = IF n \in D /\ g[p].low < g[n].low /\ l[n] = NULL THEN p ELSE l[n]
       /\ r2[n] = IF n \in D /\ ~(g[p].low < g[n].low) /\ r[n] = NULL THEN p ELSE r[n]
       /\ mx2[n] = IF n \in D /\ mx[n] < g[p].high THEN g[p].high ELSE mx[n]

\* The tree is then the tree of the patches and p.
LEMMA LeafKeeps ==
  ASSUME NEW g \in [Patch -> PatchRange], NEW rk, NEW T, NEW p, Follows(rk, T, p),
         NEW root, NEW l, NEW r, NEW mx, TreeOf(g, rk, T, root, l, r, mx),
         NEW D, D = {m \in T : p \in Sub(g, rk, T \cup {p}, m)},
         NEW root2, NEW l2, NEW r2, NEW mx2,
         Entered(g, T, p, D, root, l, r, mx, root2, l2, r2, mx2)
  PROVE  TreeOf(g, rk, T \cup {p}, root2, l2, r2, mx2)
<1> DEFINE Q == T \cup {p}
<1>1. /\ NULL \notin T /\ p \notin T /\ p \in Patch /\ rk[p] \in Nat /\ Ordered(rk, T)
      /\ \A m \in T : rk[m] \in Nat /\ rk[p] < rk[m] /\ m \in Patch
  BY ApplyAssumption DEF Follows, Ordered
<1>2. Top(rk, Q, root2)
  <2>1. Grown(T, p, T, Q) /\ p \in Q
    BY DEF Grown
  <2>2. Top(rk, T, root) /\ root2 = IF p \in Q /\ root = NULL THEN p ELSE root
    BY <2>1 DEF TreeOf, Entered
  <2> HIDE DEF Q
  <2> QED
    BY <2>1, <2>2, TopGrows
<1>3. /\ Top(rk, Lefts(g, rk, Q, p), l2[p]) /\ Top(rk, Rights(g, rk, Q, p), r2[p])
      /\ Highest(g, Sub(g, rk, Q, p), mx2[p])
  <2>1. Leaf(g, rk, Q, p)
    BY LastIsLeaf
  <2>2. l2[p] = NULL /\ r2[p] = NULL /\ mx2[p] = g[p].high
    BY DEF Entered
  <2>3. g[p].high \in Nat
    BY <1>1, RangeBounds
  <2> HIDE DEF Q
  <2> QED
    BY <2>1, <2>2, <2>3 DEF Leaf, Top, Highest
<1>4. ASSUME NEW n \in T
      PROVE  /\ Top(rk, Lefts(g, rk, Q, n), l2[n]) /\ Top(rk, Rights(g, rk, Q, n), r2[n])
             /\ Highest(g, Sub(g, rk, Q, n), mx2[n])
  <2>1. /\ Grown(T, p, Sub(g, rk, T, n), Sub(g, rk, Q, n))
        /\ Grown(T, p, Lefts(g, rk, T, n), Lefts(g, rk, Q, n))
        /\ Grown(T, p, Rights(g, rk, T, n), Rights(g, rk, Q, n))
    BY SubGrows
  <2>2. /\ Less(g, rk, p, n) <=> g[p].low < g[n].low
        /\ Less(g, rk, n, p) <=> ~(g[p].low < g[n].low)
    BY LessNew
  <2>3. n \in D <=> p \in Sub(g, rk, Q, n)
    OBVIOUS
  <2>4. /\ p \in Lefts(g, rk, Q, n) <=> n \in D /\ g[p].low < g[n].low
        /\ p \in Rights(g, rk, Q, n) <=> n \in D /\ ~(g[p].low < g[n].low)
    BY <2>2, <2>3 DEF Lefts, Rights
  <2>5. /\ Top(rk, Lefts(g, rk, T, n), l[n]) /\ Top(rk, Rights(g, rk, T, n), r[n])
        /\ Highest(g, Sub(g, rk, T, n), mx[n])
    BY DEF TreeOf
  <2>6. /\ l2[n] = IF p \in Lefts(g, rk, Q, n) /\ l[n] = NULL THEN p ELSE l[n]
        /\ r2[n] = IF p \in Rights(g, rk, Q, n) /\ r[n] = NULL THEN p ELSE r[n]
        /\ mx2[n] = IF p \in Sub(g, rk, Q, n) /\ mx[n] < g[p].high THEN g[p].high ELSE mx[n]
    BY <2>3, <2>4 DEF Entered
  <2> HIDE DEF Q
  <2>7. Top(rk, Lefts(g, rk, Q, n), l2[n])
    BY <2>1, <2>5, <2>6, TopGrows
  <2>8. Top(rk, Rights(g, rk, Q, n), r2[n])
    BY <2>1, <2>5, <2>6, TopGrows
  <2>9. Highest(g, Sub(g, rk, Q, n), mx2[n])
    <3> DEFINE A == Sub(g, rk, T, n)
               B == Sub(g, rk, Q, n)
    <3>1. A \subseteq T /\ B \subseteq T \cup {p} /\ \A m \in T : m \in B <=> m \in A
      BY <2>1 DEF Grown
    <3>2. \A m \in T \cup {p} : g[m].high \in Nat
      BY <1>1, RangeBounds
    <3>3. (\E m \in A : g[m].high = mx[n]) /\ \A m \in A : g[m].high <= mx[n]
      BY <2>5 DEF Highest
    <3>4. mx2[n] = IF p \in B /\ mx[n] < g[p].high THEN g[p].high ELSE mx[n]
      BY <2>6
    <3> HIDE DEF A, B
    <3>5. mx[n] \in Nat
      BY <3>1, <3>2, <3>3
    <3>6. (\E m \in B : g[m].high = mx2[n]) /\ \A m \in B : g[m].high <= mx2[n]
      BY <3>1, <3>2, <3>3, <3>4, <3>5
    <3> QED
      BY <3>6 DEF B, Highest
  <2> QED
    BY <2>7, <2>8, <2>9
<1>5. \A n \in Q : n = p \/ n \in T
  OBVIOUS
<1> HIDE DEF Q
<1>6. TreeOf(g, rk, Q, root2, l2, r2, mx2)
  BY <1>2, <1>3, <1>4, <1>5 DEF TreeOf
<1> QED
  BY <1>6 DEF Q

\* An insertion makes the tree of the patches the tree of the patches and p.
LEMMA InsertKeeps ==
  ASSUME TreeTypes, NEW rk, NEW T, NEW p, Follows(rk, T, p),
         TreeOf(range, rk, T, it_root, left, right, max), Insert(p), max \in [Patch -> Addr]
  PROVE  /\ TreeOf(range, rk, T \cup {p}, it_root', left', right', max')
         /\ it_root' \in Node /\ left' \in [Patch -> Node] /\ right' \in [Patch -> Node]
         /\ max' \in [Patch -> Addr]
<1>1. /\ T \in SUBSET Patch /\ p \in Patch /\ p \notin T
      /\ range \in [Patch -> PatchRange]
  BY DEF Follows, Ordered, TreeTypes
<1>2. Descent(p) = {m \in T : p \in Sub(range, rk, T \cup {p}, m)}
  <2>1. PICK d : DescentOf(range, T, p, left, right, d) /\ Descent(p) = d[it_root]
    BY <1>1, DescentIs
  <2> QED
    BY <1>1, <2>1, DescentPasses
<1>3. /\ it_root' = IF it_root = NULL THEN p ELSE it_root
      /\ left'  = [n \in Patch |-> NewLink(p, left, n, GoesLeft(p, n))]
      /\ right' = [n \in Patch |-> NewLink(p, right, n, ~GoesLeft(p, n))]
      /\ max'   = [n \in Patch |-> NewMax(p, n)]
  BY DEF Insert
<1>4. Entered(range, T, p, Descent(p), it_root, left, right, max, it_root', left', right', max')
  <2>1. left'[p] = NULL /\ right'[p] = NULL /\ max'[p] = range[p].high
    BY <1>1, <1>3 DEF NewLink, NewMax
  <2>2. ASSUME NEW n \in T
        PROVE  /\ left'[n] = IF n \in Descent(p) /\ range[p].low < range[n].low /\ left[n] = NULL
                             THEN p ELSE left[n]
               /\ right'[n] = IF n \in Descent(p) /\ ~(range[p].low < range[n].low) /\ right[n] = NULL
                              THEN p ELSE right[n]
               /\ max'[n] = IF n \in Descent(p) /\ max[n] < range[p].high THEN range[p].high ELSE max[n]
    <3>1. n \in Patch /\ n # p
      BY <1>1
    <3> QED
      BY <1>3, <3>1 DEF NewLink, NewMax, GoesLeft
  <2> QED
    BY <1>3, <2>1, <2>2 DEF Entered
<1>5. PICK D : D = Descent(p)
  OBVIOUS
<1>6. PICK root2, l2, r2, mx2 : root2 = it_root' /\ l2 = left' /\ r2 = right' /\ mx2 = max'
  OBVIOUS
<1>7. TreeOf(range, rk, T \cup {p}, root2, l2, r2, mx2)
  <2>1. /\ D = {m \in T : p \in Sub(range, rk, T \cup {p}, m)}
        /\ Entered(range, T, p, D, it_root, left, right, max, root2, l2, r2, mx2)
    BY <1>2, <1>4, <1>5, <1>6
  <2> QED
    BY <1>1, <2>1, LeafKeeps
<1>8. /\ it_root' \in Node /\ left' \in [Patch -> Node] /\ right' \in [Patch -> Node]
      /\ max' \in [Patch -> Addr]
  <2>1. range[p].high \in Addr
    BY <1>1, RangeBounds
  <2> QED
    BY <1>1, <1>3, <2>1 DEF NewLink, NewMax, Node, TreeTypes
<1> QED
  BY <1>6, <1>7, <1>8

-----------------------------------------------------------------------------
(* What a patch writes, and when it is obsolete.                           *)

\* A search finds a patch that overlaps, or there is none.
LEMMA SearchRight ==
  ASSUME TreeTypes, NEW rk, NEW T, Ordered(rk, T),
         TreeOf(range, rk, T, it_root, left, right, max), NEW lo \in Nat, NEW hi \in Nat
  PROVE  Answers(range, lo, hi, T, Search(lo, hi))
<1>1. range \in [Patch -> PatchRange] /\ T \in SUBSET Patch
  BY DEF TreeTypes, Ordered
<1>2. PICK s : SearchOf(range, T, left, right, max, lo, hi, s) /\ Search(lo, hi) = s[it_root]
  BY <1>1, SearchIs
<1>3. Answers(range, lo, hi, T, s[it_root])
  BY <1>1, <1>2, SearchAnswers
<1> QED
  BY <1>2, <1>3

\* The addresses of lo..hi that no patch of T covers.
Open(T, lo, hi) == {a \in lo..hi : \A q \in T : ~Covers(q, a)}

\* One step of the splitting, where the overlap found is q and f has the rest.
Split(q, f, lo, hi) ==
  IF q = NULL THEN lo..hi
  ELSE (IF lo < range[q].low THEN f[<<lo, range[q].low - 1>>] ELSE {})
       \cup (IF hi > range[q].high THEN f[<<range[q].high + 1, hi>>] ELSE {})

\* The splitting of a range comes to parts that are addresses again, and shorter.
LEMMA PartsAreRanges ==
  ASSUME range \in [Patch -> PatchRange], NEW T \in SUBSET Patch,
         NEW lo \in Addr, NEW hi \in Addr, NEW q \in T, Hits(range, lo, hi, q)
  PROVE  /\ lo < range[q].low => range[q].low - 1 \in Addr /\ range[q].low - 1 < hi
         /\ hi > range[q].high => range[q].high + 1 \in Addr /\ lo < range[q].high + 1
<1>1. /\ range[q].low \in Nat /\ range[q].high \in Nat /\ range[q].low \in Addr /\ range[q].high \in Addr
      /\ range[q].low <= range[q].high
  BY RangeBounds
<1>2. NAddr \in Nat
  BY ApplyAssumption
<1> QED
  BY <1>1, <1>2 DEF Hits, Addr

\* Splitting around one patch keeps the open addresses.
LEMMA OpenSplits ==
  ASSUME range \in [Patch -> PatchRange], NEW T \in SUBSET Patch,
         NEW lo \in Addr, NEW hi \in Addr, NEW q, Answers(range, lo, hi, T, q),
         NEW f, q # NULL /\ lo < range[q].low =>
                  f[<<lo, range[q].low - 1>>] = Open(T, lo, range[q].low - 1),
         q # NULL /\ hi > range[q].high =>
                  f[<<range[q].high + 1, hi>>] = Open(T, range[q].high + 1, hi)
  PROVE  Split(q, f, lo, hi) = Open(T, lo, hi)
<1>0. NAddr \in Nat /\ lo \in Nat /\ hi \in Nat
  BY ApplyAssumption DEF Addr
<1>1. CASE q = NULL
  <2>1. \A m \in T : ~Hits(range, lo, hi, m)
    BY <1>1 DEF Answers
  <2>2. ASSUME NEW a \in lo..hi, NEW m \in T PROVE ~Covers(m, a)
    <3>1. range[m].low \in Nat /\ range[m].high \in Nat
      BY RangeBounds
    <3> QED
      BY <1>0, <2>1, <3>1 DEF Hits, Covers
  <2>3. Open(T, lo, hi) = lo..hi
    BY <2>2 DEF Open
  <2> QED
    BY <1>1, <2>3 DEF Split
<1>2. CASE q # NULL
  <2>1. q \in T /\ Hits(range, lo, hi, q)
    BY <1>2 DEF Answers
  <2>2. range[q].low \in Nat /\ range[q].high \in Nat
    BY <2>1, RangeBounds
  <2>3. range[q].low <= hi /\ lo <= range[q].high
    BY <2>1 DEF Hits
  <2> DEFINE x == range[q].low
             y == range[q].high
             A == IF lo < x THEN Open(T, lo, x - 1) ELSE {}
             B == IF hi > y THEN Open(T, y + 1, hi) ELSE {}
  <2>4. Split(q, f, lo, hi) = A \cup B
    BY <1>2 DEF Split
  <2>5. ASSUME NEW a, a \in Open(T, lo, hi) PROVE a \in A \cup B
    <3>1. a \in Nat /\ lo <= a /\ a <= hi /\ \A m \in T : ~Covers(m, a)
      BY <1>0, <2>5 DEF Open
    <3>2. ~(x <= a /\ a <= y)
      BY <2>1, <3>1 DEF Covers
    <3>3. CASE a < x
      BY <1>0, <2>2, <3>1, <3>3 DEF Open
    <3>4. CASE a > y
      BY <1>0, <2>2, <3>1, <3>4 DEF Open
    <3> QED
      BY <2>2, <3>1, <3>2, <3>3, <3>4
  <2>6. ASSUME NEW a, a \in A \cup B PROVE a \in Open(T, lo, hi)
    BY <1>0, <2>2, <2>3, <2>6 DEF Open
  <2>7. A \cup B = Open(T, lo, hi)
    <3> HIDE DEF A, B
    <3> QED
      BY <2>5, <2>6
  <2> QED
    BY <2>4, <2>7
<1> QED
  BY <1>1, <1>2

\* A function that splits ranges at the overlaps found has the open addresses.
LEMMA SplittingIsOpen ==
  ASSUME range \in [Patch -> PatchRange], NEW T \in SUBSET Patch, NEW ans,
         \A lo, hi \in Addr : Answers(range, lo, hi, T, ans[<<lo, hi>>]),
         NEW f, \A lo, hi \in Addr : f[<<lo, hi>>] = Split(ans[<<lo, hi>>], f, lo, hi)
  PROVE  \A lo, hi \in Addr : f[<<lo, hi>>] = Open(T, lo, hi)
<1>0. NAddr \in Nat /\ \A a \in Addr : a \in Nat /\ a < NAddr
  BY ApplyAssumption DEF Addr
<1> DEFINE Good(lo, hi) == f[<<lo, hi>>] = Open(T, lo, hi)
           Size(lo, hi) == hi + NAddr - lo
           S == {n \in Nat : \E lo, hi \in Addr : n = Size(lo, hi) /\ ~Good(lo, hi)}
<1>1. S = {}
  <2> SUFFICES ASSUME S # {} PROVE FALSE
    OBVIOUS
  <2>1. S \in SUBSET Nat
    OBVIOUS
  <2>2. PICK n \in S : \A k \in S : n <= k
    <3> HIDE DEF S
    <3> QED
      BY <2>1, LeastNumber
  <2>3. PICK lo \in Addr, hi \in Addr : n = Size(lo, hi) /\ ~Good(lo, hi)
    OBVIOUS
  <2>4. ASSUME NEW x \in Addr, NEW y \in Addr, Size(x, y) < Size(lo, hi) PROVE Good(x, y)
    <3> SUFFICES ASSUME ~Good(x, y) PROVE FALSE
      OBVIOUS
    <3>1. Size(x, y) \in Nat
      BY <1>0
    <3>2. Size(x, y) \in S
      BY <3>1
    <3>3. n \in Nat
      OBVIOUS
    <3> HIDE DEF S, Size
    <3> QED
      BY <2>2, <2>3, <2>4, <3>1, <3>2, <3>3
  <2> HIDE DEF S
  <2>5. PICK q : q = ans[<<lo, hi>>]
    OBVIOUS
  <2>6. Answers(range, lo, hi, T, q) /\ f[<<lo, hi>>] = Split(q, f, lo, hi)
    BY <2>5
  <2>7. q # NULL => q \in T /\ Hits(range, lo, hi, q)
    BY <2>6 DEF Answers
  <2>8. ASSUME q # NULL, lo < range[q].low PROVE Good(lo, range[q].low - 1)
    <3>1. range[q].low - 1 \in Addr /\ range[q].low - 1 < hi
      BY <2>7, <2>8, PartsAreRanges
    <3>2. Size(lo, range[q].low - 1) < Size(lo, hi)
      BY <1>0, <3>1
    <3> HIDE DEF Size, Good
    <3> QED
      BY <2>4, <3>1, <3>2
  <2>9. ASSUME q # NULL, hi > range[q].high PROVE Good(range[q].high + 1, hi)
    <3>1. range[q].high + 1 \in Addr /\ lo < range[q].high + 1
      BY <2>7, <2>9, PartsAreRanges
    <3>2. Size(range[q].high + 1, hi) < Size(lo, hi)
      BY <1>0, <3>1
    <3> HIDE DEF Size, Good
    <3> QED
      BY <2>4, <3>1, <3>2
  <2>10. /\ q # NULL /\ lo < range[q].low =>
              f[<<lo, range[q].low - 1>>] = Open(T, lo, range[q].low - 1)
         /\ q # NULL /\ hi > range[q].high =>
              f[<<range[q].high + 1, hi>>] = Open(T, range[q].high + 1, hi)
    BY <2>8, <2>9
  <2>11. Split(q, f, lo, hi) = Open(T, lo, hi)
    <3> HIDE DEF Good, Size
    <3> QED
      BY <2>6, <2>10, OpenSplits
  <2> QED
    BY <2>3, <2>6, <2>11
<1>2. ASSUME NEW lo \in Addr, NEW hi \in Addr PROVE Good(lo, hi)
  <2> SUFFICES ASSUME ~Good(lo, hi) PROVE FALSE
    OBVIOUS
  <2>1. Size(lo, hi) \in Nat
    BY <1>0
  <2>2. Size(lo, hi) \in S
    BY <2>1
  <2> HIDE DEF S
  <2> QED
    BY <1>1, <2>2
<1> QED
  BY <1>2

\* A patch writes exactly the addresses of its range that no patch of the tree covers.
LEMMA WrittenIs ==
  ASSUME TreeTypes, NEW rk, NEW T, Ordered(rk, T),
         TreeOf(range, rk, T, it_root, left, right, max), NEW lo \in Addr, NEW hi \in Addr
  PROVE  Written(lo, hi) = Open(T, lo, hi)
<1> DEFINE P(h) == h = [r \in Addr \X Addr |->
             LET p == Search(r[1], r[2])
             IN  IF p = NULL THEN r[1]..r[2]
                 ELSE (IF r[1] < range[p].low THEN h[<<r[1], range[p].low - 1>>] ELSE {})
                      \cup (IF r[2] > range[p].high THEN h[<<range[p].high + 1, r[2]>>] ELSE {})]
           c == CHOOSE h : P(h)
           ans == [r \in Addr \X Addr |-> Search(r[1], r[2])]
           o == [r \in Addr \X Addr |-> Open(T, r[1], r[2])]
<1>1. Written(lo, hi) = c[<<lo, hi>>]
  BY Zenon DEF Written
<1>2. range \in [Patch -> PatchRange] /\ T \in SUBSET Patch
  BY DEF TreeTypes, Ordered
<1>3. \A x, y \in Addr : Answers(range, x, y, T, ans[<<x, y>>])
  <2> SUFFICES ASSUME NEW x \in Addr, NEW y \in Addr PROVE Answers(range, x, y, T, ans[<<x, y>>])
    OBVIOUS
  <2>1. x \in Nat /\ y \in Nat
    BY ApplyAssumption DEF Addr
  <2>2. Answers(range, x, y, T, Search(x, y))
    BY <2>1, SearchRight
  <2>3. ans[<<x, y>>] = Search(x, y)
    OBVIOUS
  <2> QED
    BY <2>2, <2>3
<1>4. \A h : P(h) <=> h = [r \in Addr \X Addr |-> Split(ans[r], h, r[1], r[2])]
  BY DEF Split
<1>5. P(o)
  <2>1. ASSUME NEW x \in Addr, NEW y \in Addr PROVE o[<<x, y>>] = Split(ans[<<x, y>>], o, x, y)
    <3>1. PICK q : q = ans[<<x, y>>]
      OBVIOUS
    <3>2. Answers(range, x, y, T, q)
      BY <1>3, <3>1
    <3> HIDE DEF ans
    <3>3. ASSUME NEW u \in Addr, NEW v \in Addr PROVE o[<<u, v>>] = Open(T, u, v)
      OBVIOUS
    <3> HIDE DEF o
    <3>4. q # NULL => q \in T /\ Hits(range, x, y, q)
      BY <3>2 DEF Answers
    <3>5. ASSUME q # NULL, x < range[q].low
          PROVE  o[<<x, range[q].low - 1>>] = Open(T, x, range[q].low - 1)
      BY <1>2, <3>3, <3>4, <3>5, PartsAreRanges
    <3>6. ASSUME q # NULL, y > range[q].high
          PROVE  o[<<range[q].high + 1, y>>] = Open(T, range[q].high + 1, y)
      BY <1>2, <3>3, <3>4, <3>6, PartsAreRanges
    <3>7. Split(q, o, x, y) = Open(T, x, y)
      BY <1>2, <3>2, <3>5, <3>6, OpenSplits
    <3> QED
      BY <3>1, <3>3, <3>7
  <2> HIDE DEF ans, P
  <2>2. o = [r \in Addr \X Addr |-> o[r]]
    OBVIOUS
  <2> HIDE DEF o
  <2>3. o = [r \in Addr \X Addr |-> Split(ans[r], o, r[1], r[2])]
    <3>1. ASSUME NEW r \in Addr \X Addr PROVE o[r] = Split(ans[r], o, r[1], r[2])
      <4>1. r = <<r[1], r[2]>> /\ r[1] \in Addr /\ r[2] \in Addr
        OBVIOUS
      <4> QED
        BY <2>1, <4>1
    <3> QED
      BY <2>2, <3>1
  <2> QED
    BY <1>4, <2>3
<1>6. P(c)
  <2> HIDE DEF P, o
  <2> QED
    BY <1>5
<1>7. c = [r \in Addr \X Addr |-> Split(ans[r], c, r[1], r[2])]
  <2> HIDE DEF P, c, ans
  <2> QED
    BY <1>4, <1>6
<1>8. PICK f : f = c
  OBVIOUS
<1> HIDE DEF P, c, ans, o
<1>9. \A x, y \in Addr : f[<<x, y>>] = Split(ans[<<x, y>>], f, x, y)
  <2>1. f = [r \in Addr \X Addr |-> Split(ans[r], f, r[1], r[2])]
    BY <1>7, <1>8
  <2> QED
    BY <2>1
<1>10. f[<<lo, hi>>] = Open(T, lo, hi)
  BY <1>2, <1>3, <1>9, SplittingIsOpen
<1> QED
  BY <1>1, <1>8, <1>10

\* q hides p: p lies inside q.
Inside(g, p, q) == g[p].low >= g[q].low /\ g[p].high <= g[q].high

\* p is obsolete where the tree holds the patches of S.
Doomed(g, rk, S, p) ==
  \E root, l, r, mx, s :
    /\ TreeOf(g, rk, S, root, l, r, mx) /\ SearchOf(g, S, l, r, mx, g[p].low, g[p].high, s)
    /\ s[root] # NULL /\ Inside(g, p, s[root])

\* Whether a patch is applied depends on the patches in the tree only, not on
\* what the fields of the others hold.
LEMMA AppliedIs ==
  ASSUME TreeTypes, NEW rk, NEW T, Ordered(rk, T),
         TreeOf(range, rk, T, it_root, left, right, max), NEW p \in Patch
  PROVE  Applied(range[p].low, range[p].high) <=> ~Doomed(range, rk, T, p)
<1> DEFINE lo == range[p].low
           hi == range[p].high
<1>1. range \in [Patch -> PatchRange] /\ T \in SUBSET Patch
  BY DEF TreeTypes, Ordered
<1>2. lo \in Nat /\ hi \in Nat
  BY <1>1, RangeBounds
<1> HIDE DEF lo, hi
<1>3. PICK s : SearchOf(range, T, left, right, max, lo, hi, s) /\ Search(lo, hi) = s[it_root]
  BY <1>1, SearchIs
<1>4. Answers(range, lo, hi, T, s[it_root])
  BY <1>1, <1>2, <1>3, SearchAnswers
<1>5. s[it_root] # NULL => range[s[it_root]].low \in Nat /\ range[s[it_root]].high \in Nat
  BY <1>1, <1>4, RangeBounds DEF Answers
<1>6. Applied(lo, hi) <=> ~(s[it_root] # NULL /\ lo >= range[s[it_root]].low
                                             /\ hi <= range[s[it_root]].high)
  BY <1>2, <1>3, <1>5 DEF Applied
<1>7. ASSUME ~Applied(lo, hi) PROVE Doomed(range, rk, T, p)
  BY <1>3, <1>6, <1>7 DEF Doomed, Inside, lo, hi
<1>8. ASSUME Doomed(range, rk, T, p) PROVE ~Applied(lo, hi)
  <2>1. PICK root, l, r, mx, u :
          /\ TreeOf(range, rk, T, root, l, r, mx) /\ SearchOf(range, T, l, r, mx, lo, hi, u)
          /\ u[root] # NULL /\ Inside(range, p, u[root])
    BY <1>8 DEF Doomed, lo, hi
  <2>2. u[root] = s[it_root]
    BY <1>1, <1>3, <2>1, SearchUnique
  <2> QED
    BY <1>6, <2>1, <2>2 DEF Inside, lo, hi
<1> QED
  BY <1>7, <1>8 DEF lo, hi

\* A patch is obsolete only inside a newer one, and not where it meets none.
LEMMA DoomedIsInside ==
  ASSUME NEW g \in [Patch -> PatchRange], NEW rk, NEW T, Ordered(rk, T), NEW p \in Patch,
         Doomed(g, rk, T, p)
  PROVE  \E q \in T : Inside(g, p, q)
<1>1. PICK root, l, r, mx, s :
        /\ TreeOf(g, rk, T, root, l, r, mx) /\ SearchOf(g, T, l, r, mx, g[p].low, g[p].high, s)
        /\ s[root] # NULL /\ Inside(g, p, s[root])
  BY DEF Doomed
<1>2. g[p].low \in Nat /\ g[p].high \in Nat
  BY RangeBounds
<1>3. Answers(g, g[p].low, g[p].high, T, s[root])
  BY <1>1, <1>2, SearchAnswers
<1> QED
  BY <1>1, <1>3 DEF Answers

-----------------------------------------------------------------------------
(* The chain, as a sequence of patches from the newest to the oldest.      *)

Sorted(rk, s) ==
  /\ s \in Seq(Patch) /\ \A i \in 1..Len(s) : rk[s[i]] \in Nat
  /\ \A i, j \in 1..Len(s) : i < j => rk[s[i]] > rk[s[j]]

\* The patches of a chain are told apart by their ranks.
LEMMA SortedIsOrdered ==
  ASSUME NEW rk \in [Patch -> Nat], NEW s, Sorted(rk, s)
  PROVE  Ordered(rk, Members(s))
<1>1. s \in Seq(Patch) /\ Len(s) \in Nat /\ \A i, j \in 1..Len(s) : i < j => rk[s[i]] > rk[s[j]]
  BY DEF Sorted
<1>2. DOMAIN s = 1..Len(s) /\ \A i \in 1..Len(s) : s[i] \in Patch
  BY <1>1
<1>3. Members(s) \subseteq Patch
  BY <1>2 DEF Members
<1>4. ASSUME NEW i \in 1..Len(s), NEW j \in 1..Len(s), rk[s[i]] = rk[s[j]] PROVE s[i] = s[j]
  <2>1. i \in Nat /\ j \in Nat /\ rk[s[i]] \in Nat /\ rk[s[j]] \in Nat
    BY <1>1, <1>2
  <2> QED
    BY <1>1, <1>4, <2>1
<1> QED
  BY <1>2, <1>3, <1>4 DEF Ordered, Members

\* The first is the newest, the others form a chain.
LEMMA SortedTail ==
  ASSUME NEW rk, NEW s, Sorted(rk, s), s # <<>>
  PROVE  /\ Head(s) \in Patch /\ Sorted(rk, Tail(s))
         /\ Members(s) = {Head(s)} \cup Members(Tail(s)) /\ Head(s) \notin Members(Tail(s))
         /\ \A m \in Members(Tail(s)) : rk[m] < rk[Head(s)]
<1>1. /\ s \in Seq(Patch) /\ Len(s) \in Nat /\ Len(s) >= 1
      /\ \A i \in 1..Len(s) : s[i] \in Patch /\ rk[s[i]] \in Nat
      /\ \A i, j \in 1..Len(s) : i < j => rk[s[i]] > rk[s[j]]
  BY DEF Sorted
<1>2. PICK u : u = Tail(s)
  OBVIOUS
<1>3. /\ u \in Seq(Patch) /\ Len(u) = Len(s) - 1 /\ \A i \in 1..Len(u) : u[i] = s[i+1]
      /\ Head(s) = s[1] /\ DOMAIN u = 1..Len(u) /\ DOMAIN s = 1..Len(s)
  BY <1>1, <1>2
<1>4. Members(u) = {s[i] : i \in 2..Len(s)}
  <2>1. ASSUME NEW i \in 1..Len(u) PROVE u[i] \in {s[j] : j \in 2..Len(s)}
    BY <1>1, <1>3
  <2>2. ASSUME NEW j \in 2..Len(s) PROVE s[j] \in {u[i] : i \in 1..Len(u)}
    <3>1. j - 1 \in 1..Len(u) /\ (j - 1) + 1 = j
      BY <1>1, <1>3
    <3>2. u[j-1] = s[j]
      BY <1>3, <3>1
    <3> QED
      BY <3>1, <3>2
  <2> QED
    BY <1>3, <2>1, <2>2 DEF Members
<1>5. Members(s) = {s[i] : i \in 1..Len(s)} /\ 1..Len(s) = {1} \cup 2..Len(s)
  BY <1>1, <1>3 DEF Members
<1>6. ASSUME NEW i \in 2..Len(s) PROVE rk[s[i]] < rk[s[1]]
  <2>1. i \in 1..Len(s) /\ 1 \in 1..Len(s) /\ 1 < i
    BY <1>1
  <2> QED
    BY <1>1, <2>1
<1>7. \A m \in Members(u) : rk[m] < rk[Head(s)]
  BY <1>3, <1>4, <1>6
<1>8. Head(s) \notin Members(u)
  <2>1. rk[Head(s)] \in Nat
    BY <1>1, <1>3
  <2> QED
    BY <1>7, <2>1
<1>9. Sorted(rk, u)
  <2>1. ASSUME NEW i \in 1..Len(u) PROVE i+1 \in 1..Len(s) /\ u[i] = s[i+1]
    BY <1>1, <1>3
  <2>2. \A i \in 1..Len(u) : rk[u[i]] \in Nat
    BY <1>1, <2>1
  <2>3. ASSUME NEW i \in 1..Len(u), NEW j \in 1..Len(u), i < j PROVE rk[u[i]] > rk[u[j]]
    <3>1. i + 1 < j + 1
      BY <1>1, <1>3, <2>3
    <3> QED
      BY <1>1, <2>1, <3>1
  <2> QED
    BY <1>3, <2>2, <2>3 DEF Sorted
<1>10. Head(s) \in Patch /\ Members(s) = {Head(s)} \cup Members(u)
  BY <1>1, <1>3, <1>4, <1>5
<1> QED
  BY <1>2, <1>7, <1>8, <1>9, <1>10

\* A new patch in front makes a chain again.
LEMMA SortedPush ==
  ASSUME NEW rk \in [Patch -> Nat], NEW s, Sorted(rk, s), NEW p \in Patch, p \notin Members(s),
         NEW t \in Nat, \A m \in Members(s) : rk[m] < t
  PROVE  /\ Sorted([rk EXCEPT ![p] = t], <<p>> \o s)
         /\ Members(<<p>> \o s) = {p} \cup Members(s)
<1>1. /\ s \in Seq(Patch) /\ Len(s) \in Nat /\ DOMAIN s = 1..Len(s)
      /\ \A i \in 1..Len(s) : s[i] \in Patch /\ rk[s[i]] \in Nat
      /\ \A i, j \in 1..Len(s) : i < j => rk[s[i]] > rk[s[j]]
  BY DEF Sorted
<1>2. PICK u : u = <<p>> \o s
  OBVIOUS
<1>3. PICK q : q = [rk EXCEPT ![p] = t]
  OBVIOUS
<1>4. /\ u \in Seq(Patch) /\ Len(u) = Len(s) + 1 /\ DOMAIN u = 1..Len(u)
      /\ u[1] = p /\ \A i \in 1..Len(s) : u[i+1] = s[i]
  BY <1>1, <1>2
<1>5. \A i \in 1..Len(s) : s[i] # p /\ q[s[i]] = rk[s[i]] /\ rk[s[i]] < t
  BY <1>1, <1>3 DEF Members
<1>6. q[p] = t
  BY <1>3
<1>7. ASSUME NEW i \in 1..Len(u) PROVE i = 1 \/ (i - 1 \in 1..Len(s) /\ u[i] = s[i-1])
  <2>1. CASE i # 1
    <3>1. i - 1 \in 1..Len(s) /\ (i - 1) + 1 = i
      BY <1>1, <1>4, <2>1
    <3>2. u[i] = s[i-1]
      BY <1>4, <3>1
    <3> QED
      BY <3>1, <3>2
  <2> QED
    BY <2>1
<1>8. ASSUME NEW i \in 1..Len(u) PROVE q[u[i]] \in Nat
  <2>1. CASE i = 1
    BY <1>4, <1>6, <2>1
  <2>2. CASE i # 1
    <3>1. i - 1 \in 1..Len(s) /\ u[i] = s[i-1]
      BY <1>7, <2>2
    <3> QED
      BY <1>1, <1>5, <3>1
  <2> QED
    BY <2>1, <2>2
<1>9. ASSUME NEW i \in 1..Len(u), NEW j \in 1..Len(u), i < j PROVE q[u[i]] > q[u[j]]
  <2>1. j # 1 /\ j - 1 \in 1..Len(s) /\ u[j] = s[j-1]
    <3>1. j # 1
      BY <1>1, <1>4, <1>9
    <3> QED
      BY <1>7, <3>1
  <2>2. CASE i = 1
    BY <1>1, <1>4, <1>5, <1>6, <2>1, <2>2
  <2>3. CASE i # 1
    <3>1. i - 1 \in 1..Len(s) /\ u[i] = s[i-1] /\ i - 1 < j - 1
      BY <1>1, <1>4, <1>7, <1>9, <2>3
    <3> QED
      BY <1>1, <1>5, <2>1, <3>1
  <2> QED
    BY <2>2, <2>3
<1>10. Sorted(q, u)
  BY <1>4, <1>8, <1>9 DEF Sorted
<1>11. Members(u) = {p} \cup Members(s)
  <2>1. ASSUME NEW i \in 1..Len(u) PROVE u[i] \in {p} \cup Members(s)
    BY <1>1, <1>4, <1>7 DEF Members
  <2>2. ASSUME NEW i \in 1..Len(s) PROVE s[i] \in Members(u)
    <3>1. i + 1 \in 1..Len(u) /\ u[i+1] = s[i]
      BY <1>1, <1>4
    <3> QED
      BY <1>4, <3>1 DEF Members
  <2>3. p \in Members(u)
    <3>1. 1 \in 1..Len(u)
      BY <1>1, <1>4
    <3> QED
      BY <1>4, <3>1 DEF Members
  <2>4. Members(u) = {u[i] : i \in 1..Len(u)} /\ Members(s) = {s[i] : i \in 1..Len(s)}
    BY <1>1, <1>4 DEF Members
  <2> QED
    BY <2>1, <2>2, <2>3, <2>4
<1> QED
  BY <1>2, <1>3, <1>10, <1>11

\* Moving the link to a patch on takes out that patch and no other.
LEMMA SortedUnlink ==
  ASSUME NEW rk \in [Patch -> Nat], NEW s, Sorted(rk, s), NEW p \in Members(s)
  PROVE  Sorted(rk, Unlinked(s, p)) /\ Members(Unlinked(s, p)) = Members(s) \ {p}
<1>1. /\ s \in Seq(Patch) /\ Len(s) \in Nat /\ DOMAIN s = 1..Len(s)
      /\ \A i \in 1..Len(s) : s[i] \in Patch /\ rk[s[i]] \in Nat
      /\ \A i, j \in 1..Len(s) : i < j => rk[s[i]] > rk[s[j]]
  BY DEF Sorted
<1>2. PICK n \in 1..Len(s) : s[n] = p
  BY <1>1 DEF Members
<1>3. n \in Nat /\ n >= 1 /\ n <= Len(s)
  BY <1>1
<1>4. ASSUME NEW j \in 1..Len(s), s[j] = p PROVE j = n
  <2>1. j \in Nat /\ rk[s[j]] \in Nat /\ ~(rk[s[j]] > rk[s[n]]) /\ ~(rk[s[n]] > rk[s[j]])
    BY <1>1, <1>2, <1>4
  <2>2. ~(j < n) /\ ~(n < j)
    BY <1>1, <2>1
  <2> QED
    BY <1>3, <2>1, <2>2
<1>5. PICK u : u = Unlinked(s, p)
  OBVIOUS
<1>6. u = [i \in 1..Len(s)-1 |-> IF i < n THEN s[i] ELSE s[i+1]]
  <2>1. ASSUME NEW i \in 1..Len(s)-1 PROVE (\A j \in 1..i : s[j] # p) <=> i < n
    <3>1. i \in Nat /\ i <= Len(s)
      BY <1>1
    <3>2. ASSUME i < n, NEW j \in 1..i PROVE s[j] # p
      <4>1. j \in 1..Len(s) /\ j # n
        BY <1>1, <1>3, <3>1, <3>2
      <4> QED
        BY <1>4, <4>1
    <3>3. ASSUME ~(i < n) PROVE n \in 1..i
      BY <1>3, <3>1, <3>3
    <3> QED
      BY <1>2, <3>2, <3>3
  <2> QED
    BY <1>5, <2>1 DEF Unlinked
<1>7. Len(s) - 1 \in Nat
  BY <1>3, <1>1
<1>8. ASSUME NEW i \in 1..Len(s)-1
      PROVE  i \in Nat /\ i \in 1..Len(s) /\ i + 1 \in 1..Len(s)
  BY <1>1, <1>7
<1>9. u \in Seq(Patch) /\ Len(u) = Len(s) - 1 /\ DOMAIN u = 1..Len(u)
  <2>1. \A i \in 1..Len(s)-1 : u[i] \in Patch
    BY <1>1, <1>6, <1>8
  <2>2. u \in [1..Len(s)-1 -> Patch]
    BY <1>6, <2>1
  <2> QED
    BY <1>7, <2>2
<1>10. ASSUME NEW i \in 1..Len(u)
       PROVE  \E k \in 1..Len(s) : u[i] = s[k] /\ k # n /\ k = IF i < n THEN i ELSE i + 1
  <2>1. i \in 1..Len(s)-1
    BY <1>9
  <2>2. i \in Nat /\ i \in 1..Len(s) /\ i + 1 \in 1..Len(s)
    BY <1>8, <2>1
  <2>3. CASE i < n
    BY <1>3, <1>6, <2>1, <2>2, <2>3
  <2>4. CASE ~(i < n)
    <3>1. u[i] = s[i+1] /\ i + 1 # n
      BY <1>3, <1>6, <2>1, <2>2, <2>4
    <3> QED
      BY <2>2, <2>4, <3>1
  <2> QED
    BY <2>3, <2>4
<1>11. \A i \in 1..Len(u) : rk[u[i]] \in Nat
  BY <1>1, <1>10
<1>12. ASSUME NEW i \in 1..Len(u), NEW j \in 1..Len(u), i < j PROVE rk[u[i]] > rk[u[j]]
  <2>1. PICK k \in 1..Len(s) : u[i] = s[k] /\ k = IF i < n THEN i ELSE i + 1
    BY <1>10
  <2>2. PICK h \in 1..Len(s) : u[j] = s[h] /\ h = IF j < n THEN j ELSE j + 1
    BY <1>10
  <2>3. i \in Nat /\ j \in Nat
    BY <1>8, <1>9
  <2>4. k < h
    BY <1>3, <1>12, <2>1, <2>2, <2>3
  <2> QED
    BY <1>1, <2>1, <2>2, <2>4
<1>13. Sorted(rk, u)
  BY <1>9, <1>11, <1>12 DEF Sorted
<1>14. ASSUME NEW i \in 1..Len(u) PROVE u[i] \in Members(s) \ {p}
  <2>1. PICK k \in 1..Len(s) : u[i] = s[k] /\ k # n
    BY <1>10
  <2> QED
    BY <1>1, <1>4, <2>1 DEF Members
<1>15. ASSUME NEW k \in 1..Len(s), s[k] # p PROVE s[k] \in Members(u)
  <2>1. k # n /\ k \in Nat /\ k >= 1 /\ k <= Len(s)
    BY <1>1, <1>2, <1>15
  <2>2. CASE k < n
    <3>1. k \in 1..Len(s)-1
      BY <1>3, <1>7, <2>1, <2>2
    <3>2. u[k] = s[k]
      BY <1>6, <2>2, <3>1
    <3> QED
      BY <1>9, <3>1, <3>2 DEF Members
  <2>3. CASE ~(k < n)
    <3>1. k - 1 \in 1..Len(s)-1 /\ ~(k - 1 < n) /\ (k - 1) + 1 = k
      BY <1>3, <1>7, <2>1, <2>3
    <3>2. u[k-1] = s[(k-1)+1]
      BY <1>6, <3>1
    <3> QED
      BY <1>9, <3>1, <3>2 DEF Members
  <2> QED
    BY <2>2, <2>3
<1>16. Members(u) = Members(s) \ {p}
  <2>1. Members(u) = {u[i] : i \in 1..Len(u)} /\ Members(s) = {s[i] : i \in 1..Len(s)}
    BY <1>1, <1>9 DEF Members
  <2> QED
    BY <1>14, <1>15, <2>1
<1> QED
  BY <1>5, <1>13, <1>16

-----------------------------------------------------------------------------
(* A walk, said of sets: C is the patches of the chain, D those it has     *)
(* still to come to, T those in the tree, F those freed.                   *)

In(g, p, a) == g[p].low <= a /\ a <= g[p].high

Apart(g, p, q) == g[p].high < g[q].low \/ g[q].high < g[p].low

Newer(rk, S, p) == {q \in S : rk[q] > rk[p]}

\* la has, for each address, the newest patch of C that covers it.
LatestIs(g, rk, C, F, la) ==
  \A a \in Addr :
    /\ la[a] = NULL => \A m \in C : ~In(g, m, a)
    /\ la[a] # NULL => /\ la[a] \in C \ F /\ In(g, la[a], a)
                       /\ \A m \in C : In(g, m, a) => rk[m] <= rk[la[a]]

\* The walk goes from newer to older patches; what it has passed is covered by
\* the tree; and in a tree of equal or disjoint ranges no two are equal.
Walking(g, rk, T, C, D, F) ==
  /\ D \subseteq C /\ T \subseteq C \ D /\ T \cap F = {}
  /\ \A m \in C \ D, k \in D : rk[k] < rk[m]
  /\ \A m \in C \ D, a \in Addr : In(g, m, a) => \E q \in T : In(g, q, a) /\ rk[m] <= rk[q]
  /\ (\A m, q \in T : g[m] = g[q] \/ Apart(g, m, q)) => \A m, q \in T : m = q \/ Apart(g, m, q)

\* A replay has written what it has passed, from the newest.
Writing(C, D, F, mem, la) ==
  F = {} /\ \A a \in Addr : mem[a] = IF la[a] \in C \ D THEN la[a] ELSE NULL

\* The first pass has freed what is obsolete where the tree holds the newer
\* patches that it has not freed.
Freeing(g, rk, T, C, D, F) ==
  C \ D = T \cup F /\ \A m \in C \ D : m \in F <=> Doomed(g, rk, Newer(rk, T, m), m)

\* For the second pass the same patches are obsolete.
Deleting(g, rk, T, C, D, F) ==
  C \ D = T /\ \A m \in D : m \in F <=> Doomed(g, rk, Newer(rk, C \ F, m), m)

\* p comes next: the patches of D after it, the others of C before.
Comes(g, rk, C, D, p) ==
  /\ g \in [Patch -> PatchRange] /\ rk \in [Patch -> Nat] /\ Ordered(rk, C)
  /\ p \in C /\ p \notin D /\ \A k \in D : rk[k] < rk[p]

\* An obsolete patch is covered by one of the tree, and is the latest nowhere.
LEMMA ObsoleteIsCovered ==
  ASSUME NEW g, NEW rk, NEW T, NEW C, NEW D, NEW F, NEW p, Comes(g, rk, C, D, p),
         Walking(g, rk, T, C, {p} \cup D, F), Doomed(g, rk, T, p),
         NEW la, LatestIs(g, rk, C, F, la)
  PROVE  /\ \E q \in T : rk[p] < rk[q] /\ \A a \in Addr : In(g, p, a) => In(g, q, a)
         /\ \A a \in Addr : la[a] # p
<1>1. /\ g \in [Patch -> PatchRange] /\ Ordered(rk, C) /\ p \in Patch /\ p # NULL /\ rk[p] \in Nat
      /\ T \subseteq C /\ \A m \in C : m \in Patch /\ rk[m] \in Nat
  BY ApplyAssumption DEF Comes, Ordered, Walking
<1>2. Ordered(rk, T)
  BY <1>1 DEF Ordered
<1>3. PICK q \in T : Inside(g, p, q)
  BY <1>1, <1>2, DoomedIsInside
<1>4. rk[p] < rk[q] /\ q \in C
  BY DEF Walking
<1>5. ASSUME NEW a \in Addr, In(g, p, a) PROVE In(g, q, a)
  <2>1. /\ g[p].low \in Nat /\ g[p].high \in Nat /\ g[q].low \in Nat /\ g[q].high \in Nat
    BY <1>1, <1>4, RangeBounds
  <2>2. a \in Nat
    BY ApplyAssumption DEF Addr
  <2> QED
    BY <1>3, <1>5, <2>1, <2>2 DEF In, Inside
<1>6. ASSUME NEW a \in Addr, la[a] = p PROVE FALSE
  <2>1. In(g, p, a) /\ \A m \in C : In(g, m, a) => rk[m] <= rk[p]
    BY <1>1, <1>6 DEF LatestIs
  <2>2. rk[q] <= rk[p]
    BY <1>4, <1>5, <2>1
  <2> QED
    BY <1>1, <1>4, <2>2
<1> QED
  BY <1>4, <1>5, <1>6

\* What is the latest nowhere can be freed, and taken from the chain.
LEMMA LatestStays ==
  ASSUME NEW g, NEW rk, NEW C, NEW F, NEW la, LatestIs(g, rk, C, F, la),
         NEW p, \A a \in Addr : la[a] # p
  PROVE  LatestIs(g, rk, C, F \cup {p}, la) /\ LatestIs(g, rk, C \ {p}, F, la)
BY DEF LatestIs

\* The walk puts a patch into the tree.
LEMMA WalkApplies ==
  ASSUME NEW g, NEW rk, NEW T, NEW C, NEW D, NEW F, NEW p, Comes(g, rk, C, D, p), p \notin F,
         Walking(g, rk, T, C, {p} \cup D, F),
         NEW x, Answers(g, g[p].low, g[p].high, T, x), x # NULL => ~Inside(g, p, x)
  PROVE  Walking(g, rk, T \cup {p}, C, D, F)
<1>1. /\ g \in [Patch -> PatchRange] /\ p \in C /\ p \notin D /\ \A k \in D : rk[k] < rk[p]
      /\ \A m \in C : m \in Patch /\ rk[m] \in Nat
  BY DEF Comes, Ordered
<1>2. /\ {p} \cup D \subseteq C /\ T \subseteq C \ ({p} \cup D) /\ T \cap F = {}
      /\ \A m \in C \ ({p} \cup D), k \in {p} \cup D : rk[k] < rk[m]
      /\ \A m \in C \ ({p} \cup D), a \in Addr : In(g, m, a) => \E q \in T : In(g, q, a) /\ rk[m] <= rk[q]
      /\ (\A m, q \in T : g[m] = g[q] \/ Apart(g, m, q)) => \A m, q \in T : m = q \/ Apart(g, m, q)
  BY DEF Walking
<1>3. C \ D = {p} \cup (C \ ({p} \cup D))
  BY <1>1
<1>4. \A m \in C \ D, k \in D : rk[k] < rk[m]
  BY <1>1, <1>2, <1>3
<1>5. ASSUME NEW m \in C \ D, NEW a \in Addr, In(g, m, a)
      PROVE  \E q \in T \cup {p} : In(g, q, a) /\ rk[m] <= rk[q]
  <2>1. CASE m = p
    BY <1>1, <1>5, <2>1
  <2>2. CASE m # p
    BY <1>2, <1>3, <1>5, <2>2
  <2> QED
    BY <2>1, <2>2
<1>6. ASSUME \A m, q \in T \cup {p} : g[m] = g[q] \/ Apart(g, m, q)
      PROVE  \A m, q \in T \cup {p} : m = q \/ Apart(g, m, q)
  <2>1. \A m, q \in T : m = q \/ Apart(g, m, q)
    BY <1>2, <1>6
  <2>2. ASSUME NEW m \in T PROVE Apart(g, p, m) /\ Apart(g, m, p)
    <3>1. /\ g[p].low \in Nat /\ g[p].high \in Nat /\ g[p].low <= g[p].high
          /\ g[m].low \in Nat /\ g[m].high \in Nat /\ g[m].low <= g[m].high
      BY <1>1, <1>2, RangeBounds
    <3>2. CASE x = NULL
      <4>1. ~Hits(g, g[p].low, g[p].high, m)
        BY <3>2 DEF Answers
      <4> QED
        BY <3>1, <4>1 DEF Hits, Apart
    <3>3. CASE x # NULL
      <4>1. x \in T /\ Hits(g, g[p].low, g[p].high, x) /\ ~Inside(g, p, x)
        BY <3>3 DEF Answers
      <4>2. /\ g[x].low \in Nat /\ g[x].high \in Nat
        BY <1>1, <1>2, <4>1, RangeBounds
      <4>3. g[p] = g[x] \/ Apart(g, p, x)
        BY <1>6, <4>1
      <4>4. ~Apart(g, p, x)
        BY <3>1, <4>1, <4>2 DEF Apart, Hits
      <4> QED
        BY <3>1, <4>1, <4>3, <4>4 DEF Inside
    <3> QED
      BY <3>2, <3>3
  <2> QED
    BY <2>1, <2>2
<1>7. D \subseteq C /\ T \cup {p} \subseteq C \ D /\ (T \cup {p}) \cap F = {}
  BY <1>1, <1>2
<1> QED
  BY <1>4, <1>5, <1>6, <1>7 DEF Walking

\* It passes over a patch that the tree covers, whether that one is freed, deleted
\* or only left unwritten.
LEMMA WalkSkips ==
  ASSUME NEW g, NEW rk, NEW T, NEW C, NEW D, NEW F, NEW p, Comes(g, rk, C, D, p),
         Walking(g, rk, T, C, {p} \cup D, F),
         NEW q \in T, rk[p] < rk[q], \A a \in Addr : In(g, p, a) => In(g, q, a)
  PROVE  /\ Walking(g, rk, T, C, D, F) /\ Walking(g, rk, T, C, D, F \cup {p})
         /\ Walking(g, rk, T, C \ {p}, D, F)
<1>1. /\ p \in C /\ p \notin D /\ \A k \in D : rk[k] < rk[p]
      /\ \A m \in C : rk[m] \in Nat
  BY DEF Comes, Ordered
<1>2. /\ {p} \cup D \subseteq C /\ T \subseteq C \ ({p} \cup D) /\ T \cap F = {}
      /\ \A m \in C \ ({p} \cup D), k \in {p} \cup D : rk[k] < rk[m]
      /\ \A m \in C \ ({p} \cup D), a \in Addr : In(g, m, a) => \E i \in T : In(g, i, a) /\ rk[m] <= rk[i]
      /\ (\A m, i \in T : g[m] = g[i] \/ Apart(g, m, i)) => \A m, i \in T : m = i \/ Apart(g, m, i)
  BY DEF Walking
<1>3. C \ D = {p} \cup (C \ ({p} \cup D)) /\ (C \ {p}) \ D = C \ ({p} \cup D)
  BY <1>1
<1>4. \A m \in C \ D, k \in D : rk[k] < rk[m]
  BY <1>1, <1>2, <1>3
<1>5. ASSUME NEW m \in C \ D, NEW a \in Addr, In(g, m, a)
      PROVE  \E i \in T : In(g, i, a) /\ rk[m] <= rk[i]
  <2>1. CASE m = p
    <3>1. rk[q] \in Nat /\ rk[p] \in Nat
      BY <1>1, <1>2
    <3> QED
      BY <1>5, <2>1, <3>1
  <2>2. CASE m # p
    BY <1>2, <1>3, <1>5, <2>2
  <2> QED
    BY <2>1, <2>2
<1>6. D \subseteq C /\ T \subseteq C \ D /\ T \cap (F \cup {p}) = {} /\ D \subseteq C \ {p}
  BY <1>1, <1>2
<1>7. Walking(g, rk, T, C, D, F) /\ Walking(g, rk, T, C, D, F \cup {p})
  BY <1>2, <1>4, <1>5, <1>6 DEF Walking
<1>8. Walking(g, rk, T, C \ {p}, D, F)
  <2>1. \A m \in (C \ {p}) \ D, k \in D : rk[k] < rk[m]
    BY <1>4
  <2>2. \A m \in (C \ {p}) \ D, a \in Addr : In(g, m, a) => \E i \in T : In(g, i, a) /\ rk[m] <= rk[i]
    BY <1>5
  <2>3. T \subseteq (C \ {p}) \ D
    BY <1>2, <1>3
  <2> QED
    BY <1>2, <1>6, <2>1, <2>2, <2>3 DEF Walking
<1> QED
  BY <1>7, <1>8

\* A replay goes on: the open addresses of p are those p is the latest for.
LEMMA WriteApplies ==
  ASSUME NEW g, NEW rk, NEW T, NEW C, NEW D, NEW F, NEW p, Comes(g, rk, C, D, p),
         Walking(g, rk, T, C, {p} \cup D, F), NEW la, LatestIs(g, rk, C, F, la),
         NEW mem, Writing(C, {p} \cup D, F, mem, la), NEW mem2,
         \A a \in Addr : mem2[a] = IF In(g, p, a) /\ (\A q \in T : ~In(g, q, a)) THEN p ELSE mem[a]
  PROVE  Writing(C, D, F, mem2, la)
<1>1. /\ p \in C /\ p \notin D /\ p # NULL /\ \A k \in D : rk[k] < rk[p]
      /\ \A m \in C : rk[m] \in Nat
  BY ApplyAssumption DEF Comes, Ordered
<1>2. /\ T \subseteq C \ ({p} \cup D)
      /\ \A m \in C \ ({p} \cup D), k \in {p} \cup D : rk[k] < rk[m]
      /\ \A m \in C \ ({p} \cup D), a \in Addr : In(g, m, a) => \E q \in T : In(g, q, a) /\ rk[m] <= rk[q]
  BY DEF Walking
<1>3. ASSUME NEW a \in Addr PROVE mem2[a] = IF la[a] \in C \ D THEN la[a] ELSE NULL
  <2>1. mem[a] = IF la[a] \in C \ ({p} \cup D) THEN la[a] ELSE NULL
    BY DEF Writing
  <2>2. /\ la[a] = NULL => \A m \in C : ~In(g, m, a)
        /\ la[a] # NULL => /\ la[a] \in C /\ In(g, la[a], a)
                           /\ \A m \in C : In(g, m, a) => rk[m] <= rk[la[a]]
    BY DEF LatestIs
  <2>3. CASE In(g, p, a) /\ \A q \in T : ~In(g, q, a)
    <3>1. la[a] # NULL /\ la[a] \in C /\ In(g, la[a], a) /\ rk[p] <= rk[la[a]]
      BY <1>1, <2>2, <2>3
    <3>2. la[a] \notin C \ ({p} \cup D)
      BY <1>2, <2>3, <3>1
    <3>3. la[a] \notin D
      BY <1>1, <3>1
    <3>4. la[a] = p
      BY <3>1, <3>2, <3>3
    <3> QED
      BY <1>1, <2>3, <3>4
  <2>4. CASE ~(In(g, p, a) /\ \A q \in T : ~In(g, q, a))
    <3>1. ASSUME la[a] = p PROVE FALSE
      <4>1. In(g, p, a) /\ \A m \in C : In(g, m, a) => rk[m] <= rk[p]
        BY <1>1, <2>2, <3>1
      <4>2. PICK q \in T : In(g, q, a)
        BY <2>4, <4>1
      <4>3. rk[p] < rk[q] /\ q \in C
        BY <1>2
      <4> QED
        BY <1>1, <4>1, <4>2, <4>3
    <3>2. la[a] \in C \ D <=> la[a] \in C \ ({p} \cup D)
      BY <3>1
    <3> QED
      BY <2>1, <2>4, <3>2
  <2> QED
    BY <2>3, <2>4
<1> QED
  BY <1>3 DEF Writing

\* A replay passes over a patch that is the latest nowhere.
LEMMA WriteSkips ==
  ASSUME NEW C, NEW D, NEW F, NEW p, NEW mem, NEW la, Writing(C, {p} \cup D, F, mem, la),
         \A a \in Addr : la[a] # p
  PROVE  Writing(C, D, F, mem, la)
BY DEF Writing

\* The first pass keeps a patch, or frees it.
LEMMA FreeDecides ==
  ASSUME NEW g, NEW rk, NEW T, NEW C, NEW D, NEW F, NEW p, Comes(g, rk, C, D, p),
         Walking(g, rk, T, C, {p} \cup D, F), Freeing(g, rk, T, C, {p} \cup D, F)
  PROVE  /\ p \notin F
         /\ ~Doomed(g, rk, T, p) => Freeing(g, rk, T \cup {p}, C, D, F)
         /\ Doomed(g, rk, T, p) => Freeing(g, rk, T, C, D, F \cup {p})
<1>1. /\ p \in C /\ p \notin D /\ \A m \in C : rk[m] \in Nat
  BY DEF Comes, Ordered
<1>2. /\ T \subseteq C \ ({p} \cup D) /\ \A m \in C \ ({p} \cup D) : rk[p] < rk[m]
  BY DEF Walking
<1>3. /\ C \ ({p} \cup D) = T \cup F
      /\ \A m \in C \ ({p} \cup D) : m \in F <=> Doomed(g, rk, Newer(rk, T, m), m)
  BY DEF Freeing
<1>4. p \notin F /\ p \notin T /\ C \ D = {p} \cup (C \ ({p} \cup D))
  BY <1>1, <1>3
<1>5. Newer(rk, T, p) = T /\ Newer(rk, T \cup {p}, p) = T
  BY <1>1, <1>2 DEF Newer
<1>6. ASSUME NEW m \in C \ ({p} \cup D) PROVE Newer(rk, T \cup {p}, m) = Newer(rk, T, m)
  <2>1. ~(rk[p] > rk[m])
    BY <1>1, <1>2
  <2> QED
    BY <2>1 DEF Newer
<1>7. ASSUME ~Doomed(g, rk, T, p) PROVE Freeing(g, rk, T \cup {p}, C, D, F)
  <2>1. C \ D = (T \cup {p}) \cup F
    BY <1>3, <1>4
  <2>2. ASSUME NEW m \in C \ D PROVE m \in F <=> Doomed(g, rk, Newer(rk, T \cup {p}, m), m)
    <3>1. CASE m = p
      BY <1>4, <1>5, <1>7, <3>1
    <3>2. CASE m # p
      BY <1>3, <1>4, <1>6, <3>2
    <3> QED
      BY <3>1, <3>2
  <2> QED
    BY <2>1, <2>2 DEF Freeing
<1>8. ASSUME Doomed(g, rk, T, p) PROVE Freeing(g, rk, T, C, D, F \cup {p})
  <2>1. C \ D = T \cup (F \cup {p})
    BY <1>3, <1>4
  <2>2. ASSUME NEW m \in C \ D PROVE m \in F \cup {p} <=> Doomed(g, rk, Newer(rk, T, m), m)
    <3>1. CASE m = p
      BY <1>5, <1>8, <3>1
    <3>2. CASE m # p
      BY <1>3, <1>4, <3>2
    <3> QED
      BY <3>1, <3>2
  <2> QED
    BY <2>1, <2>2 DEF Freeing
<1> QED
  BY <1>4, <1>7, <1>8

\* The second pass starts where the first has decided.
LEMMA DeletingBegins ==
  ASSUME NEW g, NEW rk, NEW T, NEW C, NEW F,
         Walking(g, rk, T, C, {}, F), Freeing(g, rk, T, C, {}, F)
  PROVE  Deleting(g, rk, {}, C, C, F)
<1>1. C \ F = T /\ C \ {} = C
  BY DEF Walking, Freeing
<1>2. \A m \in C : m \in F <=> Doomed(g, rk, Newer(rk, C \ F, m), m)
  BY <1>1 DEF Freeing
<1> QED
  BY <1>2 DEF Deleting

\* It finds obsolete what the first has freed.
LEMMA DeleteDecides ==
  ASSUME NEW g, NEW rk, NEW T, NEW C, NEW D, NEW F, NEW p, Comes(g, rk, C, D, p),
         Walking(g, rk, T, C, {p} \cup D, F), Deleting(g, rk, T, C, {p} \cup D, F)
  PROVE  /\ p \in F <=> Doomed(g, rk, T, p)
         /\ p \notin F => Deleting(g, rk, T \cup {p}, C, D, F)
         /\ p \in F => Deleting(g, rk, T, C \ {p}, D, F)
<1>1. /\ p \in C /\ p \notin D /\ D \subseteq C /\ \A k \in D : rk[k] < rk[p]
      /\ \A m \in C : rk[m] \in Nat
  BY DEF Comes, Ordered, Walking
<1>2. /\ T \subseteq C \ ({p} \cup D) /\ T \cap F = {} /\ \A m \in C \ ({p} \cup D) : rk[p] < rk[m]
  BY DEF Walking
<1>3. /\ C \ ({p} \cup D) = T
      /\ \A m \in {p} \cup D : m \in F <=> Doomed(g, rk, Newer(rk, C \ F, m), m)
  BY DEF Deleting
<1>4. Newer(rk, C \ F, p) = T
  <2>1. ASSUME NEW m \in C \ F, rk[m] > rk[p] PROVE m \in T
    <3>1. m # p /\ m \notin D
      BY <1>1, <2>1
    <3> QED
      BY <1>3, <3>1
  <2>2. ASSUME NEW m \in T PROVE m \in C \ F /\ rk[m] > rk[p]
    BY <1>1, <1>2
  <2> QED
    BY <2>1, <2>2 DEF Newer
<1>5. p \in F <=> Doomed(g, rk, T, p)
  BY <1>3, <1>4
<1>6. ASSUME p \notin F PROVE Deleting(g, rk, T \cup {p}, C, D, F)
  <2>1. C \ D = T \cup {p}
    BY <1>1, <1>3
  <2> QED
    BY <1>3, <2>1 DEF Deleting
<1>7. ASSUME p \in F PROVE Deleting(g, rk, T, C \ {p}, D, F)
  <2>1. (C \ {p}) \ D = T /\ (C \ {p}) \ F = C \ F
    BY <1>3, <1>7
  <2> QED
    BY <1>3, <2>1 DEF Deleting
<1> QED
  BY <1>5, <1>6, <1>7

-----------------------------------------------------------------------------
(* The inductive invariant.  The patches have ranks, the newest the highest *)
(* (the program keeps none); T are the patches in the tree.                 *)

Types ==
  /\ chain \in Seq(Patch) /\ range \in [Patch -> PatchRange]
  /\ it_root \in Node /\ left \in [Patch -> Node] /\ right \in [Patch -> Node]
  /\ max \in [Patch -> Addr]
  /\ pc \in {"idle", "write", "free", "delete"} /\ todo \in Seq(Patch)
  /\ memory \in [Addr -> Node] /\ latest \in [Addr -> Node] /\ freed \in SUBSET Patch

Safe(t, rk, T) ==
  /\ Types /\ t \in Nat /\ rk \in [Patch -> Nat]
  /\ Sorted(rk, chain) /\ Sorted(rk, todo) /\ \A m \in Members(chain) : rk[m] < t
  /\ LatestIs(range, rk, Members(chain), freed, latest)
  /\ pc = "idle" => freed = {} /\ todo = <<>>
  /\ pc # "idle" => /\ TreeOf(range, rk, T, it_root, left, right, max)
                    /\ Walking(range, rk, T, Members(chain), Members(todo), freed)
  /\ pc = "write" => Writing(Members(chain), Members(todo), freed, memory, latest)
  /\ pc = "free" => Freeing(range, rk, T, Members(chain), Members(todo), freed)
  /\ pc = "delete" => Deleting(range, rk, T, Members(chain), Members(todo), freed)

IInv == \E t, rk, T : Safe(t, rk, T)

\* An empty chain has no patches.
LEMMA MembersOfNone == Members(<<>>) = {}
BY DEF Members

\* No walk has begun and nothing is staged.
LEMMA InitSafe ==
  ASSUME Init
  PROVE  IInv
<1> DEFINE rk == [p \in Patch |-> 0]
<1>1. 0 \in Addr /\ [low |-> 0, high |-> 0] \in PatchRange
  BY ApplyAssumption DEF Addr, PatchRange
<1>2. Types
  BY <1>1 DEF Init, Types, Node
<1>3. chain = <<>> /\ todo = <<>> /\ freed = {} /\ pc = "idle" /\ Members(chain) = {}
  BY MembersOfNone DEF Init
<1>4. Sorted(rk, <<>>)
  BY DEF Sorted
<1>5. LatestIs(range, rk, {}, {}, latest)
  BY DEF Init, LatestIs
<1>6. rk \in [Patch -> Nat] /\ 0 \in Nat
  OBVIOUS
<1> HIDE DEF rk
<1>7. Safe(0, rk, {})
  BY <1>2, <1>3, <1>4, <1>5, <1>6 DEF Safe
<1> QED
  BY <1>7 DEF IInv

\* A patch is staged: it is the latest for its addresses, and the newest.
LEMMA StageSafe ==
  ASSUME NEW t, NEW rk, NEW T, Safe(t, rk, T), NEW p \in Patch, NEW r \in PatchRange, Stage(p, r)
  PROVE  IInv'
<1> DEFINE q == [rk EXCEPT ![p] = t]
<1>1. /\ Types /\ t \in Nat /\ rk \in [Patch -> Nat] /\ Sorted(rk, chain) /\ Sorted(rk, todo)
      /\ \A m \in Members(chain) : rk[m] < t
      /\ LatestIs(range, rk, Members(chain), freed, latest) /\ freed = {} /\ todo = <<>>
      /\ pc = "idle"
  BY DEF Safe, Stage
<1>2. /\ pc' = "idle" /\ p \notin Members(chain) /\ chain' = <<p>> \o chain
      /\ range' = [range EXCEPT ![p] = r]
      /\ latest' = [a \in Addr |-> IF r.low <= a /\ a <= r.high THEN p ELSE latest[a]]
      /\ todo' = <<>> /\ freed' = {}
      /\ UNCHANGED <<it_root, left, right, max, memory>>
  BY <1>1 DEF Stage, tree
<1>3. Sorted(q, chain') /\ Members(chain') = {p} \cup Members(chain)
  BY <1>1, <1>2, SortedPush
<1>4. /\ q \in [Patch -> Nat] /\ t + 1 \in Nat /\ q[p] = t
      /\ \A m \in Patch : m # p => q[m] = rk[m]
  BY <1>1
<1>5. Members(chain) \subseteq Patch
  BY <1>1, SortedIsOrdered DEF Ordered
<1> HIDE DEF q
<1>6. ASSUME NEW m \in Members(chain')
      PROVE  q[m] < t + 1
  <2>1. m = p \/ (m \in Patch /\ m # p /\ rk[m] < t /\ rk[m] \in Nat)
    BY <1>1, <1>2, <1>3, <1>5
  <2> QED
    BY <1>1, <1>4, <2>1
<1>7. /\ range' \in [Patch -> PatchRange] /\ latest' \in [Addr -> Node]
      /\ range'[p] = r /\ \A m \in Patch : m # p => range'[m] = range[m]
  BY <1>1, <1>2 DEF Types, Node
<1>8. Types'
  <2>1. chain' \in Seq(Patch)
    BY <1>3 DEF Sorted
  <2> QED
    BY <1>1, <1>2, <1>7, <2>1 DEF Types
<1>9. LatestIs(range', q, Members(chain'), freed', latest')
  <2> SUFFICES ASSUME NEW a \in Addr
               PROVE  /\ latest'[a] = NULL => \A m \in Members(chain') : ~In(range', m, a)
                      /\ latest'[a] # NULL =>
                           /\ latest'[a] \in Members(chain') /\ In(range', latest'[a], a)
                           /\ \A m \in Members(chain') : In(range', m, a) => q[m] <= q[latest'[a]]
    BY <1>2 DEF LatestIs
  <2>1. ASSUME NEW m \in Members(chain)
        PROVE  /\ m # p /\ In(range', m, a) <=> In(range, m, a)
               /\ q[m] = rk[m] /\ rk[m] \in Nat /\ rk[m] < t
    BY <1>1, <1>2, <1>4, <1>5, <1>7 DEF In
  <2>2. In(range', p, a) <=> r.low <= a /\ a <= r.high
    BY <1>7 DEF In
  <2>3. CASE r.low <= a /\ a <= r.high
    <3>1. latest'[a] = p /\ p # NULL
      BY <1>2, <2>3, ApplyAssumption
    <3>2. \A m \in Members(chain') : q[m] <= q[p]
      BY <1>1, <1>3, <1>4, <2>1
    <3> QED
      BY <1>3, <2>2, <2>3, <3>1, <3>2
  <2>4. CASE ~(r.low <= a /\ a <= r.high)
    <3>1. latest'[a] = latest[a] /\ ~In(range', p, a)
      BY <1>2, <2>2, <2>4
    <3>2. /\ latest[a] = NULL => \A m \in Members(chain) : ~In(range, m, a)
          /\ latest[a] # NULL =>
               /\ latest[a] \in Members(chain) /\ In(range, latest[a], a)
               /\ \A m \in Members(chain) : In(range, m, a) => rk[m] <= rk[latest[a]]
      BY <1>1 DEF LatestIs
    <3> QED
      BY <1>3, <2>1, <3>1, <3>2
  <2> QED
    BY <2>3, <2>4
<1>10. Sorted(q, <<>>)
  BY DEF Sorted
<1>11. Safe(t + 1, q, T)'
  BY <1>2, <1>3, <1>4, <1>6, <1>8, <1>9, <1>10 DEF Safe
<1> QED
  BY <1>11 DEF IInv

\* A walk that begins has passed nothing.
LEMMA NothingPassed ==
  ASSUME NEW g, NEW rk, NEW C, NEW F, NEW l, NEW r, NEW mx
  PROVE  Walking(g, rk, {}, C, C, F) /\ TreeOf(g, rk, {}, NULL, l, r, mx)
BY DEF Walking, TreeOf, Top

\* A replay or a sweep begins.
LEMMA BeginSafe ==
  ASSUME NEW t, NEW rk, NEW T, Safe(t, rk, T), NEW walk \in {"write", "free"}, BeginWalk(walk)
  PROVE  IInv'
<1>1. /\ Types /\ t \in Nat /\ rk \in [Patch -> Nat] /\ Sorted(rk, chain)
      /\ \A m \in Members(chain) : rk[m] < t
      /\ LatestIs(range, rk, Members(chain), freed, latest) /\ freed = {}
  BY DEF Safe, BeginWalk
<1>2. /\ pc' = walk /\ todo' = chain /\ it_root' = NULL /\ memory' = [a \in Addr |-> NULL]
      /\ UNCHANGED <<chain, range, left, right, max, latest, freed>>
  BY DEF BeginWalk
<1>3. Types'
  BY <1>1, <1>2 DEF Types, Node
<1>4. PICK C : C = Members(chain)
  OBVIOUS
<1>5. /\ Walking(range, rk, {}, C, C, freed) /\ TreeOf(range, rk, {}, NULL, left, right, max)
  BY NothingPassed
<1>6. Writing(C, C, freed, memory', latest)
  BY <1>1, <1>2 DEF Writing
<1>7. Freeing(range, rk, {}, C, C, freed)
  BY <1>1 DEF Freeing
<1>8. Members(chain') = C /\ Members(todo') = C
  BY <1>2, <1>4
<1>9. Safe(t, rk, {})'
  BY <1>1, <1>2, <1>3, <1>4, <1>5, <1>6, <1>7, <1>8 DEF Safe
<1> QED
  BY <1>9 DEF IInv

\* What the invariant says of the patch a walk comes to.
NextIs(rk, T, C, D, p) ==
  /\ p = Head(todo) /\ C = Members(chain) /\ D = Members(Tail(todo)) /\ Members(todo) = {p} \cup D
  /\ Comes(range, rk, C, D, p) /\ Sorted(rk, Tail(todo))
  /\ Ordered(rk, T) /\ Follows(rk, T, p) /\ p \in Patch
  /\ Applied(range[p].low, range[p].high) <=> ~Doomed(range, rk, T, p)

\* The patch a walk comes to is older than those it has passed.
LEMMA NextComes ==
  ASSUME NEW t, NEW rk, NEW T, Safe(t, rk, T), pc # "idle", todo # <<>>
  PROVE  \E C, D, p : NextIs(rk, T, C, D, p)
<1>1. /\ Types /\ rk \in [Patch -> Nat] /\ Sorted(rk, chain) /\ Sorted(rk, todo)
      /\ TreeOf(range, rk, T, it_root, left, right, max)
      /\ Walking(range, rk, T, Members(chain), Members(todo), freed)
  BY DEF Safe
<1>2. PICK p : p = Head(todo)
  OBVIOUS
<1>3. PICK C : C = Members(chain)
  OBVIOUS
<1>4. PICK D : D = Members(Tail(todo))
  OBVIOUS
<1>5. /\ p \in Patch /\ Sorted(rk, Tail(todo)) /\ Members(todo) = {p} \cup D /\ p \notin D
      /\ \A m \in D : rk[m] < rk[p]
  BY <1>1, <1>2, <1>4, SortedTail
<1>6. Ordered(rk, C)
  BY <1>1, <1>3, SortedIsOrdered
<1>7. {p} \cup D \subseteq C /\ T \subseteq C \ ({p} \cup D) /\ \A m \in T : rk[p] < rk[m]
  BY <1>1, <1>3, <1>5 DEF Walking
<1>8. Comes(range, rk, C, D, p)
  BY <1>1, <1>5, <1>6, <1>7 DEF Comes, Types
<1>9. Ordered(rk, T) /\ Follows(rk, T, p)
  BY <1>5, <1>6, <1>7 DEF Ordered, Follows
<1>10. TreeTypes
  BY <1>1 DEF Types, TreeTypes
<1>11. Applied(range[p].low, range[p].high) <=> ~Doomed(range, rk, T, p)
  BY <1>1, <1>5, <1>9, <1>10, AppliedIs
<1> QED
  BY <1>2, <1>3, <1>4, <1>5, <1>8, <1>9, <1>11 DEF NextIs

\* A patch is applied.
LEMMA ApplySafe ==
  ASSUME NEW t, NEW rk, NEW T, Safe(t, rk, T), ApplyNext
  PROVE  IInv'
<1>1. /\ Types /\ t \in Nat /\ rk \in [Patch -> Nat] /\ Sorted(rk, chain)
      /\ \A m \in Members(chain) : rk[m] < t
      /\ LatestIs(range, rk, Members(chain), freed, latest) /\ pc # "idle"
      /\ TreeOf(range, rk, T, it_root, left, right, max)
      /\ Walking(range, rk, T, Members(chain), Members(todo), freed)
  BY DEF Safe, ApplyNext
<1>2. PICK C, D, p : NextIs(rk, T, C, D, p)
  BY NextComes DEF ApplyNext
<1>3. /\ p = Head(todo) /\ C = Members(chain) /\ D = Members(Tail(todo)) /\ Members(todo) = {p} \cup D
      /\ Comes(range, rk, C, D, p) /\ Sorted(rk, Tail(todo))
      /\ Ordered(rk, T) /\ Follows(rk, T, p) /\ p \in Patch
      /\ Applied(range[p].low, range[p].high) <=> ~Doomed(range, rk, T, p)
  BY <1>2 DEF NextIs
<1>4. /\ Applied(range[p].low, range[p].high) /\ Insert(p) /\ todo' = Tail(todo)
      /\ UNCHANGED <<chain, range, pc, latest, freed>>
      /\ memory' = IF pc # "write" THEN memory
                   ELSE [a \in Addr |-> IF a \in Written(range[p].low, range[p].high)
                                        THEN p ELSE memory[a]]
  BY <1>3 DEF ApplyNext
<1>5. ~Doomed(range, rk, T, p)
  BY <1>3, <1>4
<1>6. TreeTypes /\ max \in [Patch -> Addr]
  BY <1>1 DEF Types, TreeTypes
<1>7. /\ TreeOf(range, rk, T \cup {p}, it_root', left', right', max')
      /\ it_root' \in Node /\ left' \in [Patch -> Node] /\ right' \in [Patch -> Node]
      /\ max' \in [Patch -> Addr]
  BY <1>1, <1>3, <1>4, <1>6, InsertKeeps
<1>8. /\ range[p].low \in Addr /\ range[p].high \in Addr
      /\ range[p].low \in Nat /\ range[p].high \in Nat
  BY <1>3, <1>6, RangeBounds DEF TreeTypes
<1>9. Types'
  <2>1. memory' \in [Addr -> Node]
    BY <1>1, <1>3, <1>4 DEF Types, Node
  <2>2. todo' \in Seq(Patch)
    BY <1>3, <1>4 DEF Sorted
  <2> QED
    BY <1>1, <1>4, <1>7, <2>1, <2>2 DEF Types
<1>10. Walking(range, rk, T, C, {p} \cup D, freed) /\ LatestIs(range, rk, C, freed, latest)
  BY <1>1, <1>3
<1>11. p \notin freed
  <2>1. CASE pc = "write"
    BY <2>1 DEF Safe, Writing
  <2>2. CASE pc = "free"
    <3>1. Freeing(range, rk, T, C, {p} \cup D, freed)
      BY <1>3, <2>2 DEF Safe
    <3> QED
      BY <1>3, <1>10, <3>1, FreeDecides
  <2>3. CASE pc = "delete"
    <3>1. Deleting(range, rk, T, C, {p} \cup D, freed)
      BY <1>3, <2>3 DEF Safe
    <3> QED
      BY <1>3, <1>5, <1>10, <3>1, DeleteDecides
  <2> QED
    BY <1>1, <2>1, <2>2, <2>3 DEF Types
<1>12. Walking(range, rk, T \cup {p}, C, D, freed)
  <2>1. PICK x : x = Search(range[p].low, range[p].high)
    OBVIOUS
  <2>2. Answers(range, range[p].low, range[p].high, T, x)
    BY <1>1, <1>3, <1>6, <1>8, <2>1, SearchRight
  <2>3. x # NULL => ~Inside(range, p, x)
    <3>1. x # NULL => range[x].low \in Nat /\ range[x].high \in Nat
      <4>1. x # NULL => x \in Patch
        BY <1>3, <2>2 DEF Answers, Ordered
      <4> QED
        BY <1>6, <4>1, RangeBounds DEF TreeTypes
    <3> QED
      BY <1>4, <1>8, <2>1, <3>1 DEF Applied, Inside
  <2> QED
    BY <1>3, <1>10, <1>11, <2>2, <2>3, WalkApplies
<1>13. ASSUME pc = "write" PROVE Writing(C, D, freed, memory', latest)
  <2>1. Writing(C, {p} \cup D, freed, memory, latest)
    BY <1>3, <1>13 DEF Safe
  <2>2. Written(range[p].low, range[p].high) = Open(T, range[p].low, range[p].high)
    BY <1>1, <1>3, <1>6, <1>8, WrittenIs
  <2>3. ASSUME NEW a \in Addr
        PROVE  memory'[a] = IF In(range, p, a) /\ (\A q \in T : ~In(range, q, a)) THEN p ELSE memory[a]
    <3>1. a \in Nat
      BY ApplyAssumption DEF Addr
    <3>2. a \in Open(T, range[p].low, range[p].high)
            <=> In(range, p, a) /\ \A q \in T : ~In(range, q, a)
      BY <1>8, <3>1 DEF Open, In, Covers
    <3> QED
      BY <1>4, <1>13, <2>2, <3>2
  <2> QED
    BY <1>3, <1>10, <2>1, <2>3, WriteApplies
<1>14. ASSUME pc = "free" PROVE Freeing(range, rk, T \cup {p}, C, D, freed)
  <2>1. Freeing(range, rk, T, C, {p} \cup D, freed)
    BY <1>3, <1>14 DEF Safe
  <2> QED
    BY <1>3, <1>5, <1>10, <2>1, FreeDecides
<1>15. ASSUME pc = "delete" PROVE Deleting(range, rk, T \cup {p}, C, D, freed)
  <2>1. Deleting(range, rk, T, C, {p} \cup D, freed)
    BY <1>3, <1>15 DEF Safe
  <2> QED
    BY <1>3, <1>10, <1>11, <2>1, DeleteDecides
<1>16. Members(chain') = C /\ Members(todo') = D
  BY <1>3, <1>4
<1>17. Safe(t, rk, T \cup {p})'
  BY <1>1, <1>3, <1>4, <1>7, <1>9, <1>10, <1>12, <1>13, <1>14, <1>15, <1>16 DEF Safe
<1> QED
  BY <1>17 DEF IInv

\* A patch is passed over: the first pass frees it, the second deletes it.
LEMMA SkipSafe ==
  ASSUME NEW t, NEW rk, NEW T, Safe(t, rk, T), SkipNext
  PROVE  IInv'
<1>1. /\ Types /\ t \in Nat /\ rk \in [Patch -> Nat] /\ Sorted(rk, chain)
      /\ \A m \in Members(chain) : rk[m] < t
      /\ LatestIs(range, rk, Members(chain), freed, latest) /\ pc # "idle"
      /\ TreeOf(range, rk, T, it_root, left, right, max)
      /\ Walking(range, rk, T, Members(chain), Members(todo), freed)
  BY DEF Safe, SkipNext
<1>2. PICK C, D, p : NextIs(rk, T, C, D, p)
  BY NextComes DEF SkipNext
<1>3. /\ p = Head(todo) /\ C = Members(chain) /\ D = Members(Tail(todo)) /\ Members(todo) = {p} \cup D
      /\ Comes(range, rk, C, D, p) /\ Sorted(rk, Tail(todo)) /\ p \in Patch
      /\ Applied(range[p].low, range[p].high) <=> ~Doomed(range, rk, T, p)
  BY <1>2 DEF NextIs
<1>4. /\ ~Applied(range[p].low, range[p].high) /\ todo' = Tail(todo)
      /\ UNCHANGED <<range, it_root, left, right, max, pc, memory, latest>>
      /\ freed' = IF pc = "free" THEN freed \cup {p} ELSE freed
      /\ chain' = IF pc = "delete" THEN Unlinked(chain, p) ELSE chain
  BY <1>3 DEF SkipNext, tree
<1>5. Doomed(range, rk, T, p)
  BY <1>3, <1>4
<1>6. Walking(range, rk, T, C, {p} \cup D, freed) /\ LatestIs(range, rk, C, freed, latest)
  BY <1>1, <1>3
<1>7. /\ \E q \in T : rk[p] < rk[q] /\ \A a \in Addr : In(range, p, a) => In(range, q, a)
      /\ \A a \in Addr : latest[a] # p
  BY <1>3, <1>5, <1>6, ObsoleteIsCovered
<1>8. /\ Walking(range, rk, T, C, D, freed) /\ Walking(range, rk, T, C, D, freed \cup {p})
      /\ Walking(range, rk, T, C \ {p}, D, freed)
  BY <1>3, <1>6, <1>7, WalkSkips
<1>9. /\ LatestIs(range, rk, C, freed \cup {p}, latest) /\ LatestIs(range, rk, C \ {p}, freed, latest)
  BY <1>6, <1>7, LatestStays
<1>10. p \in C
  BY <1>3 DEF Comes
<1>11. Sorted(rk, Unlinked(chain, p)) /\ Members(Unlinked(chain, p)) = C \ {p}
  BY <1>1, <1>3, <1>10, SortedUnlink
<1>12. Sorted(rk, todo') /\ Members(todo') = D /\ todo' \in Seq(Patch)
  BY <1>3, <1>4 DEF Sorted
<1>13. CASE pc = "write"
  <2>1. freed' = freed /\ chain' = chain /\ pc' = "write" /\ Members(chain') = C
    BY <1>3, <1>4, <1>13
  <2>2. Writing(C, {p} \cup D, freed, memory, latest)
    BY <1>3, <1>13 DEF Safe
  <2>3. Writing(C, D, freed, memory, latest)
    BY <1>7, <2>2, WriteSkips
  <2>4. Types'
    BY <1>1, <1>4, <1>12, <2>1 DEF Types
  <2>5. Safe(t, rk, T)'
    BY <1>1, <1>3, <1>4, <1>6, <1>8, <1>12, <2>1, <2>3, <2>4 DEF Safe
  <2> QED
    BY <2>5 DEF IInv
<1>14. CASE pc = "free"
  <2>1. freed' = freed \cup {p} /\ chain' = chain /\ pc' = "free" /\ Members(chain') = C
    BY <1>3, <1>4, <1>14
  <2>2. Freeing(range, rk, T, C, {p} \cup D, freed)
    BY <1>3, <1>14 DEF Safe
  <2>3. Freeing(range, rk, T, C, D, freed \cup {p})
    BY <1>3, <1>5, <1>6, <2>2, FreeDecides
  <2>4. Types'
    BY <1>1, <1>3, <1>4, <1>12, <2>1 DEF Types
  <2>5. Safe(t, rk, T)'
    BY <1>1, <1>3, <1>4, <1>8, <1>9, <1>12, <2>1, <2>3, <2>4 DEF Safe
  <2> QED
    BY <2>5 DEF IInv
<1>15. CASE pc = "delete"
  <2>1. freed' = freed /\ chain' = Unlinked(chain, p) /\ pc' = "delete" /\ Members(chain') = C \ {p}
    BY <1>4, <1>11, <1>15
  <2>2. Deleting(range, rk, T, C, {p} \cup D, freed)
    BY <1>3, <1>15 DEF Safe
  <2>3. Deleting(range, rk, T, C \ {p}, D, freed)
    BY <1>3, <1>5, <1>6, <2>2, DeleteDecides
  <2>4. Types'
    <3>1. chain' \in Seq(Patch)
      BY <1>11, <2>1 DEF Sorted
    <3> QED
      BY <1>1, <1>4, <1>12, <2>1, <3>1 DEF Types
  <2>5. Safe(t, rk, T)'
    BY <1>1, <1>3, <1>4, <1>8, <1>9, <1>11, <1>12, <2>1, <2>3, <2>4 DEF Safe
  <2> QED
    BY <2>5 DEF IInv
<1> QED
  BY <1>1, <1>13, <1>14, <1>15 DEF Types

\* A walk ends, or the second pass of a sweep follows the first.
LEMMA EndSafe ==
  ASSUME NEW t, NEW rk, NEW T, Safe(t, rk, T), EndWalk
  PROVE  IInv'
<1>1. /\ Types /\ t \in Nat /\ rk \in [Patch -> Nat] /\ Sorted(rk, chain)
      /\ \A m \in Members(chain) : rk[m] < t
      /\ LatestIs(range, rk, Members(chain), freed, latest) /\ pc # "idle"
      /\ Walking(range, rk, T, Members(chain), Members(todo), freed)
  BY DEF Safe, EndWalk
<1>2. /\ todo = <<>> /\ Members(todo) = {}
  BY MembersOfNone DEF EndWalk
<1>3. PICK C : C = Members(chain)
  OBVIOUS
<1>4. CASE pc = "free"
  <2>1. /\ pc' = "delete" /\ todo' = chain /\ it_root' = NULL /\ freed' = freed
        /\ UNCHANGED <<chain, range, left, right, max, memory, latest>>
    BY <1>4 DEF EndWalk
  <2>2. Freeing(range, rk, T, C, {}, freed) /\ Walking(range, rk, T, C, {}, freed)
    BY <1>1, <1>2, <1>3, <1>4 DEF Safe
  <2>3. Deleting(range, rk, {}, C, C, freed)
    BY <2>2, DeletingBegins
  <2>4. Walking(range, rk, {}, C, C, freed) /\ TreeOf(range, rk, {}, NULL, left, right, max)
    BY NothingPassed
  <2>5. Types'
    BY <1>1, <2>1 DEF Types, Node
  <2>6. Members(chain') = C /\ Members(todo') = C
    BY <1>3, <2>1
  <2>7. Safe(t, rk, {})'
    BY <1>1, <1>3, <2>1, <2>3, <2>4, <2>5, <2>6 DEF Safe
  <2> QED
    BY <2>7 DEF IInv
<1>5. CASE pc # "free"
  <2>1. /\ pc' = "idle" /\ todo' = <<>> /\ freed' = {}
        /\ UNCHANGED <<chain, range, it_root, left, right, max, memory, latest>>
    BY <1>5 DEF EndWalk
  <2>2. Types'
    BY <1>1, <2>1 DEF Types
  <2>3. LatestIs(range, rk, C, {}, latest)
    BY <1>1, <1>3 DEF LatestIs
  <2>4. Sorted(rk, <<>>) /\ Members(chain') = C
    BY <1>3, <2>1 DEF Sorted
  <2>5. Safe(t, rk, T)'
    BY <1>1, <1>3, <2>1, <2>2, <2>3, <2>4 DEF Safe
  <2> QED
    BY <2>5 DEF IInv
<1> QED
  BY <1>4, <1>5

\* Nothing else is done.
LEMMA NextSafe ==
  ASSUME IInv, [Next]_vars
  PROVE  IInv'
<1>1. PICK t, rk, T : Safe(t, rk, T)
  BY DEF IInv
<1>2. CASE UNCHANGED vars
  <2>1. Safe(t, rk, T)'
    BY <1>1, <1>2 DEF Safe, Types, vars, tree
  <2> QED
    BY <2>1 DEF IInv
<1>3. ASSUME NEW p \in Patch, NEW r \in PatchRange, Stage(p, r) PROVE IInv'
  BY <1>1, <1>3, StageSafe
<1>4. ASSUME NEW walk \in {"write", "free"}, BeginWalk(walk) PROVE IInv'
  BY <1>1, <1>4, BeginSafe
<1>5. CASE ApplyNext
  BY <1>1, <1>5, ApplySafe
<1>6. CASE SkipNext
  BY <1>1, <1>6, SkipSafe
<1>7. CASE EndWalk
  BY <1>1, <1>7, EndSafe
<1> QED
  BY <1>2, <1>3, <1>4, <1>5, <1>6, <1>7 DEF Next

\* The inductive invariant holds in every state.
LEMMA AlwaysSafe == Spec => []IInv
<1>1. Init => IInv
  BY InitSafe
<1>2. IInv /\ [Next]_vars => IInv'
  BY NextSafe
<1> QED
  BY <1>1, <1>2, PTL DEF Spec

-----------------------------------------------------------------------------
(* The theorems.                                                           *)

\* What covers an address, for the properties and for the invariant.
LEMMA CoversIsIn == \A p, a : Covers(p, a) <=> In(range, p, a)
BY DEF Covers, In

\* The tree at any point of a walk: it holds patches the walk has passed, which
\* cover all that those cover, and a search finds one that overlaps wherever there is
\* one, although it follows one link at each node (mpatch.c:434-454).
TreeIsSearchable ==
  pc # "idle" =>
    \E T \in SUBSET Passed :
      /\ \A p \in Passed, a \in Addr : Covers(p, a) => \E q \in T : Covers(q, a)
      /\ \A lo, hi \in Addr :
           IF Search(lo, hi) = NULL THEN \A q \in T : ~Overlap(q, lo, hi)
           ELSE Search(lo, hi) \in T /\ Overlap(Search(lo, hi), lo, hi)

\* The fields keep their types, and the interval tree answers every search, for
\* any ranges and whatever earlier walks left in the links.
THEOREM TreeAnswersSearches == Spec => [](Types /\ TreeIsSearchable)
<1>1. IInv => Types /\ TreeIsSearchable
  <2> SUFFICES ASSUME IInv PROVE Types /\ TreeIsSearchable
    OBVIOUS
  <2>1. PICK t, rk, T : Safe(t, rk, T)
    BY DEF IInv
  <2>2. Types /\ rk \in [Patch -> Nat] /\ Sorted(rk, chain)
    BY <2>1 DEF Safe
  <2>3. ASSUME pc # "idle" PROVE TreeIsSearchable
    <3>1. /\ TreeOf(range, rk, T, it_root, left, right, max)
          /\ Walking(range, rk, T, Members(chain), Members(todo), freed)
      BY <2>1, <2>3 DEF Safe
    <3>2. T \in SUBSET Passed
      BY <3>1 DEF Walking, Passed
    <3>3. ASSUME NEW p \in Passed, NEW a \in Addr, Covers(p, a) PROVE \E q \in T : Covers(q, a)
      BY <3>1, <3>3, CoversIsIn DEF Walking, Passed
    <3>4. Ordered(rk, Members(chain))
      BY <2>2, SortedIsOrdered
    <3>5. Ordered(rk, T) /\ TreeTypes
      BY <2>2, <3>2, <3>4 DEF Ordered, Passed, Types, TreeTypes
    <3>6. ASSUME NEW lo \in Addr, NEW hi \in Addr
          PROVE  IF Search(lo, hi) = NULL THEN \A q \in T : ~Overlap(q, lo, hi)
                 ELSE Search(lo, hi) \in T /\ Overlap(Search(lo, hi), lo, hi)
      <4>1. lo \in Nat /\ hi \in Nat
        BY ApplyAssumption DEF Addr
      <4>2. Answers(range, lo, hi, T, Search(lo, hi))
        BY <3>1, <3>5, <4>1, SearchRight
      <4> QED
        BY <4>2 DEF Answers, Hits, Overlap
    <3> QED
      BY <3>2, <3>3, <3>6 DEF TreeIsSearchable
  <2> QED
    BY <2>2, <2>3 DEF TreeIsSearchable
<1> QED
  BY <1>1, AlwaysSafe, PTL

\* At every point of a replay exactly the addresses for which a patch has been
\* passed are written, each from the patch staged for it last: mpatch_apply and
\* the interval tree, whatever ranges the patches have and whatever was left in
\* their links, split without a gap and without an overlap (mpatch.c:477).
THEOREM ReplayWritesTheNewest == Spec => []NewestWins
<1>1. IInv => NewestWins
  <2> SUFFICES ASSUME IInv, pc = "write" PROVE NewestWins
    BY DEF NewestWins
  <2>1. PICK t, rk, T : Safe(t, rk, T)
    BY DEF IInv
  <2>2. Writing(Members(chain), Members(todo), freed, memory, latest)
    BY <2>1 DEF Safe
  <2> QED
    BY <2>2 DEF Writing, NewestWins, Passed
<1> QED
  BY <1>1, AlwaysSafe, PTL

\* A sweep frees and deletes only patches that are the latest for no address
\* (mpatch.c:550-558): what mpatch_apply reports obsolete lies inside one newer
\* patch that stays.
THEOREM SweepLosesNothing == Spec => []NothingLost
<1>1. IInv => NothingLost
  <2> SUFFICES ASSUME IInv, NEW a \in Addr, latest[a] # NULL
               PROVE  latest[a] \in Members(chain) \ freed /\ Covers(latest[a], a)
    BY DEF NothingLost
  <2>1. PICK t, rk, T : Safe(t, rk, T)
    BY DEF IInv
  <2>2. LatestIs(range, rk, Members(chain), freed, latest)
    BY <2>1 DEF Safe
  <2> QED
    BY <2>2, CoversIsIn DEF LatestIs
<1> QED
  BY <1>1, AlwaysSafe, PTL

\* The deleting pass decides about each patch as the freeing pass did
\* (mpatch.c:584-605), although it builds its tree in links the other has used:
\* the tree, and with it every answer of the search, depends only on the patches
\* in it, their ranges and their order.
THEOREM SweepPassesAgree == Spec => PassesAgree
<1> DEFINE Agree == pc = "delete" /\ todo # <<>> =>
                      (Head(todo) \in freed <=> Head(todo) \notin Members(chain'))
<1>1. ASSUME IInv, [Next]_vars PROVE [Agree]_vars
  <2> SUFFICES ASSUME Next, pc = "delete", todo # <<>>
               PROVE  Head(todo) \in freed <=> Head(todo) \notin Members(chain')
    BY <1>1
  <2>1. PICK t, rk, T : Safe(t, rk, T)
    BY <1>1 DEF IInv
  <2>2. PICK C, D, p : NextIs(rk, T, C, D, p)
    BY <2>1, NextComes
  <2>3. /\ p = Head(todo) /\ C = Members(chain) /\ Members(todo) = {p} \cup D
        /\ Comes(range, rk, C, D, p) /\ p \in C
        /\ Applied(range[p].low, range[p].high) <=> ~Doomed(range, rk, T, p)
    BY <2>2 DEF NextIs, Comes
  <2>4. /\ Walking(range, rk, T, C, {p} \cup D, freed)
        /\ Deleting(range, rk, T, C, {p} \cup D, freed)
    BY <2>1, <2>3 DEF Safe
  <2>5. p \in freed <=> ~Applied(range[p].low, range[p].high)
    BY <2>3, <2>4, DeleteDecides
  <2>6. CASE ApplyNext
    <3>1. Applied(range[p].low, range[p].high) /\ chain' = chain
      BY <2>3, <2>6 DEF ApplyNext
    <3> QED
      BY <2>3, <2>5, <3>1
  <2>7. CASE SkipNext
    <3>1. ~Applied(range[p].low, range[p].high) /\ chain' = Unlinked(chain, p)
      BY <2>3, <2>7 DEF SkipNext
    <3>2. rk \in [Patch -> Nat] /\ Sorted(rk, chain)
      BY <2>1 DEF Safe
    <3>3. Members(Unlinked(chain, p)) = C \ {p}
      BY <2>3, <3>2, SortedUnlink
    <3> QED
      BY <2>3, <2>5, <3>1, <3>3
  <2>8. CASE EndWalk \/ (\E q \in Patch, r \in PatchRange : Stage(q, r))
             \/ \E walk \in {"write", "free"} : BeginWalk(walk)
    BY <2>8 DEF EndWalk, Stage, BeginWalk
  <2> QED
    BY <2>6, <2>7, <2>8 DEF Next
<1>2. Spec => [][Agree]_vars
  <2> HIDE DEF Agree
  <2> QED
    BY <1>1, AlwaysSafe, PTL DEF Spec
<1> QED
  BY <1>2 DEF PassesAgree

\* Where ranges are equal or disjoint, as the memory tracker's are
\* (checkpoint_memtracker.c:52), the patches a sweep has passed and kept are each
\* the latest for all its addresses: no two of one range are left.
THEOREM SweepKeepsNoDouble == Spec => []SweepIsComplete
<1>1. IInv => SweepIsComplete
  <2> SUFFICES ASSUME IInv, pc = "delete", Aligned, NEW p \in Passed, NEW a \in Addr, Covers(p, a)
               PROVE  latest[a] = p
    BY DEF SweepIsComplete
  <2>1. PICK t, rk, T : Safe(t, rk, T)
    BY DEF IInv
  <2>2. PICK C, D : C = Members(chain) /\ D = Members(todo)
    OBVIOUS
  <2>3. /\ Types /\ rk \in [Patch -> Nat] /\ Sorted(rk, chain) /\ LatestIs(range, rk, C, freed, latest)
        /\ Walking(range, rk, T, C, D, freed) /\ Deleting(range, rk, T, C, D, freed)
    BY <2>1, <2>2 DEF Safe
  <2>4. Ordered(rk, C)
    BY <2>2, <2>3, SortedIsOrdered
  <2>5. p \in T /\ T = C \ D /\ \A m \in C : m \in Patch /\ rk[m] \in Nat
    BY <2>2, <2>3, <2>4 DEF Passed, Deleting, Ordered
  <2>6. \A m, q \in C : range[m] = range[q] \/ Apart(range, m, q)
    BY <2>2 DEF Aligned, Apart
  <2>7. \A m, q \in T : m = q \/ Apart(range, m, q)
    BY <2>3, <2>5, <2>6 DEF Walking
  <2>8. In(range, p, a)
    BY CoversIsIn
  <2>9. /\ latest[a] \in C /\ In(range, latest[a], a) /\ rk[p] <= rk[latest[a]]
    BY <2>3, <2>5, <2>8 DEF LatestIs
  <2>10. latest[a] \in T
    <3>1. \A k \in D : rk[k] < rk[p]
      BY <2>3, <2>5 DEF Walking
    <3>2. latest[a] \notin D
      BY <2>5, <2>9, <3>1
    <3> QED
      BY <2>5, <2>9, <3>2
  <2>11. ~Apart(range, latest[a], p)
    <3>1. /\ range[p].low \in Nat /\ range[p].high \in Nat
          /\ range[latest[a]].low \in Nat /\ range[latest[a]].high \in Nat
      BY <2>3, <2>5, <2>9, RangeBounds DEF Types
    <3>2. a \in Nat
      BY ApplyAssumption DEF Addr
    <3> QED
      BY <2>8, <2>9, <3>1, <3>2 DEF In, Apart
  <2> QED
    BY <2>5, <2>7, <2>10, <2>11
<1> QED
  BY <1>1, AlwaysSafe, PTL
=============================================================================
