----------------------------- MODULE SumsProofs -----------------------------
(***************************************************************************)
(* Induction over the naturals, that a recursive definition on them has    *)
(* the function it describes, and the laws of sums that follow.  The       *)
(* library's induction theorems take the predicate as a parameter; here a  *)
(* set takes its place, and the least number principle is the start.       *)
(***************************************************************************)
EXTENDS Sums, WellFoundedInduction, TLAPS

-----------------------------------------------------------------------------
(* Induction and recursion over the naturals *)

\* The least number principle: a nonempty set of naturals has a least element.
LEMMA LeastNumber ==
    ASSUME NEW T, T \subseteq Nat, T # {}
    PROVE  \E x \in T : \A y \in T : x <= y
<1>1. PICK x \in T : \A y \in T : <<y, x>> \notin OpToRel(<, Nat)
    BY NatLessThanWellFounded, WFMin, Zenon
<1>2. ASSUME NEW y \in T
      PROVE  x <= y
    <2>1. <<y, x>> \notin OpToRel(<, Nat)
        BY <1>1, Zenon
    <2>2. ~(y < x)
        BY <2>1 DEF OpToRel
    <2> QED  BY <2>2
<1> QED  BY <1>2

\* Induction: a set that has 0 and with every number its successor has them all.
LEMMA Induction ==
    ASSUME NEW T, 0 \in T, \A n \in Nat : n \in T => n + 1 \in T
    PROVE  Nat \subseteq T
<1> SUFFICES ASSUME Nat \ T # {}
             PROVE  FALSE
    OBVIOUS
<1>1. PICK x \in Nat \ T : \A y \in Nat \ T : x <= y
    <2>1. Nat \ T \subseteq Nat
        OBVIOUS
    <2> QED  BY <2>1, LeastNumber
<1>2. x # 0 /\ x - 1 \in Nat
    BY <1>1
<1>3. x - 1 \in T
    BY <1>1, <1>2
<1> QED  BY <1>1, <1>2, <1>3

\* g starts with c and takes the n first steps, or all of them.
Takes(g, c, step, n) == g[0] = c /\ \A k \in Nat : k < n => g[k + 1] = step[k][g[k]]
TakesAll(g, c, step) == g[0] = c /\ \A k \in Nat : g[k + 1] = step[k][g[k]]

\* Two functions that follow the same recursion agree as far as both go.
LEMMA RecursionAgrees ==
    ASSUME NEW c, NEW step, NEW n \in Nat, NEW g, NEW h,
           Takes(g, c, step, n), Takes(h, c, step, n)
    PROVE  \A k \in 0..n : g[k] = h[k]
<1> DEFINE T == {k \in Nat : k <= n => g[k] = h[k]}
<1>1. 0 \in T
    BY DEF Takes
<1>2. ASSUME NEW k \in Nat, k \in T
      PROVE  k + 1 \in T
    <2> SUFFICES ASSUME k + 1 <= n
                 PROVE  g[k + 1] = h[k + 1]
        OBVIOUS
    <2>1. g[k] = h[k]
        BY <1>2
    <2>2. k < n
        OBVIOUS
    <2> QED  BY <2>1, <2>2 DEF Takes
<1> HIDE DEF T
<1>3. Nat \subseteq T
    BY <1>1, <1>2, Induction
<1> QED  BY <1>3 DEF T

\* A function given by its value at 0 and its steps exists on all of Nat.
LEMMA RecursionExists ==
    ASSUME NEW S, NEW c \in S, NEW step \in [Nat -> [S -> S]]
    PROVE  \E g \in [Nat -> S] : TakesAll(g, c, step)
<1> DEFINE T == {n \in Nat : \E g \in [0..n -> S] : Takes(g, c, step, n)}
           G(n) == CHOOSE g \in [0..n -> S] : Takes(g, c, step, n)
           f == [n \in Nat |-> G(n)[n]]
<1>1. 0 \in T
    <2> DEFINE g == [i \in 0..0 |-> c]
    <2>1. Takes(g, c, step, 0) /\ g \in [0..0 -> S]
        BY DEF Takes
    <2> QED  BY <2>1
<1>2. ASSUME NEW n \in Nat, n \in T
      PROVE  n + 1 \in T
    <2>1. PICK g \in [0..n -> S] : Takes(g, c, step, n)
        BY <1>2
    <2> DEFINE h == [i \in 0..(n + 1) |-> IF i <= n THEN g[i] ELSE step[n][g[n]]]
    <2>2. g[n] \in S
        BY <2>1
    <2>3. h \in [0..(n + 1) -> S]
        BY <2>1, <2>2
    <2>4. h[0] = c
        BY <2>1 DEF Takes
    <2>5. ASSUME NEW k \in Nat, k < n + 1
          PROVE  h[k + 1] = step[k][h[k]]
        <3>1. CASE k < n
            BY <3>1, <2>1 DEF Takes
        <3>2. CASE k = n
            BY <3>2
        <3> QED  BY <2>5, <3>1, <3>2
    <2> HIDE DEF h
    <2>6. Takes(h, c, step, n + 1)
        BY <2>4, <2>5 DEF Takes
    <2> QED  BY <2>6, <2>3
<1> HIDE DEF T
<1>3. Nat \subseteq T
    BY <1>1, <1>2, Induction
<1>4. ASSUME NEW n \in Nat
      PROVE  G(n) \in [0..n -> S] /\ Takes(G(n), c, step, n)
    <2>1. \E g \in [0..n -> S] : Takes(g, c, step, n)
        BY <1>3 DEF T
    <2> QED  BY <2>1
<1> HIDE DEF G
<1>5. f \in [Nat -> S]
    BY <1>4
<1>6. f[0] = c
    BY <1>4 DEF Takes
<1>7. ASSUME NEW n \in Nat
      PROVE  f[n + 1] = step[n][f[n]]
    <2>1. Takes(G(n + 1), c, step, n + 1) /\ Takes(G(n), c, step, n)
        BY <1>4
    <2>2. Takes(G(n + 1), c, step, n)
        BY <2>1 DEF Takes
    <2>3. \A k \in 0..n : G(n)[k] = G(n + 1)[k]
        BY <2>1, <2>2, RecursionAgrees
    <2>4. f[n] = G(n + 1)[n]
        BY <2>3
    <2>5. f[n + 1] = G(n + 1)[n + 1]
        OBVIOUS
    <2>6. G(n + 1)[n + 1] = step[n][G(n + 1)[n]]
        BY <2>1 DEF Takes
    <2> QED  BY <2>4, <2>5, <2>6
<1> HIDE DEF f
<1> QED  BY <1>5, <1>6, <1>7 DEF TakesAll

-----------------------------------------------------------------------------
(* Sums *)

\* The partial sums add one value at a time.
LEMMA SumSteps ==
    ASSUME NEW f \in [Nat -> Nat]
    PROVE  SumBelow(f, 0) = 0 /\ \A n \in Nat : SumBelow(f, n + 1) = SumBelow(f, n) + f[n]
<1> DEFINE step == [n \in Nat |-> [v \in Nat |-> v + f[n]]]
           Eq(g) == g = [k \in Nat |-> IF k = 0 THEN 0 ELSE g[k - 1] + f[k - 1]]
           p == CHOOSE g : Eq(g)
<1>1. step \in [Nat -> [Nat -> Nat]]
    OBVIOUS
<1>2. PICK g \in [Nat -> Nat] : TakesAll(g, 0, step)
    <2> HIDE DEF step
    <2> QED  BY <1>1, RecursionExists
<1>3. g[0] = 0 /\ \A k \in Nat : g[k + 1] = g[k] + f[k]
    BY <1>2 DEF TakesAll
<1>4. \A k \in Nat : g[k] = IF k = 0 THEN 0 ELSE g[k - 1] + f[k - 1]
    <2> TAKE k \in Nat
    <2>1. CASE k = 0
        BY <2>1, <1>3
    <2>2. CASE k # 0
        <3>1. k - 1 \in Nat
            BY <2>2
        <3> QED  BY <3>1, <2>2, <1>3
    <2> QED  BY <2>1, <2>2
<1>5. Eq(g)
    BY <1>4
<1>6. \A n \in Nat : SumBelow(f, n) = p[n]
    BY Zenon DEF SumBelow
<1> HIDE DEF Eq
<1>7. Eq(p)
    BY <1>5
<1> HIDE DEF p
<1>8. p = [k \in Nat |-> IF k = 0 THEN 0 ELSE p[k - 1] + f[k - 1]]
    BY <1>7 DEF Eq
<1>9. p[0] = 0
    BY <1>8
<1>10. ASSUME NEW n \in Nat
       PROVE  p[n + 1] = p[n] + f[n]
    BY <1>8
<1> QED  BY <1>6, <1>9, <1>10

\* The partial sums of naturals are naturals.
LEMMA SumType ==
    ASSUME NEW f \in [Nat -> Nat]
    PROVE  \A n \in Nat : SumBelow(f, n) \in Nat
<1> DEFINE T == {n \in Nat : SumBelow(f, n) \in Nat}
<1>1. 0 \in T
    BY SumSteps
<1>2. ASSUME NEW n \in Nat, n \in T
      PROVE  n + 1 \in T
    <2>1. SumBelow(f, n + 1) = SumBelow(f, n) + f[n]
        BY SumSteps
    <2> QED  BY <2>1, <1>2
<1> HIDE DEF T
<1>3. Nat \subseteq T
    BY <1>1, <1>2, Induction
<1> QED  BY <1>3 DEF T

\* More values have no smaller sum.
LEMMA SumMono ==
    ASSUME NEW f \in [Nat -> Nat], NEW m \in Nat
    PROVE  \A n \in Nat : m <= n => SumBelow(f, m) <= SumBelow(f, n)
<1> DEFINE T == {n \in Nat : m <= n => SumBelow(f, m) <= SumBelow(f, n)}
<1>0. \A n \in Nat : SumBelow(f, n) \in Nat
    BY SumType
<1>1. 0 \in T
    <2>1. m <= 0 => m = 0
        OBVIOUS
    <2> QED  BY <2>1, <1>0
<1>2. ASSUME NEW n \in Nat, n \in T
      PROVE  n + 1 \in T
    <2>1. SumBelow(f, n + 1) = SumBelow(f, n) + f[n]
        BY SumSteps
    <2>2. CASE m = n + 1
        BY <2>2, <1>0
    <2>3. CASE m # n + 1
        BY <2>1, <2>3, <1>0, <1>2
    <2> QED  BY <2>2, <2>3
<1> HIDE DEF T
<1>3. Nat \subseteq T
    BY <1>1, <1>2, Induction
<1> QED  BY <1>3 DEF T

\* Nothing but zeros from m on: the sum stays.
LEMMA SumTail ==
    ASSUME NEW f \in [Nat -> Nat], NEW m \in Nat, \A k \in Nat : k >= m => f[k] = 0
    PROVE  \A n \in Nat : m <= n => SumBelow(f, n) = SumBelow(f, m)
<1> DEFINE T == {n \in Nat : m <= n => SumBelow(f, n) = SumBelow(f, m)}
<1>0. \A n \in Nat : SumBelow(f, n) \in Nat
    BY SumType
<1>1. 0 \in T
    <2>1. m <= 0 => m = 0
        OBVIOUS
    <2> QED  BY <2>1
<1>2. ASSUME NEW n \in Nat, n \in T
      PROVE  n + 1 \in T
    <2>1. SumBelow(f, n + 1) = SumBelow(f, n) + f[n]
        BY SumSteps
    <2>2. CASE m = n + 1
        BY <2>2
    <2>3. CASE m # n + 1
        BY <2>1, <2>3, <1>0, <1>2
    <2> QED  BY <2>2, <2>3
<1> HIDE DEF T
<1>3. Nat \subseteq T
    BY <1>1, <1>2, Induction
<1> QED  BY <1>3 DEF T

\* One value changes: the sums beyond it change by as much, the others do not.
LEMMA SumUpdate ==
    ASSUME NEW f \in [Nat -> Nat], NEW h \in [Nat -> Nat], NEW i \in Nat,
           \A k \in Nat : k # i => h[k] = f[k]
    PROVE  \A n \in Nat : SumBelow(h, n) = IF i < n THEN SumBelow(f, n) + h[i] - f[i]
                                           ELSE SumBelow(f, n)
<1> DEFINE T == {n \in Nat : SumBelow(h, n) = IF i < n THEN SumBelow(f, n) + h[i] - f[i]
                                              ELSE SumBelow(f, n)}
<1>0. \A n \in Nat : SumBelow(f, n) \in Nat /\ SumBelow(h, n) \in Nat
    BY SumType
<1>1. 0 \in T
    <2>1. SumBelow(f, 0) = 0 /\ SumBelow(h, 0) = 0
        BY SumSteps
    <2> QED  BY <2>1
<1>2. ASSUME NEW n \in Nat, n \in T
      PROVE  n + 1 \in T
    <2>1. /\ SumBelow(f, n + 1) = SumBelow(f, n) + f[n]
          /\ SumBelow(h, n + 1) = SumBelow(h, n) + h[n]
        BY SumSteps
    <2>2. CASE i < n
        BY <2>1, <2>2, <1>0, <1>2
    <2>3. CASE i = n
        BY <2>1, <2>3, <1>0, <1>2
    <2>4. CASE i > n
        BY <2>1, <2>4, <1>0, <1>2
    <2> QED  BY <2>2, <2>3, <2>4
<1> HIDE DEF T
<1>3. Nat \subseteq T
    BY <1>1, <1>2, Induction
<1> QED  BY <1>3 DEF T
=============================================================================
