-------------------------- MODULE RecursionTheorems --------------------------
(***************************************************************************)
(* Induction over sets of natural numbers, and with it the existence of    *)
(* recursively defined functions: by repetition, and along a rank.  Stated *)
(* about sets and functions only, so that they can be cited like any fact. *)
(***************************************************************************)
EXTENDS Integers, FiniteSetTheorems, TLAPS

(* The intervals 0 .. n of a set of numbers are finite subsets of Nat, of   *)
(* which one is minimal.                                                    *)
LEMMA LeastNatural ==
  ASSUME NEW S \in SUBSET Nat, S # {}
  PROVE  \E n \in S : \A m \in S : n <= m
<1> DEFINE T == {0 .. n : n \in S}
<1>1. \A n \in S : 0 .. n \in SUBSET Nat /\ IsFiniteSet(0 .. n)
  BY FS_Interval
<1>2. T \subseteq FiniteSubsetsOf(Nat) /\ T # {}
  <2>1. \A n \in S : 0 .. n \in FiniteSubsetsOf(Nat)
    BY <1>1, Zenon DEF FiniteSubsetsOf
  <2> QED BY <2>1
<1>3. \E x \in T : \A y \in T : ~(<<y, x>> \in StrictSubsetOrdering(Nat))
  <2> HIDE DEF T
  <2> QED BY <1>2, FS_StrictSubsetOrderingWellFounded, WFMin
<1>4. PICK n \in S : \A m \in S : ~(<<0 .. m, 0 .. n>> \in StrictSubsetOrdering(Nat))
  BY <1>3
<1>5. ASSUME NEW m \in S, m < n PROVE FALSE
  <2>1. 0 .. m \subseteq 0 .. n /\ n \in 0 .. n /\ n \notin 0 .. m
    BY <1>5
  <2>2. 0 .. m \in SUBSET Nat /\ 0 .. n \in SUBSET Nat
    OBVIOUS
  <2>3. <<0 .. m, 0 .. n>> \in StrictSubsetOrdering(Nat)
    BY <2>1, <2>2, Zenon DEF StrictSubsetOrdering
  <2> QED BY <1>4, <2>3
<1> QED BY <1>5

(* A set that holds 0, and with every number the next, holds them all.      *)
LEMMA SetInduction ==
  ASSUME NEW S \in SUBSET Nat, 0 \in S, \A n \in S : n + 1 \in S
  PROVE  S = Nat
<1> SUFFICES ASSUME Nat \ S # {} PROVE FALSE
  OBVIOUS
<1>1. PICK n \in Nat \ S : \A m \in Nat \ S : n <= m
  BY LeastNatural
<1>2. n # 0 /\ n - 1 \in Nat /\ n - 1 \in S
  BY <1>1
<1> QED BY <1>2

(* A set of which every element has one of smaller rank is empty.           *)
LEMMA RankInduction ==
  ASSUME NEW D, NEW rank \in [D -> Nat], NEW S \in SUBSET D,
         \A x \in S : \E y \in S : rank[y] < rank[x]
  PROVE  S = {}
<1> SUFFICES ASSUME S # {} PROVE FALSE
  OBVIOUS
<1> DEFINE ranks == {rank[x] : x \in S}
<1>1. ranks \in SUBSET Nat /\ ranks # {}
  OBVIOUS
<1>2. PICK n \in ranks : \A m \in ranks : n <= m
  <2> HIDE DEF ranks
  <2> QED BY <1>1, LeastNatural
<1>3. PICK x \in S : n = rank[x]
  OBVIOUS
<1>4. PICK y \in S : rank[y] < rank[x]
  OBVIOUS
<1>5. rank[y] \in Nat /\ rank[x] \in Nat
  OBVIOUS
<1> QED BY <1>2, <1>3, <1>4, <1>5

(* A bounded set of numbers has a greatest element.                         *)
LEMMA GreatestNatural ==
  ASSUME NEW S \in SUBSET Nat, S # {}, NEW bound \in Nat, \A m \in S : m <= bound
  PROVE  \E n \in S : \A m \in S : m <= n
<1> DEFINE bounds == {n \in Nat : \A m \in S : m <= n}
<1>1. PICK n \in bounds : \A m \in bounds : n <= m
  BY LeastNatural
<1>2. CASE n \in S
  BY <1>2
<1>3. CASE n \notin S
  <2>1. \A m \in S : m <= n /\ m # n /\ m \in Nat
    BY <1>3
  <2>2. n \in Nat /\ \A m \in S : m <= n - 1
    BY <2>1
  <2>3. n - 1 \in Nat
    <3>1. PICK m \in S : TRUE
      OBVIOUS
    <3>2. m \in Nat /\ m <= n - 1
      BY <2>2
    <3> QED BY <2>2, <3>2
  <2>4. n - 1 \in bounds
    BY <2>2, <2>3
  <2>5. n <= n - 1
    BY <1>1, <2>4
  <2> QED BY <2>2, <2>5
<1> QED BY <1>2, <1>3

(* Finitely many numbers have a bound.                                      *)
LEMMA SequenceBounded ==
  ASSUME NEW n \in Nat, NEW f \in [1 .. n -> Nat]
  PROVE  \E bound \in Nat : \A i \in 1 .. n : f[i] <= bound
<1> DEFINE S == {k \in Nat : k <= n => \E bound \in Nat : \A i \in 1 .. k : f[i] <= bound}
<1>1. 0 \in S
  OBVIOUS
<1>2. ASSUME NEW k \in S PROVE k + 1 \in S
  <2> SUFFICES ASSUME k + 1 <= n
               PROVE  \E bound \in Nat : \A i \in 1 .. k + 1 : f[i] <= bound
    OBVIOUS
  <2>1. PICK bound \in Nat : \A i \in 1 .. k : f[i] <= bound
    OBVIOUS
  <2>2. k + 1 \in 1 .. n /\ f[k + 1] \in Nat /\ bound + f[k + 1] \in Nat
    OBVIOUS
  <2>3. ASSUME NEW i \in 1 .. k + 1 PROVE f[i] <= bound + f[k + 1]
    <3>1. f[i] \in Nat
      BY <2>3
    <3>2. CASE i = k + 1
      BY <2>2, <3>1, <3>2
    <3>3. CASE i \in 1 .. k
      BY <2>1, <2>2, <3>1, <3>3
    <3> QED BY <3>2, <3>3
  <2> QED BY <2>2, <2>3
<1>3. S = Nat
  <2> HIDE DEF S
  <2>1. S \in SUBSET Nat
    BY DEF S
  <2> QED BY <1>1, <1>2, <2>1, SetInduction
<1>4. n \in S
  <2> HIDE DEF S
  <2> QED BY <1>3
<1> QED BY <1>4

-----------------------------------------------------------------------------
(* The first steps of the repetition of F from a. *)
Starts(g, n, a, F) ==
  /\ DOMAIN g = 0 .. n /\ g[0] = a
  /\ \A i \in 0 .. n - 1 : g[i + 1] = F[g[i]]

LEMMA StartsAgree ==
  ASSUME NEW a, NEW F, NEW n \in Nat, NEW m \in Nat, n <= m,
         NEW g, NEW h, Starts(g, n, a, F), Starts(h, m, a, F)
  PROVE  \A i \in 0 .. n : g[i] = h[i]
<1> DEFINE S == {i \in Nat : i <= n => g[i] = h[i]}
<1>1. 0 \in S
  BY DEF Starts
<1>2. ASSUME NEW i \in S PROVE i + 1 \in S
  <2> SUFFICES ASSUME i + 1 <= n PROVE g[i + 1] = h[i + 1]
    OBVIOUS
  <2>1. g[i] = h[i] /\ i \in 0 .. n - 1 /\ i \in 0 .. m - 1
    OBVIOUS
  <2> QED BY <2>1 DEF Starts
<1>3. S = Nat
  <2> HIDE DEF S
  <2>1. S \in SUBSET Nat
    BY DEF S
  <2> QED BY <1>1, <1>2, <2>1, SetInduction
<1> QED BY <1>3

LEMMA StartsExist ==
  ASSUME NEW X, NEW a \in X, NEW F \in [X -> X], NEW n \in Nat
  PROVE  \E g \in [0 .. n -> X] : Starts(g, n, a, F)
<1> DEFINE S == {k \in Nat : \E g \in [0 .. k -> X] : Starts(g, k, a, F)}
<1>1. 0 \in S
  <2> DEFINE g == [i \in 0 .. 0 |-> a]
  <2>1. g \in [0 .. 0 -> X] /\ Starts(g, 0, a, F)
    BY DEF Starts
  <2> QED BY <2>1
<1>2. ASSUME NEW k \in S PROVE k + 1 \in S
  <2>1. PICK g \in [0 .. k -> X] : Starts(g, k, a, F)
    OBVIOUS
  <2> DEFINE h == [i \in 0 .. k + 1 |-> IF i = k + 1 THEN F[g[k]] ELSE g[i]]
  <2>2. h \in [0 .. k + 1 -> X]
    OBVIOUS
  <2>3. ASSUME NEW i \in 0 .. (k + 1) - 1 PROVE h[i + 1] = F[h[i]]
    <3>1. i \in 0 .. k /\ i + 1 \in 0 .. k + 1 /\ h[i] = g[i]
      OBVIOUS
    <3>2. CASE i = k
      BY <3>1, <3>2
    <3>3. CASE i # k
      BY <2>1, <3>1, <3>3 DEF Starts
    <3> QED BY <3>2, <3>3
  <2>4. h[0] = a /\ DOMAIN h = 0 .. k + 1
    BY <2>1 DEF Starts
  <2>5. Starts(h, k + 1, a, F)
    BY <2>3, <2>4 DEF Starts
  <2> QED BY <2>2, <2>5
<1>3. S = Nat
  <2> HIDE DEF S
  <2>1. S \in SUBSET Nat
    BY DEF S
  <2> QED BY <1>1, <1>2, <2>1, SetInduction
<1> QED BY <1>3

(* The repetition of F from a: f[n] is F applied n times.                   *)
Repeats(f, a, F) == f[0] = a /\ \A n \in Nat : f[n + 1] = F[f[n]]

THEOREM Repetition ==
  ASSUME NEW X, NEW a \in X, NEW F \in [X -> X]
  PROVE  \E f \in [Nat -> X] : Repeats(f, a, F)
<1> DEFINE start(n) == CHOOSE g \in [0 .. n -> X] : Starts(g, n, a, F)
           f == [n \in Nat |-> start(n)[n]]
<1>1. \A n \in Nat : start(n) \in [0 .. n -> X] /\ Starts(start(n), n, a, F)
  BY StartsExist
<1>2. f \in [Nat -> X]
  <2> HIDE DEF start
  <2> QED BY <1>1
<1>3. f[0] = a
  <2> HIDE DEF start
  <2>1. Starts(start(0), 0, a, F)
    BY <1>1
  <2> QED BY <2>1 DEF Starts
<1>4. ASSUME NEW n \in Nat PROVE f[n + 1] = F[f[n]]
  <2> HIDE DEF start
  <2>1. Starts(start(n), n, a, F) /\ Starts(start(n + 1), n + 1, a, F)
    BY <1>1
  <2>2. start(n)[n] = start(n + 1)[n]
    BY <2>1, StartsAgree
  <2>3. start(n + 1)[n + 1] = F[start(n + 1)[n]]
    BY <2>1 DEF Starts
  <2> QED BY <2>2, <2>3
<1>5. Repeats(f, a, F)
  <2> HIDE DEF f
  <2> QED BY <1>3, <1>4 DEF Repeats
<1> QED BY <1>2, <1>5

(* A function on D that is defined by its values at smaller rank.           *)
LooksDown(F, D, Y, rank) ==
  \A g, h \in [D -> Y] : \A x \in D :
    (\A y \in D : rank[y] < rank[x] => g[y] = h[y]) => F[g][x] = F[h][x]
FixedPoint(F, f) == F[f] = f

THEOREM RankedRecursion ==
  ASSUME NEW D, NEW Y, NEW any \in Y, NEW rank \in [D -> Nat], NEW F \in [[D -> Y] -> [D -> Y]],
         LooksDown(F, D, Y, rank)
  PROVE  \E f \in [D -> Y] : FixedPoint(F, f)
<1> DEFINE none == [x \in D |-> any]
<1>1. PICK K \in [Nat -> [D -> Y]] : K[0] = none /\ \A n \in Nat : K[n + 1] = F[K[n]]
  <2>1. none \in [D -> Y]
    OBVIOUS
  <2> HIDE DEF none
  <2>2. \E K \in [Nat -> [D -> Y]] : Repeats(K, none, F)
    BY <2>1, Repetition
  <2> QED BY <2>2 DEF Repeats
<1>2. \A n \in Nat : \A x \in D : rank[x] < n => K[n + 1][x] = K[n][x]
  <2> DEFINE S == {n \in Nat : \A x \in D : rank[x] < n => K[n + 1][x] = K[n][x]}
  <2>1. 0 \in S
    OBVIOUS
  <2>2. ASSUME NEW n \in S PROVE n + 1 \in S
    <3> SUFFICES ASSUME NEW x \in D, rank[x] < n + 1
                 PROVE  K[(n + 1) + 1][x] = K[n + 1][x]
      OBVIOUS
    <3>1. \A y \in D : rank[y] < rank[x] => K[n + 1][y] = K[n][y]
      OBVIOUS
    <3>2. K[n + 1] \in [D -> Y] /\ K[n] \in [D -> Y]
      OBVIOUS
    <3>3. F[K[n + 1]][x] = F[K[n]][x]
      BY <3>1, <3>2 DEF LooksDown
    <3>4. n \in Nat /\ n + 1 \in Nat
      OBVIOUS
    <3>5. K[(n + 1) + 1] = F[K[n + 1]] /\ K[n + 1] = F[K[n]]
      BY <1>1, <3>4
    <3> QED BY <3>3, <3>5
  <2>3. S = Nat
    <3> HIDE DEF S
    <3>1. S \in SUBSET Nat
      BY DEF S
    <3> QED BY <2>1, <2>2, <3>1, SetInduction
  <2> QED BY <2>3
<1>3. ASSUME NEW x \in D, NEW m \in Nat, rank[x] < m PROVE K[m][x] = K[rank[x] + 1][x]
  <2> DEFINE S == {k \in Nat : K[(rank[x] + 1) + k][x] = K[rank[x] + 1][x]}
  <2>1. 0 \in S
    OBVIOUS
  <2>2. ASSUME NEW k \in S PROVE k + 1 \in S
    <3>1. (rank[x] + 1) + k \in Nat /\ rank[x] < (rank[x] + 1) + k
      OBVIOUS
    <3>2. K[((rank[x] + 1) + k) + 1][x] = K[(rank[x] + 1) + k][x]
      BY <1>2, <3>1
    <3>3. ((rank[x] + 1) + k) + 1 = (rank[x] + 1) + (k + 1)
      <4>1. rank[x] \in Nat /\ k \in Nat
        OBVIOUS
      <4> HIDE DEF S
      <4> QED BY <4>1
    <3> QED BY <3>2, <3>3
  <2>3. S = Nat
    <3> HIDE DEF S
    <3>1. S \in SUBSET Nat
      BY DEF S
    <3> QED BY <2>1, <2>2, <3>1, SetInduction
  <2>4. m - (rank[x] + 1) \in S /\ (rank[x] + 1) + (m - (rank[x] + 1)) = m
    BY <1>3, <2>3
  <2> QED BY <2>4
<1> DEFINE f == [x \in D |-> K[rank[x] + 1][x]]
<1>4. f \in [D -> Y]
  OBVIOUS
<1>5. ASSUME NEW x \in D PROVE F[f][x] = f[x]
  <2>1. rank[x] \in Nat /\ K[rank[x]] \in [D -> Y]
    OBVIOUS
  <2>2. ASSUME NEW y \in D, rank[y] < rank[x] PROVE f[y] = K[rank[x]][y]
    BY <1>3, <2>1, <2>2
  <2> HIDE DEF f
  <2>3. F[f][x] = F[K[rank[x]]][x]
    BY <1>4, <2>1, <2>2 DEF LooksDown
  <2>4. K[rank[x] + 1] = F[K[rank[x]]]
    BY <1>1, <2>1
  <2> QED BY <2>3, <2>4 DEF f
<1>6. F[f] = f
  <2> HIDE DEF f
  <2>1. F[f] \in [D -> Y]
    BY <1>4
  <2> QED BY <1>4, <1>5, <2>1
<1> QED BY <1>4, <1>6 DEF FixedPoint
=============================================================================
