----------------------------- MODULE DataLemmas ------------------------------
(***************************************************************************)
(* Facts about data that the component proofs share: induction over an     *)
(* interval, functions defined by recursion on an interval, sums, and the  *)
(* place of an element in a finite set under a strict order.               *)
(*                                                                         *)
(* Each is stated with sets and functions as parameters, never operators:  *)
(* those the provers can instantiate.                                      *)
(***************************************************************************)
EXTENDS Sums, Integers, FiniteSets, FiniteSetTheorems, WellFoundedInduction, TLAPS

(* A nonempty set of natural numbers has a least element. *)
LEMMA LeastNatural ==
    ASSUME NEW T, T \subseteq Nat, T # {}
    PROVE  \E k \in T : \A j \in T : k <= j
<1>1. PICK k \in T : \A j \in T : ~(<<j, k>> \in OpToRel(<, Nat))
  BY NatLessThanWellFounded, WFMin
<1>2. \A j \in T : ~(j < k)
  BY <1>1 DEF OpToRel
<1> QED BY <1>2

(* Induction up to n, with the property as the set of the numbers that have it. *)
LEMMA IntervalInduction ==
    ASSUME NEW n \in Nat, NEW G,
           0 \in G,
           \A i \in 1 .. n : i - 1 \in G => i \in G
    PROVE  \A i \in 0 .. n : i \in G
<1> DEFINE T == {i \in 0 .. n : i \notin G}
<1>1. SUFFICES ASSUME T # {} PROVE FALSE
  OBVIOUS
<1>2. T \subseteq Nat
  OBVIOUS
<1>3. PICK k \in T : \A j \in T : k <= j
  <2> HIDE DEF T
  <2> QED BY <1>1, <1>2, LeastNatural
<1>4. k \in 1 .. n /\ k - 1 \in 0 .. n
  OBVIOUS
<1>5. k - 1 \notin T
  BY <1>3, <1>4
<1> QED BY <1>4, <1>5

(* f takes its values in S, from base by one step after the other. *)
RecursiveIn(f, n, S, base, step) ==
    /\ f \in [0 .. n -> S]
    /\ f[0] = base
    /\ \A i \in 1 .. n : f[i] = step[i][f[i - 1]]

(* A function defined by recursion up to n, each value from the one before it,
   exists, and all its values are in the set the steps stay in. *)
LEMMA RecursionExists ==
    ASSUME NEW n \in Nat, NEW S, NEW base \in S, NEW step \in [1 .. n -> [S -> S]]
    PROVE  \E f : RecursiveIn(f, n, S, base, step)
<1> DEFINE G == {m \in 0 .. n : \E f : RecursiveIn(f, m, S, base, step)}
<1>1. 0 \in G
  <2> DEFINE f == [i \in 0 .. 0 |-> base]
  <2>1. RecursiveIn(f, 0, S, base, step)
    BY DEF RecursiveIn
  <2> HIDE DEF f
  <2> QED BY <2>1
<1>2. ASSUME NEW m \in 1 .. n, m - 1 \in G
      PROVE  m \in G
  <2>1. PICK f : RecursiveIn(f, m - 1, S, base, step)
    BY <1>2
  <2>2. /\ f \in [0 .. m - 1 -> S]
        /\ f[0] = base
        /\ \A i \in 1 .. m - 1 : f[i] = step[i][f[i - 1]]
    BY <2>1 DEF RecursiveIn
  <2> DEFINE h == [i \in 0 .. m |-> IF i = m THEN step[m][f[m - 1]] ELSE f[i]]
  <2>3. f[m - 1] \in S /\ step[m][f[m - 1]] \in S
    BY <2>2
  <2>4. h \in [0 .. m -> S] /\ h[0] = base
    BY <2>2, <2>3
  <2>5. ASSUME NEW i \in 1 .. m PROVE h[i] = step[i][h[i - 1]]
    <3>1. CASE i = m
      <4>1. h[m] = step[m][f[m - 1]] /\ h[m - 1] = f[m - 1]
        OBVIOUS
      <4> QED BY <4>1, <3>1
    <3>2. CASE i # m
      <4>1. i \in 1 .. m - 1 /\ i - 1 \in 0 .. m /\ i - 1 # m /\ i \in 0 .. m
        BY <3>2
      <4>2. f[i] = step[i][f[i - 1]]
        BY <2>2, <4>1
      <4> QED BY <4>1, <4>2, <3>2
    <3> QED BY <3>1, <3>2
  <2>6. RecursiveIn(h, m, S, base, step)
    <3> HIDE DEF h
    <3> QED BY <2>4, <2>5 DEF RecursiveIn
  <2> HIDE DEF h
  <2>7. m \in 0 .. n
    OBVIOUS
  <2> QED BY <2>6, <2>7
<1>3. \A i \in 1 .. n : i - 1 \in G => i \in G
  BY <1>2
<1>4. n \in 0 .. n
  OBVIOUS
<1>5. n \in G
  <2> HIDE DEF G
  <2> QED BY <1>1, <1>3, <1>4, IntervalInduction
<1> QED BY <1>5

-----------------------------------------------------------------------------
(* Sums *)

(* s holds the sums of the first 0, 1, ..., n values of f. *)
PartialSums(s, f, n) ==
    s \in [0 .. n -> Int] /\ s[0] = 0 /\ \A i \in 1 .. n : s[i] = s[i - 1] + f[i]

LEMMA SumToIsPartial ==
    ASSUME NEW n \in Nat, NEW f \in [1 .. n -> Int], NEW s, PartialSums(s, f, n)
    PROVE  SumTo(f, n) = s[n]
<1> DEFINE Defines(g) == g = [i \in 0 .. n |-> IF i = 0 THEN 0 ELSE g[i - 1] + f[i]]
           sum == CHOOSE g : Defines(g)
           G == {i \in 0 .. n : sum[i] = s[i]}
<1>0. s \in [0 .. n -> Int] /\ s[0] = 0 /\ \A i \in 1 .. n : s[i] = s[i - 1] + f[i]
  BY DEF PartialSums
<1>1. Defines(s)
  <2>1. \A i \in 0 .. n : s[i] = IF i = 0 THEN 0 ELSE s[i - 1] + f[i]
    BY <1>0
  <2> QED BY <1>0, <2>1
<1>2. Defines(sum)
  <2> HIDE DEF Defines
  <2> QED BY <1>1
<1>3. SumTo(f, n) = sum[n]
  BY DEF SumTo
<1> HIDE DEF sum
<1>4. 0 \in G
  BY <1>0, <1>2
<1>5. \A i \in 1 .. n : i - 1 \in G => i \in G
  BY <1>0, <1>2
<1>6. \A i \in 0 .. n : i \in G
  <2> HIDE DEF G
  <2> QED BY <1>4, <1>5, IntervalInduction
<1>7. n \in 0 .. n
  OBVIOUS
<1> QED BY <1>3, <1>6, <1>7

LEMMA PartialSumsExist ==
    ASSUME NEW n \in Nat, NEW f \in [1 .. n -> Int]
    PROVE  \E s : PartialSums(s, f, n)
<1> DEFINE step == [i \in 1 .. n |-> [x \in Int |-> x + f[i]]]
<1>1. step \in [1 .. n -> [Int -> Int]] /\ 0 \in Int
  OBVIOUS
<1>2. PICK s : RecursiveIn(s, n, Int, 0, step)
  <2> HIDE DEF step
  <2> QED BY <1>1, RecursionExists, Zenon
<1>3. s \in [0 .. n -> Int] /\ s[0] = 0 /\ \A i \in 1 .. n : s[i] = step[i][s[i - 1]]
  <2> HIDE DEF step
  <2> QED BY <1>2 DEF RecursiveIn
<1>4. \A i \in 1 .. n : s[i] = s[i - 1] + f[i]
  <2>1. \A i \in 1 .. n : s[i - 1] \in Int
    BY <1>3
  <2> QED BY <1>3, <2>1
<1> QED BY <1>3, <1>4 DEF PartialSums

LEMMA SumToType ==
    ASSUME NEW n \in Nat, NEW f \in [1 .. n -> Int]
    PROVE  SumTo(f, n) \in Int
<1>1. PICK s : PartialSums(s, f, n)
  BY PartialSumsExist
<1>2. SumTo(f, n) = s[n]
  BY <1>1, SumToIsPartial
<1> QED BY <1>1, <1>2 DEF PartialSums

LEMMA SumToZero ==
    ASSUME NEW f \in [1 .. 0 -> Int]
    PROVE  SumTo(f, 0) = 0
<1>1. PICK s : PartialSums(s, f, 0)
  BY PartialSumsExist
<1>2. SumTo(f, 0) = s[0]
  BY <1>1, SumToIsPartial
<1> QED BY <1>1, <1>2 DEF PartialSums

(* One value more adds that value. *)
LEMMA SumToNext ==
    ASSUME NEW n \in Nat, NEW m \in Nat, m = n + 1,
           NEW f \in [1 .. n -> Int], NEW g \in [1 .. m -> Int],
           \A i \in 1 .. n : g[i] = f[i]
    PROVE  SumTo(g, m) = SumTo(f, n) + g[m]
<1>1. PICK s : PartialSums(s, g, m)
  BY PartialSumsExist
<1>2. s \in [0 .. m -> Int] /\ s[0] = 0 /\ \A i \in 1 .. m : s[i] = s[i - 1] + g[i]
  BY <1>1 DEF PartialSums
<1> DEFINE t == [i \in 0 .. n |-> s[i]]
<1>3. SumTo(g, m) = s[m]
  BY <1>1, SumToIsPartial
<1>4. t \in [0 .. n -> Int] /\ t[0] = 0 /\ t[n] = s[n]
  BY <1>2
<1>5. \A i \in 1 .. n : t[i] = t[i - 1] + f[i]
  BY <1>2
<1>6. SumTo(f, n) = t[n]
  <2> HIDE DEF t
  <2>1. PartialSums(t, f, n)
    BY <1>4, <1>5 DEF PartialSums
  <2> QED BY <2>1, SumToIsPartial
<1>7. s[m] = s[n] + g[m]
  BY <1>2
<1> QED BY <1>3, <1>4, <1>6, <1>7

-----------------------------------------------------------------------------
(* Powers of two *)

(* p holds the powers of two up to the n-th. *)
Doubling(p, n) == p \in [0 .. n -> Nat] /\ p[0] = 1 /\ \A i \in 1 .. n : p[i] = 2 * p[i - 1]

LEMMA PowersExist ==
    ASSUME NEW n \in Nat
    PROVE  \E p : Doubling(p, n)
<1> DEFINE step == [i \in 1 .. n |-> [x \in Nat |-> 2 * x]]
<1>1. step \in [1 .. n -> [Nat -> Nat]] /\ 1 \in Nat
  OBVIOUS
<1>2. PICK p : RecursiveIn(p, n, Nat, 1, step)
  <2> HIDE DEF step
  <2> QED BY <1>1, RecursionExists, Zenon
<1>3. p \in [0 .. n -> Nat] /\ p[0] = 1 /\ \A i \in 1 .. n : p[i] = step[i][p[i - 1]]
  <2> HIDE DEF step
  <2> QED BY <1>2 DEF RecursiveIn
<1>4. \A i \in 1 .. n : p[i] = 2 * p[i - 1]
  <2>1. \A i \in 1 .. n : p[i - 1] \in Nat
    BY <1>3
  <2> QED BY <1>3, <2>1
<1> QED BY <1>3, <1>4 DEF Doubling

LEMMA TwoToIsLast ==
    ASSUME NEW n \in Nat, NEW p, Doubling(p, n)
    PROVE  TwoTo(n) = p[n]
<1> DEFINE Defines(g) == g = [i \in 0 .. n |-> IF i = 0 THEN 1 ELSE 2 * g[i - 1]]
           power == CHOOSE g : Defines(g)
           G == {i \in 0 .. n : power[i] = p[i]}
<1>0. p \in [0 .. n -> Nat] /\ p[0] = 1 /\ \A i \in 1 .. n : p[i] = 2 * p[i - 1]
  BY DEF Doubling
<1>1. Defines(p)
  <2>1. \A i \in 0 .. n : p[i] = IF i = 0 THEN 1 ELSE 2 * p[i - 1]
    BY <1>0
  <2> QED BY <1>0, <2>1
<1>2. Defines(power)
  <2> HIDE DEF Defines
  <2> QED BY <1>1
<1>3. TwoTo(n) = power[n]
  BY DEF TwoTo
<1> HIDE DEF power
<1>4. 0 \in G
  BY <1>0, <1>2
<1>5. ASSUME NEW i \in 1 .. n, i - 1 \in G PROVE i \in G
  <2>1. i \in 0 .. n /\ i # 0
    OBVIOUS
  <2>2. power[i] = 2 * power[i - 1]
    BY <1>2, <2>1
  <2>3. power[i - 1] = p[i - 1] /\ p[i] = 2 * p[i - 1]
    BY <1>0, <1>5
  <2> QED BY <2>1, <2>2, <2>3
<1>6. \A i \in 0 .. n : i \in G
  <2> HIDE DEF G
  <2> QED BY <1>4, <1>5, IntervalInduction
<1>7. n \in 0 .. n
  OBVIOUS
<1> QED BY <1>3, <1>6, <1>7

(* Powers of two are positive and grow with the exponent. *)
LEMMA TwoToGrows ==
    ASSUME NEW n \in Nat, NEW k \in 0 .. n
    PROVE  /\ TwoTo(k) \in Nat /\ TwoTo(n) \in Nat
           /\ 1 <= TwoTo(k) /\ TwoTo(k) <= TwoTo(n)
<1>1. PICK p : Doubling(p, n)
  BY PowersExist
<1>2. p \in [0 .. n -> Nat] /\ p[0] = 1 /\ \A i \in 1 .. n : p[i] = 2 * p[i - 1]
  BY <1>1 DEF Doubling
<1> DEFINE q == [i \in 0 .. k |-> p[i]]
           G == {i \in 0 .. n : \A j \in 0 .. i : 1 <= p[j] /\ p[j] <= p[i]}
<1>3. Doubling(q, k)
  BY <1>2 DEF Doubling
<1>4. TwoTo(n) = p[n] /\ TwoTo(k) = p[k]
  <2>1. TwoTo(k) = q[k] /\ q[k] = p[k]
    <3>1. k \in Nat
      OBVIOUS
    <3>2. q[k] = p[k]
      OBVIOUS
    <3> HIDE DEF q
    <3> QED BY <1>3, <3>1, <3>2, TwoToIsLast
  <2> QED BY <1>1, <2>1, TwoToIsLast
<1>5. 0 \in G
  BY <1>2
<1>6. ASSUME NEW i \in 1 .. n, i - 1 \in G PROVE i \in G
  <2>1. \A j \in 0 .. i - 1 : 1 <= p[j] /\ p[j] <= p[i - 1]
    BY <1>6
  <2>2. i - 1 \in 0 .. i - 1 /\ i - 1 \in 0 .. n
    OBVIOUS
  <2>3. p[i - 1] \in Nat /\ 1 <= p[i - 1] /\ p[i] = 2 * p[i - 1]
    BY <1>2, <2>1, <2>2
  <2>4. \A j \in 0 .. i : 1 <= p[j] /\ p[j] <= p[i]
    <3> TAKE j \in 0 .. i
    <3>1. j = i \/ j \in 0 .. i - 1
      OBVIOUS
    <3>2. CASE j \in 0 .. i - 1
      <4>1. p[j] \in Nat /\ 1 <= p[j] /\ p[j] <= p[i - 1]
        BY <1>2, <2>1, <3>2
      <4> QED BY <2>3, <4>1
    <3>3. CASE j = i
      BY <2>3, <3>3
    <3> QED BY <3>1, <3>2, <3>3
  <2> QED BY <2>4
<1>7. \A i \in 0 .. n : i \in G
  <2> HIDE DEF G
  <2> QED BY <1>5, <1>6, IntervalInduction
<1>8. n \in 0 .. n
  OBVIOUS
<1> QED BY <1>2, <1>4, <1>7, <1>8

LEMMA TwoToTwo == TwoTo(2) = 4
<1>1. PICK p : Doubling(p, 2)
  BY PowersExist
<1>2. p \in [0 .. 2 -> Nat] /\ p[0] = 1 /\ \A i \in 1 .. 2 : p[i] = 2 * p[i - 1]
  BY <1>1 DEF Doubling
<1>3. p[1] = 2 * p[1 - 1] /\ p[2] = 2 * p[2 - 1]
  BY <1>2
<1>4. TwoTo(2) = p[2]
  BY <1>1, TwoToIsLast
<1> QED BY <1>2, <1>3, <1>4

-----------------------------------------------------------------------------
(* The elements of S before x in the order R. *)
Before(x, S, R) == {y \in S : <<y, x>> \in R}

StrictlyOrders(R, S) ==
    /\ \A x \in S : <<x, x>> \notin R
    /\ \A x, y, z \in S : <<x, y>> \in R /\ <<y, z>> \in R => <<x, z>> \in R
    /\ \A x, y \in S : x # y => <<x, y>> \in R \/ <<y, x>> \in R

(* In a finite set with a strict order, the number of elements before one is
   its place: every place from 0 up to the size of the set is taken, once. *)
LEMMA EveryPlaceTaken ==
    ASSUME NEW S, IsFiniteSet(S), NEW R, StrictlyOrders(R, S)
    PROVE  /\ \A x \in S : Cardinality(Before(x, S, R)) \in 0 .. Cardinality(S) - 1
           /\ \A x, y \in S : Cardinality(Before(x, S, R)) = Cardinality(Before(y, S, R)) => x = y
           /\ \A x, y \in S : <<x, y>> \in R => Cardinality(Before(x, S, R)) < Cardinality(Before(y, S, R))
           /\ \A k \in 0 .. Cardinality(S) - 1 : \E x \in S : Cardinality(Before(x, S, R)) = k
<1> DEFINE place == [x \in S |-> Cardinality(Before(x, S, R))]
           T == 0 .. Cardinality(S) - 1
<1>0. Cardinality(S) \in Nat
  BY FS_CardinalityType
<1>1. \A x \in S : /\ IsFiniteSet(Before(x, S, R))
                   /\ Cardinality(Before(x, S, R)) \in Nat
  <2> SUFFICES ASSUME NEW x \in S
               PROVE  /\ IsFiniteSet(Before(x, S, R))
                      /\ Cardinality(Before(x, S, R)) \in Nat
    OBVIOUS
  <2>1. Before(x, S, R) \in SUBSET S
    BY DEF Before
  <2>2. IsFiniteSet(Before(x, S, R))
    BY <2>1, FS_Subset
  <2> QED BY <2>2, FS_CardinalityType
<1>2. ASSUME NEW x \in S PROVE Cardinality(Before(x, S, R)) < Cardinality(S)
  <2>1. Before(x, S, R) \in SUBSET S /\ Before(x, S, R) # S
    BY DEF Before, StrictlyOrders
  <2>2. Cardinality(Before(x, S, R)) <= Cardinality(S) /\ Cardinality(S) # Cardinality(Before(x, S, R))
    BY <2>1, FS_Subset
  <2> QED BY <1>0, <1>1, <2>2
<1>3. ASSUME NEW x \in S, NEW y \in S, <<x, y>> \in R
      PROVE  Cardinality(Before(x, S, R)) < Cardinality(Before(y, S, R))
  <2>1. Before(x, S, R) \in SUBSET Before(y, S, R)
    BY <1>3 DEF Before, StrictlyOrders
  <2>2. x \in Before(y, S, R) /\ x \notin Before(x, S, R)
    BY <1>3 DEF Before, StrictlyOrders
  <2>3. /\ Cardinality(Before(x, S, R)) <= Cardinality(Before(y, S, R))
        /\ Cardinality(Before(y, S, R)) # Cardinality(Before(x, S, R))
    BY <1>1, <2>1, <2>2, FS_Subset
  <2> QED BY <1>1, <2>3
<1>4. \A x, y \in S : x # y => Cardinality(Before(x, S, R)) # Cardinality(Before(y, S, R))
  <2> SUFFICES ASSUME NEW x \in S, NEW y \in S, x # y
               PROVE  Cardinality(Before(x, S, R)) # Cardinality(Before(y, S, R))
    OBVIOUS
  <2>1. <<x, y>> \in R \/ <<y, x>> \in R
    BY DEF StrictlyOrders
  <2>2. Cardinality(Before(x, S, R)) \in Nat /\ Cardinality(Before(y, S, R)) \in Nat
    BY <1>1
  <2>3. Cardinality(Before(x, S, R)) < Cardinality(Before(y, S, R))
        \/ Cardinality(Before(y, S, R)) < Cardinality(Before(x, S, R))
    BY <1>3, <2>1
  <2> QED BY <2>2, <2>3
<1>5. \A x \in S : Cardinality(Before(x, S, R)) \in T
  BY <1>0, <1>1, <1>2
<1>6. place \in Injection(S, T)
  BY <1>4, <1>5 DEF Injection, IsInjective
<1>7. IsFiniteSet(T) /\ Cardinality(T) = Cardinality(S)
  <2> DEFINE c == Cardinality(S)
  <2>1. c \in Nat
    BY <1>0
  <2> HIDE DEF c
  <2>2. IsFiniteSet(0 .. c - 1) /\ Cardinality(0 .. c - 1) = c
    <3>1. 0 \in Int /\ c - 1 \in Int
      BY <2>1
    <3>2. IsFiniteSet(0 .. c - 1) /\ Cardinality(0 .. c - 1) = IF 0 > c - 1 THEN 0 ELSE (c - 1) - 0 + 1
      BY <3>1, FS_Interval
    <3> QED BY <2>1, <3>2
  <2> QED BY <2>2 DEF c
<1>8. place \in Surjection(S, T)
  <2> HIDE DEF place, T
  <2> QED BY <1>6, <1>7, FS_Injection
<1>9. \A k \in T : \E x \in S : Cardinality(Before(x, S, R)) = k
  <2>1. \A k \in T : \E x \in S : place[x] = k
    <3> HIDE DEF place, T
    <3> QED BY <1>8 DEF Surjection
  <2> QED BY <2>1
<1> QED BY <1>3, <1>4, <1>5, <1>9
=============================================================================
