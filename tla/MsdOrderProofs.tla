--------------------------- MODULE MsdOrderProofs ---------------------------
(***************************************************************************)
(* Proofs about MsdOrder, for every set of products and options, every     *)
(* inventory and every number of sessions, messages, transfer orders and   *)
(* faults.                                                                 *)
(*                                                                         *)
(*   1. sums over finite sets, by induction on their size;                 *)
(*   2. the quantities of an order (module MsdQuantities);                 *)
(*   3. types;                                                             *)
(*   4. who generates and who transfers the order;                         *)
(*   5. what the order and its transfer order have.                        *)
(***************************************************************************)
EXTENDS MsdOrder, TLAPS, FiniteSetTheorems, WellFoundedInduction

-----------------------------------------------------------------------------
(* Sums                                                                    *)
(*                                                                         *)
(* The induction theorems of the library take an operator as a parameter;  *)
(* these take the set of the numbers, or of the sets, with the property.   *)

LEMMA LeastNumber ==
  ASSUME NEW T \in SUBSET Nat, T # {}
  PROVE  \E m \in T : \A n \in T : m <= n
<1> DEFINE Less == {p \in Nat \X Nat : p[1] < p[2]}
<1>1. IsWellFoundedOn(Less, Nat)
  BY NatLessThanWellFounded DEF OpToRel
<1>2. PICK m \in T : \A n \in T : ~ (<<n, m>> \in Less)
  BY <1>1, WFMin
<1>3. \A n \in T : ~(n < m)
  BY <1>2
<1> HIDE DEF Less
<1>4. m \in Nat /\ \A n \in T : n \in Nat
  OBVIOUS
<1>5. \A n \in T : m <= n
  BY <1>3, <1>4
<1> QED
  BY <1>5

LEMMA NumberInduction ==
  ASSUME NEW T, 0 \in T, \A n \in Nat : n \in T => n + 1 \in T
  PROVE  Nat \subseteq T
<1> SUFFICES ASSUME Nat \ T # {} PROVE FALSE
  OBVIOUS
<1>1. PICK m \in Nat \ T : \A n \in Nat \ T : m <= n
  BY LeastNumber
<1>2. m # 0 /\ m - 1 \in Nat
  OBVIOUS
<1>3. m - 1 \in T
  BY <1>1, <1>2
<1> QED
  BY <1>1, <1>2, <1>3

\* The element that the sum over s takes next.
Pick(s) == CHOOSE x \in s : TRUE

LEMMA SetInduction ==
  ASSUME NEW S, IsFiniteSet(S), NEW T, {} \in T,
         \A s \in SUBSET S : s # {} /\ s \ {Pick(s)} \in T => s \in T
  PROVE  S \in T
<1> DEFINE Sized == {n \in Nat : \A s \in SUBSET S : Cardinality(s) = n => s \in T}
<1>0. \A s \in SUBSET S : IsFiniteSet(s) /\ Cardinality(s) \in Nat
  BY FS_Subset, FS_CardinalityType
<1>1. 0 \in Sized
  BY <1>0, FS_EmptySet
<1>2. ASSUME NEW n \in Nat, n \in Sized PROVE n + 1 \in Sized
  <2> SUFFICES ASSUME NEW s \in SUBSET S, Cardinality(s) = n + 1 PROVE s \in T
    OBVIOUS
  <2>1. s # {} /\ Pick(s) \in s
    BY <1>0, FS_EmptySet DEF Pick
  <2>2. s \ {Pick(s)} \in SUBSET S /\ Cardinality(s \ {Pick(s)}) = n
    BY <1>0, <2>1, FS_RemoveElement
  <2> QED
    BY <1>2, <2>1, <2>2
<1>3. Nat \subseteq Sized
  BY <1>1, <1>2, NumberInduction
<1> QED
  BY <1>0, <1>3

\* g is the sum of f over the sets of C.
Sums(f, C, g) == \A s \in C : g[s] = IF s = {} THEN 0 ELSE f[Pick(s)] + g[s \ {Pick(s)}]

LEMMA SumsExist ==
  ASSUME NEW S, IsFiniteSet(S), NEW f \in [S -> Int]
  PROVE  \E g \in [SUBSET S -> Int] : Sums(f, SUBSET S, g)
<1> DEFINE UpTo(n) == {s \in SUBSET S : Cardinality(s) <= n}
           Good == {n \in Nat : \E g \in [UpTo(n) -> Int] : Sums(f, UpTo(n), g)}
<1>0. \A s \in SUBSET S : IsFiniteSet(s) /\ Cardinality(s) \in Nat /\ Cardinality(s) <= Cardinality(S)
  BY FS_Subset, FS_CardinalityType
<1>1. 0 \in Good
  <2> DEFINE g == [s \in UpTo(0) |-> 0]
  <2>1. g \in [UpTo(0) -> Int]
    OBVIOUS
  <2>2. \A s \in UpTo(0) : s = {}
    BY <1>0, FS_EmptySet
  <2>3. Sums(f, UpTo(0), g)
    BY <2>2 DEF Sums
  <2> QED
    BY <2>1, <2>3
<1>2. ASSUME NEW n \in Nat, n \in Good PROVE n + 1 \in Good
  <2>1. PICK g \in [UpTo(n) -> Int] : Sums(f, UpTo(n), g)
    BY <1>2
  <2> DEFINE h == [s \in UpTo(n + 1) |-> IF Cardinality(s) <= n THEN g[s] ELSE f[Pick(s)] + g[s \ {Pick(s)}]]
  <2>2. \A s \in SUBSET S : s # {} => /\ Pick(s) \in s /\ Pick(s) \in S /\ f[Pick(s)] \in Int
                            /\ s \ {Pick(s)} \in SUBSET S /\ Cardinality(s \ {Pick(s)}) = Cardinality(s) - 1
    BY <1>0, FS_RemoveElement DEF Pick
  <2>3. \A s \in UpTo(n + 1) : Cardinality(s) > n => s # {} /\ s \ {Pick(s)} \in UpTo(n)
    BY <1>0, <2>2, FS_EmptySet
  <2>4. h \in [UpTo(n + 1) -> Int]
    <3>1. \A s \in UpTo(n+1) : Cardinality(s) <= n => g[s] \in Int
      OBVIOUS
    <3>2. \A s \in UpTo(n+1) : ~(Cardinality(s) <= n) => f[Pick(s)] + g[s \ {Pick(s)}] \in Int
      BY <1>0, <2>2, <2>3
    <3> QED
      BY <3>1, <3>2
  <2>5. Sums(f, UpTo(n + 1), h)
    <3> SUFFICES ASSUME NEW s \in UpTo(n + 1)
                 PROVE  h[s] = IF s = {} THEN 0 ELSE f[Pick(s)] + h[s \ {Pick(s)}]
      BY DEF Sums
    <3>1. CASE s = {}
      <4>1. Cardinality(s) = 0
        BY <3>1, FS_EmptySet
      <4> QED
        BY <3>1, <4>1, <2>1 DEF Sums
    <3>2. CASE s # {}
      <4>1. s \ {Pick(s)} \in UpTo(n)
        BY <1>0, <2>2, <3>2
      <4>2. h[s \ {Pick(s)}] = g[s \ {Pick(s)}]
        BY <4>1, <1>0
      <4>3. CASE Cardinality(s) <= n
        BY <4>1, <4>2, <4>3, <3>2, <2>1 DEF Sums
      <4>4. CASE ~(Cardinality(s) <= n)
        BY <4>1, <4>2, <4>4, <3>2
      <4> QED
        BY <4>3, <4>4
    <3> QED
      BY <3>1, <3>2
  <2> HIDE DEF h
  <2>6. \E k \in [UpTo(n + 1) -> Int] : Sums(f, UpTo(n + 1), k)
    BY <2>4, <2>5
  <2>7. n + 1 \in Nat
    OBVIOUS
  <2> HIDE DEF UpTo
  <2> QED
    BY <2>6, <2>7
<1>3. UpTo(Cardinality(S)) = SUBSET S /\ Cardinality(S) \in Nat
  BY <1>0, FS_CardinalityType
<1>4. Nat \subseteq Good
  BY <1>1, <1>2, NumberInduction
<1> QED
  BY <1>3, <1>4

LEMMA SumsAreUnique ==
  ASSUME NEW S, IsFiniteSet(S), NEW f, NEW g, NEW h, Sums(f, SUBSET S, g), Sums(f, SUBSET S, h)
  PROVE  g[S] = h[S]
<1> DEFINE Same == {s \in SUBSET S : g[s] = h[s]}
<1>1. {} \in Same
  BY DEF Sums
<1>2. \A s \in SUBSET S : s # {} /\ s \ {Pick(s)} \in Same => s \in Same
  BY DEF Sums
<1>3. S \in Same
  BY <1>1, <1>2, SetInduction
<1> QED
  BY <1>3

\* SumOf does what its definition says, which nothing but induction shows.
LEMMA SumIsDefined ==
  ASSUME NEW f, NEW S, IsFiniteSet(S), \A x \in S : f[x] \in Int
  PROVE  \E g \in [SUBSET S -> Int] : Sums(f, SUBSET S, g) /\ SumOf(f, S) = g[S]
<1> DEFINE Sum(g) == g = [s \in SUBSET S |-> IF s = {} THEN 0 ELSE f[Pick(s)] + g[s \ {Pick(s)}]]
           f1 == [x \in S |-> f[x]]
<1>1. PICK g \in [SUBSET S -> Int] : Sums(f1, SUBSET S, g)
  <2>1. f1 \in [S -> Int]
    OBVIOUS
  <2> HIDE DEF f1
  <2> QED
    BY <2>1, SumsExist
<1>2. \A s \in SUBSET S : s # {} => f1[Pick(s)] = f[Pick(s)]
  BY DEF Pick
<1>3. Sums(f, SUBSET S, g)
  BY <1>1, <1>2 DEF Sums
<1>4. Sum(g)
  BY <1>3 DEF Sums
<1>5. Sum(CHOOSE h : Sum(h))
  BY <1>4
<1>6. SumOf(f, S) = (CHOOSE h : Sum(h))[S]
  BY DEF SumOf, MapThenSumSet, MapThenFoldSet, Pick
<1>7. Sums(f, SUBSET S, CHOOSE h : Sum(h))
  BY <1>5 DEF Sums
<1>8. g[S] = (CHOOSE h : Sum(h))[S]
  BY <1>3, <1>7, SumsAreUnique
<1> QED
  BY <1>3, <1>6, <1>8

LEMMA SumStep ==
  ASSUME NEW f, NEW S, IsFiniteSet(S), \A x \in S : f[x] \in Int
  PROVE  /\ SumOf(f, S) \in Int
         /\ S = {} => SumOf(f, S) = 0
         /\ S # {} => SumOf(f, S) = f[Pick(S)] + SumOf(f, S \ {Pick(S)})
<1>1. PICK g \in [SUBSET S -> Int] : Sums(f, SUBSET S, g) /\ SumOf(f, S) = g[S]
  BY SumIsDefined
<1>2. CASE S = {}
  BY <1>1, <1>2 DEF Sums
<1>3. CASE S # {}
  <2> DEFINE R == S \ {Pick(S)}
  <2>1. R \in SUBSET S /\ IsFiniteSet(R) /\ \A x \in R : f[x] \in Int
    BY FS_Subset
  <2> HIDE DEF R
  <2>2. PICK h \in [SUBSET R -> Int] : Sums(f, SUBSET R, h) /\ SumOf(f, R) = h[R]
    BY <2>1, SumIsDefined
  <2>3. Sums(f, SUBSET R, g)
    BY <1>1, <2>1 DEF Sums
  <2>4. g[R] = h[R]
    BY <2>1, <2>2, <2>3, SumsAreUnique
  <2>5. g[S] = f[Pick(S)] + g[R]
    BY <1>1, <1>3 DEF Sums, R
  <2> QED
    BY <1>1, <1>3, <2>2, <2>4, <2>5 DEF R
<1> QED
  BY <1>2, <1>3

LEMMA Distributes == \A a, b, c \in Int : a * (b + c) = a * b + a * c /\ a * b \in Int
OBVIOUS

\* A bound of each term bounds the sum.
LEMMA SumBound ==
  ASSUME NEW S, IsFiniteSet(S), NEW f, NEW g, \A x \in S : f[x] \in Int /\ g[x] \in Int,
         NEW a \in Int, NEW b \in Int, NEW c \in Int, \A x \in S : a * f[x] <= b * g[x] + c
  PROVE  a * SumOf(f, S) <= b * SumOf(g, S) + c * Cardinality(S)
<1> DEFINE Bounded == {s \in SUBSET S : a * SumOf(f, s) <= b * SumOf(g, s) + c * Cardinality(s)}
<1>1. {} \in Bounded
  <2>1. SumOf(f, {}) = 0 /\ SumOf(g, {}) = 0 /\ Cardinality({}) = 0
    BY SumStep, FS_EmptySet
  <2>2. a * 0 <= b * 0 + c * 0
    OBVIOUS
  <2> QED
    BY <2>1, <2>2
<1>2. ASSUME NEW s \in SUBSET S, s # {}, s \ {Pick(s)} \in Bounded PROVE s \in Bounded
  <2> DEFINE x == Pick(s)
             r == s \ {Pick(s)}
  <2>1. x \in s /\ x \in S
    BY <1>2 DEF Pick
  <2>2. IsFiniteSet(s) /\ IsFiniteSet(r) /\ Cardinality(r) \in Nat /\ Cardinality(s) = Cardinality(r) + 1
    <3>1. IsFiniteSet(s)
      BY FS_Subset
    <3>2. IsFiniteSet(s \ {x}) /\ Cardinality(s \ {x}) = Cardinality(s) - 1
      BY <2>1, <3>1, FS_RemoveElement
    <3>3. Cardinality(s) \in Nat /\ Cardinality(s \ {x}) \in Nat
      BY <3>1, <3>2, FS_CardinalityType
    <3> QED
      BY <3>1, <3>2, <3>3
  <2>3. /\ SumOf(f, s) = f[x] + SumOf(f, r) /\ SumOf(g, s) = g[x] + SumOf(g, r)
        /\ SumOf(f, r) \in Int /\ SumOf(g, r) \in Int
    <3>1. (\A y \in s : f[y] \in Int /\ g[y] \in Int) /\ (\A y \in r : f[y] \in Int /\ g[y] \in Int)
      OBVIOUS
    <3> QED
      BY <1>2, <2>2, <3>1, SumStep
  <2>4. a * SumOf(f, r) <= b * SumOf(g, r) + c * Cardinality(r)
    BY <1>2
  <2>5. a * f[x] <= b * g[x] + c /\ f[x] \in Int /\ g[x] \in Int
    BY <2>1
  <2> HIDE DEF x, r
  <2>6. /\ a * (f[x] + SumOf(f, r)) = a * f[x] + a * SumOf(f, r)
        /\ b * (g[x] + SumOf(g, r)) = b * g[x] + b * SumOf(g, r)
        /\ c * (Cardinality(r) + 1) = c * Cardinality(r) + c
    <3>1. a * (f[x] + SumOf(f, r)) = a * f[x] + a * SumOf(f, r)
      BY <2>3, <2>5, Distributes
    <3>2. b * (g[x] + SumOf(g, r)) = b * g[x] + b * SumOf(g, r)
      BY <2>3, <2>5, Distributes
    <3>3. c * (Cardinality(r) + 1) = c * Cardinality(r) + c
      BY <2>2, Distributes
    <3> QED
      BY <3>1, <3>2, <3>3
  <2>7. a * f[x] \in Int /\ a * SumOf(f, r) \in Int /\ b * g[x] \in Int /\ b * SumOf(g, r) \in Int /\ c * Cardinality(r) \in Int
    BY <2>2, <2>3, <2>5
  <2>8. a * f[x] + a * SumOf(f, r) <= (b * g[x] + b * SumOf(g, r)) + (c * Cardinality(r) + c)
    BY <2>4, <2>5, <2>7
  <2>9. a * SumOf(f, s) <= b * SumOf(g, s) + c * Cardinality(s)
    BY <2>2, <2>3, <2>6, <2>8
  <2> QED
    BY <2>9
<1>3. S \in Bounded
  BY <1>1, <1>2, SetInduction
<1> QED
  BY <1>3

LEMMA SumOfSame ==
  ASSUME NEW S, IsFiniteSet(S), NEW f, NEW g, \A x \in S : f[x] \in Int /\ g[x] = f[x]
  PROVE  SumOf(g, S) = SumOf(f, S)
<1> DEFINE Same == {s \in SUBSET S : SumOf(g, s) = SumOf(f, s)}
<1>1. {} \in Same
  <2>1. SumOf(f, {}) = 0 /\ SumOf(g, {}) = 0
    BY SumStep, FS_EmptySet
  <2> QED
    BY <2>1
<1>2. ASSUME NEW s \in SUBSET S, s # {}, s \ {Pick(s)} \in Same PROVE s \in Same
  <2>1. Pick(s) \in s
    BY <1>2 DEF Pick
  <2>2. IsFiniteSet(s) /\ \A x \in s : f[x] \in Int /\ g[x] \in Int /\ g[x] = f[x]
    BY FS_Subset
  <2>3. SumOf(f, s) = f[Pick(s)] + SumOf(f, s \ {Pick(s)})
    BY <1>2, <2>2, SumStep
  <2>4. SumOf(g, s) = g[Pick(s)] + SumOf(g, s \ {Pick(s)})
    BY <1>2, <2>2, SumStep
  <2>5. SumOf(g, s \ {Pick(s)}) = SumOf(f, s \ {Pick(s)})
    BY <1>2
  <2>6. SumOf(g, s) = SumOf(f, s)
    BY <2>1, <2>2, <2>3, <2>4, <2>5
  <2> QED
    BY <2>6
<1>3. S \in Same
  BY <1>1, <1>2, SetInduction
<1> QED
  BY <1>3

\* A sum of numbers that are not negative is no less than any of them.
LEMMA SumOfNumbers ==
  ASSUME NEW S, IsFiniteSet(S), NEW f, \A x \in S : f[x] \in Nat
  PROVE  SumOf(f, S) \in Nat /\ \A x \in S : f[x] <= SumOf(f, S)
<1> DEFINE Above == {s \in SUBSET S : SumOf(f, s) \in Nat /\ \A x \in s : f[x] <= SumOf(f, s)}
<1>1. {} \in Above
  <2>1. SumOf(f, {}) = 0
    BY SumStep, FS_EmptySet
  <2> QED
    BY <2>1
<1>2. ASSUME NEW s \in SUBSET S, s # {}, s \ {Pick(s)} \in Above PROVE s \in Above
  <2>1. Pick(s) \in s
    BY <1>2 DEF Pick
  <2>2. IsFiniteSet(s) /\ \A x \in s : f[x] \in Nat
    BY FS_Subset
  <2>3. SumOf(f, s) = f[Pick(s)] + SumOf(f, s \ {Pick(s)})
    BY <1>2, <2>2, SumStep
  <2>4. SumOf(f, s \ {Pick(s)}) \in Nat /\ \A x \in s \ {Pick(s)} : f[x] <= SumOf(f, s \ {Pick(s)})
    BY <1>2
  <2>5. f[Pick(s)] \in Nat
    BY <2>1, <2>2
  <2>6. SumOf(f, s) \in Nat /\ f[Pick(s)] <= SumOf(f, s)
    BY <2>3, <2>4, <2>5
  <2>7. ASSUME NEW x \in s, x # Pick(s) PROVE f[x] <= SumOf(f, s)
    <3>1. f[x] \in Nat /\ f[x] <= SumOf(f, s \ {Pick(s)})
      BY <2>2, <2>4, <2>7
    <3> QED
      BY <2>3, <2>4, <2>5, <3>1
  <2> QED
    BY <2>6, <2>7
<1>3. S \in Above
  BY <1>1, <1>2, SetInduction
<1> QED
  BY <1>3

-----------------------------------------------------------------------------
(* Quantities *)

LEMMA Rounded ==
  ASSUME NEW n \in Nat, NEW d \in Nat \ {0}
  PROVE  /\ Round(n, d) \in Nat
         /\ 2 * (d * Round(n, d)) <= 2 * n + d
         /\ 2 * n <= 2 * (d * Round(n, d)) + d
<1> DEFINE q == (2 * n + d) \div (2 * d)
           e == 2 * d
           m == 2 * n + d
<1>1. e \in Nat \ {0} /\ m \in Nat
  OBVIOUS
<1>2. \A x \in Nat, y \in Nat \ {0} : x \div y \in Nat /\ y * (x \div y) <= x /\ x < y * (x \div y) + y
  OBVIOUS
<1>3. q \in Nat /\ e * q <= m /\ m < e * q + e
  BY <1>1, <1>2
<1>4. e * q = 2 * (d * q)
  BY <1>3
<1>5. d * q \in Int
  BY <1>3
<1> HIDE DEF q
<1>6. 2 * (d * q) <= 2 * n + d /\ 2 * n + d < 2 * (d * q) + 2 * d
  BY <1>3, <1>4
<1>7. 2 * (d * q) <= 2 * n + d /\ 2 * n <= 2 * (d * q) + d
  BY <1>5, <1>6
<1>8. Round(n, d) = q
  BY DEF Round, q
<1> QED
  BY <1>3, <1>7, <1>8

(* What the quantities of a store are computed from. *)
LEMMA OptionSums ==
  ASSUME NEW st \in Stock, NEW pt \in [Products -> Int], NEW o
  PROVE  /\ IsFiniteSet(In(o)) /\ In(o) \subseteq Products /\ Cardinality(In(o)) \in Nat
         /\ SumOf(st.level, In(o)) \in Int
         /\ SumOf(pt, In(o)) \in Int
         /\ \A p \in In(o) : pt[p] \in Int
         /\ o \in Options => MaxOf(st, pt, o) \in Int /\ OptionOrderQuantity(st, pt, o) \in Int
<1>1. IsFiniteSet(In(o)) /\ In(o) \subseteq Products
  BY FS_Subset, QuantitiesAssumption DEF In
<1>2. \A p \in In(o) : pt[p] \in Int /\ st.level[p] \in Int
  BY <1>1 DEF Stock, Inventory
<1>3. SumOf(st.level, In(o)) \in Int
  BY <1>1, <1>2, SumStep
<1>4. SumOf(pt, In(o)) \in Int
  BY <1>1, <1>2, SumStep
<1>5. o \in Options => MaxOf(st, pt, o) \in Int
  BY <1>4, QuantitiesAssumption DEF MaxOf, Stock, Inventory
<1>6. o \in Options => OptionOrderQuantity(st, pt, o) \in Int
  BY <1>3, <1>5 DEF OptionOrderQuantity
<1> QED
  BY <1>1, <1>2, <1>3, <1>4, <1>5, <1>6, FS_CardinalityType

LEMMA SuggestedType ==
  ASSUME NEW st \in Stock, NEW pt \in [Products -> Int], NEW p \in Products
  PROVE  /\ OptionOf[p] \in Options /\ p \in In(OptionOf[p])
         /\ Suggested(st, pt, p) \in Int /\ st.warehouse[p] \in Int
         /\ SumOf(pt, In(OptionOf[p])) \in Int
<1>1. OptionOf[p] \in Options /\ p \in In(OptionOf[p])
  BY QuantitiesAssumption DEF In
<1>2. OptionOrderQuantity(st, pt, OptionOf[p]) \in Int /\ SumOf(pt, In(OptionOf[p])) \in Int /\ pt[p] \in Int
  BY <1>1, OptionSums
<1>3. st.multiplier[p] = Unset \/ st.multiplier[p] \in Nat
  BY DEF Stock, Inventory
<1>4. pt[p] * OptionOrderQuantity(st, pt, OptionOf[p]) \in Int
  BY <1>2, Distributes
<1>5. (IF st.multiplier[p] = Unset THEN 1 ELSE st.multiplier[p]) \in Int
  BY <1>3
<1>6. Suggested(st, pt, p) \in Int
  BY <1>4, <1>5, Distributes DEF Suggested
<1> QED
  BY <1>1, <1>2, <1>6 DEF Stock, Inventory

\* The quantity of a line: no more than the warehouse has, and what is suggested but for
\* the rounding, unless that is more than the warehouse has.
LEMMA LineQuantity ==
  ASSUME NEW st \in Stock, NEW pt \in [Products -> Int], NEW p \in LineItemsToOrder(st, pt)
  PROVE  LET t == SumOf(pt, In(OptionOf[p]))
             s == Suggested(st, pt, p)
             q == OrderQuantity(st, pt, p)
         IN  /\ q \in Nat /\ q <= st.warehouse[p]
             /\ 2 * (t * q) <= 2 * s + t
             /\ s <= st.warehouse[p] * t => 2 * s <= 2 * (t * q) + t
<1> DEFINE t == SumOf(pt, In(OptionOf[p]))
           s == Suggested(st, pt, p)
           q == OrderQuantity(st, pt, p)
           w == st.warehouse[p]
<1>1. p \in Products /\ s \in Nat /\ w \in Nat \ {0} /\ t \in Nat \ {0}
  <2>1. p \in Products /\ s > 0 /\ w > 0 /\ t > 0
    BY DEF LineItemsToOrder, ToReplenish
  <2>2. s \in Int /\ w \in Int /\ t \in Int
    BY <2>1, SuggestedType
  <2> QED
    BY <2>1, <2>2
<1>2. q = IF w * t > s THEN Round(s, t) ELSE w
  BY DEF OrderQuantity
<1> HIDE DEF t, s, q, w
<1>3. CASE w * t > s
  <2>1. /\ q \in Nat
        /\ 2 * (t * q) <= 2 * s + t /\ 2 * s <= 2 * (t * q) + t
    BY <1>1, <1>2, <1>3, Rounded
  <2>2. q <= w
    <3> SUFFICES ASSUME q >= w + 1 PROVE FALSE
      BY <1>1, <2>1
    <3>1. t * q >= t * (w + 1)
      BY <1>1, <2>1
    <3>2. t * (w + 1) = w * t + t
      BY <1>1
    <3>3. t * q \in Int /\ w * t \in Int
      BY <1>1, <2>1
    <3> QED
      BY <1>1, <1>3, <2>1, <3>1, <3>2, <3>3
  <2> QED
    BY <1>1, <2>1, <2>2 DEF t, s, q, w
<1>4. CASE ~(w * t > s)
  <2>1. q = w /\ t * q = w * t /\ w * t \in Int
    BY <1>1, <1>2, <1>4
  <2>2. q \in Nat /\ q <= w /\ 2 * (t * q) <= 2 * s + t /\ (s <= w * t => 2 * s <= 2 * (t * q) + t)
    BY <1>1, <1>4, <2>1
  <2> QED
    BY <2>2 DEF t, s, q, w
<1> QED
  BY <1>3, <1>4

\* No line goes beyond the warehouse.
LEMMA LineQuantityType ==
  ASSUME NEW st \in Stock, NEW pt \in [Products -> Int], NEW p \in LineItemsToOrder(st, pt)
  PROVE  OrderQuantity(st, pt, p) \in Nat /\ OrderQuantity(st, pt, p) <= st.warehouse[p]
BY LineQuantity

LEMMA MaxOfTwo ==
  ASSUME NEW a \in Int, NEW b \in Int
  PROVE  Max({a, b}) = IF b > a THEN b ELSE a
<1> DEFINE m == IF b > a THEN b ELSE a
<1>1. m \in {a, b} /\ \A y \in {a, b} : m >= y
  OBVIOUS
<1>2. \A n \in {a, b} : (\A y \in {a, b} : n >= y) => n = m
  OBVIOUS
<1> QED
  BY <1>1, <1>2 DEF Max

LEMMA Cancels ==
  ASSUME NEW t \in Nat \ {0}, NEW x \in Int, NEW y \in Int, t * x <= t * y
  PROVE  x <= y
<1> SUFFICES ASSUME x >= y + 1 PROVE FALSE
  OBVIOUS
<1>1. t * x >= t * (y + 1)
  OBVIOUS
<1>2. t * (y + 1) = t * y + t /\ t * y \in Int /\ t * x \in Int
  OBVIOUS
<1> QED
  BY <1>1, <1>2

\* The lines of an option that lacks G: what they have, and when they have none.
LEMMA LinesOfOption ==
  ASSUME NEW st \in Stock, NEW pt \in [Products -> Int], NEW o \in Options, ToReplenish(st, pt, o),
         \A p \in In(o) : st.multiplier[p] = Unset,
         NEW G \in Nat \ {0}, G = OptionOrderQuantity(st, pt, o),
         NEW p \in In(o)
  PROVE  /\ p \in Products /\ OptionOf[p] = o /\ Suggested(st, pt, p) = pt[p] * G /\ pt[p] * G \in Int
         /\ SumOf(pt, In(o)) \in Nat \ {0}
         /\ p \in LineItemsToOrder(st, pt) => pt[p] * G > 0
         /\ p \notin LineItemsToOrder(st, pt) /\ InWarehouse(st, o) /\ st.warehouse[p] > 0 => pt[p] * G <= 0
<1>1. p \in Products /\ OptionOf[p] = o
  BY OptionSums DEF In
<1>2. pt[p] \in Int /\ SumOf(pt, In(o)) \in Nat \ {0}
  <2>1. pt[p] \in Int /\ SumOf(pt, In(o)) \in Int
    BY OptionSums
  <2>2. SumOf(pt, In(o)) > 0
    BY DEF ToReplenish
  <2> QED
    BY <2>1, <2>2
<1>3. pt[p] * G \in Int
  BY <1>2
<1>4. Suggested(st, pt, p) = pt[p] * G * 1
  BY <1>1 DEF Suggested
<1>5. Suggested(st, pt, p) = pt[p] * G
  BY <1>3, <1>4
<1>6. p \in LineItemsToOrder(st, pt) => pt[p] * G > 0
  BY <1>1, <1>5 DEF LineItemsToOrder
<1>7. ASSUME p \notin LineItemsToOrder(st, pt), InWarehouse(st, o), st.warehouse[p] > 0 PROVE pt[p] * G <= 0
  <2>1. ~(pt[p] * G > 0)
    BY <1>1, <1>5, <1>7 DEF LineItemsToOrder
  <2> QED
    BY <1>3, <2>1
<1> QED
  BY <1>1, <1>2, <1>3, <1>5, <1>6, <1>7

\* The quantities of an option add up to what it lacks, give or take a half for each line:
\* to no more unless a reorder point is negative, and to no less if the warehouse has enough.
LEMMA OptionIsFilled ==
  ASSUME NEW st \in Stock, NEW pt \in [Products -> Int], NEW o \in Options, ToReplenish(st, pt, o),
         \A p \in In(o) : st.multiplier[p] = Unset,
         NEW f, \A p \in In(o) : f[p] = IF p \in LineItemsToOrder(st, pt) THEN OrderQuantity(st, pt, p) ELSE 0,
         NEW G \in Nat \ {0}, G = OptionOrderQuantity(st, pt, o)
  PROVE  /\ (\A p \in In(o) : pt[p] >= 0) => 2 * SumOf(f, In(o)) <= 2 * G + Cardinality(In(o))
         /\ InWarehouse(st, o) /\ (\A p \in In(o) : st.warehouse[p] >= G) =>
              2 * SumOf(f, In(o)) >= 2 * G - Cardinality(In(o))
<1> DEFINE t == SumOf(pt, In(o))
           n == Cardinality(In(o))
           got == SumOf(f, In(o))
<1>0. /\ IsFiniteSet(In(o)) /\ In(o) \subseteq Products /\ n \in Nat /\ t \in Nat \ {0}
      /\ \A p \in In(o) : OptionOf[p] = o /\ pt[p] \in Int
  <2>1. /\ IsFiniteSet(In(o)) /\ In(o) \subseteq Products /\ n \in Nat /\ t \in Int
        /\ \A p \in In(o) : pt[p] \in Int
    BY OptionSums
  <2>2. t > 0
    BY DEF ToReplenish
  <2>3. \A p \in In(o) : OptionOf[p] = o
    BY DEF In
  <2> QED
    BY <2>1, <2>2, <2>3
<1>1. \A p \in In(o) : Suggested(st, pt, p) = pt[p] * G /\ pt[p] * G \in Int /\ st.warehouse[p] \in Int
  BY <1>0, LinesOfOption DEF Stock, Inventory
<1>2. \A p \in In(o) : f[p] \in Nat
  <2> TAKE p \in In(o)
  <2> QED
    BY <1>0, LineQuantity
<1> HIDE DEF t, n, got
<1>3. ASSUME \A p \in In(o) : pt[p] >= 0
      PROVE  \A p \in In(o) : 2 * (t * f[p]) <= 2 * (pt[p] * G) + t
  <2> TAKE p \in In(o)
  <2>1. CASE p \in LineItemsToOrder(st, pt)
    BY <1>0, <1>1, <2>1, LineQuantity DEF t
  <2>2. CASE p \notin LineItemsToOrder(st, pt)
    <3>1. f[p] = 0 /\ t * f[p] = 0
      BY <1>0, <2>2
    <3>2. pt[p] * G >= 0
      BY <1>0, <1>3
    <3> QED
      BY <1>0, <1>1, <3>1, <3>2
  <2> QED
    BY <2>1, <2>2
<1>4. ASSUME InWarehouse(st, o), \A p \in In(o) : st.warehouse[p] >= G, \A p \in In(o) : f[p] < G
      PROVE  \A p \in In(o) : 2 * (pt[p] * G) <= 2 * (t * f[p]) + t
  <2> TAKE p \in In(o)
  <2>1. st.warehouse[p] >= G /\ st.warehouse[p] > 0 /\ f[p] < G
    BY <1>1, <1>4
  <2>2. CASE p \in LineItemsToOrder(st, pt)
    <3>1. f[p] = OrderQuantity(st, pt, p)
      BY <2>2
    <3>2. pt[p] * G <= st.warehouse[p] * t
      <4> SUFFICES ASSUME ~(st.warehouse[p] * t > pt[p] * G) PROVE FALSE
        BY <1>0, <1>1
      <4>1. f[p] = st.warehouse[p]
        BY <1>0, <1>1, <3>1 DEF OrderQuantity, t
      <4> QED
        BY <1>1, <2>1, <4>1
    <3> QED
      BY <1>0, <1>1, <2>2, <3>1, <3>2, LineQuantity DEF t
  <2>3. CASE p \notin LineItemsToOrder(st, pt)
    <3>1. pt[p] * G <= 0 /\ f[p] = 0
      BY <1>4, <2>1, <2>3, LinesOfOption
    <3>2. t * f[p] = 0
      BY <1>0, <3>1
    <3> QED
      BY <1>0, <1>1, <3>1, <3>2
  <2> QED
    BY <2>2, <2>3
<1>5. /\ \A p \in In(o) : f[p] \in Int /\ pt[p] \in Int
      /\ got \in Nat /\ 2 * t \in Int /\ 2 * G \in Int /\ t \in Int
      /\ \A p \in In(o) : f[p] <= got
  <2>1. \A p \in In(o) : f[p] \in Int /\ pt[p] \in Int
    BY <1>0, <1>2
  <2>2. got \in Nat /\ \A p \in In(o) : f[p] <= got
    BY <1>0, <1>2, SumOfNumbers DEF got
  <2> QED
    BY <1>0, <2>1, <2>2
<1>6. \A p \in In(o) : (2 * t) * f[p] = 2 * (t * f[p]) /\ (2 * G) * pt[p] = 2 * (pt[p] * G)
  BY <1>0, <1>5
<1>7. /\ (2 * t) * got = t * (2 * got) /\ (2 * G) * t + t * n = t * (2 * G + n)
      /\ (2 * t) * got + t * n = t * (2 * got + n) /\ (2 * G) * t = t * (2 * G)
  BY <1>0, <1>5
<1>8. ASSUME \A p \in In(o) : pt[p] >= 0
      PROVE  2 * got <= 2 * G + n
  <2>1. (2 * t) * got <= (2 * G) * t + t * n
    BY <1>0, <1>3, <1>5, <1>6, <1>8, SumBound DEF t, n, got
  <2> QED
    BY <1>0, <1>5, <1>7, <2>1, Cancels
<1>9. ASSUME InWarehouse(st, o), \A p \in In(o) : st.warehouse[p] >= G
      PROVE  2 * G <= 2 * got + n
  <2>1. CASE \A p \in In(o) : f[p] < G
    <3>1. (2 * G) * t <= (2 * t) * got + t * n
      BY <1>0, <1>4, <1>9, <2>1, <1>5, <1>6, SumBound DEF t, n, got
    <3> QED
      BY <1>0, <1>5, <1>7, <3>1, Cancels
  <2>2. ASSUME NEW p \in In(o), ~(f[p] < G) PROVE 2 * G <= 2 * got + n
    BY <1>0, <1>5, <2>2
  <2> QED
    BY <2>1, <2>2
<1> QED
  BY <1>0, <1>5, <1>8, <1>9 DEF n, got

\* Nothing is ordered of an option that lacks nothing.
LEMMA NothingIsLacking ==
  ASSUME NEW st \in Stock, NEW pt \in [Products -> Int], NEW o \in Options,
         ~(ToReplenish(st, pt, o) /\ OptionOrderQuantity(st, pt, o) > 0),
         NEW f, \A p \in In(o) : f[p] = IF p \in LineItemsToOrder(st, pt) THEN OrderQuantity(st, pt, p) ELSE 0
  PROVE  SumOf(f, In(o)) = 0
<1>1. IsFiniteSet(In(o)) /\ \A p \in In(o) : OptionOf[p] = o
  BY OptionSums DEF In
<1>2. \A p \in In(o) : f[p] = 0
  BY <1>1 DEF LineItemsToOrder
<1>3. 2 * SumOf(f, In(o)) <= 0 * SumOf(f, In(o)) + 0 * Cardinality(In(o))
  BY <1>1, <1>2, SumBound
<1>4. SumOf(f, In(o)) \in Nat /\ Cardinality(In(o)) \in Nat
  BY <1>1, <1>2, SumOfNumbers, FS_CardinalityType
<1> QED
  BY <1>3, <1>4

\* The lines that the inventories and the reorder points ask for.
LinesAreThose ==
  \A p \in Products :
    item[p].originalOrderQuantity =
      IF p \in LineItemsToOrder(stock, point) THEN OrderQuantity(stock, point, p) ELSE 0

Recalculated == point = Points(stock)

\* What the worker takes for due leaves those points that an order is meant to be made from.
LEMMA PointsAreMeant == ASSUME stock \in Stock PROVE Points(stock) = MeantPoints
<1>1. ASSUME NEW p \in Products
      PROVE  /\ stock.calculated[p] \in {"never", "before", "today"}
             /\ stock.calculated[p] = "never" => stock.calculatedFor[p] = Unset
  BY DEF Stock, Inventory
<1> QED
  BY <1>1 DEF Points, ToCalculate, MeantPoints

\* Such lines fill the options as OrderFillsOptions promises.
LEMMA ThoseLinesFill == ASSUME TypeOK, Recalculated, LinesAreThose PROVE OrderFillsOptions
<1> DEFINE onHand(o) == SumOf(stock.level, In(o))
           goal(o) == MaxOf(stock, point, o) - Max({0, onHand(o)})
           lacks(o) == ToReplenish(stock, point, o) /\ goal(o) > 0
           f == [p \in Products |-> item[p].originalOrderQuantity]
<1>1. stock \in Stock /\ point \in [Products -> Int] /\ point = MeantPoints
  BY PointsAreMeant DEF TypeOK, Recalculated
<1>2. ASSUME NEW p \in Products PROVE f[p] <= Max({0, stock.warehouse[p]})
  <2>1. stock.warehouse[p] \in Int
    BY <1>1 DEF Stock, Inventory
  <2>2. CASE p \in LineItemsToOrder(stock, point)
    <3>1. f[p] \in Nat /\ f[p] <= stock.warehouse[p]
      BY <1>1, <2>2, LineQuantityType DEF LinesAreThose
    <3> QED
      BY <2>1, <3>1, MaxOfTwo
  <2>3. CASE p \notin LineItemsToOrder(stock, point)
    BY <2>1, <2>3, MaxOfTwo DEF LinesAreThose
  <2> QED
    BY <2>2, <2>3
<1>3. ASSUME NEW o \in Options
      PROVE  /\ goal(o) \in Int /\ goal(o) = OptionOrderQuantity(stock, point, o)
             /\ \A p \in In(o) : f[p] = IF p \in LineItemsToOrder(stock, point)
                                          THEN OrderQuantity(stock, point, p) ELSE 0
  <2>1. onHand(o) \in Int /\ MaxOf(stock, point, o) \in Int /\ In(o) \subseteq Products
    BY <1>1, OptionSums
  <2>2. Max({0, onHand(o)}) = IF onHand(o) > 0 THEN onHand(o) ELSE 0
    BY <2>1, MaxOfTwo
  <2> QED
    BY <2>1, <2>2 DEF OptionOrderQuantity, LinesAreThose
<1>4. ASSUME NEW o \in Options, ~lacks(o) PROVE SumOf(f, In(o)) = 0
  <2> HIDE DEF f, goal
  <2> QED
    BY <1>1, <1>3, <1>4, NothingIsLacking
<1>5. ASSUME NEW o \in Options, lacks(o), \A p \in In(o) : stock.multiplier[p] = Unset
      PROVE  /\ ~(\E p \in In(o) : point[p] < 0) => 2 * SumOf(f, In(o)) <= 2 * goal(o) + Cardinality(In(o))
             /\ InWarehouse(stock, o) /\ (\A p \in In(o) : stock.warehouse[p] >= goal(o)) =>
                  2 * SumOf(f, In(o)) >= 2 * goal(o) - Cardinality(In(o))
  <2>1. \A p \in In(o) : point[p] \in Int
    BY <1>1, OptionSums
  <2>2. goal(o) \in Nat \ {0} /\ ToReplenish(stock, point, o)
    BY <1>3, <1>5
  <2> HIDE DEF f, goal
  <2> QED
    BY <1>1, <1>3, <1>5, <2>1, <2>2, OptionIsFilled
<1> HIDE DEF f, goal
<1> QED
  BY <1>1, <1>2, <1>4, <1>5 DEF OrderFillsOptions, f, goal

-----------------------------------------------------------------------------
(* Types *)

Pcs == {"free", "queued"} \union GenPcs \union ToPcs \union Ended

LEMMA NewJobType ==
  ASSUME NEW op \in Ops, NEW pc \in Pcs, NEW n \in TransferOrders \union {None}
  PROVE  NewJob(op, pc) \in Job /\ [NewJob(op, pc) EXCEPT !.number = n] \in Job
BY DEF NewJob, Job, Pcs, Nothing

LEMMA JobFields ==
  ASSUME TypeOK, NEW j \in Jobs
  PROVE  /\ job[j].op \in Ops /\ job[j].pc \in Pcs /\ job[j].number \in TransferOrders \union {None}
         /\ job[j].quantity \in [Products -> Nat] /\ job[j].batches \in Nat
         /\ job[j].todo \in SUBSET SUBSET Products /\ job[j].answered \in SUBSET SUBSET Products
BY DEF TypeOK, Job, Pcs

\* The other workers go on as they were.
Others(j) == \A k \in Jobs : k # j => job'[k] = job[k]

LEMMA GotoEffect ==
  ASSUME TypeOK, NEW j \in Jobs, NEW pc \in Pcs, Goto(j, pc)
  PROVE  /\ job' \in [Jobs -> Job] /\ Others(j)
         /\ job'[j].pc = pc /\ job'[j].op = job[j].op /\ job'[j].number = job[j].number
         /\ job'[j].quantity = job[j].quantity /\ job'[j].batches = job[j].batches
         /\ job'[j].todo = job[j].todo /\ job'[j].answered = job[j].answered
BY DEF TypeOK, Goto, Others, Job, Pcs

LEMMA FinishEffect ==
  ASSUME TypeOK, NEW j \in Jobs, NEW pc \in Pcs, Finish(j, pc)
  PROVE  /\ job' \in [Jobs -> Job] /\ Others(j)
         /\ job'[j].pc = pc /\ job'[j].op = job[j].op /\ job'[j].number = job[j].number
<1>1. [NewJob(job[j].op, pc) EXCEPT !.number = job[j].number] \in Job
  BY JobFields, NewJobType
<1>2. /\ [NewJob(job[j].op, pc) EXCEPT !.number = job[j].number].pc = pc
      /\ [NewJob(job[j].op, pc) EXCEPT !.number = job[j].number].op = job[j].op
      /\ [NewJob(job[j].op, pc) EXCEPT !.number = job[j].number].number = job[j].number
  BY DEF NewJob
<1> QED
  BY <1>1, <1>2 DEF TypeOK, Finish, Others

LEMMA SetStateEffect ==
  ASSUME TypeOK, NEW st \in REPORT_STATES, SetState(st)
  PROVE  /\ report' \in Report /\ report'.state = st
         /\ report'.transferOrderNumber = report.transferOrderNumber
         /\ report'.percentagePushedToMSD = report.percentagePushedToMSD
BY DEF TypeOK, SetState, Report

\* The other sessions go on as they were.
OtherSessions(s) == \A t \in Sessions : t # s => session'[t] = session[t]

LEMMA ReturnEffect ==
  ASSUME TypeOK, NEW s \in Sessions, Return(s)
  PROVE  /\ session' \in [Sessions -> Session] /\ OtherSessions(s)
         /\ session'[s].pc = "idle" /\ session'[s].op = session[s].op /\ session'[s].page = session[s].page
BY DEF TypeOK, Return, Session, OtherSessions

LEMMA FaultEffect == ASSUME TypeOK, Fault PROVE faults' \in 0 .. MaxFaults /\ faults' > 0
BY MsdOrderAssumption DEF TypeOK, Fault

\* What becomes of the sessions, per action.
SessionEffect(s, page, pc, op) ==
  /\ session' \in [Sessions -> Session] /\ OtherSessions(s)
  /\ session'[s].page = page /\ session'[s].pc = pc /\ session'[s].op = op

LEMMA SessionEffects ==
  ASSUME TypeOK, NEW s \in Sessions
  PROVE  /\ CallGenerate(s) => SessionEffect(s, session[s].page, "send", "generate")
         /\ OpenPage(s) => SessionEffect(s, TRUE, IF report.state = "GENERATED" THEN "put" ELSE "idle", session[s].op)
         /\ PutOpenedState(s) \/ SendPayLoad(s) \/ SendPayLoadFails(s) =>
              SessionEffect(s, session[s].page, "idle", session[s].op)
         /\ CallCreateTransferOrder(s) => SessionEffect(s, session[s].page, "write", "transfer")
         /\ WritePushingToMSD(s) => SessionEffect(s, FALSE, "send", session[s].op)
         /\ \A p \in Products : EditItem(s, p) => UNCHANGED session
<1>1. PutOpenedState(s) \/ SendPayLoad(s) \/ SendPayLoadFails(s) => SessionEffect(s, session[s].page, "idle", session[s].op)
  BY ReturnEffect DEF PutOpenedState, SendPayLoad, SendPayLoadFails, SessionEffect
<1>2. session[s] \in Session
  BY DEF TypeOK
<1>3. ASSUME NEW x \in Session, session' = [session EXCEPT ![s] = x]
      PROVE  SessionEffect(s, x.page, x.pc, x.op)
  BY <1>3 DEF TypeOK, SessionEffect, OtherSessions
<1>4. ASSUME CallGenerate(s) PROVE SessionEffect(s, session[s].page, "send", "generate")
  <2>1. session' = [session EXCEPT ![s] = [session[s] EXCEPT !.pc = "send", !.op = "generate"]]
    BY <1>4 DEF CallGenerate
  <2>2. [session[s] EXCEPT !.pc = "send", !.op = "generate"] \in Session
    BY <1>2 DEF Session, Ops
  <2> QED
    BY <1>2, <1>3, <2>1, <2>2 DEF Session
<1>5. ASSUME OpenPage(s)
      PROVE  SessionEffect(s, TRUE, IF report.state = "GENERATED" THEN "put" ELSE "idle", session[s].op)
  <2> DEFINE pc == IF report.state = "GENERATED" THEN "put" ELSE "idle"
  <2>1. session' = [session EXCEPT ![s] = [session[s] EXCEPT !.page = TRUE, !.pc = pc]]
    BY <1>5 DEF OpenPage
  <2>2. [session[s] EXCEPT !.page = TRUE, !.pc = pc] \in Session
    BY <1>2 DEF Session
  <2> QED
    BY <1>2, <1>3, <2>1, <2>2 DEF Session
<1>6. ASSUME CallCreateTransferOrder(s) PROVE SessionEffect(s, session[s].page, "write", "transfer")
  <2>1. session' = [session EXCEPT ![s] = [session[s] EXCEPT !.pc = "write", !.op = "transfer"]]
    BY <1>6 DEF CallCreateTransferOrder
  <2>2. [session[s] EXCEPT !.pc = "write", !.op = "transfer"] \in Session
    BY <1>2 DEF Session, Ops
  <2> QED
    BY <1>2, <1>3, <2>1, <2>2 DEF Session
<1>7. ASSUME WritePushingToMSD(s) PROVE SessionEffect(s, FALSE, "send", session[s].op)
  <2>1. session' = [session EXCEPT ![s] = [session[s] EXCEPT !.pc = "send", !.page = FALSE]]
    BY <1>7 DEF WritePushingToMSD
  <2>2. [session[s] EXCEPT !.pc = "send", !.page = FALSE] \in Session
    BY <1>2 DEF Session
  <2> QED
    BY <1>2, <1>3, <2>1, <2>2 DEF Session
<1> QED
  BY <1>1, <1>4, <1>5, <1>6, <1>7 DEF EditItem

LEMMA NoneGotoEnds == {"queued", "gen_store", "gen_points", "gen_lines", "gen_state", "gen_error", "to_find",
  "to_state", "to_header", "to_lines", "to_push", "to_save", "to_error", "done", "failed", "gave_up", "dead"} \subseteq Pcs
BY DEF Pcs, GenPcs, ToPcs, Ended

StateNames == {"PROCESSING", "PROCESSING_FAILURE", "GENERATED", "APPROVAL_IN_PROCESS", "PUSHING_TO_MSD",
               "ERROR_PUSHING_TO_MSD", "FULFILMENT_PENDING"}

LEMMA NamesAreStates == StateNames \subseteq REPORT_STATES
BY DEF StateNames, REPORT_STATES

\* A message that the queue takes gets a worker of its own.
LEMMA SendEffect ==
  ASSUME TypeOK, NEW s \in Sessions, SendPayLoad(s)
  PROVE  \E j \in Jobs : /\ job[j].pc = "free" /\ job' \in [Jobs -> Job] /\ Others(j)
                         /\ job'[j] = NewJob(session[s].op, "queued")
<1>1. session[s].op \in Ops
  BY DEF TypeOK, Session
<1>2. NewJob(session[s].op, "queued") \in Job
  BY <1>1, NewJobType, NoneGotoEnds, MsdOrderAssumption
<1> QED
  BY <1>2 DEF SendPayLoad, Others, TypeOK

LEMMA SessionTypes ==
  ASSUME TypeOK, NEW s \in Sessions, SessionCall(s) \/ SessionStep(s)
  PROVE  TypeOK'
<1>1. CASE CallGenerate(s)
  BY <1>1, SessionEffects, SetStateEffect, NamesAreStates DEF CallGenerate, TypeOK, SessionEffect, StateNames
<1>2. CASE OpenPage(s)
  BY <1>2, SessionEffects DEF OpenPage, TypeOK, SessionEffect
<1>3. CASE CallCreateTransferOrder(s)
  BY <1>3, SessionEffects DEF CallCreateTransferOrder, TypeOK, SessionEffect
<1>4. ASSUME NEW p \in Products, EditItem(s, p) PROVE TypeOK'
  <2>0. item[p] \in Item /\ Typed \subseteq Nat
    BY MsdOrderAssumption DEF TypeOK
  <2>1. item' \in [Products -> Item]
    <3>1. \A q \in Typed : [item[p] EXCEPT !.approved = "true", !.orderQuantity = q] \in Item
      BY <2>0 DEF Item
    <3>2. [item[p] EXCEPT !.approved = "false"] \in Item
      BY <2>0 DEF Item
    <3> QED
      BY <1>4, <3>1, <3>2 DEF EditItem, TypeOK
  <2>2. seen' \in [unsent : SUBSET Ops, overlap : BOOLEAN, lateEdit : BOOLEAN, lostBatch : BOOLEAN,
                   retry : BOOLEAN, unanswered : SUBSET TransferOrders]
    BY <1>4 DEF EditItem, TypeOK
  <2> QED
    BY <1>4, <2>1, <2>2 DEF EditItem, TypeOK
<1>5. CASE PutOpenedState(s)
  BY <1>5, SessionEffects, SetStateEffect, NamesAreStates DEF PutOpenedState, TypeOK, SessionEffect, StateNames
<1>6. CASE WritePushingToMSD(s)
  BY <1>6, SessionEffects, SetStateEffect, NamesAreStates DEF WritePushingToMSD, TypeOK, SessionEffect, StateNames
<1>7. CASE SendPayLoad(s)
  BY <1>7, SessionEffects, SendEffect DEF SendPayLoad, TypeOK, SessionEffect
<1>8. CASE SendPayLoadFails(s)
  BY <1>8, SessionEffects, FaultEffect DEF SendPayLoadFails, TypeOK, SessionEffect, Session
<1> QED
  BY <1>1, <1>2, <1>3, <1>4, <1>5, <1>6, <1>7, <1>8 DEF SessionCall, SessionStep

\* The batches of a push are apart, and there are no more of them than products.
BatchesAreApart ==
  \A j \in Jobs :
    /\ job[j].pc \in {"free", "queued", "to_find", "to_state", "to_header", "to_lines"} => job[j].answered = {}
    /\ job[j].pc = "to_push" =>
         /\ job[j].batches \in 1 .. Cardinality(Products)
         /\ job[j].todo \intersect job[j].answered = {}
         /\ \A b, c \in job[j].todo : b # c => b \intersect c = {}

LEMMA PartitionSize ==
  ASSUME NEW P, IsFiniteSet(P), NEW B \in SUBSET SUBSET P, {} \notin B,
         \A b, c \in B : b # c => b \intersect c = {}
  PROVE  IsFiniteSet(B) /\ Cardinality(B) \in Nat /\ Cardinality(B) <= Cardinality(P)
<1> DEFINE f == [b \in B |-> CHOOSE x \in b : TRUE]
<1>1. \A b \in B : f[b] \in b /\ f[b] \in P
  <2> TAKE b \in B
  <2>1. b # {} /\ b \in SUBSET P
    OBVIOUS
  <2>2. \E x : x \in b
    BY <2>1
  <2>3. (CHOOSE x \in b : TRUE) \in b
    BY <2>2
  <2> QED
    BY <2>1, <2>3
<1>2. f \in [B -> P]
  BY <1>1
<1> HIDE DEF f
<1>3. f \in Injection(B, P)
  BY <1>1, <1>2 DEF Injection, IsInjective
<1> QED
  BY <1>3, FS_Injection, FS_CardinalityType

LEMMA FindApprovedEffect ==
  ASSUME TypeOK, NEW j \in Jobs, FindApprovedItems(j)
  PROVE  /\ job' \in [Jobs -> Job] /\ Others(j)
         /\ job'[j].op = job[j].op /\ job'[j].number = job[j].number
         /\ job'[j].answered = job[j].answered
         /\ \/ LinesToPush = {} /\ job'[j].pc = "to_error"
            \/ /\ LinesToPush # {} /\ job'[j].pc = "to_push"
               /\ job'[j].quantity = [p \in Products |-> IF p \in LinesToPush THEN item[p].orderQuantity ELSE 0]
               /\ UNION job'[j].todo = LinesToPush
               /\ \A b, c \in job'[j].todo : b # c => b \intersect c = {}
               /\ job'[j].batches = Cardinality(job'[j].todo)
               /\ job'[j].batches \in 1 .. Cardinality(Products)
<1>1. CASE LinesToPush = {}
  <2>1. Goto(j, "to_error")
    BY <1>1 DEF FindApprovedItems
  <2> QED
    BY <1>1, <2>1, GotoEffect, NoneGotoEnds
<1>2. CASE LinesToPush # {}
  <2> DEFINE quantity == [p \in Products |-> IF p \in LinesToPush THEN item[p].orderQuantity ELSE 0]
  <2>1. PICK batches \in SUBSET ((SUBSET LinesToPush) \ {{}}) :
          /\ UNION batches = LinesToPush
          /\ \A b, c \in batches : b # c => b \intersect c = {}
          /\ job' = [job EXCEPT ![j].pc = "to_push", ![j].todo = batches,
                                ![j].batches = Cardinality(batches), ![j].quantity = quantity]
    BY <1>2 DEF FindApprovedItems
  <2>2. LinesToPush \subseteq Products /\ IsFiniteSet(Products)
    BY QuantitiesAssumption DEF LinesToPush
  <2>3. /\ IsFiniteSet(batches) /\ Cardinality(batches) \in Nat
        /\ Cardinality(batches) <= Cardinality(Products) /\ Cardinality(Products) \in Nat
    <3>1. batches \in SUBSET SUBSET Products
      BY <2>2
    <3>2. {} \notin batches
      OBVIOUS
    <3> QED
      BY <2>1, <2>2, <3>1, <3>2, PartitionSize, FS_CardinalityType
  <2>4. Cardinality(batches) # 0
    BY <1>2, <2>1, <2>3, FS_EmptySet
  <2>5. quantity \in [Products -> Nat]
    BY DEF TypeOK, Item
  <2>6. job[j] \in Job
    BY DEF TypeOK
  <2> DEFINE x == [job[j] EXCEPT !.pc = "to_push", !.todo = batches,
                                 !.batches = Cardinality(batches), !.quantity = quantity]
  <2> HIDE DEF quantity
  <2>7. job' = [job EXCEPT ![j] = x]
    <3>1. job' = [job EXCEPT ![j].pc = "to_push", ![j].todo = batches,
                             ![j].batches = Cardinality(batches), ![j].quantity = quantity]
      BY <2>1
    <3> QED
      BY <3>1, Zenon
  <2>8. batches \in SUBSET SUBSET Products /\ "to_push" \in ToPcs
    BY <2>2 DEF ToPcs
  <2>9. /\ x \in Job /\ x.pc = "to_push" /\ x.todo = batches /\ x.batches = Cardinality(batches)
        /\ x.quantity = quantity /\ x.op = job[j].op /\ x.number = job[j].number /\ x.answered = job[j].answered
    BY <2>3, <2>5, <2>6, <2>8 DEF Job
  <2> HIDE DEF x
  <2>10. job' \in [Jobs -> Job] /\ Others(j) /\ job'[j] = x
    BY <2>7, <2>9 DEF TypeOK, Others
  <2>11. job'[j].batches \in 1 .. Cardinality(Products)
    BY <2>3, <2>4, <2>9, <2>10
  <2> QED
    BY <1>2, <2>1, <2>9, <2>10, <2>11 DEF quantity
<1> QED
  BY <1>1, <1>2

LEMMA PostHeaderEffect ==
  ASSUME TypeOK, NEW j \in Jobs, PostHeader(j)
  PROVE  /\ job' \in [Jobs -> Job] /\ Others(j)
         /\ job'[j].pc = "to_lines" /\ job'[j].op = job[j].op /\ job'[j].answered = job[j].answered
         /\ job'[j].number \in TransferOrders /\ NewTransferOrder(job'[j].number)
<1>1. PICK n \in TransferOrders :
        NewTransferOrder(n) /\ job' = [job EXCEPT ![j].pc = "to_lines", ![j].number = n]
  BY DEF PostHeader
<1> DEFINE x == [job[j] EXCEPT !.pc = "to_lines", !.number = n]
<1>2. job' = [job EXCEPT ![j] = x]
  BY <1>1
<1>3. x \in Job /\ x.pc = "to_lines" /\ x.number = n /\ x.op = job[j].op /\ x.answered = job[j].answered
  <2>1. job[j] \in Job /\ "to_lines" \in ToPcs
    BY DEF TypeOK, ToPcs
  <2> QED
    BY <2>1 DEF Job
<1> HIDE DEF x
<1> QED
  BY <1>1, <1>2, <1>3 DEF TypeOK, Others

\* The job of a worker that pushes, after a batch was sent.
LEMMA SendJobEffect ==
  ASSUME TypeOK, NEW j \in Jobs, NEW b \in job[j].todo, NEW taken \in BOOLEAN, NEW answered \in BOOLEAN,
         Send(j, b, taken, answered)
  PROVE  /\ job' \in [Jobs -> Job] /\ Others(j)
         /\ job'[j].pc = job[j].pc /\ job'[j].op = job[j].op /\ job'[j].number = job[j].number
         /\ job'[j].quantity = job[j].quantity /\ job'[j].batches = job[j].batches
         /\ job'[j].todo = job[j].todo \ {b}
         /\ job'[j].answered = IF answered THEN job[j].answered \union {b} ELSE job[j].answered
<1> DEFINE x == [job[j] EXCEPT !.todo = @ \ {b}, !.answered = IF answered THEN @ \union {b} ELSE @]
<1>1. job' = [job EXCEPT ![j] = x]
  BY DEF Send
<1>2. job[j] \in Job /\ b \in SUBSET Products
  BY JobFields DEF TypeOK
<1>3. /\ x \in Job /\ x.pc = job[j].pc /\ x.op = job[j].op /\ x.number = job[j].number
      /\ x.quantity = job[j].quantity /\ x.batches = job[j].batches
      /\ x.todo = job[j].todo \ {b}
      /\ x.answered = IF answered THEN job[j].answered \union {b} ELSE job[j].answered
  BY <1>2 DEF Job
<1> HIDE DEF x
<1> QED
  BY <1>1, <1>3 DEF TypeOK, Others

LEMMA SendMsdEffect ==
  ASSUME TypeOK, NEW j \in Jobs, NEW b \in job[j].todo, NEW taken \in BOOLEAN, NEW answered \in BOOLEAN,
         Send(j, b, taken, answered), job[j].number # None
  PROVE  /\ msd' \in [TransferOrders -> TransferOrder]
         /\ \A n \in TransferOrders : msd'[n].posted = msd[n].posted /\ (n # job[j].number => msd'[n] = msd[n])
         /\ taken => \A p \in Products : msd'[job[j].number].lines[p] =
              IF p \in b THEN job[j].quantity[p] ELSE msd[job[j].number].lines[p]
<1>1. CASE taken
  <2> DEFINE n == job[j].number
             lines == [p \in Products |-> IF p \in b THEN job[j].quantity[p] ELSE msd[n].lines[p]]
  <2>1. n \in TransferOrders
    BY JobFields
  <2>2. msd' = [msd EXCEPT ![n].lines = lines]
    BY <1>1 DEF Send
  <2>3. lines \in [Products -> Nat]
    BY <2>1, JobFields DEF TypeOK, TransferOrder
  <2> HIDE DEF lines, n
  <2>4. /\ msd' \in [TransferOrders -> TransferOrder] /\ msd'[n].lines = lines
        /\ \A m \in TransferOrders : msd'[m].posted = msd[m].posted /\ (m # n => msd'[m] = msd[m])
    BY <2>1, <2>2, <2>3 DEF TypeOK, TransferOrder
  <2> QED
    BY <2>4 DEF n, lines
<1>2. CASE ~taken
  BY <1>2 DEF Send, TypeOK
<1> QED
  BY <1>1, <1>2

LEMMA NewTransferOrderEffect ==
  ASSUME TypeOK, NEW n \in TransferOrders, NewTransferOrder(n)
  PROVE  /\ msd' \in [TransferOrders -> TransferOrder]
         /\ ~msd[n].posted /\ msd'[n].posted /\ msd'[n].lines = msd[n].lines
         /\ \A m \in TransferOrders : m # n => msd'[m] = msd[m]
BY DEF TypeOK, NewTransferOrder, TransferOrder

\* The share of a batch is a whole number, and the batches of a push make a hundred.
LEMMA ShareOfBatch ==
  ASSUME NEW n \in 1 .. Cardinality(Products)
  PROVE  (Hundred \div n) \in Nat \ {0} /\ (Hundred \div n) * n = Hundred
<1>1. Cardinality(Products) \in Nat
  BY QuantitiesAssumption, FS_CardinalityType
<1>2. n \in Nat \ {0} /\ Hundred \in Nat \ {0} /\ Hundred % n = 0
  BY <1>1, MsdOrderAssumption
<1>3. \A x \in Nat, y \in Nat \ {0} : x % y = 0 => (x \div y) \in Nat /\ (x \div y) * y = x
  OBVIOUS
<1>4. (Hundred \div n) \in Nat /\ (Hundred \div n) * n = Hundred
  BY <1>2, <1>3
<1>5. Hundred \div n # 0
  <2> DEFINE d == Hundred \div n
  <2>1. 0 * n = 0
    BY <1>2
  <2> HIDE DEF d
  <2>2. d * n = Hundred
    BY <1>4 DEF d
  <2>3. d # 0
    BY <1>2, <2>1, <2>2
  <2> QED
    BY <2>3 DEF d
<1> QED
  BY <1>4, <1>5

LEMMA UpdateEffect ==
  ASSUME TypeOK, BatchesAreApart, NEW j \in Jobs, UpdatePercentage(j)
  PROVE  /\ job' \in [Jobs -> Job] /\ Others(j)
         /\ job'[j].pc = job[j].pc /\ job'[j].op = job[j].op /\ job'[j].number = job[j].number
         /\ job'[j].quantity = job[j].quantity /\ job'[j].batches = job[j].batches
         /\ job'[j].todo = job[j].todo
         /\ \E b \in job[j].answered : job'[j].answered = job[j].answered \ {b}
         /\ report' \in Report /\ report'.state = report.state
         /\ report'.transferOrderNumber = report.transferOrderNumber
         /\ report'.percentagePushedToMSD = report.percentagePushedToMSD + Hundred \div job[j].batches
<1>1. PICK b \in job[j].answered : job' = [job EXCEPT ![j].answered = @ \ {b}]
  BY DEF UpdatePercentage
<1> DEFINE x == [job[j] EXCEPT !.answered = @ \ {b}]
<1>2. job' = [job EXCEPT ![j] = x]
  BY <1>1
<1>3. /\ x \in Job /\ x.pc = job[j].pc /\ x.op = job[j].op /\ x.number = job[j].number
      /\ x.quantity = job[j].quantity /\ x.batches = job[j].batches /\ x.todo = job[j].todo
      /\ x.answered = job[j].answered \ {b}
  BY DEF TypeOK, Job
<1> HIDE DEF x
<1>4. job' \in [Jobs -> Job] /\ Others(j) /\ job'[j] = x
  BY <1>2, <1>3 DEF TypeOK, Others
<1>5. (Hundred \div job[j].batches) \in Nat
  BY ShareOfBatch DEF BatchesAreApart, UpdatePercentage
<1>6. /\ report' \in Report /\ report'.state = report.state
      /\ report'.transferOrderNumber = report.transferOrderNumber
      /\ report'.percentagePushedToMSD = report.percentagePushedToMSD + Hundred \div job[j].batches
  BY <1>5 DEF TypeOK, UpdatePercentage, Report
<1> QED
  BY <1>3, <1>4, <1>6

LEMMA SaveLineItemsType ==
  ASSUME TypeOK, NEW S \in SUBSET LineItemsToOrder(stock, point), SaveLineItems(S)
  PROVE  item' \in [Products -> Item]
<1>1. \A p \in S : p \in LineItemsToOrder(stock, point) /\ p \in Products /\ OrderQuantity(stock, point, p) \in Nat
  BY LineQuantityType DEF TypeOK, LineItemsToOrder
<1>2. \A q \in Nat : [NoItem EXCEPT !.originalOrderQuantity = q, !.orderQuantity = q] \in Item
  BY DEF NoItem, Item
<1> QED
  BY <1>1, <1>2 DEF SaveLineItems, TypeOK

LEMMA ReorderPointType ==
  ASSUME TypeOK
  PROVE  \A p \in Products : ReorderPoint(stock, p) \in Int
BY DEF TypeOK, Stock, Inventory, ReorderPoint

\* A number is given once, and a transfer order has no lines before.
NumbersAreNew ==
  /\ \A j \in Jobs :
       /\ job[j].pc \in {"free", "queued", "to_find", "to_state", "to_header"} \union GenPcs =>
            job[j].number = None
       /\ job[j].pc \in {"to_lines", "to_push", "to_save"} =>
            job[j].number # None /\ msd[job[j].number].posted
  /\ \A n \in TransferOrders : ~msd[n].posted => msd[n].lines = Nothing

\* A batch that is sent: what is pushed and answered, when it is not lost.
Pushed(j, b) ==
  /\ job' \in [Jobs -> Job] /\ Others(j)
  /\ job'[j].pc = job[j].pc /\ job'[j].op = job[j].op /\ job'[j].number = job[j].number
  /\ job'[j].quantity = job[j].quantity /\ job'[j].batches = job[j].batches
  /\ job'[j].todo = job[j].todo \ {b}
  /\ job'[j].answered = job[j].answered \/ job'[j].answered = job[j].answered \union {b}
  /\ msd' \in [TransferOrders -> TransferOrder]
  /\ \A n \in TransferOrders : msd'[n].posted = msd[n].posted /\ (n # job[j].number => msd'[n] = msd[n])

LEMMA PushEffect ==
  ASSUME TypeOK, NumbersAreNew, NEW j \in Jobs
  PROVE  /\ SendBatchRequest(j) => \E b \in job[j].todo :
              /\ Pushed(j, b) /\ job'[j].answered = job[j].answered \union {b}
              /\ \A p \in Products : msd'[job[j].number].lines[p] =
                   IF p \in b THEN job[j].quantity[p] ELSE msd[job[j].number].lines[p]
         /\ BatchIsLost(j) => \E b \in job[j].todo : Pushed(j, b)
<1>1. ASSUME SendBatchRequest(j)
      PROVE  \E b \in job[j].todo :
              /\ Pushed(j, b) /\ job'[j].answered = job[j].answered \union {b}
              /\ \A p \in Products : msd'[job[j].number].lines[p] =
                   IF p \in b THEN job[j].quantity[p] ELSE msd[job[j].number].lines[p]
  <2>1. PICK b \in job[j].todo : Send(j, b, TRUE, TRUE)
    BY <1>1 DEF SendBatchRequest
  <2>2. job[j].number # None
    BY <1>1 DEF NumbersAreNew, SendBatchRequest
  <2>3. Pushed(j, b) /\ job'[j].answered = job[j].answered \union {b}
    BY <2>1, <2>2, SendJobEffect, SendMsdEffect DEF Pushed
  <2>4. \A p \in Products : msd'[job[j].number].lines[p] =
          IF p \in b THEN job[j].quantity[p] ELSE msd[job[j].number].lines[p]
    BY <2>1, <2>2, SendMsdEffect
  <2> QED
    BY <2>3, <2>4
<1>2. ASSUME BatchIsLost(j) PROVE \E b \in job[j].todo : Pushed(j, b)
  <2>1. PICK b \in job[j].todo : Send(j, b, TRUE, FALSE) \/ Send(j, b, FALSE, TRUE) \/ Send(j, b, FALSE, FALSE)
    BY <1>2, Zenon DEF BatchIsLost
  <2>2. job[j].number # None
    BY <1>2 DEF NumbersAreNew, BatchIsLost
  <2>3. CASE Send(j, b, TRUE, FALSE)
    BY <2>2, <2>3, SendJobEffect, SendMsdEffect DEF Pushed
  <2>4. CASE Send(j, b, FALSE, TRUE)
    BY <2>2, <2>4, SendJobEffect, SendMsdEffect DEF Pushed
  <2>5. CASE Send(j, b, FALSE, FALSE)
    BY <2>2, <2>5, SendJobEffect, SendMsdEffect DEF Pushed
  <2> QED
    BY <2>1, <2>3, <2>4, <2>5
<1> QED
  BY <1>1, <1>2

LEMMA WorkerTypes ==
  ASSUME TypeOK, BatchesAreApart, NumbersAreNew, NEW j \in Jobs,
         ReceiveMessage(j) \/ Crash(j) \/ GiveUp(j) \/ GenerateStep(j) \/ TransferStep(j)
  PROVE  TypeOK'
<1>1. CASE ReceiveMessage(j)
  BY <1>1, GotoEffect, NoneGotoEnds DEF ReceiveMessage, TypeOK
<1>2. CASE Crash(j) \/ GiveUp(j)
  BY <1>2, FinishEffect, FaultEffect, NoneGotoEnds DEF Crash, GiveUp, TypeOK
<1>3. CASE FindStore(j) \/ FindReport(j) \/ BatchesAnswered(j)
  BY <1>3, GotoEffect, NoneGotoEnds DEF FindStore, FindReport, BatchesAnswered, TypeOK
<1>4. CASE GenerateReorderPoints(j)
  <2>1. job' \in [Jobs -> Job]
    BY <1>4, GotoEffect, NoneGotoEnds DEF GenerateReorderPoints
  <2>2. point' \in [Products -> Int]
    <3>1. PICK updated \in SUBSET ToCalculate(stock) :
            point' = [p \in Products |-> IF p \in updated THEN ReorderPoint(stock, p) ELSE point[p]]
      BY <1>4 DEF GenerateReorderPoints
    <3>2. \A p \in Products : (IF p \in updated THEN ReorderPoint(stock, p) ELSE point[p]) \in Int
      BY ReorderPointType DEF TypeOK
    <3> QED
      BY <3>1, <3>2
  <2>3. faults' \in 0 .. MaxFaults
    BY <1>4, FaultEffect DEF GenerateReorderPoints, TypeOK
  <2> QED
    BY <1>4, <2>1, <2>2, <2>3 DEF GenerateReorderPoints, TypeOK
<1>5. CASE GenerateStockOrder(j)
  <2>1. item' \in [Products -> Item]
    BY <1>5, SaveLineItemsType DEF GenerateStockOrder
  <2>2. Goto(j, "gen_error") \/ Goto(j, "gen_state")
    BY <1>5 DEF GenerateStockOrder
  <2>3. job' \in [Jobs -> Job]
    BY <2>2, GotoEffect, NoneGotoEnds
  <2> QED
    BY <1>5, <2>1, <2>3 DEF GenerateStockOrder, TypeOK
<1>6. CASE GenerateFails(j)
  <2>1. item' \in [Products -> Item]
    BY <1>6, SaveLineItemsType DEF GenerateFails
  <2>2. job' \in [Jobs -> Job] /\ faults' \in 0 .. MaxFaults
    BY <1>6, GotoEffect, FaultEffect, NoneGotoEnds DEF GenerateFails
  <2> QED
    BY <1>6, <2>1, <2>2 DEF GenerateFails, TypeOK
<1>7. CASE SetGenerated(j) \/ SetProcessingFailure(j) \/ SetErrorPushing(j)
  BY <1>7, FinishEffect, SetStateEffect, NamesAreStates, NoneGotoEnds
  DEF SetGenerated, SetProcessingFailure, SetErrorPushing, StateNames, TypeOK
<1>8. CASE SetPushingToMSD(j)
  BY <1>8, GotoEffect, SetStateEffect, NamesAreStates, NoneGotoEnds DEF SetPushingToMSD, StateNames, TypeOK
<1>9. CASE PostHeader(j)
  BY <1>9, PostHeaderEffect, NewTransferOrderEffect DEF PostHeader, TypeOK
<1>10. CASE PostHeaderUnanswered(j)
  <2>1. PICK n \in TransferOrders : NewTransferOrder(n) /\ seen' = [seen EXCEPT !.unanswered = @ \union {n}]
    BY <1>10 DEF PostHeaderUnanswered
  <2>2. job' \in [Jobs -> Job] /\ faults' \in 0 .. MaxFaults
    BY <1>10, GotoEffect, FaultEffect, NoneGotoEnds DEF PostHeaderUnanswered
  <2>3. msd' \in [TransferOrders -> TransferOrder]
    BY <2>1, NewTransferOrderEffect
  <2> QED
    BY <1>10, <2>1, <2>2, <2>3 DEF PostHeaderUnanswered, TypeOK
<1>11. CASE FindApprovedItems(j)
  BY <1>11, FindApprovedEffect DEF FindApprovedItems, TypeOK
<1>12. CASE UpdatePercentage(j)
  BY <1>12, UpdateEffect DEF UpdatePercentage, TypeOK
<1>13. CASE SaveTransferOrderNumber(j)
  <2>1. job' \in [Jobs -> Job]
    BY <1>13, FinishEffect, NoneGotoEnds DEF SaveTransferOrderNumber
  <2>2. report' \in Report
    BY <1>13, JobFields, NamesAreStates DEF SaveTransferOrderNumber, TypeOK, Report, StateNames
  <2> QED
    BY <1>13, <2>1, <2>2 DEF SaveTransferOrderNumber, TypeOK
<1>14. CASE TransferFails(j)
  BY <1>14, GotoEffect, FaultEffect, NoneGotoEnds DEF TransferFails, TypeOK
<1>15. CASE SendBatchRequest(j) \/ BatchIsLost(j)
  <2>3. job' \in [Jobs -> Job] /\ msd' \in [TransferOrders -> TransferOrder]
    BY <1>15, PushEffect DEF Pushed
  <2>4. faults' \in 0 .. MaxFaults
    BY <1>15, FaultEffect DEF SendBatchRequest, BatchIsLost, TypeOK
  <2>5. seen' \in [unsent : SUBSET Ops, overlap : BOOLEAN, lateEdit : BOOLEAN, lostBatch : BOOLEAN,
                   retry : BOOLEAN, unanswered : SUBSET TransferOrders]
    BY <1>15 DEF SendBatchRequest, BatchIsLost, TypeOK
  <2> QED
    BY <1>15, <2>3, <2>4, <2>5 DEF SendBatchRequest, BatchIsLost, TypeOK
<1> QED
  BY <1>1, <1>2, <1>3, <1>4, <1>5, <1>6, <1>7, <1>8, <1>9, <1>10, <1>11, <1>12, <1>13, <1>14, <1>15
  DEF GenerateStep, TransferStep

\* Whoever acts, what was well typed is.
LEMMA TypesKeep == ASSUME TypeOK, BatchesAreApart, NumbersAreNew, [Next]_vars PROVE TypeOK'
BY SessionTypes, WorkerTypes DEF Next, vars, TypeOK

-----------------------------------------------------------------------------
(* Who generates the order and who transfers it *)

Active(j) == job[j].pc \notin {"free"} \union Ended

\* A session or a job with a generation that has not ended, or with a transfer.
AsksToGenerate(s) == session[s].pc = "send" /\ session[s].op = "generate"

Generates(j) == job[j].op = "generate" /\ Active(j)

AsksToTransfer(s) == session[s].pc \in {"write", "send"} /\ session[s].op = "transfer"

Transfers(j) == job[j].op = "transfer" /\ Active(j)

OpsAgree ==
  /\ \A s \in Sessions : session[s].pc = "write" => session[s].op = "transfer"
  /\ \A j \in Jobs : /\ job[j].pc \in GenPcs => job[j].op = "generate"
                     /\ job[j].pc \in ToPcs => job[j].op = "transfer"

\* There is one generation, and nothing else until it has ended.
OnlyGeneration ==
  /\ report.state = "absent" =>
       /\ report.transferOrderNumber = None
       /\ \A s \in Sessions : session[s].pc = "idle" /\ ~session[s].page
       /\ \A j \in Jobs : job[j].pc = "free"
  /\ \A s \in Sessions : AsksToGenerate(s) =>
       /\ report.state = "PROCESSING" /\ report.transferOrderNumber = None
       /\ \A t \in Sessions \ {s} : session[t].pc = "idle"
       /\ \A t \in Sessions : ~session[t].page
       /\ \A j \in Jobs : job[j].pc = "free"
  /\ \A j \in Jobs : Generates(j) =>
       /\ report.state = "PROCESSING" /\ report.transferOrderNumber = None
       /\ \A s \in Sessions : session[s].pc = "idle" /\ ~session[s].page
       /\ \A k \in Jobs \ {j} : job[k].pc = "free"

\* Requests that were not accepted at once follow one another, and none follows one
\* that gave the order its number.
OneTransfer ==
  ~seen.overlap =>
    /\ \A s, t \in Sessions : AsksToTransfer(s) /\ AsksToTransfer(t) => s = t
    /\ \A j, k \in Jobs : Transfers(j) /\ Transfers(k) => j = k
    /\ \A s \in Sessions, j \in Jobs : ~(AsksToTransfer(s) /\ Transfers(j))
    /\ \A s \in Sessions : AsksToTransfer(s) => report.transferOrderNumber = None
    /\ \A j \in Jobs : Transfers(j) => report.transferOrderNumber = None

WorkerStep(j) == ReceiveMessage(j) \/ Crash(j) \/ GiveUp(j) \/ GenerateStep(j) \/ TransferStep(j)

\* A worker goes on with what it does or ends, and only its end gives the order a number.
WorkerMoves(j) ==
  /\ Active(j) /\ Others(j) /\ job'[j].op = job[j].op /\ stock' = stock /\ session' = session
  /\ \/ job'[j].pc \in Ended
     \/ job[j].op = "generate" /\ job'[j].pc \in GenPcs /\ report' = report
     \/ job[j].op = "transfer" /\ job'[j].pc \in ToPcs
  /\ \/ report'.transferOrderNumber = report.transferOrderNumber
     \/ job[j].op = "transfer" /\ job'[j].pc = "done" /\ SaveTransferOrderNumber(j)
  /\ report'.state = report.state \/ report'.state \in StateNames

LEMMA GotoMoves ==
  ASSUME TypeOK, NEW j \in Jobs, NEW pc, Goto(j, pc), Active(j), report' = report, stock' = stock /\ session' = session,
         (job[j].op = "generate" /\ pc \in GenPcs) \/ (job[j].op = "transfer" /\ pc \in ToPcs)
  PROVE  WorkerMoves(j)
<1>1. pc \in Pcs
  BY DEF Pcs
<1>2. Others(j) /\ job'[j].op = job[j].op /\ job'[j].pc = pc
  BY <1>1, GotoEffect
<1>3. \/ job'[j].pc \in Ended
      \/ job[j].op = "generate" /\ job'[j].pc \in GenPcs /\ report' = report
      \/ job[j].op = "transfer" /\ job'[j].pc \in ToPcs
  BY <1>2
<1>4. report'.transferOrderNumber = report.transferOrderNumber /\ report'.state = report.state
  OBVIOUS
<1> QED
  BY <1>2, <1>3, <1>4 DEF WorkerMoves

LEMMA EndMoves ==
  ASSUME TypeOK, NEW j \in Jobs, NEW pc \in Ended, Finish(j, pc), Active(j), stock' = stock /\ session' = session,
         report'.transferOrderNumber = report.transferOrderNumber,
         report'.state = report.state \/ report'.state \in StateNames
  PROVE  WorkerMoves(j)
<1>1. pc \in Pcs
  BY DEF Pcs
<1>2. Others(j) /\ job'[j].op = job[j].op /\ job'[j].pc = pc
  BY <1>1, FinishEffect
<1> QED
  BY <1>2 DEF WorkerMoves

LEMMA WorkersMove ==
  ASSUME TypeOK, BatchesAreApart, NumbersAreNew, OpsAgree, NEW j \in Jobs, WorkerStep(j)
  PROVE  WorkerMoves(j)
<1>0. job[j].op \in Ops /\ Ended = {"done", "failed", "gave_up", "dead"}
  BY JobFields DEF Ended
<1>a. Active(j)
  <2>1. /\ \A pc \in GenPcs \union ToPcs \union {"queued"} : pc \notin {"free"} \union Ended
        /\ Running(j) => job[j].pc \notin {"free"} \union Ended
    BY DEF GenPcs, ToPcs, Ended, Running
  <2>2. job[j].pc \in GenPcs \union ToPcs \union {"queued"} \/ Running(j)
    BY DEF WorkerStep, GenerateStep, TransferStep, ReceiveMessage, Crash, GiveUp, FindStore, GenerateReorderPoints,
           GenerateStockOrder, GenerateFails, SetGenerated, SetProcessingFailure, FindReport, SetPushingToMSD,
           PostHeader, PostHeaderUnanswered, FindApprovedItems, SendBatchRequest, BatchIsLost, UpdatePercentage,
           BatchesAnswered, SaveTransferOrderNumber, TransferFails, SetErrorPushing, GenPcs, ToPcs
  <2> QED
    BY <2>1, <2>2 DEF Active
<1>1. CASE ReceiveMessage(j)
  <2> DEFINE pc == IF job[j].op = "generate" THEN "gen_store" ELSE "to_find"
  <2>1. Goto(j, pc) /\ report' = report /\ stock' = stock /\ session' = session
    BY <1>1 DEF ReceiveMessage
  <2>2. (job[j].op = "generate" /\ pc \in GenPcs) \/ (job[j].op = "transfer" /\ pc \in ToPcs)
    BY <1>0 DEF Ops, GenPcs, ToPcs
  <2> HIDE DEF pc
  <2> QED
    BY <1>a, <2>1, <2>2, GotoMoves
<1>2. CASE Crash(j) \/ GiveUp(j)
  BY <1>0, <1>a, <1>2, EndMoves DEF Crash, GiveUp
<1>3. CASE FindStore(j) \/ GenerateReorderPoints(j) \/ GenerateStockOrder(j) \/ GenerateFails(j)
  <2>1. PICK pc \in GenPcs : Goto(j, pc)
    BY <1>3 DEF FindStore, GenerateReorderPoints, GenerateStockOrder, GenerateFails, GenPcs
  <2>2. job[j].pc \in GenPcs /\ report' = report /\ stock' = stock /\ session' = session
    BY <1>3 DEF FindStore, GenerateReorderPoints, GenerateStockOrder, GenerateFails, GenPcs
  <2>3. job[j].op = "generate"
    BY <2>2 DEF OpsAgree
  <2> QED
    BY <1>a, <2>1, <2>2, <2>3, GotoMoves
<1>4. CASE SetGenerated(j) \/ SetProcessingFailure(j) \/ SetErrorPushing(j)
  <2>1. PICK pc \in Ended, st \in StateNames : Finish(j, pc) /\ SetState(st)
    BY <1>0, <1>4 DEF SetGenerated, SetProcessingFailure, SetErrorPushing, StateNames
  <2>2. stock' = stock /\ session' = session
    BY <1>4 DEF SetGenerated, SetProcessingFailure, SetErrorPushing
  <2>3. report'.state = st /\ report'.transferOrderNumber = report.transferOrderNumber
    BY <2>1, SetStateEffect, NamesAreStates
  <2> QED
    BY <1>a, <2>1, <2>2, <2>3, EndMoves
<1>5. CASE FindReport(j) \/ BatchesAnswered(j) \/ TransferFails(j) \/ PostHeaderUnanswered(j)
  <2>1. PICK pc \in ToPcs : Goto(j, pc)
    BY <1>5 DEF FindReport, BatchesAnswered, TransferFails, PostHeaderUnanswered, ToPcs
  <2>2. job[j].pc \in ToPcs /\ report' = report /\ stock' = stock /\ session' = session
    BY <1>5 DEF FindReport, BatchesAnswered, TransferFails, PostHeaderUnanswered, ToPcs
  <2>3. job[j].op = "transfer"
    BY <2>2 DEF OpsAgree
  <2> QED
    BY <1>a, <2>1, <2>2, <2>3, GotoMoves
<1>6. CASE SetPushingToMSD(j) \/ PostHeader(j) \/ FindApprovedItems(j) \/ SendBatchRequest(j) \/ BatchIsLost(j)
             \/ UpdatePercentage(j)
  <2>1. job[j].pc \in ToPcs /\ stock' = stock /\ session' = session
    BY <1>6 DEF SetPushingToMSD, PostHeader, FindApprovedItems, SendBatchRequest, BatchIsLost, UpdatePercentage, ToPcs
  <2>2. job[j].op = "transfer"
    BY <2>1 DEF OpsAgree
  <2>3. Others(j) /\ job'[j].op = job[j].op /\ job'[j].pc \in ToPcs
    <3>1. CASE SetPushingToMSD(j)
      BY <3>1, GotoEffect, NoneGotoEnds DEF SetPushingToMSD, ToPcs
    <3>2. CASE PostHeader(j)
      BY <3>2, PostHeaderEffect DEF ToPcs
    <3>3. CASE FindApprovedItems(j)
      BY <3>3, FindApprovedEffect DEF ToPcs
    <3>4. CASE SendBatchRequest(j) \/ BatchIsLost(j)
      BY <2>1, <3>4, PushEffect DEF Pushed
    <3>5. CASE UpdatePercentage(j)
      BY <2>1, <3>5, UpdateEffect
    <3> QED
      BY <1>6, <3>1, <3>2, <3>3, <3>4, <3>5
  <2>4. report'.transferOrderNumber = report.transferOrderNumber /\ report'.state \in {report.state, "PUSHING_TO_MSD"}
    <3>1. CASE SetPushingToMSD(j)
      BY <3>1, SetStateEffect, NamesAreStates DEF SetPushingToMSD, StateNames
    <3>2. CASE UpdatePercentage(j)
      BY <3>2, UpdateEffect
    <3>3. CASE PostHeader(j) \/ FindApprovedItems(j) \/ SendBatchRequest(j) \/ BatchIsLost(j)
      BY <3>3 DEF PostHeader, FindApprovedItems, SendBatchRequest, BatchIsLost
    <3> QED
      BY <1>6, <3>1, <3>2, <3>3
  <2> QED
    BY <1>a, <2>1, <2>2, <2>3, <2>4 DEF WorkerMoves, StateNames
<1>7. CASE SaveTransferOrderNumber(j)
  <2>1. report'.state = "FULFILMENT_PENDING"
    BY <1>7 DEF SaveTransferOrderNumber, TypeOK, Report
  <2>2. job[j].op = "transfer" /\ stock' = stock /\ session' = session /\ Finish(j, "done")
    BY <1>7 DEF SaveTransferOrderNumber, OpsAgree, ToPcs
  <2>3. job'[j].pc = "done" /\ Others(j) /\ job'[j].op = job[j].op
    BY <2>2, FinishEffect, NoneGotoEnds
  <2> QED
    BY <1>0, <1>7, <1>a, <2>1, <2>2, <2>3 DEF WorkerMoves, StateNames
<1> QED
  BY <1>1, <1>2, <1>3, <1>4, <1>5, <1>6, <1>7 DEF WorkerStep, GenerateStep, TransferStep

PcSets ==
  /\ GenPcs = {"gen_store", "gen_points", "gen_lines", "gen_state", "gen_error"}
  /\ ToPcs = {"to_find", "to_state", "to_header", "to_lines", "to_push", "to_save", "to_error"}
  /\ Ended = {"done", "failed", "gave_up", "dead"}

LEMMA PcSetsAre == PcSets
BY DEF PcSets, GenPcs, ToPcs, Ended

\* A session's step leaves the jobs alone, unless the queue takes its message.
LEMMA SessionsKeepJobs ==
  ASSUME TypeOK, NEW s \in Sessions, SessionCall(s) \/ SessionStep(s)
  PROVE  /\ job' = job \/ SendPayLoad(s)
         /\ msd' = msd /\ stock' = stock /\ point' = point
BY DEF SessionCall, SessionStep, CallGenerate, OpenPage, CallCreateTransferOrder, EditItem, PutOpenedState,
       WritePushingToMSD, SendPayLoad, SendPayLoadFails

LEMMA OpsAgreeKeeps ==
  ASSUME TypeOK, BatchesAreApart, NumbersAreNew, OpsAgree, [Next]_vars
  PROVE  OpsAgree'
<1>0. PcSets
  BY PcSetsAre
<1>1. ASSUME NEW s \in Sessions, SessionCall(s) \/ SessionStep(s) PROVE OpsAgree'
  <2>1. ASSUME NEW t \in Sessions, session'[t].pc = "write" PROVE session'[t].op = "transfer"
    BY <1>1, <2>1, SessionEffects DEF SessionCall, SessionStep, SessionEffect, OtherSessions, OpsAgree
  <2>2. ASSUME NEW k \in Jobs
        PROVE  /\ job'[k].pc \in GenPcs => job'[k].op = "generate"
               /\ job'[k].pc \in ToPcs => job'[k].op = "transfer"
    <3>1. CASE job' = job
      BY <3>1 DEF OpsAgree
    <3>2. CASE SendPayLoad(s)
      <4>1. PICK j \in Jobs : Others(j) /\ job'[j] = NewJob(session[s].op, "queued")
        BY <3>2, SendEffect
      <4> QED
        BY <1>0, <4>1 DEF OpsAgree, Others, NewJob, PcSets
    <3> QED
      BY <1>1, <3>1, <3>2, SessionsKeepJobs
  <2> QED
    BY <2>1, <2>2 DEF OpsAgree
<1>2. ASSUME NEW j \in Jobs, WorkerStep(j) PROVE OpsAgree'
  BY <1>0, <1>2, WorkersMove DEF WorkerMoves, OpsAgree, Others, PcSets
<1>3. CASE UNCHANGED vars
  BY <1>3 DEF vars, OpsAgree
<1> QED
  BY <1>1, <1>2, <1>3 DEF Next, WorkerStep

LEMMA NumbersKeep ==
  ASSUME TypeOK, BatchesAreApart, NumbersAreNew, OpsAgree, [Next]_vars
  PROVE  NumbersAreNew'
<1> DEFINE Early == {"free", "queued", "to_find", "to_state", "to_header"} \union GenPcs
           Late == {"to_lines", "to_push", "to_save"}
           Good(k) == /\ job'[k].pc \in Early => job'[k].number = None
                      /\ job'[k].pc \in Late => job'[k].number # None /\ msd'[job'[k].number].posted
<1>0. PcSets
  BY PcSetsAre
<1>1. ASSUME NEW s \in Sessions, SessionCall(s) \/ SessionStep(s) PROVE NumbersAreNew'
  <2>1. CASE job' = job
    BY <1>1, <2>1, SessionsKeepJobs DEF NumbersAreNew
  <2>2. CASE SendPayLoad(s)
    <3>1. PICK j \in Jobs : Others(j) /\ job'[j] = NewJob(session[s].op, "queued")
      BY <2>2, SendEffect
    <3> QED
      BY <1>0, <1>1, <3>1, SessionsKeepJobs DEF NumbersAreNew, Others, NewJob, PcSets
  <2> QED
    BY <1>1, <2>1, <2>2, SessionsKeepJobs
<1>2. ASSUME NEW j \in Jobs, WorkerStep(j) PROVE NumbersAreNew'
  <2>0. WorkerMoves(j) /\ job[j].number \in TransferOrders \union {None}
    BY <1>2, WorkersMove, JobFields
  <2>1. /\ \A n \in TransferOrders : msd[n].posted => msd'[n].posted
        /\ \A n \in TransferOrders : ~msd'[n].posted => msd'[n].lines = Nothing
    <3>1. CASE PostHeader(j) \/ PostHeaderUnanswered(j)
      <4>1. PICK n \in TransferOrders : NewTransferOrder(n)
        BY <3>1 DEF PostHeader, PostHeaderUnanswered
      <4> QED
        BY <4>1, NewTransferOrderEffect DEF NumbersAreNew
    <3>2. CASE SendBatchRequest(j) \/ BatchIsLost(j)
      <4>1. PICK b \in job[j].todo : Pushed(j, b)
        BY <3>2, PushEffect
      <4>2. job[j].number # None /\ msd[job[j].number].posted
        BY <3>2 DEF NumbersAreNew, SendBatchRequest, BatchIsLost
      <4> QED
        BY <4>1, <4>2 DEF NumbersAreNew, Pushed
    <3>3. CASE msd' = msd
      BY <3>3 DEF NumbersAreNew
    <3>4. msd' = msd \/ PostHeader(j) \/ PostHeaderUnanswered(j) \/ SendBatchRequest(j) \/ BatchIsLost(j)
      BY <1>2 DEF WorkerStep, GenerateStep, TransferStep, ReceiveMessage, Crash, GiveUp, FindStore,
        GenerateReorderPoints, GenerateStockOrder, GenerateFails, SetGenerated, SetProcessingFailure, FindReport,
        SetPushingToMSD, FindApprovedItems, UpdatePercentage, BatchesAnswered, SaveTransferOrderNumber,
        TransferFails, SetErrorPushing
    <3> QED
      BY <3>1, <3>2, <3>3, <3>4
  <2>2. ASSUME NEW k \in Jobs, k # j PROVE Good(k)
    <3>1. job'[k] = job[k] /\ job[k].number \in TransferOrders \union {None}
      BY <2>0, <2>2, JobFields DEF WorkerMoves, Others
    <3> QED
      BY <2>1, <3>1 DEF NumbersAreNew
  <2>3. Good(j)
    <3>1. CASE PostHeader(j)
      <4>1. job'[j].pc = "to_lines" /\ job'[j].number \in TransferOrders /\ NewTransferOrder(job'[j].number)
        BY <3>1, PostHeaderEffect
      <4>2. msd'[job'[j].number].posted
        BY <4>1, NewTransferOrderEffect
      <4> QED
        BY <1>0, <4>1, <4>2, MsdOrderAssumption DEF PcSets
    <3>2. CASE FindApprovedItems(j)
      BY <1>0, <2>0, <2>1, <3>2, FindApprovedEffect DEF NumbersAreNew, FindApprovedItems, PcSets
    <3>3. CASE SendBatchRequest(j) \/ BatchIsLost(j)
      <4>1. job'[j].pc = job[j].pc /\ job'[j].number = job[j].number
        BY <3>3, PushEffect DEF Pushed
      <4> QED
        BY <2>0, <2>1, <4>1 DEF NumbersAreNew
    <3>4. CASE UpdatePercentage(j)
      BY <2>0, <2>1, <3>4, UpdateEffect DEF NumbersAreNew
    <3>5. CASE \/ Crash(j) \/ GiveUp(j) \/ SetGenerated(j) \/ SetProcessingFailure(j) \/ SaveTransferOrderNumber(j)
               \/ SetErrorPushing(j)
      <4>1. PICK pc \in Ended : Finish(j, pc)
        BY <3>5 DEF Crash, GiveUp, SetGenerated, SetProcessingFailure, SaveTransferOrderNumber, SetErrorPushing, Ended
      <4>2. job'[j].pc \in Ended
        BY <4>1, FinishEffect DEF Pcs
      <4> QED
        BY <1>0, <4>2 DEF PcSets
    <3>6. CASE \/ ReceiveMessage(j) \/ FindStore(j) \/ GenerateReorderPoints(j) \/ GenerateStockOrder(j)
               \/ GenerateFails(j) \/ FindReport(j) \/ SetPushingToMSD(j)
      <4>1. PICK pc \in Early : Goto(j, pc) /\ job[j].pc \in Early
        BY <1>0, <3>6 DEF ReceiveMessage, FindStore, GenerateReorderPoints, GenerateStockOrder, GenerateFails,
          FindReport, SetPushingToMSD, PcSets
      <4>2. pc \in Pcs /\ pc \notin Late
        BY <1>0 DEF Pcs, PcSets
      <4>3. job'[j].pc = pc /\ job'[j].number = job[j].number
        BY <4>1, <4>2, GotoEffect
      <4> QED
        BY <4>1, <4>2, <4>3 DEF NumbersAreNew
    <3>7. CASE BatchesAnswered(j)
      <4>1. job[j].pc = "to_push" /\ job'[j].pc = "to_save" /\ job'[j].number = job[j].number
        BY <3>7, GotoEffect, NoneGotoEnds DEF BatchesAnswered
      <4> QED
        BY <1>0, <2>0, <2>1, <4>1 DEF NumbersAreNew, PcSets
    <3>8. CASE TransferFails(j) \/ PostHeaderUnanswered(j)
      <4>1. job'[j].pc = "to_error"
        BY <3>8, GotoEffect, NoneGotoEnds DEF TransferFails, PostHeaderUnanswered
      <4> QED
        BY <1>0, <4>1 DEF PcSets
    <3> QED
      BY <1>2, <3>1, <3>2, <3>3, <3>4, <3>5, <3>6, <3>7, <3>8 DEF WorkerStep, GenerateStep, TransferStep
  <2> QED
    BY <2>1, <2>2, <2>3 DEF NumbersAreNew
<1>3. CASE UNCHANGED vars
  BY <1>3 DEF vars, NumbersAreNew
<1> QED
  BY <1>1, <1>2, <1>3 DEF Next, WorkerStep

LEMMA ApartKeeps ==
  ASSUME TypeOK, BatchesAreApart, NumbersAreNew, [Next]_vars
  PROVE  BatchesAreApart'
<1> DEFINE Before == {"free", "queued", "to_find", "to_state", "to_header", "to_lines"}
           Apart(k) == /\ job'[k].pc \in Before => job'[k].answered = {}
                       /\ job'[k].pc = "to_push" =>
                            /\ job'[k].batches \in 1 .. Cardinality(Products)
                            /\ job'[k].todo \intersect job'[k].answered = {}
                            /\ \A b, c \in job'[k].todo : b # c => b \intersect c = {}
<1>0. PcSets
  BY PcSetsAre
<1>1. ASSUME NEW s \in Sessions, SessionCall(s) \/ SessionStep(s) PROVE BatchesAreApart'
  <2>1. CASE job' = job
    BY <2>1 DEF BatchesAreApart
  <2>2. CASE SendPayLoad(s)
    <3>1. PICK j \in Jobs : Others(j) /\ job'[j] = NewJob(session[s].op, "queued")
      BY <2>2, SendEffect
    <3> QED
      BY <3>1 DEF BatchesAreApart, Others, NewJob
  <2> QED
    BY <1>1, <2>1, <2>2, SessionsKeepJobs
<1>2. ASSUME NEW j \in Jobs, WorkerStep(j) PROVE BatchesAreApart'
  <2>1. Others(j) /\ Apart(j)
    <3>1. CASE \/ ReceiveMessage(j) \/ FindStore(j) \/ GenerateReorderPoints(j) \/ GenerateStockOrder(j)
               \/ GenerateFails(j) \/ FindReport(j) \/ SetPushingToMSD(j) \/ BatchesAnswered(j) \/ TransferFails(j)
               \/ PostHeaderUnanswered(j)
      <4>1. PICK pc \in Pcs : /\ Goto(j, pc) /\ pc # "to_push" /\ (pc \in Before => job[j].pc \in Before)
        BY <1>0, <3>1 DEF ReceiveMessage, FindStore, GenerateReorderPoints, GenerateStockOrder, GenerateFails,
          FindReport, SetPushingToMSD, BatchesAnswered, TransferFails, PostHeaderUnanswered, PcSets, Pcs
      <4>2. Others(j) /\ job'[j].pc = pc /\ job'[j].answered = job[j].answered
        BY <4>1, GotoEffect
      <4> QED
        BY <4>1, <4>2 DEF BatchesAreApart
    <3>2. CASE \/ Crash(j) \/ GiveUp(j) \/ SetGenerated(j) \/ SetProcessingFailure(j) \/ SaveTransferOrderNumber(j)
               \/ SetErrorPushing(j)
      <4>1. PICK pc \in Ended : Finish(j, pc)
        BY <1>0, <3>2 DEF Crash, GiveUp, SetGenerated, SetProcessingFailure, SaveTransferOrderNumber, SetErrorPushing, PcSets
      <4>2. Others(j) /\ job'[j].pc \in Ended
        BY <4>1, FinishEffect DEF Pcs
      <4> QED
        BY <1>0, <4>2 DEF PcSets
    <3>3. CASE PostHeader(j)
      BY <3>3, PostHeaderEffect DEF BatchesAreApart, PostHeader
    <3>4. CASE FindApprovedItems(j)
      <4>1. job[j].answered = {}
        BY <3>4 DEF BatchesAreApart, FindApprovedItems
      <4> QED
        BY <3>4, <4>1, FindApprovedEffect
    <3>5. CASE SendBatchRequest(j) \/ BatchIsLost(j)
      <4>1. PICK b \in job[j].todo : Pushed(j, b)
        BY <3>5, PushEffect
      <4>2. job[j].pc = "to_push"
        BY <3>5 DEF SendBatchRequest, BatchIsLost
      <4> QED
        BY <4>1, <4>2 DEF Pushed, BatchesAreApart
    <3>6. CASE UpdatePercentage(j)
      <4>1. job[j].pc = "to_push"
        BY <3>6 DEF UpdatePercentage
      <4> QED
        BY <3>6, <4>1, UpdateEffect DEF BatchesAreApart
    <3> QED
      BY <1>2, <3>1, <3>2, <3>3, <3>4, <3>5, <3>6 DEF WorkerStep, GenerateStep, TransferStep
  <2> QED
    BY <2>1 DEF BatchesAreApart, Others
<1>3. CASE UNCHANGED vars
  BY <1>3 DEF vars, BatchesAreApart
<1> QED
  BY <1>1, <1>2, <1>3 DEF Next, WorkerStep

\* What the types and the control of the workers rest on.
Control == TypeOK /\ BatchesAreApart /\ NumbersAreNew /\ OpsAgree

LEMMA ControlStarts == ASSUME Init PROVE Control
<1>0. PcSets
  BY PcSetsAre
<1>1. TypeOK
  <2>1. NewJob("generate", "free") \in Job
    BY NewJobType DEF Ops, Pcs
  <2>2. Nothing \in [Products -> Nat] /\ NoItem \in Item
    BY DEF Nothing, NoItem, Item
  <2>3. report \in Report
    BY DEF Init, Report
  <2>4. msd \in [TransferOrders -> TransferOrder]
    BY <2>2 DEF Init, TransferOrder
  <2>5. session \in [Sessions -> Session]
    BY DEF Init, Session, Ops
  <2>6. job \in [Jobs -> Job] /\ item \in [Products -> Item]
    BY <2>1, <2>2 DEF Init
  <2>7. stock \in Stock /\ faults \in 0 .. MaxFaults /\ point \in [Products -> Int]
    BY MsdOrderAssumption DEF Init, Stock, Inventory
  <2>8. seen \in [unsent : SUBSET Ops, overlap : BOOLEAN, lateEdit : BOOLEAN, lostBatch : BOOLEAN,
                 retry : BOOLEAN, unanswered : SUBSET TransferOrders]
    BY DEF Init
  <2> QED
    BY <2>3, <2>4, <2>5, <2>6, <2>7, <2>8 DEF TypeOK
<1>2. \A j \in Jobs : job[j].pc = "free" /\ job[j].number = None /\ job[j].answered = {}
  BY DEF Init, NewJob
<1>3. BatchesAreApart /\ OpsAgree
  BY <1>0, <1>2 DEF BatchesAreApart, OpsAgree, Init, PcSets
<1>4. NumbersAreNew
  BY <1>2 DEF NumbersAreNew, Init
<1> QED
  BY <1>1, <1>3, <1>4 DEF Control

LEMMA ControlKeeps == ASSUME Control, [Next]_vars PROVE Control'
BY TypesKeep, ApartKeeps, NumbersKeep, OpsAgreeKeeps DEF Control

\* Sessions, messages, workers, the order and Dynamics are always of the types that the
\* module gives them: no worker writes the lines of a transfer order it has no number of,
\* and the share of a batch is a number whatever the batches are.
THEOREM OrderTypeCorrect == Spec => []TypeOK
<1>1. Init => Control
  BY ControlStarts
<1>2. Control /\ [Next]_vars => Control'
  BY ControlKeeps
<1>3. Control => TypeOK
  BY DEF Control
<1> QED
  BY <1>1, <1>2, <1>3, PTL DEF Spec

-----------------------------------------------------------------------------
(* An order that is busy is served *)

Busy == {"PROCESSING", "PUSHING_TO_MSD"}

Served(op) == \/ \E s \in Sessions : session[s].pc = "send" /\ session[s].op = op
              \/ \E j \in Jobs : job[j].op = op /\ (job[j].pc = "queued" \/ Running(j))
              \/ op \in seen.unsent
              \/ \E j \in Jobs : job[j].op = op /\ job[j].pc \in {"gave_up", "dead"}

\* A worker that ends without a trace has written a state in which the order is not busy.
LEMMA WorkersEnd ==
  ASSUME Control, NEW j \in Jobs, WorkerStep(j)
  PROVE  /\ seen'.unsent = seen.unsent
         /\ \/ /\ job'[j].pc \in GenPcs \union ToPcs
               /\ report'.state = report.state \/ (report'.state = "PUSHING_TO_MSD" /\ job[j].op = "transfer")
            \/ job'[j].pc \in {"gave_up", "dead"} /\ report'.state = report.state
            \/ report'.state \notin Busy
<1>0. PcSets /\ TypeOK /\ BatchesAreApart /\ NumbersAreNew /\ OpsAgree
  BY PcSetsAre DEF Control
<1>1. seen'.unsent = seen.unsent
  BY <1>0 DEF WorkerStep, GenerateStep, TransferStep, ReceiveMessage, Crash, GiveUp, FindStore,
    GenerateReorderPoints, GenerateStockOrder, GenerateFails, SetGenerated, SetProcessingFailure, FindReport,
    SetPushingToMSD, PostHeader, PostHeaderUnanswered, FindApprovedItems, SendBatchRequest, BatchIsLost,
    UpdatePercentage, BatchesAnswered, SaveTransferOrderNumber, TransferFails, SetErrorPushing, TypeOK
<1>2. CASE Crash(j) \/ GiveUp(j)
  <2>1. PICK pc \in {"gave_up", "dead"} : Finish(j, pc)
    BY <1>2 DEF Crash, GiveUp
  <2>2. job'[j].pc = pc
    BY <1>0, <2>1, FinishEffect, NoneGotoEnds
  <2> QED
    BY <1>1, <1>2, <2>2 DEF Crash, GiveUp
<1>3. CASE SetGenerated(j) \/ SetProcessingFailure(j) \/ SetErrorPushing(j)
  <2>1. PICK st \in {"GENERATED", "PROCESSING_FAILURE", "ERROR_PUSHING_TO_MSD"} : SetState(st)
    BY <1>3 DEF SetGenerated, SetProcessingFailure, SetErrorPushing
  <2>2. report'.state = st
    BY <1>0, <2>1, SetStateEffect, NamesAreStates DEF StateNames
  <2> QED
    BY <1>1, <2>2 DEF Busy
<1>4. CASE SaveTransferOrderNumber(j)
  <2>1. report'.state = "FULFILMENT_PENDING"
    BY <1>0, <1>4 DEF SaveTransferOrderNumber, TypeOK, Report
  <2> QED
    BY <1>1, <2>1 DEF Busy
<1>5. CASE SetPushingToMSD(j)
  <2>1. job'[j].pc = "to_header" /\ job[j].op = "transfer"
    BY <1>0, <1>5, GotoEffect, NoneGotoEnds DEF SetPushingToMSD, OpsAgree, PcSets
  <2>2. report'.state = "PUSHING_TO_MSD"
    BY <1>0, <1>5, SetStateEffect, NamesAreStates DEF SetPushingToMSD, StateNames
  <2> QED
    BY <1>0, <1>1, <2>1, <2>2 DEF PcSets
<1>6. CASE \/ ReceiveMessage(j) \/ FindStore(j) \/ GenerateReorderPoints(j) \/ GenerateStockOrder(j)
           \/ GenerateFails(j) \/ FindReport(j) \/ BatchesAnswered(j) \/ TransferFails(j)
           \/ PostHeaderUnanswered(j)
  <2>1. PICK pc \in GenPcs \union ToPcs : Goto(j, pc)
    BY <1>0, <1>6 DEF ReceiveMessage, FindStore, GenerateReorderPoints, GenerateStockOrder, GenerateFails,
      FindReport, BatchesAnswered, TransferFails, PostHeaderUnanswered, PcSets
  <2>2. job'[j].pc = pc
    BY <1>0, <2>1, GotoEffect DEF Pcs
  <2>3. report' = report
    BY <1>6 DEF ReceiveMessage, FindStore, GenerateReorderPoints, GenerateStockOrder, GenerateFails,
      FindReport, BatchesAnswered, TransferFails, PostHeaderUnanswered
  <2> QED
    BY <1>1, <2>2, <2>3
<1>7. CASE PostHeader(j) \/ FindApprovedItems(j) \/ SendBatchRequest(j) \/ BatchIsLost(j) \/ UpdatePercentage(j)
  <2>1. job'[j].pc \in ToPcs
    <3>1. CASE PostHeader(j) \/ FindApprovedItems(j)
      BY <1>0, <3>1, PostHeaderEffect, FindApprovedEffect DEF PcSets
    <3>2. CASE SendBatchRequest(j) \/ BatchIsLost(j)
      BY <1>0, <3>2, PushEffect DEF SendBatchRequest, BatchIsLost, Pushed, PcSets
    <3>3. CASE UpdatePercentage(j)
      BY <1>0, <3>3, UpdateEffect DEF UpdatePercentage, PcSets
    <3> QED
      BY <1>7, <3>1, <3>2, <3>3
  <2>2. report'.state = report.state
    BY <1>0, <1>7, UpdateEffect DEF PostHeader, FindApprovedItems, SendBatchRequest, BatchIsLost
  <2> QED
    BY <1>1, <2>1, <2>2
<1> QED
  BY <1>2, <1>3, <1>4, <1>5, <1>6, <1>7 DEF WorkerStep, GenerateStep, TransferStep

LEMMA ServedKeeps ==
  ASSUME Control, BusyIsServed, [Next]_vars
  PROVE  BusyIsServed'
<1>0. PcSets /\ TypeOK /\ BatchesAreApart /\ NumbersAreNew /\ OpsAgree
  BY PcSetsAre DEF Control
<1>a. BusyIsServed <=> /\ report.state = "PROCESSING" => Served("generate")
                       /\ report.state = "PUSHING_TO_MSD" => Served("transfer")
  BY DEF BusyIsServed, Served
<1>b. BusyIsServed' <=> /\ report'.state = "PROCESSING" => Served("generate")'
                        /\ report'.state = "PUSHING_TO_MSD" => Served("transfer")'
  BY DEF BusyIsServed, Served
<1>1. ASSUME NEW s \in Sessions, SessionCall(s) \/ SessionStep(s) PROVE BusyIsServed'
  <2>1. ASSUME NEW op \in Ops, Served(op) PROVE Served(op)'
    <3>1. op \in seen.unsent => op \in seen'.unsent
      BY <1>0, <1>1 DEF SessionCall, SessionStep, CallGenerate, OpenPage, CallCreateTransferOrder, EditItem,
        PutOpenedState, WritePushingToMSD, SendPayLoad, SendPayLoadFails, TypeOK
    <3>2. ASSUME NEW k \in Jobs, job[k].pc # "free", job[k].op = op PROVE job'[k] = job[k]
      BY <1>0, <1>1, <3>2, SessionsKeepJobs, SendEffect DEF Others
    <3>3. ASSUME NEW k \in Jobs, job[k].op = op, job[k].pc = "queued" \/ Running(k) PROVE Served(op)'
      <4>1. job[k].pc # "free" /\ (job'[k] = job[k] => job'[k].pc = "queued" \/ Running(k)')
        BY <3>3 DEF Running
      <4> QED
        BY <3>2, <3>3, <4>1 DEF Served
    <3>4. ASSUME NEW k \in Jobs, job[k].op = op, job[k].pc \in {"gave_up", "dead"} PROVE Served(op)'
      BY <3>2, <3>4 DEF Served
    <3>5. ASSUME NEW t \in Sessions, session[t].pc = "send", session[t].op = op PROVE Served(op)'
      <4>1. CASE SendPayLoad(s) /\ t = s
        <5>1. PICK j \in Jobs : job'[j] = NewJob(op, "queued")
          BY <1>0, <3>5, <4>1, SendEffect
        <5>2. job'[j].pc = "queued" /\ job'[j].op = op
          BY <5>1 DEF NewJob
        <5> QED
          BY <5>2 DEF Served
      <4>2. CASE SendPayLoadFails(s) /\ t = s
        <5>1. op \in seen'.unsent
          BY <1>0, <3>5, <4>2 DEF SendPayLoadFails, TypeOK
        <5> QED
          BY <5>1 DEF Served
      <4>3. CASE t # s \/ ~(SendPayLoad(s) \/ SendPayLoadFails(s))
        <5>1. t = s => \E p \in Products : EditItem(s, p)
          BY <1>1, <3>5, <4>3 DEF SessionCall, SessionStep, CallGenerate, OpenPage, CallCreateTransferOrder,
            PutOpenedState, WritePushingToMSD
        <5>2. session'[t] = session[t]
          BY <1>0, <1>1, <5>1, SessionEffects DEF SessionCall, SessionStep, SessionEffect, OtherSessions
        <5> QED
          BY <3>5, <5>2 DEF Served
      <4> QED
        BY <4>1, <4>2, <4>3
    <3> QED
      BY <2>1, <3>1, <3>3, <3>4, <3>5 DEF Served
  <2>2. CASE CallGenerate(s)
    <3>1. session'[s].pc = "send" /\ session'[s].op = "generate"
      BY <1>0, <2>2, SessionEffects DEF SessionEffect
    <3>2. report'.state = "PROCESSING"
      BY <1>0, <2>2, SetStateEffect, NamesAreStates DEF CallGenerate, StateNames
    <3> QED
      BY <1>b, <3>1, <3>2 DEF Served
  <2>3. CASE WritePushingToMSD(s)
    <3>0. session[s].op = "transfer"
      BY <1>0, <2>3 DEF WritePushingToMSD, OpsAgree
    <3>1. session'[s].pc = "send" /\ session'[s].op = "transfer"
      BY <1>0, <2>3, <3>0, SessionEffects DEF SessionEffect
    <3>2. report'.state = "PUSHING_TO_MSD"
      BY <1>0, <2>3, SetStateEffect, NamesAreStates DEF WritePushingToMSD, StateNames
    <3> QED
      BY <1>b, <3>1, <3>2 DEF Served
  <2>4. CASE PutOpenedState(s)
    <3>1. report'.state = "APPROVAL_IN_PROCESS"
      BY <1>0, <2>4, SetStateEffect, NamesAreStates DEF PutOpenedState, StateNames
    <3> QED
      BY <1>b, <3>1
  <2>5. CASE report' = report
    <3>1. "generate" \in Ops /\ "transfer" \in Ops
      BY DEF Ops
    <3> QED
      BY <1>a, <1>b, <2>1, <2>5, <3>1
  <2>6. \/ CallGenerate(s) \/ WritePushingToMSD(s) \/ PutOpenedState(s) \/ report' = report
    BY <1>1 DEF SessionCall, SessionStep, OpenPage, CallCreateTransferOrder, EditItem, SendPayLoad, SendPayLoadFails
  <2> QED
    BY <2>2, <2>3, <2>4, <2>5, <2>6
<1>2. ASSUME NEW j \in Jobs, WorkerStep(j) PROVE BusyIsServed'
  <2>0. Active(j) /\ Others(j) /\ job'[j].op = job[j].op /\ session' = session /\ seen'.unsent = seen.unsent
    BY <1>0, <1>2, WorkersMove, WorkersEnd DEF WorkerMoves
  <2>1. CASE report'.state \notin Busy
    BY <1>b, <2>1 DEF Busy
  <2>2. ASSUME report'.state \in Busy PROVE BusyIsServed'
    <3>1. job'[j].pc \in GenPcs \union ToPcs \/ job'[j].pc \in {"gave_up", "dead"}
      BY <1>2, <2>2, WorkersEnd
    <3>2. Running(j)' \/ job'[j].pc \in {"gave_up", "dead"}
      BY <1>0, <3>1 DEF Running, PcSets
    <3>3. ASSUME NEW op \in Ops, job[j].op = op PROVE Served(op)'
      BY <2>0, <3>2, <3>3 DEF Served
    <3>4. ASSUME NEW op \in Ops, Served(op) PROVE Served(op)'
      <4>1. ASSUME NEW k \in Jobs, k # j, job[k].op = op, job[k].pc = "queued" \/ Running(k) PROVE Served(op)'
        <5>1. job'[k] = job[k] /\ (job'[k] = job[k] => job'[k].pc = "queued" \/ Running(k)')
          BY <2>0, <4>1 DEF Others, Running
        <5> QED
          BY <4>1, <5>1 DEF Served
      <4>2. ASSUME NEW k \in Jobs, k # j, job[k].op = op, job[k].pc \in {"gave_up", "dead"} PROVE Served(op)'
        BY <2>0, <4>2 DEF Others, Served
      <4> QED
        BY <2>0, <3>3, <3>4, <4>1, <4>2 DEF Served
    <3>5. report'.state = report.state \/ (report'.state = "PUSHING_TO_MSD" /\ job[j].op = "transfer")
      BY <1>2, <2>2, WorkersEnd
    <3>6. "generate" \in Ops /\ "transfer" \in Ops
      BY DEF Ops
    <3> QED
      BY <1>a, <1>b, <3>3, <3>4, <3>5, <3>6
  <2> QED
    BY <2>1, <2>2
<1>3. CASE UNCHANGED vars
  BY <1>3 DEF vars, BusyIsServed, Running
<1> QED
  BY <1>1, <1>2, <1>3 DEF Next, WorkerStep

\* An order that is being generated or transferred, which no page and no handler of the API
\* touches any more, always has a request, a message or a worker that will move it on;
\* unless the queue refused the message, or the worker died or could not write the state.
THEOREM MsdOrdersAreServed == Spec => []BusyIsServed
<1>1. Init => Control /\ BusyIsServed
  BY ControlStarts DEF Init, BusyIsServed
<1>2. Control /\ BusyIsServed /\ [Next]_vars => Control' /\ BusyIsServed'
  BY ControlKeeps, ServedKeeps
<1> QED
  BY <1>1, <1>2, PTL DEF Spec

-----------------------------------------------------------------------------
(* One generation, and one transfer after another *)

LEMMA TransferringIs ==
  ASSUME TypeOK
  PROVE  Transferring <=> (\E s \in Sessions : AsksToTransfer(s)) \/ (\E j \in Jobs : Transfers(j))
<1>1. \A j \in Jobs : Active(j) <=> job[j].pc = "queued" \/ Running(j)
  BY PcSetsAre DEF Active, Running, PcSets
<1> QED
  BY <1>1 DEF Transferring, AsksToTransfer, Transfers

\* What a step of a session leaves alone.
LEMMA SessionsKeep ==
  ASSUME TypeOK, NEW s \in Sessions, SessionCall(s) \/ SessionStep(s)
  PROVE  /\ report'.transferOrderNumber = report.transferOrderNumber
         /\ report'.percentagePushedToMSD = report.percentagePushedToMSD
         /\ item' = item \/ \E p \in Products : EditItem(s, p)
         /\ seen'.lostBatch = seen.lostBatch /\ seen'.unanswered = seen.unanswered
         /\ (seen'.overlap = seen.overlap /\ seen'.retry = seen.retry) \/ CallCreateTransferOrder(s)
         /\ seen'.lateEdit = seen.lateEdit \/ \E p \in Products : EditItem(s, p)
         /\ faults' = faults \/ SendPayLoadFails(s)
<1>1. CASE CallGenerate(s) \/ PutOpenedState(s) \/ WritePushingToMSD(s)
  <2>1. \E st \in REPORT_STATES : SetState(st)
    BY <1>1, NamesAreStates DEF CallGenerate, PutOpenedState, WritePushingToMSD, StateNames
  <2>2. item' = item /\ seen' = seen /\ faults' = faults
    BY <1>1 DEF CallGenerate, PutOpenedState, WritePushingToMSD
  <2> QED
    BY <2>1, <2>2, SetStateEffect
<1>2. CASE OpenPage(s) \/ SendPayLoad(s)
  BY <1>2 DEF OpenPage, SendPayLoad
<1>3. CASE CallCreateTransferOrder(s)
  BY <1>3 DEF CallCreateTransferOrder, TypeOK
<1>4. CASE SendPayLoadFails(s)
  BY <1>4 DEF SendPayLoadFails, TypeOK
<1>5. ASSUME NEW p \in Products, EditItem(s, p)
      PROVE  /\ report' = report /\ seen'.lostBatch = seen.lostBatch /\ seen'.unanswered = seen.unanswered
             /\ seen'.overlap = seen.overlap /\ seen'.retry = seen.retry /\ faults' = faults
  BY <1>5 DEF EditItem, TypeOK
<1> QED
  BY <1>1, <1>2, <1>3, <1>4, <1>5 DEF SessionCall, SessionStep

LEMMA OnlyGenerationKeeps ==
  ASSUME Control, OnlyGeneration, [Next]_vars
  PROVE  OnlyGeneration'
<1>0. PcSets /\ TypeOK /\ BatchesAreApart /\ NumbersAreNew /\ OpsAgree
  BY PcSetsAre DEF Control
<1>1. ASSUME NEW s \in Sessions, SessionCall(s) \/ SessionStep(s) PROVE OnlyGeneration'
  <2>0. report'.transferOrderNumber = report.transferOrderNumber /\ (job' = job \/ SendPayLoad(s))
    BY <1>0, <1>1, SessionsKeep, SessionsKeepJobs
  <2>1. CASE CallGenerate(s)
    <3>1. report'.state = "PROCESSING" /\ report.state = "absent" /\ job' = job
      BY <1>0, <2>1, SetStateEffect, NamesAreStates DEF CallGenerate, StateNames
    <3>2. SessionEffect(s, session[s].page, "send", "generate")
      BY <1>0, <2>1, SessionEffects
    <3> QED
      BY <2>0, <3>1, <3>2 DEF OnlyGeneration, SessionEffect, OtherSessions, AsksToGenerate, Generates, Active
  <2>2. CASE OpenPage(s) \/ PutOpenedState(s) \/ CallCreateTransferOrder(s) \/ WritePushingToMSD(s)
             \/ \E p \in Products : EditItem(s, p)
    <3>1. report.state # "absent"
      BY <2>2 DEF OpenPage, PutOpenedState, CallCreateTransferOrder, WritePushingToMSD, EditItem, OnlyGeneration, Editable
    <3>2. \A t \in Sessions : ~AsksToGenerate(t)
      BY <2>2 DEF OpenPage, PutOpenedState, CallCreateTransferOrder, WritePushingToMSD, EditItem, OnlyGeneration,
        Editable, AsksToGenerate
    <3>3. \A k \in Jobs : ~Generates(k)
      BY <2>2 DEF OpenPage, PutOpenedState, CallCreateTransferOrder, WritePushingToMSD, EditItem, OnlyGeneration, Editable
    <3>4. job' = job
      BY <2>2 DEF OpenPage, PutOpenedState, CallCreateTransferOrder, WritePushingToMSD, EditItem
    <3>5. report'.state # "absent"
      BY <1>0, <2>2, <3>1, SetStateEffect, NamesAreStates
      DEF OpenPage, PutOpenedState, CallCreateTransferOrder, WritePushingToMSD, EditItem, StateNames
    <3>6. \A t \in Sessions : ~AsksToGenerate(t)'
      <4>1. CASE OpenPage(s) \/ PutOpenedState(s) \/ CallCreateTransferOrder(s)
        BY <1>0, <3>2, <4>1, SessionEffects DEF SessionEffect, OtherSessions, AsksToGenerate
      <4>2. CASE WritePushingToMSD(s)
        <5>1. session[s].op = "transfer"
          BY <1>0, <4>2 DEF WritePushingToMSD, OpsAgree
        <5> QED
          BY <1>0, <3>2, <4>2, <5>1, SessionEffects DEF SessionEffect, OtherSessions, AsksToGenerate
      <4>3. CASE \E p \in Products : EditItem(s, p)
        BY <3>2, <4>3 DEF EditItem, AsksToGenerate
      <4> QED
        BY <2>2, <4>1, <4>2, <4>3
    <3> QED
      BY <3>3, <3>4, <3>5, <3>6 DEF OnlyGeneration, Generates, Active
  <2>3. CASE SendPayLoad(s)
    <3>1. PICK j \in Jobs : job[j].pc = "free" /\ Others(j) /\ job'[j] = NewJob(session[s].op, "queued")
      BY <1>0, <2>3, SendEffect
    <3>2. job'[j].pc = "queued" /\ job'[j].op = session[s].op
      BY <3>1 DEF NewJob
    <3>3. /\ session[s].pc = "send" /\ report' = report /\ session'[s].pc = "idle" /\ OtherSessions(s)
          /\ session'[s].page = session[s].page
      BY <1>0, <2>3, SessionEffects DEF SendPayLoad, SessionEffect
    <3>4. report.state # "absent" /\ \A k \in Jobs : ~Generates(k)
      BY <3>3 DEF OnlyGeneration
    <3>5. CASE AsksToGenerate(s)
      BY <1>0, <3>1, <3>2, <3>3, <3>4, <3>5 DEF OnlyGeneration, OtherSessions, Others, AsksToGenerate, Generates, Active, PcSets
    <3>6. CASE ~AsksToGenerate(s)
      <4>1. \A t \in Sessions : ~AsksToGenerate(t)
        BY <3>3, <3>6 DEF OnlyGeneration
      <4>2. \A t \in Sessions : ~AsksToGenerate(t)'
        BY <3>3, <4>1 DEF OtherSessions, AsksToGenerate
      <4>3. \A k \in Jobs : ~Generates(k)'
        BY <3>1, <3>2, <3>3, <3>4, <3>6 DEF Others, Generates, AsksToGenerate, Active
      <4> QED
        BY <3>3, <3>4, <4>2, <4>3 DEF OnlyGeneration
    <3> QED
      BY <3>5, <3>6
  <2>4. CASE SendPayLoadFails(s)
    <3>1. /\ session[s].pc = "send" /\ report' = report /\ session'[s].pc = "idle" /\ OtherSessions(s) /\ job' = job
      BY <1>0, <2>4, SessionEffects DEF SendPayLoadFails, SessionEffect
    <3>2. report.state # "absent" /\ \A k \in Jobs : ~Generates(k)
      BY <3>1 DEF OnlyGeneration
    <3>3. \A t \in Sessions : ~AsksToGenerate(t)'
      BY <3>1 DEF OnlyGeneration, OtherSessions, AsksToGenerate
    <3> QED
      BY <3>1, <3>2, <3>3 DEF OnlyGeneration, Generates, Active
  <2> QED
    BY <1>1, <2>1, <2>2, <2>3, <2>4 DEF SessionCall, SessionStep
<1>2. ASSUME NEW j \in Jobs, WorkerStep(j) PROVE OnlyGeneration'
  <2>0. WorkerMoves(j)
    BY <1>0, <1>2, WorkersMove
  <2>1. Active(j) /\ Others(j) /\ session' = session /\ job'[j].op = job[j].op
    BY <2>0 DEF WorkerMoves
  <2>2. report.state # "absent" /\ \A s \in Sessions : ~AsksToGenerate(s)
    BY <2>1 DEF OnlyGeneration, Active
  <2>3. report'.state # "absent"
    BY <2>0, <2>2 DEF WorkerMoves, StateNames
  <2>4. \A s \in Sessions : ~AsksToGenerate(s)'
    BY <2>1, <2>2 DEF AsksToGenerate
  <2>5. ASSUME NEW k \in Jobs, k # j PROVE ~Generates(k)'
    <3>1. ~Generates(k)
      BY <2>1, <2>5 DEF OnlyGeneration, Active
    <3> QED
      BY <2>1, <2>5, <3>1 DEF Others, Generates, Active
  <2>6. ASSUME Generates(j)'
        PROVE  /\ report'.state = "PROCESSING" /\ report'.transferOrderNumber = None
               /\ \A s \in Sessions : session'[s].pc = "idle" /\ ~session'[s].page
               /\ \A k \in Jobs \ {j} : job'[k].pc = "free"
    <3>1. job[j].op = "generate" /\ job'[j].pc \notin Ended
      BY <2>1, <2>6 DEF Generates, Active
    <3>2. report' = report
      BY <2>0, <3>1 DEF WorkerMoves
    <3> QED
      BY <2>1, <3>1, <3>2 DEF OnlyGeneration, Generates, Others
  <2> QED
    BY <2>3, <2>4, <2>5, <2>6 DEF OnlyGeneration
<1>3. CASE UNCHANGED vars
  BY <1>3 DEF vars, OnlyGeneration, AsksToGenerate, Generates, Active
<1> QED
  BY <1>1, <1>2, <1>3 DEF Next, WorkerStep

\* What a worker's step leaves alone.
LEMMA WorkersKeep ==
  ASSUME Control, NEW j \in Jobs, WorkerStep(j)
  PROVE  /\ seen'.overlap = seen.overlap /\ seen'.retry = seen.retry /\ seen'.lateEdit = seen.lateEdit
         /\ seen.lostBatch => seen'.lostBatch
         /\ seen.unanswered \subseteq seen'.unanswered
         /\ job[j].op = "transfer" =>
              /\ item' = item /\ point' = point
              /\ report'.state \in {report.state, "PUSHING_TO_MSD", "ERROR_PUSHING_TO_MSD", "FULFILMENT_PENDING"}
         /\ job[j].op = "generate" =>
              /\ msd' = msd /\ report'.percentagePushedToMSD = report.percentagePushedToMSD
              /\ job'[j].number = job[j].number
<1>0. PcSets /\ TypeOK /\ BatchesAreApart /\ NumbersAreNew /\ OpsAgree
  BY PcSetsAre DEF Control
<1>1. /\ seen'.overlap = seen.overlap /\ seen'.retry = seen.retry /\ seen'.lateEdit = seen.lateEdit
      /\ seen.lostBatch => seen'.lostBatch
      /\ seen.unanswered \subseteq seen'.unanswered
  BY <1>0 DEF WorkerStep, GenerateStep, TransferStep, ReceiveMessage, Crash, GiveUp, FindStore,
    GenerateReorderPoints, GenerateStockOrder, GenerateFails, SetGenerated, SetProcessingFailure, FindReport,
    SetPushingToMSD, PostHeader, PostHeaderUnanswered, FindApprovedItems, SendBatchRequest, BatchIsLost,
    UpdatePercentage, BatchesAnswered, SaveTransferOrderNumber, TransferFails, SetErrorPushing, TypeOK
<1>2. ASSUME job[j].op = "transfer"
      PROVE  /\ item' = item /\ point' = point
             /\ report'.state \in {report.state, "PUSHING_TO_MSD", "ERROR_PUSHING_TO_MSD", "FULFILMENT_PENDING"}
  <2>1. ~GenerateStep(j)
    BY <1>0, <1>2 DEF OpsAgree, GenerateStep, FindStore, GenerateReorderPoints, GenerateStockOrder, GenerateFails,
      SetGenerated, SetProcessingFailure, PcSets
  <2>2. item' = item /\ point' = point
    BY <1>2, <2>1 DEF WorkerStep, TransferStep, ReceiveMessage, Crash, GiveUp, FindReport,
      SetPushingToMSD, PostHeader, PostHeaderUnanswered, FindApprovedItems, SendBatchRequest, BatchIsLost,
      UpdatePercentage, BatchesAnswered, SaveTransferOrderNumber, TransferFails, SetErrorPushing
  <2>3. CASE SetPushingToMSD(j) \/ SetErrorPushing(j)
    BY <1>0, <2>2, <2>3, SetStateEffect, NamesAreStates DEF SetPushingToMSD, SetErrorPushing, StateNames
  <2>4. CASE SaveTransferOrderNumber(j)
    BY <1>0, <2>2, <2>4 DEF SaveTransferOrderNumber, TypeOK, Report
  <2>5. CASE UpdatePercentage(j)
    BY <1>0, <2>2, <2>5, UpdateEffect
  <2>6. CASE ~(SetPushingToMSD(j) \/ SetErrorPushing(j) \/ SaveTransferOrderNumber(j) \/ UpdatePercentage(j))
    BY <1>2, <2>1, <2>2, <2>6 DEF WorkerStep, TransferStep, ReceiveMessage, Crash, GiveUp, FindReport,
      PostHeader, PostHeaderUnanswered, FindApprovedItems, SendBatchRequest, BatchIsLost,
      BatchesAnswered, TransferFails
  <2> QED
    BY <2>3, <2>4, <2>5, <2>6
<1>3. ASSUME job[j].op = "generate"
      PROVE  /\ msd' = msd /\ report'.percentagePushedToMSD = report.percentagePushedToMSD
             /\ job'[j].number = job[j].number
  <2>1. ~TransferStep(j)
    BY <1>0, <1>3 DEF OpsAgree, TransferStep, FindReport,
      SetPushingToMSD, PostHeader, PostHeaderUnanswered, FindApprovedItems, SendBatchRequest, BatchIsLost,
      UpdatePercentage, BatchesAnswered, SaveTransferOrderNumber, TransferFails, SetErrorPushing, PcSets
  <2>2. msd' = msd
    BY <1>2, <2>1 DEF WorkerStep, GenerateStep, ReceiveMessage, Crash, GiveUp, FindStore,
      GenerateReorderPoints, GenerateStockOrder, GenerateFails, SetGenerated, SetProcessingFailure
  <2>3. report'.percentagePushedToMSD = report.percentagePushedToMSD
    BY <1>0, <1>2, <2>1, SetStateEffect, NamesAreStates DEF WorkerStep, GenerateStep, ReceiveMessage, Crash, GiveUp,
      FindStore, GenerateReorderPoints, GenerateStockOrder, GenerateFails, SetGenerated, SetProcessingFailure, StateNames
  <2>4. (\E pc \in Pcs : Goto(j, pc)) \/ (\E pc \in Pcs : Finish(j, pc))
    BY <1>0, <1>2, <2>1, NoneGotoEnds DEF WorkerStep, GenerateStep, ReceiveMessage, Crash, GiveUp,
      FindStore, GenerateReorderPoints, GenerateStockOrder, GenerateFails, SetGenerated, SetProcessingFailure
  <2> QED
    BY <1>0, <2>2, <2>3, <2>4, GotoEffect, FinishEffect
<1> QED
  BY <1>1, <1>2, <1>3

LEMMA OneTransferKeeps ==
  ASSUME Control, OneTransfer, [Next]_vars
  PROVE  OneTransfer'
<1>0. PcSets /\ TypeOK /\ BatchesAreApart /\ NumbersAreNew /\ OpsAgree
  BY PcSetsAre DEF Control
<1>1. ASSUME NEW s \in Sessions, SessionCall(s) \/ SessionStep(s), ~seen'.overlap PROVE OneTransfer'
  <2>0. report'.transferOrderNumber = report.transferOrderNumber /\ (job' = job \/ SendPayLoad(s))
    BY <1>0, <1>1, SessionsKeep, SessionsKeepJobs
  <2>1. CASE CallCreateTransferOrder(s)
    <3>1. ~Transferring /\ report.transferOrderNumber = None /\ job' = job
      BY <1>0, <1>1, <2>1 DEF CallCreateTransferOrder, MayCreateTransferOrder, TypeOK
    <3>2. (\A t \in Sessions : ~AsksToTransfer(t)) /\ (\A k \in Jobs : ~Transfers(k))
      BY <1>0, <3>1, TransferringIs
    <3>3. (\A t \in Sessions : AsksToTransfer(t)' => t = s) /\ (\A k \in Jobs : ~Transfers(k)')
      BY <1>0, <2>1, <3>1, <3>2, SessionEffects DEF SessionEffect, OtherSessions, AsksToTransfer, Transfers, Active
    <3> QED
      BY <2>0, <3>1, <3>3 DEF OneTransfer
  <2>2. CASE SendPayLoad(s)
    <3>1. PICK j \in Jobs : job[j].pc = "free" /\ Others(j) /\ job'[j] = NewJob(session[s].op, "queued")
      BY <1>0, <2>2, SendEffect
    <3>2. job'[j].pc = "queued" /\ job'[j].op = session[s].op
      BY <3>1 DEF NewJob
    <3>3. /\ session[s].pc = "send" /\ session'[s].pc = "idle" /\ OtherSessions(s) /\ ~seen.overlap
      BY <1>0, <1>1, <2>2, SessionEffects DEF SendPayLoad, SessionEffect
    <3>4. \A t \in Sessions : AsksToTransfer(t)' => t # s /\ AsksToTransfer(t)
      BY <3>3 DEF OtherSessions, AsksToTransfer
    <3>5. \A k \in Jobs : Transfers(k)' => Transfers(k) \/ (k = j /\ AsksToTransfer(s))
      BY <3>1, <3>2, <3>3 DEF Others, AsksToTransfer, Transfers, Active
    <3> QED
      BY <2>0, <3>3, <3>4, <3>5 DEF OneTransfer
  <2>3. CASE ~CallCreateTransferOrder(s) /\ ~SendPayLoad(s)
    <3>1. job' = job /\ ~seen.overlap
      BY <1>0, <1>1, <2>0, <2>3, SessionsKeep
    <3>2. \A t \in Sessions : AsksToTransfer(t)' => AsksToTransfer(t)
      <4>1. CASE CallGenerate(s) \/ OpenPage(s) \/ PutOpenedState(s) \/ SendPayLoadFails(s)
        BY <1>0, <4>1, SessionEffects DEF SessionEffect, OtherSessions, AsksToTransfer
      <4>2. CASE WritePushingToMSD(s)
        BY <1>0, <4>2, SessionEffects DEF SessionEffect, OtherSessions, AsksToTransfer, WritePushingToMSD
      <4>3. CASE \E p \in Products : EditItem(s, p)
        BY <4>3 DEF EditItem, AsksToTransfer
      <4> QED
        BY <1>1, <2>3, <4>1, <4>2, <4>3 DEF SessionCall, SessionStep
    <3> QED
      BY <2>0, <3>1, <3>2 DEF OneTransfer, Transfers, Active
  <2> QED
    BY <2>1, <2>2, <2>3
<1>2. ASSUME NEW j \in Jobs, WorkerStep(j), ~seen'.overlap PROVE OneTransfer'
  <2>0. WorkerMoves(j) /\ ~seen.overlap
    BY <1>0, <1>2, WorkersMove, WorkersKeep
  <2>1. Active(j) /\ Others(j) /\ session' = session /\ job'[j].op = job[j].op
    BY <2>0 DEF WorkerMoves
  <2>2. /\ \A k \in Jobs : Transfers(k)' => Transfers(k)
        /\ \A s \in Sessions : AsksToTransfer(s)' => AsksToTransfer(s)
    BY <2>1 DEF Others, AsksToTransfer, Transfers, Active
  <2>3. CASE report'.transferOrderNumber = report.transferOrderNumber
    BY <2>0, <2>2, <2>3 DEF OneTransfer
  <2>4. CASE job[j].op = "transfer" /\ job'[j].pc = "done"
    <3>1. Transfers(j) /\ ~Transfers(j)'
      BY <1>0, <2>1, <2>4 DEF Transfers, Active, PcSets
    <3>2. (\A t \in Sessions : ~AsksToTransfer(t)') /\ (\A k \in Jobs : ~Transfers(k)')
      BY <2>0, <2>2, <3>1 DEF OneTransfer
    <3> QED
      BY <3>2 DEF OneTransfer
  <2> QED
    BY <2>0, <2>3, <2>4 DEF WorkerMoves
<1>3. CASE UNCHANGED vars
  BY <1>3 DEF vars, OneTransfer, AsksToTransfer, Transfers, Active
<1> QED
  BY <1>1, <1>2, <1>3 DEF Next, WorkerStep, OneTransfer

-----------------------------------------------------------------------------
(* An order fills its options *)

NoLines == \A p \in Products : item[p].originalOrderQuantity = 0

\* Neither the lines nor the reorder points have been touched.
Untouched == NoLines /\ point = stock.saved

\* As long as nothing has failed: the order has no lines until its worker, which finds the
\* reorder points as they were saved, saves those that the points ask for once what was due
\* has been recalculated; and then it keeps them.
LinesAreGenerated ==
  faults = 0 =>
    /\ report.state = "absent" => Untouched
    /\ \A s \in Sessions : AsksToGenerate(s) => Untouched
    /\ \A j \in Jobs : job[j].op = "generate" =>
         /\ job[j].pc \in {"queued", "gen_store", "gen_points"} => Untouched
         /\ job[j].pc = "gen_lines" => NoLines
         /\ job[j].pc \in {"gen_lines", "gen_state"} => Recalculated
         /\ job[j].pc = "gen_state" => LinesAreThose
    /\ report.state = "PROCESSING" =>
         (\E s \in Sessions : AsksToGenerate(s)) \/ (\E j \in Jobs : Generates(j))
    /\ report.state = "PROCESSING_FAILURE" =>
         (\A s \in Sessions : session[s].pc = "idle") /\ (\A j \in Jobs : ~Active(j))
    /\ report.state \notin {"absent", "PROCESSING", "PROCESSING_FAILURE"} => Recalculated /\ LinesAreThose

LEMMA FaultsStay ==
  ASSUME TypeOK, [Next]_vars, faults' = 0
  PROVE  faults = 0
<1>1. faults \in Nat /\ (Fault => faults' = faults + 1)
  BY MsdOrderAssumption DEF TypeOK, Fault
<1>2. ASSUME NEW s \in Sessions, SessionCall(s) \/ SessionStep(s) PROVE faults' = faults \/ Fault
  BY <1>2 DEF SessionCall, SessionStep, CallGenerate, OpenPage, CallCreateTransferOrder, EditItem,
    PutOpenedState, WritePushingToMSD, SendPayLoad, SendPayLoadFails
<1>3. ASSUME NEW j \in Jobs, WorkerStep(j) PROVE faults' = faults \/ Fault
  BY <1>3 DEF WorkerStep, GenerateStep, TransferStep, ReceiveMessage, Crash, GiveUp, FindStore,
    GenerateReorderPoints, GenerateStockOrder, GenerateFails, SetGenerated, SetProcessingFailure, FindReport,
    SetPushingToMSD, PostHeader, PostHeaderUnanswered, FindApprovedItems, SendBatchRequest, BatchIsLost,
    UpdatePercentage, BatchesAnswered, SaveTransferOrderNumber, TransferFails, SetErrorPushing
<1>4. faults' = faults \/ Fault
  BY <1>2, <1>3 DEF Next, vars, WorkerStep
<1> QED
  BY <1>1, <1>4

\* A step that changes neither the quantities nor what they are computed from.
LEMMA LinesStay ==
  ASSUME point' = point, stock' = stock,
         \A p \in Products : item'[p].originalOrderQuantity = item[p].originalOrderQuantity
  PROVE  /\ NoLines' = NoLines /\ Untouched' = Untouched
         /\ Recalculated' = Recalculated /\ LinesAreThose' = LinesAreThose
BY DEF NoLines, Untouched, Recalculated, LinesAreThose

LEMMA LinesKeepInSessions ==
  ASSUME Control, OnlyGeneration, LinesAreGenerated, NEW s \in Sessions, SessionCall(s) \/ SessionStep(s),
         faults = 0, faults' = 0
  PROVE  LinesAreGenerated'
<1>0. PcSets /\ TypeOK /\ BatchesAreApart /\ NumbersAreNew /\ OpsAgree
  BY PcSetsAre DEF Control
<1>1. stock' = stock /\ point' = point /\ (job' = job \/ SendPayLoad(s)) /\ (item' = item \/ \E p \in Products : EditItem(s, p))
  BY <1>0, SessionsKeep, SessionsKeepJobs
<1>2. \A p \in Products : item'[p].originalOrderQuantity = item[p].originalOrderQuantity
  <2>1. ASSUME NEW q \in Products, EditItem(s, q)
        PROVE  \A p \in Products : item'[p].originalOrderQuantity = item[p].originalOrderQuantity
    <3>1. PICK x : /\ item' = [item EXCEPT ![q] = x]
                   /\ x.originalOrderQuantity = item[q].originalOrderQuantity
      <4>1. item[q] \in Item
        BY <1>0 DEF TypeOK
      <4>2. CASE item' = [item EXCEPT ![q].approved = "false"]
        <5> DEFINE x == [item[q] EXCEPT !.approved = "false"]
        <5>1. item' = [item EXCEPT ![q] = x] /\ x.originalOrderQuantity = item[q].originalOrderQuantity
          BY <4>1, <4>2 DEF Item
        <5> QED
          BY <5>1
      <4>3. ASSUME NEW n \in Typed, item' = [item EXCEPT ![q].approved = "true", ![q].orderQuantity = n]
            PROVE  \E x : item' = [item EXCEPT ![q] = x] /\ x.originalOrderQuantity = item[q].originalOrderQuantity
        <5> DEFINE x == [item[q] EXCEPT !.approved = "true", !.orderQuantity = n]
        <5>1. item' = [item EXCEPT ![q] = x] /\ x.originalOrderQuantity = item[q].originalOrderQuantity
          BY <4>1, <4>3 DEF Item
        <5> QED
          BY <5>1
      <4> QED
        BY <2>1, <4>2, <4>3 DEF EditItem
    <3> QED
      BY <1>0, <3>1 DEF TypeOK
  <2> QED
    BY <1>1, <2>1
<1>3. /\ NoLines' = NoLines /\ Untouched' = Untouched
      /\ Recalculated' = Recalculated /\ LinesAreThose' = LinesAreThose
  BY <1>1, <1>2, LinesStay
<1> HIDE <1>2
<1>4. CASE CallGenerate(s)
  <2>1. report'.state = "PROCESSING" /\ report.state = "absent" /\ job' = job
    BY <1>0, <1>4, SetStateEffect, NamesAreStates DEF CallGenerate, StateNames
  <2>2. AsksToGenerate(s)' /\ Untouched'
    BY <1>0, <1>3, <1>4, <2>1, SessionEffects DEF SessionEffect, AsksToGenerate, LinesAreGenerated
  <2>3. \A j \in Jobs : job'[j].pc = "free"
    BY <2>1 DEF OnlyGeneration
  <2> QED
    BY <2>1, <2>2, <2>3 DEF LinesAreGenerated
<1>5. CASE PutOpenedState(s) \/ WritePushingToMSD(s)
  <2>1. session[s].pc # "idle" /\ session[s].pc # "send" /\ job' = job
    BY <1>5 DEF PutOpenedState, WritePushingToMSD
  <2>2. report.state \notin {"absent", "PROCESSING", "PROCESSING_FAILURE"}
    <3>1. \A t \in Sessions : ~AsksToGenerate(t)
      BY <2>1 DEF OnlyGeneration, AsksToGenerate
    <3> QED
      BY <2>1, <3>1 DEF OnlyGeneration, LinesAreGenerated
  <2>3. report'.state \in {"APPROVAL_IN_PROCESS", "PUSHING_TO_MSD"}
    BY <1>0, <1>5, SetStateEffect, NamesAreStates DEF PutOpenedState, WritePushingToMSD, StateNames
  <2>4. \A t \in Sessions : ~AsksToGenerate(t)'
    <3>1. \A t \in Sessions : ~AsksToGenerate(t)
      BY <2>2 DEF OnlyGeneration
    <3>2. CASE PutOpenedState(s)
      BY <1>0, <3>1, <3>2, SessionEffects DEF SessionEffect, OtherSessions, AsksToGenerate
    <3>3. CASE WritePushingToMSD(s)
      <4>1. session[s].op = "transfer"
        BY <1>0, <3>3 DEF WritePushingToMSD, OpsAgree
      <4> QED
        BY <1>0, <3>1, <3>3, <4>1, SessionEffects DEF SessionEffect, OtherSessions, AsksToGenerate
    <3> QED
      BY <1>5, <3>2, <3>3
  <2>5. \A j \in Jobs : ~Generates(j)
    BY <2>2 DEF OnlyGeneration
  <2>6. Recalculated' /\ LinesAreThose'
    BY <1>3, <2>2 DEF LinesAreGenerated
  <2>7. \A j \in Jobs : job[j].op = "generate" => job[j].pc \in {"free"} \union Ended
    BY <2>5 DEF Generates, Active
  <2> QED
    BY <1>0, <2>1, <2>3, <2>4, <2>6, <2>7 DEF LinesAreGenerated, PcSets
<1>6. CASE OpenPage(s) \/ CallCreateTransferOrder(s) \/ \E p \in Products : EditItem(s, p)
  <2>1. job' = job /\ report' = report
    BY <1>6 DEF OpenPage, CallCreateTransferOrder, EditItem
  <2>2. \A t \in Sessions : AsksToGenerate(t)' => AsksToGenerate(t)
    BY <1>0, <1>6, SessionEffects DEF SessionEffect, OtherSessions, AsksToGenerate, EditItem
  <2>3. report.state \notin {"absent", "PROCESSING"}
    <3>1. CASE OpenPage(s) \/ CallCreateTransferOrder(s)
      BY <3>1 DEF OpenPage, CallCreateTransferOrder, MayCreateTransferOrder, Editable
    <3>2. CASE \E p \in Products : EditItem(s, p)
      <4>1. session[s].page
        BY <3>2 DEF EditItem
      <4> QED
        BY <4>1 DEF OnlyGeneration, LinesAreGenerated
    <3> QED
      BY <1>6, <3>1, <3>2
  <2>4. report.state = "PROCESSING_FAILURE" => \A t \in Sessions : session'[t].pc = "idle"
    <3>1. CASE OpenPage(s)
      BY <1>0, <3>1, SessionEffects DEF SessionEffect, OtherSessions, LinesAreGenerated
    <3>2. CASE CallCreateTransferOrder(s)
      BY <3>2 DEF CallCreateTransferOrder, MayCreateTransferOrder
    <3>3. CASE \E p \in Products : EditItem(s, p)
      BY <3>3 DEF EditItem, LinesAreGenerated
    <3> QED
      BY <1>6, <3>1, <3>2, <3>3
  <2> QED
    BY <1>3, <2>1, <2>2, <2>3, <2>4 DEF LinesAreGenerated, Active
<1>7. CASE SendPayLoad(s)
  <2>1. PICK j \in Jobs : job[j].pc = "free" /\ Others(j) /\ job'[j] = NewJob(session[s].op, "queued")
    BY <1>0, <1>7, SendEffect
  <2>2. job'[j].pc = "queued" /\ job'[j].op = session[s].op
    BY <2>1 DEF NewJob
  <2>3. session[s].pc = "send" /\ report' = report /\ session'[s].pc = "idle" /\ OtherSessions(s)
    BY <1>0, <1>7, SessionEffects DEF SendPayLoad, SessionEffect
  <2>4. report.state \notin {"absent", "PROCESSING_FAILURE"}
    BY <2>3 DEF OnlyGeneration, LinesAreGenerated
  <2>5. \A t \in Sessions : AsksToGenerate(t)' => AsksToGenerate(t)
    BY <2>3 DEF OtherSessions, AsksToGenerate
  <2>6. session[s].op = "generate" => Untouched
    BY <2>3 DEF AsksToGenerate, LinesAreGenerated
  <2>7. report.state = "PROCESSING" => Generates(j)'
    <3>1. report.state = "PROCESSING" => AsksToGenerate(s)
      BY <2>3 DEF LinesAreGenerated, OnlyGeneration
    <3> QED
      BY <1>0, <2>2, <3>1 DEF AsksToGenerate, Generates, Active, PcSets
  <2>8. ASSUME NEW k \in Jobs, job'[k].op = "generate"
        PROVE  /\ job'[k].pc \in {"queued", "gen_store", "gen_points"} => Untouched
               /\ job'[k].pc = "gen_lines" => NoLines
               /\ job'[k].pc \in {"gen_lines", "gen_state"} => Recalculated
               /\ job'[k].pc = "gen_state" => LinesAreThose
    <3>1. CASE k = j
      BY <2>2, <2>6, <2>8, <3>1
    <3>2. CASE k # j
      <4>1. job'[k] = job[k]
        BY <2>1, <3>2 DEF Others
      <4> QED
        BY <2>8, <4>1 DEF LinesAreGenerated
    <3> QED
      BY <3>1, <3>2
  <2> QED
    BY <1>3, <2>3, <2>4, <2>5, <2>7, <2>8 DEF LinesAreGenerated
<1>8. CASE SendPayLoadFails(s)
  BY <1>0, <1>8, FaultEffect DEF SendPayLoadFails
<1> QED
  BY <1>4, <1>5, <1>6, <1>7, <1>8 DEF SessionCall, SessionStep

LEMMA LinesKeepInTransfers ==
  ASSUME Control, OnlyGeneration, LinesAreGenerated, NEW j \in Jobs, WorkerStep(j), job[j].op = "transfer",
         faults = 0, faults' = 0
  PROVE  LinesAreGenerated'
<1>0. TypeOK /\ BatchesAreApart /\ NumbersAreNew /\ OpsAgree
  BY DEF Control
<1>1. Active(j) /\ Others(j) /\ session' = session /\ job'[j].op = job[j].op /\ stock' = stock
  BY <1>0, WorkersMove DEF WorkerMoves
<1>2. /\ item' = item /\ point' = point
      /\ report'.state \in {report.state, "PUSHING_TO_MSD", "ERROR_PUSHING_TO_MSD", "FULFILMENT_PENDING"}
  BY WorkersKeep
<1>3. /\ NoLines' = NoLines /\ Untouched' = Untouched
      /\ Recalculated' = Recalculated /\ LinesAreThose' = LinesAreThose
  BY <1>1, <1>2, LinesStay
<1>4. /\ report.state # "absent" /\ report.state # "PROCESSING_FAILURE"
      /\ \A s \in Sessions : ~AsksToGenerate(s)
  BY <1>1 DEF OnlyGeneration, LinesAreGenerated, Active
<1>5. \A k \in Jobs : ~Generates(k)
  <2> TAKE k \in Jobs
  <2>1. k = j => ~Generates(k)
    BY DEF Generates
  <2>2. k # j => ~Generates(k)
    BY <1>1 DEF OnlyGeneration, Active
  <2> QED
    BY <2>1, <2>2
<1>6. report.state # "PROCESSING"
  BY <1>4, <1>5 DEF LinesAreGenerated
<1>7. Recalculated' /\ LinesAreThose'
  BY <1>3, <1>4, <1>6 DEF LinesAreGenerated
<1>8. report'.state \notin {"absent", "PROCESSING", "PROCESSING_FAILURE"}
  BY <1>2, <1>4, <1>6
<1>9. \A k \in Jobs : job'[k].op = "generate" => job'[k] = job[k]
  BY <1>1 DEF Others
<1>10. \A s \in Sessions : ~AsksToGenerate(s)'
  BY <1>1, <1>4 DEF AsksToGenerate
<1> QED
  BY <1>3, <1>7, <1>8, <1>9, <1>10 DEF LinesAreGenerated

LEMMA LinesKeepInGeneration ==
  ASSUME Control, OnlyGeneration, LinesAreGenerated, NEW j \in Jobs, WorkerStep(j), job[j].op = "generate",
         faults = 0, faults' = 0
  PROVE  LinesAreGenerated'
<1>0. PcSets /\ TypeOK /\ BatchesAreApart /\ NumbersAreNew /\ OpsAgree
  BY PcSetsAre DEF Control
<1>1. Active(j) /\ Others(j) /\ session' = session /\ job'[j].op = job[j].op /\ stock' = stock
  BY <1>0, WorkersMove DEF WorkerMoves
<1>2. /\ Generates(j) /\ report.state = "PROCESSING"
      /\ \A s \in Sessions : session[s].pc = "idle"
      /\ \A k \in Jobs \ {j} : job[k].pc = "free"
  BY <1>1 DEF OnlyGeneration, Generates
<1>3. (\A k \in Jobs \ {j} : job'[k].pc = "free") /\ \A s \in Sessions : ~AsksToGenerate(s)'
  BY <1>1, <1>2 DEF Others, AsksToGenerate
<1>4. ~Fault
  BY <1>0, FaultEffect

\* What remains to be shown of an action.
<1>5. ASSUME \/ /\ report' = report /\ job'[j].pc \in GenPcs
                /\ job'[j].pc \in {"queued", "gen_store", "gen_points"} => Untouched'
                /\ job'[j].pc = "gen_lines" => NoLines'
                /\ job'[j].pc \in {"gen_lines", "gen_state"} => Recalculated'
                /\ job'[j].pc = "gen_state" => LinesAreThose'
             \/ report'.state = "GENERATED" /\ job'[j].pc \in Ended /\ Recalculated' /\ LinesAreThose'
             \/ report'.state = "PROCESSING_FAILURE" /\ job'[j].pc \in Ended
      PROVE  LinesAreGenerated'
  <2>1. \A k \in Jobs : job'[k].pc \in {"queued", "gen_store", "gen_points", "gen_lines", "gen_state"} => k = j
    BY <1>3
  <2>2. \A k \in Jobs : k # j => ~Active(k)'
    BY <1>3 DEF Active
  <2>3. CASE report' = report
    <3>1. Generates(j)'
      BY <1>0, <1>1, <1>2, <1>5, <2>3 DEF Generates, Active, PcSets
    <3> QED
      BY <1>0, <1>2, <1>3, <1>5, <2>1, <2>3, <3>1 DEF LinesAreGenerated, PcSets
  <2>4. CASE report'.state = "GENERATED" /\ job'[j].pc \in Ended /\ Recalculated' /\ LinesAreThose'
    BY <1>0, <1>3, <2>1, <2>4 DEF LinesAreGenerated, PcSets
  <2>5. CASE report'.state = "PROCESSING_FAILURE" /\ job'[j].pc \in Ended
    <3>1. \A k \in Jobs : ~Active(k)'
      BY <2>2, <2>5 DEF Active
    <3>2. \A s \in Sessions : session'[s].pc = "idle"
      BY <1>1, <1>2
    <3> QED
      BY <1>0, <1>3, <2>1, <2>5, <3>1, <3>2 DEF LinesAreGenerated, PcSets
  <2> QED
    BY <1>5, <2>3, <2>4, <2>5
<1>6. CASE ReceiveMessage(j)
  <2>1. job[j].pc = "queued" /\ report' = report /\ job'[j].pc = "gen_store" /\ item' = item /\ point' = point
    BY <1>0, <1>6, GotoEffect, NoneGotoEnds DEF ReceiveMessage
  <2>2. Untouched'
    BY <1>1, <2>1, LinesStay DEF LinesAreGenerated
  <2> QED
    BY <1>0, <1>5, <2>1, <2>2 DEF PcSets
<1>7. CASE FindStore(j)
  <2>1. job[j].pc = "gen_store" /\ report' = report /\ job'[j].pc = "gen_points" /\ item' = item /\ point' = point
    BY <1>0, <1>7, GotoEffect, NoneGotoEnds DEF FindStore
  <2>2. Untouched'
    BY <1>1, <2>1, LinesStay DEF LinesAreGenerated
  <2> QED
    BY <1>0, <1>5, <2>1, <2>2 DEF PcSets
<1>8. CASE GenerateReorderPoints(j)
  <2>1. job[j].pc = "gen_points" /\ report' = report /\ job'[j].pc = "gen_lines" /\ item' = item
    BY <1>0, <1>8, GotoEffect, NoneGotoEnds DEF GenerateReorderPoints
  <2>2. Untouched
    BY <2>1 DEF LinesAreGenerated
  <2>3. point' = Points(stock)
    <3>1. PICK updated \in SUBSET ToCalculate(stock) :
            /\ point' = [p \in Products |-> IF p \in updated THEN ReorderPoint(stock, p) ELSE point[p]]
            /\ updated = ToCalculate(stock) \/ Fault
      BY <1>8 DEF GenerateReorderPoints
    <3> QED
      BY <1>4, <2>2, <3>1 DEF Points, Untouched
  <2>4. Recalculated'
    BY <1>1, <2>3 DEF Recalculated
  <2>5. NoLines'
    BY <1>1, <2>1, <2>2 DEF Untouched, NoLines
  <2> QED
    BY <1>0, <1>5, <2>1, <2>4, <2>5 DEF PcSets
<1>9. CASE GenerateStockOrder(j)
  <2>1. job[j].pc = "gen_lines" /\ report' = report /\ point' = point
    BY <1>9 DEF GenerateStockOrder
  <2>2. Goto(j, "gen_error") \/ Goto(j, "gen_state")
    BY <1>9 DEF GenerateStockOrder
  <2>3. job'[j].pc \in {"gen_error", "gen_state"}
    BY <1>0, <2>2, GotoEffect, NoneGotoEnds
  <2>4. NoLines /\ Recalculated
    BY <2>1 DEF LinesAreGenerated
  <2>5. Recalculated'
    BY <1>1, <2>1, <2>4 DEF Recalculated
  <2>6. LinesAreThose'
    <3>1. SaveLineItems(LineItemsToOrder(stock, point))
      BY <1>9 DEF GenerateStockOrder
    <3>2. \A q : [NoItem EXCEPT !.originalOrderQuantity = q, !.orderQuantity = q].originalOrderQuantity = q
      BY DEF NoItem
    <3>3. \A p \in Products : item'[p].originalOrderQuantity =
            IF p \in LineItemsToOrder(stock, point) THEN OrderQuantity(stock, point, p) ELSE 0
      BY <2>4, <3>1, <3>2 DEF SaveLineItems, NoLines
    <3> QED
      BY <1>1, <2>1, <3>3 DEF LinesAreThose
  <2> QED
    BY <1>0, <1>5, <2>1, <2>3, <2>5, <2>6 DEF PcSets
<1>10. CASE SetGenerated(j)
  <2>1. job[j].pc = "gen_state" /\ item' = item /\ point' = point /\ job'[j].pc = "done"
    BY <1>0, <1>10, FinishEffect, NoneGotoEnds DEF SetGenerated
  <2>2. report'.state = "GENERATED"
    BY <1>0, <1>10, SetStateEffect, NamesAreStates DEF SetGenerated, StateNames
  <2>3. Recalculated' /\ LinesAreThose'
    BY <1>1, <2>1, LinesStay DEF LinesAreGenerated
  <2> QED
    BY <1>0, <1>5, <2>1, <2>2, <2>3 DEF PcSets
<1>11. CASE SetProcessingFailure(j)
  <2>1. job'[j].pc = "failed"
    BY <1>0, <1>11, FinishEffect, NoneGotoEnds DEF SetProcessingFailure
  <2>2. report'.state = "PROCESSING_FAILURE"
    BY <1>0, <1>11, SetStateEffect, NamesAreStates DEF SetProcessingFailure, StateNames
  <2> QED
    BY <1>0, <1>5, <2>1, <2>2 DEF PcSets
<1>12. ~Crash(j) /\ ~GiveUp(j) /\ ~GenerateFails(j)
  BY <1>4 DEF Crash, GiveUp, GenerateFails
<1>13. ~TransferStep(j)
  BY <1>0 DEF OpsAgree, TransferStep, FindReport,
    SetPushingToMSD, PostHeader, PostHeaderUnanswered, FindApprovedItems, SendBatchRequest, BatchIsLost,
    UpdatePercentage, BatchesAnswered, SaveTransferOrderNumber, TransferFails, SetErrorPushing, PcSets
<1> QED
  BY <1>6, <1>7, <1>8, <1>9, <1>10, <1>11, <1>12, <1>13 DEF WorkerStep, GenerateStep

LEMMA LinesAreGeneratedKeeps ==
  ASSUME Control, OnlyGeneration, LinesAreGenerated, [Next]_vars
  PROVE  LinesAreGenerated'
<1>0. TypeOK
  BY DEF Control
<1>1. SUFFICES ASSUME faults' = 0 PROVE LinesAreGenerated'
  BY DEF LinesAreGenerated
<1>2. faults = 0
  BY <1>0, <1>1, FaultsStay
<1>3. ASSUME NEW s \in Sessions, SessionCall(s) \/ SessionStep(s) PROVE LinesAreGenerated'
  BY <1>1, <1>2, <1>3, LinesKeepInSessions
<1>4. ASSUME NEW j \in Jobs, WorkerStep(j) PROVE LinesAreGenerated'
  <2>1. job[j].op = "generate" \/ job[j].op = "transfer"
    BY <1>0, JobFields DEF Ops
  <2> QED
    BY <1>1, <1>2, <1>4, <2>1, LinesKeepInTransfers, LinesKeepInGeneration
<1>5. CASE UNCHANGED vars
  BY <1>5 DEF vars, LinesAreGenerated, NoLines, Untouched, Recalculated, LinesAreThose, AsksToGenerate, Generates, Active
<1> QED
  BY <1>3, <1>4, <1>5 DEF Next, WorkerStep

LEMMA GenerationStarts == ASSUME Init PROVE OnlyGeneration /\ LinesAreGenerated
<1>1. /\ \A j \in Jobs : job[j].pc = "free"
      /\ \A s \in Sessions : session[s].pc = "idle" /\ ~session[s].page
      /\ report.state = "absent" /\ report.transferOrderNumber = None
      /\ Untouched
  BY DEF Init, NewJob, Untouched, NoLines, NoItem
<1> QED
  BY <1>1 DEF OnlyGeneration, LinesAreGenerated, AsksToGenerate, Generates, Active

\* An order that was generated without a failure, from the reorder points of today and those
\* that had to be calculated, and whatever happens to it afterwards: an option below its minimum
\* that the warehouse has enough of is filled up to its maximum, and goes beyond it by no
\* more than half a piece for each of its lines unless a reorder point is negative; no other
\* option gets anything, and no line goes beyond the warehouse.
THEOREM OrdersFillOptions == Spec => []OrderFillsOptions
<1>1. Init => Control /\ OnlyGeneration /\ LinesAreGenerated
  BY ControlStarts, GenerationStarts
<1>2. Control /\ OnlyGeneration /\ LinesAreGenerated /\ [Next]_vars
        => Control' /\ OnlyGeneration' /\ LinesAreGenerated'
  BY ControlKeeps, OnlyGenerationKeeps, LinesAreGeneratedKeeps
<1>3. ASSUME Control, LinesAreGenerated PROVE OrderFillsOptions
  <2>1. CASE faults = 0 /\ report.state \notin {"absent", "PROCESSING", "PROCESSING_FAILURE"}
    BY <1>3, <2>1, ThoseLinesFill DEF Control, LinesAreGenerated
  <2>2. CASE ~(faults = 0 /\ report.state \notin {"absent", "PROCESSING", "PROCESSING_FAILURE"})
    BY <2>2 DEF OrderFillsOptions
  <2> QED
    BY <2>1, <2>2
<1> QED
  BY <1>1, <1>2, <1>3, PTL DEF Spec

-----------------------------------------------------------------------------
(* An order has one transfer order *)

\* Why a transfer order is in Dynamics.
Explained(n) ==
  \/ n = report.transferOrderNumber
  \/ n \in seen.unanswered
  \/ \E j \in Jobs : job[j].number = n /\ job[j].pc # "done"

\* What a worker's step does to the transfer orders that are there, and to its number.
LEMMA WorkersPost ==
  ASSUME Control, NEW j \in Jobs, WorkerStep(j)
  PROVE  /\ \A n \in TransferOrders :
              msd'[n].posted => \/ msd[n].posted
                                \/ n \in seen'.unanswered
                                \/ job'[j].number = n /\ job'[j].pc # "done"
         /\ \/ job'[j].number = job[j].number /\ job'[j].pc # "done"
            \/ job[j].number = None
            \/ report'.transferOrderNumber = job[j].number
<1>0. PcSets /\ TypeOK /\ BatchesAreApart /\ NumbersAreNew /\ OpsAgree
  BY PcSetsAre DEF Control
<1>1. CASE \/ ReceiveMessage(j) \/ FindStore(j) \/ GenerateReorderPoints(j) \/ GenerateStockOrder(j)
           \/ GenerateFails(j) \/ FindReport(j) \/ SetPushingToMSD(j) \/ BatchesAnswered(j) \/ TransferFails(j)
  <2>1. PICK pc \in GenPcs \union ToPcs : Goto(j, pc)
    BY <1>0, <1>1 DEF ReceiveMessage, FindStore, GenerateReorderPoints, GenerateStockOrder, GenerateFails,
      FindReport, SetPushingToMSD, BatchesAnswered, TransferFails, PcSets
  <2>2. job'[j].pc = pc /\ job'[j].number = job[j].number
    BY <1>0, <2>1, GotoEffect DEF Pcs
  <2>3. msd' = msd
    BY <1>1 DEF ReceiveMessage, FindStore, GenerateReorderPoints, GenerateStockOrder, GenerateFails,
      FindReport, SetPushingToMSD, BatchesAnswered, TransferFails
  <2> QED
    BY <1>0, <2>2, <2>3 DEF PcSets
<1>2. CASE Crash(j) \/ GiveUp(j) \/ SetProcessingFailure(j) \/ SetErrorPushing(j)
  <2>1. PICK pc \in {"dead", "gave_up", "failed"} : Finish(j, pc)
    BY <1>2 DEF Crash, GiveUp, SetProcessingFailure, SetErrorPushing
  <2>2. job'[j].pc = pc /\ job'[j].number = job[j].number
    BY <1>0, <2>1, FinishEffect, NoneGotoEnds
  <2>3. msd' = msd
    BY <1>2 DEF Crash, GiveUp, SetProcessingFailure, SetErrorPushing
  <2> QED
    BY <2>2, <2>3
<1>3. CASE SetGenerated(j)
  <2>1. msd' = msd /\ job[j].number = None
    BY <1>0, <1>3 DEF SetGenerated, NumbersAreNew, PcSets
  <2> QED
    BY <2>1
<1>4. CASE SaveTransferOrderNumber(j)
  <2>1. msd' = msd /\ report'.transferOrderNumber = job[j].number
    BY <1>0, <1>4 DEF SaveTransferOrderNumber, TypeOK, Report
  <2> QED
    BY <2>1
<1>5. CASE PostHeader(j)
  <2>1. job[j].number = None
    BY <1>0, <1>5 DEF PostHeader, NumbersAreNew
  <2>2. /\ job'[j].pc = "to_lines" /\ job'[j].number \in TransferOrders
        /\ \A m \in TransferOrders : m # job'[j].number => msd'[m] = msd[m]
    BY <1>0, <1>5, PostHeaderEffect, NewTransferOrderEffect
  <2> QED
    BY <2>1, <2>2
<1>6. CASE PostHeaderUnanswered(j)
  <2>1. PICK n \in TransferOrders : NewTransferOrder(n) /\ seen' = [seen EXCEPT !.unanswered = @ \union {n}]
    BY <1>6 DEF PostHeaderUnanswered
  <2>2. n \in seen'.unanswered /\ \A m \in TransferOrders : m # n => msd'[m] = msd[m]
    BY <1>0, <2>1, NewTransferOrderEffect DEF TypeOK
  <2>3. job'[j].pc = "to_error" /\ job'[j].number = job[j].number
    BY <1>0, <1>6, GotoEffect, NoneGotoEnds DEF PostHeaderUnanswered
  <2> QED
    BY <2>2, <2>3
<1>7. CASE FindApprovedItems(j)
  BY <1>0, <1>7, FindApprovedEffect DEF FindApprovedItems
<1>8. CASE SendBatchRequest(j) \/ BatchIsLost(j)
  <2>1. PICK b \in job[j].todo : Pushed(j, b)
    BY <1>0, <1>8, PushEffect
  <2> QED
    BY <1>8, <2>1 DEF Pushed, SendBatchRequest, BatchIsLost
<1>9. CASE UpdatePercentage(j)
  BY <1>0, <1>9, UpdateEffect DEF UpdatePercentage
<1> QED
  BY <1>1, <1>2, <1>3, <1>4, <1>5, <1>6, <1>7, <1>8, <1>9 DEF WorkerStep, GenerateStep, TransferStep

LEMMA OneTransferOrderKeeps ==
  ASSUME Control, OneTransfer, OneTransferOrder, [Next]_vars
  PROVE  OneTransferOrder'
<1>0. PcSets /\ TypeOK /\ BatchesAreApart /\ NumbersAreNew /\ OpsAgree
  BY PcSetsAre DEF Control
<1>a. OneTransferOrder <=> (~seen.overlap => \A n \in TransferOrders : msd[n].posted => Explained(n))
  BY DEF OneTransferOrder, Explained
<1>b. ASSUME ~seen'.overlap => \A n \in TransferOrders : msd'[n].posted => Explained(n)'
      PROVE  OneTransferOrder'
  BY <1>b DEF OneTransferOrder, Explained
<1>1. ASSUME NEW s \in Sessions, SessionCall(s) \/ SessionStep(s), ~seen'.overlap,
             NEW n \in TransferOrders, msd'[n].posted
      PROVE  Explained(n)'
  <2>1. /\ report'.transferOrderNumber = report.transferOrderNumber /\ msd' = msd
        /\ seen'.unanswered = seen.unanswered /\ ~seen.overlap
    <3>1. seen.overlap => seen'.overlap
      BY <1>0, <1>1, SessionsKeep DEF CallCreateTransferOrder, TypeOK
    <3> QED
      BY <1>0, <1>1, <3>1, SessionsKeep, SessionsKeepJobs
  <2>2. Explained(n)
    BY <1>a, <1>1, <2>1
  <2>3. ASSUME NEW j \in Jobs, job[j].number = n PROVE job'[j] = job[j]
    <3>1. job[j].pc # "free"
      BY <1>0, <2>3, MsdOrderAssumption DEF NumbersAreNew
    <3> QED
      BY <1>0, <1>1, <3>1, SessionsKeepJobs, SendEffect DEF Others
  <2> QED
    BY <2>1, <2>2, <2>3 DEF Explained
<1>2. ASSUME NEW j \in Jobs, WorkerStep(j), ~seen'.overlap, NEW n \in TransferOrders, msd'[n].posted
      PROVE  Explained(n)'
  <2>0. ~seen.overlap /\ seen.unanswered \subseteq seen'.unanswered /\ Active(j) /\ Others(j)
    BY <1>0, <1>2, WorkersKeep, WorkersMove DEF WorkerMoves
  <2>1. CASE ~msd[n].posted
    BY <1>2, <2>1, WorkersPost DEF Explained
  <2>2. CASE msd[n].posted
    <3>1. Explained(n)
      BY <1>a, <2>0, <2>2
    <3>2. CASE n = report.transferOrderNumber
      <4>1. ~Transfers(j)
        BY <2>0, <3>2, MsdOrderAssumption DEF OneTransfer
      <4>2. job[j].op # "transfer"
        BY <2>0, <4>1 DEF Transfers
      <4>3. report'.transferOrderNumber = report.transferOrderNumber
        BY <1>0, <1>2, <4>2, WorkersMove DEF WorkerMoves
      <4> QED
        BY <3>2, <4>3 DEF Explained
    <3>3. CASE n \in seen.unanswered
      BY <2>0, <3>3 DEF Explained
    <3>4. ASSUME NEW k \in Jobs, job[k].number = n, job[k].pc # "done" PROVE Explained(n)'
      <4>1. CASE k = j
        BY <1>2, <3>4, <4>1, WorkersPost, MsdOrderAssumption DEF Explained
      <4>2. CASE k # j
        BY <2>0, <3>4, <4>2 DEF Others, Explained
      <4> QED
        BY <4>1, <4>2
    <3> QED
      BY <3>1, <3>2, <3>3, <3>4 DEF Explained
  <2> QED
    BY <2>1, <2>2
<1>3. CASE UNCHANGED vars
  BY <1>3 DEF vars, OneTransferOrder
<1> QED
  BY <1>b, <1>1, <1>2, <1>3 DEF Next, WorkerStep

LEMMA TransferStarts == ASSUME Init PROVE OneTransfer /\ OneTransferOrder
<1>1. /\ \A j \in Jobs : ~Transfers(j)
      /\ \A s \in Sessions : ~AsksToTransfer(s)
      /\ \A n \in TransferOrders : ~msd[n].posted
  BY DEF Init, NewJob, Transfers, AsksToTransfer, Active
<1> QED
  BY <1>1 DEF OneTransfer, OneTransferOrder

\* Every transfer order in Dynamics is the one whose number the order has, one that a
\* worker is making, or one of an attempt that failed; unless two requests were accepted
\* at once.  So a transferred order is not transferred again, whatever was retried.
THEOREM OrdersHaveOneTransferOrder == Spec => []OneTransferOrder
<1>1. Init => Control /\ OneTransfer /\ OneTransferOrder
  BY ControlStarts, TransferStarts
<1>2. Control /\ OneTransfer /\ OneTransferOrder /\ [Next]_vars => Control' /\ OneTransfer' /\ OneTransferOrder'
  BY ControlKeeps, OneTransferKeeps, OneTransferOrderKeeps
<1> QED
  BY <1>1, <1>2, PTL DEF Spec

-----------------------------------------------------------------------------
(* A transfer order has the lines that were approved *)

Wanted(p) == IF item[p].approved = "true" THEN item[p].orderQuantity ELSE 0

\* What has been pushed of the lines that are wanted: nothing, all but the batches that
\* are left, and all.
LinesArePushed ==
  (~seen.lostBatch /\ ~seen.lateEdit /\ ~seen.overlap) =>
    /\ \A j \in Jobs :
         /\ job[j].pc = "to_lines" => \A p \in Products : msd[job[j].number].lines[p] = 0
         /\ job[j].pc = "to_push" =>
              \A p \in Products :
                /\ job[j].quantity[p] = Wanted(p)
                /\ msd[job[j].number].lines[p] = IF p \in UNION job[j].todo THEN 0 ELSE Wanted(p)
         /\ job[j].pc = "to_save" => \A p \in Products : msd[job[j].number].lines[p] = Wanted(p)
    /\ report.transferOrderNumber # None =>
         \A p \in Products : msd[report.transferOrderNumber].lines[p] = Wanted(p)

\* A worker that transfers the order is alone with it, unless requests overlapped.
LEMMA TransfersAlone ==
  ASSUME Control, OneTransfer, ~seen.overlap, NEW j \in Jobs, WorkerStep(j), job[j].op = "transfer"
  PROVE  /\ report.transferOrderNumber = None /\ Others(j) /\ session' = session /\ job'[j].op = "transfer"
         /\ \A k \in Jobs : k # j => ~Transfers(k) /\ job[k].pc \notin ToPcs
         /\ \A s \in Sessions : ~AsksToTransfer(s)
<1>0. PcSets /\ TypeOK /\ BatchesAreApart /\ NumbersAreNew /\ OpsAgree
  BY PcSetsAre DEF Control
<1>1. Active(j) /\ Others(j) /\ session' = session /\ job'[j].op = job[j].op
  BY <1>0, WorkersMove DEF WorkerMoves
<1>2. Transfers(j)
  BY <1>1 DEF Transfers
<1>3. report.transferOrderNumber = None /\ \A s \in Sessions : ~AsksToTransfer(s)
  BY <1>2 DEF OneTransfer
<1>4. ASSUME NEW k \in Jobs, k # j PROVE ~Transfers(k) /\ job[k].pc \notin ToPcs
  <2>1. ~Transfers(k)
    BY <1>2, <1>4 DEF OneTransfer
  <2>2. job[k].pc \in ToPcs => Transfers(k)
    BY <1>0 DEF OpsAgree, Transfers, Active, PcSets
  <2> QED
    BY <2>1, <2>2
<1> QED
  BY <1>1, <1>3, <1>4

\* A worker that generates the order is alone with it.
LEMMA GeneratesAlone ==
  ASSUME Control, OnlyGeneration, NEW j \in Jobs, WorkerStep(j), job[j].op = "generate"
  PROVE  /\ report.transferOrderNumber = None /\ report'.transferOrderNumber = None /\ session' = session
         /\ \A k \in Jobs : job'[k].pc \notin ToPcs
         /\ \A k \in Jobs : k # j => job'[k] = job[k] /\ job[k].pc = "free"
         /\ \A s \in Sessions : session[s].pc = "idle"
         /\ job'[j].op = "generate"
<1>0. PcSets /\ TypeOK /\ BatchesAreApart /\ NumbersAreNew /\ OpsAgree
  BY PcSetsAre DEF Control
<1>1. WorkerMoves(j)
  BY <1>0, WorkersMove
<1>2. Active(j) /\ Others(j) /\ session' = session /\ job'[j].op = job[j].op /\ job'[j].pc \notin ToPcs
  BY <1>0, <1>1 DEF WorkerMoves, PcSets
<1>3. Generates(j)
  BY <1>2 DEF Generates
<1>4. /\ report.transferOrderNumber = None
      /\ \A s \in Sessions : session[s].pc = "idle"
      /\ \A k \in Jobs : k # j => job'[k] = job[k] /\ job[k].pc = "free"
  BY <1>2, <1>3 DEF OnlyGeneration, Others
<1>5. report'.transferOrderNumber = None
  BY <1>1, <1>4 DEF WorkerMoves
<1>6. \A k \in Jobs : job'[k].pc \notin ToPcs
  BY <1>0, <1>2, <1>4 DEF PcSets
<1> QED
  BY <1>2, <1>4, <1>5, <1>6

LEMMA LinesArePushedKeeps ==
  ASSUME Control, OnlyGeneration, OneTransfer, LinesArePushed, [Next]_vars
  PROVE  LinesArePushed'
<1> DEFINE Done(k) ==
             /\ job'[k].pc = "to_lines" => \A p \in Products : msd'[job'[k].number].lines[p] = 0
             /\ job'[k].pc = "to_push" =>
                  \A p \in Products :
                    /\ job'[k].quantity[p] = Wanted(p)'
                    /\ msd'[job'[k].number].lines[p] = IF p \in UNION job'[k].todo THEN 0 ELSE Wanted(p)'
             /\ job'[k].pc = "to_save" => \A p \in Products : msd'[job'[k].number].lines[p] = Wanted(p)'
           Has == report'.transferOrderNumber # None =>
                    \A p \in Products : msd'[report'.transferOrderNumber].lines[p] = Wanted(p)'
<1>0. PcSets /\ TypeOK /\ BatchesAreApart /\ NumbersAreNew /\ OpsAgree
  BY PcSetsAre DEF Control
<1>a. SUFFICES ASSUME ~seen'.lostBatch, ~seen'.lateEdit, ~seen'.overlap PROVE (\A k \in Jobs : Done(k)) /\ Has
  BY DEF LinesArePushed
<1>b. item' = item => \A p \in Products : Wanted(p)' = Wanted(p)
  BY DEF Wanted
<1>1. ASSUME NEW s \in Sessions, SessionCall(s) \/ SessionStep(s) PROVE (\A k \in Jobs : Done(k)) /\ Has
  <2>1. /\ ~seen.lostBatch /\ ~seen.overlap
        /\ report'.transferOrderNumber = report.transferOrderNumber /\ msd' = msd
    <3>1. seen.overlap => seen'.overlap
      BY <1>0, <1>1, SessionsKeep DEF CallCreateTransferOrder, TypeOK
    <3> QED
      BY <1>0, <1>a, <1>1, <3>1, SessionsKeep, SessionsKeepJobs
  <2>2. ASSUME NEW q \in Products, EditItem(s, q) PROVE (\A k \in Jobs : Done(k)) /\ Has
    <3>1. ~Transferring /\ report.transferOrderNumber = None /\ job' = job
      BY <1>0, <1>a, <2>2 DEF EditItem, TypeOK
    <3>2. \A k \in Jobs : ~Transfers(k)
      BY <1>0, <3>1, TransferringIs
    <3>3. \A k \in Jobs : job[k].pc \notin ToPcs
      BY <1>0, <3>2 DEF OpsAgree, Transfers, Active, PcSets
    <3> QED
      BY <1>0, <2>1, <3>1, <3>3 DEF PcSets
  <2>3. CASE ~ \E q \in Products : EditItem(s, q)
    <3>1. item' = item /\ ~seen.lateEdit
      BY <1>0, <1>a, <1>1, <2>3, SessionsKeep
    <3>2. Has
      BY <1>b, <2>1, <3>1 DEF LinesArePushed
    <3>3. ASSUME NEW k \in Jobs PROVE Done(k)
      <4>1. job'[k] = job[k] \/ job'[k].pc = "queued"
        <5>1. CASE job' = job
          BY <5>1
        <5>2. CASE SendPayLoad(s)
          <6>1. PICK i \in Jobs : Others(i) /\ job'[i] = NewJob(session[s].op, "queued")
            BY <1>0, <5>2, SendEffect
          <6>2. job'[i].pc = "queued"
            BY <6>1 DEF NewJob
          <6> QED
            BY <6>1, <6>2 DEF Others
        <5> QED
          BY <1>0, <1>1, <5>1, <5>2, SessionsKeepJobs
      <4>2. CASE job'[k] = job[k]
        BY <1>b, <2>1, <3>1, <4>2 DEF LinesArePushed
      <4> QED
        BY <4>1, <4>2
    <3> QED
      BY <3>2, <3>3
  <2> QED
    BY <2>2, <2>3
<1>2. ASSUME NEW j \in Jobs, WorkerStep(j) PROVE (\A k \in Jobs : Done(k)) /\ Has
  <2>0. ~seen.lostBatch /\ ~seen.lateEdit /\ ~seen.overlap
    BY <1>a, <1>2, WorkersKeep
  <2>1. CASE job[j].op = "generate"
    BY <1>0, <1>2, <2>1, GeneratesAlone DEF PcSets
  <2>2. CASE job[j].op = "transfer"
    <3>1. /\ report.transferOrderNumber = None /\ item' = item
          /\ \A k \in Jobs : k # j => job'[k] = job[k] /\ job[k].pc \notin ToPcs
      BY <1>2, <2>0, <2>2, TransfersAlone, WorkersKeep DEF Others
    <3>2. \A p \in Products : Wanted(p)' = Wanted(p)
      BY <1>b, <3>1
    <3>3. \A k \in Jobs : k # j => Done(k)
      BY <1>0, <3>1 DEF PcSets
    <3>4. CASE \/ ReceiveMessage(j) \/ FindReport(j) \/ SetPushingToMSD(j) \/ PostHeaderUnanswered(j) \/ TransferFails(j)
      <4>1. PICK pc \in {"to_find", "to_state", "to_header", "to_error"} : Goto(j, pc)
        BY <2>2, <3>4 DEF ReceiveMessage, FindReport, SetPushingToMSD, PostHeaderUnanswered, TransferFails
      <4>2. job'[j].pc = pc
        BY <1>0, <4>1, GotoEffect, NoneGotoEnds
      <4>3. report'.transferOrderNumber = None
        BY <1>0, <3>1, <3>4, SetStateEffect, NamesAreStates
        DEF ReceiveMessage, FindReport, SetPushingToMSD, PostHeaderUnanswered, TransferFails, StateNames
      <4> QED
        BY <3>3, <4>2, <4>3
    <3>5. CASE Crash(j) \/ GiveUp(j) \/ SetErrorPushing(j)
      <4>1. PICK pc \in {"dead", "gave_up", "failed"} : Finish(j, pc)
        BY <3>5 DEF Crash, GiveUp, SetErrorPushing
      <4>2. job'[j].pc = pc
        BY <1>0, <4>1, FinishEffect, NoneGotoEnds
      <4>3. report'.transferOrderNumber = None
        BY <1>0, <3>1, <3>5, SetStateEffect, NamesAreStates DEF Crash, GiveUp, SetErrorPushing, StateNames
      <4> QED
        BY <3>3, <4>2, <4>3
    <3>6. CASE PostHeader(j)
      <4>1. /\ job'[j].pc = "to_lines" /\ job'[j].number \in TransferOrders
            /\ ~msd[job'[j].number].posted /\ msd'[job'[j].number].lines = msd[job'[j].number].lines
        BY <1>0, <3>6, PostHeaderEffect, NewTransferOrderEffect
      <4>2. \A p \in Products : msd'[job'[j].number].lines[p] = 0
        BY <1>0, <4>1 DEF NumbersAreNew, Nothing
      <4>3. report'.transferOrderNumber = None
        BY <3>1, <3>6 DEF PostHeader
      <4> QED
        BY <3>3, <4>1, <4>2, <4>3
    <3>7. CASE FindApprovedItems(j)
      <4>1. /\ \A p \in Products : msd[job[j].number].lines[p] = 0
            /\ msd' = msd /\ report'.transferOrderNumber = None
        BY <2>0, <3>1, <3>7 DEF LinesArePushed, FindApprovedItems
      <4>2. job'[j].number = job[j].number
        BY <1>0, <3>7, FindApprovedEffect
      <4>3. CASE job'[j].pc = "to_error"
        BY <3>3, <4>1, <4>3
      <4>4. CASE /\ job'[j].pc = "to_push" /\ UNION job'[j].todo = LinesToPush
                 /\ job'[j].quantity = [p \in Products |-> IF p \in LinesToPush THEN item[p].orderQuantity ELSE 0]
        <5>1. \A p \in Products : /\ job'[j].quantity[p] = Wanted(p)
                                  /\ p \notin UNION job'[j].todo => Wanted(p) = 0
          BY <4>4 DEF LinesToPush, Wanted
        <5>2. \A p \in Products : msd'[job'[j].number].lines[p] = IF p \in UNION job'[j].todo THEN 0 ELSE Wanted(p)
          BY <4>1, <4>2, <5>1
        <5> HIDE DEF Wanted
        <5> QED
          BY <3>2, <3>3, <4>1, <4>4, <5>1, <5>2
      <4> QED
        BY <1>0, <3>7, <4>3, <4>4, FindApprovedEffect
    <3>8. CASE SendBatchRequest(j)
      <4>1. PICK b \in job[j].todo :
              /\ Pushed(j, b)
              /\ \A p \in Products : msd'[job[j].number].lines[p] =
                   IF p \in b THEN job[j].quantity[p] ELSE msd[job[j].number].lines[p]
        BY <1>0, <3>8, PushEffect
      <4>2. job[j].pc = "to_push" /\ report'.transferOrderNumber = None
        BY <3>1, <3>8 DEF SendBatchRequest
      <4>3. /\ job'[j].pc = "to_push" /\ job'[j].number = job[j].number /\ job'[j].quantity = job[j].quantity
            /\ job'[j].todo = job[j].todo \ {b}
        BY <4>1, <4>2 DEF Pushed
      <4>4. \A p \in Products : p \in UNION job'[j].todo <=> p \in UNION job[j].todo /\ p \notin b
        BY <1>0, <4>2, <4>3 DEF BatchesAreApart
      <4>5. \A p \in Products : /\ job[j].quantity[p] = Wanted(p)
                                /\ msd[job[j].number].lines[p] = IF p \in UNION job[j].todo THEN 0 ELSE Wanted(p)
        BY <2>0, <4>2 DEF LinesArePushed
      <4>6. \A p \in Products : msd'[job'[j].number].lines[p] = IF p \in UNION job'[j].todo THEN 0 ELSE Wanted(p)
        BY <4>1, <4>3, <4>4, <4>5
      <4> QED
        BY <3>2, <3>3, <4>2, <4>3, <4>5, <4>6
    <3>9. CASE UpdatePercentage(j)
      <4>1. job[j].pc = "to_push" /\ msd' = msd /\ report'.transferOrderNumber = None
        BY <1>0, <3>1, <3>9, UpdateEffect DEF UpdatePercentage
      <4>2. /\ job'[j].pc = "to_push" /\ job'[j].number = job[j].number /\ job'[j].quantity = job[j].quantity
            /\ job'[j].todo = job[j].todo
        BY <1>0, <3>9, <4>1, UpdateEffect
      <4> QED
        BY <2>0, <3>2, <3>3, <4>1, <4>2 DEF LinesArePushed
    <3>10. CASE BatchesAnswered(j)
      <4>1. /\ job[j].pc = "to_push" /\ job[j].todo = {} /\ msd' = msd /\ report'.transferOrderNumber = None
            /\ job'[j].pc = "to_save" /\ job'[j].number = job[j].number
        BY <1>0, <3>1, <3>10, GotoEffect, NoneGotoEnds DEF BatchesAnswered
      <4> QED
        BY <2>0, <3>2, <3>3, <4>1 DEF LinesArePushed
    <3>11. CASE SaveTransferOrderNumber(j)
      <4>1. job[j].pc = "to_save" /\ msd' = msd /\ report'.transferOrderNumber = job[j].number /\ job'[j].pc = "done"
        BY <1>0, <3>11, FinishEffect, NoneGotoEnds DEF SaveTransferOrderNumber, TypeOK, Report
      <4> QED
        BY <2>0, <3>2, <3>3, <4>1 DEF LinesArePushed
    <3>12. ~BatchIsLost(j)
      BY <1>0, <1>a DEF BatchIsLost, TypeOK
    <3>13. ~GenerateStep(j)
      BY <1>0, <2>2 DEF OpsAgree, GenerateStep, FindStore, GenerateReorderPoints, GenerateStockOrder, GenerateFails,
        SetGenerated, SetProcessingFailure, PcSets
    <3> QED
      BY <1>2, <3>4, <3>5, <3>6, <3>7, <3>8, <3>9, <3>10, <3>11, <3>12, <3>13 DEF WorkerStep, TransferStep
  <2> QED
    BY <1>0, <2>1, <2>2, JobFields DEF Ops
<1>3. CASE UNCHANGED vars
  <2>1. job' = job /\ item' = item /\ msd' = msd /\ report' = report /\ seen' = seen
    BY <1>3 DEF vars
  <2> QED
    BY <1>a, <1>b, <2>1 DEF LinesArePushed
<1> QED
  BY <1>1, <1>2, <1>3 DEF Next, WorkerStep

\* What an attempt has added to the percentage so far.
Counted(j) ==
  (Hundred \div job[j].batches) * (job[j].batches - Cardinality(job[j].todo) - Cardinality(job[j].answered))

Complete == \/ report.percentagePushedToMSD = Hundred
            \/ seen.retry /\ report.percentagePushedToMSD > Hundred

PercentageIsCounted ==
  (~seen.lostBatch /\ ~seen.overlap) =>
    /\ \A j \in Jobs :
         /\ job[j].pc = "to_push" => \/ report.percentagePushedToMSD = Counted(j)
                                     \/ seen.retry /\ report.percentagePushedToMSD > Counted(j)
         /\ job[j].pc = "to_save" => Complete
    /\ report.transferOrderNumber # None => Complete

\* A transfer that is not a retry starts from 0 %.
NothingCounted ==
  (~seen.overlap /\ ~seen.retry) =>
    /\ \A s \in Sessions : AsksToTransfer(s) => report.percentagePushedToMSD = 0
    /\ \A j \in Jobs :
         job[j].op = "transfer" /\ job[j].pc \in {"queued", "to_find", "to_state", "to_header", "to_lines"}
           => report.percentagePushedToMSD = 0
    /\ (\A s \in Sessions : ~AsksToTransfer(s)) /\ (\A j \in Jobs : job[j].op = "transfer" => job[j].pc = "free")
         => report.percentagePushedToMSD = 0

LEMMA NothingCountedKeeps ==
  ASSUME Control, OnlyGeneration, OneTransfer, NothingCounted, [Next]_vars
  PROVE  NothingCounted'
<1> DEFINE Before == {"queued", "to_find", "to_state", "to_header", "to_lines"}
           pct == report.percentagePushedToMSD
<1>0. PcSets /\ TypeOK /\ BatchesAreApart /\ NumbersAreNew /\ OpsAgree
  BY PcSetsAre DEF Control
<1>a. SUFFICES ASSUME ~seen'.overlap, ~seen'.retry
               PROVE  /\ \A s \in Sessions : AsksToTransfer(s)' => pct' = 0
                      /\ \A j \in Jobs : job'[j].op = "transfer" /\ job'[j].pc \in Before => pct' = 0
                      /\ (\A s \in Sessions : ~AsksToTransfer(s)')
                           /\ (\A j \in Jobs : job'[j].op = "transfer" => job'[j].pc = "free")
                           => pct' = 0
  BY DEF NothingCounted
<1>1. ASSUME NEW s \in Sessions, SessionCall(s) \/ SessionStep(s) PROVE NothingCounted'
  <2>1. pct' = pct /\ ~seen.overlap /\ ~seen.retry
    <3>1. (seen.overlap => seen'.overlap) /\ (seen.retry => seen'.retry)
      BY <1>0, <1>1, SessionsKeep DEF CallCreateTransferOrder, TypeOK
    <3> QED
      BY <1>0, <1>a, <1>1, <3>1, SessionsKeep
  <2>2. CASE pct = 0
    BY <2>1, <2>2 DEF NothingCounted
  <2>3. CASE pct # 0
    <3>1. /\ \A t \in Sessions : ~AsksToTransfer(t)
          /\ \A k \in Jobs : job[k].op = "transfer" => job[k].pc \notin Before
          /\ \E k \in Jobs : job[k].op = "transfer" /\ job[k].pc # "free"
      BY <2>1, <2>3 DEF NothingCounted
    <3>2. ~CallCreateTransferOrder(s)
      <4>1. SUFFICES ASSUME CallCreateTransferOrder(s) PROVE FALSE
        OBVIOUS
      <4>2. /\ ~Transferring
            /\ \A k \in Jobs : job[k].op = "transfer" => job[k].pc \notin Ended
        BY <1>0, <1>a, <4>1 DEF CallCreateTransferOrder, TypeOK
      <4>3. \A k \in Jobs : ~Transfers(k)
        BY <1>0, <4>2, TransferringIs
      <4> QED
        BY <3>1, <4>2, <4>3 DEF Transfers, Active
    <3>3. \A t \in Sessions : ~AsksToTransfer(t)'
      <4>1. CASE CallGenerate(s) \/ OpenPage(s) \/ PutOpenedState(s) \/ SendPayLoad(s) \/ SendPayLoadFails(s)
        BY <1>0, <3>1, <4>1, SessionEffects DEF SessionEffect, OtherSessions, AsksToTransfer
      <4>2. CASE WritePushingToMSD(s)
        BY <1>0, <3>1, <4>2 DEF OpsAgree, AsksToTransfer, WritePushingToMSD
      <4>3. CASE \E p \in Products : EditItem(s, p)
        BY <3>1, <4>3 DEF EditItem, AsksToTransfer
      <4> QED
        BY <1>1, <3>2, <4>1, <4>2, <4>3 DEF SessionCall, SessionStep
    <3>4. ASSUME NEW k \in Jobs
          PROVE  /\ job'[k] = job[k] \/ job[k].pc = "free"
                 /\ job'[k] # job[k] => job'[k].op # "transfer"
      <4>1. CASE job' = job
        BY <4>1
      <4>2. CASE SendPayLoad(s)
        <5>1. PICK i \in Jobs : job[i].pc = "free" /\ Others(i) /\ job'[i] = NewJob(session[s].op, "queued")
          BY <1>0, <4>2, SendEffect
        <5>2. job'[i].op = session[s].op /\ session[s].pc = "send"
          BY <4>2, <5>1 DEF NewJob, SendPayLoad
        <5>3. session[s].op # "transfer"
          BY <3>1, <5>2 DEF AsksToTransfer
        <5> QED
          BY <5>1, <5>2, <5>3 DEF Others
      <4> QED
        BY <1>0, <1>1, <4>1, <4>2, SessionsKeepJobs
    <3> QED
      BY <2>1, <3>1, <3>3, <3>4 DEF NothingCounted
  <2> QED
    BY <2>2, <2>3
<1>2. ASSUME NEW j \in Jobs, WorkerStep(j) PROVE NothingCounted'
  <2>0. ~seen.overlap /\ ~seen.retry
    BY <1>a, <1>2, WorkersKeep
  <2>1. CASE job[j].op = "generate"
    <3>1. pct' = pct
      BY <1>2, <2>1, WorkersKeep
    <3>2. /\ session' = session /\ job'[j].op = "generate"
          /\ \A k \in Jobs : k # j => job'[k] = job[k]
      BY <1>2, <2>1, GeneratesAlone
    <3>3. \A k \in Jobs : job'[k].op = "transfer" => job'[k] = job[k]
      BY <3>2
    <3>4. \A k \in Jobs : job[k].op = "transfer" => job'[k] = job[k]
      BY <2>1, <3>2
    <3>5. \A s \in Sessions : AsksToTransfer(s)' <=> AsksToTransfer(s)
      BY <3>2 DEF AsksToTransfer
    <3> QED
      BY <2>0, <3>1, <3>3, <3>4, <3>5 DEF NothingCounted
  <2>2. CASE job[j].op = "transfer"
    <3>1. /\ job'[j].op = "transfer"
          /\ \A k \in Jobs : k # j => job'[k] = job[k] /\ ~Transfers(k)
          /\ \A s \in Sessions : ~AsksToTransfer(s)'
      BY <1>2, <2>0, <2>2, TransfersAlone DEF Others, AsksToTransfer
    <3>2. \A k \in Jobs : k # j => ~(job'[k].op = "transfer" /\ job'[k].pc \in Before)
      BY <1>0, <3>1 DEF Transfers, Active, PcSets
    <3>3. job'[j].pc # "free"
      <4>1. job'[j].pc \in Ended \union GenPcs \union ToPcs
        BY <1>0, <1>2, WorkersMove DEF WorkerMoves
      <4> QED
        BY <1>0, <4>1 DEF PcSets
    <3>4. job'[j].pc \in Before => pct' = 0
      <4>1. CASE ReceiveMessage(j) \/ FindReport(j) \/ SetPushingToMSD(j) \/ PostHeader(j)
        <5>1. job[j].pc \in Before
          BY <4>1 DEF ReceiveMessage, FindReport, SetPushingToMSD, PostHeader
        <5>2. pct' = pct
          BY <1>0, <4>1, SetStateEffect, NamesAreStates
          DEF ReceiveMessage, FindReport, SetPushingToMSD, PostHeader, StateNames
        <5> QED
          BY <2>0, <2>2, <5>1, <5>2 DEF NothingCounted
      <4>2. CASE PostHeaderUnanswered(j) \/ TransferFails(j) \/ BatchesAnswered(j)
        <5>1. job'[j].pc \in {"to_error", "to_save"}
          BY <1>0, <4>2, GotoEffect, NoneGotoEnds DEF PostHeaderUnanswered, TransferFails, BatchesAnswered
        <5> QED
          BY <5>1
      <4>3. CASE Crash(j) \/ GiveUp(j) \/ SetErrorPushing(j) \/ SaveTransferOrderNumber(j)
        <5>1. PICK pc \in {"dead", "gave_up", "failed", "done"} : Finish(j, pc)
          BY <4>3 DEF Crash, GiveUp, SetErrorPushing, SaveTransferOrderNumber
        <5>2. job'[j].pc = pc
          BY <1>0, <5>1, FinishEffect, NoneGotoEnds
        <5> QED
          BY <5>2
      <4>4. CASE FindApprovedItems(j)
        BY <1>0, <4>4, FindApprovedEffect
      <4>5. CASE SendBatchRequest(j) \/ BatchIsLost(j)
        BY <1>0, <4>5, PushEffect DEF Pushed, SendBatchRequest, BatchIsLost
      <4>6. CASE UpdatePercentage(j)
        BY <1>0, <4>6, UpdateEffect DEF UpdatePercentage
      <4>7. ~GenerateStep(j)
        BY <1>0, <2>2 DEF OpsAgree, GenerateStep, FindStore, GenerateReorderPoints, GenerateStockOrder, GenerateFails,
          SetGenerated, SetProcessingFailure, PcSets
      <4> QED
        BY <1>2, <4>1, <4>2, <4>3, <4>4, <4>5, <4>6, <4>7 DEF WorkerStep, TransferStep
    <3> QED
      BY <3>1, <3>2, <3>3, <3>4 DEF NothingCounted
  <2> QED
    BY <1>0, <2>1, <2>2, JobFields DEF Ops
<1>3. ASSUME UNCHANGED vars PROVE NothingCounted'
  BY <1>3 DEF vars, NothingCounted, AsksToTransfer
<1>4. NothingCounted'
  BY <1>1, <1>2, <1>3 DEF Next, WorkerStep
<1> QED
  BY <1>a, <1>4 DEF NothingCounted

LEMMA BatchesAreFinite ==
  ASSUME TypeOK, NEW j \in Jobs
  PROVE  /\ IsFiniteSet(job[j].todo) /\ Cardinality(job[j].todo) \in Nat
         /\ IsFiniteSet(job[j].answered) /\ Cardinality(job[j].answered) \in Nat
<1>1. IsFiniteSet(SUBSET Products)
  BY QuantitiesAssumption, FS_SUBSET
<1>2. IsFiniteSet(job[j].todo) /\ IsFiniteSet(job[j].answered)
  BY <1>1, JobFields, FS_Subset
<1> QED
  BY <1>2, FS_CardinalityType

\* A batch that is answered leaves the percentage to be counted as it was; one that is
\* counted adds its share, and all of them make a hundred.
LEMMA CountedIs ==
  ASSUME TypeOK, BatchesAreApart, NEW j \in Jobs, job[j].pc = "to_push"
  PROVE  /\ (Hundred \div job[j].batches) \in Nat \ {0}
         /\ Counted(j) \in Int
         /\ job[j].todo = {} /\ job[j].answered = {} => Counted(j) = Hundred
<1> DEFINE u == Hundred \div job[j].batches
           n == job[j].batches
           t == Cardinality(job[j].todo)
           a == Cardinality(job[j].answered)
<1>1. n \in 1 .. Cardinality(Products) /\ u \in Nat \ {0} /\ u * n = Hundred
  BY ShareOfBatch DEF BatchesAreApart
<1>2. t \in Nat /\ a \in Nat /\ n \in Nat
  BY BatchesAreFinite, JobFields
<1>3. job[j].todo = {} /\ job[j].answered = {} => t = 0 /\ a = 0
  BY FS_EmptySet
<1> HIDE DEF u, n, t, a
<1>4. u * (n - t - a) \in Int /\ (t = 0 /\ a = 0 => n - t - a = n)
  <2>1. n - t - a \in Int /\ (t = 0 /\ a = 0 => n - t - a = n)
    BY <1>2
  <2> QED
    BY <1>1, <2>1, Distributes
<1>5. t = 0 /\ a = 0 => u * (n - t - a) = Hundred
  BY <1>1, <1>4
<1> QED
  BY <1>1, <1>3, <1>4, <1>5 DEF u, n, t, a, Counted

LEMMA PercentageKeeps ==
  ASSUME Control, OnlyGeneration, OneTransfer, NothingCounted, PercentageIsCounted, [Next]_vars
  PROVE  PercentageIsCounted'
<1> DEFINE pct == report.percentagePushedToMSD
           Done(k) == /\ job'[k].pc = "to_push" => pct' = Counted(k)' \/ (seen'.retry /\ pct' > Counted(k)')
                      /\ job'[k].pc = "to_save" => Complete'
           Has == report'.transferOrderNumber # None => Complete'
<1>0. PcSets /\ TypeOK /\ BatchesAreApart /\ NumbersAreNew /\ OpsAgree
  BY PcSetsAre DEF Control
<1>a. SUFFICES ASSUME ~seen'.lostBatch, ~seen'.overlap PROVE (\A k \in Jobs : Done(k)) /\ Has
  BY DEF PercentageIsCounted
<1>b. ASSUME pct' = pct, seen.retry => seen'.retry
      PROVE  /\ Complete => Complete'
             /\ \A k \in Jobs : job'[k] = job[k] => Counted(k)' = Counted(k)
  BY <1>b DEF Complete, Counted
<1>c. pct \in Nat
  BY <1>0 DEF TypeOK, Report
<1>1. ASSUME NEW s \in Sessions, SessionCall(s) \/ SessionStep(s) PROVE (\A k \in Jobs : Done(k)) /\ Has
  <2>1. /\ ~seen.lostBatch /\ ~seen.overlap /\ (seen.retry => seen'.retry)
        /\ report'.transferOrderNumber = report.transferOrderNumber /\ pct' = pct
    <3>1. (seen.overlap => seen'.overlap) /\ (seen.retry => seen'.retry)
      BY <1>0, <1>1, SessionsKeep DEF CallCreateTransferOrder, TypeOK
    <3> QED
      BY <1>0, <1>a, <1>1, <3>1, SessionsKeep
  <2>2. ASSUME NEW k \in Jobs PROVE Done(k)
    <3>1. job'[k] = job[k] \/ job'[k].pc = "queued"
      <4>1. CASE job' = job
        BY <4>1
      <4>2. CASE SendPayLoad(s)
        <5>1. PICK i \in Jobs : Others(i) /\ job'[i] = NewJob(session[s].op, "queued")
          BY <1>0, <4>2, SendEffect
        <5>2. job'[i].pc = "queued"
          BY <5>1 DEF NewJob
        <5> QED
          BY <5>1, <5>2 DEF Others
      <4> QED
        BY <1>0, <1>1, <4>1, <4>2, SessionsKeepJobs
    <3>2. CASE job'[k] = job[k]
      BY <1>b, <2>1, <3>2 DEF PercentageIsCounted
    <3>3. CASE job'[k].pc = "queued"
      BY <3>3
    <3> QED
      BY <3>1, <3>2, <3>3
  <2>3. Has
    BY <1>b, <2>1 DEF PercentageIsCounted
  <2> QED
    BY <2>2, <2>3
<1>2. ASSUME NEW j \in Jobs, WorkerStep(j) PROVE (\A k \in Jobs : Done(k)) /\ Has
  <2>0. ~seen.lostBatch /\ ~seen.overlap /\ seen'.retry = seen.retry
    BY <1>a, <1>2, WorkersKeep
  <2>1. CASE job[j].op = "generate"
    BY <1>0, <1>2, <2>1, GeneratesAlone DEF PcSets
  <2>2. CASE job[j].op = "transfer"
    <3>1. /\ report.transferOrderNumber = None
          /\ \A k \in Jobs : k # j => job'[k] = job[k] /\ job[k].pc \notin ToPcs
      BY <1>2, <2>0, <2>2, TransfersAlone DEF Others
    <3>2. \A k \in Jobs : k # j => Done(k)
      BY <1>0, <3>1 DEF PcSets
    <3>3. CASE \/ ReceiveMessage(j) \/ FindReport(j) \/ SetPushingToMSD(j) \/ PostHeaderUnanswered(j) \/ TransferFails(j)
      <4>1. PICK pc \in {"to_find", "to_state", "to_header", "to_error"} : Goto(j, pc)
        BY <2>2, <3>3 DEF ReceiveMessage, FindReport, SetPushingToMSD, PostHeaderUnanswered, TransferFails
      <4>2. job'[j].pc = pc
        BY <1>0, <4>1, GotoEffect, NoneGotoEnds
      <4>3. report'.transferOrderNumber = None
        BY <1>0, <3>1, <3>3, SetStateEffect, NamesAreStates
        DEF ReceiveMessage, FindReport, SetPushingToMSD, PostHeaderUnanswered, TransferFails, StateNames
      <4> QED
        BY <3>2, <4>2, <4>3
    <3>4. CASE Crash(j) \/ GiveUp(j) \/ SetErrorPushing(j)
      <4>1. PICK pc \in {"dead", "gave_up", "failed"} : Finish(j, pc)
        BY <3>4 DEF Crash, GiveUp, SetErrorPushing
      <4>2. job'[j].pc = pc
        BY <1>0, <4>1, FinishEffect, NoneGotoEnds
      <4>3. report'.transferOrderNumber = None
        BY <1>0, <3>1, <3>4, SetStateEffect, NamesAreStates DEF Crash, GiveUp, SetErrorPushing, StateNames
      <4> QED
        BY <3>2, <4>2, <4>3
    <3>5. CASE PostHeader(j)
      <4>1. job'[j].pc = "to_lines" /\ report'.transferOrderNumber = None
        BY <1>0, <3>1, <3>5, PostHeaderEffect DEF PostHeader
      <4> QED
        BY <3>2, <4>1
    <3>6. CASE FindApprovedItems(j)
      <4>1. /\ job[j].pc = "to_lines" /\ report'.transferOrderNumber = None /\ pct' = pct
            /\ job[j].answered = {} /\ job'[j].answered = {}
        BY <1>0, <3>1, <3>6, FindApprovedEffect DEF FindApprovedItems, BatchesAreApart
      <4>2. CASE job'[j].pc = "to_error"
        BY <3>2, <4>1, <4>2
      <4>3. CASE /\ job'[j].pc = "to_push" /\ job'[j].batches = Cardinality(job'[j].todo)
                 /\ job'[j].batches \in 1 .. Cardinality(Products)
        <5> DEFINE u == Hundred \div job'[j].batches
                   n == job'[j].batches
        <5>1. u \in Nat
          BY <4>3, ShareOfBatch
        <5>2. n \in Nat
          BY <4>3, QuantitiesAssumption, FS_CardinalityType
        <5>3. Counted(j)' = u * (n - n - 0)
          BY <4>1, <4>3, FS_EmptySet DEF Counted
        <5> HIDE DEF u, n
        <5>4. u * (n - n - 0) = 0
          BY <5>1, <5>2
        <5>5. pct = 0 \/ (seen.retry /\ pct > 0)
          BY <1>c, <2>0, <2>2, <4>1 DEF NothingCounted
        <5> QED
          BY <2>0, <3>2, <4>1, <4>3, <5>3, <5>4, <5>5
      <4> QED
        BY <1>0, <3>6, <4>2, <4>3, FindApprovedEffect
    <3>7. CASE SendBatchRequest(j)
      <4>1. PICK b \in job[j].todo : Pushed(j, b) /\ job'[j].answered = job[j].answered \union {b}
        BY <1>0, <3>7, PushEffect
      <4>2. job[j].pc = "to_push" /\ report' = report
        BY <3>7 DEF SendBatchRequest
      <4>3. b \notin job[j].answered
        BY <1>0, <4>2 DEF BatchesAreApart
      <4>4. /\ Cardinality(job'[j].todo) = Cardinality(job[j].todo) - 1
            /\ Cardinality(job'[j].answered) = Cardinality(job[j].answered) + 1
        <5>1. Cardinality(job[j].todo \ {b}) = Cardinality(job[j].todo) - 1
          BY <1>0, BatchesAreFinite, FS_RemoveElement
        <5>2. Cardinality(job[j].answered \union {b}) = Cardinality(job[j].answered) + 1
          BY <1>0, <4>3, BatchesAreFinite, FS_AddElement
        <5> QED
          BY <4>1, <5>1, <5>2 DEF Pushed
      <4>5. job'[j].batches - Cardinality(job'[j].todo) - Cardinality(job'[j].answered)
              = job[j].batches - Cardinality(job[j].todo) - Cardinality(job[j].answered)
        <5> DEFINE n == job[j].batches
                   t == Cardinality(job[j].todo)
                   a == Cardinality(job[j].answered)
        <5>1. n \in Nat /\ t \in Nat /\ a \in Nat /\ job'[j].batches = n
          BY <1>0, <4>1, BatchesAreFinite, JobFields DEF Pushed
        <5>2. Cardinality(job'[j].todo) = t - 1 /\ Cardinality(job'[j].answered) = a + 1
          BY <4>4
        <5> HIDE DEF n, t, a
        <5>3. n - (t - 1) - (a + 1) = n - t - a
          BY <5>1
        <5> QED
          BY <5>1, <5>2, <5>3 DEF n, t, a
      <4>6. job'[j].pc = "to_push" /\ Counted(j)' = Counted(j)
        BY <4>1, <4>2, <4>5 DEF Pushed, Counted
      <4> QED
        BY <2>0, <3>1, <3>2, <4>2, <4>6 DEF PercentageIsCounted
    <3>8. CASE UpdatePercentage(j)
      <4>1. PICK b \in job[j].answered : job'[j].answered = job[j].answered \ {b}
        BY <1>0, <3>8, UpdateEffect
      <4>2. /\ job[j].pc = "to_push" /\ job'[j].pc = "to_push" /\ report'.transferOrderNumber = None
            /\ job'[j].batches = job[j].batches /\ job'[j].todo = job[j].todo
            /\ pct' = pct + Hundred \div job[j].batches
        BY <1>0, <3>1, <3>8, UpdateEffect DEF UpdatePercentage
      <4> DEFINE u == Hundred \div job[j].batches
                 n == job[j].batches
                 t == Cardinality(job[j].todo)
                 a == Cardinality(job[j].answered)
                 left == n - t - a
      <4>3. u \in Nat \ {0} /\ n \in Nat /\ t \in Nat /\ a \in Nat /\ Counted(j) = u * left /\ Counted(j) \in Int
        BY <1>0, <4>2, CountedIs, BatchesAreFinite, JobFields DEF Counted
      <4>4. Cardinality(job'[j].answered) = a - 1
        BY <1>0, <4>1, BatchesAreFinite, FS_RemoveElement
      <4>5. Counted(j)' = u * (n - t - (a - 1))
        BY <4>2, <4>4 DEF Counted
      <4>6. left \in Int /\ n - t - (a - 1) = left + 1
        BY <4>3
      <4> HIDE DEF u, left, n, t, a
      <4>7. u * (left + 1) = u * left + u
        BY <4>3, <4>6
      <4>8. Counted(j)' = Counted(j) + u
        BY <4>3, <4>5, <4>6, <4>7
      <4>9. pct' = pct + u
        BY <4>2 DEF u
      <4>10. pct = Counted(j) \/ (seen.retry /\ pct > Counted(j))
        BY <2>0, <4>2 DEF PercentageIsCounted
      <4>11. pct' = Counted(j)' \/ (seen.retry /\ pct' > Counted(j)')
        BY <1>c, <4>3, <4>8, <4>9, <4>10
      <4> QED
        BY <2>0, <3>2, <4>2, <4>11
    <3>9. CASE BatchesAnswered(j)
      <4>1. /\ job[j].pc = "to_push" /\ job[j].todo = {} /\ job[j].answered = {} /\ report' = report
            /\ job'[j].pc = "to_save"
        BY <1>0, <3>9, GotoEffect, NoneGotoEnds DEF BatchesAnswered
      <4>2. Complete'
        BY <1>0, <2>0, <4>1, CountedIs DEF PercentageIsCounted, Complete
      <4> QED
        BY <3>1, <3>2, <4>1, <4>2
    <3>10. CASE SaveTransferOrderNumber(j)
      <4>1. job[j].pc = "to_save" /\ pct' = pct /\ job'[j].pc = "done"
        BY <1>0, <3>10, FinishEffect, NoneGotoEnds DEF SaveTransferOrderNumber, TypeOK, Report
      <4>2. Complete'
        BY <1>b, <2>0, <4>1 DEF PercentageIsCounted
      <4> QED
        BY <3>2, <4>1, <4>2
    <3>11. ~BatchIsLost(j)
      BY <1>0, <1>a DEF BatchIsLost, TypeOK
    <3>12. ~GenerateStep(j)
      BY <1>0, <2>2 DEF OpsAgree, GenerateStep, FindStore, GenerateReorderPoints, GenerateStockOrder, GenerateFails,
        SetGenerated, SetProcessingFailure, PcSets
    <3> QED
      BY <1>2, <3>3, <3>4, <3>5, <3>6, <3>7, <3>8, <3>9, <3>10, <3>11, <3>12 DEF WorkerStep, TransferStep
  <2> QED
    BY <1>0, <2>1, <2>2, JobFields DEF Ops
<1>3. CASE UNCHANGED vars
  <2>1. job' = job /\ report' = report /\ seen' = seen
    BY <1>3 DEF vars
  <2> QED
    BY <1>a, <2>1 DEF PercentageIsCounted, Counted, Complete
<1> QED
  BY <1>1, <1>2, <1>3 DEF Next, WorkerStep

LEMMA PushStarts == ASSUME Init PROVE LinesArePushed /\ NothingCounted /\ PercentageIsCounted
<1>1. /\ \A j \in Jobs : job[j].pc = "free"
      /\ report.transferOrderNumber = None /\ report.percentagePushedToMSD = 0
  BY DEF Init, NewJob
<1> QED
  BY <1>1 DEF LinesArePushed, NothingCounted, PercentageIsCounted

\* The transfer order whose number an order has, has the lines that are approved and no
\* others, with their quantities, and all of them were counted as pushed; unless a batch
\* was lost, an item was changed on a page opened before, or two requests were accepted at
\* once.  The batches of a push may be sent, answered and counted in any order.
THEOREM TransferOrdersHaveTheLines == Spec => []TransferOrderHasTheLines
<1> DEFINE Inv == /\ Control /\ OnlyGeneration /\ OneTransfer
                  /\ LinesArePushed /\ NothingCounted /\ PercentageIsCounted
<1>1. Init => Inv
  BY ControlStarts, GenerationStarts, TransferStarts, PushStarts
<1>2. Inv /\ [Next]_vars => Inv'
  BY ControlKeeps, OnlyGenerationKeeps, OneTransferKeeps, LinesArePushedKeeps, NothingCountedKeeps, PercentageKeeps
<1>3. Inv => TransferOrderHasTheLines
  BY DEF LinesArePushed, PercentageIsCounted, Complete, Wanted, TransferOrderHasTheLines
<1> QED
  BY <1>1, <1>2, <1>3, PTL DEF Spec
=============================================================================
