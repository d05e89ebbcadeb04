---------------------------- MODULE FiniteOrders ----------------------------
(***************************************************************************)
(* Facts about finite sets with an order that the proofs about several     *)
(* components rest on: the least element of a total order, Max and Min of  *)
(* the community modules.                                                  *)
(***************************************************************************)
EXTENDS Integers, FiniteSets, FiniteSetsExt, FiniteSetTheorems,
        FunctionTheorems, WellFoundedInduction, TLAPS

(* A finite set has a first element under any transitive total relation: a *)
(* smallest set without one would lose an element and still have none.     *)
LEMMA FirstOfFinite ==
  ASSUME NEW S, IsFiniteSet(S), S # {}, NEW R,
         \A x, y \in S : <<x, y>> \in R \/ <<y, x>> \in R,
         \A x, y, z \in S : <<x, y>> \in R /\ <<y, z>> \in R => <<x, z>> \in R
  PROVE  \E x \in S : \A y \in S : <<x, y>> \in R
<1> DEFINE First(T) == \E x \in T : \A y \in T : <<x, y>> \in R
           Bad == {T \in FiniteSubsetsOf(S) : T # {} /\ ~First(T)}
<1>1. SUFFICES ASSUME Bad # {} PROVE FALSE
  BY DEF FiniteSubsetsOf
<1>2. PICK T \in Bad : \A U \in Bad : <<U, T>> \notin StrictSubsetOrdering(S)
  <2>1. IsWellFoundedOn(StrictSubsetOrdering(S), FiniteSubsetsOf(S))
    BY FS_StrictSubsetOrderingWellFounded
  <2>2. Bad \subseteq FiniteSubsetsOf(S)
    OBVIOUS
  <2> HIDE DEF Bad
  <2> QED
    BY <1>1, <2>1, <2>2, WFMin
<1>3. T \subseteq S /\ IsFiniteSet(T) /\ T # {} /\ ~First(T)
  BY DEF FiniteSubsetsOf
<1>4. PICK t \in T : TRUE
  BY <1>3
<1> DEFINE U == T \ {t}
<1>5. U \subseteq S /\ IsFiniteSet(U) /\ <<U, T>> \in StrictSubsetOrdering(S)
  BY <1>3, <1>4, FS_RemoveElement DEF StrictSubsetOrdering
<1>6. U = {} \/ First(U)
  BY <1>2, <1>5 DEF FiniteSubsetsOf
<1>7. CASE U = {}
  BY <1>3, <1>4, <1>7
<1>8. CASE First(U)
  <2>1. PICK u \in U : \A y \in U : <<u, y>> \in R
    BY <1>8
  <2>2. \A y \in T : y = t \/ y \in U
    OBVIOUS
  <2>3. t \in S /\ u \in S /\ <<t, t>> \in R /\ (<<u, t>> \in R \/ <<t, u>> \in R)
    BY <1>3, <1>4, <2>1
  <2>4. CASE <<u, t>> \in R
    BY <1>3, <2>1, <2>2, <2>4
  <2>5. CASE <<t, u>> \in R
    <3>1. \A y \in U : <<t, y>> \in R
      BY <1>3, <2>1, <2>3, <2>5
    <3> QED
      BY <1>3, <1>4, <2>2, <2>3, <3>1
  <2> QED
    BY <2>3, <2>4, <2>5
<1> QED
  BY <1>6, <1>7, <1>8

\* A part of a finite set is finite.
LEMMA SubsetIsFinite ==
  ASSUME NEW S, IsFiniteSet(S), NEW T, T \subseteq S
  PROVE  IsFiniteSet(T)
BY FS_Subset

\* A finite prefix of the numbers is finite.
LEMMA UpToIsFinite == ASSUME NEW n \in Nat PROVE IsFiniteSet(1..n)
BY FS_Interval

(* Four values make a set of four only when they differ.                   *)
LEMMA FourApart ==
  ASSUME NEW p, NEW q, NEW r, NEW s, Cardinality({p, q, r, s}) = 4
  PROVE  p # q /\ p # r /\ p # s /\ q # r /\ q # s /\ r # s
<1>1. \A u, v, w : Cardinality({u, v, w}) \in Nat /\ Cardinality({u, v, w}) <= 3
  <2>1. ASSUME NEW u, NEW v, NEW w
        PROVE  Cardinality({u, v, w}) \in Nat /\ Cardinality({u, v, w}) <= 3
    <3>1. IsFiniteSet({u}) /\ Cardinality({u}) = 1
      BY FS_Singleton
    <3>2. IsFiniteSet({u} \union {v}) /\ Cardinality({u} \union {v}) \in 1..2
      <4>1. IsFiniteSet({u} \union {v})
        BY <3>1, FS_AddElement
      <4>2. CASE v \in {u}
        <5>1. {u} \union {v} = {u}
          BY <4>2
        <5> QED
          BY <3>1, <5>1
      <4>3. CASE v \notin {u}
        <5>1. Cardinality({u} \union {v}) = Cardinality({u}) + 1
          BY <3>1, <4>3, FS_AddElement
        <5> QED
          BY <3>1, <4>1, <5>1
      <4> QED
        BY <4>2, <4>3
    <3>3. Cardinality(({u} \union {v}) \union {w}) \in 1..3
      BY <3>2, FS_AddElement
    <3>4. {u, v, w} = ({u} \union {v}) \union {w}
      OBVIOUS
    <3> QED
      BY <3>3, <3>4
  <2> QED
    BY <2>1
<1>2. \A u, v, w : Cardinality({u, v, w}) # 4
  <2>1. \A n \in Nat : n <= 3 => n # 4
    OBVIOUS
  <2> QED
    BY <1>1, <2>1
<1>3. ~ \E u, v, w : {p, q, r, s} = {u, v, w}
  BY <1>2
<1>4. ASSUME p = q \/ p = r \/ p = s \/ q = r \/ q = s \/ r = s
      PROVE  \E u, v, w : {p, q, r, s} = {u, v, w}
  <2>1. CASE p = q \/ p = r \/ p = s
    <3>1. {p, q, r, s} = {q, r, s}
      BY <2>1
    <3> QED
      BY <3>1
  <2>2. CASE q = r \/ q = s
    <3>1. {p, q, r, s} = {p, r, s}
      BY <2>2
    <3> QED
      BY <3>1
  <2>3. CASE r = s
    <3>1. {p, q, r, s} = {p, q, s}
      BY <2>3
    <3> QED
      BY <3>1
  <2> QED
    BY <1>4, <2>1, <2>2, <2>3
<1> QED
  BY <1>3, <1>4


(* Of a part of three values, the parity is told by which it holds.        *)
LEMMA ParityOfThree ==
  ASSUME NEW p, NEW q, NEW r, p # q, p # r, q # r, NEW S, S \subseteq {p, q, r}
  PROVE  (Cardinality(S) % 2 = 1) <=>
            \/ p \in S /\ q \notin S /\ r \notin S
            \/ p \notin S /\ q \in S /\ r \notin S
            \/ p \notin S /\ q \notin S /\ r \in S
            \/ p \in S /\ q \in S /\ r \in S
<1>1. \A u : Cardinality({u}) = 1 /\ IsFiniteSet({u})
  BY FS_Singleton
<1>2. \A u, v : u # v => Cardinality({u, v}) = 2 /\ IsFiniteSet({u, v})
  <2>1. ASSUME NEW u, NEW v, u # v
        PROVE  Cardinality({u, v}) = 2 /\ IsFiniteSet({u, v})
    <3>1. {u, v} = {u} \union {v} /\ v \notin {u}
      BY <2>1
    <3>2. IsFiniteSet({u} \union {v}) /\ Cardinality({u} \union {v}) = Cardinality({u}) + 1
      BY <1>1, <3>1, FS_AddElement
    <3> QED
      BY <1>1, <3>1, <3>2
  <2> QED
    BY <2>1
<1>3. Cardinality({p, q, r}) = 3
  <2>1. {p, q, r} = {p, q} \union {r} /\ r \notin {p, q}
    OBVIOUS
  <2>2. Cardinality({p, q} \union {r}) = Cardinality({p, q}) + 1
    BY <1>2, <2>1, FS_AddElement
  <2> QED
    BY <1>2, <2>1, <2>2
<1>4. Cardinality({}) = 0
  BY FS_EmptySet
<1>5. 0 % 2 = 0 /\ 1 % 2 = 1 /\ 2 % 2 = 0 /\ 3 % 2 = 1
  OBVIOUS
<1>6. CASE p \in S
  <2>1. CASE q \in S /\ r \in S
    <3>1. S = {p, q, r}
      BY <1>6, <2>1
    <3> QED
      BY <1>3, <1>5, <1>6, <2>1, <3>1
  <2>2. CASE q \in S /\ r \notin S
    <3>1. S = {p, q}
      BY <1>6, <2>2
    <3>2. Cardinality(S) = 2
      BY <1>2, <3>1
    <3>3. Cardinality(S) % 2 # 1
      BY <1>5, <3>2
    <3> QED
      BY <1>6, <2>2, <3>3
  <2>3. CASE q \notin S /\ r \in S
    <3>1. S = {p, r}
      BY <1>6, <2>3
    <3>2. Cardinality(S) = 2
      BY <1>2, <3>1
    <3>3. Cardinality(S) % 2 # 1
      BY <1>5, <3>2
    <3> QED
      BY <1>6, <2>3, <3>3
  <2>4. CASE q \notin S /\ r \notin S
    <3>1. S = {p}
      BY <1>6, <2>4
    <3> QED
      BY <1>1, <1>5, <1>6, <2>4, <3>1
  <2> QED
    BY <2>1, <2>2, <2>3, <2>4
<1>7. CASE p \notin S
  <2>1. CASE q \in S /\ r \in S
    <3>1. S = {q, r}
      BY <1>7, <2>1
    <3> QED
      BY <1>2, <1>5, <1>7, <2>1, <3>1
  <2>2. CASE q \in S /\ r \notin S
    <3>1. S = {q}
      BY <1>7, <2>2
    <3> QED
      BY <1>1, <1>5, <1>7, <2>2, <3>1
  <2>3. CASE q \notin S /\ r \in S
    <3>1. S = {r}
      BY <1>7, <2>3
    <3> QED
      BY <1>1, <1>5, <1>7, <2>3, <3>1
  <2>4. CASE q \notin S /\ r \notin S
    <3>1. S = {}
      BY <1>7, <2>4
    <3> QED
      BY <1>4, <1>5, <1>7, <2>4, <3>1
  <2> QED
    BY <2>1, <2>2, <2>3, <2>4
<1> QED
  BY <1>6, <1>7

(* A set of three with three members known is made of these.               *)
LEMMA ThreeOfThree ==
  ASSUME NEW S, Cardinality(S) = 3, IsFiniteSet(S),
         NEW p \in S, NEW q \in S, NEW r \in S, p # q, p # r, q # r
  PROVE  S = {p, q, r}
<1>1. IsFiniteSet(S \ {p}) /\ Cardinality(S \ {p}) = 2
  BY FS_RemoveElement
<1>2. IsFiniteSet((S \ {p}) \ {q}) /\ Cardinality((S \ {p}) \ {q}) = 1
  BY <1>1, FS_RemoveElement
<1>3. PICK x : (S \ {p}) \ {q} = {x}
  BY <1>2, FS_Singleton
<1> QED
  BY <1>3



(* What a function makes of a finite set is finite.                        *)
LEMMA ImageIsFinite ==
  ASSUME NEW S, IsFiniteSet(S), NEW f
  PROVE  IsFiniteSet({f[x] : x \in S}) /\ Cardinality({f[x] : x \in S}) <= Cardinality(S)
<1> DEFINE T == {f[x] : x \in S}
           g == [x \in S |-> f[x]]
<1>1. g \in Surjection(S, T)
  <2>1. g \in [S -> T] /\ \A t \in T : \E s \in S : g[s] = t
    OBVIOUS
  <2> QED
    BY <2>1, Fun_IsSurj
<1> QED
  BY <1>1, FS_Surjection

ValuesOn(f, S) == {f[x] : x \in S}

(* A function with one value gives it everywhere.                          *)
LEMMA OneValue ==
  ASSUME NEW f, NEW S, IsFiniteSet(S), Cardinality(ValuesOn(f, S)) = 1
  PROVE  \A p, q \in S : f[p] = f[q]
<1>1. IsFiniteSet(ValuesOn(f, S))
  BY ImageIsFinite DEF ValuesOn
<1>2. PICK v : ValuesOn(f, S) = {v}
  BY <1>1, FS_Singleton
<1> QED
  BY <1>2 DEF ValuesOn

(* ... and of the same size when it tells the elements apart.              *)
LEMMA ImageIsAsLarge ==
  ASSUME NEW S, IsFiniteSet(S), NEW f, \A x, y \in S : f[x] = f[y] => x = y
  PROVE  Cardinality({f[x] : x \in S}) = Cardinality(S)
<1> DEFINE T == {f[x] : x \in S}
           g == [x \in S |-> f[x]]
<1>1. g \in [S -> T] /\ \A t \in T : \E s \in S : g[s] = t
  OBVIOUS
<1>2. g \in Surjection(S, T)
  BY <1>1, Fun_IsSurj
<1>3. \A x, y \in S : g[x] = g[y] => x = y
  OBVIOUS
<1>4. g \in Injection(S, T)
  BY <1>1, <1>3, Fun_IsInj
<1> QED
  BY <1>2, <1>4, FS_Surjection

(* A finite set has at least the size of its parts.                        *)
LEMMA PartIsNoLarger ==
  ASSUME NEW T, IsFiniteSet(T), NEW S, S \subseteq T
  PROVE  /\ Cardinality(S) \in Nat /\ Cardinality(T) \in Nat
         /\ Cardinality(S) <= Cardinality(T)
BY FS_Subset, FS_CardinalityType

\* A finite union of finite sets is finite.
LEMMA UnionIsFinite ==
  ASSUME NEW F, IsFiniteSet(F), \A T \in F : IsFiniteSet(T)
  PROVE  IsFiniteSet(UNION F)
BY FS_UNION

\* A set of at most one element is finite.
LEMMA AtMostOneIsFinite ==
  ASSUME NEW S, S = {} \/ \E x : S = {x}
  PROVE  IsFiniteSet(S)
BY FS_EmptySet, FS_Singleton

\* So is one of four.
LEMMA FourAreFinite == ASSUME NEW p, NEW q, NEW r, NEW s PROVE IsFiniteSet({p, q, r, s})
<1>1. IsFiniteSet({p} \union {q})
  BY FS_Singleton, FS_AddElement
<1>2. IsFiniteSet(({p} \union {q}) \union {r})
  BY <1>1, FS_AddElement
<1>3. IsFiniteSet((({p} \union {q}) \union {r}) \union {s})
  BY <1>2, FS_AddElement
<1>4. {p, q, r, s} = (({p} \union {q}) \union {r}) \union {s}
  OBVIOUS
<1> QED
  BY <1>3, <1>4

\* A finite set of integers has its maximum.
LEMMA MaxOfFinite ==
  ASSUME NEW S \in SUBSET Int, IsFiniteSet(S), S # {}
  PROVE  Max(S) \in S /\ \A y \in S : y <= Max(S)
<1> DEFINE R == {p \in S \X S : p[1] >= p[2]}
<1>1. \A x, y \in S : <<x, y>> \in R <=> x >= y
  OBVIOUS
<1>2. /\ \A x, y \in S : <<x, y>> \in R \/ <<y, x>> \in R
      /\ \A x, y, z \in S : <<x, y>> \in R /\ <<y, z>> \in R => <<x, z>> \in R
  BY <1>1
<1> HIDE DEF R
<1>3. \E x \in S : \A y \in S : <<x, y>> \in R
  BY <1>2, FirstOfFinite
<1>4. \E x \in S : \A y \in S : x >= y
  BY <1>1, <1>3
<1> QED
  BY <1>4 DEF Max

\* A finite set of integers has its minimum.
LEMMA MinOfFinite ==
  ASSUME NEW S \in SUBSET Int, IsFiniteSet(S), S # {}
  PROVE  Min(S) \in S /\ \A y \in S : Min(S) <= y
<1> DEFINE R == {p \in S \X S : p[1] <= p[2]}
<1>1. \A x, y \in S : <<x, y>> \in R <=> x <= y
  OBVIOUS
<1>2. /\ \A x, y \in S : <<x, y>> \in R \/ <<y, x>> \in R
      /\ \A x, y, z \in S : <<x, y>> \in R /\ <<y, z>> \in R => <<x, z>> \in R
  BY <1>1
<1> HIDE DEF R
<1>3. \E x \in S : \A y \in S : <<x, y>> \in R
  BY <1>2, FirstOfFinite
<1>4. \E x \in S : \A y \in S : x <= y
  BY <1>1, <1>3
<1> QED
  BY <1>4 DEF Min

(* What holds of 0 and goes on from each number to the next up to n holds  *)
(* of all of them: the first it fails for would have one before it.        *)
LEMMA InductionUpTo ==
  ASSUME NEW n \in Nat, NEW S, 0 \in S, \A k \in 1..n : k - 1 \in S => k \in S
  PROVE  0..n \subseteq S
<1> DEFINE Bad == {k \in 0..n : k \notin S}
<1>1. SUFFICES ASSUME Bad # {} PROVE FALSE
  OBVIOUS
<1>2. Bad \in SUBSET Int /\ Bad \subseteq 0..n
  BY SMT
<1>3. IsFiniteSet(0..n)
  BY FS_Interval
<1>4. IsFiniteSet(Bad)
  BY <1>2, <1>3, FS_Subset
<1> DEFINE m == Min(Bad)
<1>5. m \in Bad /\ \A y \in Bad : m <= y
  <2> HIDE DEF Bad
  <2> QED
    BY <1>1, <1>2, <1>4, MinOfFinite
<1>6. m \in 1..n /\ m - 1 \in 0..n
  <2> HIDE DEF m
  <2> QED
    BY <1>5
<1>7. m - 1 \in Bad
  BY <1>5, <1>6
<1> HIDE DEF m
<1> QED
  BY <1>5, <1>6, <1>7

StepsWithin(n, V, a, g) == n \in Nat /\ a \in V /\ g \in [1..n -> [V -> V]]
Solves(f, n, V, a, g) ==
    /\ f \in [0..n -> V]
    /\ f[0] = a
    /\ \A k \in 1..n : f[k] = g[k][f[k - 1]]

(* A recursion over the numbers up to n has a solution: the values so far  *)
(* are extended by one step of it.                                         *)
LEMMA RecursionUpTo ==
  ASSUME NEW n, NEW V, NEW a, NEW g, StepsWithin(n, V, a, g)
  PROVE  \E f : Solves(f, n, V, a, g)
<1> USE DEF StepsWithin
<1> DEFINE Until(f, m) == f[0] = a /\ \A k \in 1..m : f[k] = g[k][f[k - 1]]
           S == {m \in 0..n : \E f \in [0..m -> V] : Until(f, m)}
<1>1. 0 \in S
  <2> DEFINE f == [k \in 0..0 |-> a]
  <2>1. f \in [0..0 -> V] /\ Until(f, 0)
    OBVIOUS
  <2> HIDE DEF f, Until
  <2>2. 0 \in 0..n
    OBVIOUS
  <2> QED
    BY <2>1, <2>2
<1>2. ASSUME NEW m \in 1..n, m - 1 \in S
      PROVE  m \in S
  <2>1. PICK f \in [0..m - 1 -> V] : Until(f, m - 1)
    BY <1>2
  <2> DEFINE h == [k \in 0..m |-> IF k = m THEN g[m][f[m - 1]] ELSE f[k]]
  <2>2. m - 1 \in 0..m - 1 /\ f[m - 1] \in V
    BY <2>1
  <2>3. g[m][f[m - 1]] \in V
    BY <2>2
  <2>4. h \in [0..m -> V]
    BY <2>1, <2>3
  <2>5. \A k \in 0..m - 1 : k \in 0..m /\ k # m /\ h[k] = f[k]
    OBVIOUS
  <2>6. h[m] = g[m][h[m - 1]]
    <3>1. m \in 0..m /\ h[m - 1] = f[m - 1]
      BY <2>2, <2>5
    <3> QED
      BY <3>1
  <2>7. h[0] = a
    BY <2>1, <2>5
  <2>8. \A k \in 1..m : h[k] = g[k][h[k - 1]]
    <3>1. ASSUME NEW k \in 1..m, k # m
          PROVE  h[k] = g[k][h[k - 1]]
      <4>1. k \in 1..m - 1 /\ k \in 0..m - 1 /\ k - 1 \in 0..m - 1
        BY <3>1
      <4>2. f[k] = g[k][f[k - 1]]
        BY <2>1, <4>1
      <4> QED
        BY <2>5, <4>1, <4>2
    <3> HIDE DEF h
    <3> QED
      BY <2>6, <3>1
  <2> HIDE DEF h
  <2>9. Until(h, m) /\ m \in 0..n
    BY <2>7, <2>8
  <2> HIDE DEF Until
  <2> QED
    BY <2>4, <2>9
<1>3. 0..n \subseteq S
  <2> HIDE DEF S
  <2> QED
    BY <1>1, <1>2, InductionUpTo
<1>4. n \in S
  <2> HIDE DEF S
  <2>1. n \in 0..n
    OBVIOUS
  <2> QED
    BY <1>3, <2>1
<1> QED
  BY <1>4 DEF Solves

RankedBy(S, R, rank) ==
    /\ IsFiniteSet(S)
    /\ \A x \in S : <<x, x>> \notin R
    /\ \A x, y \in S : x # y => <<x, y>> \in R \/ <<y, x>> \in R
    /\ \A x, y, z \in S : <<x, y>> \in R /\ <<y, z>> \in R => <<x, z>> \in R
    /\ \A x \in S : rank[x] = Cardinality({y \in S : <<y, x>> \in R})
ExactRanks(S, R, rank) ==
    /\ Cardinality(S) \in Nat
    /\ \A x \in S : rank[x] \in Nat /\ rank[x] + 1 \in 1..Cardinality(S)
    /\ \A x, y \in S : <<x, y>> \in R <=> rank[x] < rank[y]
    /\ \A x, y \in S : rank[x] = rank[y] => x = y
    /\ \A n \in 1..Cardinality(S) : \E x \in S : rank[x] = n - 1

(* In a finite strict order the number of elements below one tells them    *)
(* apart, grows along the order, and takes every value there is room for.  *)
LEMMA RanksAreExact ==
  ASSUME NEW S, NEW R, NEW rank, RankedBy(S, R, rank)
  PROVE  ExactRanks(S, R, rank)
<1> USE DEF RankedBy
<1> DEFINE Below(x) == {y \in S : <<y, x>> \in R}
           N == Cardinality(S)
<1>1. N \in Nat
  BY FS_CardinalityType
<1>2. \A x \in S : rank[x] = Cardinality(Below(x)) /\ IsFiniteSet(Below(x)) /\ rank[x] \in Nat
  <2>1. ASSUME NEW x \in S
        PROVE  IsFiniteSet(Below(x)) /\ Cardinality(Below(x)) \in Nat
    BY FS_Subset, FS_CardinalityType
  <2> QED
    BY <2>1
<1>3. ASSUME NEW x \in S, NEW T, IsFiniteSet(T), Below(x) \subseteq T, x \in T
      PROVE  rank[x] + 1 <= Cardinality(T)
  <2>1. x \notin Below(x)
    OBVIOUS
  <2>2. Cardinality(Below(x) \union {x}) = rank[x] + 1
    <3>1. IsFiniteSet(Below(x)) /\ Cardinality(Below(x)) = rank[x]
      BY <1>2
    <3> HIDE DEF Below
    <3> QED
      BY <2>1, <3>1, FS_AddElement
  <2>3. Below(x) \union {x} \subseteq T
    BY <1>3
  <2> HIDE DEF Below
  <2> QED
    BY <1>3, <2>2, <2>3, PartIsNoLarger
<1>4. \A x \in S : rank[x] + 1 <= N
  <2>1. \A x \in S : Below(x) \subseteq S
    OBVIOUS
  <2> HIDE DEF Below
  <2> QED
    BY <1>3, <2>1
<1>5. ASSUME NEW x \in S, NEW y \in S, <<x, y>> \in R
      PROVE  rank[x] < rank[y]
  <2>1. Below(x) \subseteq Below(y) /\ x \in Below(y)
    BY <1>5
  <2> HIDE DEF Below
  <2> QED
    BY <1>2, <1>3, <2>1
<1>6. \A x, y \in S : rank[x] = rank[y] => x = y
  <2>1. ASSUME NEW x \in S, NEW y \in S, x # y
        PROVE  rank[x] # rank[y]
    <3>1. <<x, y>> \in R \/ <<y, x>> \in R
      BY <2>1
    <3>2. rank[x] < rank[y] \/ rank[y] < rank[x]
      BY <1>5, <3>1
    <3>3. rank[x] \in Nat /\ rank[y] \in Nat
      BY <1>2
    <3> QED
      BY <3>2, <3>3
  <2> QED
    BY <2>1
<1>7. \A x, y \in S : <<x, y>> \in R <=> rank[x] < rank[y]
  <2>1. ASSUME NEW x \in S, NEW y \in S, rank[x] < rank[y]
        PROVE  <<x, y>> \in R
    <3>1. rank[x] \in Nat /\ rank[y] \in Nat
      BY <1>2
    <3>2. x # y /\ ~(rank[y] < rank[x])
      BY <2>1, <3>1
    <3> QED
      BY <1>5, <3>2
  <2> QED
    BY <1>5, <2>1
<1> DEFINE T == {rank[x] : x \in S}
<1>8. T \subseteq 0..N - 1
  <2>1. \A x \in S : rank[x] \in Nat /\ rank[x] + 1 <= N
    BY <1>2, <1>4
  <2> HIDE DEF N
  <2>2. \A x \in S : rank[x] \in 0..N - 1
    BY <1>1, <2>1
  <2> QED
    BY <2>2
<1>9. Cardinality(T) = N
  BY <1>6, ImageIsAsLarge
<1>10. IsFiniteSet(0..N - 1) /\ Cardinality(0..N - 1) = N
  <2> HIDE DEF N
  <2>1. 0 \in Int /\ N - 1 \in Int
    BY <1>1
  <2> QED
    BY <1>1, <2>1, FS_Interval
<1>11. T = 0..N - 1
  <2> HIDE DEF T, N
  <2> QED
    BY <1>8, <1>9, <1>10, FS_Subset
<1>12. \A n \in 1..N : \E x \in S : rank[x] = n - 1
  <2>1. \A n \in 1..N : n - 1 \in T
    <3> HIDE DEF T, N
    <3> QED
      BY <1>1, <1>11
  <2> QED
    BY <2>1
<1>13. \A x \in S : rank[x] \in Nat /\ rank[x] + 1 \in 1..N
  <2>1. \A x \in S : rank[x] \in Nat /\ rank[x] + 1 <= N
    BY <1>2, <1>4
  <2> HIDE DEF N
  <2> QED
    BY <1>1, <2>1
<1> QED
  BY <1>1, <1>6, <1>7, <1>12, <1>13 DEF ExactRanks
=============================================================================
