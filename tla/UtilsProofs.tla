---------------------------- MODULE UtilsProofs ----------------------------
(***************************************************************************)
(* Proofs about Utils: the statistics of vectors of samples of any length. *)
(***************************************************************************)
EXTENDS Utils, FiniteSetTheorems, FunctionTheorems, WellFoundedInduction, TLAPS

-----------------------------------------------------------------------------
(* Sets of numbers. *)

LEMMA LeastNatural ==
  ASSUME NEW T \in SUBSET Nat, T # {}
  PROVE  \E x \in T : \A y \in T : x <= y
<1> DEFINE Less == OpToRel(<, Nat)
<1>1. IsWellFoundedOn(Less, Nat)
  BY NatLessThanWellFounded
<1>2. \A x, y \in Nat : x < y => <<x, y>> \in Less
  BY DEF OpToRel
<1> HIDE DEF Less
<1>3. PICK x \in T : \A y \in T : ~ <<y, x>> \in Less
  BY <1>1, WFMin
<1>4. \A y \in T : ~ y < x
  BY <1>2, <1>3
<1> QED BY <1>4

LEMMA Fewer ==
  ASSUME NEW T, IsFiniteSet(T), NEW S \in SUBSET T
  PROVE  /\ IsFiniteSet(S) /\ Cardinality(S) \in Nat /\ Cardinality(T) \in Nat
         /\ Cardinality(S) <= Cardinality(T)
         /\ Cardinality(S) = Cardinality(T) => S = T
BY FS_Subset, FS_CardinalityType

\* The element with the fewest elements above it has none.
LEMMA LargestNatural ==
  ASSUME NEW T \in SUBSET Nat, IsFiniteSet(T), T # {}
  PROVE  \E x \in T : \A y \in T : y <= x
<1> DEFINE Above(x) == {y \in T : y > x}
           Counts == {Cardinality(Above(x)) : x \in T}
<1>1. \A x \in T : Above(x) \subseteq T /\ Cardinality(Above(x)) \in Nat
  BY Fewer
<1>2. Counts \in SUBSET Nat /\ Counts # {}
  BY <1>1
<1>3. PICK n \in Counts : \A k \in Counts : n <= k
  <2> HIDE DEF Counts
  <2> QED BY <1>2, LeastNatural
<1>4. PICK x \in T : n = Cardinality(Above(x))
  OBVIOUS
<1>5. ASSUME NEW y \in T, y > x PROVE FALSE
  <2>1. Above(y) \subseteq Above(x) /\ y \in Above(x) /\ y \notin Above(y)
    <3>1. x \in Nat /\ y \in Nat /\ \A z \in T : z \in Nat
      OBVIOUS
    <3>2. \A z \in T : z > y => z > x
      BY <1>5, <3>1
    <3>3. ~ y > y
      BY <3>1
    <3>4. Above(y) \subseteq Above(x)
      BY <3>2
    <3> QED BY <1>5, <3>3, <3>4
  <2>2. Cardinality(Above(x)) <= Cardinality(Above(y))
    BY <1>3, <1>4
  <2>3. Above(x) \subseteq T
    OBVIOUS
  <2> HIDE DEF Above
  <2>4. IsFiniteSet(Above(x))
    BY <2>3, Fewer
  <2>5. Cardinality(Above(y)) = Cardinality(Above(x))
    BY <2>1, <2>2, <2>4, Fewer
  <2> QED BY <2>1, <2>4, <2>5, Fewer
<1>6. \A y \in T : ~ y > x
  BY <1>5
<1> QED BY <1>6

LEMMA MinIs ==
  ASSUME NEW T \in SUBSET Nat, NEW m \in T, \A y \in T : m <= y
  PROVE  Min(T) = m
<1>1. \A x \in T : (\A y \in T : x <= y) => x = m
  OBVIOUS
<1> QED BY <1>1 DEF Min

LEMMA MaxIs ==
  ASSUME NEW T \in SUBSET Nat, NEW m \in T, \A y \in T : m >= y
  PROVE  Max(T) = m
<1>1. \A x \in T : (\A y \in T : x >= y) => x = m
  OBVIOUS
<1> QED BY <1>1 DEF Max
-----------------------------------------------------------------------------
(* Sorted vectors. *)

Below(v, x) == {j \in DOMAIN v : v[j] < x}
UpTo(v, x) == {j \in DOMAIN v : v[j] <= x}

LEMMA PlacesFinite ==
  ASSUME NEW v \in Seq(Nat)
  PROVE  /\ Len(v) \in Nat /\ DOMAIN v = 1 .. Len(v)
         /\ IsFiniteSet(DOMAIN v) /\ Cardinality(DOMAIN v) = Len(v)
         /\ \A J \in SUBSET DOMAIN v : /\ IsFiniteSet(J)
                                       /\ Cardinality(J) \in Nat
                                       /\ Cardinality(J) <= Len(v)
<1>1. Len(v) \in Nat /\ DOMAIN v = 1 .. Len(v)
  OBVIOUS
<1>2. IsFiniteSet(DOMAIN v) /\ Cardinality(DOMAIN v) = Len(v)
  <2>1. IsFiniteSet(1 .. Len(v))
    BY <1>1, FS_Interval
  <2>2. Cardinality(1 .. Len(v)) =
          IF 1 > Len(v) THEN 0 ELSE Len(v) - 1 + 1
    BY <1>1, FS_Interval
  <2> QED BY <1>1, <2>1, <2>2
<1> QED BY <1>1, <1>2, Fewer

LEMMA LargestPlace ==
  ASSUME NEW v \in Seq(Nat), NEW J \in SUBSET DOMAIN v, J # {}
  PROVE  \E j \in J : \A k \in J : v[k] <= v[j]
<1> DEFINE f == [j \in J |-> v[j]]
           T == {v[j] : j \in J}
<1>1. f \in Surjection(J, T) /\ IsFiniteSet(J)
  BY PlacesFinite DEF Surjection
<1>2. IsFiniteSet(T)
  <2> HIDE DEF f, T
  <2> QED BY <1>1, FS_Surjection
<1>3. T \in SUBSET Nat /\ T # {}
  OBVIOUS
<1>4. PICK x \in T : \A y \in T : y <= x
  <2> HIDE DEF T
  <2> QED BY <1>2, <1>3, LargestNatural
<1> QED BY <1>4

\* There is a value for each place.
LEMMA RankExists ==
  ASSUME NEW v \in Seq(Nat), NEW i \in 1 .. Len(v)
  PROVE  \E x \in ToSet(v) : /\ Cardinality(Below(v, x)) < i
                             /\ i <= Cardinality(UpTo(v, x))
<1>1. /\ Len(v) \in Nat /\ DOMAIN v = 1 .. Len(v)
      /\ \A x : /\ Cardinality(Below(v, x)) \in Nat
                /\ Cardinality(UpTo(v, x)) \in Nat
  BY PlacesFinite DEF Below, UpTo
<1>2. \A x : x \in ToSet(v) <=> \E j \in DOMAIN v : x = v[j]
  BY DEF ToSet
<1> DEFINE T == {x \in ToSet(v) : i <= Cardinality(UpTo(v, x))}
<1>3. T # {}
  <2>1. PICK j \in DOMAIN v : \A k \in DOMAIN v : v[k] <= v[j]
    BY <1>1, LargestPlace
  <2>2. UpTo(v, v[j]) = DOMAIN v
    BY <2>1 DEF UpTo
  <2>3. Cardinality(UpTo(v, v[j])) = Len(v)
    BY <2>2, PlacesFinite
  <2> QED BY <1>2, <2>3
<1>4. T \in SUBSET Nat
  BY <1>2
<1>5. PICK x \in T : \A y \in T : x <= y
  <2> HIDE DEF T
  <2> QED BY <1>3, <1>4, LeastNatural
<1>6. ASSUME ~ Cardinality(Below(v, x)) < i PROVE FALSE
  <2>1. Below(v, x) # {}
    <3>1. Cardinality(Below(v, x)) # 0
      BY <1>1, <1>6
    <3> QED BY <3>1, FS_EmptySet
  <2>2. PICK j \in Below(v, x) : \A k \in Below(v, x) : v[k] <= v[j]
    BY <2>1, LargestPlace DEF Below
  <2>3. v[j] < x /\ v[j] \in Nat /\ x \in Nat /\ j \in DOMAIN v
    BY <1>4 DEF Below
  <2>4. UpTo(v, v[j]) = Below(v, x)
    <3>1. \A k \in DOMAIN v : v[k] \in Nat
      OBVIOUS
    <3> QED BY <2>2, <2>3, <3>1 DEF UpTo, Below
  <2>5. v[j] \in T
    BY <1>1, <1>2, <1>6, <2>3, <2>4
  <2> QED BY <1>5, <2>3, <2>5
<1> QED BY <1>5, <1>6

\* What sorting leaves at each place.
LEMMA SortedRank ==
  ASSUME NEW v \in Seq(Nat), NEW i \in 1 .. Len(v)
  PROVE  /\ Sorted(v)[i] \in ToSet(v) /\ Sorted(v)[i] \in Nat
         /\ Cardinality(Below(v, Sorted(v)[i])) < i
         /\ i <= Cardinality(UpTo(v, Sorted(v)[i]))
<1> DEFINE Rank(x) == /\ Cardinality(Below(v, x)) < i
                      /\ i <= Cardinality(UpTo(v, x))
<1>1. Sorted(v)[i] = CHOOSE x \in ToSet(v) : Rank(x)
  BY DEF Sorted, Below, UpTo
<1>2. \E x \in ToSet(v) : Rank(x)
  BY RankExists
<1>3. Sorted(v)[i] \in ToSet(v) /\ Rank(Sorted(v)[i])
  <2> HIDE DEF Rank
  <2> QED BY <1>1, <1>2
<1>4. ToSet(v) \subseteq Nat
  BY DEF ToSet
<1> QED BY <1>3, <1>4

LEMMA SortedLength ==
  ASSUME NEW v \in Seq(Nat)
  PROVE  Sorted(v) \in Seq(Nat) /\ Len(Sorted(v)) = Len(v)
<1> DEFINE At(i) == CHOOSE x \in ToSet(v) : /\ Cardinality(Below(v, x)) < i
                                            /\ i <= Cardinality(UpTo(v, x))
<1>1. Sorted(v) = [i \in 1 .. Len(v) |-> At(i)] /\ Len(v) \in Nat
  BY DEF Sorted, Below, UpTo
<1>2. \A i \in 1 .. Len(v) : Sorted(v)[i] \in Nat
  BY SortedRank
<1> HIDE DEF At
<1>3. \A i \in 1 .. Len(v) : At(i) \in Nat
  BY <1>1, <1>2
<1> QED BY <1>1, <1>3

LEMMA SortedAscends ==
  ASSUME NEW v \in Seq(Nat), NEW i \in 1 .. Len(v), NEW k \in 1 .. Len(v),
         i <= k
  PROVE  Sorted(v)[i] <= Sorted(v)[k]
<1> DEFINE x == Sorted(v)[i]
           y == Sorted(v)[k]
<1>1. /\ x \in Nat /\ Cardinality(Below(v, x)) < i
      /\ y \in Nat /\ k <= Cardinality(UpTo(v, y))
  BY SortedRank
<1> HIDE DEF x, y
<1>2. ASSUME y < x PROVE FALSE
  <2>1. UpTo(v, y) \subseteq Below(v, x)
    <3>1. \A j \in DOMAIN v : v[j] \in Nat
      OBVIOUS
    <3> QED BY <1>1, <1>2, <3>1 DEF UpTo, Below
  <2>2. IsFiniteSet(Below(v, x))
    BY PlacesFinite DEF Below
  <2>3. /\ Cardinality(UpTo(v, y)) <= Cardinality(Below(v, x))
        /\ Cardinality(UpTo(v, y)) \in Nat /\ Cardinality(Below(v, x)) \in Nat
    BY <2>1, <2>2, Fewer
  <2> QED BY <1>1, <2>3
<1>3. x <= y
  BY <1>1, <1>2
<1> QED BY <1>3 DEF x, y
-----------------------------------------------------------------------------
(* Percentiles. *)

\* Interpolation is monotonic.
LEMMA Between ==
  ASSUME NEW a \in Nat, NEW d \in 0 .. 100, NEW e \in 0 .. 100, d <= e
  PROVE  d * a \in Nat /\ d * a <= e * a
<1>1. PICK c \in Nat : e = d + c
  <2>1. e - d \in Nat /\ e = d + (e - d)
    OBVIOUS
  <2> QED BY <2>1
<1>2. c * a \in Nat /\ d * a \in Nat
  OBVIOUS
<1>3. e * a = d * a + c * a
  BY <1>1
<1> QED BY <1>2, <1>3

\* The value d hundredths of the way from place i of a sorted vector.
Point(s, i, d) == IF d = 0 THEN 100 * s[i] ELSE 100 * s[i] + d * (s[i + 1] - s[i])

LEMMA PercentileIs ==
  ASSUME NEW v \in Seq(Nat), Len(v) >= 2, NEW p \in Columns
  PROVE  \E i \in 1 .. Len(v), d \in 0 .. 99 :
           /\ p * (Len(v) - 1) + 100 = 100 * i + d
           /\ d # 0 => i < Len(v)
           /\ getPercentileFromSortedVec(Sorted(v), p)
                = {Point(Sorted(v), i, d)}
<1> DEFINE n == Len(v)
           ranks == p * (n - 1)
<1>1. n \in Nat /\ n >= 2 /\ p \in 0 .. 100
  BY DEF Columns
<1>2. ranks \in Nat /\ ranks <= 100 * (n - 1)
  BY <1>1 DEF Columns
<1>3. Len(Sorted(v)) = n
  BY SortedLength
<1> HIDE DEF n, ranks
<1>4. PICK i \in Nat, d \in 0 .. 99 :
        /\ ranks + 100 = 100 * i + d
        /\ i = (ranks + 100) \div 100 /\ d = (ranks + 100) % 100
  <2>1. \A m \in Nat : /\ m \div 100 \in Nat /\ m % 100 \in 0 .. 99
                       /\ m = 100 * (m \div 100) + (m % 100)
    OBVIOUS
  <2>2. ranks + 100 \in Nat
    BY <1>2
  <2> QED BY <2>1, <2>2
<1>5. i \in 1 .. n /\ (d # 0 => i < n)
  BY <1>1, <1>2, <1>4
<1>6. getPercentileFromSortedVec(Sorted(v), p) = {Point(Sorted(v), i, d)}
  BY <1>1, <1>3, <1>4 DEF getPercentileFromSortedVec, Point, ranks
<1>7. p * (Len(v) - 1) + 100 = 100 * i + d
  BY <1>4 DEF n, ranks
<1>8. i \in 1 .. Len(v) /\ (d # 0 => i < Len(v))
  BY <1>5 DEF n
<1> QED BY <1>6, <1>7, <1>8, Zenon

\* A point lies between the values at its place and the next.
LEMMA PointBetween ==
  ASSUME NEW v \in Seq(Nat), NEW i \in 1 .. Len(v), NEW d \in 0 .. 99,
         d # 0 => i < Len(v)
  PROVE  /\ Point(Sorted(v), i, d) \in Nat
         /\ 100 * Sorted(v)[i] <= Point(Sorted(v), i, d)
         /\ i < Len(v) => Point(Sorted(v), i, d) <= 100 * Sorted(v)[i + 1]
<1> DEFINE x == Sorted(v)[i]
           y == Sorted(v)[i + 1]
<1>1. x \in Nat
  BY SortedRank
<1>2. i < Len(v) => y \in Nat /\ x <= y
  <2> SUFFICES ASSUME i < Len(v) PROVE y \in Nat /\ x <= y
    OBVIOUS
  <2>1. i + 1 \in 1 .. Len(v) /\ i <= i + 1
    OBVIOUS
  <2> QED BY <2>1, SortedRank, SortedAscends
<1> HIDE DEF x, y
<1>3. CASE d = 0
  <2>1. Point(Sorted(v), i, d) = 100 * x
    BY <1>3 DEF Point, x
  <2>2. 100 * x \in Nat /\ 100 * x <= 100 * x
        /\ (i < Len(v) => 100 * x <= 100 * y)
    BY <1>1, <1>2
  <2> QED BY <2>1, <2>2 DEF x, y
<1>4. CASE d # 0
  <2>1. y - x \in Nat /\ y \in Nat
    BY <1>1, <1>2, <1>4
  <2>2. d * (y - x) \in Nat /\ d * (y - x) <= 100 * (y - x)
    BY <2>1, Between
  <2>3. Point(Sorted(v), i, d) = 100 * x + d * (y - x)
    BY <1>4 DEF Point, x, y
  <2>4. 100 * x + d * (y - x) \in Nat /\ 100 * x <= 100 * x + d * (y - x)
        /\ 100 * x + d * (y - x) <= 100 * y
    BY <1>1, <2>1, <2>2
  <2> QED BY <2>3, <2>4 DEF x, y
<1> QED BY <1>3, <1>4

\* A point that comes later is no less.
LEMMA PointsAscend ==
  ASSUME NEW v \in Seq(Nat),
         NEW i \in 1 .. Len(v), NEW d \in 0 .. 99, d # 0 => i < Len(v),
         NEW k \in 1 .. Len(v), NEW e \in 0 .. 99, e # 0 => k < Len(v),
         100 * i + d <= 100 * k + e
  PROVE  Point(Sorted(v), i, d) <= Point(Sorted(v), k, e)
<1>1. i < k \/ (i = k /\ d <= e)
  OBVIOUS
<1>2. CASE i < k
  <2>1. i + 1 \in 1 .. Len(v) /\ i + 1 <= k /\ i < Len(v)
    BY <1>2
  <2>2. /\ Sorted(v)[i + 1] <= Sorted(v)[k]
        /\ Sorted(v)[i + 1] \in Nat /\ Sorted(v)[k] \in Nat
    BY <2>1, SortedAscends, SortedRank
  <2>3. /\ Point(Sorted(v), i, d) \in Nat /\ Point(Sorted(v), k, e) \in Nat
        /\ Point(Sorted(v), i, d) <= 100 * Sorted(v)[i + 1]
        /\ 100 * Sorted(v)[k] <= Point(Sorted(v), k, e)
    BY <2>1, PointBetween
  <2>4. \A a, b, x, y \in Nat : a <= b /\ x <= 100 * a /\ 100 * b <= y => x <= y
    OBVIOUS
  <2> QED BY <2>2, <2>3, <2>4
<1>3. CASE i = k /\ d <= e
  <2>1. CASE e = 0
    <3>1. Point(Sorted(v), k, e) = Point(Sorted(v), i, d)
      BY <1>3, <2>1
    <3>2. Point(Sorted(v), i, d) \in Nat
      BY PointBetween
    <3> QED BY <3>1, <3>2
  <2>2. CASE e # 0 /\ d = 0
    BY <1>3, <2>2, PointBetween DEF Point
  <2>3. CASE e # 0 /\ d # 0
    <3> DEFINE a == Sorted(v)[i + 1] - Sorted(v)[i]
    <3>1. i + 1 \in 1 .. Len(v) /\ i <= i + 1
      BY <2>3
    <3>2. a \in Nat /\ Sorted(v)[i] \in Nat
      BY <3>1, SortedAscends, SortedRank
    <3> HIDE DEF a
    <3>3. d * a \in Nat /\ e * a \in Nat /\ d * a <= e * a
      BY <1>3, <3>2, Between
    <3>4. /\ Point(Sorted(v), i, d) = 100 * Sorted(v)[i] + d * a
          /\ Point(Sorted(v), k, e) = 100 * Sorted(v)[i] + e * a
      BY <1>3, <2>3 DEF Point, a
    <3>5. \A b, x, y \in Nat : x <= y => 100 * b + x <= 100 * b + y
      OBVIOUS
    <3>6. 100 * Sorted(v)[i] + d * a <= 100 * Sorted(v)[i] + e * a
      BY <3>2, <3>3, <3>5
    <3> QED BY <3>4, <3>6
  <2> QED BY <2>1, <2>2, <2>3
<1> QED BY <1>1, <1>2, <1>3

\* The samples on each side of a value in hundredths, and how many there are.
Upto(v, x)  == {j \in DOMAIN v : 100 * v[j] <= x}
Under(v, x) == {j \in DOMAIN v : 100 * v[j] < x}

LEMMA PointByRank ==
  ASSUME NEW v \in Seq(Nat), NEW i \in 1 .. Len(v), NEW d \in 0 .. 99,
         d # 0 => i < Len(v), NEW x, x = Point(Sorted(v), i, d)
  PROVE  /\ Cardinality(Upto(v, x)) >= i
         /\ Cardinality(Under(v, x)) <= IF d = 0 THEN i - 1 ELSE i
<1> DEFINE s == Sorted(v)
<1>1. x \in Nat /\ 100 * s[i] <= x /\ (i < Len(v) => x <= 100 * s[i + 1])
  BY PointBetween
<1>2. /\ s[i] \in Nat
      /\ Cardinality(Below(v, s[i])) < i /\ i <= Cardinality(UpTo(v, s[i]))
  BY SortedRank
<1>3. \A j \in DOMAIN v : v[j] \in Nat
  OBVIOUS
<1>4. /\ IsFiniteSet(Upto(v, x)) /\ IsFiniteSet(Under(v, x))
      /\ Cardinality(Upto(v, x)) \in Nat /\ Cardinality(Under(v, x)) \in Nat
  BY PlacesFinite DEF Upto, Under
<1>5. \A y : /\ IsFiniteSet(Below(v, y)) /\ IsFiniteSet(UpTo(v, y))
             /\ Cardinality(Below(v, y)) \in Nat
             /\ Cardinality(UpTo(v, y)) \in Nat
  BY PlacesFinite DEF Below, UpTo
<1> HIDE DEF s
<1>6. Cardinality(Upto(v, x)) >= i
  <2>1. UpTo(v, s[i]) \subseteq Upto(v, x)
    BY <1>1, <1>2, <1>3 DEF UpTo, Upto
  <2>2. Cardinality(UpTo(v, s[i])) <= Cardinality(Upto(v, x))
    BY <1>4, <2>1, Fewer
  <2> QED BY <1>2, <1>4, <1>5, <2>2
<1>7. Cardinality(Under(v, x)) <= IF d = 0 THEN i - 1 ELSE i
  <2>1. CASE d = 0
    <3>1. x = 100 * s[i]
      BY <2>1 DEF Point, s
    <3>2. Under(v, x) \subseteq Below(v, s[i])
      BY <1>2, <1>3, <3>1 DEF Below, Under
    <3>3. Cardinality(Under(v, x)) <= Cardinality(Below(v, s[i]))
      BY <1>5, <3>2, Fewer
    <3> QED BY <1>2, <1>4, <1>5, <2>1, <3>3
  <2>2. CASE d # 0
    <3>1. i + 1 \in 1 .. Len(v)
      BY <2>2
    <3>2. s[i + 1] \in Nat /\ Cardinality(Below(v, s[i + 1])) < i + 1
      BY <3>1, SortedRank DEF s
    <3>3. Under(v, x) \subseteq Below(v, s[i + 1])
      <4>1. x \in Nat /\ x <= 100 * s[i + 1]
        BY <1>1, <3>1
      <4>2. \A a, b \in Nat : 100 * a < x /\ x <= 100 * b => a < b
        BY <4>1
      <4>3. \A j \in DOMAIN v : 100 * v[j] < x => v[j] < s[i + 1]
        BY <1>3, <3>2, <4>1, <4>2
      <4> QED BY <4>3 DEF Below, Under
    <3>4. Cardinality(Under(v, x)) <= Cardinality(Below(v, s[i + 1]))
      BY <1>5, <3>3, Fewer
    <3> QED BY <1>4, <1>5, <2>2, <3>2, <3>4
  <2> QED BY <2>1, <2>2
<1> QED BY <1>6, <1>7 DEF s

LEMMA Hundreds ==
  ASSUME NEW m \in Nat, NEW e \in 0 .. 99
  PROVE  (100 * m + e) \div 100 = m /\ (100 * m + e) % 100 = e
OBVIOUS

\* The p-th percentile by rank, and below those of more percent.
LEMMA PercentileRank ==
  ASSUME NEW v \in Seq(Nat), Len(v) >= 2, NEW p \in Columns, NEW x,
         getPercentileFromSortedVec(Sorted(v), p) = {x}
  PROVE  /\ x \in Nat
         /\ Cardinality(Upto(v, x)) >= (p * (Len(v) - 1)) \div 100 + 1
         /\ Cardinality(Under(v, x)) <= (p * (Len(v) - 1) + 99) \div 100
<1> DEFINE ranks == p * (Len(v) - 1)
<1>1. PICK i \in 1 .. Len(v), d \in 0 .. 99 :
        /\ ranks + 100 = 100 * i + d /\ (d # 0 => i < Len(v))
        /\ x = Point(Sorted(v), i, d)
  <2>1. PICK i \in 1 .. Len(v), d \in 0 .. 99 :
          /\ ranks + 100 = 100 * i + d /\ (d # 0 => i < Len(v))
          /\ getPercentileFromSortedVec(Sorted(v), p) = {Point(Sorted(v), i, d)}
    BY PercentileIs, Zenon
  <2>2. x = Point(Sorted(v), i, d)
    BY <2>1
  <2> HIDE DEF ranks
  <2> QED BY <2>1, <2>2, Zenon
<1>2. ranks \in Int
  BY DEF Columns
<1> HIDE DEF ranks
<1>3. ranks = 100 * (i - 1) + d /\ i - 1 \in Nat
  BY <1>1, <1>2
<1>4. \A m \in Nat, e \in 0 .. 99 : (100 * m + e) \div 100 = m
  BY Hundreds
<1>5. ranks \div 100 + 1 = i
  <2>1. ranks \div 100 = i - 1
    BY <1>3, <1>4
  <2> QED BY <2>1
<1>6. (ranks + 99) \div 100 = IF d = 0 THEN i - 1 ELSE i
  <2>1. CASE d = 0
    <3>1. ranks + 99 = 100 * (i - 1) + 99
      BY <1>3, <2>1
    <3> QED BY <1>3, <1>4, <2>1, <3>1
  <2>2. CASE d # 0
    <3>1. ranks + 99 = 100 * i + (d - 1) /\ d - 1 \in 0 .. 99 /\ i \in Nat
      BY <1>3, <2>2
    <3>2. (100 * i + (d - 1)) \div 100 = i
      BY <1>4, <3>1
    <3> QED BY <2>2, <3>1, <3>2
  <2> QED BY <2>1, <2>2
<1>7. /\ Cardinality(Upto(v, x)) >= i
      /\ Cardinality(Under(v, x)) <= IF d = 0 THEN i - 1 ELSE i
  BY <1>1, PointByRank
<1>8. x \in Nat
  BY <1>1, PointBetween
<1> QED BY <1>5, <1>6, <1>7, <1>8 DEF ranks

LEMMA PercentilesAscend ==
  ASSUME NEW v \in Seq(Nat), Len(v) >= 2,
         NEW p \in Columns, NEW q \in Columns, p <= q, NEW x, NEW y,
         getPercentileFromSortedVec(Sorted(v), p) = {x},
         getPercentileFromSortedVec(Sorted(v), q) = {y}
  PROVE  x <= y
<1>1. PICK i \in 1 .. Len(v), d \in 0 .. 99 :
        /\ p * (Len(v) - 1) + 100 = 100 * i + d
        /\ d # 0 => i < Len(v)
        /\ getPercentileFromSortedVec(Sorted(v), p) = {Point(Sorted(v), i, d)}
  BY PercentileIs
<1>2. PICK k \in 1 .. Len(v), e \in 0 .. 99 :
        /\ q * (Len(v) - 1) + 100 = 100 * k + e
        /\ e # 0 => k < Len(v)
        /\ getPercentileFromSortedVec(Sorted(v), q) = {Point(Sorted(v), k, e)}
  BY PercentileIs
<1>3. 100 * i + d <= 100 * k + e
  <2>1. Len(v) - 1 \in Nat /\ p \in 0 .. 100 /\ q \in 0 .. 100
    BY DEF Columns
  <2>2. /\ p * (Len(v) - 1) <= q * (Len(v) - 1)
        /\ p * (Len(v) - 1) \in Nat
    BY <2>1, Between
  <2>3. q * (Len(v) - 1) \in Nat
    BY <2>1, Between
  <2>4. \A a, b \in Nat : a <= b => a + 100 <= b + 100
    OBVIOUS
  <2> QED BY <1>1, <1>2, <2>2, <2>3, <2>4
<1>4. x = Point(Sorted(v), i, d) /\ y = Point(Sorted(v), k, e)
  BY <1>1, <1>2
<1> QED BY <1>1, <1>2, <1>3, <1>4, PointsAscend

\* The extremes and the medians.
LEMMA ExtremesAre ==
  ASSUME NEW v \in Seq(Nat), Len(v) >= 2
  PROVE  /\ getPercentileFromSortedVec(Sorted(v), 0) = {100 * Min(ToSet(v))}
         /\ getPercentileFromSortedVec(Sorted(v), 100) = {100 * Max(ToSet(v))}
<1> DEFINE s == Sorted(v)
           n == Len(v)
<1>1. /\ Len(s) = n /\ n \in Nat /\ n >= 2
      /\ DOMAIN v = 1 .. n /\ \A j \in DOMAIN v : v[j] \in Nat
  <2>1. Len(s) = n
    BY SortedLength
  <2>2. n \in Nat /\ n >= 2 /\ DOMAIN v = 1 .. n /\ \A j \in DOMAIN v : v[j] \in Nat
    OBVIOUS
  <2> QED BY <2>1, <2>2
<1>2. /\ s[1] \in ToSet(v) /\ s[n] \in ToSet(v)
      /\ s[1] \in Nat /\ s[n] \in Nat
      /\ Cardinality(Below(v, s[1])) < 1 /\ n <= Cardinality(UpTo(v, s[n]))
  <2>1. 1 \in 1 .. n /\ n \in 1 .. n
    BY <1>1
  <2> QED BY <2>1, SortedRank
<1> HIDE DEF s
<1>3. ToSet(v) \in SUBSET Nat
  BY DEF ToSet
<1>4. \A y \in ToSet(v) : s[1] <= y
  <2>1. Cardinality(Below(v, s[1])) \in Nat /\ IsFiniteSet(Below(v, s[1]))
    BY PlacesFinite DEF Below
  <2>2. Below(v, s[1]) = {}
    <3>1. Cardinality(Below(v, s[1])) = 0
      BY <1>2, <2>1
    <3> QED BY <2>1, <3>1, FS_EmptySet
  <2>3. \A j \in DOMAIN v : ~ v[j] < s[1]
    BY <2>2 DEF Below
  <2> QED BY <1>1, <1>2, <2>3 DEF ToSet
<1>5. \A y \in ToSet(v) : s[n] >= y
  <2>1. UpTo(v, s[n]) \subseteq DOMAIN v
    BY DEF UpTo
  <2>2. UpTo(v, s[n]) = DOMAIN v
    <3>1. /\ Cardinality(UpTo(v, s[n])) <= n
          /\ Cardinality(UpTo(v, s[n])) \in Nat
          /\ Cardinality(DOMAIN v) = n /\ IsFiniteSet(DOMAIN v)
      BY <2>1, PlacesFinite
    <3>2. Cardinality(UpTo(v, s[n])) = Cardinality(DOMAIN v)
      BY <1>1, <1>2, <3>1
    <3> QED BY <2>1, <3>1, <3>2, Fewer
  <2>3. \A j \in DOMAIN v : v[j] <= s[n]
    BY <2>2 DEF UpTo
  <2> QED BY <1>1, <1>2, <2>3 DEF ToSet
<1>6. Min(ToSet(v)) = s[1] /\ Max(ToSet(v)) = s[n]
  BY <1>2, <1>3, <1>4, <1>5, MinIs, MaxIs
<1>7. getPercentileFromSortedVec(s, 0) = {100 * s[1]}
  <2>1. 0 * (n - 1) + 100 = 100 /\ 100 \div 100 = 1 /\ 100 % 100 = 0
    BY <1>1
  <2> QED BY <1>1, <2>1 DEF getPercentileFromSortedVec
<1>8. getPercentileFromSortedVec(s, 100) = {100 * s[n]}
  <2>1. 100 * (n - 1) + 100 = 100 * n
    BY <1>1
  <2>2. (100 * n) \div 100 = n /\ (100 * n) % 100 = 0
    BY <1>1
  <2> QED BY <1>1, <2>1, <2>2 DEF getPercentileFromSortedVec
<1> QED BY <1>6, <1>7, <1>8 DEF s

LEMMA MediansAgree ==
  ASSUME NEW v \in Seq(Nat), Len(v) >= 2
  PROVE  getMedianSorted(Sorted(v)) = getPercentileFromSortedVec(Sorted(v), 50)
<1> DEFINE s == Sorted(v)
           n == Len(v)
<1>1. Len(s) = n /\ n \in Nat /\ n >= 2
  BY SortedLength
<1>2. \A i \in 1 .. n : s[i] \in Nat
  BY SortedRank
<1> HIDE DEF s, n
<1>3. PICK h \in Nat : h = n \div 2 /\ (n = 2 * h \/ n = 2 * h + 1)
  <2>1. n \div 2 \in Nat /\ (n = 2 * (n \div 2) \/ n = 2 * (n \div 2) + 1)
    BY <1>1
  <2> QED BY <2>1
<1>4. h >= 1
  BY <1>1, <1>3
<1>5. CASE n = 2 * h
  <2>1. n % 2 = 0
    BY <1>3, <1>5
  <2>2. getMedianSorted(s) = {50 * (s[h] + s[h + 1])}
    BY <1>1, <1>3, <2>1 DEF getMedianSorted
  <2>3. 50 * (n - 1) + 100 = 100 * h + 50
    BY <1>3, <1>5
  <2>4. /\ (50 * (n - 1) + 100) \div 100 = h
        /\ (50 * (n - 1) + 100) % 100 = 50
    BY <2>3, Hundreds
  <2>5. getPercentileFromSortedVec(s, 50)
          = {100 * s[h] + 50 * (s[h + 1] - s[h])}
    <3>1. 50 \in 0 .. 100 /\ 50 # 0
      OBVIOUS
    <3> QED BY <1>1, <2>4, <3>1, SMTT(20) DEF getPercentileFromSortedVec
  <2>6. s[h] \in Nat /\ s[h + 1] \in Nat
    BY <1>2, <1>3, <1>4, <1>5
  <2>7. 50 * (s[h] + s[h + 1]) = 100 * s[h] + 50 * (s[h + 1] - s[h])
    <3>1. \A a, b \in Nat : 50 * (a + b) = 100 * a + 50 * (b - a)
      OBVIOUS
    <3> QED BY <2>6, <3>1
  <2> QED BY <2>2, <2>5, <2>7 DEF s
<1>6. CASE n = 2 * h + 1
  <2>1. n % 2 # 0
    BY <1>3, <1>6
  <2>2. getMedianSorted(s) = {100 * s[h + 1]}
    BY <1>1, <1>3, <2>1 DEF getMedianSorted
  <2>3. 50 * (n - 1) + 100 = 100 * (h + 1)
    BY <1>3, <1>6
  <2>4. /\ (50 * (n - 1) + 100) \div 100 = h + 1
        /\ (50 * (n - 1) + 100) % 100 = 0
    <3>1. (100 * (h + 1)) \div 100 = h + 1 /\ (100 * (h + 1)) % 100 = 0
      BY <1>3
    <3> QED BY <2>3, <3>1
  <2>5. getPercentileFromSortedVec(s, 50) = {100 * s[h + 1]}
    <3>1. 50 \in 0 .. 100
      OBVIOUS
    <3> QED BY <1>1, <2>4, <3>1, SMTT(20) DEF getPercentileFromSortedVec
  <2> QED BY <2>2, <2>5 DEF s
<1> QED BY <1>3, <1>5, <1>6
-----------------------------------------------------------------------------
(* The theorems. *)

SamplesOK == kind = "samples" => input \in Seq(Sample)

LEMMA SamplesAreNatural ==
  ASSUME SamplesOK, kind = "samples"
  PROVE  input \in Seq(Nat)
<1>1. input \in Seq(Sample)
  BY DEF SamplesOK
<1>2. \A i \in 1 .. Len(input) : input[i] \in Nat
  <2>1. \A i \in 1 .. Len(input) : input[i] \in Sample
    BY <1>1
  <2> QED BY <2>1, SampleAssumption
<1>3. /\ Len(input) \in Nat
      /\ input = [i \in 1 .. Len(input) |-> input[i]]
  BY <1>1
<1>4. input \in [1 .. Len(input) -> Nat]
  BY <1>2, <1>3
<1> QED BY <1>3, <1>4

LEMMA SamplesInvariant == Spec => []SamplesOK
<1>1. Init => SamplesOK
  BY DEF Init, SamplesOK
<1>2. SamplesOK /\ [Next]_<<kind, input>> => SamplesOK'
  BY DEF SamplesOK, Next, push_back, PutChar, PutByte
<1> QED BY <1>1, <1>2, PTL DEF Spec

(***************************************************************************)
(* A percentile is one by rank and never leaves the samples, the medians   *)
(* agree and the extremes are the extremes, whatever the samples are and   *)
(* however many.                                                           *)
(***************************************************************************)
THEOREM PercentileByRankHolds == Spec => []PercentileByRank
<1>1. SamplesOK => PercentileByRank
  <2> SUFFICES ASSUME SamplesOK, kind = "samples", Len(input) >= 2
               PROVE  PercentileByRank
    BY DEF PercentileByRank
  <2>1. input \in Seq(Nat)
    BY SamplesAreNatural
  <2>2. \A p \in Columns : getPercentileFromSortedVec(Sorted(input), p)
                             = {Percentile(p)}
    <3> SUFFICES ASSUME NEW p \in Columns
                 PROVE  getPercentileFromSortedVec(Sorted(input), p)
                          = {Percentile(p)}
      OBVIOUS
    <3>1. PICK x : getPercentileFromSortedVec(Sorted(input), p) = {x}
      BY <2>1, PercentileIs
    <3> QED BY <3>1 DEF Percentile
  <2>3. 0 \in Columns /\ 50 \in Columns /\ 100 \in Columns
    BY DEF Columns
  <2>4. getMedianSorted(Sorted(input)) = {Percentile(50)}
    BY <2>1, <2>2, <2>3, MediansAgree
  <2>5. /\ Percentile(0) = 100 * Min(ToSet(input))
        /\ Percentile(100) = 100 * Max(ToSet(input))
    <3>1. /\ getPercentileFromSortedVec(Sorted(input), 0)
               = {100 * Min(ToSet(input))}
          /\ getPercentileFromSortedVec(Sorted(input), 100)
               = {100 * Max(ToSet(input))}
      BY <2>1, ExtremesAre
    <3>2. /\ {Percentile(0)} = {100 * Min(ToSet(input))}
          /\ {Percentile(100)} = {100 * Max(ToSet(input))}
      BY <2>2, <2>3, <3>1, Zenon
    <3> QED BY <3>2
  <2>6. ASSUME NEW p \in Columns
        PROVE  LET x     == Percentile(p)
                   ranks == p * (Len(input) - 1)
               IN  /\ Cardinality({i \in DOMAIN input : 100 * input[i] <= x})
                        >= ranks \div 100 + 1
                   /\ Cardinality({i \in DOMAIN input : 100 * input[i] < x})
                        <= (ranks + 99) \div 100
                   /\ \A q \in Columns : p <= q => x <= Percentile(q)
    <3>1. \A q \in Columns : p <= q => Percentile(p) <= Percentile(q)
      BY <2>1, <2>2, PercentilesAscend
    <3>2. getPercentileFromSortedVec(Sorted(input), p) = {Percentile(p)}
      BY <2>2
    <3>3. /\ Cardinality(Upto(input, Percentile(p)))
               >= (p * (Len(input) - 1)) \div 100 + 1
          /\ Cardinality(Under(input, Percentile(p)))
               <= (p * (Len(input) - 1) + 99) \div 100
      BY <2>1, <3>2, PercentileRank
    <3> QED BY <3>1, <3>3 DEF Upto, Under
  <2> QED BY <2>4, <2>5, <2>6 DEF PercentileByRank
<1> QED BY <1>1, SamplesInvariant, PTL

\* Where a row ends.
LEMMA PrintedUpTo ==
  ASSUME NEW row \in Seq(BOOLEAN), NEW n \in 0 .. Len(row),
         \A k \in 1 .. n : row[k], n < Len(row) => ~ row[n + 1]
  PROVE  printed(row) = n
<1> DEFINE First(m) == /\ \A k \in 1 .. m : row[k]
                       /\ m < Len(row) => ~ row[m + 1]
<1>1. First(n)
  OBVIOUS
<1>2. ASSUME NEW m \in 0 .. Len(row), First(m) PROVE m = n
  <2>1. ~ m < n
    BY <1>2
  <2>2. ~ n < m
    BY <1>2
  <2> QED BY <2>1, <2>2
<1> QED BY <1>1, <1>2 DEF printed

(***************************************************************************)
(* A row of statistics is whole, but for two samples exactly, whatever the *)
(* samples are and however many.                                           *)
(***************************************************************************)
THEOREM RowWholeHolds == Spec => []RowWhole
<1>1. SamplesOK => RowWhole
  <2> SUFFICES ASSUME SamplesOK, kind = "samples",
                      NEW row \in getStats(input)
               PROVE  printed(row) = IF Len(input) = 2 THEN 4 ELSE Len(row)
    BY DEF RowWhole
  <2> DEFINE s == Sorted(input)
             n == Len(input)
             has(p) == getPercentileFromSortedVec(s, p) # {}
  <2>1. input \in Seq(Nat)
    BY SamplesAreNatural
  <2>2. n \in Nat /\ Len(s) = n
    BY <2>1, SortedLength
  <2> HIDE DEF s, n
  <2>3. n >= 2 /\ row = <<TRUE, has(0), has(100), HasStd(s), HasSkew(s),
                          has(50), Len(s) >= 3, has(90), has(95), has(99)>>
    <3>1. Len(input) < 2 => getStats(input) = {}
      BY DEF getStats
    <3>2. ~ Len(input) < 2
      BY <3>1
    <3>3. n >= 2
      BY <2>2, <3>2 DEF n
    <3>4. getStats(input) =
            {<<TRUE, has(0), has(100), HasStd(s), HasSkew(s), has(50),
               Len(s) >= 3, has(90), has(95), has(99)>>}
      BY ONLY <3>2, Zenon DEF getStats, s
    <3> QED BY <3>3, <3>4, Zenon
  <2>4. \A p \in Columns : has(p)
    BY DEF getPercentileFromSortedVec, Columns
  <2>5. getMedianSorted(s) # {}
    <3>1. getMedianSorted(s) = getPercentileFromSortedVec(s, 50)
      BY <2>1, <2>3, MediansAgree DEF s, n
    <3>2. has(50)
      BY <2>4 DEF Columns
    <3> QED BY <3>1, <3>2
  <2>6. HasStd(s) = TRUE /\ HasSkew(s) = (n >= 3)
    BY <2>2, <2>3, <2>5 DEF HasStd, HasSkew
  <2>7. row = <<TRUE, TRUE, TRUE, TRUE, n >= 3, TRUE, n >= 3, TRUE, TRUE, TRUE>>
    BY <2>2, <2>3, <2>4, <2>6 DEF Columns
  <2> HIDE DEF has
  <2>8. row \in Seq(BOOLEAN) /\ Len(row) = 10
    BY <2>7
  <2>9. CASE n = 2
    <3>1. (n >= 3) = FALSE
      BY <2>9
    <3>2. /\ row[1] = TRUE /\ row[2] = TRUE /\ row[3] = TRUE /\ row[4] = TRUE
          /\ row[5] = FALSE
      BY <2>7, <3>1
    <3>3. \A k \in 1 .. 4 : row[k] = TRUE
      BY <3>2
    <3>4. printed(row) = 4
      BY <2>8, <3>2, <3>3, PrintedUpTo
    <3> QED BY <2>9, <3>4 DEF n
  <2>10. CASE n # 2
    <3>1. n >= 3
      BY <2>2, <2>3, <2>10
    <3>2. /\ row[1] = TRUE /\ row[2] = TRUE /\ row[3] = TRUE /\ row[4] = TRUE
          /\ row[5] = TRUE /\ row[6] = TRUE /\ row[7] = TRUE /\ row[8] = TRUE
          /\ row[9] = TRUE /\ row[10] = TRUE
      BY <2>7, <3>1
    <3>3. \A k \in 1 .. 10 : row[k] = TRUE
      BY <3>2
    <3>4. printed(row) = 10
      <4>1. 10 \in 0 .. Len(row) /\ (10 < Len(row) => ~ row[10 + 1])
        BY <2>8
      <4>2. \A k \in 1 .. 10 : row[k]
        BY <3>3
      <4> QED BY <2>8, <4>1, <4>2, PrintedUpTo
    <3> QED BY <2>8, <2>10, <3>4 DEF n
  <2> QED BY <2>9, <2>10
<1> QED BY <1>1, SamplesInvariant, PTL
=============================================================================
