----------------------------- MODULE TextProofs -----------------------------
(***************************************************************************)
(* Proofs about Utils: the texts the programs exchange, of any length.     *)
(* What a recursive function computes is proved by induction over sets of  *)
(* numbers.                                                                *)
(***************************************************************************)
EXTENDS UtilsProofs

-----------------------------------------------------------------------------
(* Induction, and functions that are defined by recursion. *)

\* Complete induction over the natural numbers, for a set of them.
LEMMA Induction ==
  ASSUME NEW T \in SUBSET Nat,
         \A n \in Nat : (\A m \in 0 .. n - 1 : m \in T) => n \in T
  PROVE  T = Nat
<1>1. SUFFICES ASSUME Nat \ T # {} PROVE FALSE
  OBVIOUS
<1>2. PICK n \in Nat \ T : \A m \in Nat \ T : n <= m
  BY <1>1, LeastNatural
<1>3. \A m \in 0 .. n - 1 : m \in T
  BY <1>2
<1> QED BY <1>2, <1>3

\* The value at n is made of n and of the value at an earlier number.
Earlier(prior) == \A n \in Nat \ {0} : prior[n] < n
Recursive(g, a, step, prior) ==
  /\ g[0] = a
  /\ \A n \in Nat \ {0} : g[n] = step[<<n, g[prior[n]]>>]

\* A function defined by recursion over smaller numbers exists.
LEMMA Recursion ==
  ASSUME NEW S, NEW a \in S, NEW step \in [Nat \X S -> S],
         NEW prior \in [Nat \ {0} -> Nat], Earlier(prior)
  PROVE  \E g \in [Nat -> S] : Recursive(g, a, step, prior)
<1>0. \A n \in Nat \ {0} : prior[n] < n
  BY DEF Earlier
<1> DEFINE Solves(h, n) == /\ h[0] = a
                           /\ \A k \in 1 .. n : h[k] = step[<<k, h[prior[k]]>>]
           Partial(n) == {h \in [0 .. n -> S] : Solves(h, n)}
<1>1. ASSUME NEW n \in Nat, NEW h, NEW j, Solves(h, n), Solves(j, n)
      PROVE  \A k \in 0 .. n : h[k] = j[k]
  <2> DEFINE T == {k \in Nat : k <= n => h[k] = j[k]}
  <2>1. ASSUME NEW k \in Nat, \A m \in 0 .. k - 1 : m \in T, k <= n, k # 0
        PROVE  h[k] = j[k]
    <3>1. k \in 1 .. n /\ prior[k] \in 0 .. k - 1 /\ prior[k] <= n
      BY <1>0, <2>1
    <3>2. h[prior[k]] = j[prior[k]]
      BY <2>1, <3>1
    <3> QED BY <1>1, <3>1, <3>2
  <2>2. h[0] = j[0]
    BY <1>1
  <2>3. \A k \in Nat : (\A m \in 0 .. k - 1 : m \in T) => k \in T
    BY <2>1, <2>2
  <2>4. T \in SUBSET Nat
    OBVIOUS
  <2> HIDE DEF T
  <2>5. T = Nat
    BY <2>3, <2>4, Induction
  <2> QED BY <2>5 DEF T
<1>2. \A n \in Nat : Partial(n) # {}
  <2> DEFINE T == {n \in Nat : Partial(n) # {}}
  <2>1. ASSUME NEW n \in Nat, \A m \in 0 .. n - 1 : m \in T
        PROVE  Partial(n) # {}
    <3>1. CASE n = 0
      <4>1. [k \in 0 .. 0 |-> a] \in Partial(0)
        OBVIOUS
      <4> QED BY <3>1, <4>1
    <3>2. CASE n # 0
      <4>1. n - 1 \in 0 .. n - 1 /\ n - 1 \in Nat /\ n \in Nat \ {0}
        BY <3>2
      <4>2. PICK h \in [0 .. n - 1 -> S] : Solves(h, n - 1)
        BY <2>1, <4>1
      <4>3. prior[n] \in 0 .. n - 1 /\ h[prior[n]] \in S
        BY <1>0, <4>1
      <4>4. step[<<n, h[prior[n]]>>] \in S
        BY <4>3
      <4> DEFINE j == [k \in 0 .. n |-> IF k = n THEN step[<<n, h[prior[n]]>>]
                                               ELSE h[k]]
      <4>5. j \in [0 .. n -> S]
        BY <4>4
      <4>6. \A k \in 0 .. n - 1 : k \in 0 .. n /\ j[k] = h[k]
        OBVIOUS
      <4>7. j[n] = step[<<n, h[prior[n]]>>] /\ j[prior[n]] = h[prior[n]]
        BY <4>3, <4>6
      <4> HIDE DEF j
      <4>8. ASSUME NEW k \in 1 .. n - 1 PROVE j[k] = step[<<k, j[prior[k]]>>]
        <5>1. k \in 0 .. n - 1 /\ prior[k] \in 0 .. n - 1
          BY <1>0
        <5> QED BY <4>2, <4>6, <5>1
      <4>9. 0 \in 0 .. n - 1 /\ \A k \in 1 .. n : k = n \/ k \in 1 .. n - 1
        BY <4>1
      <4>10. Solves(j, n)
        BY <4>2, <4>6, <4>7, <4>8, <4>9
      <4> QED BY <4>5, <4>10
    <3> QED BY <3>1, <3>2
  <2>2. T \in SUBSET Nat
    OBVIOUS
  <2>3. \A n \in Nat : (\A m \in 0 .. n - 1 : m \in T) => n \in T
    BY <2>1
  <2> HIDE DEF T
  <2>4. T = Nat
    BY <2>2, <2>3, Induction
  <2> QED BY <2>4 DEF T
<1> DEFINE H(n) == CHOOSE h : h \in Partial(n)
           g == [n \in Nat |-> H(n)[n]]
<1>3. \A n \in Nat : H(n) \in [0 .. n -> S] /\ Solves(H(n), n)
  <2> SUFFICES ASSUME NEW n \in Nat
               PROVE  H(n) \in [0 .. n -> S] /\ Solves(H(n), n)
    OBVIOUS
  <2>1. H(n) \in Partial(n)
    <3> HIDE DEF Partial
    <3> QED BY <1>2
  <2> QED BY <2>1
<1> HIDE DEF H
<1>4. ASSUME NEW n \in Nat, NEW k \in 0 .. n PROVE g[k] = H(n)[k]
  <2>1. k \in Nat /\ Solves(H(k), k) /\ Solves(H(n), n) /\ k \in 0 .. k
    BY <1>3
  <2>2. Solves(H(n), k)
    BY <2>1
  <2> HIDE DEF Solves
  <2>3. H(k)[k] = H(n)[k]
    BY <1>1, <2>1, <2>2
  <2> QED BY <2>1, <2>3
<1>5. g \in [Nat -> S]
  <2>1. \A n \in Nat : H(n)[n] \in S
    BY <1>3
  <2> QED BY <2>1
<1>6. g[0] = a
  BY <1>3
<1>7. ASSUME NEW n \in Nat \ {0} PROVE g[n] = step[<<n, g[prior[n]]>>]
  <2>1. n \in 1 .. n /\ n \in 0 .. n /\ prior[n] \in 0 .. n
    BY <1>0
  <2>2. H(n)[n] = step[<<n, H(n)[prior[n]]>>]
    BY <1>3, <2>1
  <2>3. g[n] = H(n)[n] /\ g[prior[n]] = H(n)[prior[n]]
    BY <1>4, <2>1
  <2> QED BY <2>2, <2>3
<1> HIDE DEF g
<1>8. Recursive(g, a, step, prior)
  BY <1>6, <1>7 DEF Recursive
<1> QED BY <1>5, <1>8

\* Induction from 0 to N.
LEMMA UpwardInduction ==
  ASSUME NEW N \in Nat, NEW T, 0 \in T, \A n \in 1 .. N : n - 1 \in T => n \in T
  PROVE  0 .. N \subseteq T
<1> DEFINE R == {n \in Nat : n <= N => n \in T}
<1>1. ASSUME NEW n \in Nat, \A m \in 0 .. n - 1 : m \in R, n <= N
      PROVE  n \in T
  <2>1. CASE n = 0
    BY <2>1
  <2>2. CASE n # 0
    <3>1. n \in 1 .. N /\ n - 1 \in 0 .. n - 1 /\ n - 1 <= N
      BY <1>1, <2>2
    <3> QED BY <1>1, <3>1
  <2> QED BY <2>1, <2>2
<1>2. R \in SUBSET Nat /\ \A n \in Nat : (\A m \in 0 .. n - 1 : m \in R) => n \in R
  BY <1>1
<1> HIDE DEF R
<1>3. R = Nat
  BY <1>2, Induction
<1> QED BY <1>3 DEF R

\* Induction from N down to 1.
LEMMA DownwardInduction ==
  ASSUME NEW N \in Nat, NEW T,
         \A n \in 1 .. N : (\A m \in n + 1 .. N : m \in T) => n \in T
  PROVE  1 .. N \subseteq T
<1> DEFINE R == {n \in Nat : n < N => N - n \in T}
<1>1. ASSUME NEW n \in Nat, \A m \in 0 .. n - 1 : m \in R, n < N
      PROVE  N - n \in T
  <2>1. N - n \in 1 .. N
    BY <1>1
  <2>2. ASSUME NEW m \in (N - n) + 1 .. N PROVE m \in T
    <3>1. N - m \in 0 .. n - 1 /\ N - m < N /\ N - (N - m) = m
      BY <1>1
    <3>2. N - m \in R
      BY <1>1, <3>1
    <3> QED BY <3>1, <3>2
  <2> QED BY <2>1, <2>2
<1>2. R \in SUBSET Nat /\ \A n \in Nat : (\A m \in 0 .. n - 1 : m \in R) => n \in R
  BY <1>1
<1>3. R = Nat
  <2> HIDE DEF R
  <2> QED BY <1>2, Induction
<1>4. ASSUME NEW n \in 1 .. N PROVE n \in T
  <2>1. N - n \in Nat /\ N - n < N /\ N - (N - n) = n
    OBVIOUS
  <2>2. N - n \in R
    <3> HIDE DEF R
    <3> QED BY <1>3, <2>1
  <2> QED BY <2>1, <2>2
<1> QED BY <1>4

\* A loop over 1 .. N, each step of which changes a value.
Loops(g, N, a, step) ==
  g = [n \in 0 .. N |-> IF n = 0 THEN a ELSE step[<<n, g[n - 1]>>]]

\* A loop computes a function of its turns.
LEMMA Loop ==
  ASSUME NEW N \in Nat, NEW S, NEW a \in S, NEW step \in [(1 .. N) \X S -> S]
  PROVE  \E g \in [0 .. N -> S] : Loops(g, N, a, step)
<1> DEFINE prior == [n \in Nat \ {0} |-> n - 1]
           more == [p \in Nat \X S |-> IF p[1] \in 1 .. N THEN step[<<p[1], p[2]>>]
                                                         ELSE a]
<1>0. prior \in [Nat \ {0} -> Nat] /\ Earlier(prior)
  BY DEF Earlier
<1>1. \A n \in 1 .. N : n \in Nat \ {0} /\ prior[n] = n - 1
  OBVIOUS
<1>2. more \in [Nat \X S -> S]
  OBVIOUS
<1>3. \A n \in 1 .. N, x \in S : more[<<n, x>>] = step[<<n, x>>]
  OBVIOUS
<1> HIDE DEF prior, more
<1>4. PICK g \in [Nat -> S] : Recursive(g, a, more, prior)
  BY <1>0, <1>2, Recursion, Zenon
<1>5. g[0] = a /\ \A n \in Nat \ {0} : g[n] = more[<<n, g[prior[n]]>>]
  BY <1>4 DEF Recursive
<1> DEFINE h == [n \in 0 .. N |-> g[n]]
<1>6. h \in [0 .. N -> S]
  OBVIOUS
<1>7. ASSUME NEW n \in 0 .. N
      PROVE  h[n] = IF n = 0 THEN a ELSE step[<<n, h[n - 1]>>]
  <2>1. CASE n = 0
    BY <1>5, <2>1
  <2>2. CASE n # 0
    <3>1. n \in 1 .. N /\ n - 1 \in 0 .. N
      BY <2>2
    <3> QED BY <1>1, <1>3, <1>5, <2>2, <3>1
  <2> QED BY <2>1, <2>2
<1> HIDE DEF h
<1>8. Loops(h, N, a, step)
  BY <1>6, <1>7 DEF Loops
<1> QED BY <1>6, <1>8
-----------------------------------------------------------------------------
(* Sequences. *)

\* z is x and y behind each other.
IsJoined(D, z, x, y) ==
  /\ z \in Seq(D) /\ Len(z) = Len(x) + Len(y)
  /\ \A k \in 1 .. Len(x) : z[k] = x[k]
  /\ \A k \in 1 .. Len(y) : z[Len(x) + k] = y[k]

\* What stands where in two sequences put together.
LEMMA Joined ==
  ASSUME NEW D, NEW x \in Seq(D), NEW y \in Seq(D)
  PROVE  IsJoined(D, x \o y, x, y)
<1>1. x \o y \in Seq(D) /\ Len(x \o y) = Len(x) + Len(y)
  OBVIOUS
<1>2. \A k \in 1 .. Len(x) : (x \o y)[k] = x[k]
  OBVIOUS
<1>3. ASSUME NEW k \in 1 .. Len(y) PROVE (x \o y)[Len(x) + k] = y[k]
  <2>1. /\ Len(x) + k \in 1 .. Len(x) + Len(y) /\ ~ Len(x) + k <= Len(x)
        /\ Len(x) + k - Len(x) = k
    OBVIOUS
  <2> QED BY <2>1
<1> QED BY <1>1, <1>2, <1>3 DEF IsJoined
-----------------------------------------------------------------------------
(* Digits. *)

DigitSet == {Digits[k] : k \in 1 .. 16}

\* The values of digits, and that none is a separator.
LEMMA DigitFacts ==
  /\ \A v \in 0 .. 15 : Digit(v) \in DigitSet /\ Value(Digit(v)) = v
  /\ \A v \in 0 .. 9 : Digit(v) \in {Digits[k] : k \in 1 .. 10}
  /\ \A v \in 0 .. 15 : Digit(v) # "." /\ Digit(v) # "|"
<1>1. DOMAIN Digits = 1 .. 16 /\ \A j, k \in 1 .. 16 : Digits[j] = Digits[k] => j = k
  BY DEF Digits
<1>2. \A k \in 1 .. 16 : Digits[k] # "." /\ Digits[k] # "|"
  BY DEF Digits
<1> HIDE DEF Digits
<1>3. ASSUME NEW v \in 0 .. 15
      PROVE  /\ Digit(v) \in DigitSet /\ Value(Digit(v)) = v
             /\ Digit(v) # "." /\ Digit(v) # "|"
             /\ v \in 0 .. 9 => Digit(v) \in {Digits[k] : k \in 1 .. 10}
  <2>1. v + 1 \in 1 .. 16 /\ (v \in 0 .. 9 => v + 1 \in 1 .. 10)
    OBVIOUS
  <2>2. Value(Digit(v)) = v
    <3>1. (CHOOSE k \in DOMAIN Digits : Digits[k] = Digits[v + 1]) = v + 1
      BY <1>1, <2>1
    <3>2. Value(Digit(v)) = (v + 1) - 1
      BY <3>1, Zenon DEF Value, Digit
    <3> QED BY <3>2
  <2> QED BY <1>2, <2>1, <2>2 DEF Digit, DigitSet
<1>4. \A v \in 0 .. 9 : v \in 0 .. 15
  OBVIOUS
<1> QED BY <1>3, <1>4

\* The value of a digit.
LEMMA ValueType == \A c \in DigitSet : Value(c) \in 0 .. 15
<1> SUFFICES ASSUME NEW c \in DigitSet PROVE Value(c) \in 0 .. 15
  OBVIOUS
<1>1. PICK k \in 1 .. 16 : c = Digits[k]
  BY DEF DigitSet
<1>2. k - 1 \in 0 .. 15 /\ (k - 1) + 1 = k
  OBVIOUS
<1>3. c = Digit(k - 1)
  BY <1>1, <1>2 DEF Digit
<1>4. Value(Digit(k - 1)) = k - 1
  BY <1>2, DigitFacts, Zenon
<1> QED BY <1>2, <1>3, <1>4

\* The number that digits stand for, one digit after another.
LEMMA NumberIs ==
  ASSUME NEW digits \in Seq(DigitSet), NEW base \in Nat
  PROVE  \E val \in [0 .. Len(digits) -> Nat] :
           /\ val[0] = 0
           /\ \A k \in 1 .. Len(digits) :
                val[k] = base * val[k - 1] + Value(digits[k])
           /\ Number(digits, base) = val[Len(digits)]
<1> DEFINE N == Len(digits)
           step == [p \in (1 .. N) \X Nat |-> base * p[2] + Value(digits[p[1]])]
<1>1. N \in Nat /\ 0 \in Nat /\ \A k \in 1 .. N : Value(digits[k]) \in Nat
  BY ValueType
<1>2. \A x, y, z \in Nat : x * y + z \in Nat
  OBVIOUS
<1>3. step \in [(1 .. N) \X Nat -> Nat]
  <2>1. \A q \in (1 .. N) \X Nat : base * q[2] + Value(digits[q[1]]) \in Nat
    <3> SUFFICES ASSUME NEW k \in 1 .. N, NEW x \in Nat
                 PROVE  base * x + Value(digits[k]) \in Nat
      OBVIOUS
    <3> QED BY <1>1, <1>2
  <2> QED BY <2>1, Zenon
<1>4. \A k \in 1 .. N, x \in Nat :
        step[<<k, x>>] = base * x + Value(digits[k])
  OBVIOUS
<1> HIDE DEF step
<1>5. PICK g \in [0 .. N -> Nat] : Loops(g, N, 0, step)
  <2> HIDE DEF N
  <2> QED BY <1>1, <1>3, Loop, Zenon
<1>6. g = [n \in 0 .. N |-> IF n = 0 THEN 0 ELSE step[<<n, g[n - 1]>>]]
  BY <1>5 DEF Loops
<1>7. \A n \in 1 .. N : n - 1 \in 0 .. N
  OBVIOUS
<1> DEFINE val[k \in 0 .. Len(digits)] ==
             IF k = 0 THEN 0 ELSE base * val[k - 1] + Value(digits[k])
<1>8. Number(digits, base) = val[Len(digits)]
  BY DEF Number
<1>9. g = [k \in 0 .. N |-> IF k = 0 THEN 0
                                     ELSE base * g[k - 1] + Value(digits[k])]
  <2>1. \A n \in 0 .. N : n # 0 => n \in 1 .. N
    OBVIOUS
  <2>2. \A n \in 0 .. N :
          g[n] = IF n = 0 THEN 0 ELSE base * g[n - 1] + Value(digits[n])
    BY <1>4, <1>6, <1>7, <2>1
  <2> QED BY <2>2
<1>10. val = [k \in 0 .. N |-> IF k = 0 THEN 0
                                 ELSE base * val[k - 1] + Value(digits[k])]
  BY <1>9
<1> HIDE DEF val
<1>11. \A n \in 0 .. N : val[n] \in Nat
  <2> DEFINE T == {n \in 0 .. N : val[n] \in Nat}
  <2>1. 0 \in T
    BY <1>1, <1>10
  <2>2. ASSUME NEW n \in 1 .. N, n - 1 \in T PROVE n \in T
    <3>1. val[n] = base * val[n - 1] + Value(digits[n])
      BY <1>10
    <3>2. val[n - 1] \in Nat /\ Value(digits[n]) \in Nat
      BY <1>1, <2>2
    <3>3. base * val[n - 1] + Value(digits[n]) \in Nat
      BY <1>2, <3>2, Zenon
    <3>4. n \in 0 .. N
      OBVIOUS
    <3> QED BY <3>1, <3>3, <3>4
  <2> HIDE DEF T
  <2>3. 0 .. N \subseteq T
    BY <1>1, <2>1, <2>2, UpwardInduction
  <2> QED BY <2>3 DEF T
<1>12. val \in [0 .. N -> Nat]
  <2>1. DOMAIN val = 0 .. N /\ val = [k \in DOMAIN val |-> val[k]]
    BY <1>10
  <2>2. val = [k \in 0 .. N |-> val[k]]
    BY <2>1
  <2> HIDE DEF N
  <2> QED BY <1>11, <2>2
<1>13. val[0] = 0 /\ \A k \in 1 .. N :
                       val[k] = base * val[k - 1] + Value(digits[k])
  <2>1. 0 \in 0 .. N
    BY <1>1
  <2>2. val[0] = 0
    BY <1>10, <2>1
  <2>3. ASSUME NEW k \in 1 .. N
        PROVE  val[k] = base * val[k - 1] + Value(digits[k])
    <3>1. k \in 0 .. N /\ k # 0
      OBVIOUS
    <3> QED BY <1>10, <3>1
  <2> QED BY <2>2, <2>3
<1> QED BY <1>8, <1>12, <1>13

\* No digits stand for 0, and all digits for a natural number.
LEMMA NumberFirst ==
  ASSUME NEW base \in Nat
  PROVE  /\ Number(<<>>, base) = 0
         /\ \A d \in Seq(DigitSet) : Number(d, base) \in Nat
<1>1. <<>> \in Seq(DigitSet) /\ Len(<<>>) = 0
  OBVIOUS
<1>2. Number(<<>>, base) = 0
  BY <1>1, NumberIs
<1>3. ASSUME NEW d \in Seq(DigitSet) PROVE Number(d, base) \in Nat
  <2>1. PICK val \in [0 .. Len(d) -> Nat] : Number(d, base) = val[Len(d)]
    BY NumberIs
  <2>2. Len(d) \in 0 .. Len(d)
    OBVIOUS
  <2> QED BY <2>1, <2>2
<1> QED BY <1>2, <1>3

\* One digit more.
LEMMA NumberNext ==
  ASSUME NEW d \in Seq(DigitSet), NEW e \in Seq(DigitSet), NEW base \in Nat,
         Len(e) = Len(d) + 1, \A k \in 1 .. Len(d) : e[k] = d[k]
  PROVE  Number(e, base) = base * Number(d, base) + Value(e[Len(e)])
<1>1. PICK v \in [0 .. Len(d) -> Nat] :
        /\ v[0] = 0
        /\ \A k \in 1 .. Len(d) : v[k] = base * v[k - 1] + Value(d[k])
        /\ Number(d, base) = v[Len(d)]
  BY NumberIs
<1>2. PICK w \in [0 .. Len(e) -> Nat] :
        /\ w[0] = 0
        /\ \A k \in 1 .. Len(e) : w[k] = base * w[k - 1] + Value(e[k])
        /\ Number(e, base) = w[Len(e)]
  BY NumberIs
<1> DEFINE T == {k \in 0 .. Len(d) : w[k] = v[k]}
<1>3. 0 \in T /\ Len(d) \in Nat
  BY <1>1, <1>2
<1>4. ASSUME NEW k \in 1 .. Len(d), k - 1 \in T PROVE k \in T
  <2>1. k \in 1 .. Len(e) /\ k \in 0 .. Len(d) /\ e[k] = d[k] /\ w[k - 1] = v[k - 1]
    BY <1>4
  <2>2. w[k] = base * w[k - 1] + Value(e[k]) /\ v[k] = base * v[k - 1] + Value(d[k])
    BY <1>1, <1>2, <2>1
  <2>3. w[k] = v[k]
    BY <2>1, <2>2, Zenon
  <2> QED BY <2>1, <2>3
<1> HIDE DEF T
<1>5. 0 .. Len(d) \subseteq T
  BY <1>3, <1>4, UpwardInduction
<1>6. w[Len(d)] = v[Len(d)]
  BY <1>3, <1>5 DEF T
<1>7. Len(e) \in 1 .. Len(e) /\ Len(e) - 1 = Len(d)
  BY <1>3
<1>8. w[Len(e)] = base * w[Len(d)] + Value(e[Len(e)])
  BY <1>2, <1>7
<1> QED BY <1>1, <1>2, <1>6, <1>8, Zenon

\* A byte is its two hexadecimal digits' parts.
LEMMA ByteParts ==
  \A b \in 0 .. 255 : /\ b \div 16 \in 0 .. 15 /\ b % 16 \in 0 .. 15
                     /\ 16 * (b \div 16) + (b % 16) = b
<1> SUFFICES ASSUME NEW b \in Nat, b <= 255
             PROVE  /\ b \div 16 \in 0 .. 15 /\ b % 16 \in 0 .. 15
                    /\ 16 * (b \div 16) + (b % 16) = b
  OBVIOUS
<1>1. b % 16 = b - 16 * (b \div 16)
  OBVIOUS
<1>2. b \div 16 \in Int /\ b % 16 \in 0 .. 15
  OBVIOUS
<1> DEFINE q == b \div 16
           r == b % 16
<1> HIDE DEF q, r
<1>3. q \in 0 .. 15 /\ 16 * q + r = b
  BY <1>1, <1>2 DEF q, r
<1> QED BY <1>2, <1>3 DEF q, r

\* Two digits stand for the byte they were written for.
LEMMA PairNumber ==
  ASSUME NEW v \in 0 .. 255, NEW e \in Seq(DigitSet), Len(e) = 2,
         e[1] = Digit(v \div 16), e[2] = Digit(v % 16)
  PROVE  Number(e, 16) = v
<1>1. v \div 16 \in 0 .. 15 /\ v % 16 \in 0 .. 15 /\ 16 * (v \div 16) + (v % 16) = v
  BY ByteParts
<1>2. Value(e[1]) = v \div 16 /\ Value(e[2]) = v % 16
  BY <1>1, DigitFacts
<1>3. PICK w \in [0 .. Len(e) -> Nat] :
        /\ w[0] = 0
        /\ \A k \in 1 .. Len(e) : w[k] = 16 * w[k - 1] + Value(e[k])
        /\ Number(e, 16) = w[Len(e)]
  BY NumberIs
<1>4. w[1] = 16 * w[0] + Value(e[1]) /\ w[2] = 16 * w[1] + Value(e[2])
  BY <1>3
<1> QED BY <1>1, <1>2, <1>3, <1>4
-----------------------------------------------------------------------------
(* Bytes. *)

\* convertSerializedURItoString: where the two digits of each byte stand.
LEMMA HexString ==
  ASSUME NEW B \in SUBSET (0 .. 255), NEW v \in Seq(B)
  PROVE  LET s == convertSerializedURItoString(v)
         IN  /\ s \in Seq(DigitSet) /\ Len(s) = 2 * Len(v)
             /\ \A k \in 1 .. Len(v) : /\ s[2 * k - 1] = Digit(v[k] \div 16)
                                       /\ s[2 * k] = Digit(v[k] % 16)
<1> DEFINE N == Len(v)
           S == Seq(DigitSet)
           step == [p \in (1 .. N) \X S |-> p[2] \o HexPair(v[p[1]])]
<1>1. N \in Nat /\ <<>> \in S
  OBVIOUS
<1>2. ASSUME NEW k \in 1 .. N
      PROVE  /\ HexPair(v[k]) \in S /\ Len(HexPair(v[k])) = 2
             /\ HexPair(v[k])[1] = Digit(v[k] \div 16)
             /\ HexPair(v[k])[2] = Digit(v[k] % 16)
  <2>1. v[k] \div 16 \in 0 .. 15 /\ v[k] % 16 \in 0 .. 15
    <3>1. v[k] \in B
      BY DEF N
    <3>2. v[k] \in 0 .. 255
      BY <3>1
    <3> DEFINE e == v[k]
    <3>3. e \in 0 .. 255
      BY <3>2
    <3> HIDE DEF e, N, S, step
    <3>4. e \div 16 \in 0 .. 15 /\ e % 16 \in 0 .. 15
      BY <3>3, ByteParts
    <3> QED BY <3>4 DEF e
  <2>2. Digit(v[k] \div 16) \in DigitSet /\ Digit(v[k] % 16) \in DigitSet
    BY <2>1, DigitFacts
  <2> QED BY <2>2 DEF HexPair
<1>3. step \in [(1 .. N) \X S -> S]
  <2>1. \A q \in (1 .. N) \X S : q[2] \o HexPair(v[q[1]]) \in S
    BY <1>2
  <2> QED BY <2>1, Zenon
<1>4. \A k \in 1 .. N, x \in S : step[<<k, x>>] = x \o HexPair(v[k])
  OBVIOUS
<1>5. PICK g \in [0 .. N -> S] : Loops(g, N, <<>>, step)
  <2> HIDE DEF N, S, step
  <2> QED BY <1>1, <1>3, Loop, Zenon
<1>6. g = [n \in 0 .. N |-> IF n = 0 THEN <<>> ELSE step[<<n, g[n - 1]>>]]
  BY <1>5 DEF Loops
<1> HIDE DEF step
<1>7. g = [n \in 0 .. N |-> IF n = 0 THEN <<>> ELSE g[n - 1] \o HexPair(v[n])]
  <2>1. ASSUME NEW n \in 0 .. N
        PROVE  g[n] = IF n = 0 THEN <<>> ELSE g[n - 1] \o HexPair(v[n])
    <3>1. n # 0 => n \in 1 .. N /\ n - 1 \in 0 .. N
      OBVIOUS
    <3>2. n # 0 => g[n - 1] \in S
      BY <3>1
    <3> QED BY <1>4, <1>6, <3>1, <3>2
  <2> QED BY <2>1
<1> DEFINE s[n \in 0 .. Len(v)] == IF n = 0 THEN <<>> ELSE s[n - 1] \o HexPair(v[n])
<1>8. convertSerializedURItoString(v) = s[N]
  BY DEF convertSerializedURItoString
<1>9. s = [n \in 0 .. N |-> IF n = 0 THEN <<>> ELSE s[n - 1] \o HexPair(v[n])]
  BY <1>7
<1> HIDE DEF s
<1> DEFINE Good(n) ==
             /\ s[n] \in S /\ Len(s[n]) = 2 * n
             /\ \A k \in 1 .. n : /\ s[n][2 * k - 1] = HexPair(v[k])[1]
                                  /\ s[n][2 * k] = HexPair(v[k])[2]
           T == {n \in 0 .. N : Good(n)}
<1>10. 0 \in T
  BY <1>1, <1>9
<1>11. ASSUME NEW n \in 1 .. N, n - 1 \in T PROVE n \in T
  <2>1. s[n] = s[n - 1] \o HexPair(v[n]) /\ n \in 0 .. N
    <3>1. n \in 0 .. N /\ n # 0
      OBVIOUS
    <3> QED BY <1>9, <3>1
  <2>2. Good(n - 1)
    BY <1>11
  <2> DEFINE x == s[n - 1]
             y == HexPair(v[n])
  <2>3. /\ x \in Seq(DigitSet) /\ Len(x) = 2 * (n - 1)
        /\ y \in Seq(DigitSet) /\ Len(y) = 2 /\ s[n] = x \o y
    BY <1>2, <2>1, <2>2
  <2>4. \A k \in 1 .. n - 1 : x[2 * k - 1] = HexPair(v[k])[1] /\ x[2 * k] = HexPair(v[k])[2]
    BY <2>2
  <2> HIDE DEF x, y
  <2>5. /\ s[n] \in Seq(DigitSet) /\ Len(s[n]) = Len(x) + Len(y)
        /\ \A k \in 1 .. Len(x) : s[n][k] = x[k]
        /\ \A k \in 1 .. Len(y) : s[n][Len(x) + k] = y[k]
    <3>1. IsJoined(DigitSet, x \o y, x, y)
      BY <2>3, Joined, Zenon
    <3> QED BY <2>3, <3>1 DEF IsJoined
  <2>6. s[n] \in S /\ Len(s[n]) = 2 * n
    BY <2>3, <2>5
  <2>7. /\ 1 \in 1 .. Len(y) /\ 2 \in 1 .. Len(y)
        /\ Len(x) + 1 = 2 * n - 1 /\ Len(x) + 2 = 2 * n
    BY <2>3
  <2>8. s[n][2 * n - 1] = y[1] /\ s[n][2 * n] = y[2]
    BY <2>5, <2>7, Zenon
  <2>9. ASSUME NEW k \in 1 .. n
        PROVE  s[n][2 * k - 1] = HexPair(v[k])[1] /\ s[n][2 * k] = HexPair(v[k])[2]
    <3>1. CASE k = n
      BY <2>8, <3>1 DEF y
    <3>2. CASE k # n
      <4>1. k \in 1 .. n - 1 /\ 2 * k \in 1 .. Len(x) /\ 2 * k - 1 \in 1 .. Len(x)
        BY <2>3, <3>2
      <4> QED BY <2>4, <2>5, <4>1
    <3> QED BY <3>1, <3>2
  <2> QED BY <2>1, <2>6, <2>9
<1>12. 0 .. N \subseteq T
  <2> HIDE DEF T, N
  <2> QED BY <1>1, <1>10, <1>11, UpwardInduction
<1>13. Good(N)
  <2>1. N \in T
    <3> HIDE DEF T, N
    <3> QED BY <1>1, <1>12
  <2> HIDE DEF Good
  <2> QED BY <2>1
<1> QED BY <1>2, <1>8, <1>13

\* convertHexStringToUint8Vec reads back the bytes that were written.
LEMMA HexDecoded ==
  ASSUME NEW B \in SUBSET (0 .. 255), NEW v \in Seq(B)
  PROVE  convertHexStringToUint8Vec(convertSerializedURItoString(v)) = v
<1> DEFINE s == convertSerializedURItoString(v)
           N == Len(v)
<1>1. /\ s \in Seq(DigitSet) /\ Len(s) = 2 * N /\ N \in Nat
      /\ \A k \in 1 .. N : /\ s[2 * k - 1] = Digit(v[k] \div 16)
                           /\ s[2 * k] = Digit(v[k] % 16)
  BY HexString
<1> HIDE DEF s
<1>2. (Len(s) + 1) \div 2 = N
  BY <1>1
<1>3. ASSUME NEW k \in 1 .. N
      PROVE  Number(SubSeq(s, 2 * k - 1, IF 2 * k <= Len(s) THEN 2 * k ELSE Len(s)), 16)
               = v[k]
  <2> DEFINE e == SubSeq(s, 2 * k - 1, 2 * k)
  <2>1. 2 * k <= Len(s) /\ 2 * k - 1 \in 1 .. Len(s) /\ 2 * k \in 1 .. Len(s)
    BY <1>1
  <2>2. e \in Seq(DigitSet) /\ Len(e) = 2 /\ e[1] = s[2 * k - 1] /\ e[2] = s[2 * k]
    BY <1>1, <2>1
  <2>3. v[k] \in 0 .. 255
    <3>1. v[k] \in B
      OBVIOUS
    <3> QED BY <3>1
  <2>4. e[1] = Digit(v[k] \div 16) /\ e[2] = Digit(v[k] % 16)
    BY <1>1, <2>2
  <2> HIDE DEF e
  <2>5. Number(e, 16) = v[k]
    BY <2>2, <2>3, <2>4, PairNumber
  <2> QED BY <2>1, <2>5 DEF e
<1>4. v = [k \in 1 .. N |-> v[k]]
  OBVIOUS
<1>5. convertHexStringToUint8Vec(s) = [k \in 1 .. N |-> v[k]]
  BY <1>2, <1>3 DEF convertHexStringToUint8Vec
<1> QED BY <1>4, <1>5 DEF s
-----------------------------------------------------------------------------
(* The inputs are sequences of what their kinds say. *)

InputsOK == /\ kind = "bytes" => input \in Seq(Byte)
            /\ kind = "text" => input \in Seq(Char)

\* However the input grows, byte by byte or character by character, it stays a
\* sequence of bytes, or of the characters a text may have.
THEOREM Inputs == Spec => []InputsOK
<1> DEFINE vars == <<kind, input>>
<1>1. Init => InputsOK
  BY DEF Init, InputsOK
<1>2. InputsOK /\ [Next]_vars => InputsOK'
  <2> SUFFICES ASSUME InputsOK, [Next]_vars PROVE InputsOK'
    OBVIOUS
  <2> USE DEF InputsOK
  <2>1. ASSUME NEW d \in Sample, push_back(d) PROVE InputsOK'
    BY <2>1 DEF push_back
  <2>2. ASSUME NEW c \in Char, PutChar(c) PROVE InputsOK'
    BY <2>2 DEF PutChar
  <2>3. ASSUME NEW b \in Byte, PutByte(b) PROVE InputsOK'
    BY <2>3 DEF PutByte
  <2>4. CASE UNCHANGED vars
    BY <2>4
  <2> QED BY <2>1, <2>2, <2>3, <2>4 DEF Next
<1> QED BY <1>1, <1>2, PTL DEF Spec

\* UriSurvives: whatever the bytes of the URI that run_tests hands to a child
\* as hexadecimal digits without separators, the child reads those bytes back.
THEOREM UriSurvivesHolds == Spec => []UriSurvives
<1>1. InputsOK => UriSurvives
  BY ByteAssumption, HexDecoded DEF InputsOK, UriSurvives
<1> QED BY <1>1, Inputs, PTL
-----------------------------------------------------------------------------
(* Finite sets of numbers in order. *)

Rank(S, x) == Cardinality({y \in S : y <= x})

\* Ranks in a finite set, and what a further element changes.
LEMMA RankFacts ==
  ASSUME NEW S \in SUBSET Nat, IsFiniteSet(S), NEW x \in Nat, x \notin S
  PROVE  /\ Cardinality(S) \in Nat
         /\ IsFiniteSet({x} \cup S) /\ Cardinality({x} \cup S) = Cardinality(S) + 1
         /\ \A z \in S : /\ Rank(S, z) \in 1 .. Cardinality(S)
                         /\ z < x => Rank({x} \cup S, z) = Rank(S, z)
                         /\ x < z => Rank({x} \cup S, z) = Rank(S, z) + 1
<1> DEFINE Lower(A, z) == {y \in A : y <= z}
<1>1. ASSUME NEW z \in S PROVE Rank(S, z) \in 1 .. Cardinality(S)
  <2>1. Lower(S, z) \subseteq S /\ z \in Lower(S, z)
    OBVIOUS
  <2> HIDE DEF Lower
  <2>2. IsFiniteSet(Lower(S, z)) /\ Cardinality(Lower(S, z)) \in Nat
        /\ Cardinality(Lower(S, z)) <= Cardinality(S) /\ Cardinality(S) \in Nat
    BY <2>1, Fewer
  <2>3. Cardinality(Lower(S, z)) # 0
    BY <2>1, <2>2, FS_EmptySet
  <2>4. Cardinality(Lower(S, z)) \in 1 .. Cardinality(S)
    BY <2>2, <2>3
  <2> QED BY <2>4 DEF Rank, Lower
<1>2. ASSUME NEW z \in S, z < x PROVE Rank({x} \cup S, z) = Rank(S, z)
  <2>1. \A y \in {x} \cup S : y <= z <=> (y \in S /\ y <= z)
    BY <1>2
  <2>2. Lower({x} \cup S, z) = Lower(S, z)
    BY <2>1
  <2> HIDE DEF Lower
  <2> QED BY <2>2 DEF Rank, Lower
<1>3. ASSUME NEW z \in S, x < z PROVE Rank({x} \cup S, z) = Rank(S, z) + 1
  <2>1. Lower({x} \cup S, z) = Lower(S, z) \cup {x} /\ x \notin Lower(S, z)
    <3>1. x <= z
      BY <1>3
    <3> QED BY <3>1
  <2>2. Lower(S, z) \subseteq S
    OBVIOUS
  <2> HIDE DEF Lower
  <2>3. IsFiniteSet(Lower(S, z))
    BY <2>2, Fewer
  <2>4. Cardinality(Lower(S, z) \cup {x}) = Cardinality(Lower(S, z)) + 1
    BY <2>1, <2>3, FS_AddElement
  <2> QED BY <2>1, <2>4 DEF Rank, Lower
<1>4. IsFiniteSet({x} \cup S) /\ Cardinality({x} \cup S) = Cardinality(S) + 1
  <2>1. IsFiniteSet(S \cup {x}) /\ Cardinality(S \cup {x}) = Cardinality(S) + 1
    BY FS_AddElement
  <2>2. S \cup {x} = {x} \cup S
    OBVIOUS
  <2> QED BY <2>1, <2>2
<1>5. Cardinality(S) \in Nat
  BY FS_CardinalityType
<1> QED BY <1>1, <1>2, <1>3, <1>4, <1>5

\* A set in order begins with its least element, the others in order behind it.
LEMMA InOrderFirst ==
  ASSUME NEW S \in SUBSET Nat, IsFiniteSet(S), NEW x \in Nat, \A y \in S : x < y
  PROVE  /\ Cardinality(S) \in Nat
         /\ DOMAIN InOrder({x} \cup S) = 1 .. Cardinality(S) + 1
         /\ DOMAIN InOrder(S) = 1 .. Cardinality(S)
         /\ InOrder({x} \cup S)[1] = x
         /\ \A k \in 1 .. Cardinality(S) :
              InOrder({x} \cup S)[k + 1] = InOrder(S)[k]
<1> DEFINE A == {x} \cup S
           n == Cardinality(S)
<1>1. x \notin S /\ x \in A /\ \A z \in A : z = x \/ z \in S
  OBVIOUS
<1>2. /\ n \in Nat /\ Cardinality(A) = n + 1
      /\ \A z \in S : Rank(S, z) \in 1 .. n /\ Rank(A, z) = Rank(S, z) + 1
  BY <1>1, RankFacts
<1>3. Rank(A, x) = 1
  <2>1. \A y \in A : y <= x <=> y = x
    OBVIOUS
  <2>2. {y \in A : y <= x} = {x}
    BY <1>1, <2>1
  <2> QED BY <2>2, FS_Singleton DEF Rank
<1>4. /\ InOrder(A) = [k \in 1 .. n + 1 |-> CHOOSE z \in A : Rank(A, z) = k]
      /\ InOrder(S) = [k \in 1 .. n |-> CHOOSE z \in S : Rank(S, z) = k]
  BY <1>2 DEF InOrder, Rank
<1>5. \A z \in A : Rank(A, z) = 1 <=> z = x
  BY <1>1, <1>2, <1>3
<1>6. (CHOOSE z \in A : Rank(A, z) = 1) = x
  BY <1>1, <1>5
<1>7. ASSUME NEW k \in 1 .. n
      PROVE  (CHOOSE z \in A : Rank(A, z) = k + 1) = (CHOOSE z \in S : Rank(S, z) = k)
  <2>1. \A z : (z \in A /\ Rank(A, z) = k + 1) <=> (z \in S /\ Rank(S, z) = k)
    <3>1. \A z \in S : z \in A /\ (Rank(A, z) = k + 1 <=> Rank(S, z) = k)
      BY <1>2
    <3>2. Rank(A, x) # k + 1
      BY <1>3
    <3> QED BY <1>1, <3>1, <3>2
  <2> HIDE DEF A
  <2> QED BY <2>1
<1>8. 1 \in 1 .. n + 1 /\ \A k \in 1 .. n : k + 1 \in 1 .. n + 1
  BY <1>2
<1> HIDE DEF A, n
<1>9. /\ InOrder(A)[1] = x
      /\ \A k \in 1 .. n : InOrder(A)[k + 1] = InOrder(S)[k]
  BY <1>4, <1>6, <1>7, <1>8
<1>10. DOMAIN InOrder(A) = 1 .. n + 1 /\ DOMAIN InOrder(S) = 1 .. n
  BY <1>4
<1> QED BY <1>2, <1>9, <1>10 DEF A, n
-----------------------------------------------------------------------------
(* Splitting. *)

\* find gives the place of the next separator, or the end.
LEMMA FindIs ==
  ASSUME NEW C, NEW text \in Seq(C), NEW d, NEW prev \in 1 .. Len(text) + 1
  PROVE  /\ find(text, d, prev) \in prev .. Len(text) + 1
         /\ find(text, d, prev) <= Len(text) => text[find(text, d, prev)] = d
         /\ \A k \in prev .. find(text, d, prev) - 1 : text[k] # d
<1> DEFINE T == {k \in prev .. Len(text) + 1 : k <= Len(text) => text[k] = d}
<1>1. Len(text) \in Nat /\ T \in SUBSET Nat /\ Len(text) + 1 \in T
  OBVIOUS
<1>2. PICK pos \in T : \A k \in T : pos <= k
  <2> HIDE DEF T
  <2> QED BY <1>1, LeastNatural
<1>3. ASSUME NEW k \in prev .. pos - 1 PROVE text[k] # d
  <2>1. ~ pos <= k /\ k \in prev .. Len(text) + 1 /\ k <= Len(text)
    BY <1>1
  <2> QED BY <1>2, <2>1
<1>4. /\ pos \in prev .. Len(text) + 1
      /\ pos <= Len(text) => text[pos] = d
  OBVIOUS
<1> QED BY <1>3, <1>4 DEF find

\* The place of a separator with none before it is what find gives.
LEMMA FindUnique ==
  ASSUME NEW C, NEW text \in Seq(C), NEW d, NEW prev \in 1 .. Len(text) + 1,
         NEW pos \in prev .. Len(text) + 1, pos <= Len(text) => text[pos] = d,
         \A k \in prev .. pos - 1 : text[k] # d
  PROVE  find(text, d, prev) = pos
<1> DEFINE f == find(text, d, prev)
<1>1. /\ f \in prev .. Len(text) + 1
      /\ f <= Len(text) => text[f] = d
      /\ \A k \in prev .. f - 1 : text[k] # d
  BY FindIs
<1> HIDE DEF f
<1>2. Len(text) \in Nat /\ f \in Nat /\ pos \in Nat
  BY <1>1
<1>3. ~ f < pos
  BY <1>1, <1>2
<1>4. ~ pos < f
  BY <1>1, <1>2
<1> QED BY <1>2, <1>3, <1>4 DEF f

\* Where the runs from prev on begin, if prev is where a run may begin.
StartsFrom(text, d, prev) ==
  {k \in prev .. Len(text) : text[k] # d /\ (k = prev \/ text[k - 1] = d)}
RunsFrom(text, d, prev) ==
  LET starts == InOrder(StartsFrom(text, d, prev))
  IN  [k \in DOMAIN starts |-> Run(text, d, starts[k])]

\* Where runs start: at the place itself, or behind the next separator.
LEMMA NextStart ==
  ASSUME NEW C, NEW text \in Seq(C), NEW d, NEW prev \in 1 .. Len(text) + 1,
         NEW pos \in prev .. Len(text) + 1, pos <= Len(text) => text[pos] = d,
         \A k \in prev .. pos - 1 : text[k] # d
  PROVE  StartsFrom(text, d, prev) =
           (IF pos = prev THEN {} ELSE {prev}) \cup StartsFrom(text, d, pos + 1)
<1> DEFINE A == StartsFrom(text, d, prev)
           B == StartsFrom(text, d, pos + 1)
<1>1. Len(text) \in Nat /\ prev \in Nat /\ pos \in Nat
  OBVIOUS
<1>2. \A k : k \in A <=> /\ k \in prev .. Len(text) /\ text[k] # d
                         /\ k = prev \/ text[k - 1] = d
  BY DEF StartsFrom
<1>3. \A k : k \in B <=> /\ k \in pos + 1 .. Len(text) /\ text[k] # d
                         /\ k = pos + 1 \/ text[k - 1] = d
  BY DEF StartsFrom
<1> HIDE DEF A, B
<1>4. ASSUME NEW k \in prev .. Len(text), k < pos PROVE k \in A <=> k = prev
  <2>1. k \in prev .. pos - 1 /\ (k # prev => k - 1 \in prev .. pos - 1)
    BY <1>1, <1>4
  <2> QED BY <1>2, <2>1
<1>5. \A k \in B : k > pos /\ k \in prev .. Len(text)
  BY <1>1, <1>3
<1>6. ASSUME NEW k \in prev .. Len(text), k > pos PROVE k \in A <=> k \in B
  <2>1. k # prev /\ k \in pos + 1 .. Len(text) /\ k - 1 \in pos .. Len(text)
        /\ pos <= Len(text) /\ (k = pos + 1 => k - 1 = pos)
    BY <1>1, <1>6
  <2> QED BY <1>2, <1>3, <2>1
<1>7. pos \notin A
  BY <1>1, <1>2
<1>8. pos # prev => prev \in prev .. Len(text) /\ prev < pos
  BY <1>1
<1>9. \A k \in A : k \in prev .. Len(text) /\ (k < pos \/ k > pos)
  BY <1>1, <1>2, <1>7
<1>10. ASSUME NEW k \in A PROVE k \in (IF pos = prev THEN {} ELSE {prev}) \cup B
  BY <1>1, <1>4, <1>6, <1>9
<1>11. \A k \in B : k \in A
  BY <1>5, <1>6
<1>12. pos # prev => prev \in A
  BY <1>4, <1>8
<1>13. A = (IF pos = prev THEN {} ELSE {prev}) \cup B
  BY <1>10, <1>11, <1>12
<1> QED BY <1>13 DEF A, B

\* The run from a place goes to the last character before a separator.
LEMMA RunIs ==
  ASSUME NEW C, NEW text \in Seq(C), NEW d, NEW first \in 1 .. Len(text),
         NEW last \in first .. Len(text), \A k \in first .. last : text[k] # d,
         last = Len(text) \/ text[last + 1] = d
  PROVE  Run(text, d, first) = SubSeq(text, first, last)
<1>1. ASSUME NEW j \in first .. Len(text), \A k \in first .. j : text[k] # d,
             j = Len(text) \/ text[j + 1] = d
      PROVE  j = last
  <2>1. Len(text) \in Nat /\ j \in Nat /\ last \in Nat /\ first \in Nat
    OBVIOUS
  <2>2. ~ j < last
    <3>1. j < last => j + 1 \in first .. last /\ j # Len(text)
      BY <2>1
    <3> QED BY <1>1, <3>1
  <2>3. ~ last < j
    <3>1. last < j => last + 1 \in first .. j /\ last # Len(text)
      BY <2>1
    <3> QED BY <1>1, <3>1
  <2> QED BY <2>1, <2>2, <2>3
<1>2. (CHOOSE j \in first .. Len(text) :
         /\ \A k \in first .. j : text[k] # d
         /\ j = Len(text) \/ text[j + 1] = d) = last
  BY <1>1
<1> QED BY <1>2 DEF Run

\* One turn of the loop of split.
Turn(text, d, prev, rest) ==
  LET pos == find(text, d, prev)
      p   == SubSeq(text, prev, pos - 1)
  IN  (IF p = <<>> THEN <<>> ELSE <<p>>)
        \o (IF pos < Len(text) THEN rest[pos + 1] ELSE <<>>)

\* No run starts behind the end of a text.
LEMMA NoRuns ==
  ASSUME NEW C, NEW text \in Seq(C), NEW d, NEW prev \in Nat, prev > Len(text)
  PROVE  StartsFrom(text, d, prev) = {} /\ RunsFrom(text, d, prev) = <<>>
<1>1. StartsFrom(text, d, prev) = {}
  BY DEF StartsFrom
<1>2. DOMAIN InOrder({}) = {}
  <2>1. Cardinality({}) = 0
    BY FS_EmptySet
  <2>2. 1 .. Cardinality({}) = {}
    BY <2>1
  <2> QED BY <2>2, Zenon DEF InOrder
<1>3. RunsFrom(text, d, prev) = [k \in {} |-> Run(text, d, InOrder({})[k])]
  BY <1>1, <1>2 DEF RunsFrom
<1>4. [k \in {} |-> Run(text, d, InOrder({})[k])] = <<>>
  OBVIOUS
<1> QED BY <1>1, <1>3, <1>4

Piece(text, d, prev) == SubSeq(text, prev, find(text, d, prev) - 1)
Others(text, d, prev) == IF find(text, d, prev) < Len(text)
                         THEN RunsFrom(text, d, find(text, d, prev) + 1) ELSE <<>>
RunsTurned(C, text, d, prev) ==
  /\ Piece(text, d, prev) \in Seq(C) /\ Others(text, d, prev) \in Seq(Seq(C))
  /\ RunsFrom(text, d, prev) =
       (IF Piece(text, d, prev) = <<>> THEN <<>> ELSE <<Piece(text, d, prev)>>)
         \o Others(text, d, prev)

\* What one turn of split's loop adds, in terms of runs.
LEMMA RunsTurn ==
  ASSUME NEW C, NEW text \in Seq(C), NEW d, NEW prev \in 1 .. Len(text) + 1,
         \A m \in prev + 1 .. Len(text) + 1 : RunsFrom(text, d, m) \in Seq(Seq(C))
  PROVE  RunsTurned(C, text, d, prev)
<1> DEFINE pos == find(text, d, prev)
           p == SubSeq(text, prev, pos - 1)
           q == IF pos < Len(text) THEN RunsFrom(text, d, pos + 1) ELSE <<>>
           B == StartsFrom(text, d, pos + 1)
<1> SUFFICES /\ p \in Seq(C) /\ q \in Seq(Seq(C))
             /\ RunsFrom(text, d, prev) = (IF p = <<>> THEN <<>> ELSE <<p>>) \o q
  BY DEF RunsTurned, Piece, Others
<1>1. /\ pos \in prev .. Len(text) + 1
      /\ pos <= Len(text) => text[pos] = d
      /\ \A k \in prev .. pos - 1 : text[k] # d
  BY FindIs
<1> HIDE DEF pos
<1>2. Len(text) \in Nat /\ prev \in Nat /\ pos \in Nat /\ pos + 1 \in Nat
  BY <1>1
<1>3. q = RunsFrom(text, d, pos + 1)
  <2>1. CASE pos < Len(text)
    BY <2>1
  <2>2. CASE ~ pos < Len(text)
    BY <1>2, <2>2, NoRuns
  <2> QED BY <2>1, <2>2
<1>4. q \in Seq(Seq(C))
  BY <1>1, <1>2
<1>5. p \in Seq(C) /\ Len(p) = pos - prev
  BY <1>1, <1>2
<1>6. StartsFrom(text, d, prev) = (IF pos = prev THEN {} ELSE {prev}) \cup B
  BY <1>1, NextStart
<1>7. CASE pos = prev
  <2>1. p = <<>>
    BY <1>5, <1>7
  <2>2. StartsFrom(text, d, prev) = B
    BY <1>6, <1>7
  <2>3. RunsFrom(text, d, prev) = q
    BY <1>3, <2>2 DEF RunsFrom
  <2>4. <<>> \o q = q
    BY <1>4
  <2> QED BY <1>4, <1>5, <2>1, <2>3, <2>4 DEF pos
<1>8. CASE pos # prev
  <2>0. prev < pos /\ prev >= 1 /\ pos <= Len(text) + 1
    BY <1>1, <1>2, <1>8
  <2>1. p # <<>>
    <3>1. Len(p) # 0
      BY <1>2, <1>5, <2>0
    <3> HIDE DEF p
    <3> QED BY <3>1
  <2>2. StartsFrom(text, d, prev) = {prev} \cup B
    BY <1>6, <1>8
  <2>3. B \in SUBSET Nat /\ IsFiniteSet(B) /\ \A y \in B : prev < y
    <3>1. B \subseteq pos + 1 .. Len(text)
      BY DEF StartsFrom
    <3>2. IsFiniteSet(pos + 1 .. Len(text))
      BY <1>2, FS_Interval
    <3>3. IsFiniteSet(B)
      BY <3>1, <3>2, FS_Subset
    <3>4. \A y \in pos + 1 .. Len(text) : y \in Nat /\ prev < y
      BY <1>1, <1>2
    <3> HIDE DEF B
    <3> QED BY <3>1, <3>3, <3>4
  <2> DEFINE n == Cardinality(B)
             A == {prev} \cup B
             R == RunsFrom(text, d, prev)
  <2> HIDE DEF B
  <2>4. /\ n \in Nat
        /\ DOMAIN InOrder(A) = 1 .. n + 1 /\ DOMAIN InOrder(B) = 1 .. n
        /\ InOrder(A)[1] = prev
        /\ \A k \in 1 .. n : InOrder(A)[k + 1] = InOrder(B)[k]
    BY <1>2, <2>3, InOrderFirst
  <2>5. R = [k \in 1 .. n + 1 |-> Run(text, d, InOrder(A)[k])]
    BY <2>2, <2>4 DEF RunsFrom
  <2>6. q = [k \in 1 .. n |-> Run(text, d, InOrder(B)[k])]
    BY <1>3, <2>4 DEF RunsFrom, B
  <2>7. Run(text, d, prev) = p
    <3>1. prev \in 1 .. Len(text) /\ pos - 1 \in prev .. Len(text)
          /\ (pos - 1 = Len(text) \/ pos <= Len(text)) /\ (pos - 1) + 1 = pos
      <4>1. \A x, y, z \in Nat : x < y /\ x >= 1 /\ y <= z + 1 =>
              /\ x \in 1 .. z /\ y - 1 \in x .. z /\ (y - 1) + 1 = y
              /\ y - 1 = z \/ y <= z
        OBVIOUS
      <4> QED BY <1>2, <2>0, <4>1
    <3>2. pos - 1 = Len(text) \/ text[(pos - 1) + 1] = d
      BY <1>1, <3>1
    <3> QED BY <1>1, <3>1, <3>2, RunIs
  <2> HIDE DEF n, A, R, q, p
  <2>8. 1 \in 1 .. n + 1 /\ \A k \in 1 .. n : k + 1 \in 1 .. n + 1
    BY <2>4
  <2>9. R[1] = p /\ \A k \in 1 .. n : R[k + 1] = q[k]
    BY <2>4, <2>5, <2>6, <2>7, <2>8
  <2>10. Len(q) = n
    BY <1>4, <2>4, <2>6
  <2> DEFINE z == <<p>> \o q
  <2>11. IsJoined(Seq(C), z, <<p>>, q)
    <3>1. <<p>> \in Seq(Seq(C))
      BY <1>5
    <3> QED BY <1>4, <3>1, Joined, Zenon
  <2>12. Len(<<p>>) = 1 /\ <<p>>[1] = p
    OBVIOUS
  <2> HIDE DEF z
  <2>13. /\ z \in Seq(Seq(C)) /\ Len(z) = n + 1 /\ z[1] = p
         /\ \A k \in 1 .. n : z[1 + k] = q[k]
    <3>1. 1 \in 1 .. Len(<<p>>) /\ (<<p>>)[1] = p
      BY <2>12
    <3>2. /\ z \in Seq(Seq(C)) /\ Len(z) = Len(<<p>>) + n /\ z[1] = p
          /\ \A k \in 1 .. n : z[Len(<<p>>) + k] = q[k]
      BY <2>10, <2>11, <3>1 DEF IsJoined
    <3>3. Len(<<p>>) + n = n + 1
      BY <2>4, <2>12
    <3> QED BY <2>12, <3>2, <3>3
  <2>14. \A k \in 1 .. n + 1 : R[k] = z[k]
    <3> SUFFICES ASSUME NEW k \in 1 .. n + 1 PROVE R[k] = z[k]
      OBVIOUS
    <3>1. CASE k = 1
      BY <2>9, <2>13, <3>1
    <3>2. CASE k # 1
      <4>1. k - 1 \in 1 .. n /\ 1 + (k - 1) = k /\ (k - 1) + 1 = k
        BY <2>4, <3>2
      <4>2. R[(k - 1) + 1] = q[k - 1] /\ z[1 + (k - 1)] = q[k - 1]
        BY <2>9, <2>13, <4>1
      <4> QED BY <4>1, <4>2
    <3> QED BY <3>1, <3>2
  <2>15. R = z
    <3>1. DOMAIN R = 1 .. n + 1 /\ R = [k \in DOMAIN R |-> R[k]]
      BY <2>5
    <3>2. z = [k \in 1 .. n + 1 |-> z[k]]
      BY <2>4, <2>13
    <3> QED BY <2>14, <3>1, <3>2
  <2> QED BY <1>4, <1>5, <2>1, <2>15 DEF z, R, q, p, pos
<1> QED BY <1>7, <1>8

\* Runs are texts themselves.
LEMMA RunsAreTexts ==
  ASSUME NEW C, NEW text \in Seq(C), NEW d
  PROVE  \A prev \in 1 .. Len(text) + 1 : RunsFrom(text, d, prev) \in Seq(Seq(C))
<1> DEFINE N == Len(text) + 1
           T == {m \in 1 .. N : RunsFrom(text, d, m) \in Seq(Seq(C))}
<1>1. ASSUME NEW m \in 1 .. N, \A j \in m + 1 .. N : j \in T PROVE m \in T
  <2> DEFINE p == Piece(text, d, m)
             q == Others(text, d, m)
  <2>1. /\ p \in Seq(C) /\ q \in Seq(Seq(C))
        /\ RunsFrom(text, d, m) = (IF p = <<>> THEN <<>> ELSE <<p>>) \o q
    <3>1. RunsTurned(C, text, d, m)
      BY <1>1, RunsTurn
    <3> QED BY <3>1 DEF RunsTurned
  <2> HIDE DEF p, q
  <2>2. (IF p = <<>> THEN <<>> ELSE <<p>>) \in Seq(Seq(C))
    BY <2>1
  <2>3. (IF p = <<>> THEN <<>> ELSE <<p>>) \o q \in Seq(Seq(C))
    BY <2>1, <2>2
  <2> QED BY <2>1, <2>3
<1>2. N \in Nat
  OBVIOUS
<1>3. 1 .. N \subseteq T
  <2> HIDE DEF T, N
  <2> QED BY <1>1, <1>2, DownwardInduction
<1> QED BY <1>3

\* Every turn of the loop, whatever it starts from.
LEMMA EveryTurn ==
  ASSUME NEW C, NEW text \in Seq(C), NEW d, NEW prev \in 1 .. Len(text) + 1
  PROVE  RunsTurned(C, text, d, prev)
<1>1. \A m \in prev + 1 .. Len(text) + 1 : m \in 1 .. Len(text) + 1
  OBVIOUS
<1>2. \A m \in prev + 1 .. Len(text) + 1 : RunsFrom(text, d, m) \in Seq(Seq(C))
  BY <1>1, RunsAreTexts
<1> QED BY <1>2, RunsTurn

\* split gives the runs from the beginning of the text.
LEMMA SplitRuns ==
  ASSUME NEW C, NEW text \in Seq(C), NEW d
  PROVE  split(text, d) = RunsFrom(text, d, 1)
<1> DEFINE N == Len(text) + 1
           R == [prev \in 1 .. N |-> RunsFrom(text, d, prev)]
           rest[prev \in 1 .. Len(text) + 1] ==
             LET pos == find(text, d, prev)
                 p   == SubSeq(text, prev, pos - 1)
             IN  (IF p = <<>> THEN <<>> ELSE <<p>>)
                   \o (IF pos < Len(text) THEN rest[pos + 1] ELSE <<>>)
<1>1. split(text, d) = rest[1]
  BY DEF split
<1>2. ASSUME NEW prev \in 1 .. N
      PROVE  /\ find(text, d, prev) < Len(text) => find(text, d, prev) + 1 \in prev + 1 .. N
             /\ R[prev] = Turn(text, d, prev, R)
  <2>1. find(text, d, prev) < Len(text) =>
             /\ find(text, d, prev) + 1 \in prev + 1 .. N
             /\ find(text, d, prev) + 1 \in 1 .. N
    BY FindIs
  <2>2. RunsTurned(C, text, d, prev)
    BY EveryTurn
  <2>3. find(text, d, prev) < Len(text) =>
          R[find(text, d, prev) + 1] = RunsFrom(text, d, find(text, d, prev) + 1)
    BY <2>1
  <2> QED BY <2>1, <2>2, <2>3 DEF Turn, RunsTurned, Piece, Others
<1>3. R = [prev \in 1 .. Len(text) + 1 |-> Turn(text, d, prev, R)]
  BY <1>2
<1>4. rest = [prev \in 1 .. Len(text) + 1 |-> Turn(text, d, prev, rest)]
  <2> HIDE DEF R
  <2> QED BY <1>3 DEF Turn
<1> HIDE DEF rest, R
<1> DEFINE T == {m \in 1 .. N : rest[m] = R[m]}
<1>5. ASSUME NEW m \in 1 .. N, \A j \in m + 1 .. N : j \in T PROVE m \in T
  <2>1. rest[m] = Turn(text, d, m, rest) /\ R[m] = Turn(text, d, m, R)
    BY <1>3, <1>4
  <2>2. find(text, d, m) < Len(text) =>
          rest[find(text, d, m) + 1] = R[find(text, d, m) + 1]
    BY <1>2, <1>5
  <2>3. Turn(text, d, m, rest) = Turn(text, d, m, R)
    BY <2>2 DEF Turn
  <2> QED BY <2>1, <2>3
<1>6. N \in Nat /\ 1 \in 1 .. N
  OBVIOUS
<1>7. 1 .. N \subseteq T
  <2> HIDE DEF T, N
  <2> QED BY <1>5, <1>6, DownwardInduction
<1>8. rest[1] = R[1]
  BY <1>6, <1>7
<1> QED BY <1>1, <1>6, <1>8 DEF R

\* SplitIntoRuns: whatever a text holds, split gives the maximal runs without
\* the separator, in their order, none lost, doubled or empty.
THEOREM SplitIntoRunsHolds == Spec => []SplitIntoRuns
<1>1. ASSUME NEW text \in Seq(Char)
      PROVE  StartsFrom(text, "|", 1) = Starts(text, "|")
  <2>1. DOMAIN text = 1 .. Len(text)
    OBVIOUS
  <2> QED BY <2>1 DEF StartsFrom, Starts
<1>2. ASSUME NEW text \in Seq(Char)
      PROVE  LET starts == InOrder(Starts(text, "|"))
             IN  split(text, "|") = [k \in DOMAIN starts |-> Run(text, "|", starts[k])]
  BY <1>1, SplitRuns DEF RunsFrom
<1>3. InputsOK => SplitIntoRuns
  BY <1>2 DEF InputsOK, SplitIntoRuns
<1> QED BY <1>3, Inputs, PTL
-----------------------------------------------------------------------------
(* Numbers as they are written and read. *)

DecimalSet == {Digits[k] : k \in 1 .. 10}

\* A number of several digits, its last one and the others.
LEMMA TenParts ==
  ASSUME NEW n \in Nat
  PROVE  /\ n % 10 \in 0 .. 9 /\ n \div 10 \in Nat
         /\ n >= 1 => n \div 10 < n
         /\ 10 * (n \div 10) + (n % 10) = n
<1> DEFINE q == n \div 10
           r == n % 10
<1>1. q \in Nat /\ r \in 0 .. 9 /\ r = n - 10 * q
  OBVIOUS
<1> HIDE DEF q, r
<1>2. 10 * q + r = n /\ (n >= 1 => q < n)
  BY <1>1
<1> QED BY <1>1, <1>2 DEF q, r

\* Decimal digits are digits, and none is a separator.
LEMMA DecimalDigits ==
  /\ \A v \in 0 .. 9 : Digit(v) \in DecimalSet
  /\ \A c \in DecimalSet : c \in DigitSet /\ c # "." /\ c # "|"
<1>1. \A k \in 1 .. 16 : Digits[k] # "." /\ Digits[k] # "|"
  BY DEF Digits
<1>2. \A v \in 0 .. 9 : Digit(v) \in DecimalSet
  BY DigitFacts, Zenon DEF DecimalSet
<1>3. \A k \in 1 .. 10 : k \in 1 .. 16
  OBVIOUS
<1> QED BY <1>1, <1>2, <1>3, Zenon DEF DecimalSet, DigitSet

\* Decimal of a number of several digits is that of its tenth and a digit.
LEMMA DecimalIs ==
  \A n \in Nat :
    /\ Decimal(n) \in Seq(DecimalSet)
    /\ n < 10 => Decimal(n) = <<Digit(n)>>
    /\ n >= 10 => Decimal(n) = Decimal(n \div 10) \o <<Digit(n % 10)>>
<1> DEFINE S == Seq(DecimalSet)
           step == [p \in Nat \X S |-> IF p[1] < 10 THEN <<Digit(p[1])>>
                                              ELSE p[2] \o <<Digit(p[1] % 10)>>]
           prior == [n \in Nat \ {0} |-> n \div 10]
           str[n \in Nat] == IF n < 10 THEN <<Digit(n)>>
                                       ELSE str[n \div 10] \o <<Digit(n % 10)>>
<1>1. \A n \in Nat : Decimal(n) = str[n]
  BY DEF Decimal
<1>2. prior \in [Nat \ {0} -> Nat] /\ Earlier(prior)
  <2>1. \A n \in Nat \ {0} : n \div 10 \in Nat /\ n \div 10 < n
    BY TenParts
  <2> QED BY <2>1 DEF Earlier
<1>3. \A n \in Nat, x \in S :
        (IF n < 10 THEN <<Digit(n)>> ELSE x \o <<Digit(n % 10)>>) \in S
  <2> SUFFICES ASSUME NEW n \in Nat, NEW x \in S
               PROVE  (IF n < 10 THEN <<Digit(n)>> ELSE x \o <<Digit(n % 10)>>) \in S
    OBVIOUS
  <2>1. n % 10 \in 0 .. 9 /\ (n < 10 => n \in 0 .. 9)
    BY TenParts
  <2>2. Digit(n % 10) \in DecimalSet /\ (n < 10 => Digit(n) \in DecimalSet)
    BY <2>1, DecimalDigits
  <2> QED BY <2>2
<1>4. step \in [Nat \X S -> S]
  <2>1. \A p \in Nat \X S : p[1] \in Nat /\ p[2] \in S
    OBVIOUS
  <2>2. \A p \in Nat \X S :
          (IF p[1] < 10 THEN <<Digit(p[1])>> ELSE p[2] \o <<Digit(p[1] % 10)>>) \in S
    <3> HIDE DEF S
    <3> QED BY <1>3, <2>1, Zenon
  <2> QED BY <2>2, Zenon
<1>5. \A n \in Nat, x \in S :
        step[<<n, x>>] = IF n < 10 THEN <<Digit(n)>> ELSE x \o <<Digit(n % 10)>>
  OBVIOUS
<1>6. \A n \in Nat \ {0} : prior[n] = n \div 10
  OBVIOUS
<1>7. <<Digit(0)>> \in S
  BY DecimalDigits
<1> HIDE DEF step, prior
<1>8. PICK g \in [Nat -> S] : Recursive(g, <<Digit(0)>>, step, prior)
  <2> HIDE DEF S
  <2> QED BY <1>2, <1>4, <1>7, Recursion, Zenon
<1>9. g = [n \in Nat |-> IF n < 10 THEN <<Digit(n)>>
                                   ELSE g[n \div 10] \o <<Digit(n % 10)>>]
  <2>1. g[0] = <<Digit(0)>> /\ \A n \in Nat \ {0} : g[n] = step[<<n, g[n \div 10]>>]
    BY <1>6, <1>8 DEF Recursive
  <2>2. \A n \in Nat \ {0} : n \div 10 \in Nat
    BY TenParts
  <2>3. \A n \in Nat : g[n] = IF n < 10 THEN <<Digit(n)>>
                              ELSE g[n \div 10] \o <<Digit(n % 10)>>
    <3> SUFFICES ASSUME NEW n \in Nat
                 PROVE  g[n] = IF n < 10 THEN <<Digit(n)>>
                               ELSE g[n \div 10] \o <<Digit(n % 10)>>
      OBVIOUS
    <3>1. CASE n = 0
      BY <2>1, <3>1
    <3>2. CASE n # 0
      <4>1. n \in Nat \ {0} /\ g[n \div 10] \in S
        BY <2>2, <3>2
      <4> HIDE DEF S
      <4> QED BY <1>5, <2>1, <4>1, Zenon
    <3> QED BY <3>1, <3>2
  <2> QED BY <2>3
<1>10. str = [n \in Nat |-> IF n < 10 THEN <<Digit(n)>>
                                      ELSE str[n \div 10] \o <<Digit(n % 10)>>]
  BY <1>9
<1> HIDE DEF str
<1> DEFINE T == {n \in Nat : str[n] \in S}
<1>11. ASSUME NEW n \in Nat, \A m \in 0 .. n - 1 : m \in T PROVE n \in T
  <2>1. CASE n < 10
    <3>1. str[n] = <<Digit(n)>> /\ n \in 0 .. 9
      BY <1>10, <2>1
    <3>2. Digit(n) \in DecimalSet
      BY <3>1, DecimalDigits
    <3>3. <<Digit(n)>> \in S
      BY <3>2
    <3> QED BY <3>1, <3>3
  <2>2. CASE ~ n < 10
    <3>1. str[n] = str[n \div 10] \o <<Digit(n % 10)>>
      BY <1>10, <2>2
    <3>2. n \div 10 \in 0 .. n - 1
      BY <2>2, TenParts
    <3>3. str[n \div 10] \in S
      BY <1>11, <3>2
    <3> QED BY <1>3, <2>2, <3>1, <3>3
  <2> QED BY <2>1, <2>2
<1>12. T = Nat
  <2>1. T \in SUBSET Nat
    OBVIOUS
  <2> HIDE DEF T
  <2> QED BY <1>11, <2>1, Induction
<1>13. ASSUME NEW n \in Nat
       PROVE  /\ Decimal(n) \in Seq(DecimalSet)
              /\ n < 10 => Decimal(n) = <<Digit(n)>>
              /\ n >= 10 => Decimal(n) = Decimal(n \div 10) \o <<Digit(n % 10)>>
  <2>1. str[n] \in S /\ Decimal(n) = str[n]
    BY <1>1, <1>12
  <2>2. n \div 10 \in Nat
    BY TenParts
  <2>3. Decimal(n \div 10) = str[n \div 10]
    BY <1>1, <2>2
  <2>4. str[n] = IF n < 10 THEN <<Digit(n)>>
                           ELSE str[n \div 10] \o <<Digit(n % 10)>>
    BY <1>10
  <2>5. n < 10 => str[n] = <<Digit(n)>>
    BY <2>4
  <2>6. n >= 10 => str[n] = str[n \div 10] \o <<Digit(n % 10)>>
    <3>1. n >= 10 => ~ n < 10
      OBVIOUS
    <3> QED BY <2>4, <3>1
  <2> QED BY <2>1, <2>3, <2>5, <2>6, Zenon
<1> QED BY <1>13

\* The digits of a number stand for that number.
LEMMA DecimalNumber ==
  \A n \in Nat : /\ Decimal(n) \in Seq(DecimalSet) /\ Decimal(n) \in Seq(DigitSet)
                 /\ Len(Decimal(n)) >= 1 /\ Number(Decimal(n), 10) = n
<1> DEFINE OK(n) == Len(Decimal(n)) >= 1 /\ Number(Decimal(n), 10) = n
           T == {n \in Nat : OK(n)}
<1>1. \A d \in Seq(DecimalSet) : d \in Seq(DigitSet)
  <2> SUFFICES ASSUME NEW d \in Seq(DecimalSet) PROVE d \in Seq(DigitSet)
    OBVIOUS
  <2>1. \A k \in 1 .. Len(d) : d[k] \in DigitSet
    BY DecimalDigits
  <2> QED BY <2>1
<1>2. ASSUME NEW n \in Nat, \A m \in 0 .. n - 1 : m \in T PROVE OK(n)
  <2>1. CASE n < 10
    <3>0. n \in 0 .. 9 /\ n \in 0 .. 15
      BY <2>1
    <3>1. Decimal(n) = <<Digit(n)>>
      BY <2>1, DecimalIs, Zenon
    <3>2. Digit(n) \in DigitSet /\ Value(Digit(n)) = n
      BY <3>0, DigitFacts, Zenon
    <3> DEFINE d == <<>>
               e == <<Digit(n)>>
    <3>3. /\ e \in Seq(DigitSet) /\ Len(e) = 1 /\ e[1] = Digit(n)
          /\ d \in Seq(DigitSet) /\ Len(d) = 0
      BY <3>2
    <3>4. Number(d, 10) = 0
      BY NumberFirst
    <3> HIDE DEF d, e
    <3>5. Len(e) = Len(d) + 1 /\ \A k \in 1 .. Len(d) : e[k] = d[k]
      BY <3>3
    <3>6. Number(e, 10) = 10 * Number(d, 10) + Value(e[Len(e)])
      BY <3>3, <3>5, NumberNext
    <3>7. Number(e, 10) = n
      BY <3>2, <3>3, <3>4, <3>6
    <3> QED BY <3>1, <3>3, <3>7 DEF e
  <2>2. CASE ~ n < 10
    <3> DEFINE q == n \div 10
               r == n % 10
               d == Decimal(q)
               e == Decimal(n)
    <3>1. q \in Nat /\ q \in 0 .. n - 1 /\ r \in 0 .. 9 /\ r \in 0 .. 15 /\ 10 * q + r = n
      BY <2>2, TenParts
    <3>2. e = d \o <<Digit(r)>>
      <4>1. n >= 10
        BY <2>2
      <4> QED BY <4>1, DecimalIs, Zenon
    <3> HIDE DEF q, r
    <3>3. d \in Seq(DigitSet) /\ Len(d) >= 1 /\ Number(d, 10) = q
      BY <1>1, <1>2, <3>1, DecimalIs
    <3>4. Digit(r) \in DigitSet /\ Value(Digit(r)) = r
      BY <3>1, DigitFacts
    <3> HIDE DEF d, e
    <3>5. /\ e \in Seq(DigitSet) /\ Len(e) = Len(d) + 1 /\ e[Len(e)] = Digit(r)
          /\ \A k \in 1 .. Len(d) : e[k] = d[k]
      BY <3>2, <3>3, <3>4
    <3>6. Number(e, 10) = 10 * Number(d, 10) + Value(e[Len(e)])
      BY <3>3, <3>5, NumberNext
    <3>7. Number(e, 10) = n
      BY <3>1, <3>3, <3>4, <3>5, <3>6
    <3>8. Len(e) >= 1
      BY <3>3, <3>5
    <3> QED BY <3>7, <3>8 DEF e
  <2> QED BY <2>1, <2>2
<1>3. T = Nat
  <2>1. T \in SUBSET Nat /\ \A n \in Nat : (\A m \in 0 .. n - 1 : m \in T) => n \in T
    BY <1>2
  <2> HIDE DEF T
  <2> QED BY <2>1, Induction
<1>4. \A n \in Nat : OK(n)
  BY <1>3
<1> QED BY <1>1, <1>4, DecimalIs

\* strtol reads back what operator<< wrote.
LEMMA NumberRead ==
  ASSUME NEW n \in Nat
  PROVE  strtol(Decimal(n)) = n
<1> DEFINE s == Decimal(n)
<1>1. s \in Seq(DecimalSet) /\ Number(s, 10) = n
  BY DecimalNumber
<1> HIDE DEF s
<1>2. Len(s) \in Nat /\ \A k \in 1 .. Len(s) : s[k] \in DecimalSet
  BY <1>1
<1>3. \A k \in 0 .. Len(s) : (/\ \A j \in 1 .. k : s[j] \in DecimalSet
                              /\ k < Len(s) => s[k + 1] \notin DecimalSet)
                               <=> k = Len(s)
  <2> SUFFICES ASSUME NEW k \in 0 .. Len(s)
               PROVE (/\ \A j \in 1 .. k : s[j] \in DecimalSet
                      /\ k < Len(s) => s[k + 1] \notin DecimalSet) <=> k = Len(s)
    OBVIOUS
  <2>1. k < Len(s) => k + 1 \in 1 .. Len(s)
    BY <1>2
  <2>2. k < Len(s) => s[k + 1] \in DecimalSet
    BY <1>2, <2>1
  <2>3. ~ k < Len(s) <=> k = Len(s)
    BY <1>2
  <2> QED BY <1>2, <2>2, <2>3
<1>4. (CHOOSE k \in 0 .. Len(s) : /\ \A j \in 1 .. k : s[j] \in DecimalSet
                                  /\ k < Len(s) => s[k + 1] \notin DecimalSet) = Len(s)
  BY <1>2, <1>3
<1>5. SubSeq(s, 1, Len(s)) = s
  BY <1>1
<1>6. strtol(s) = Number(s, 10)
  BY <1>4, <1>5 DEF strtol, DecimalSet
<1> QED BY <1>1, <1>6 DEF s
-----------------------------------------------------------------------------
(* Payloads. *)

\* x stands in text from prev on, and then the separator or the end.
Stands(text, d, prev, x) ==
  /\ x # <<>> /\ prev + Len(x) <= Len(text) + 1
  /\ \A k \in 1 .. Len(x) : x[k] # d /\ text[prev + k - 1] = x[k]
  /\ prev + Len(x) <= Len(text) => text[prev + Len(x)] = d

RunsAfter(text, d, prev, x) ==
  IF prev + Len(x) < Len(text) THEN RunsFrom(text, d, prev + Len(x) + 1) ELSE <<>>

CutOff(C, text, d, prev, x) ==
  /\ RunsAfter(text, d, prev, x) \in Seq(Seq(C))
  /\ RunsFrom(text, d, prev) = <<x>> \o RunsAfter(text, d, prev, x)

\* split cuts off a piece that a separator, or the end, follows.
LEMMA CutFirst ==
  ASSUME NEW C, NEW text \in Seq(C), NEW d, NEW prev \in 1 .. Len(text) + 1,
         NEW x \in Seq(C), Stands(text, d, prev, x)
  PROVE  CutOff(C, text, d, prev, x)
<1> DEFINE pos == prev + Len(x)
<1>1. /\ prev \in Nat /\ Len(x) \in Nat \ {0} /\ pos \in prev .. Len(text) + 1
      /\ prev >= 1 /\ prev < pos /\ Len(text) \in Nat /\ pos - prev = Len(x)
  <2>1. Len(x) # 0
    BY DEF Stands
  <2>2. prev + Len(x) <= Len(text) + 1
    BY DEF Stands
  <2> QED BY <2>1, <2>2
<1>2. ASSUME NEW k \in 1 .. Len(x) PROVE x[k] # d /\ text[prev + k - 1] = x[k]
  BY DEF Stands
<1>3. pos <= Len(text) => text[pos] = d
  BY DEF Stands
<1> HIDE DEF pos
<1>4. ASSUME NEW k \in prev .. pos - 1 PROVE text[k] # d
  <2>1. k - prev + 1 \in 1 .. Len(x) /\ prev + (k - prev + 1) - 1 = k
    BY <1>1
  <2> QED BY <1>2, <2>1
<1>5. find(text, d, prev) = pos
  BY <1>1, <1>3, <1>4, FindUnique
<1>6. SubSeq(text, prev, pos - 1) = x
  <2> DEFINE y == SubSeq(text, prev, pos - 1)
  <2>1. pos - 1 \in Int /\ prev \in Int /\ pos - 1 <= Len(text)
    BY <1>1
  <2>2. y \in Seq(C) /\ Len(y) = Len(x)
    BY <1>1, <2>1
  <2>3. ASSUME NEW k \in 1 .. Len(x) PROVE y[k] = x[k]
    <3>1. y[k] = text[prev + k - 1]
      BY <1>1, <2>1
    <3> QED BY <1>2, <3>1
  <2> HIDE DEF y
  <2>4. y = [k \in 1 .. Len(y) |-> y[k]] /\ x = [k \in 1 .. Len(x) |-> x[k]]
    BY <2>2
  <2>5. y = x
    BY <2>2, <2>3, <2>4
  <2> QED BY <2>5 DEF y
<1>7. RunsTurned(C, text, d, prev)
  BY EveryTurn
<1>8. Piece(text, d, prev) = x /\ x # <<>>
  BY <1>5, <1>6 DEF Piece, Stands
<1>9. Others(text, d, prev) = RunsAfter(text, d, prev, x)
  BY <1>5 DEF Others, RunsAfter, pos
<1> QED BY <1>7, <1>8, <1>9 DEF RunsTurned, CutOff

BeginsWith(z, u, v) == z # <<>> /\ z[1] = u /\ z[2] = v

\* The first two pieces of a list.
LEMMA FirstTwo ==
  ASSUME NEW D, NEW u \in D, NEW v \in D, NEW q \in Seq(D)
  PROVE  BeginsWith(<<u>> \o (<<v>> \o q), u, v)
<1>1. /\ <<u>> \in Seq(D) /\ Len(<<u>>) = 1 /\ (<<u>>)[1] = u
      /\ <<v>> \in Seq(D) /\ Len(<<v>>) = 1 /\ (<<v>>)[1] = v
  OBVIOUS
<1> DEFINE y == <<v>> \o q
           z == <<u>> \o y
<1>2. IsJoined(D, y, <<v>>, q)
  BY <1>1, Joined, Zenon
<1>3. IsJoined(D, z, <<u>>, y)
  <2>1. y \in Seq(D)
    BY <1>2 DEF IsJoined
  <2> HIDE DEF y
  <2> QED BY <1>1, <2>1, Joined, Zenon
<1> HIDE DEF y, z
<1>4. /\ y[1] = v /\ Len(y) = 1 + Len(q) /\ z[1] = u /\ Len(z) = 1 + Len(y)
      /\ \A k \in 1 .. Len(y) : z[1 + k] = y[k]
  <2>1. 1 \in 1 .. Len(<<v>>) /\ 1 \in 1 .. Len(<<u>>)
    BY <1>1
  <2>2. y[1] = v /\ z[1] = u
    BY <1>1, <1>2, <1>3, <2>1 DEF IsJoined
  <2>3. Len(y) = Len(<<v>>) + Len(q) /\ Len(z) = Len(<<u>>) + Len(y)
        /\ \A k \in 1 .. Len(y) : z[Len(<<u>>) + k] = y[k]
    BY <1>2, <1>3 DEF IsJoined
  <2> QED BY <1>1, <2>2, <2>3
<1>5. Len(q) \in Nat
  OBVIOUS
<1>6. 1 \in 1 .. Len(y) /\ 1 + 1 = 2 /\ Len(z) # 0
  BY <1>4, <1>5
<1>7. z[2] = v /\ z # <<>>
  BY <1>4, <1>6
<1> QED BY <1>4, <1>7 DEF BeginsWith, z, y

IsPair(z, u, v) == Len(z) = 2 /\ z[1] = u /\ z[2] = v

\* A list of two pieces.
LEMMA TwoPieces ==
  ASSUME NEW D, NEW u \in D, NEW v \in D
  PROVE  IsPair(<<u>> \o <<v>>, u, v)
<1> DEFINE x == <<u>>
           y == <<v>>
           z == x \o y
<1>1. x \in Seq(D) /\ y \in Seq(D) /\ Len(x) = 1 /\ Len(y) = 1 /\ x[1] = u /\ y[1] = v
  OBVIOUS
<1> HIDE DEF x, y
<1>2. IsJoined(D, z, x, y)
  BY <1>1, Joined, Zenon
<1> HIDE DEF z
<1>3. /\ Len(z) = Len(x) + Len(y)
      /\ \A k \in 1 .. Len(x) : z[k] = x[k]
      /\ \A k \in 1 .. Len(y) : z[Len(x) + k] = y[k]
  BY <1>2 DEF IsJoined
<1>4. 1 \in 1 .. Len(x) /\ 1 \in 1 .. Len(y) /\ Len(x) + 1 = 2 /\ Len(x) + Len(y) = 2
  BY <1>1
<1>5. Len(z) = 2 /\ z[1] = u /\ z[2] = v
  BY <1>1, <1>3, <1>4
<1> QED BY <1>5 DEF IsPair, z, x, y

Plain(x) == x # <<>> /\ \A k \in 1 .. Len(x) : x[k] # "." /\ x[k] # "|"
FilledUp(sec, nsec, counter, random) ==
  sec \o <<".">> \o nsec \o <<"|">> \o counter \o <<"|">> \o random
CutInto(text, sec, nsec, counter) ==
  LET pieces == split(text, "|")
  IN  /\ pieces # <<>> /\ pieces[2] = counter
      /\ IsPair(split(pieces[1], "."), sec, nsec)

\* The seconds, the nanoseconds and the counter are cut out of the payload.
LEMMA PayloadCut ==
  ASSUME NEW C, NEW sec \in Seq(C), NEW nsec \in Seq(C), NEW counter \in Seq(C),
         NEW random \in Seq(C), "." \in C, "|" \in C,
         Plain(sec), Plain(nsec), Plain(counter)
  PROVE  CutInto(FilledUp(sec, nsec, counter, random), sec, nsec, counter)
<1>plain. /\ sec # <<>> /\ nsec # <<>> /\ counter # <<>>
          /\ \A k \in 1 .. Len(sec) : sec[k] # "." /\ sec[k] # "|"
          /\ \A k \in 1 .. Len(nsec) : nsec[k] # "." /\ nsec[k] # "|"
          /\ \A k \in 1 .. Len(counter) : counter[k] # "." /\ counter[k] # "|"
  BY DEF Plain
<1> DEFINE x0 == sec \o <<".">>
           x == x0 \o nsec
           t1 == x \o <<"|">>
           t2 == t1 \o counter
           t3 == t2 \o <<"|">>
           text == t3 \o random
<1>points. /\ <<".">> \in Seq(C) /\ Len(<<".">>) = 1 /\ (<<".">>)[1] = "."
           /\ <<"|">> \in Seq(C) /\ Len(<<"|">>) = 1 /\ (<<"|">>)[1] = "|"
           /\ "." # "|"
  OBVIOUS
<1>1. IsJoined(C, x0, sec, <<".">>) /\ x0 \in Seq(C)
  <2>1. IsJoined(C, x0, sec, <<".">>)
    BY <1>points, Joined, Zenon
  <2> QED BY <2>1, Zenon DEF IsJoined
<1>2. IsJoined(C, x, x0, nsec) /\ x \in Seq(C)
  <2> HIDE DEF x0
  <2>1. IsJoined(C, x, x0, nsec)
    BY <1>1, Joined, Zenon
  <2> QED BY <2>1, Zenon DEF IsJoined
<1>3. IsJoined(C, t1, x, <<"|">>) /\ t1 \in Seq(C)
  <2> HIDE DEF x
  <2>1. IsJoined(C, t1, x, <<"|">>)
    BY <1>points, <1>2, Joined, Zenon
  <2> QED BY <2>1, Zenon DEF IsJoined
<1>4. IsJoined(C, t2, t1, counter) /\ t2 \in Seq(C)
  <2> HIDE DEF t1
  <2>1. IsJoined(C, t2, t1, counter)
    BY <1>3, Joined, Zenon
  <2> QED BY <2>1, Zenon DEF IsJoined
<1>5. IsJoined(C, t3, t2, <<"|">>) /\ t3 \in Seq(C)
  <2> HIDE DEF t2
  <2>1. IsJoined(C, t3, t2, <<"|">>)
    BY <1>points, <1>4, Joined, Zenon
  <2> QED BY <2>1, Zenon DEF IsJoined
<1>6. IsJoined(C, text, t3, random) /\ text \in Seq(C)
  <2> HIDE DEF t3
  <2>1. IsJoined(C, text, t3, random)
    BY <1>5, Joined, Zenon
  <2> QED BY <2>1, Zenon DEF IsJoined
<1> HIDE DEF x0, x, t1, t2, t3, text
<1> DEFINE a == Len(sec)
           b == Len(nsec)
           c == Len(counter)
<1>7. a \in Nat \ {0} /\ b \in Nat \ {0} /\ c \in Nat \ {0} /\ Len(random) \in Nat
  BY <1>plain
<1>8. /\ sec \in Seq(C) /\ x0 \in Seq(C) /\ x \in Seq(C) /\ t1 \in Seq(C) /\ t2 \in Seq(C)
      /\ t3 \in Seq(C) /\ text \in Seq(C)
      /\ Len(x0) = a + 1 /\ Len(x) = a + 1 + b /\ Len(t1) = Len(x) + 1
      /\ Len(t2) = Len(x) + 1 + c /\ Len(t3) = Len(x) + 2 + c
      /\ Len(text) = Len(x) + 2 + c + Len(random)
      /\ Len(x) \in Nat \ {0}
  <2>1. /\ x0 \in Seq(C) /\ x \in Seq(C) /\ t1 \in Seq(C) /\ t2 \in Seq(C)
        /\ t3 \in Seq(C) /\ text \in Seq(C)
        /\ Len(x0) = a + 1 /\ Len(x) = Len(x0) + b /\ Len(t1) = Len(x) + 1
        /\ Len(t2) = Len(t1) + c /\ Len(t3) = Len(t2) + 1
        /\ Len(text) = Len(t3) + Len(random)
    BY <1>points, <1>1, <1>2, <1>3, <1>4, <1>5, <1>6 DEF IsJoined
  <2> HIDE DEF a, b, c
  <2> QED BY <1>7, <2>1
<1>sizes. /\ a \in Nat \ {0} /\ b \in Nat \ {0} /\ c \in Nat \ {0}
          /\ Len(random) \in Nat /\ Len(x) \in Nat \ {0}
          /\ Len(x0) = a + 1 /\ Len(x) = a + 1 + b /\ Len(t1) = Len(x) + 1
          /\ Len(t2) = Len(x) + 1 + c /\ Len(t3) = Len(x) + 2 + c
          /\ Len(text) = Len(x) + 2 + c + Len(random)
  BY <1>7, <1>8, Zenon
<1>9. Stands(x, ".", 1, sec)
  <2>1. 1 + a <= Len(x) + 1 /\ sec # <<>> /\ a + 1 = 1 + a
    BY <1>plain, <1>7, <1>8
  <2>2. ASSUME NEW k \in 1 .. a PROVE sec[k] # "." /\ x[1 + k - 1] = sec[k]
    <3>1. k \in 1 .. a + 1 /\ 1 + k - 1 = k
      BY <1>7
    <3>2. x0[k] = sec[k] /\ x[k] = x0[k]
      BY <1>1, <1>2, <1>8, <3>1 DEF IsJoined
    <3> QED BY <1>plain, <3>1, <3>2
  <2>3. x[a + 1] = "."
    <3>1. x0[a + 1] = "."
      BY <1>points, <1>1 DEF IsJoined
    <3>2. a + 1 \in 1 .. Len(x0)
      BY <1>sizes
    <3>3. x[a + 1] = x0[a + 1]
      BY <1>2, <3>2 DEF IsJoined
    <3> QED BY <3>1, <3>3
  <2> QED BY <2>1, <2>2, <2>3 DEF Stands
<1>10. Stands(x, ".", a + 2, nsec)
  <2>1. a + 2 + b = Len(x) + 1 /\ ~ a + 2 + b <= Len(x)
    BY <1>sizes
  <2>2. ASSUME NEW k \in 1 .. b PROVE nsec[k] # "." /\ x[a + 2 + k - 1] = nsec[k]
    <3>1. a + 2 + k - 1 = Len(x0) + k
      BY <1>sizes
    <3>2. x[Len(x0) + k] = nsec[k]
      BY <1>2 DEF IsJoined
    <3>3. nsec[k] # "."
      BY <1>plain
    <3> QED BY <3>1, <3>2, <3>3, Zenon
  <2> QED BY <1>plain, <2>1, <2>2 DEF Stands
<1>11. Stands(text, "|", 1, x)
  <2>1. 1 + Len(x) <= Len(text) + 1 /\ x # <<>> /\ Len(x) + 1 = 1 + Len(x)
    <3>1. Len(x) # 0
      BY <1>sizes
    <3>2. 1 + Len(x) <= Len(text) + 1 /\ Len(x) + 1 = 1 + Len(x)
      BY <1>sizes
    <3> QED BY <3>1, <3>2
  <2>2. ASSUME NEW k \in 1 .. Len(t1) PROVE text[k] = t1[k]
    <3>1. k \in 1 .. Len(t2) /\ k \in 1 .. Len(t3)
      BY <1>sizes
    <3> QED BY <1>4, <1>5, <1>6, <3>1 DEF IsJoined
  <2>3. ASSUME NEW k \in 1 .. Len(x) PROVE x[k] # "|" /\ text[1 + k - 1] = x[k]
    <3>1. k \in 1 .. Len(t1) /\ 1 + k - 1 = k
      BY <1>sizes
    <3>2. t1[k] = x[k]
      BY <1>3 DEF IsJoined
    <3>3. x[k] # "|"
      <4>1. CASE k <= a
        <5>1. k \in 1 .. a /\ k \in 1 .. Len(x0)
          BY <1>sizes, <4>1
        <5>2. x[k] = x0[k] /\ x0[k] = sec[k]
          BY <1>1, <1>2, <5>1 DEF IsJoined
        <5> QED BY <1>plain, <5>1, <5>2
      <4>2. CASE k = a + 1
        <5>1. k \in 1 .. Len(x0) /\ x0[a + 1] = "."
          BY <1>points, <1>1, <1>7, <1>8, <4>2 DEF IsJoined
        <5>2. x[k] = x0[k]
          BY <1>2, <5>1 DEF IsJoined
        <5> QED BY <1>points, <4>2, <5>1, <5>2
      <4>3. CASE k > a + 1
        <5>1. k - (a + 1) \in 1 .. b /\ Len(x0) + (k - (a + 1)) = k
          BY <1>sizes, <4>3
        <5>2. x[k] = nsec[k - (a + 1)]
          BY <1>2, <5>1 DEF IsJoined
        <5> QED BY <1>plain, <5>1, <5>2
      <4> QED BY <1>7, <4>1, <4>2, <4>3
    <3> QED BY <2>2, <3>1, <3>2, <3>3
  <2>4. text[Len(x) + 1] = "|"
    <3>1. t1[Len(x) + 1] = "|"
      BY <1>points, <1>3 DEF IsJoined
    <3>2. Len(x) + 1 \in 1 .. Len(t1)
      BY <1>sizes
    <3> QED BY <2>2, <3>1, <3>2
  <2> QED BY <2>1, <2>3, <2>4 DEF Stands
<1>12. Stands(text, "|", Len(x) + 2, counter)
  <2>1. Len(x) + 2 + c <= Len(text) + 1
        /\ Len(x) + 2 + c = Len(t2) + 1 /\ Len(t2) + 1 \in 1 .. Len(t3)
    BY <1>sizes
  <2>2. ASSUME NEW k \in 1 .. c
        PROVE  counter[k] # "|" /\ text[Len(x) + 2 + k - 1] = counter[k]
    <3>1. /\ Len(x) + 2 + k - 1 = Len(t1) + k
          /\ Len(t1) + k \in 1 .. Len(t2) /\ Len(t1) + k \in 1 .. Len(t3)
      BY <1>sizes
    <3>2. t2[Len(t1) + k] = counter[k]
      BY <1>4 DEF IsJoined
    <3>3. text[Len(t1) + k] = t2[Len(t1) + k]
      BY <1>5, <1>6, <3>1 DEF IsJoined
    <3>4. counter[k] # "|"
      BY <1>plain
    <3> QED BY <3>1, <3>2, <3>3, <3>4, Zenon
  <2>3. text[Len(x) + 2 + c] = "|"
    <3>1. t3[Len(t2) + 1] = "|"
      BY <1>points, <1>5 DEF IsJoined
    <3> QED BY <1>6, <2>1, <3>1 DEF IsJoined
  <2> QED BY <1>plain, <2>1, <2>2, <2>3 DEF Stands
<1>13. IsPair(split(x, "."), sec, nsec)
  <2>1. 1 + a < Len(x) /\ 1 + a + 1 = a + 2 /\ ~ a + 2 + b < Len(x)
        /\ 1 \in 1 .. Len(x) + 1 /\ a + 2 \in 1 .. Len(x) + 1
    <3>1. \A i, j \in Nat \ {0} : \A l \in Nat : l = i + 1 + j =>
            /\ 1 + i < l /\ 1 + i + 1 = i + 2 /\ ~ i + 2 + j < l
            /\ 1 \in 1 .. l + 1 /\ i + 2 \in 1 .. l + 1
      OBVIOUS
    <3>2. Len(x) \in Nat /\ Len(x) = a + 1 + b
      BY <1>sizes
    <3> QED BY <1>7, <3>1, <3>2, Zenon
  <2>2. RunsFrom(x, ".", 1) = <<sec>> \o RunsFrom(x, ".", a + 2)
    <3>1. RunsFrom(x, ".", 1) = <<sec>> \o RunsAfter(x, ".", 1, sec)
      <4>1. CutOff(C, x, ".", 1, sec)
        BY <1>8, <1>9, <2>1, CutFirst, Zenon
      <4> QED BY <4>1 DEF CutOff
    <3> QED BY <2>1, <3>1 DEF RunsAfter
  <2>3. RunsFrom(x, ".", a + 2) = <<nsec>>
    <3>1. RunsFrom(x, ".", a + 2) = <<nsec>> \o RunsAfter(x, ".", a + 2, nsec)
      <4>1. CutOff(C, x, ".", a + 2, nsec)
        BY <1>8, <1>10, <2>1, CutFirst, Zenon
      <4> QED BY <4>1 DEF CutOff
    <3>2. RunsAfter(x, ".", a + 2, nsec) = <<>>
      BY <2>1 DEF RunsAfter
    <3>3. <<nsec>> \o <<>> = <<nsec>>
      OBVIOUS
    <3> QED BY <3>1, <3>2, <3>3
  <2>4. IsPair(<<sec>> \o <<nsec>>, sec, nsec)
    BY TwoPieces, Zenon
  <2>5. split(x, ".") = RunsFrom(x, ".", 1)
    BY <1>8, SplitRuns, Zenon
  <2> QED BY <2>2, <2>3, <2>4, <2>5
<1>14. split(text, "|") # <<>> /\ split(text, "|")[1] = x /\ split(text, "|")[2] = counter
  <2>1. 1 + Len(x) < Len(text) /\ 1 + Len(x) + 1 = Len(x) + 2
        /\ 1 \in 1 .. Len(text) + 1 /\ Len(x) + 2 \in 1 .. Len(text) + 1
    BY <1>sizes
  <2>2. RunsFrom(text, "|", 1) = <<x>> \o RunsFrom(text, "|", Len(x) + 2)
    <3>1. RunsFrom(text, "|", 1) = <<x>> \o RunsAfter(text, "|", 1, x)
      <4>1. CutOff(C, text, "|", 1, x)
        BY <1>8, <1>11, <2>1, CutFirst, Zenon
      <4> QED BY <4>1 DEF CutOff
    <3> QED BY <2>1, <3>1 DEF RunsAfter
  <2> DEFINE q == RunsAfter(text, "|", Len(x) + 2, counter)
  <2>3. RunsFrom(text, "|", Len(x) + 2) = <<counter>> \o q /\ q \in Seq(Seq(C))
    <3>1. CutOff(C, text, "|", Len(x) + 2, counter)
      BY <1>8, <1>12, <2>1, CutFirst, Zenon
    <3> QED BY <3>1 DEF CutOff
  <2> HIDE DEF q
  <2>4. BeginsWith(<<x>> \o (<<counter>> \o q), x, counter)
    BY <1>8, <2>3, FirstTwo, Zenon
  <2>5. split(text, "|") = <<x>> \o (<<counter>> \o q)
    <3>1. split(text, "|") = RunsFrom(text, "|", 1)
      BY <1>8, SplitRuns, Zenon
    <3> QED BY <2>2, <2>3, <3>1
  <2> QED BY <2>4, <2>5 DEF BeginsWith
<1> QED BY <1>13, <1>14 DEF CutInto, FilledUp, text, t3, t2, t1, x, x0

\* PayloadSurvives: whatever numbers the publisher writes into a payload and
\* whatever fills it up, the listener accepts it and reads those numbers.
THEOREM PayloadSurvivesHolds == Spec => []PayloadSurvives
<1>1. ASSUME NEW i \in Seq(Char), NEW s \in Nat, NEW n \in Nat, NEW c \in Nat
      PROVE  onReceive(payload(s, n, c, i)) = {<<s, n, c>>}
  <2> DEFINE C == DecimalSet \cup Char \cup {".", "|"}
             sec == Decimal(s)
             nsec == Decimal(n)
             counter == Decimal(c)
             text == payload(s, n, c, i)
             pieces == split(text, "|")
             time == split(pieces[1], ".")
  <2>1. ASSUME NEW m \in Nat
        PROVE  Decimal(m) \in Seq(C) /\ Plain(Decimal(m))
    <3> DEFINE d == Decimal(m)
    <3>1. d \in Seq(DecimalSet) /\ Len(d) >= 1
      BY DecimalNumber, Zenon
    <3> HIDE DEF d
    <3>2. \A k \in 1 .. Len(d) : d[k] \in DecimalSet
      BY <3>1
    <3>3. \A k \in 1 .. Len(d) : d[k] \in C /\ d[k] # "." /\ d[k] # "|"
      BY <3>2, DecimalDigits
    <3> HIDE DEF C
    <3>4. d \in Seq(C) /\ d # <<>>
      BY <3>1, <3>3
    <3> QED BY <3>3, <3>4 DEF Plain, d
  <2>2. sec \in Seq(C) /\ nsec \in Seq(C) /\ counter \in Seq(C)
    BY <2>1, Zenon
  <2>3. Plain(sec) /\ Plain(nsec) /\ Plain(counter)
    BY <2>1, Zenon
  <2>4. i \in Seq(C) /\ "." \in C /\ "|" \in C
    <3>1. \A k \in 1 .. Len(i) : i[k] \in C
      OBVIOUS
    <3>2. "." \in C /\ "|" \in C
      OBVIOUS
    <3> HIDE DEF C
    <3> QED BY <3>1, <3>2
  <2>5. text = FilledUp(sec, nsec, counter, i)
    BY DEF payload, FilledUp
  <2> HIDE DEF C, sec, nsec, counter, text
  <2>6. pieces # <<>> /\ pieces[2] = counter /\ IsPair(time, sec, nsec)
    <3>1. CutInto(FilledUp(sec, nsec, counter, i), sec, nsec, counter)
      BY <2>2, <2>3, <2>4, PayloadCut, Zenon
    <3> QED BY <2>5, <3>1 DEF CutInto
  <2>7. strtol(sec) = s /\ strtol(nsec) = n /\ strtol(counter) = c
    BY NumberRead, Zenon DEF sec, nsec, counter
  <2> HIDE DEF pieces
  <2>8. onReceive(text) = {<<strtol(time[1]), strtol(time[2]), strtol(pieces[2])>>}
    BY <2>6 DEF onReceive, IsPair, pieces
  <2> HIDE DEF time
  <2> QED BY <2>6, <2>7, <2>8 DEF IsPair, text
<1>2. InputsOK => PayloadSurvives
  <2>1. \A m \in Figure : m \in Nat
    BY FigureAssumption
  <2> QED BY <1>1, <2>1 DEF InputsOK, PayloadSurvives
<1> QED BY <1>2, Inputs, PTL
-----------------------------------------------------------------------------
(* Lists of pipes. *)

\* The element of a rank stands at that place.
LEMMA InOrderIs ==
  ASSUME NEW S \in SUBSET Nat, IsFiniteSet(S)
  PROVE  /\ Cardinality(S) \in Nat
         /\ InOrder(S) \in [1 .. Cardinality(S) -> S]
         /\ \A x \in S : /\ Rank(S, x) \in 1 .. Cardinality(S)
                         /\ InOrder(S)[Rank(S, x)] = x
<1> DEFINE n == Cardinality(S)
           r == [x \in S |-> Rank(S, x)]
<1>1. n \in Nat /\ IsFiniteSet(1 .. n) /\ Cardinality(1 .. n) = n
  <2>1. n \in Nat
    BY FS_CardinalityType
  <2> HIDE DEF n
  <2>2. IsFiniteSet(1 .. n) /\ Cardinality(1 .. n) = IF 1 > n THEN 0 ELSE n - 1 + 1
    BY <2>1, FS_Interval
  <2> QED BY <2>1, <2>2
<1>2. ASSUME NEW x \in S PROVE Rank(S, x) \in 1 .. n
  <2> DEFINE U == {y \in S : y <= x}
  <2>1. U \subseteq S /\ x \in U
    OBVIOUS
  <2> HIDE DEF U
  <2>2. IsFiniteSet(U) /\ Cardinality(U) \in Nat /\ Cardinality(U) <= n
    BY <2>1, Fewer
  <2>3. Cardinality(U) # 0
    BY <2>1, <2>2, FS_EmptySet
  <2> QED BY <1>1, <2>2, <2>3 DEF Rank, U
<1>3. ASSUME NEW x \in S, NEW y \in S, x < y PROVE Rank(S, x) # Rank(S, y)
  <2> DEFINE U == {z \in S : z <= x}
             V == {z \in S : z <= y}
  <2>1. /\ V \subseteq S /\ y \in V /\ y \notin U
        /\ U \subseteq V
    <3>1. \A z \in S : z <= x => z <= y
      BY <1>3
    <3>2. ~ y <= x /\ y <= y
      BY <1>3
    <3> QED BY <3>1, <3>2
  <2> HIDE DEF U, V
  <2>2. IsFiniteSet(V)
    BY <2>1, Fewer
  <2>3. Cardinality(U) # Cardinality(V)
    BY <2>1, <2>2, Fewer
  <2> QED BY <2>3 DEF Rank, U, V
<1>4. ASSUME NEW x \in S, NEW y \in S, Rank(S, x) = Rank(S, y) PROVE x = y
  <2>1. x \in Nat /\ y \in Nat
    OBVIOUS
  <2>2. ~ x < y /\ ~ y < x
    BY <1>3, <1>4
  <2> QED BY <2>1, <2>2
<1>5. r \in Surjection(S, 1 .. n)
  <2>1. r \in Injection(S, 1 .. n)
    BY <1>2, <1>4 DEF Injection, IsInjective
  <2> HIDE DEF r, n
  <2>2. Cardinality(S) = Cardinality(1 .. n) <=> r \in Surjection(S, 1 .. n)
    BY <1>1, <2>1, FS_Injection
  <2> QED BY <1>1, <2>2 DEF n
<1>6. ASSUME NEW k \in 1 .. n PROVE \E x \in S : Rank(S, x) = k
  BY <1>5 DEF Surjection
<1>7. InOrder(S) = [k \in 1 .. n |-> CHOOSE x \in S : Rank(S, x) = k]
  BY DEF InOrder, Rank
<1>8. ASSUME NEW k \in 1 .. n PROVE (CHOOSE x \in S : Rank(S, x) = k) \in S
  BY <1>6
<1>9. ASSUME NEW y \in S
      PROVE  (CHOOSE x \in S : Rank(S, x) = Rank(S, y)) = y
  BY <1>4
<1>10. InOrder(S) \in [1 .. n -> S]
  BY <1>7, <1>8
<1>11. \A x \in S : Rank(S, x) \in 1 .. n /\ InOrder(S)[Rank(S, x)] = x
  BY <1>2, <1>7, <1>9
<1> QED BY <1>1, <1>10, <1>11

ListChars == DecimalSet \cup {"[", ",", "]"}

\* The empty list, brackets and commas are texts of the list.
LEMMA ListPoints ==
  /\ <<>> \in Seq(ListChars) /\ <<"[">> \in Seq(ListChars)
  /\ <<",">> \in Seq(ListChars) /\ <<"]">> \in Seq(ListChars)
<1>1. "[" \in ListChars /\ "," \in ListChars /\ "]" \in ListChars
  BY DEF ListChars
<1>2. \A D : <<>> \in Seq(D) /\ \A c \in D : <<c>> \in Seq(D)
  OBVIOUS
<1> QED BY <1>1, <1>2, Zenon

\* Pipes are numbers written in those characters.
LEMMA DecimalList == \A n \in Nat : Decimal(n) \in Seq(ListChars)
<1> SUFFICES ASSUME NEW n \in Nat PROVE Decimal(n) \in Seq(ListChars)
  OBVIOUS
<1> DEFINE d == Decimal(n)
<1>1. d \in Seq(DecimalSet)
  BY DecimalNumber, Zenon
<1> HIDE DEF d
<1>2. \A k \in 1 .. Len(d) : d[k] \in ListChars
  <2>1. \A k \in 1 .. Len(d) : d[k] \in DecimalSet
    BY <1>1
  <2> QED BY <2>1 DEF ListChars
<1>3. d \in Seq(ListChars)
  BY <1>1, <1>2
<1> QED BY <1>3 DEF d

\* ListOf, one pipe after another.
LEMMA ListIs ==
  ASSUME NEW m \in Nat, NEW pipes \in [1 .. m -> Nat]
  PROVE  \E g \in [0 .. m -> Seq(ListChars)] :
           /\ g[0] = <<"[">>
           /\ \A k \in 1 .. m :
                g[k] = g[k - 1] \o (IF k = 1 THEN <<>> ELSE <<",">>)
                         \o Decimal(pipes[k])
           /\ ListOf(pipes) = g[m] \o <<"]">>
<1> DEFINE S == Seq(ListChars)
           comma(k) == IF k = 1 THEN <<>> ELSE <<",">>
           step == [p \in (1 .. m) \X S |-> p[2] \o comma(p[1]) \o Decimal(pipes[p[1]])]
           joined[k \in 0 .. Len(pipes)] ==
             IF k = 0 THEN <<"[">>
             ELSE joined[k - 1] \o (IF k = 1 THEN <<>> ELSE <<",">>)
                    \o Decimal(pipes[k])
<1>1. Len(pipes) = m /\ m \in Nat
  OBVIOUS
<1>2. ListOf(pipes) = joined[m] \o <<"]">>
  BY <1>1 DEF ListOf
<1>3. /\ <<"[">> \in S
      /\ \A k \in 1 .. m, x \in S : x \o comma(k) \o Decimal(pipes[k]) \in S
  <2>1. <<"[">> \in S /\ <<",">> \in S /\ <<>> \in S
    BY ListPoints, Zenon
  <2>2. \A k \in 1 .. m : comma(k) \in S
    <3> HIDE DEF S
    <3> QED BY <2>1
  <2>3. \A k \in 1 .. m : Decimal(pipes[k]) \in S
    <3>1. \A k \in 1 .. m : pipes[k] \in Nat
      OBVIOUS
    <3> QED BY <3>1, DecimalList, Zenon
  <2> HIDE DEF comma
  <2>4. \A x, y, z \in S : x \o y \o z \in S
    OBVIOUS
  <2> HIDE DEF S
  <2> QED BY <2>1, <2>2, <2>3, <2>4, Zenon
<1>4. step \in [(1 .. m) \X S -> S]
  <2> HIDE DEF comma, S
  <2>1. \A q \in (1 .. m) \X S : q[1] \in 1 .. m /\ q[2] \in S
    OBVIOUS
  <2>2. \A q \in (1 .. m) \X S : q[2] \o comma(q[1]) \o Decimal(pipes[q[1]]) \in S
    BY <1>3, <2>1, Zenon
  <2> QED BY <2>2, Zenon
<1>5. \A k \in 1 .. m, x \in S : step[<<k, x>>] = x \o comma(k) \o Decimal(pipes[k])
  OBVIOUS
<1>6. PICK g \in [0 .. m -> S] : Loops(g, m, <<"[">>, step)
  <2> HIDE DEF S, step
  <2> QED BY <1>1, <1>3, <1>4, Loop, Zenon
<1>7. g = [n \in 0 .. m |-> IF n = 0 THEN <<"[">> ELSE step[<<n, g[n - 1]>>]]
  BY <1>6 DEF Loops
<1> HIDE DEF step
<1>8. g = [k \in 0 .. m |-> IF k = 0 THEN <<"[">>
                            ELSE g[k - 1] \o comma(k) \o Decimal(pipes[k])]
  <2>1. ASSUME NEW n \in 0 .. m
        PROVE  g[n] = IF n = 0 THEN <<"[">>
                      ELSE g[n - 1] \o comma(n) \o Decimal(pipes[n])
    <3>1. n # 0 => n \in 1 .. m /\ n - 1 \in 0 .. m
      OBVIOUS
    <3>2. n # 0 => g[n - 1] \in S
      BY <3>1
    <3> HIDE DEF comma, S
    <3> QED BY <1>5, <1>7, <3>1, <3>2
  <2> HIDE DEF comma
  <2> QED BY <2>1
<1>9. joined = [k \in 0 .. m |-> IF k = 0 THEN <<"[">>
                                 ELSE joined[k - 1] \o comma(k) \o Decimal(pipes[k])]
  BY <1>1, <1>8
<1> HIDE DEF joined
<1> DEFINE T == {k \in 0 .. m : joined[k] \in S}
<1>10. 0 \in T
  <2> HIDE DEF comma
  <2>1. 0 \in 0 .. m
    OBVIOUS
  <2>2. joined[0] = <<"[">>
    BY <1>9, <2>1
  <2> HIDE DEF S
  <2> QED BY <1>3, <2>1, <2>2
<1>11. ASSUME NEW n \in 1 .. m, n - 1 \in T PROVE n \in T
  <2>1. joined[n] = joined[n - 1] \o comma(n) \o Decimal(pipes[n])
        /\ joined[n - 1] \in S /\ n \in 0 .. m
    <3>1. n \in 0 .. m /\ n # 0 /\ n - 1 \in T
      BY <1>11
    <3> HIDE DEF comma
    <3> QED BY <1>9, <3>1
  <2> HIDE DEF comma, S
  <2> QED BY <1>3, <2>1
<1>12. 0 .. m \subseteq T
  <2> HIDE DEF T
  <2> QED BY <1>10, <1>11, UpwardInduction
<1>13. joined \in [0 .. m -> S]
  <2>1. \A k \in 0 .. m : joined[k] \in S
    BY <1>12
  <2> HIDE DEF comma, S
  <2> QED BY <1>9, <2>1
<1>14. joined[0] = <<"[">> /\ \A k \in 1 .. m :
         joined[k] = joined[k - 1] \o comma(k) \o Decimal(pipes[k])
  <2>1. 0 \in 0 .. m /\ \A k \in 1 .. m : k \in 0 .. m /\ k # 0
    OBVIOUS
  <2> HIDE DEF comma
  <2> QED BY <1>9, <2>1
<1> QED BY <1>2, <1>13, <1>14

IsSub(p) == p % 2 = 1

\* getAllTypeKeys, one process after another.
LEMMA KeysAre ==
  ASSUME NEW n \in Nat, NEW order \in [1 .. n -> 0 .. n - 1]
  PROVE  \E s \in [0 .. n -> Seq(ListChars)] :
           /\ s[0] = <<"[">>
           /\ \A k \in 1 .. n :
                /\ IsSub(order[k]) =>
                     s[k] = s[k - 1] \o Decimal(order[k]) \o <<",">>
                /\ ~ IsSub(order[k]) => s[k] = s[k - 1]
           /\ getAllTypeKeys(order, "sub") = Closed(s[n])
<1> DEFINE S == Seq(ListChars)
           type == createServerPortlist(Len(order))
           add(k, x) == IF type[order[k]] # "sub" THEN x
                        ELSE x \o Decimal(order[k]) \o <<",">>
           step == [p \in (1 .. n) \X S |-> add(p[1], p[2])]
           s[k \in 0 .. Len(order)] ==
             IF k = 0 THEN <<"[">>
             ELSE IF type[order[k]] # "sub" THEN s[k - 1]
             ELSE s[k - 1] \o Decimal(order[k]) \o <<",">>
<1>1. Len(order) = n
  OBVIOUS
<1>2. getAllTypeKeys(order, "sub") = Closed(s[n])
  BY <1>1 DEF getAllTypeKeys
<1>3. ASSUME NEW k \in 1 .. n PROVE type[order[k]] = "sub" <=> IsSub(order[k])
  <2>1. order[k] \in 0 .. n - 1
    OBVIOUS
  <2>2. order[k] % 2 = 0 \/ order[k] % 2 = 1
    BY <2>1
  <2>3. type[order[k]] = IF order[k] % 2 = 0 THEN "pub" ELSE "sub"
    BY <1>1, <2>1 DEF createServerPortlist
  <2> QED BY <2>2, <2>3 DEF IsSub
<1>4. ASSUME NEW k \in 1 .. n, NEW x \in S PROVE add(k, x) \in S
  <2>1. order[k] \in Nat
    <3>1. order[k] \in 0 .. n - 1
      OBVIOUS
    <3> QED BY <3>1
  <2>2. Decimal(order[k]) \in S /\ <<",">> \in S
    BY <2>1, DecimalList, ListPoints, Zenon
  <2>3. \A u, v, w \in S : u \o v \o w \in S
    OBVIOUS
  <2>4. x \o Decimal(order[k]) \o <<",">> \in S
    BY <2>2, <2>3, Zenon
  <2> HIDE DEF S, type
  <2> QED BY <2>4
<1>5. <<"[">> \in S
  BY ListPoints, Zenon
<1> HIDE DEF type
<1>6. step \in [(1 .. n) \X S -> S]
  <2> HIDE DEF add, S
  <2>1. \A q \in (1 .. n) \X S : q[1] \in 1 .. n /\ q[2] \in S
    OBVIOUS
  <2>2. \A q \in (1 .. n) \X S : add(q[1], q[2]) \in S
    BY <1>4, <2>1, Zenon
  <2> QED BY <2>2, Zenon
<1>7. \A k \in 1 .. n, x \in S : step[<<k, x>>] = add(k, x)
  <2> HIDE DEF add, S
  <2> QED OBVIOUS
<1>8. PICK g \in [0 .. n -> S] : Loops(g, n, <<"[">>, step)
  <2> HIDE DEF S, step
  <2> QED BY <1>5, <1>6, Loop, Zenon
<1>9. g = [k \in 0 .. n |-> IF k = 0 THEN <<"[">> ELSE step[<<k, g[k - 1]>>]]
  BY <1>8 DEF Loops
<1> HIDE DEF step
<1>10. g = [k \in 0 .. n |-> IF k = 0 THEN <<"[">> ELSE add(k, g[k - 1])]
  <2> HIDE DEF add, S
  <2>1. ASSUME NEW k \in 0 .. n
        PROVE  g[k] = IF k = 0 THEN <<"[">> ELSE add(k, g[k - 1])
    <3>1. k # 0 => k \in 1 .. n /\ k - 1 \in 0 .. n
      OBVIOUS
    <3>2. k # 0 => g[k - 1] \in S
      BY <3>1
    <3> QED BY <1>7, <1>9, <3>1, <3>2
  <2> QED BY <2>1
<1>11. s = [k \in 0 .. n |-> IF k = 0 THEN <<"[">> ELSE add(k, s[k - 1])]
  <2>1. s = [k \in 0 .. Len(order) |->
               IF k = 0 THEN <<"[">>
               ELSE IF type[order[k]] # "sub" THEN s[k - 1]
               ELSE s[k - 1] \o Decimal(order[k]) \o <<",">>]
    BY <1>1, <1>10
  <2> HIDE DEF s
  <2> QED BY <1>1, <2>1
<1> HIDE DEF s
<1> DEFINE T == {k \in 0 .. n : s[k] \in S}
<1>12. 0 \in T
  <2> HIDE DEF add, S
  <2>1. 0 \in 0 .. n
    OBVIOUS
  <2>2. s[0] = <<"[">>
    BY <1>11, <2>1
  <2> QED BY <1>5, <2>1, <2>2
<1>13. ASSUME NEW k \in 1 .. n, k - 1 \in T PROVE k \in T
  <2> HIDE DEF add, S
  <2>1. k \in 0 .. n /\ k # 0 /\ s[k - 1] \in S
    BY <1>13
  <2>2. s[k] = add(k, s[k - 1])
    BY <1>11, <2>1
  <2> QED BY <1>4, <2>1, <2>2
<1>14. 0 .. n \subseteq T
  <2> HIDE DEF T
  <2> QED BY <1>12, <1>13, UpwardInduction
<1>15. s \in [0 .. n -> S] /\ s[0] = <<"[">> /\ \A k \in 1 .. n : s[k] = add(k, s[k - 1])
  <2>1. \A k \in 0 .. n : s[k] \in S
    BY <1>14
  <2>2. 0 \in 0 .. n /\ \A k \in 1 .. n : k \in 0 .. n /\ k # 0
    OBVIOUS
  <2> HIDE DEF add, S
  <2> QED BY <1>11, <2>1, <2>2
<1>16. \A k \in 1 .. n : /\ IsSub(order[k]) =>
                              s[k] = s[k - 1] \o Decimal(order[k]) \o <<",">>
                         /\ ~ IsSub(order[k]) => s[k] = s[k - 1]
  BY <1>3, <1>15
<1> QED BY <1>2, <1>15, <1>16

\* Two processes or more have a subscriber among them.
LEMMA SomeSub ==
  ASSUME NEW n \in Nat, n >= 2, NEW order \in [1 .. n -> 0 .. n - 1],
         IsInjective(order)
  PROVE  \E k \in 1 .. n : IsSub(order[k])
<1>1. IsFiniteSet(0 .. n - 1) /\ Cardinality(0 .. n - 1) = n /\ Cardinality(1 .. n) = n
  <2>1. /\ IsFiniteSet(0 .. n - 1)
        /\ Cardinality(0 .. n - 1) = IF 0 > n - 1 THEN 0 ELSE n - 1 - 0 + 1
        /\ Cardinality(1 .. n) = IF 1 > n THEN 0 ELSE n - 1 + 1
    <3>1. n - 1 \in Int /\ n \in Int /\ 0 \in Int /\ 1 \in Int
      OBVIOUS
    <3> QED BY <3>1, FS_Interval
  <2> QED BY <2>1
<1>2. order \in Injection(1 .. n, 0 .. n - 1)
  BY DEF Injection
<1>3. order \in Surjection(1 .. n, 0 .. n - 1)
  BY <1>1, <1>2, FS_Injection
<1>4. 1 \in 0 .. n - 1
  OBVIOUS
<1>5. PICK k \in 1 .. n : order[k] = 1
  BY <1>3, <1>4 DEF Surjection
<1>6. 1 % 2 = 1
  OBVIOUS
<1> QED BY <1>5, <1>6 DEF IsSub

\* pop_back and a bracket replace the last comma.
LEMMA LastReplaced ==
  ASSUME NEW D, NEW x \in Seq(D), NEW c \in D, NEW e \in D
  PROVE  Append(Front(x \o <<c>>), e) = x \o <<e>>
<1>1. Front(x \o <<c>>) = x
  BY DEF Front
<1>2. Append(x, e) = x \o <<e>>
  OBVIOUS
<1> QED BY <1>1, <1>2

\* How many elements there are up to each number, one number after another.
LEMMA RankStep ==
  ASSUME NEW n \in Nat, NEW P \in SUBSET (1 .. n)
  PROVE  /\ IsFiniteSet(P) /\ Rank(P, 0) = 0 /\ Rank(P, n) = Cardinality(P)
         /\ \A k \in 0 .. n : Rank(P, k) \in Nat
         /\ \A k \in 1 .. n :
              Rank(P, k) = Rank(P, k - 1) + (IF k \in P THEN 1 ELSE 0)
<1> DEFINE Lower(k) == {j \in P : j <= k}
<1>1. IsFiniteSet(P) /\ \A j \in P : j \in Nat /\ j >= 1 /\ j <= n
  <2>1. IsFiniteSet(1 .. n)
    BY FS_Interval
  <2>2. IsFiniteSet(P)
    BY <2>1, FS_Subset
  <2> QED BY <2>2
<1>2. ASSUME NEW k \in 0 .. n PROVE IsFiniteSet(Lower(k)) /\ Rank(P, k) \in Nat
  <2>1. Lower(k) \subseteq P
    OBVIOUS
  <2> HIDE DEF Lower
  <2>2. IsFiniteSet(Lower(k)) /\ Cardinality(Lower(k)) \in Nat
    BY <1>1, <2>1, Fewer
  <2> QED BY <2>2 DEF Rank, Lower
<1>3. Rank(P, 0) = 0
  <2>1. \A j \in P : ~ j <= 0
    BY <1>1
  <2>2. Lower(0) = {}
    BY <2>1
  <2> HIDE DEF Lower
  <2>3. Cardinality(Lower(0)) = 0
    BY <2>2, FS_EmptySet
  <2> QED BY <2>3 DEF Rank, Lower
<1>4. Rank(P, n) = Cardinality(P)
  <2>1. Lower(n) = P
    BY <1>1, Zenon
  <2> QED BY <2>1 DEF Rank
<1>5. ASSUME NEW k \in 1 .. n
      PROVE  Rank(P, k) = Rank(P, k - 1) + (IF k \in P THEN 1 ELSE 0)
  <2>1. /\ \A j \in P : j <= k <=> (j <= k - 1 \/ j = k)
        /\ ~ k <= k - 1 /\ k - 1 \in 0 .. n
    BY <1>1
  <2>2. IsFiniteSet(Lower(k - 1)) /\ Rank(P, k - 1) \in Nat
    BY <1>2, <2>1
  <2>3. CASE k \notin P
    <3>1. Lower(k) = Lower(k - 1)
      BY <2>1, <2>3, Zenon
    <3>2. Rank(P, k) = Rank(P, k - 1)
      BY <3>1, Zenon DEF Rank
    <3> QED BY <2>2, <2>3, <3>2
  <2>4. CASE k \in P
    <3>1. Lower(k) = Lower(k - 1) \cup {k} /\ k \notin Lower(k - 1)
      BY <2>1, <2>4
    <3> HIDE DEF Lower
    <3>2. Cardinality(Lower(k)) = Cardinality(Lower(k - 1)) + 1
      BY <2>2, <3>1, FS_AddElement
    <3> QED BY <2>4, <3>2 DEF Rank, Lower
  <2> QED BY <2>3, <2>4
<1> QED BY <1>1, <1>2, <1>3, <1>4, <1>5

\* getAllTypeKeys writes the list of the subscribers' pipes.
LEMMA ConnectKey ==
  ASSUME NEW n \in Nat, n >= 2, NEW order \in [1 .. n -> 0 .. n - 1],
         IsInjective(order)
  PROVE  LET subs == InOrder({k \in 1 .. n : order[k] % 2 = 1})
         IN  getAllTypeKeys(order, "sub")
               = ListOf([k \in DOMAIN subs |-> order[subs[k]]])
<1> DEFINE P == {k \in 1 .. n : order[k] % 2 = 1}
           m == Cardinality(P)
           subs == InOrder(P)
           pipes == [k \in DOMAIN subs |-> order[subs[k]]]
           c == [k \in 0 .. n |-> Rank(P, k)]
<1>1. P \in SUBSET Nat /\ P \in SUBSET (1 .. n) /\ IsFiniteSet(P)
  <2>1. P \in SUBSET (1 .. n)
    OBVIOUS
  <2> HIDE DEF P
  <2>2. IsFiniteSet(P)
    BY <2>1, RankStep
  <2> QED BY <2>1, <2>2
<1>2. \A k \in 1 .. n : k \in P <=> IsSub(order[k])
  BY DEF IsSub
<1> HIDE DEF P
<1>3. /\ m \in Nat /\ subs \in [1 .. m -> P]
      /\ \A x \in P : Rank(P, x) \in 1 .. m /\ subs[Rank(P, x)] = x
  BY <1>1, InOrderIs, Zenon
<1> HIDE DEF m, subs
<1>4. pipes \in [1 .. m -> Nat] /\ \A x \in P : pipes[Rank(P, x)] = order[x]
  <2>1. \A k \in 1 .. m : subs[k] \in 1 .. n
    BY <1>1, <1>3
  <2>2. \A j \in 1 .. n : order[j] \in Nat
    <3>1. \A j \in 1 .. n : order[j] \in 0 .. n - 1
      OBVIOUS
    <3> QED BY <3>1
  <2>3. \A k \in 1 .. m : order[subs[k]] \in Nat
    BY <2>1, <2>2
  <2>4. pipes = [k \in 1 .. m |-> order[subs[k]]]
    BY <1>3
  <2> HIDE DEF pipes
  <2> QED BY <1>3, <2>3, <2>4
<1> HIDE DEF pipes
<1>5. PICK g \in [0 .. m -> Seq(ListChars)] :
        /\ g[0] = <<"[">>
        /\ \A k \in 1 .. m : g[k] = g[k - 1] \o (IF k = 1 THEN <<>> ELSE <<",">>)
                                      \o Decimal(pipes[k])
        /\ ListOf(pipes) = g[m] \o <<"]">>
  BY <1>3, <1>4, ListIs
<1>6. PICK s \in [0 .. n -> Seq(ListChars)] :
        /\ s[0] = <<"[">>
        /\ \A k \in 1 .. n : /\ IsSub(order[k]) =>
                                  s[k] = s[k - 1] \o Decimal(order[k]) \o <<",">>
                             /\ ~ IsSub(order[k]) => s[k] = s[k - 1]
        /\ getAllTypeKeys(order, "sub") = Closed(s[n])
  BY KeysAre
<1>7. c \in [0 .. n -> Nat] /\ c[0] = 0 /\ c[n] = m
  <2>1. /\ Rank(P, 0) = 0 /\ Rank(P, n) = m
        /\ \A k \in 0 .. n : Rank(P, k) \in Nat
    BY <1>1, RankStep DEF m
  <2>2. 0 \in 0 .. n /\ n \in 0 .. n
    OBVIOUS
  <2>3. c[0] = Rank(P, 0) /\ c[n] = Rank(P, n)
    BY <2>2
  <2>4. c \in [0 .. n -> Nat]
    BY <2>1
  <2> HIDE DEF c
  <2> QED BY <2>1, <2>3, <2>4, Zenon
<1>8. \A k \in 1 .. n : c[k] = c[k - 1] + (IF k \in P THEN 1 ELSE 0)
  <2>1. \A k \in 1 .. n : Rank(P, k) = Rank(P, k - 1) + (IF k \in P THEN 1 ELSE 0)
    BY <1>1, RankStep
  <2>2. \A k \in 1 .. n : c[k] = Rank(P, k) /\ c[k - 1] = Rank(P, k - 1)
    OBVIOUS
  <2> QED BY <2>1, <2>2
<1>9. \A k \in P : c[k] \in 1 .. m /\ pipes[c[k]] = order[k]
  <2>1. \A k \in P : c[k] = Rank(P, k)
    <3>1. \A k \in P : k \in 0 .. n
      BY <1>1
    <3> QED BY <3>1
  <2> HIDE DEF c
  <2> QED BY <1>3, <1>4, <2>1
<1> HIDE DEF c
<1>10. 0 \in 0 .. m /\ 0 \in 0 .. n /\ n \in 0 .. n /\ n \in 1 .. n /\ m \in Nat
  BY <1>3
<1>11. \A k \in 0 .. n : c[k] \in Nat
  BY <1>7
<1> DEFINE Shown(k) == IF c[k] = 0 THEN <<"[">> ELSE g[c[k]] \o <<",">>
           Good(k) == c[k] \in 0 .. m /\ s[k] = Shown(k)
           T == {k \in 0 .. n : Good(k)}
<1>12. 0 \in T
  <2>1. s[0] = Shown(0)
    BY <1>6, <1>7, Zenon
  <2>2. c[0] \in 0 .. m
    BY <1>7, <1>10, Zenon
  <2> HIDE DEF Shown
  <2> QED BY <2>1, <2>2, <1>10
<1>13. ASSUME NEW k \in 1 .. n, k - 1 \in T PROVE k \in T
  <2>1. k \in 0 .. n /\ k - 1 \in 0 .. n
    OBVIOUS
  <2>2. Good(k - 1)
    <3> HIDE DEF Good
    <3> QED BY <1>13
  <2>3. c[k - 1] \in 0 .. m /\ s[k - 1] = Shown(k - 1)
    <3> HIDE DEF Shown
    <3> QED BY <2>2
  <2>4. c[k - 1] \in Nat /\ c[k] \in Nat
    BY <1>11, <2>1, Zenon
  <2>5. c[k] = c[k - 1] + (IF k \in P THEN 1 ELSE 0)
    BY <1>8, Zenon
  <2>6. ASSUME Good(k) PROVE k \in T
    <3> HIDE DEF Good
    <3> QED BY <2>1, <2>6
  <2>7. CASE k \notin P
    <3>1. s[k] = s[k - 1]
      <4> HIDE DEF T, Good, Shown
      <4> QED BY <1>2, <1>6, <2>7
    <3>2. c[k] = c[k - 1]
      <4> HIDE DEF T, Good, Shown
      <4>1. c[k] = c[k - 1] + 0
        BY <2>7, <2>5, Zenon
      <4>2. \A x \in Nat : x + 0 = x
        OBVIOUS
      <4> QED BY <2>4, <4>1, <4>2, Zenon
    <3>3. Good(k)
      BY <2>3, <3>1, <3>2, Zenon
    <3> QED BY <2>6, <3>3, Zenon
  <2>8. CASE k \in P
    <3>1. s[k] = s[k - 1] \o Decimal(order[k]) \o <<",">>
      <4> HIDE DEF T, Good, Shown
      <4> QED BY <1>2, <1>6, <2>8
    <3>2. c[k] = c[k - 1] + 1
      <4> HIDE DEF T, Good, Shown
      <4> QED BY <2>8, <2>5
    <3>3. c[k] \in 1 .. m /\ pipes[c[k]] = order[k]
      BY <1>9, <2>8, Zenon
    <3>4. c[k] - 1 = c[k - 1] /\ c[k] # 0 /\ c[k] \in 0 .. m
          /\ (c[k] = 1 <=> c[k - 1] = 0)
      <4>1. \A x, y \in Nat : x = y + 1 /\ x \in 1 .. m =>
              x - 1 = y /\ x # 0 /\ x \in 0 .. m /\ (x = 1 <=> y = 0)
        BY <1>10
      <4> HIDE DEF T, Good, Shown
      <4> QED BY <2>4, <3>2, <3>3, <4>1, Zenon
    <3>5. g[c[k]] = g[c[k] - 1] \o (IF c[k] = 1 THEN <<>> ELSE <<",">>)
                      \o Decimal(pipes[c[k]])
      BY <1>5, <3>3, Zenon
    <3>6. g[c[k - 1]] \o (IF c[k] = 1 THEN <<>> ELSE <<",">>) = s[k - 1]
      <4>1. CASE c[k - 1] = 0
        <5>1. s[k - 1] = <<"[">> /\ g[c[k - 1]] = <<"[">> /\ c[k] = 1
          BY <1>5, <2>3, <3>4, <4>1, Zenon
        <5>2. <<"[">> \o <<>> = <<"[">>
          OBVIOUS
        <5> QED BY <5>1, <5>2, Zenon
      <4>2. CASE c[k - 1] # 0
        BY <2>3, <3>4, <4>2, Zenon
      <4> QED BY <4>1, <4>2, Zenon
    <3>7. g[c[k]] = s[k - 1] \o Decimal(order[k])
      BY <3>3, <3>4, <3>5, <3>6, Zenon
    <3>8. s[k] = g[c[k]] \o <<",">>
      BY <3>1, <3>7, Zenon
    <3>9. Good(k)
      BY <3>4, <3>8, Zenon
    <3> QED BY <2>6, <3>9, Zenon
  <2> QED BY <2>7, <2>8, Zenon
<1>14. 0 .. n \subseteq T
  <2> HIDE DEF T
  <2> QED BY <1>12, <1>13, UpwardInduction
<1>15. m # 0
  <2>1. P # {}
    BY <1>2, SomeSub
  <2> QED BY <1>1, <2>1, FS_EmptySet DEF m
<1>16. s[n] = g[m] \o <<",">>
  BY <1>7, <1>10, <1>14, <1>15
<1>17. Closed(s[n]) = g[m] \o <<"]">>
  <2>1. g[m] \in Seq(ListChars)
    BY <1>3
  <2>2. "," \in ListChars /\ "]" \in ListChars
    BY DEF ListChars
  <2>3. Append(Front(g[m] \o <<",">>), "]") = g[m] \o <<"]">>
    BY <2>1, <2>2, LastReplaced, Zenon
  <2> QED BY <1>16, <2>3 DEF Closed
<1>18. getAllTypeKeys(order, "sub") = ListOf(pipes)
  BY <1>5, <1>6, <1>17
<1> QED BY <1>18 DEF pipes, subs, P

\* ConnectsToAll: however many processes there are and in whatever order the
\* hash map holds them, the connect key names each subscriber's pipe once.
THEOREM ConnectsToAllHolds == Spec => []ConnectsToAll
<1>1. ConnectsToAll
  BY ProcessAssumption, ConnectKey DEF ConnectsToAll
<1> QED BY <1>1, PTL
=============================================================================
