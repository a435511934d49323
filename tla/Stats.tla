-------------------------------- MODULE Stats --------------------------------
(***************************************************************************)
(* The statistics of utils.h over a vector of samples in any order.        *)
(* Samples are integers; percentiles and medians are given in hundredths,  *)
(* so that the interpolation is exact, and an optional is the set of the   *)
(* value it has, if any.  Rounding of doubles is left out.                 *)
(***************************************************************************)
EXTENDS Integers, Sequences, SequencesExt

Total(s) == FoldSeq(+, 0, s)

\* Mutant: the samples are not sorted.
SortedNot(v) == v

\* What std::sort leaves at place i: the value with fewer than i smaller ones
\* and i at least that are no larger.
Sorted(v) ==
  [i \in 1 .. Len(v) |->
     CHOOSE x \in ToSet(v) :
       /\ Cardinality({j \in DOMAIN v : v[j] < x}) < i
       /\ i <= Cardinality({j \in DOMAIN v : v[j] <= x})]

\* The p-th percentile: the value at index p% of the way from 1 to the size,
\* interpolated.  The successor is read only if the index is not whole.
getPercentileFromSortedVec(v, p) ==
  LET index == p * (Len(v) - 1) + 100
      i     == index \div 100
      delta == index % 100
  IN  CASE p \notin 0 .. 100 -> {}
        [] p \in 0 .. 100 /\ delta = 0 -> {100 * v[i]}
        [] OTHER -> {100 * v[i] + delta * (v[i + 1] - v[i])}

getMedianSorted(v) ==
  LET half == Len(v) \div 2 IN
  CASE Len(v) < 2 -> {}
    [] Len(v) >= 2 /\ Len(v) % 2 = 0 -> {50 * (v[half] + v[half + 1])}
    [] OTHER -> {100 * v[half + 1]}

\* Deviations from the mean, each times the size, to the power k.
Moment(v, k) ==
  FoldSeq(LAMBDA e, acc : acc + (Len(v) * e - Total(v))^k, 0, v)

\* The standard deviation has a value if the variance has (vec.size() > 0);
\* the skew and the kurtosis if there are three samples at least.
HasStd(v)  == Len(v) > 0

\* Mutant: four samples at least.
HasSkewFour(v) == Len(v) >= 4 /\ HasStd(v) /\ getMedianSorted(v) # {}

HasSkew(v) == Len(v) >= 3 /\ HasStd(v) /\ getMedianSorted(v) # {}

\* 1 / size is an integer division, so that the sum of the fourth powers of
\* (e - mean) / std, here as a fraction of integers, is not looked at.
getKurtosis(v) ==
  IF Len(v) < 3 THEN {}
  ELSE {(1 \div Len(v)) * ((Len(v)^2 * Moment(v, 4)) \div (Moment(v, 2)^2)) - 3}

\* getStats sorts first; the columns of printStat, by whether they have a
\* value: mean, min, max, std, skew, median, kurtosis, 90%, 95%, 99%.
getStats(v) ==
  LET s == Sorted(v)
      has(p) == getPercentileFromSortedVec(s, p) # {}
  IN  IF Len(v) < 2 THEN {}
      ELSE {<<TRUE, has(0), has(100), HasStd(s), HasSkew(s), has(50),
              Len(s) >= 3, has(90), has(95), has(99)>>}

\* The columns printStat writes before the first one without a value.
printed(row) ==
  CHOOSE n \in 0 .. Len(row) :
    /\ \A k \in 1 .. n : row[k]
    /\ n < Len(row) => ~ row[n + 1]
=============================================================================
