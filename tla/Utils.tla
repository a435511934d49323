-------------------------------- MODULE Utils --------------------------------
(***************************************************************************)
(* Stats and Text over all inputs up to a bound: vectors of samples as     *)
(* readFileToVec reads them, line by line, texts and bytes.                *)
(***************************************************************************)
EXTENDS Stats, Text, FiniteSetsExt

CONSTANTS
  Sample,     \* values of samples
  Char,       \* characters of a text; the separators among them
  Byte,       \* bytes of a serialised URI
  Figure,     \* numbers in a payload
  MaxSamples, \* bounds: lengths of the inputs
  MaxChars,
  MaxBytes,
  Processes   \* numbers of processes

ASSUME SampleAssumption  == Sample \subseteq Nat
ASSUME ByteAssumption    == Byte \subseteq 0 .. 255
ASSUME FigureAssumption  == Figure \subseteq Nat
ASSUME BoundAssumption   == {MaxSamples, MaxChars, MaxBytes} \subseteq Nat
ASSUME ProcessAssumption == Processes \subseteq Nat

VARIABLES
  kind, \* of the input: "samples", "text" or "bytes"
  input

Init == kind \in {"samples", "text", "bytes"} /\ input = <<>>

\* readFileToVec, one line.
push_back(d) ==
  /\ kind = "samples" /\ Len(input) < MaxSamples
  /\ input' = Append(input, d)
  /\ UNCHANGED kind

PutChar(c) ==
  /\ kind = "text" /\ Len(input) < MaxChars
  /\ input' = Append(input, c)
  /\ UNCHANGED kind

PutByte(b) ==
  /\ kind = "bytes" /\ Len(input) < MaxBytes
  /\ input' = Append(input, b)
  /\ UNCHANGED kind

Next ==
  \/ \E d \in Sample : push_back(d)
  \/ \E c \in Char : PutChar(c)
  \/ \E b \in Byte : PutByte(b)

Spec == Init /\ [][Next]_<<kind, input>>
-----------------------------------------------------------------------------
Percentile(p) == CHOOSE x \in getPercentileFromSortedVec(Sorted(input), p) : TRUE
-----------------------------------------------------------------------------
Columns == {0, 50, 75, 90, 95, 99, 100}

(***************************************************************************)
(* A percentile never leaves the samples and is one by rank, counted over  *)
(* the samples as they came: with n samples, at least p% of the way        *)
(* (rounded down) are no larger, and no more than that (rounded up) are    *)
(* smaller; more percent is never less.  The two medians of the code agree,*)
(* the one the skew is computed with and the percentile of 50 that is      *)
(* printed, and so do the extremes with the percentiles of 0 and 100.      *)
(***************************************************************************)
PercentileByRank ==
  kind = "samples" /\ Len(input) >= 2 =>
    /\ getMedianSorted(Sorted(input)) = {Percentile(50)}
    /\ Percentile(0) = 100 * Min(ToSet(input))
    /\ Percentile(100) = 100 * Max(ToSet(input))
    /\ \A p \in Columns :
         LET x     == Percentile(p)
             ranks == p * (Len(input) - 1)
         IN  /\ Cardinality({i \in DOMAIN input : 100 * input[i] <= x})
                  >= ranks \div 100 + 1
             /\ Cardinality({i \in DOMAIN input : 100 * input[i] < x})
                  <= (ranks + 99) \div 100
             /\ \A q \in Columns : p <= q => x <= Percentile(q)

(***************************************************************************)
(* run_tests prints a whole row of statistics or throws; only with exactly *)
(* two samples is the row cut short, after the standard deviation.         *)
(***************************************************************************)
RowWhole ==
  kind = "samples" =>
    \A row \in getStats(input) :
      printed(row) = IF Len(input) = 2 THEN 4 ELSE Len(row)

(***************************************************************************)
(* What STATS_HEADER calls the column, "Kurtosis": where the samples are   *)
(* not all the same, it is the mean of the fourth powers of the deviations *)
(* over the square of the variance, less 3.                                *)
(***************************************************************************)
KurtosisShown ==
  kind = "samples" /\ Len(input) >= 3 /\ Cardinality(ToSet(input)) > 1 =>
    \A k \in getKurtosis(input) :
      (k + 3) * Moment(input, 2)^2 = Len(input) * Moment(input, 4)

\* The elements of a finite set of numbers in ascending order.
InOrder(S) ==
  [k \in 1 .. Cardinality(S) |->
     CHOOSE x \in S : Cardinality({y \in S : y <= x}) = k]

\* Where the maximal runs without the delimiter begin, and the run from there.
Starts(text, delimiter) ==
  {k \in DOMAIN text : /\ text[k] # delimiter
                       /\ k = 1 \/ text[k - 1] = delimiter}
Run(text, delimiter, first) ==
  SubSeq(text, first,
         CHOOSE last \in first .. Len(text) :
           /\ \A k \in first .. last : text[k] # delimiter
           /\ last = Len(text) \/ text[last + 1] = delimiter)

(***************************************************************************)
(* split gives exactly the maximal runs without the delimiter, in order:   *)
(* whatever stands next to, before or behind a delimiter, nothing is lost, *)
(* doubled or empty.                                                       *)
(***************************************************************************)
SplitIntoRuns ==
  kind = "text" =>
    LET starts == InOrder(Starts(input, "|"))
    IN  split(input, "|")
          = [k \in DOMAIN starts |-> Run(input, "|", starts[k])]

(***************************************************************************)
(* A child gets back the very bytes of the URI run_tests serialised, small *)
(* and large ones, although no digit pair is marked off from the next.     *)
(***************************************************************************)
UriSurvives ==
  kind = "bytes" =>
    convertHexStringToUint8Vec(convertSerializedURItoString(input)) = input

(***************************************************************************)
(* The listener reads the seconds, the nanoseconds and the counter that    *)
(* pub_test wrote, from payloads without fixed widths and with any text    *)
(* behind them, even none.                                                 *)
(***************************************************************************)
PayloadSurvives ==
  kind = "text" =>
    \A sec, nsec, counter \in Figure :
      onReceive(payload(sec, nsec, counter, input)) = {<<sec, nsec, counter>>}

ListOf(pipes) ==
  LET joined[k \in 0 .. Len(pipes)] ==
        IF k = 0 THEN <<"[">>
        ELSE joined[k - 1] \o (IF k = 1 THEN <<>> ELSE <<",">>)
               \o Decimal(pipes[k])
  IN  joined[Len(pipes)] \o <<"]">>

(***************************************************************************)
(* With two processes or more, a publisher's connect key is a well-formed  *)
(* list of the pipes of all subscribers, in whatever order the hash map    *)
(* gives them (with fewer, "remove the last ','" removes the bracket).     *)
(***************************************************************************)
ConnectsToAll ==
  input = <<>> =>
    \A n \in Processes : n >= 2 =>
      \A order \in {o \in [1 .. n -> 0 .. n - 1] : IsInjective(o)} :
        LET subs == InOrder({k \in 1 .. n : order[k] % 2 = 1})
        IN  getAllTypeKeys(order, "sub")
              = ListOf([k \in DOMAIN subs |-> order[subs[k]]])
=============================================================================
