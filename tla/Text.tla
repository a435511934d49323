-------------------------------- MODULE Text --------------------------------
(***************************************************************************)
(* The texts the benchmark programs exchange: the payload of a message,    *)
(* made by pub_test and taken apart by the listener of sub_test with       *)
(* split; the hexadecimal strings in which run_tests hands URIs to its     *)
(* children; and the lists of pipes that tell publishers where to connect. *)
(* Texts are sequences of characters.                                      *)
(***************************************************************************)
EXTENDS Integers, Sequences, SequencesExt

\* Where the next delimiter is from position prev on, or the end.
find(text, delimiter, prev) ==
  CHOOSE pos \in prev .. Len(text) + 1 :
    /\ pos <= Len(text) => text[pos] = delimiter
    /\ \A k \in prev .. pos - 1 : text[k] # delimiter

\* Mutant: the loop does not start again behind the last delimiter.
splitShort(text, delimiter) ==
  LET rest[prev \in 1 .. Len(text) + 1] ==
        LET pos == find(text, delimiter, prev)
            p   == SubSeq(text, prev, pos - 1)
        IN  (IF p = <<>> THEN <<>> ELSE <<p>>)
              \o (IF pos < Len(text) - 1 THEN rest[pos + 1] ELSE <<>>)
  IN  rest[1]

\* Empty pieces are dropped.
split(text, delimiter) ==
  LET rest[prev \in 1 .. Len(text) + 1] ==
        LET pos == find(text, delimiter, prev)
            p   == SubSeq(text, prev, pos - 1)
        IN  (IF p = <<>> THEN <<>> ELSE <<p>>)
              \o (IF pos < Len(text) THEN rest[pos + 1] ELSE <<>>)
  IN  rest[1]

Digits == <<"0", "1", "2", "3", "4", "5", "6", "7",
            "8", "9", "a", "b", "c", "d", "e", "f">>
Digit(v) == Digits[v + 1]
Value(c) == (CHOOSE k \in DOMAIN Digits : Digits[k] = c) - 1

\* Mutant: the width of a digit pair is not set.
HexPairNarrow(b) ==
  IF b < 16 THEN <<Digit(b)>> ELSE <<Digit(b \div 16), Digit(b % 16)>>

\* setw(2) and setfill('0'), in hexadecimal.
HexPair(b) == <<Digit(b \div 16), Digit(b % 16)>>

convertSerializedURItoString(v) ==
  LET s[n \in 0 .. Len(v)] == IF n = 0 THEN <<>> ELSE s[n - 1] \o HexPair(v[n])
  IN  s[Len(v)]

\* The number that digits of a base stand for.
Number(digits, base) ==
  LET val[k \in 0 .. Len(digits)] ==
        IF k = 0 THEN 0 ELSE base * val[k - 1] + Value(digits[k])
  IN  val[Len(digits)]

\* Two digits at a time; the last one may be alone.
convertHexStringToUint8Vec(str) ==
  [k \in 1 .. (Len(str) + 1) \div 2 |->
     Number(SubSeq(str, 2 * k - 1, IF 2 * k <= Len(str) THEN 2 * k
                                                        ELSE Len(str)), 16)]

\* A number as operator<< writes it.
Decimal(number) ==
  LET str[n \in Nat] == IF n < 10 THEN <<Digit(n)>>
                                   ELSE str[n \div 10] \o <<Digit(n % 10)>>
  IN  str[number]

\* strtol reads up to the first character that is no digit.
strtol(s) ==
  LET Decimals == {Digits[k] : k \in 1 .. 10}
      n == CHOOSE k \in 0 .. Len(s) :
             /\ \A j \in 1 .. k : s[j] \in Decimals
             /\ k < Len(s) => s[k + 1] \notin Decimals
  IN  Number(SubSeq(s, 1, n), 10)

\* Mutant: nothing stands between the counter and the filling.
payloadJoined(sec, nsec, i, random) ==
  Decimal(sec) \o <<".">> \o Decimal(nsec) \o <<"|">> \o Decimal(i) \o random

\* The payload of the publishers: the nanoseconds are not padded.
payload(sec, nsec, i, random) ==
  Decimal(sec) \o <<".">> \o Decimal(nsec) \o <<"|">> \o Decimal(i)
    \o <<"|">> \o random

\* What the listener takes from a payload, if it accepts it.
onReceive(text) ==
  LET split_data == split(text, "|")
      time == IF split_data = <<>> THEN <<>> ELSE split(split_data[1], ".")
  IN  IF Len(time) # 2 THEN {}
      ELSE {<<strtol(time[1]), strtol(time[2]), strtol(split_data[2])>>}

\* Mutant: the last comma stays.
ClosedAfterComma(str) == Append(str, "]")

\* pop_back, and the closing bracket.
Closed(str) == Append(Front(str), "]")

\* The processes' types, by parity, and the list of the pipes of one type in
\* the order in which the hash map happens to hold the processes.
createServerPortlist(n) == [i \in 0 .. n - 1 |-> IF i % 2 = 0 THEN "pub"
                                                              ELSE "sub"]
getAllTypeKeys(order, filter) ==
  LET type == createServerPortlist(Len(order))
      s[k \in 0 .. Len(order)] ==
        IF k = 0 THEN <<"[">>
        ELSE IF type[order[k]] # filter THEN s[k - 1]
        ELSE s[k - 1] \o Decimal(order[k]) \o <<",">>
  IN  Closed(s[Len(order)])
=============================================================================
