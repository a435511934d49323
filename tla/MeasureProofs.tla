---------------------------- MODULE MeasureProofs ----------------------------
(***************************************************************************)
(* Proofs about Measure, for all arguments: any number of rounds, of URIs, *)
(* any message size, and any set of calls that may fail.                   *)
(***************************************************************************)
EXTENDS Measure, TLAPS

-----------------------------------------------------------------------------
(* The operators the model counts with. *)

LEMMA LeastValue ==
  ASSUME NEW n \in Int
  PROVE  Least(n) = IF n > 0 THEN n ELSE 0
<1> DEFINE m == IF n > 0 THEN n ELSE 0
<1>1. m \in {0, n} /\ \A y \in {0, n} : m >= y
  OBVIOUS
<1>2. \A x \in {0, n} : (\A y \in {0, n} : x >= y) => x = m
  OBVIOUS
<1> QED BY <1>1, <1>2 DEF Least, Max

\* The calls in k whole rounds, by the arguments.
Whole(a, k) == k * Least(a.uris)

LEMMA ArgumentFacts ==
  ASSUME args \in [loops : Loops, size : Sizes, uris : Uris]
  PROVE  /\ args.loops \in Int /\ args.size \in Int /\ args.uris \in Int
         /\ Least(args.loops) \in Nat
         /\ Least(args.loops - 1) \in Nat
         /\ Least(args.uris) \in Nat
         /\ args.loops > 0 => Least(args.loops) = args.loops
                              /\ Least(args.loops - 1) = args.loops - 1
         /\ ~ args.loops > 0 => Least(args.loops) = 0
                                /\ Least(args.loops - 1) = 0
         /\ args.uris > 0 => Least(args.uris) = args.uris
         /\ ~ args.uris > 0 => Least(args.uris) = 0
         /\ Least(Least(args.loops) - 1) = Least(args.loops - 1)
<1>1. args.loops \in Int /\ args.size \in Int /\ args.uris \in Int
  BY ArgumentAssumption, LengthAssumption
<1>2. Least(args.loops) = IF args.loops > 0 THEN args.loops ELSE 0
  BY <1>1, LeastValue
<1>3. Least(args.loops - 1) = IF args.loops > 1 THEN args.loops - 1 ELSE 0
  BY <1>1, LeastValue
<1>4. Least(args.uris) = IF args.uris > 0 THEN args.uris ELSE 0
  BY <1>1, LeastValue
<1>5. Least(Least(args.loops) - 1) =
        IF Least(args.loops) - 1 > 0 THEN Least(args.loops) - 1 ELSE 0
  BY <1>1, <1>2, LeastValue
<1> QED BY <1>1, <1>2, <1>3, <1>4, <1>5

LEMMA ProductMonotone ==
  ASSUME NEW k \in Nat, NEW m \in Nat, NEW n \in Nat, k <= m
  PROVE  k * n <= m * n
<1>1. m - k \in Nat /\ m = k + (m - k)
  OBVIOUS
<1>2. \A d \in Nat : (k + d) * n = k * n + d * n /\ d * n \in Nat
  OBVIOUS
<1> QED BY <1>1, <1>2

LEMMA WholeFacts ==
  ASSUME args \in [loops : Loops, size : Sizes, uris : Uris]
  PROVE  /\ Whole(args, 0) = 0
         /\ ~ args.uris > 0 => \A k \in Nat : Whole(args, k) = 0
         /\ \A k \in Nat : Whole(args, k) \in Nat
         /\ \A k \in Nat : Whole(args, k + 1) = Whole(args, k) + Least(args.uris)
         /\ \A k, m \in Nat : k <= m => Whole(args, k) <= Whole(args, m)
<1>1. Least(args.uris) \in Nat
  BY ArgumentFacts
<1>2. \A n \in Nat : /\ 0 * n = 0
                     /\ \A k \in Nat : k * n \in Nat /\ (k + 1) * n = k * n + n
  OBVIOUS
<1>3. ~ args.uris > 0 => \A k \in Nat : k * Least(args.uris) = 0
  BY ArgumentFacts
<1> QED BY <1>1, <1>2, <1>3, ProductMonotone DEF Whole

LEMMA KindFacts ==
  /\ Range(SubRows) = {"subscribe", "unsubscribe"}
  /\ Range(PubRows) = {"publish"}
  /\ Range(SessionRows) = {"open_session", "close_session", "first_publish"}
  /\ Kind = {"subscribe", "unsubscribe", "publish",
             "open_session", "close_session", "first_publish"}
<1>1. Range(SubRows) = {"subscribe", "unsubscribe"}
  <2>1. DOMAIN SubRows = {1, 2} /\ SubRows[1] = "subscribe"
        /\ SubRows[2] = "unsubscribe"
    BY DEF SubRows
  <2> QED BY <2>1 DEF Range
<1>2. Range(PubRows) = {"publish"}
  <2>1. DOMAIN PubRows = {1} /\ PubRows[1] = "publish"
    BY DEF PubRows
  <2> QED BY <2>1 DEF Range
<1>3. Range(SessionRows) = {"open_session", "close_session", "first_publish"}
  <2>1. DOMAIN SessionRows = {1, 2, 3} /\ SessionRows[1] = "open_session"
        /\ SessionRows[2] = "close_session" /\ SessionRows[3] = "first_publish"
    BY DEF SessionRows
  <2> QED BY <2>1 DEF Range
<1> QED BY <1>1, <1>2, <1>3 DEF Kind

LEMMA CompleteValue ==
  ASSUME args \in [loops : Loops, size : Sizes, uris : Uris]
  PROVE  /\ Complete("subscribe") = Whole(args, Least(args.loops))
         /\ Complete("unsubscribe") = Whole(args, Least(args.loops))
         /\ Complete("publish") = Whole(args, Least(args.loops - 1))
         /\ Complete("open_session") = Least(args.loops)
         /\ Complete("close_session") = Least(args.loops)
         /\ Complete("first_publish") = Whole(args, Least(args.loops))
BY KindFacts, ArgumentFacts DEF Complete, Whole
-----------------------------------------------------------------------------
(* The inductive invariant. *)

InSub     == {"subOpen", "register", "unregister", "subStats"}
InPub     == {"pubOpen", "fill", "send", "pubStats"}
InSession == {"open", "fill", "send", "close", "stats"}

\* Where the loops are: inside their bounds where there is a call to make,
\* with a new text for every message.
Place ==
  /\ program \in {"benc", "start_time"}
  /\ at \in {"register", "unregister", "fill", "send"} =>
       i < args.loops /\ u <= args.uris
  /\ at \in {"open", "close"} => i < args.loops
  /\ at \notin {"register", "unregister", "fill", "send"} \cup Ended => u = 1
  /\ at \in {"subOpen", "pubOpen"} => i = 0
  /\ at # "send" => text = 0

\* How many samples there are, at each place of sub ...
SubCounts ==
  /\ at = "subOpen" => samples["subscribe"] = 0 /\ samples["unsubscribe"] = 0
  /\ at = "register" => /\ samples["subscribe"] = Whole(args, i) + (u - 1)
                        /\ samples["unsubscribe"] = Whole(args, i)
  /\ at = "unregister" => /\ samples["subscribe"] = Whole(args, i + 1)
                          /\ samples["unsubscribe"] = Whole(args, i) + (u - 1)
  /\ at = "subStats" => \A k \in Range(SubRows) : samples[k] = Complete(k)

\* ... of pub, which does not measure its first round ...
PubCounts ==
  program = "benc" =>
    /\ at \in InSub \cup {"pubOpen"} => samples["publish"] = 0
    /\ at \in {"fill", "send"} =>
         samples["publish"] = IF i = 0 THEN 0 ELSE Whole(args, i - 1) + (u - 1)
    /\ at = "pubStats" => samples["publish"] = Complete("publish")

\* ... and of start_session.
SessionCounts ==
  program = "start_time" =>
    /\ at \in {"open", "fill", "send", "close"} => samples["close_session"] = i
    /\ at = "open" => /\ samples["open_session"] = i
                      /\ samples["first_publish"] = Whole(args, i)
    /\ at \in {"fill", "send", "close"} => samples["open_session"] = i + 1
    /\ at \in {"fill", "send"} => samples["first_publish"] = Whole(args, i) + (u - 1)
    /\ at = "close" => samples["first_publish"] = Whole(args, i + 1)
    /\ at = "stats" => \A k \in Range(SessionRows) : samples[k] = Complete(k)

\* Which rows and sessions there are.  A session that stays behind keeps the
\* rows of its function from being printed.
Unprinted ==
  /\ at \in InSub => DOMAIN rows = {}
  /\ program = "benc" /\ at \in InPub => "publish" \notin DOMAIN rows
  /\ program = "start_time" /\ at \in InSession => DOMAIN rows = {}

LeftOpen ==
  /\ at \in {"subOpen", "open", "stats"} => sessions = 0
  /\ at \in {"register", "unregister", "subStats", "close"} => sessions = 1
  /\ program = "start_time" /\ at \in {"fill", "send"} => sessions = 1
  /\ at = "pubOpen" =>
       sessions \in {0, 1} /\ (sessions = 1 => "subscribe" \notin DOMAIN rows)
  /\ program = "benc" /\ at \in {"fill", "send", "pubStats"} =>
       sessions \in {1, 2} /\ (sessions = 2 => "subscribe" \notin DOMAIN rows)

Counts ==
  /\ samples \in [Kind -> Nat]
  /\ SubCounts
  /\ PubCounts
  /\ SessionCounts

MeasureInv ==
  /\ TypeOK
  /\ Place
  /\ Counts
  /\ Unprinted
  /\ LeftOpen
  /\ RowsWhole
  /\ AbortsOnlyWhenFew
  /\ FillingFits
-----------------------------------------------------------------------------
(* What every step starts from, and what a call may add to.                *)

LEMMA Frame ==
  ASSUME UNCHANGED args
  PROVE  \A k \in Kind : Complete(k)' = Complete(k)
BY DEF Complete

LEMMA Setting ==
  ASSUME MeasureInv
  PROVE  /\ args \in [loops : Loops, size : Sizes, uris : Uris]
         /\ i \in Nat /\ u \in Nat /\ u >= 1 /\ i <= Least(args.loops)
         /\ \A k \in Kind : Complete(k) \in Nat /\ samples[k] \in Nat
                            /\ samples[k] <= Complete(k)
<1>1. args \in [loops : Loops, size : Sizes, uris : Uris]
  BY DEF MeasureInv, TypeOK
<1>2. Least(args.loops) \in Nat /\ Least(args.loops - 1) \in Nat
  BY <1>1, ArgumentFacts
<1>3. Least(args.uris - 1) \in Nat
  BY <1>1, ArgumentFacts, LeastValue
<1>4. i \in Nat /\ u \in Nat /\ u >= 1 /\ i <= Least(args.loops)
  BY <1>2, <1>3 DEF MeasureInv, TypeOK
<1>5. \A k \in Kind : Complete(k) \in Nat
  <2>1. /\ Whole(args, Least(args.loops)) \in Nat
        /\ Whole(args, Least(args.loops - 1)) \in Nat
    BY <1>1, <1>2, WholeFacts
  <2>2. /\ Complete("subscribe") \in Nat /\ Complete("unsubscribe") \in Nat
        /\ Complete("publish") \in Nat /\ Complete("first_publish") \in Nat
        /\ Complete("open_session") \in Nat /\ Complete("close_session") \in Nat
    BY <1>1, <1>2, <2>1, CompleteValue
  <2> QED BY <2>2, KindFacts
<1>6. \A k \in Kind : samples[k] \in Nat /\ samples[k] <= Complete(k)
  BY <1>5 DEF MeasureInv, TypeOK
<1> QED BY <1>1, <1>4, <1>5, <1>6

LEMMA FailStep ==
  ASSUME MeasureInv, NEW call, Fail(call),
         at \in {"subOpen", "register", "unregister", "pubOpen", "open", "send"},
         UNCHANGED <<program, args, sessions, registered, samples, rows>>
  PROVE  MeasureInv'
<1>1. \A k \in Kind : Complete(k)' = Complete(k)
  BY Frame
<1>2. /\ at' = IF at \in {"subOpen", "register", "unregister"} /\ program = "benc"
               THEN "pubOpen" ELSE "exited"
      /\ i' = 0 /\ u' = 1 /\ text' = 0
  BY DEF Fail, AfterReturn
<1>3. at \in {"subOpen", "register", "unregister"} => program = "benc"
  BY DEF MeasureInv, TypeOK, Ended
<1>4. TypeOK'
  <2>1. Least(args.loops) \in Nat /\ Least(args.uris - 1) \in Nat
    BY Setting, ArgumentFacts, LeastValue
  <2>2. /\ args' \in [loops : Loops, size : Sizes, uris : Uris]
        /\ i' \in 0 .. Least(args'.loops)
        /\ u' \in 1 .. Least(args'.uris - 1) + 1
        /\ text' \in 0 .. Memory /\ sessions' \in 0 .. 2
        /\ registered' \subseteq 1 .. Least(args'.uris)
    BY <1>2, <2>1, LengthAssumption DEF MeasureInv, TypeOK
  <2>3. \A k \in Kind : samples'[k] \in 0 .. Complete(k)'
    BY <1>1 DEF MeasureInv, TypeOK
  <2>4. /\ at' \in Ended \cup (IF program' = "benc"
             THEN {"subOpen", "register", "unregister", "subStats",
                   "pubOpen", "fill", "send", "pubStats"}
             ELSE {"open", "fill", "send", "close", "stats"})
        /\ DOMAIN rows' \subseteq Kind
    BY <1>2, <1>3 DEF Ended, MeasureInv, TypeOK
  <2> QED BY <2>2, <2>3, <2>4 DEF TypeOK
<1>5. Place' /\ FillingFits' /\ AbortsOnlyWhenFew'
  BY <1>2 DEF MeasureInv, Place, FillingFits, AbortsOnlyWhenFew, Ended
<1>6. Counts'
  BY <1>2, <1>3 DEF MeasureInv, Counts, SubCounts, PubCounts, SessionCounts,
                    InSub
<1>7. Unprinted'
  BY <1>2, <1>3 DEF MeasureInv, Unprinted, InSub, InPub, InSession
<1>8. LeftOpen'
  BY <1>2, <1>3 DEF MeasureInv, Unprinted, LeftOpen, InSub
<1>9. RowsWhole'
  <2>1. \A r \in DOMAIN rows' : rows'[r] = Complete(r)'
    BY <1>1 DEF MeasureInv, RowsWhole, TypeOK
  <2>2. at' = "exited" => DOMAIN rows' # IF program' = "benc"
          THEN Range(SubRows) \cup Range(PubRows) ELSE Range(SessionRows)
    <3>1. CASE program = "benc"
      <4>1. at' = "exited" => "publish" \notin DOMAIN rows'
        BY <1>2, <3>1 DEF MeasureInv, Unprinted, InPub, TypeOK, Ended
      <4> QED BY <3>1, <4>1, KindFacts
    <3>2. CASE program # "benc"
      <4>1. program = "start_time" /\ DOMAIN rows' = {}
        BY <1>3, <3>2 DEF MeasureInv, Place, Unprinted, InSession, TypeOK, Ended
      <4> QED BY <3>2, <4>1, KindFacts
    <3> QED BY <3>1, <3>2
  <2> QED BY <2>1, <2>2 DEF RowsWhole
<1> QED BY <1>4, <1>5, <1>6, <1>7, <1>8, <1>9 DEF MeasureInv
-----------------------------------------------------------------------------
(* A call that succeeds leaves the rows alone.                             *)

\* Inside the loops there is room for another sample.
LEMMA Room ==
  ASSUME MeasureInv, i < args.loops
  PROVE  /\ Least(args.loops) = args.loops
         /\ Least(args.loops - 1) = args.loops - 1
         /\ i + 1 <= args.loops
         /\ \A k \in {i, i + 1} : Whole(args, k) \in Nat
         /\ Whole(args, i + 1) = Whole(args, i) + Least(args.uris)
         /\ Whole(args, i + 1) <= Whole(args, args.loops)
         /\ args.uris > 0 => Least(args.uris) = args.uris
                             /\ Least(args.uris - 1) = args.uris - 1
         /\ ~ args.uris > 0 => Least(args.uris) = 0
         /\ i > 0 => /\ Whole(args, i - 1) \in Nat
                     /\ Whole(args, i) = Whole(args, i - 1) + Least(args.uris)
                     /\ Whole(args, i) <= Whole(args, args.loops - 1)
<1>1. /\ args \in [loops : Loops, size : Sizes, uris : Uris]
      /\ i \in Nat /\ args.loops \in Int /\ args.uris \in Int
  BY Setting, ArgumentFacts
<1>2. Least(args.uris - 1) = IF args.uris - 1 > 0 THEN args.uris - 1 ELSE 0
  BY <1>1, LeastValue
<1>3. /\ Least(args.loops) = args.loops
      /\ Least(args.loops - 1) = args.loops - 1
      /\ args.uris > 0 => Least(args.uris) = args.uris
      /\ ~ args.uris > 0 => Least(args.uris) = 0
  BY <1>1, ArgumentFacts
<1>4. /\ Whole(args, i) \in Nat /\ Whole(args, i + 1) \in Nat
      /\ Whole(args, i + 1) = Whole(args, i) + Least(args.uris)
      /\ Whole(args, i + 1) <= Whole(args, args.loops)
  BY <1>1, WholeFacts
<1>5. i > 0 => /\ Whole(args, i - 1) \in Nat
               /\ Whole(args, i) = Whole(args, i - 1) + Least(args.uris)
               /\ Whole(args, i) <= Whole(args, args.loops - 1)
  <2> SUFFICES ASSUME i > 0
               PROVE  /\ Whole(args, i - 1) \in Nat
                      /\ Whole(args, i) = Whole(args, i - 1) + Least(args.uris)
                      /\ Whole(args, i) <= Whole(args, args.loops - 1)
    OBVIOUS
  <2>1. /\ i - 1 \in Nat /\ args.loops - 1 \in Nat /\ i <= args.loops - 1
        /\ (i - 1) + 1 = i
    BY <1>1
  <2>2. Whole(args, (i - 1) + 1) = Whole(args, i - 1) + Least(args.uris)
    BY <1>1, <2>1, WholeFacts
  <2> QED BY <1>1, <2>1, <2>2, WholeFacts
<1> QED BY <1>1, <1>2, <1>3, <1>4, <1>5

LEMMA SampleFacts ==
  ASSUME samples \in [Kind -> Nat], NEW kind \in Kind, Sample(kind)
  PROVE  /\ samples' \in [Kind -> Nat]
         /\ \A k \in Kind : samples'[k] = IF k = kind THEN samples[k] + 1
                                                      ELSE samples[k]
BY DEF Sample

LEMMA SampleBound ==
  ASSUME MeasureInv, NEW kind \in Kind, Sample(kind),
         samples[kind] + 1 <= Complete(kind)
  PROVE  \A k \in Kind : samples'[k] <= Complete(k)
<1>1. \A k \in Kind : samples'[k] = IF k = kind THEN samples[k] + 1
                                               ELSE samples[k]
  BY SampleFacts DEF MeasureInv, Counts
<1>2. \A k \in Kind : samples[k] <= Complete(k)
  BY Setting
<1> QED BY <1>1, <1>2

\* The type of a state after a call that takes a sample or none.
LEMMA CallType ==
  ASSUME MeasureInv, UNCHANGED <<program, args, rows>>,
         samples' \in [Kind -> Nat],
         \A k \in Kind : samples'[k] <= Complete(k),
         at' \in Ended \cup
           (IF program = "benc"
            THEN {"subOpen", "register", "unregister", "subStats",
                  "pubOpen", "fill", "send", "pubStats"}
            ELSE {"open", "fill", "send", "close", "stats"}),
         i' \in 0 .. Least(args.loops),
         u' \in 1 .. Least(args.uris - 1) + 1,
         text' \in 0 .. Memory,
         sessions' \in 0 .. 2,
         registered' \subseteq 1 .. Least(args.uris)
  PROVE  TypeOK' /\ \A r \in DOMAIN rows' : rows'[r] = Complete(r)'
<1>1. \A k \in Kind : Complete(k)' = Complete(k) /\ Complete(k) \in Nat
  BY Frame, Setting
<1>2. \A k \in Kind : samples'[k] \in 0 .. Complete(k)'
  BY <1>1
<1>3. /\ args' \in [loops : Loops, size : Sizes, uris : Uris]
      /\ i' \in 0 .. Least(args'.loops)
      /\ u' \in 1 .. Least(args'.uris - 1) + 1
      /\ registered' \subseteq 1 .. Least(args'.uris)
      /\ DOMAIN rows' \subseteq Kind
  BY DEF MeasureInv, TypeOK
<1>4. TypeOK'
  BY <1>2, <1>3 DEF TypeOK
<1>5. \A r \in DOMAIN rows' : rows'[r] = Complete(r)'
  BY <1>1 DEF MeasureInv, RowsWhole, TypeOK
<1> QED BY <1>4, <1>5

LEMMA SubOpenStep ==
  ASSUME MeasureInv, SubOpen
  PROVE  MeasureInv'
<1>1. CASE Fail("connect") /\ UNCHANGED sessions
  BY <1>1, FailStep DEF SubOpen
<1>2. CASE /\ sessions' = sessions + 1
           /\ at' = Begin("register", args.loops > 0, "subStats")
           /\ UNCHANGED <<i, u, text>>
  <2>1. /\ at = "subOpen" /\ program = "benc"
        /\ UNCHANGED <<program, args, registered, samples, rows>>
    BY DEF SubOpen, MeasureInv, TypeOK, Ended
  <2>2. /\ samples \in [Kind -> Nat] /\ \A k \in Kind : samples[k] <= Complete(k)
        /\ sessions = 0 /\ i = 0 /\ u = 1 /\ text = 0
    BY <2>1, Setting DEF MeasureInv, Counts, LeftOpen, Place, Ended
  <2>3. at' = IF args.loops > 0 /\ args.uris > 0 THEN "register" ELSE "subStats"
    BY <1>2 DEF Begin
  <2>4. TypeOK' /\ \A r \in DOMAIN rows' : rows'[r] = Complete(r)'
    BY <1>2, <2>1, <2>2, <2>3, CallType DEF MeasureInv, TypeOK
  <2>5. Place' /\ FillingFits' /\ AbortsOnlyWhenFew' /\ LeftOpen' /\ Unprinted'
    BY <1>2, <2>1, <2>2, <2>3, Setting, ArgumentFacts
    DEF MeasureInv, Place, FillingFits, AbortsOnlyWhenFew, LeftOpen, Unprinted,
        Ended, InSub, InPub, InSession
  <2>6. Counts'
    <3>1. samples["subscribe"] = 0 /\ samples["unsubscribe"] = 0
          /\ samples["publish"] = 0
      BY <2>1 DEF MeasureInv, Counts, SubCounts, PubCounts, InSub
    <3>2. /\ args \in [loops : Loops, size : Sizes, uris : Uris]
          /\ Least(args.loops) \in Nat
          /\ ~ args.loops > 0 => Least(args.loops) = 0
          /\ Whole(args, 0) = 0
          /\ ~ args.uris > 0 => \A k \in Nat : Whole(args, k) = 0
      BY Setting, ArgumentFacts, WholeFacts
    <3>3. at' = "subStats" => Whole(args, Least(args.loops)) = 0
      BY <2>3, <3>2
    <3>4. at' = "subStats" =>
            \A k \in Range(SubRows) : samples'[k] = Complete(k)'
      BY <2>1, <3>1, <3>2, <3>3, CompleteValue, KindFacts, Frame
    <3>5. SubCounts'
      BY <1>2, <2>1, <2>2, <2>3, <3>1, <3>2, <3>4 DEF SubCounts
    <3>6. PubCounts' /\ SessionCounts'
      BY <2>1, <2>3, <3>1 DEF PubCounts, SessionCounts
    <3> QED BY <2>1, <2>2, <3>5, <3>6 DEF Counts
  <2> QED BY <2>1, <2>3, <2>4, <2>5, <2>6 DEF MeasureInv, RowsWhole
<1> QED BY <1>1, <1>2 DEF SubOpen

LEMMA RegisterStep ==
  ASSUME MeasureInv, Register
  PROVE  MeasureInv'
<1>1. CASE Fail("register") /\ UNCHANGED <<registered, samples>>
  BY <1>1, FailStep DEF Register
<1>2. CASE /\ registered' = registered \cup {u}
           /\ Sample("subscribe")
           /\ NextUri("unregister", i)
           /\ UNCHANGED text
  <2>1. /\ at = "register" /\ program = "benc"
        /\ UNCHANGED <<program, args, sessions, rows, i, text>>
        /\ sessions = 1 /\ text = 0
    BY <1>2 DEF Register, NextUri, MeasureInv, TypeOK, LeftOpen, Place, Ended
  <2>2. /\ i \in Nat /\ u \in Nat /\ u >= 1 /\ i < args.loops /\ u <= args.uris
        /\ args.uris \in Int /\ args.loops \in Int /\ args.uris > 0
    BY <2>1, Setting, ArgumentFacts DEF MeasureInv, Place
  <2>3. \/ u < args.uris /\ u' = u + 1 /\ at' = "register"
        \/ u = args.uris /\ u' = 1 /\ at' = "unregister"
    BY <1>2, <2>1, <2>2 DEF NextUri
  <2>4. /\ samples["subscribe"] = Whole(args, i) + (u - 1)
        /\ samples["unsubscribe"] = Whole(args, i) /\ samples["publish"] = 0
        /\ samples \in [Kind -> Nat]
    BY <2>1 DEF MeasureInv, Counts, SubCounts, PubCounts, InSub
  <2>5. /\ samples' \in [Kind -> Nat]
        /\ \A k \in Kind : samples'[k] = IF k = "subscribe" THEN samples[k] + 1
                                                            ELSE samples[k]
    BY <1>2, <2>4, SampleFacts, KindFacts
  <2>6. samples["subscribe"] + 1 <= Complete("subscribe")
    <3>1. Complete("subscribe") = Whole(args, args.loops)
      BY <2>2, Room, Setting, CompleteValue
    <3>2. /\ Whole(args, i) \in Nat /\ Least(args.uris) = args.uris
          /\ Whole(args, i) + Least(args.uris) <= Whole(args, args.loops)
      BY <2>2, Room
    <3>3. Complete("subscribe") \in Nat
      BY Setting, KindFacts
    <3> QED BY <2>2, <2>4, <3>1, <3>2, <3>3
  <2>7. \A k \in Kind : samples'[k] <= Complete(k)
    BY <1>2, <2>6, SampleBound, KindFacts
  <2>8. /\ i' \in 0 .. Least(args.loops) /\ u' \in 1 .. Least(args.uris - 1) + 1
        /\ registered' \subseteq 1 .. Least(args.uris)
    BY <1>2, <2>1, <2>2, <2>3, Room DEF MeasureInv, TypeOK
  <2>9. TypeOK' /\ \A r \in DOMAIN rows' : rows'[r] = Complete(r)'
    BY <2>1, <2>3, <2>5, <2>7, <2>8, CallType DEF MeasureInv, TypeOK
  <2>10. Place' /\ FillingFits' /\ AbortsOnlyWhenFew' /\ LeftOpen' /\ Unprinted'
    BY <2>1, <2>2, <2>3
    DEF MeasureInv, Place, FillingFits, AbortsOnlyWhenFew, LeftOpen, Unprinted,
        Ended, InSub, InPub, InSession
  <2>11. Counts'
    <3>1. /\ Whole(args, i + 1) = Whole(args, i) + Least(args.uris)
          /\ Whole(args, i) \in Nat /\ Least(args.uris) = args.uris
      BY <2>2, Room
    <3>2. /\ samples'["subscribe"] = Whole(args, i) + u
          /\ samples'["unsubscribe"] = Whole(args, i) /\ samples'["publish"] = 0
      <4>1. /\ samples'["subscribe"] = samples["subscribe"] + 1
            /\ samples'["unsubscribe"] = samples["unsubscribe"]
            /\ samples'["publish"] = samples["publish"]
        BY <2>5, KindFacts
      <4> QED BY <2>2, <2>4, <3>1, <4>1
    <3>3. SubCounts'
      BY <2>1, <2>2, <2>3, <3>1, <3>2 DEF SubCounts
    <3>4. PubCounts' /\ SessionCounts'
      BY <2>1, <2>3, <3>2 DEF PubCounts, SessionCounts
    <3> QED BY <2>5, <3>3, <3>4 DEF Counts
  <2> QED BY <2>1, <2>3, <2>9, <2>10, <2>11 DEF MeasureInv, RowsWhole
<1> QED BY <1>1, <1>2 DEF Register

LEMMA UnregisterStep ==
  ASSUME MeasureInv, Unregister
  PROVE  MeasureInv'
<1>1. CASE Fail("unregister") /\ UNCHANGED <<registered, samples>>
  BY <1>1, FailStep DEF Unregister
<1>2. CASE /\ registered' = registered \ {u}
           /\ Sample("unsubscribe")
           /\ NextUri(IF i + 1 < args.loops THEN "register" ELSE "subStats",
                      i + 1)
           /\ UNCHANGED text
  <2>1. /\ at = "unregister" /\ program = "benc"
        /\ UNCHANGED <<program, args, sessions, rows, text>>
        /\ sessions = 1 /\ text = 0
    BY <1>2 DEF Unregister, MeasureInv, TypeOK, LeftOpen, Place, Ended
  <2>2. /\ i \in Nat /\ u \in Nat /\ u >= 1 /\ i < args.loops /\ u <= args.uris
        /\ args.uris \in Int /\ args.loops \in Int /\ args.uris > 0
    BY <2>1, Setting, ArgumentFacts DEF MeasureInv, Place
  <2>3. \/ u < args.uris /\ u' = u + 1 /\ at' = "unregister" /\ i' = i
        \/ /\ u = args.uris /\ u' = 1 /\ i' = i + 1
           /\ at' = IF i + 1 < args.loops THEN "register" ELSE "subStats"
    BY <1>2, <2>1, <2>2 DEF NextUri
  <2>4. /\ samples["subscribe"] = Whole(args, i + 1)
        /\ samples["unsubscribe"] = Whole(args, i) + (u - 1)
        /\ samples["publish"] = 0 /\ samples \in [Kind -> Nat]
    BY <2>1 DEF MeasureInv, Counts, SubCounts, PubCounts, InSub
  <2>5. /\ samples' \in [Kind -> Nat]
        /\ \A k \in Kind : samples'[k] = IF k = "unsubscribe"
                                         THEN samples[k] + 1 ELSE samples[k]
    BY <1>2, <2>4, SampleFacts, KindFacts
  <2>6. samples["unsubscribe"] + 1 <= Complete("unsubscribe")
    <3>1. Complete("unsubscribe") = Whole(args, args.loops)
      BY <2>2, Room, Setting, CompleteValue
    <3>2. /\ Whole(args, i) \in Nat /\ Least(args.uris) = args.uris
          /\ Whole(args, i) + Least(args.uris) <= Whole(args, args.loops)
      BY <2>2, Room
    <3>3. Complete("unsubscribe") \in Nat
      BY Setting, KindFacts
    <3> QED BY <2>2, <2>4, <3>1, <3>2, <3>3
  <2>7. \A k \in Kind : samples'[k] <= Complete(k)
    BY <1>2, <2>6, SampleBound, KindFacts
  <2>8. /\ i' \in 0 .. Least(args.loops) /\ u' \in 1 .. Least(args.uris - 1) + 1
        /\ registered' \subseteq 1 .. Least(args.uris)
    <3>1. /\ i + 1 <= args.loops /\ Least(args.loops) = args.loops
          /\ Least(args.uris - 1) = args.uris - 1
      BY <2>2, Room
    <3>2. i' \in 0 .. Least(args.loops) /\ u' \in 1 .. Least(args.uris - 1) + 1
      BY <2>2, <2>3, <3>1
    <3> QED BY <1>2, <3>2 DEF MeasureInv, TypeOK
  <2>9. TypeOK' /\ \A r \in DOMAIN rows' : rows'[r] = Complete(r)'
    BY <2>1, <2>3, <2>5, <2>7, <2>8, CallType DEF MeasureInv, TypeOK
  <2>10. Place' /\ FillingFits' /\ AbortsOnlyWhenFew' /\ LeftOpen' /\ Unprinted'
    BY <2>1, <2>2, <2>3
    DEF MeasureInv, Place, FillingFits, AbortsOnlyWhenFew, LeftOpen, Unprinted,
        Ended, InSub, InPub, InSession
  <2>11. Counts'
    <3>1. /\ Whole(args, i + 1) = Whole(args, i) + Least(args.uris)
          /\ Whole(args, i) \in Nat /\ Least(args.uris) = args.uris
          /\ Least(args.loops) = args.loops
      BY <2>2, Room
    <3>2. /\ samples'["subscribe"] = Whole(args, i + 1)
          /\ samples'["unsubscribe"] = Whole(args, i) + u
          /\ samples'["publish"] = 0
      <4>1. /\ samples'["subscribe"] = samples["subscribe"]
            /\ samples'["unsubscribe"] = samples["unsubscribe"] + 1
            /\ samples'["publish"] = samples["publish"]
        BY <2>5, KindFacts
      <4> QED BY <2>2, <2>4, <3>1, <4>1
    <3>3. at' = "subStats" =>
            \A k \in Range(SubRows) : samples'[k] = Complete(k)'
      <4> SUFFICES ASSUME at' = "subStats"
                   PROVE  \A k \in Range(SubRows) : samples'[k] = Complete(k)'
        OBVIOUS
      <4>1. i + 1 = args.loops /\ u = args.uris
        BY <2>2, <2>3
      <4>2. /\ samples'["subscribe"] = Complete("subscribe")
            /\ samples'["unsubscribe"] = Complete("unsubscribe")
        BY <3>1, <3>2, <4>1, Setting, CompleteValue
      <4> QED BY <2>1, <4>2, KindFacts, Frame
    <3>4. SubCounts'
      BY <2>1, <2>2, <2>3, <3>1, <3>2, <3>3 DEF SubCounts
    <3>5. PubCounts' /\ SessionCounts'
      BY <2>1, <2>3, <3>2 DEF PubCounts, SessionCounts
    <3> QED BY <2>5, <3>4, <3>5 DEF Counts
  <2> QED BY <2>1, <2>3, <2>9, <2>10, <2>11 DEF MeasureInv, RowsWhole
<1> QED BY <1>1, <1>2 DEF Unregister

LEMMA PubOpenStep ==
  ASSUME MeasureInv, PubOpen
  PROVE  MeasureInv'
<1>1. CASE Fail("connect") /\ UNCHANGED sessions
  BY <1>1, FailStep DEF PubOpen
<1>2. CASE /\ sessions' = sessions + 1
           /\ at' = Begin("fill", args.loops > 0, "pubStats")
           /\ UNCHANGED <<i, u, text>>
  <2>1. /\ at = "pubOpen" /\ program = "benc"
        /\ UNCHANGED <<program, args, registered, samples, rows>>
    BY DEF PubOpen, MeasureInv, TypeOK, Ended
  <2>2. /\ samples \in [Kind -> Nat] /\ \A k \in Kind : samples[k] <= Complete(k)
        /\ sessions \in {0, 1} /\ i = 0 /\ u = 1 /\ text = 0
        /\ samples["publish"] = 0
    BY <2>1, Setting DEF MeasureInv, Counts, PubCounts, LeftOpen, Place, Ended
  <2>3. at' = IF args.loops > 0 /\ args.uris > 0 THEN "fill" ELSE "pubStats"
    BY <1>2 DEF Begin
  <2>4. TypeOK' /\ \A r \in DOMAIN rows' : rows'[r] = Complete(r)'
    BY <1>2, <2>1, <2>2, <2>3, CallType DEF MeasureInv, TypeOK
  <2>5. Place' /\ FillingFits' /\ AbortsOnlyWhenFew' /\ LeftOpen' /\ Unprinted'
    BY <1>2, <2>1, <2>2, <2>3, Setting, ArgumentFacts
    DEF MeasureInv, Place, FillingFits, AbortsOnlyWhenFew, LeftOpen, Unprinted,
        Ended, InSub, InPub, InSession
  <2>6. Counts'
    <3>1. /\ args \in [loops : Loops, size : Sizes, uris : Uris]
          /\ Least(args.loops - 1) \in Nat
          /\ ~ args.loops > 0 => Least(args.loops - 1) = 0
          /\ Whole(args, 0) = 0
          /\ ~ args.uris > 0 => \A k \in Nat : Whole(args, k) = 0
      BY Setting, ArgumentFacts, WholeFacts
    <3>2. at' = "pubStats" => Whole(args, Least(args.loops - 1)) = 0
      BY <2>3, <3>1
    <3>3. at' = "pubStats" => samples'["publish"] = Complete("publish")'
      BY <2>1, <2>2, <3>1, <3>2, CompleteValue, KindFacts, Frame
    <3>4. PubCounts' /\ SubCounts' /\ SessionCounts'
      BY <1>2, <2>1, <2>2, <2>3, <3>3
      DEF PubCounts, SubCounts, SessionCounts, InSub
    <3> QED BY <2>1, <2>2, <3>4 DEF Counts
  <2> QED BY <2>1, <2>3, <2>4, <2>5, <2>6 DEF MeasureInv, RowsWhole
<1> QED BY <1>1, <1>2 DEF PubOpen

LEMMA SessionOpenStep ==
  ASSUME MeasureInv, SessionOpen
  PROVE  MeasureInv'
<1>1. CASE Fail("connect") /\ UNCHANGED <<sessions, samples>>
  BY <1>1, FailStep DEF SessionOpen
<1>2. CASE /\ sessions' = sessions + 1
           /\ Sample("open_session")
           /\ at' = Begin("fill", TRUE, "close")
           /\ UNCHANGED <<i, u, text>>
  <2>1. /\ at = "open" /\ program = "start_time"
        /\ UNCHANGED <<program, args, registered, rows>>
        /\ UNCHANGED <<i, u, text>> /\ sessions' = sessions + 1
    BY <1>2 DEF SessionOpen, MeasureInv, TypeOK, Place, Ended
  <2>2. /\ i \in Nat /\ u = 1 /\ text = 0 /\ sessions = 0 /\ i < args.loops
        /\ args.uris \in Int /\ args.loops \in Int
    BY <2>1, Setting, ArgumentFacts DEF MeasureInv, Place, LeftOpen, Ended
  <2>3. at' = IF args.uris > 0 THEN "fill" ELSE "close"
    BY <1>2 DEF Begin
  <2>4. /\ samples["open_session"] = i /\ samples["close_session"] = i
        /\ samples["first_publish"] = Whole(args, i)
        /\ samples \in [Kind -> Nat]
    BY <2>1, <2>2 DEF MeasureInv, Counts, SessionCounts
  <2>5. /\ samples' \in [Kind -> Nat]
        /\ \A k \in Kind : samples'[k] = IF k = "open_session"
                                         THEN samples[k] + 1 ELSE samples[k]
    BY <1>2, <2>4, SampleFacts, KindFacts
  <2>6. samples["open_session"] + 1 <= Complete("open_session")
    BY <2>2, <2>4, Room, Setting, CompleteValue
  <2>7. \A k \in Kind : samples'[k] <= Complete(k)
    BY <1>2, <2>6, SampleBound, KindFacts
  <2>8. TypeOK' /\ \A r \in DOMAIN rows' : rows'[r] = Complete(r)'
    <3>1. sessions' \in 0 .. 2
      BY <2>1, <2>2
    <3>2. /\ i' \in 0 .. Least(args.loops) /\ u' \in 1 .. Least(args.uris - 1) + 1
          /\ text' \in 0 .. Memory /\ registered' \subseteq 1 .. Least(args.uris)
      BY <2>1 DEF MeasureInv, TypeOK
    <3>3. UNCHANGED <<program, args, rows>>
      BY <2>1
    <3>4. at' \in Ended \cup
            (IF program = "benc"
             THEN {"subOpen", "register", "unregister", "subStats",
                   "pubOpen", "fill", "send", "pubStats"}
             ELSE {"open", "fill", "send", "close", "stats"})
      BY <2>1, <2>3
    <3> QED BY <2>5, <2>7, <3>1, <3>2, <3>3, <3>4, CallType
  <2>9. Place' /\ FillingFits' /\ AbortsOnlyWhenFew' /\ LeftOpen' /\ Unprinted'
    BY <2>1, <2>2, <2>3
    DEF MeasureInv, Place, FillingFits, AbortsOnlyWhenFew, LeftOpen, Unprinted,
        Ended, InSub, InPub, InSession
  <2>10. Counts'
    <3>1. /\ samples'["open_session"] = i + 1 /\ samples'["close_session"] = i
          /\ samples'["first_publish"] = Whole(args, i)
      BY <2>4, <2>5, KindFacts
    <3>2. /\ Whole(args, i) \in Nat
          /\ ~ args.uris > 0 => Whole(args, i + 1) = Whole(args, i)
      <4>1. /\ Whole(args, i + 1) = Whole(args, i) + Least(args.uris)
            /\ Whole(args, i) \in Nat
            /\ ~ args.uris > 0 => Least(args.uris) = 0
        BY <2>2, Room
      <4> QED BY <4>1
    <3>3. SessionCounts'
      <4>1. CASE args.uris > 0
        <5>1. at' = "fill" /\ u' - 1 = 0 /\ i' = i
          BY <2>1, <2>2, <2>3, <4>1
        <5>2. samples'["first_publish"] = Whole(args, i) + (u' - 1)
          BY <3>1, <3>2, <5>1
        <5> QED BY <2>1, <3>1, <5>1, <5>2 DEF SessionCounts
      <4>2. CASE ~ args.uris > 0
        BY <2>1, <2>3, <3>1, <3>2, <4>2 DEF SessionCounts
      <4> QED BY <4>1, <4>2
    <3>4. SubCounts' /\ PubCounts'
      BY <2>1, <2>3 DEF SubCounts, PubCounts
    <3> QED BY <2>5, <3>3, <3>4 DEF Counts
  <2> QED BY <2>1, <2>3, <2>8, <2>9, <2>10 DEF MeasureInv, RowsWhole
<1> QED BY <1>1, <1>2 DEF SessionOpen

\* The unsigned length of the filling.
LEMMA FillingValue ==
  ASSUME args \in [loops : Loops, size : Sizes, uris : Uris], NEW p \in Nat
  PROVE  /\ Filling(p) \in Nat
         /\ p <= args.size => Filling(p) = args.size - p
<1>1. args.size \in Int /\ args.size < SizeMod /\ SizeMod \in Nat \ {0}
  BY ArgumentAssumption, LengthAssumption
<1>2. ASSUME NEW a \in Int, NEW M \in Nat \ {0}
      PROVE  a % M \in Nat /\ (0 <= a /\ a < M => a % M = a)
  OBVIOUS
<1>3. args.size - p \in Int
  BY <1>1
<1>4. /\ (args.size - p) % SizeMod \in Nat
      /\ 0 <= args.size - p /\ args.size - p < SizeMod =>
           (args.size - p) % SizeMod = args.size - p
  BY <1>1, <1>2, <1>3
<1>5. p <= args.size => 0 <= args.size - p /\ args.size - p < SizeMod
  BY <1>1
<1> QED BY <1>4, <1>5 DEF Filling

LEMMA FillStep ==
  ASSUME MeasureInv, Fill
  PROVE  MeasureInv'
<1>1. /\ at = "fill" /\ text = 0
      /\ UNCHANGED <<program, args, i, u, sessions, registered, samples, rows>>
  BY DEF Fill, MeasureInv, Place
<1>2. /\ args \in [loops : Loops, size : Sizes, uris : Uris]
      /\ args.size \in Int /\ args.size <= Memory /\ Memory \in Nat
  BY Setting, ArgumentFacts, LengthAssumption
<1>3. PICK p \in Prefixes :
         IF p + Filling(p) <= Memory
         THEN text' = p + Filling(p) /\ at' = "send"
         ELSE at' = "exhausted" /\ UNCHANGED text
  <2>1. \A p \in Prefixes : text + p = p
    BY <1>1, LengthAssumption
  <2> QED BY <2>1 DEF Fill
<1>4. /\ p \in Nat /\ Filling(p) \in Nat
      /\ p <= args.size => Filling(p) = args.size - p
  BY <1>2, FillingValue, LengthAssumption
<1>5. \/ /\ at' = "send" /\ text' \in 0 .. Memory /\ text' >= args.size
      \/ at' = "exhausted" /\ text' = 0 /\ args.size < p
  <2>1. CASE p + Filling(p) <= Memory
    <3>1. at' = "send" /\ text' = p + Filling(p)
      BY <1>3, <2>1
    <3>2. p + Filling(p) >= args.size
      BY <1>2, <1>4
    <3>3. p + Filling(p) \in 0 .. Memory
      BY <1>2, <1>4, <2>1
    <3> QED BY <3>1, <3>2, <3>3
  <2>2. CASE ~ p + Filling(p) <= Memory
    <3>1. at' = "exhausted" /\ text' = 0
      BY <1>1, <1>3, <2>2
    <3>2. args.size < p
      BY <1>2, <1>4, <2>2
    <3> QED BY <3>1, <3>2
  <2> QED BY <2>1, <2>2
<1>6. FillingFits'
  BY <1>1, <1>5 DEF FillingFits
<1>7. samples \in [Kind -> Nat] /\ \A k \in Kind : samples[k] <= Complete(k)
  BY Setting DEF MeasureInv, Counts
<1>8. text' \in 0 .. Memory
  BY <1>2, <1>5
<1>9. TypeOK' /\ \A r \in DOMAIN rows' : rows'[r] = Complete(r)'
  BY <1>1, <1>5, <1>7, <1>8, CallType DEF MeasureInv, TypeOK, Ended
<1>10. Place' /\ AbortsOnlyWhenFew' /\ LeftOpen' /\ Unprinted'
  BY <1>1, <1>5
  DEF MeasureInv, TypeOK, Place, AbortsOnlyWhenFew, LeftOpen, Unprinted, Ended,
      InSub, InPub, InSession
<1>11. Counts'
  BY <1>1, <1>5
  DEF MeasureInv, Counts, SubCounts, PubCounts, SessionCounts, InSub
<1> QED BY <1>1, <1>5, <1>6, <1>9, <1>10, <1>11 DEF MeasureInv, RowsWhole

LEMMA SessionCloseStep ==
  ASSUME MeasureInv, SessionClose
  PROVE  MeasureInv'
<1>1. /\ at = "close" /\ program = "start_time"
      /\ UNCHANGED <<program, args, u, text, registered, rows>>
      /\ sessions' = sessions - 1 /\ i' = i + 1
      /\ at' = IF i + 1 < args.loops THEN "open" ELSE "stats"
  BY DEF SessionClose, MeasureInv, TypeOK, Place, Ended
<1>2. /\ i \in Nat /\ u = 1 /\ text = 0 /\ sessions = 1 /\ i < args.loops
      /\ args.uris \in Int /\ args.loops \in Int
  BY <1>1, Setting, ArgumentFacts DEF MeasureInv, Place, LeftOpen, Ended
<1>3. /\ samples["open_session"] = i + 1 /\ samples["close_session"] = i
      /\ samples["first_publish"] = Whole(args, i + 1)
      /\ samples \in [Kind -> Nat]
  BY <1>1 DEF MeasureInv, Counts, SessionCounts
<1>4. /\ samples' \in [Kind -> Nat]
      /\ \A k \in Kind : samples'[k] = IF k = "close_session"
                                       THEN samples[k] + 1 ELSE samples[k]
  BY <1>3, SampleFacts, KindFacts DEF SessionClose
<1>5. samples["close_session"] + 1 <= Complete("close_session")
  BY <1>2, <1>3, Room, Setting, CompleteValue
<1>6. \A k \in Kind : samples'[k] <= Complete(k)
  BY <1>5, SampleBound, KindFacts DEF SessionClose
<1>7. i + 1 <= args.loops /\ Least(args.loops) = args.loops
  BY <1>2, Room
<1>8. i' \in 0 .. Least(args.loops)
  BY <1>1, <1>2, <1>7
<1>9. TypeOK' /\ \A r \in DOMAIN rows' : rows'[r] = Complete(r)'
  <2>1. sessions' \in 0 .. 2
    BY <1>1, <1>2
  <2>2. /\ u' \in 1 .. Least(args.uris - 1) + 1 /\ text' \in 0 .. Memory
        /\ registered' \subseteq 1 .. Least(args.uris)
    BY <1>1 DEF MeasureInv, TypeOK
  <2> QED BY <1>1, <1>4, <1>6, <1>8, <2>1, <2>2, CallType
<1>10. Place' /\ FillingFits' /\ AbortsOnlyWhenFew' /\ LeftOpen' /\ Unprinted'
  BY <1>1, <1>2
  DEF MeasureInv, Place, FillingFits, AbortsOnlyWhenFew, LeftOpen, Unprinted,
      Ended, InSub, InPub, InSession
<1>11. Counts'
  <2>1. /\ samples'["open_session"] = i + 1 /\ samples'["close_session"] = i + 1
        /\ samples'["first_publish"] = Whole(args, i + 1)
    BY <1>3, <1>4, KindFacts
  <2>2. at' = "stats" =>
          \A k \in Range(SessionRows) : samples'[k] = Complete(k)'
    <3> SUFFICES ASSUME at' = "stats"
                 PROVE  \A k \in Range(SessionRows) :
                          samples'[k] = Complete(k)'
      OBVIOUS
    <3>1. i + 1 = args.loops
      BY <1>1, <1>2, <1>7
    <3>2. /\ samples'["open_session"] = Complete("open_session")
          /\ samples'["close_session"] = Complete("close_session")
          /\ samples'["first_publish"] = Complete("first_publish")
      BY <1>7, <2>1, <3>1, Setting, CompleteValue
    <3> QED BY <1>1, <3>2, KindFacts, Frame
  <2>3. SessionCounts'
    BY <1>1, <1>2, <2>1, <2>2 DEF SessionCounts
  <2>4. SubCounts' /\ PubCounts'
    BY <1>1 DEF SubCounts, PubCounts
  <2> QED BY <1>4, <2>3, <2>4 DEF Counts
<1> QED BY <1>1, <1>9, <1>10, <1>11 DEF MeasureInv, RowsWhole

LEMMA BencSendStep ==
  ASSUME MeasureInv, Send, program = "benc", SamplePublish, NextMessage,
         text' = 0
  PROVE  MeasureInv'
<1>1. /\ at = "send"
      /\ UNCHANGED <<program, args, sessions, registered, rows>>
  BY DEF Send
<1>2. /\ i \in Nat /\ u \in Nat /\ u >= 1 /\ i < args.loops /\ u <= args.uris
      /\ args.uris \in Int /\ args.loops \in Int /\ args.uris > 0
      /\ samples \in [Kind -> Nat]
      /\ samples["publish"] = IF i = 0 THEN 0 ELSE Whole(args, i - 1) + (u - 1)
  BY <1>1, Setting, ArgumentFacts DEF MeasureInv, Place, Counts, PubCounts
<1>3. \/ u < args.uris /\ u' = u + 1 /\ at' = "fill" /\ i' = i
      \/ /\ u = args.uris /\ u' = 1 /\ i' = i + 1
         /\ at' = IF i + 1 < args.loops THEN "fill" ELSE "pubStats"
  BY <1>2 DEF NextMessage
<1>4. /\ samples' \in [Kind -> Nat]
      /\ samples'["publish"] = IF i = 0 THEN 0 ELSE samples["publish"] + 1
      /\ \A k \in Kind : k # "publish" => samples'[k] = samples[k]
  <2>1. CASE i = 0
    BY <1>2, <2>1 DEF SamplePublish
  <2>2. CASE i # 0
    <3>1. Sample("publish") /\ "publish" \in Kind
      BY <2>2, KindFacts DEF SamplePublish
    <3> QED BY <1>2, <2>2, <3>1, SampleFacts
  <2> QED BY <2>1, <2>2
<1>5. /\ Complete("publish") = Whole(args, args.loops - 1)
      /\ i > 0 => Whole(args, i - 1) \in Nat
      /\ i > 0 => Whole(args, i) = Whole(args, i - 1) + Least(args.uris)
      /\ i > 0 => Whole(args, i) <= Whole(args, args.loops - 1)
      /\ Least(args.uris) = args.uris
      /\ Least(args.loops) = args.loops /\ i + 1 <= args.loops
      /\ Least(args.uris - 1) = args.uris - 1
  BY <1>2, Room, Setting, CompleteValue
<1>6. samples'["publish"] <= Complete("publish")
  <2>1. Complete("publish") \in Nat
    BY Setting, KindFacts
  <2>2. CASE i = 0
    BY <1>4, <2>1, <2>2
  <2>3. CASE i # 0
    <3>1. samples'["publish"] = Whole(args, i - 1) + u /\ i > 0
      BY <1>2, <1>4, <1>5, <2>3
    <3> QED BY <1>2, <1>5, <2>1, <3>1
  <2> QED BY <2>2, <2>3
<1>7. \A k \in Kind : samples'[k] <= Complete(k)
  BY <1>4, <1>6, Setting
<1>8. /\ i' \in 0 .. Least(args.loops) /\ u' \in 1 .. Least(args.uris - 1) + 1
      /\ text' \in 0 .. Memory /\ at' \in {"fill", "pubStats"}
  BY <1>2, <1>3, <1>5, LengthAssumption
<1>9. TypeOK' /\ \A r \in DOMAIN rows' : rows'[r] = Complete(r)'
  BY <1>1, <1>4, <1>7, <1>8, CallType DEF MeasureInv, TypeOK
<1>10. Place' /\ FillingFits' /\ AbortsOnlyWhenFew' /\ LeftOpen' /\ Unprinted'
  BY <1>1, <1>2, <1>3
  DEF MeasureInv, Place, FillingFits, AbortsOnlyWhenFew, LeftOpen, Unprinted,
      Ended, InSub, InPub, InSession
<1>11. Counts'
  <2>1. i > 0 => samples'["publish"] = Whole(args, i - 1) + u
    BY <1>2, <1>4, <1>5
  <2>2. i = 0 => samples'["publish"] = 0
    BY <1>4
  <2>3. CASE u < args.uris
    <3>1. at' = "fill" /\ i' = i /\ u' - 1 = u
      BY <1>2, <1>3, <2>3
    <3>2. samples'["publish"] = IF i' = 0 THEN 0
                                ELSE Whole(args, i' - 1) + (u' - 1)
      BY <1>2, <2>1, <2>2, <3>1
    <3>3. PubCounts' /\ SubCounts' /\ SessionCounts'
      BY <1>1, <3>1, <3>2 DEF PubCounts, SubCounts, SessionCounts, InSub
    <3> QED BY <1>4, <3>3 DEF Counts
  <2>4. CASE u = args.uris
    <3>1. /\ u' - 1 = 0 /\ i' = i + 1 /\ i' # 0 /\ i' - 1 = i
          /\ at' = IF i + 1 < args.loops THEN "fill" ELSE "pubStats"
      BY <1>2, <1>3, <2>4
    <3>2. samples'["publish"] = Whole(args, i)
      <4>1. Whole(args, 0) = 0
        BY Setting, WholeFacts
      <4> QED BY <1>2, <1>5, <2>1, <2>2, <2>4, <4>1
    <3>3. samples'["publish"] = Whole(args, i' - 1) + (u' - 1)
      <4>1. Whole(args, i) \in Nat
        BY <1>2, Setting, WholeFacts
      <4> QED BY <3>1, <3>2, <4>1
    <3>4. at' = "pubStats" => samples'["publish"] = Complete("publish")'
      <4>1. at' = "pubStats" => i = args.loops - 1
        BY <1>2, <3>1
      <4>2. Complete("publish")' = Complete("publish")
        BY <1>1, KindFacts, Frame
      <4> QED BY <1>5, <3>2, <4>1, <4>2
    <3>5. PubCounts' /\ SubCounts' /\ SessionCounts'
      BY <1>1, <3>1, <3>3, <3>4 DEF PubCounts, SubCounts, SessionCounts, InSub
    <3> QED BY <1>4, <3>5 DEF Counts
  <2> QED BY <1>2, <2>3, <2>4
<1> QED BY <1>1, <1>3, <1>9, <1>10, <1>11 DEF MeasureInv, RowsWhole

LEMMA FirstSendStep ==
  ASSUME MeasureInv, Send, program = "start_time", SamplePublish, NextMessage,
         text' = 0
  PROVE  MeasureInv'
<1>1. /\ at = "send"
      /\ UNCHANGED <<program, args, sessions, registered, rows>>
  BY DEF Send
<1>2. /\ i \in Nat /\ u \in Nat /\ u >= 1 /\ i < args.loops /\ u <= args.uris
      /\ args.uris \in Int /\ args.loops \in Int /\ args.uris > 0
      /\ samples \in [Kind -> Nat] /\ sessions = 1
      /\ samples["first_publish"] = Whole(args, i) + (u - 1)
      /\ samples["open_session"] = i + 1 /\ samples["close_session"] = i
  BY <1>1, Setting, ArgumentFacts
  DEF MeasureInv, Place, Counts, SessionCounts, LeftOpen
<1>3. \/ u < args.uris /\ u' = u + 1 /\ at' = "fill" /\ i' = i
      \/ u = args.uris /\ u' = 1 /\ at' = "close" /\ i' = i
  BY <1>2 DEF NextMessage
<1>4. Sample("first_publish") /\ "first_publish" \in Kind
  BY KindFacts DEF SamplePublish
<1>5. /\ samples' \in [Kind -> Nat]
      /\ \A k \in Kind : samples'[k] = IF k = "first_publish"
                                       THEN samples[k] + 1 ELSE samples[k]
  BY <1>2, <1>4, SampleFacts
<1>6. /\ Complete("first_publish") = Whole(args, args.loops)
      /\ Whole(args, i) \in Nat
      /\ Whole(args, i + 1) = Whole(args, i) + Least(args.uris)
      /\ Whole(args, i + 1) <= Whole(args, args.loops)
      /\ Least(args.uris) = args.uris /\ Least(args.loops) = args.loops
      /\ Least(args.uris - 1) = args.uris - 1
  BY <1>2, Room, Setting, CompleteValue
<1>7. samples["first_publish"] + 1 <= Complete("first_publish")
  <2>1. Complete("first_publish") \in Nat
    BY <1>4, Setting
  <2> QED BY <1>2, <1>6, <2>1
<1>8. \A k \in Kind : samples'[k] <= Complete(k)
  BY <1>4, <1>7, SampleBound
<1>9. /\ i' \in 0 .. Least(args.loops) /\ u' \in 1 .. Least(args.uris - 1) + 1
      /\ text' \in 0 .. Memory
  BY <1>2, <1>3, <1>6, LengthAssumption
<1>10. TypeOK' /\ \A r \in DOMAIN rows' : rows'[r] = Complete(r)'
  BY <1>1, <1>3, <1>5, <1>8, <1>9, CallType DEF MeasureInv, TypeOK
<1>11. Place' /\ FillingFits' /\ AbortsOnlyWhenFew' /\ LeftOpen' /\ Unprinted'
  BY <1>1, <1>2, <1>3
  DEF MeasureInv, Place, FillingFits, AbortsOnlyWhenFew, LeftOpen, Unprinted,
      Ended, InSub, InPub, InSession
<1>12. Counts'
  <2>1. /\ samples'["open_session"] = i + 1 /\ samples'["close_session"] = i
        /\ samples'["first_publish"] = samples["first_publish"] + 1
    BY <1>2, <1>5, KindFacts
  <2>2. samples'["first_publish"] = Whole(args, i) + u
    BY <1>2, <1>6, <2>1
  <2>3. SessionCounts'
    <3>1. CASE u < args.uris
      <4>1. u' - 1 = u /\ i' = i /\ at' = "fill"
        BY <1>2, <1>3, <3>1
      <4> QED BY <1>1, <2>1, <2>2, <4>1 DEF SessionCounts
    <3>2. CASE u = args.uris
      <4>1. i' = i /\ at' = "close"
        BY <1>2, <1>3, <3>2
      <4>2. samples'["first_publish"] = Whole(args, i + 1)
        BY <1>6, <2>2, <3>2
      <4> QED BY <1>1, <2>1, <4>1, <4>2 DEF SessionCounts
    <3> QED BY <1>2, <3>1, <3>2
  <2>4. SubCounts' /\ PubCounts'
    BY <1>1, <1>3 DEF SubCounts, PubCounts
  <2> QED BY <1>5, <2>3, <2>4 DEF Counts
<1> QED BY <1>1, <1>3, <1>10, <1>11, <1>12 DEF MeasureInv, RowsWhole

LEMMA SendStep ==
  ASSUME MeasureInv, Send
  PROVE  MeasureInv'
<1>1. CASE Fail("send") /\ UNCHANGED samples
  BY <1>1, FailStep DEF Send
<1>2. CASE SamplePublish /\ NextMessage /\ text' = 0
  BY <1>2, BencSendStep, FirstSendStep DEF MeasureInv, Place
<1> QED BY <1>1, <1>2 DEF Send
-----------------------------------------------------------------------------
(* The end of each function.                                               *)

LEMMA ShowRowsFacts ==
  ASSUME NEW names, ShowRows(names)
  PROVE  \E done \in SUBSET Range(names) :
           /\ rows' = [r \in DOMAIN rows \cup done |->
                         IF r \in done THEN samples[r] ELSE rows[r]]
           /\ \/ done = Range(names) /\ at' = AfterReturn
              \/ /\ \E r \in Range(names) : ~ samples[r] >= 2
                 /\ at' = "aborted"
<1> DEFINE few  == {k \in DOMAIN names : ~ EnoughSamples(samples[names[k]])}
           done == {names[k] : k \in {j \in DOMAIN names : \A f \in few : j < f}}
<1>1. /\ rows' = [r \in DOMAIN rows \cup done |->
                    IF r \in done THEN samples[r] ELSE rows[r]]
      /\ at' = IF few = {} THEN AfterReturn ELSE "aborted"
  BY DEF ShowRows
<1>2. done \in SUBSET Range(names)
  BY DEF Range
<1>3. few = {} => done = Range(names)
  BY DEF Range
<1>4. few # {} => \E r \in Range(names) : ~ samples[r] >= 2
  BY DEF Range, EnoughSamples
<1> HIDE DEF few, done
<1> QED BY <1>1, <1>2, <1>3, <1>4

\* Rows of whole measurements are added, or the program dies of a measurement
\* that is whole and too short.
LEMMA RowsStep ==
  ASSUME MeasureInv, UNCHANGED <<program, args, samples>>,
         NEW names, Range(names) \subseteq Kind, ShowRows(names),
         \A k \in Range(names) : samples[k] = Complete(k)
  PROVE  /\ \A r \in DOMAIN rows' : rows'[r] = Complete(r)'
         /\ DOMAIN rows' \subseteq DOMAIN rows \cup Range(names)
         /\ \/ /\ at' = AfterReturn
               /\ DOMAIN rows' = DOMAIN rows \cup Range(names)
            \/ at' = "aborted" /\ \E r \in Range(names) : Complete(r)' < 2
<1>1. PICK done \in SUBSET Range(names) :
         /\ rows' = [r \in DOMAIN rows \cup done |->
                       IF r \in done THEN samples[r] ELSE rows[r]]
         /\ \/ done = Range(names) /\ at' = AfterReturn
            \/ (\E r \in Range(names) : ~ samples[r] >= 2) /\ at' = "aborted"
  BY ShowRowsFacts
<1>2. \A k \in Kind : Complete(k)' = Complete(k) /\ Complete(k) \in Nat
  BY Frame, Setting
<1>3. DOMAIN rows \subseteq Kind /\ \A r \in DOMAIN rows : rows[r] = Complete(r)
  BY DEF MeasureInv, TypeOK, RowsWhole
<1>4. DOMAIN rows' = DOMAIN rows \cup done
  BY <1>1
<1>5. \A r \in DOMAIN rows' : rows'[r] = Complete(r)'
  BY <1>1, <1>2, <1>3, <1>4
<1>6. \A r \in Range(names) : ~ samples[r] >= 2 => Complete(r)' < 2
  BY <1>2
<1> QED BY <1>1, <1>4, <1>5, <1>6

LEMMA SubStatsStep ==
  ASSUME MeasureInv, SubStats
  PROVE  MeasureInv'
<1>1. /\ at = "subStats" /\ program = "benc"
      /\ UNCHANGED <<program, args, u, text, samples>>
      /\ sessions' = sessions - 1 /\ registered' = {} /\ i' = 0
  BY DEF SubStats, MeasureInv, TypeOK, Ended
<1>2. /\ sessions = 1 /\ u = 1 /\ text = 0 /\ DOMAIN rows = {}
      /\ samples \in [Kind -> Nat] /\ samples["publish"] = 0
      /\ \A k \in Range(SubRows) : samples[k] = Complete(k)
  BY <1>1 DEF MeasureInv, LeftOpen, Place, Unprinted, Counts, SubCounts,
              PubCounts, InSub, Ended
<1>3. /\ \A r \in DOMAIN rows' : rows'[r] = Complete(r)'
      /\ DOMAIN rows' \subseteq DOMAIN rows \cup Range(SubRows)
      /\ \/ at' = AfterReturn /\ DOMAIN rows' = DOMAIN rows \cup Range(SubRows)
         \/ at' = "aborted" /\ \E r \in Range(SubRows) : Complete(r)' < 2
  BY <1>1, <1>2, RowsStep, KindFacts DEF SubStats
<1>4. /\ DOMAIN rows' \subseteq {"subscribe", "unsubscribe"}
      /\ at' \in {"pubOpen", "aborted"}
  BY <1>1, <1>2, <1>3, KindFacts DEF AfterReturn
<1>5. /\ Least(args.loops) \in Nat /\ sessions' = 0
      /\ \A k \in Kind : samples[k] <= Complete(k)
  BY <1>1, <1>2, Setting, ArgumentFacts
<1>6. TypeOK'
  <2>1. \A k \in Kind : samples'[k] \in 0 .. Complete(k)'
    BY <1>1, Frame DEF MeasureInv, TypeOK
  <2>2. /\ args' \in [loops : Loops, size : Sizes, uris : Uris]
        /\ i' \in 0 .. Least(args'.loops)
        /\ u' \in 1 .. Least(args'.uris - 1) + 1
        /\ text' \in 0 .. Memory /\ sessions' \in 0 .. 2
        /\ registered' \subseteq 1 .. Least(args'.uris)
    BY <1>1, <1>5 DEF MeasureInv, TypeOK
  <2> QED BY <1>1, <1>4, <2>1, <2>2, KindFacts DEF TypeOK, Ended
<1>7. Place' /\ FillingFits' /\ LeftOpen' /\ Unprinted'
  BY <1>1, <1>2, <1>4, <1>5
  DEF MeasureInv, Place, FillingFits, LeftOpen, Unprinted, Ended, InSub, InPub,
      InSession
<1>8. AbortsOnlyWhenFew'
  BY <1>1, <1>3, KindFacts DEF AbortsOnlyWhenFew, AfterReturn
<1>9. Counts'
  BY <1>1, <1>2, <1>4 DEF Counts, SubCounts, PubCounts, SessionCounts, InSub
<1> QED BY <1>3, <1>4, <1>6, <1>7, <1>8, <1>9 DEF MeasureInv, RowsWhole

LEMMA PubStatsStep ==
  ASSUME MeasureInv, PubStats
  PROVE  MeasureInv'
<1>1. /\ at = "pubStats" /\ program = "benc"
      /\ UNCHANGED <<program, args, i, u, text, registered, samples>>
      /\ sessions' = sessions - 1
  BY DEF PubStats, MeasureInv, TypeOK, Ended
<1>2. /\ sessions \in {1, 2} /\ u = 1 /\ text = 0
      /\ sessions = 2 => "subscribe" \notin DOMAIN rows
      /\ samples \in [Kind -> Nat]
      /\ \A k \in Range(PubRows) : samples[k] = Complete(k)
  BY <1>1, KindFacts DEF MeasureInv, LeftOpen, Place, Counts, PubCounts, Ended
<1>3. /\ \A r \in DOMAIN rows' : rows'[r] = Complete(r)'
      /\ DOMAIN rows' \subseteq DOMAIN rows \cup Range(PubRows)
      /\ \/ at' = AfterReturn /\ DOMAIN rows' = DOMAIN rows \cup Range(PubRows)
         \/ at' = "aborted" /\ \E r \in Range(PubRows) : Complete(r)' < 2
  BY <1>1, <1>2, RowsStep, KindFacts DEF PubStats
<1>4. /\ DOMAIN rows' \subseteq DOMAIN rows \cup {"publish"}
      /\ DOMAIN rows' \subseteq Kind
      /\ at' \in {"exited", "aborted"}
  BY <1>1, <1>3, KindFacts DEF AfterReturn, MeasureInv, TypeOK
<1>5. TypeOK'
  <2>1. \A k \in Kind : samples'[k] \in 0 .. Complete(k)'
    BY <1>1, Frame DEF MeasureInv, TypeOK
  <2>2. /\ args' \in [loops : Loops, size : Sizes, uris : Uris]
        /\ i' \in 0 .. Least(args'.loops)
        /\ u' \in 1 .. Least(args'.uris - 1) + 1
        /\ text' \in 0 .. Memory /\ sessions' \in 0 .. 2
        /\ registered' \subseteq 1 .. Least(args'.uris)
    BY <1>1, <1>2 DEF MeasureInv, TypeOK
  <2> QED BY <1>1, <1>4, <2>1, <2>2 DEF TypeOK, Ended
<1>6. Place' /\ FillingFits' /\ LeftOpen' /\ Unprinted'
  BY <1>1, <1>2, <1>4
  DEF MeasureInv, Place, FillingFits, LeftOpen, Unprinted, Ended, InSub, InPub,
      InSession
<1>7. AbortsOnlyWhenFew'
  BY <1>1, <1>3, KindFacts DEF AbortsOnlyWhenFew, AfterReturn
<1>8. Counts'
  BY <1>1, <1>2, <1>4 DEF Counts, SubCounts, PubCounts, SessionCounts, InSub
<1>9. RowsWhole'
  <2>1. sessions' > 0 => "subscribe" \notin DOMAIN rows'
    BY <1>1, <1>2, <1>4
  <2> QED BY <1>1, <1>3, <2>1, KindFacts DEF RowsWhole
<1> QED BY <1>5, <1>6, <1>7, <1>8, <1>9 DEF MeasureInv

LEMMA SessionStatsStep ==
  ASSUME MeasureInv, SessionStats
  PROVE  MeasureInv'
<1>1. /\ at = "stats" /\ program = "start_time"
      /\ UNCHANGED <<program, args, i, u, text, sessions, registered, samples>>
  BY DEF SessionStats, MeasureInv, TypeOK, Place, Ended
<1>2. /\ sessions = 0 /\ u = 1 /\ text = 0 /\ samples \in [Kind -> Nat]
      /\ \A k \in Range(SessionRows) : samples[k] = Complete(k)
  BY <1>1 DEF MeasureInv, LeftOpen, Place, Counts, SessionCounts, Ended
<1>3. /\ \A r \in DOMAIN rows' : rows'[r] = Complete(r)'
      /\ DOMAIN rows' \subseteq DOMAIN rows \cup Range(SessionRows)
      /\ \/ /\ at' = AfterReturn
            /\ DOMAIN rows' = DOMAIN rows \cup Range(SessionRows)
         \/ at' = "aborted" /\ \E r \in Range(SessionRows) : Complete(r)' < 2
  BY <1>1, <1>2, RowsStep, KindFacts DEF SessionStats
<1>4. DOMAIN rows' \subseteq Kind /\ at' \in {"exited", "aborted"}
  BY <1>1, <1>3, KindFacts DEF AfterReturn, MeasureInv, TypeOK
<1>5. TypeOK'
  <2>1. \A k \in Kind : samples'[k] \in 0 .. Complete(k)'
    BY <1>1, Frame DEF MeasureInv, TypeOK
  <2>2. /\ args' \in [loops : Loops, size : Sizes, uris : Uris]
        /\ i' \in 0 .. Least(args'.loops)
        /\ u' \in 1 .. Least(args'.uris - 1) + 1
        /\ text' \in 0 .. Memory /\ sessions' \in 0 .. 2
        /\ registered' \subseteq 1 .. Least(args'.uris)
    BY <1>1, <1>2 DEF MeasureInv, TypeOK
  <2> QED BY <1>1, <1>4, <2>1, <2>2 DEF TypeOK, Ended
<1>6. Place' /\ FillingFits' /\ LeftOpen' /\ Unprinted'
  BY <1>1, <1>2, <1>4
  DEF MeasureInv, Place, FillingFits, LeftOpen, Unprinted, Ended, InSub, InPub,
      InSession
<1>7. AbortsOnlyWhenFew'
  BY <1>1, <1>3, KindFacts DEF AbortsOnlyWhenFew, AfterReturn
<1>8. Counts'
  BY <1>1, <1>2, <1>4 DEF Counts, SubCounts, PubCounts, SessionCounts, InSub
<1>9. RowsWhole'
  BY <1>1, <1>2, <1>3 DEF RowsWhole
<1> QED BY <1>5, <1>6, <1>7, <1>8, <1>9 DEF MeasureInv
-----------------------------------------------------------------------------
LEMMA MeasureInit == Init => MeasureInv
<1> SUFFICES ASSUME Init PROVE MeasureInv
  OBVIOUS
<1>1. /\ args \in [loops : Loops, size : Sizes, uris : Uris]
      /\ program \in {"benc", "start_time"}
      /\ at = IF program = "benc" THEN "subOpen"
              ELSE IF args.loops > 0 THEN "open" ELSE "stats"
      /\ i = 0 /\ u = 1 /\ text = 0 /\ sessions = 0 /\ registered = {}
      /\ samples \in [Kind -> Nat] /\ \A k \in Kind : samples[k] = 0
      /\ DOMAIN rows = {}
  BY DEF Init
<1>2. /\ args.loops \in Int /\ args.uris \in Int
      /\ Least(args.loops) \in Nat /\ Least(args.loops - 1) \in Nat
      /\ Least(args.uris - 1) \in Nat
      /\ ~ args.loops > 0 => Least(args.loops) = 0
  BY <1>1, ArgumentFacts, LeastValue
<1>3. /\ Whole(args, 0) = 0 /\ Whole(args, Least(args.loops)) \in Nat
      /\ Whole(args, Least(args.loops - 1)) \in Nat
  BY <1>1, <1>2, WholeFacts
<1>4. \A k \in Kind : Complete(k) \in Nat
  BY <1>1, <1>2, <1>3, CompleteValue, KindFacts
<1>5. TypeOK
  <2>1. \A k \in Kind : samples[k] \in 0 .. Complete(k)
    BY <1>1, <1>4
  <2>2. /\ i \in 0 .. Least(args.loops)
        /\ u \in 1 .. Least(args.uris - 1) + 1
        /\ text \in 0 .. Memory /\ sessions \in 0 .. 2
        /\ registered \subseteq 1 .. Least(args.uris)
    BY <1>1, <1>2, LengthAssumption
  <2> QED BY <1>1, <2>1, <2>2 DEF TypeOK, Ended
<1>6. /\ Place /\ FillingFits /\ LeftOpen /\ Unprinted /\ AbortsOnlyWhenFew
      /\ RowsWhole
  BY <1>1, <1>2
  DEF Place, FillingFits, LeftOpen, Unprinted, AbortsOnlyWhenFew, RowsWhole,
      Ended, InSub, InPub, InSession
<1>7. Counts
  <2>1. at = "stats" => \A k \in Range(SessionRows) : samples[k] = Complete(k)
    <3> SUFFICES ASSUME at = "stats"
                 PROVE  \A k \in Range(SessionRows) : Complete(k) = 0
      BY <1>1, KindFacts
    <3>1. Least(args.loops) = 0
      BY <1>1, <1>2
    <3> QED BY <1>1, <1>3, <3>1, CompleteValue, KindFacts
  <2>2. /\ samples["subscribe"] = 0 /\ samples["unsubscribe"] = 0
        /\ samples["publish"] = 0 /\ samples["open_session"] = 0
        /\ samples["close_session"] = 0 /\ samples["first_publish"] = 0
    BY <1>1, KindFacts
  <2> QED BY <1>1, <1>3, <2>1, <2>2
          DEF Counts, SubCounts, PubCounts, SessionCounts
<1> QED BY <1>5, <1>6, <1>7 DEF MeasureInv

LEMMA MeasureStutter ==
  ASSUME MeasureInv, UNCHANGED vars
  PROVE  MeasureInv'
<1>1. TypeOK' /\ RowsWhole' /\ AbortsOnlyWhenFew' /\ FillingFits'
  BY DEF MeasureInv, vars, TypeOK, RowsWhole, AbortsOnlyWhenFew, FillingFits,
         Complete
<1>2. Place' /\ Unprinted' /\ LeftOpen'
  BY DEF MeasureInv, vars, Place, Unprinted, LeftOpen
<1>3. Counts'
  BY DEF MeasureInv, vars, Counts, SubCounts, PubCounts, SessionCounts,
         Complete
<1> QED BY <1>1, <1>2, <1>3 DEF MeasureInv

LEMMA MeasureStep ==
  ASSUME MeasureInv, [Next]_vars
  PROVE  MeasureInv'
BY SubOpenStep, RegisterStep, UnregisterStep, SubStatsStep, PubOpenStep,
   SessionOpenStep, FillStep, SendStep, PubStatsStep, SessionCloseStep,
   SessionStatsStep, MeasureStutter
DEF Next
-----------------------------------------------------------------------------
(***************************************************************************)
(* At each place of the two programs the number of samples of each kind is *)
(* the number of calls the loops have made, and sessions and rows are what *)
(* the functions that returned have left.                                  *)
(***************************************************************************)
THEOREM MeasureInvariant == Spec => []MeasureInv
BY MeasureInit, MeasureStep, PTL DEF Spec

(***************************************************************************)
(* Type correctness: the loops stay in their bounds and no kind of call is *)
(* sampled more often than a whole measurement asks for.                   *)
(***************************************************************************)
THEOREM TypeCorrect == Spec => []TypeOK
BY MeasureInvariant, PTL DEF MeasureInv

(***************************************************************************)
(* A printed row stands for a whole measurement, and a program that has    *)
(* printed all its rows has left no session open, for all arguments and    *)
(* wherever a call fails.                                                  *)
(***************************************************************************)
THEOREM RowsWholeHolds == Spec => []RowsWhole
BY MeasureInvariant, PTL DEF MeasureInv

(***************************************************************************)
(* The statistics throw only when the arguments ask for too few calls.     *)
(***************************************************************************)
THEOREM AbortsOnlyWhenFewHolds == Spec => []AbortsOnlyWhenFew
BY MeasureInvariant, PTL DEF MeasureInv

(***************************************************************************)
(* Every payload finds its msg_size bytes in the text, and the unsigned    *)
(* length of the filling wraps only for a message size below the text      *)
(* before it, for every width of size_t that an int fits in.               *)
(***************************************************************************)
THEOREM FillingFitsHolds == Spec => []FillingFits
BY MeasureInvariant, PTL DEF MeasureInv
=============================================================================
