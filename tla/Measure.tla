------------------------------- MODULE Measure -------------------------------
(***************************************************************************)
(* The two single-process measurements.  benc registers and unregisters a  *)
(* listener for every URI, loops times over, and then publishes to every   *)
(* URI loops times, the first round unmeasured; start_time opens a session,*)
(* publishes to every URI and closes it, loops times.  Both print a row of *)
(* statistics per kind of call.                                            *)
(*                                                                         *)
(* A failed call leaves the function it is in at once: nothing is deleted, *)
(* and benc's main goes on from sub to pub all the same.  The arguments    *)
(* come from strtol, which makes 0 of what is no number; the length of a   *)
(* payload's text before the filling depends on the clock.                 *)
(***************************************************************************)
EXTENDS Integers, Sequences, Functions, FiniteSetsExt

CONSTANTS
  Loops, Sizes, Uris, \* the arguments: rounds, message size, number of URIs
  Prefixes, \* lengths of a text up to the filling
  SizeMod,  \* 2^w for the w bits of size_t
  Memory,   \* the longest text there is memory for
  Faults    \* the calls of the transport that may fail

ASSUME ArgumentAssumption == Loops \subseteq Int /\ Sizes \subseteq Int
                               /\ Uris \subseteq Int
\* A message size is an int, which is narrower than size_t.
ASSUME LengthAssumption ==
  /\ Prefixes \subseteq Nat /\ SizeMod \in Nat \ {0} /\ Memory \in Nat
  /\ \A n \in Sizes : n <= Memory /\ n < SizeMod
ASSUME FaultsAssumption ==
  Faults \subseteq {"connect", "register", "unregister", "send"}

VARIABLES
  program,    \* which of the two
  args,       \* loops, msg_size and the number of URIs
  at,         \* where it is
  i, u,       \* the round, and the index of the URI in it
  text,       \* length of the text in the string stream
  sessions,   \* number of open sessions
  registered, \* indices of the URIs registered with benc's transport
  samples,    \* number of samples of each kind of call
  rows        \* number of samples behind each row printed

vars == <<program, args, at, i, u, text, sessions, registered, samples, rows>>

\* The rows each function prints at its end, in order.
SubRows     == <<"subscribe", "unsubscribe">>
PubRows     == <<"publish">>
SessionRows == <<"open_session", "close_session", "first_publish">>
Kind == Range(SubRows) \cup Range(PubRows) \cup Range(SessionRows)

Ended == {"exited", "aborted", "exhausted"}

\* What is left when a function of the program at hand returns.
AfterReturn == IF program = "benc" /\ at \in {"subOpen", "register",
                                              "unregister", "subStats"}
               THEN "pubOpen" ELSE "exited"

Sample(kind) == samples' = [samples EXCEPT ![kind] = @ + 1]

Fail(call) ==
  /\ call \in Faults
  /\ at' = AfterReturn /\ i' = 0 /\ u' = 1 /\ text' = 0

\* Mutant: one URI too many.
NextUriPast(after, round) ==
  IF u <= args.uris THEN u' = u + 1 /\ UNCHANGED <<at, i>>
                    ELSE u' = 1 /\ at' = after /\ i' = round

\* The loop over the URIs goes on, or its round is over.
NextUri(after, round) ==
  IF u < args.uris THEN u' = u + 1 /\ UNCHANGED <<at, i>>
                   ELSE u' = 1 /\ at' = after /\ i' = round

\* Where a round of URIs begins, if there is a round and a URI in it.
Begin(first, rounds, after) ==
  IF rounds /\ args.uris > 0 THEN first ELSE after
-----------------------------------------------------------------------------
(* benc: sub *)

SubOpen ==
  /\ at = "subOpen"
  /\ \/ /\ sessions' = sessions + 1
        /\ at' = Begin("register", args.loops > 0, "subStats")
        /\ UNCHANGED <<i, u, text>>
     \/ Fail("connect") /\ UNCHANGED sessions
  /\ UNCHANGED <<program, args, registered, samples, rows>>

Register ==
  /\ at = "register"
  /\ \/ /\ registered' = registered \cup {u}
        /\ Sample("subscribe")
        /\ NextUri("unregister", i)
        /\ UNCHANGED text
     \/ Fail("register") /\ UNCHANGED <<registered, samples>>
  /\ UNCHANGED <<program, args, sessions, rows>>

Unregister ==
  /\ at = "unregister"
  /\ \/ /\ registered' = registered \ {u}
        /\ Sample("unsubscribe")
        /\ NextUri(IF i + 1 < args.loops THEN "register" ELSE "subStats", i + 1)
        /\ UNCHANGED text
     \/ Fail("unregister") /\ UNCHANGED <<registered, samples>>
  /\ UNCHANGED <<program, args, sessions, rows>>
-----------------------------------------------------------------------------
(* benc: pub, and start_time's start_session *)

PubOpen ==
  /\ at = "pubOpen"
  /\ \/ /\ sessions' = sessions + 1
        /\ at' = Begin("fill", args.loops > 0, "pubStats")
        /\ UNCHANGED <<i, u, text>>
     \/ Fail("connect") /\ UNCHANGED sessions
  /\ UNCHANGED <<program, args, registered, samples, rows>>

SessionOpen ==
  /\ at = "open"
  /\ \/ /\ sessions' = sessions + 1
        /\ Sample("open_session")
        /\ at' = Begin("fill", TRUE, "close")
        /\ UNCHANGED <<i, u, text>>
     \/ Fail("connect") /\ UNCHANGED <<sessions, samples>>
  /\ UNCHANGED <<program, args, registered, rows>>

\* msg_size - len, which has no sign.
Filling(len) == (args.size - len) % SizeMod

\* The text is written and filled up; the program dies of a text that is too
\* long, character by character.
Fill ==
  /\ at = "fill"
  /\ \E p \in Prefixes :
       LET len == text + p
       IN  IF len + Filling(len) <= Memory
           THEN text' = len + Filling(len) /\ at' = "send"
           ELSE at' = "exhausted" /\ UNCHANGED text
  /\ UNCHANGED <<program, args, i, u, sessions, registered, samples, rows>>

\* The next URI; at the end of a round benc starts the next one, and
\* start_time closes the session.
NextMessage ==
  IF u < args.uris THEN u' = u + 1 /\ at' = "fill" /\ UNCHANGED i
  ELSE IF program = "benc"
       THEN /\ u' = 1 /\ i' = i + 1
            /\ at' = IF i' < args.loops THEN "fill" ELSE "pubStats"
       ELSE u' = 1 /\ at' = "close" /\ UNCHANGED i

\* benc does not measure its first round.
SamplePublish ==
  IF program = "start_time" THEN Sample("first_publish")
  ELSE IF i # 0 THEN Sample("publish") ELSE UNCHANGED samples

\* Mutants: a failed send leaves the loop only; the text is not cleared.
SendBreaks ==
  /\ at = "send"
  /\ \/ SamplePublish /\ NextMessage
     \/ /\ "send" \in Faults
        /\ at' = IF program = "benc" THEN "pubStats" ELSE "close"
        /\ u' = 1 /\ UNCHANGED <<i, samples>>
  /\ text' = 0
  /\ UNCHANGED <<program, args, sessions, registered, rows>>

SendKeepsText ==
  /\ at = "send"
  /\ SamplePublish /\ NextMessage
  /\ text' = IF at' = "fill" THEN text ELSE 0
  /\ UNCHANGED <<program, args, sessions, registered, rows>>

\* The payload is sent, and the text cleared.
Send ==
  /\ at = "send"
  /\ \/ SamplePublish /\ NextMessage /\ text' = 0
     \/ Fail("send") /\ UNCHANGED samples
  /\ UNCHANGED <<program, args, sessions, registered, rows>>

SessionClose ==
  /\ at = "close"
  /\ sessions' = sessions - 1
  /\ Sample("close_session")
  /\ i' = i + 1
  /\ at' = IF i' < args.loops THEN "open" ELSE "stats"
  /\ UNCHANGED <<program, args, u, text, registered, rows>>
-----------------------------------------------------------------------------
(* The end of each function: sub and pub delete their transport first.     *)

EnoughSamples(n) == n >= 2

\* Rows are printed up to the first that has too few samples: value() of its
\* getStats throws, and nothing catches it.
ShowRows(names) ==
  LET few  == {k \in DOMAIN names : ~ EnoughSamples(samples[names[k]])}
      done == {names[k] : k \in {j \in DOMAIN names : \A f \in few : j < f}}
  IN  /\ rows' = [r \in DOMAIN rows \cup done |->
                    IF r \in done THEN samples[r] ELSE rows[r]]
      /\ at' = IF few = {} THEN AfterReturn ELSE "aborted"

SubStats ==
  /\ at = "subStats"
  /\ sessions' = sessions - 1 /\ registered' = {}
  /\ ShowRows(SubRows)
  /\ i' = 0
  /\ UNCHANGED <<program, args, u, text, samples>>

PubStats ==
  /\ at = "pubStats"
  /\ sessions' = sessions - 1
  /\ ShowRows(PubRows)
  /\ UNCHANGED <<program, args, i, u, text, registered, samples>>

SessionStats ==
  /\ at = "stats"
  /\ ShowRows(SessionRows)
  /\ UNCHANGED <<program, args, i, u, text, sessions, registered, samples>>
-----------------------------------------------------------------------------
Init ==
  /\ program \in {"benc", "start_time"}
  /\ args \in [loops : Loops, size : Sizes, uris : Uris]
  /\ at = IF program = "benc" THEN "subOpen"
          ELSE IF args.loops > 0 THEN "open" ELSE "stats"
  /\ i = 0 /\ u = 1 /\ text = 0 /\ sessions = 0 /\ registered = {}
  /\ samples = [k \in Kind |-> 0] /\ rows = <<>>

Next ==
  \/ SubOpen \/ Register \/ Unregister \/ SubStats
  \/ PubOpen \/ SessionOpen \/ Fill \/ Send
  \/ PubStats \/ SessionClose \/ SessionStats

Spec == Init /\ [][Next]_vars
-----------------------------------------------------------------------------
Least(n) == Max({0, n})

\* The samples of a measurement in which no call fails.
Complete(kind) ==
  LET loops == Least(args.loops)
      uris  == Least(args.uris)
  IN  CASE kind \in Range(SubRows) \cup {"first_publish"} -> loops * uris
        [] kind = "publish" -> Least(loops - 1) * uris
        [] OTHER -> loops

TypeOK ==
  /\ args \in [loops : Loops, size : Sizes, uris : Uris]
  /\ at \in Ended \cup
       (IF program = "benc"
        THEN {"subOpen", "register", "unregister", "subStats",
              "pubOpen", "fill", "send", "pubStats"}
        ELSE {"open", "fill", "send", "close", "stats"})
  /\ i \in 0 .. Least(args.loops)
  /\ u \in 1 .. Least(args.uris - 1) + 1
  /\ text \in 0 .. Memory
  /\ sessions \in 0 .. 2
  /\ registered \subseteq 1 .. Least(args.uris)
  /\ \A k \in Kind : samples[k] \in 0 .. Complete(k)
  /\ DOMAIN rows \subseteq Kind

(***************************************************************************)
(* A row that is printed stands for the whole measurement, never for the   *)
(* part of it before a call failed; and a program that has printed all of  *)
(* its rows has left no session open, although no error path deletes one.  *)
(***************************************************************************)
RowsWhole ==
  /\ \A r \in DOMAIN rows : rows[r] = Complete(r)
  /\ at = "exited" /\ sessions > 0 =>
       DOMAIN rows # IF program = "benc" THEN Range(SubRows) \cup Range(PubRows)
                                         ELSE Range(SessionRows)

(***************************************************************************)
(* value() of getStats throws only where the arguments ask for too few     *)
(* calls: no failing call leads there.  (One round is enough for that: the *)
(* first is not measured by pub.)                                          *)
(***************************************************************************)
AbortsOnlyWhenFew ==
  at = "aborted" =>
    \E r \in IF program = "benc" THEN Range(SubRows) \cup Range(PubRows)
                                  ELSE Range(SessionRows) : Complete(r) < 2

(***************************************************************************)
(* A payload takes msg_size bytes of the text, and the text has as many,   *)
(* however many messages were put together before and whatever the number  *)
(* of digits of the clock reading; the unsigned length of the filling only *)
(* wraps, and the program dies of it, when the message size asked for is   *)
(* below the length of a text before its filling.                          *)
(***************************************************************************)
FillingFits ==
  /\ at = "send" => text >= args.size
  /\ at = "exhausted" => \E p \in Prefixes : args.size < p
=============================================================================
