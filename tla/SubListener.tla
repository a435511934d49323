----------------------------- MODULE SubListener -----------------------------
(***************************************************************************)
(* The listeners of one sub_test, called back by the transport's threads,  *)
(* beside the main thread that registers them, waits for "Stop", writes    *)
(* out what they have gathered and only then unregisters them.  (BenchRun  *)
(* has the protocol around this: a callback is one step there.)            *)
(*                                                                         *)
(* main subscribes as often as there are URIs, each time to one picked at  *)
(* random, so that two listeners may have the same URI and a URI none.     *)
(*                                                                         *)
(* onReceive and main share the figures without a lock.  Every access is a *)
(* step of its own, in the order of the source (std::filesystem needs      *)
(* C++17, where << evaluates its operands from left to right).             *)
(*                                                                         *)
(* Messages are those of pub_test: they pass the tests of onReceive for an *)
(* empty payload and a missing time stamp.  The transport (external) loses *)
(* and reorders them, does not call one listener twice at a time, and its  *)
(* destructor waits for the callbacks that are running.                    *)
(***************************************************************************)
EXTENDS Integers, FiniteSets

CONSTANTS
  Uris,   \* the topics on the command line
  Rounds, \* bound: rounds the publishers send, of one message per topic
  Faults  \* the calls that may fail

ASSUME UrisAssumption   == IsFiniteSet(Uris) /\ Uris # {}
ASSUME RoundsAssumption == Rounds \in Nat \ {0}
ASSUME FaultsAssumption == Faults \subseteq {"register", "unregister"}

N == Cardinality(Uris)
Listener == 1 .. N

VARIABLES
  subscription,  \* the URI of each listener
  main, idx,     \* where main is, and the index of the loop it is in
  registered,    \* the listeners the transport calls
  sent,          \* rounds sent of each topic
  wire,          \* deliveries under way
  callback,      \* what onReceive is doing for each listener
  duration_vec,  \* number of samples it holds
  count_arraived, messeges_size, counter,
  printed,       \* count_arraived and messeges_size as main printed them
  end,           \* where the samples being written out end
  file,          \* samples of each listener in the result file
  torn,          \* listeners whose samples moved while they were written
  atStop         \* history: samples when "Stop" was seen

listenerVars == <<callback, duration_vec, count_arraived, messeges_size,
                  counter>>
mainVars == <<main, idx, registered, printed, end, file, torn, atStop>>
vars == <<subscription, mainVars, sent, wire, listenerVars>>

Idle == [at |-> "idle", counter |-> 0]
NotPrinted == [count |-> 0, size |-> 0]
-----------------------------------------------------------------------------
(* The publishers and the transport. *)

AllSent == \A u \in Uris : sent[u] = Rounds

\* A message of topic u, whose counter is the round, goes to some of the
\* listeners registered for u.
Send(u) ==
  /\ sent[u] < Rounds /\ \A v \in Uris : sent[u] <= sent[v]
  /\ \E R \in SUBSET {i \in registered : subscription[i] = u} :
        wire' = wire \cup {[to |-> i, counter |-> sent[u]] : i \in R}
  /\ sent' = [sent EXCEPT ![u] = @ + 1]
  /\ UNCHANGED <<subscription, mainVars, listenerVars>>

Drop(m) ==
  /\ m \in wire /\ m.to \notin registered
  /\ wire' = wire \ {m}
  /\ UNCHANGED <<subscription, mainVars, sent, listenerVars>>
-----------------------------------------------------------------------------
(* CustomListener::onReceive *)

\* Mutant: incCounter(), which is commented out, counts as well.
DeliverCounts(m) ==
  /\ m \in wire /\ m.to \in registered /\ callback[m.to] = Idle
  /\ wire' = wire \ {m}
  /\ callback' = [callback EXCEPT ![m.to] = [at |-> "push",
                                             counter |-> m.counter]]
  /\ count_arraived' = [count_arraived EXCEPT ![m.to] = @ + 1]
  /\ UNCHANGED <<subscription, mainVars, sent, duration_vec, messeges_size,
                 counter>>

\* The clock is read and the payload taken apart ...
Deliver(m) ==
  /\ m \in wire /\ m.to \in registered /\ callback[m.to] = Idle
  /\ wire' = wire \ {m}
  /\ callback' = [callback EXCEPT ![m.to] = [at |-> "push",
                                             counter |-> m.counter]]
  /\ UNCHANGED <<subscription, mainVars, sent, duration_vec, count_arraived,
                 messeges_size, counter>>

\* ... duration_vec.push_back(duration) ...
PushBack(i) ==
  /\ callback[i].at = "push"
  /\ duration_vec' = [duration_vec EXCEPT ![i] = @ + 1]
  /\ callback' = [callback EXCEPT ![i].at = "count"]
  /\ UNCHANGED <<subscription, mainVars, sent, wire, count_arraived,
                 messeges_size, counter>>

\* ... the message is counted ...
Count(i) ==
  /\ callback[i].at = "count"
  /\ count_arraived' = [count_arraived EXCEPT ![i] = @ + 1]
  /\ callback' = [callback EXCEPT ![i].at = "size"]
  /\ UNCHANGED <<subscription, mainVars, sent, wire, duration_vec,
                 messeges_size, counter>>

\* ... its size (1 here) added ...
AddSize(i) ==
  /\ callback[i].at = "size"
  /\ messeges_size' = [messeges_size EXCEPT ![i] = @ + 1]
  /\ callback' = [callback EXCEPT ![i].at = "account"]
  /\ UNCHANGED <<subscription, mainVars, sent, wire, duration_vec,
                 count_arraived, counter>>

\* ... its counter kept, unless one other than 0 is there, and its size added
\* once more.
Account(i) ==
  /\ callback[i].at = "account"
  /\ counter' = [counter EXCEPT
                   ![i] = IF @ = 0 THEN callback[i].counter ELSE @]
  /\ messeges_size' = [messeges_size EXCEPT ![i] = @ + 1]
  /\ callback' = [callback EXCEPT ![i] = Idle]
  /\ UNCHANGED <<subscription, mainVars, sent, wire, duration_vec,
                 count_arraived>>
-----------------------------------------------------------------------------
(* main *)

\* Mutant: the loop condition i <= subscription.size().
AdvanceTooFar(this, next) ==
  IF idx <= N THEN main' = this /\ idx' = idx + 1 ELSE main' = next /\ idx' = 1

Advance(this, next) ==
  IF idx < N THEN main' = this /\ idx' = idx + 1 ELSE main' = next /\ idx' = 1

Register ==
  /\ main = "register"
  /\ \/ registered' = registered \cup {idx} /\ Advance("register", "listen")
     \/ /\ "register" \in Faults
        /\ main' = "delete" /\ UNCHANGED <<registered, idx>>
  /\ UNCHANGED <<subscription, sent, wire, printed, end, file, torn, atStop,
                 listenerVars>>

\* run_tests writes "Stop" when all publishers have sent everything.
SeeStop ==
  /\ main = "listen" /\ AllSent
  /\ main' = "dump"
  /\ atStop' = duration_vec
  /\ UNCHANGED <<subscription, idx, registered, sent, wire, printed, end, file,
                 torn, listenerVars>>

\* One listener of the dump: the figures are printed, one read after the
\* other ...
Dump ==
  /\ main = "dump"
  /\ printed' = [printed EXCEPT ![idx].count = count_arraived[idx]]
  /\ main' = "figures"
  /\ UNCHANGED <<subscription, idx, registered, sent, wire, end, file, torn,
                 atStop, listenerVars>>

DumpSize ==
  /\ main = "figures"
  /\ printed' = [printed EXCEPT ![idx].size = messeges_size[idx]]
  /\ main' = "test"
  /\ UNCHANGED <<subscription, idx, registered, sent, wire, end, file, torn,
                 atStop, listenerVars>>

\* ... and without samples it is passed over, else the loop over them begins.
\* (BenchRun has the file that cannot be opened.)
TestSize ==
  /\ main = "test"
  /\ \/ duration_vec[idx] > 0 /\ main' = "writing"
        /\ end' = duration_vec[idx] /\ UNCHANGED idx
     \/ duration_vec[idx] = 0 /\ Advance("dump", "unregister")
        /\ UNCHANGED end
  /\ UNCHANGED <<subscription, registered, sent, wire, printed, file, torn,
                 atStop, listenerVars>>

\* Mutant: the file is not opened for appending.
WriteTruncates ==
  /\ main = "writing"
  /\ file' = [i \in Listener |-> IF i = idx THEN end ELSE 0]
  /\ \/ UNCHANGED torn
     \/ duration_vec[idx] # end /\ torn' = torn \cup {idx}
  /\ Advance("dump", "unregister")
  /\ UNCHANGED <<subscription, registered, sent, wire, printed, end, atStop,
                 listenerVars>>

\* The loop ends.  If a sample was pushed meanwhile, the vector may have
\* moved, and what was written then is anything.
Write ==
  /\ main = "writing"
  /\ file' = [file EXCEPT ![idx] = @ + end]
  /\ \/ UNCHANGED torn
     \/ duration_vec[idx] # end /\ torn' = torn \cup {idx}
  /\ Advance("dump", "unregister")
  /\ UNCHANGED <<subscription, registered, sent, wire, printed, end, atStop,
                 listenerVars>>

\* If it fails main returns at once: the listeners are destroyed, but some
\* are still registered with a transport that is not deleted.
Unregister ==
  /\ main = "unregister"
  /\ \/ registered' = registered \ {idx} /\ Advance("unregister", "delete")
     \/ /\ "unregister" \in Faults
        /\ main' = "leaked" /\ UNCHANGED <<registered, idx>>
  /\ UNCHANGED <<subscription, sent, wire, printed, end, file, torn, atStop,
                 listenerVars>>

\* delete transport, and the listeners are destroyed on return.
Delete ==
  /\ main = "delete" /\ \A i \in Listener : callback[i] = Idle
  /\ registered' = {}
  /\ main' = "done"
  /\ UNCHANGED <<subscription, idx, sent, wire, printed, end, file, torn,
                 atStop, listenerVars>>
-----------------------------------------------------------------------------
Zero == [i \in Listener |-> 0]

Init ==
  /\ subscription \in [Listener -> Uris]
  /\ main = "register" /\ idx = 1 /\ registered = {}
  /\ sent = [u \in Uris |-> 0] /\ wire = {}
  /\ callback = [i \in Listener |-> Idle]
  /\ duration_vec = Zero /\ count_arraived = Zero /\ messeges_size = Zero
  /\ counter = Zero
  /\ printed = [i \in Listener |-> NotPrinted]
  /\ end = 0 /\ file = Zero /\ torn = {} /\ atStop = Zero

MainStep ==
  \/ Register \/ SeeStop \/ Dump \/ DumpSize \/ TestSize \/ Write
  \/ Unregister \/ Delete

Next ==
  \/ MainStep
  \/ \E u \in Uris : Send(u)
  \/ \E m \in wire : Deliver(m) \/ Drop(m)
  \/ \E i \in Listener : PushBack(i) \/ Count(i) \/ AddSize(i) \/ Account(i)

Spec == Init /\ [][Next]_vars
-----------------------------------------------------------------------------
Ended == {"done", "leaked"}

TypeOK ==
  /\ subscription \in [Listener -> Uris]
  /\ main \in {"register", "listen", "dump", "figures", "test", "writing",
               "unregister", "delete"} \cup Ended
  /\ idx \in Listener
  /\ registered \subseteq Listener
  /\ sent \in [Uris -> 0 .. Rounds]
  /\ wire \subseteq [to : Listener, counter : 0 .. Rounds - 1]
  /\ callback \in
       [Listener -> [at : {"idle", "push", "count", "size", "account"},
                     counter : 0 .. Rounds - 1]]
  /\ duration_vec \in [Listener -> 0 .. Rounds]
  /\ count_arraived \in [Listener -> 0 .. Rounds]
  /\ messeges_size \in [Listener -> 0 .. 2 * Rounds]
  /\ counter \in [Listener -> 0 .. Rounds - 1]
  /\ printed \in [Listener -> [count : 0 .. Rounds, size : 0 .. 2 * Rounds]]
  /\ end \in 0 .. Rounds
  /\ file \in [Listener -> 0 .. Rounds]
  /\ torn \subseteq Listener
  /\ atStop \in [Listener -> 0 .. Rounds]

\* main has dealt with listener i in its dump.
Dumped(i) ==
  \/ main \in {"dump", "figures", "test", "writing"} /\ i < idx
  \/ main \in {"unregister", "leaked"}
  \/ main \in {"delete", "done"} /\ atStop # Zero

(***************************************************************************)
(* Although main reads the samples while callbacks go on adding to them,   *)
(* the file gets every sample that was there when "Stop" was seen, and     *)
(* none that was never taken; a listener's samples can only be garbled     *)
(* when one more came in after "Stop" (the dump of main and writeVecToFile *)
(* against onReceive).                                                     *)
(***************************************************************************)
DumpKeeps ==
  \A i \in Listener :
    /\ file[i] <= duration_vec[i]
    /\ Dumped(i) => atStop[i] <= file[i]
    /\ i \in torn => atStop[i] < duration_vec[i]

(***************************************************************************)
(* The figures main prints of a listener are read one after the other and  *)
(* its samples later still, while onReceive adds to all three, so they may *)
(* be of different moments.  Each of them still lies between the samples   *)
(* at "Stop", but for the one whose callback was running, and those of the *)
(* result file ("total messages" shows twice their bytes); and the size is *)
(* never behind the count by more than the message being counted.          *)
(***************************************************************************)
FiguresPrinted ==
  \A i \in Listener :
    Dumped(i) =>
      /\ printed[i].count \in atStop[i] - 1 .. file[i]
      /\ printed[i].size \in 2 * printed[i].count - 2 .. 2 * file[i]
=============================================================================
