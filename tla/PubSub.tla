------------------------------- MODULE PubSub -------------------------------
(***************************************************************************)
(* The sample applications main_pub and main_sub.  The publisher sends,    *)
(* once a second and in this order, the time (8 bytes), a random number (4 *)
(* bytes) and a counter (1 byte), each under its own entity id; the        *)
(* subscriber registers one listener per topic, and its callback tells the *)
(* messages apart by the entity id of their source and reads as many bytes *)
(* as it expects of that topic.  Both run until Ctrl+C.                    *)
(*                                                                         *)
(* The publisher makes every value in a static buffer of its topic, which  *)
(* the next round overwrites while earlier messages may still be under way.*)
(*                                                                         *)
(* The transport (Zenoh, not part of the repository) loses and reorders    *)
(* messages; it calls back only for registered topics.                     *)
(***************************************************************************)
EXTENDS Integers, Sequences, Functions

CONSTANTS
  CounterMod, \* 2^w for the w bits of the counter (256 in the code)
  Clock,      \* readings of the system clock, which may be set back
  Random,     \* values of rand()
  MaxRounds,  \* bound: rounds the publisher starts
  Faults      \* the calls of the transport that may fail

ASSUME CounterAssumption == CounterMod \in Nat \ {0}
ASSUME ValuesAssumption  == Clock \subseteq Nat /\ Random \subseteq Nat
ASSUME RoundsAssumption  == MaxRounds \in Nat \ {0}
ASSUME FaultsAssumption  ==
  Faults \subseteq {"connect", "send", "register", "unregister"}

\* The topics in the order of the publishing loop and of uris in main_sub,
\* with their entity ids.
Topics == <<"time", "random", "counter">>
Topic == Range(Topics)
time_id == 1
rand_id == 2
count_id == 3

\* Of a URI's parts these two differ between the topics.
buildMicrouri(entity_id, resource_id) ==
  [entity |-> entity_id, resource |-> resource_id]

\* The URIs main_pub publishes under, and those main_sub registers.
PubUri == [time    |-> buildMicrouri(time_id, 2),
           random  |-> buildMicrouri(rand_id, 1),
           counter |-> buildMicrouri(count_id, 4)]
SubUri == [time    |-> buildMicrouri(time_id, 2),
           random  |-> buildMicrouri(rand_id, 1),
           counter |-> buildMicrouri(count_id, 4)]

VARIABLES
  pub,        \* where main_pub is
  pubTopic,   \* index of the topic it sends next
  pubStop,    \* its gTerminate
  buf,        \* the static buffer of each topic; getCounter's is its counter
  sent,       \* how many messages of each topic have been sent
  made,       \* the values made for the messages sent, in order (history)
  sendFailed, \* has a send failed (history)
  wire,       \* messages sent and not yet delivered or lost
  sub,        \* where main_sub is
  subTopic,   \* index of the topic it registers or unregisters next
  subStop,    \* its gTerminate
  registered, \* the topics that have a listener
  shown       \* the last message shown of each topic

pubVars == <<pub, pubTopic, pubStop, buf, sent, made, sendFailed>>
subVars == <<sub, subTopic, subStop, registered, shown>>
vars == <<pubVars, wire, subVars>>

Ended == {"done", "failed"}
None == [uri |-> buildMicrouri(0, 0), size |-> 0, value |-> 0, round |-> 0]
-----------------------------------------------------------------------------
(* main_pub *)

\* The number of bytes of each topic's payload, as passed to sendMessage.
SentSize == [time |-> 8, random |-> 4, counter |-> 1]

\* What uSuccess_ may be after the constructor has opened a session, or not.
Publisher == {"OK"} \cup {"UNAVAILABLE" : f \in Faults \cap {"connect"}}

PubConnect ==
  /\ pub = "connect"
  /\ \E uSuccess \in Publisher :
        pub' = IF uSuccess = "OK" THEN "loop" ELSE "failed"
  /\ UNCHANGED <<pubTopic, pubStop, buf, sent, made, sendFailed, wire, subVars>>

\* while (!gTerminate): the flag is looked at between rounds only.
PubLoop ==
  /\ pub = "loop" /\ (pubStop \/ sent["time"] < MaxRounds)
  /\ pub' = IF pubStop THEN "closing" ELSE "send"
  /\ UNCHANGED <<pubTopic, pubStop, buf, sent, made, sendFailed, wire, subVars>>

\* What the buffers may hold after each of the three functions, which return
\* a pointer to it.
getTime == Clock
getRandom == Random

\* Mutants: the old value is returned; the counter is wider than its byte.
getCounterPost == {buf["counter"]}
getCounterWide == {buf["counter"] + 1}

getCounter == {(buf["counter"] + 1) % CounterMod}

Made(topic) ==
  CASE topic = "time"    -> getTime
    [] topic = "random"  -> getRandom
    [] topic = "counter" -> getCounter

NextSend(last) ==
  IF pubTopic < Len(Topics)
  THEN pubTopic' = pubTopic + 1 /\ UNCHANGED pub
  ELSE pubTopic' = 1 /\ pub' = last

\* A message of a topic goes out, with a copy of the buffer
\* (UPayloadType::VALUE).
Sent(topic, value) ==
  /\ wire' = wire \cup {[uri |-> PubUri[topic], size |-> SentSize[topic],
                         value |-> value, round |-> sent[topic] + 1]}
  /\ sent' = [sent EXCEPT ![topic] = @ + 1]
  /\ made' = [made EXCEPT ![topic] = Append(@, value)]

\* Mutants: a failed send does not leave the loop; the flag is tested before
\* each of the three messages.
SendMessageGoesOn ==
  LET topic == Topics[pubTopic] IN
  /\ pub = "send"
  /\ \E value \in Made(topic) :
        /\ buf' = [buf EXCEPT ![topic] = value]
        /\ \/ Sent(topic, value) /\ UNCHANGED sendFailed
           \/ /\ "send" \in Faults /\ sendFailed' = TRUE
              /\ UNCHANGED <<wire, sent, made>>
  /\ NextSend("loop")
  /\ UNCHANGED <<pubStop, subVars>>

SendMessageTestsFlag ==
  LET topic == Topics[pubTopic] IN
  /\ pub = "send"
  /\ \E value \in Made(topic) :
        /\ buf' = [buf EXCEPT ![topic] = value]
        /\ \/ ~ pubStop /\ Sent(topic, value) /\ NextSend("loop")
           \/ /\ pubStop /\ pub' = "closing"
              /\ UNCHANGED <<wire, sent, made, pubTopic>>
  /\ UNCHANGED <<pubStop, sendFailed, subVars>>

\* One sendMessage of the loop: the message goes out, or send fails and the
\* loop is left.  The value is made before send, whatever becomes of it.
SendMessage ==
  LET topic == Topics[pubTopic] IN
  /\ pub = "send"
  /\ \E value \in Made(topic) :
        /\ buf' = [buf EXCEPT ![topic] = value]
        /\ \/ Sent(topic, value) /\ NextSend("loop") /\ UNCHANGED sendFailed
           \/ /\ "send" \in Faults /\ sendFailed' = TRUE
              /\ pub' = "closing"
              /\ UNCHANGED <<wire, sent, made, pubTopic>>
  /\ UNCHANGED <<pubStop, subVars>>

\* delete pub, return 0.
PubClose ==
  /\ pub = "closing"
  /\ pub' = "done"
  /\ UNCHANGED <<pubTopic, pubStop, buf, sent, made, sendFailed, wire, subVars>>

PubCtrlC ==
  /\ pub \notin Ended /\ ~ pubStop
  /\ pubStop' = TRUE
  /\ UNCHANGED <<pub, pubTopic, buf, sent, made, sendFailed, wire, subVars>>
-----------------------------------------------------------------------------
(* main_sub *)

Subscriber == {"OK"} \cup {"UNAVAILABLE" : f \in Faults \cap {"connect"}}

SubConnect ==
  /\ sub = "connect"
  /\ \E uSuccess \in Subscriber :
        sub' = IF uSuccess = "OK" THEN "register" ELSE "failed"
  /\ UNCHANGED <<subTopic, subStop, registered, shown, wire, pubVars>>

\* The loop over uris goes on with the next topic, or is finished.
NextTopic(next) ==
  IF subTopic < Len(Topics)
  THEN subTopic' = subTopic + 1 /\ UNCHANGED sub
  ELSE subTopic' = 1 /\ sub' = next

Register ==
  /\ sub = "register"
  /\ \/ /\ registered' = registered \cup {Topics[subTopic]}
        /\ NextTopic("loop")
     \/ /\ "register" \in Faults /\ sub' = "failed"
        /\ UNCHANGED <<registered, subTopic>>
  /\ UNCHANGED <<subStop, shown, wire, pubVars>>

\* Mutant: the loop goes on until every topic has been received.
SubLoopReceives ==
  /\ sub = "loop" /\ subStop /\ \A t \in Topic : shown[t] # None
  /\ sub' = "unregister"
  /\ UNCHANGED <<subTopic, subStop, registered, shown, wire, pubVars>>

\* while (!gTerminate) sleep(1);
SubLoop ==
  /\ sub = "loop" /\ subStop
  /\ sub' = "unregister"
  /\ UNCHANGED <<subTopic, subStop, registered, shown, wire, pubVars>>

\* Mutant: a topic that cannot be unregistered is skipped.
UnregisterSkips ==
  /\ sub = "unregister"
  /\ \/ registered' = registered \ {Topics[subTopic]}
     \/ "unregister" \in Faults /\ UNCHANGED registered
  /\ NextTopic("done")
  /\ UNCHANGED <<subStop, shown, wire, pubVars>>

Unregister ==
  /\ sub = "unregister"
  /\ \/ /\ registered' = registered \ {Topics[subTopic]}
        /\ NextTopic("done")
     \/ /\ "unregister" \in Faults /\ sub' = "failed"
        /\ UNCHANGED <<registered, subTopic>>
  /\ UNCHANGED <<subStop, shown, wire, pubVars>>

SubCtrlC ==
  /\ sub \notin Ended /\ ~ subStop
  /\ subStop' = TRUE
  /\ UNCHANGED <<sub, subTopic, registered, shown, wire, pubVars>>

\* What onReceive takes a message of an entity id for, and how many bytes of
\* its payload it then reads.
ReadAs(id) ==
  CASE id = time_id  -> "time"
    [] id = rand_id  -> "random"
    [] id = count_id -> "counter"

ReadSize(id) ==
  CASE id = time_id -> 8 [] id = rand_id -> 4 [] id = count_id -> 1

\* Mutant: the payload is of type REFERENCE, and seen as the buffer is now.
onReceiveReference(m) ==
  /\ m \in wire /\ sub \notin Ended
  /\ \E topic \in registered : SubUri[topic] = m.uri
  /\ wire' = wire \ {m}
  /\ LET topic == ReadAs(m.uri.entity)
     IN  shown' = [shown EXCEPT ![topic] = [m EXCEPT !.value = buf[topic]]]
  /\ UNCHANGED <<sub, subTopic, subStop, registered, pubVars>>

onReceive(m) ==
  /\ m \in wire /\ sub \notin Ended
  /\ \E topic \in registered : SubUri[topic] = m.uri
  /\ wire' = wire \ {m}
  /\ shown' = [shown EXCEPT ![ReadAs(m.uri.entity)] = m]
  /\ UNCHANGED <<sub, subTopic, subStop, registered, pubVars>>

\* The transport drops a message.
Lose(m) ==
  /\ m \in wire
  /\ wire' = wire \ {m}
  /\ UNCHANGED <<pubVars, subVars>>
-----------------------------------------------------------------------------
Init ==
  /\ pub = "connect" /\ pubTopic = 1 /\ pubStop = FALSE
  /\ buf = [t \in Topic |-> 0]
  /\ sent = [t \in Topic |-> 0] /\ made = [t \in Topic |-> <<>>]
  /\ sendFailed = FALSE
  /\ wire = {}
  /\ sub = "connect" /\ subTopic = 1 /\ subStop = FALSE
  /\ registered = {}
  /\ shown = [t \in Topic |-> None]

PubStep == PubConnect \/ PubLoop \/ SendMessage \/ PubClose
SubStep == SubConnect \/ Register \/ SubLoop \/ Unregister

Next ==
  \/ PubStep \/ PubCtrlC
  \/ SubStep \/ SubCtrlC
  \/ \E m \in wire : onReceive(m) \/ Lose(m)

Spec == Init /\ [][Next]_vars

\* The operating system schedules both programs; Ctrl+C may never come.
FairSpec == Spec /\ WF_vars(PubStep) /\ WF_vars(SubStep)
-----------------------------------------------------------------------------
Value == Clock \cup Random \cup 0 .. (CounterMod - 1)
Message == [uri : Range(PubUri), size : Nat, value : Value,
            round : 1 .. MaxRounds]

TypeOK ==
  /\ pub \in {"connect", "loop", "send", "closing"} \cup Ended
  /\ sub \in {"connect", "register", "loop", "unregister"} \cup Ended
  /\ pubTopic \in DOMAIN Topics /\ subTopic \in DOMAIN Topics
  /\ pubStop \in BOOLEAN /\ subStop \in BOOLEAN
  /\ buf \in [Topic -> Value]
  /\ sent \in [Topic -> 0 .. MaxRounds]
  /\ made \in [Topic -> Seq(Value)]
  /\ sendFailed \in BOOLEAN
  /\ wire \subseteq Message
  /\ registered \subseteq Topic
  /\ shown \in [Topic -> Message \cup {None}]

(***************************************************************************)
(* What main_sub shows of a topic is what main_pub made for that topic and *)
(* that round, whatever has been made in the same static buffer since and  *)
(* in whatever order messages arrive, and it was not read past the end of  *)
(* the payload: the callback casts it to the type it expects under the     *)
(* entity id.                                                              *)
(***************************************************************************)
ShownWasMade ==
  \A t \in Topic : shown[t] # None =>
    /\ shown[t].uri = PubUri[t]
    /\ shown[t].value = made[t][shown[t].round]
    /\ ReadSize(shown[t].uri.entity) <= shown[t].size

(***************************************************************************)
(* The three topics stay in step: whatever fails and whenever Ctrl+C comes,*)
(* a topic is never ahead of the one before it, and the first never more   *)
(* than one round ahead of the last (the publishing loop and its breaks).  *)
(***************************************************************************)
RoundsInStep ==
  /\ sent["counter"] <= sent["random"]
  /\ sent["random"] <= sent["time"]
  /\ sent["time"] <= sent["counter"] + 1

(***************************************************************************)
(* Ctrl+C does not cut a round short: unless a send has failed, a publisher*)
(* that has ended has sent equally many messages of each topic.            *)
(***************************************************************************)
WholeRounds ==
  pub \in Ended /\ ~ sendFailed => \A t \in Topic : sent[t] = sent["time"]

(***************************************************************************)
(* A subscriber can tell lost counters from the values: the value is the   *)
(* number of counters published so far modulo 2^w, also past the wrap of   *)
(* the 8-bit static counter.                                               *)
(***************************************************************************)
CounterTells ==
  /\ \A m \in wire : m.uri = PubUri["counter"] => m.value = m.round % CounterMod
  /\ shown["counter"].value = shown["counter"].round % CounterMod

(***************************************************************************)
(* A subscriber that ends with success has unregistered every topic it     *)
(* registered, one after the other.                                        *)
(***************************************************************************)
AllUnregistered == sub = "done" => registered = {}

(***************************************************************************)
(* Ctrl+C ends either program, whatever it was doing (signalHandler only   *)
(* sets a flag that the loops look at), with or without messages and       *)
(* failures.                                                               *)
(***************************************************************************)
CtrlCEnds ==
  /\ pubStop ~> pub \in Ended
  /\ subStop ~> sub \in Ended
=============================================================================
