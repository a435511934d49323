---------------------------- MODULE PubSubProofs ----------------------------
(***************************************************************************)
(* Proofs about PubSub, for every width of the counter, every clock and    *)
(* every generator of random numbers, every number of rounds and every set *)
(* of faults.                                                              *)
(***************************************************************************)
EXTENDS PubSub, TLAPS

-----------------------------------------------------------------------------
(* The topics, their URIs, and what the callback makes of them. *)

LEMMA TopicFacts ==
  /\ Topic = {"time", "random", "counter"}
  /\ DOMAIN Topics = 1 .. 3 /\ Len(Topics) = 3
  /\ Topics[1] = "time" /\ Topics[2] = "random" /\ Topics[3] = "counter"
  /\ \A i \in 1 .. 3 : Topics[i] \in Topic
<1>1. /\ DOMAIN Topics = 1 .. 3 /\ Len(Topics) = 3
      /\ Topics[1] = "time" /\ Topics[2] = "random" /\ Topics[3] = "counter"
  BY DEF Topics
<1>2. Topic = {Topics[i] : i \in 1 .. 3}
  BY <1>1 DEF Topic, Range
<1>3. 1 .. 3 = {1, 2, 3}
  OBVIOUS
<1> QED BY <1>1, <1>2, <1>3

LEMMA UriFacts ==
  ASSUME NEW t \in Topic
  PROVE  /\ PubUri[t] \in Range(PubUri) /\ SentSize[t] \in Nat
         /\ SubUri[t] = PubUri[t]
         /\ ReadAs(PubUri[t].entity) = t
         /\ ReadSize(PubUri[t].entity) = SentSize[t]
         /\ PubUri[t] # None.uri
         /\ \A u \in Topic : PubUri[u] = PubUri[t] => u = t
<1>1. DOMAIN PubUri = {"time", "random", "counter"}
  BY DEF PubUri
<1>2. PubUri[t] \in Range(PubUri)
  BY <1>1, TopicFacts DEF Range
<1>3. /\ PubUri["time"].entity = 1 /\ PubUri["random"].entity = 2
      /\ PubUri["counter"].entity = 3 /\ None.uri.entity = 0
  BY DEF PubUri, buildMicrouri, time_id, rand_id, count_id, None
<1>4. SubUri[t] = PubUri[t]
  BY DEF SubUri, PubUri
<1>5. /\ ReadAs(1) = "time" /\ ReadAs(2) = "random" /\ ReadAs(3) = "counter"
      /\ ReadSize(1) = 8 /\ ReadSize(2) = 4 /\ ReadSize(3) = 1
  BY DEF ReadAs, ReadSize, time_id, rand_id, count_id
<1>6. SentSize["time"] = 8 /\ SentSize["random"] = 4 /\ SentSize["counter"] = 1
  BY DEF SentSize
<1> QED BY <1>2, <1>3, <1>4, <1>5, <1>6, TopicFacts
-----------------------------------------------------------------------------
(* The counter's arithmetic. *)

\* A number has one remainder.
LEMMA RemainderUnique ==
  ASSUME NEW M \in Nat \ {0}, NEW a \in Nat, NEW q \in Nat, NEW r \in 0 .. (M - 1),
         a = M * q + r
  PROVE  a % M = r
<1> DEFINE p == a \div M
           s == a % M
<1>1. p \in Int /\ s \in 0 .. (M - 1) /\ a = M * p + s
  OBVIOUS
<1> SUFFICES s = r
  OBVIOUS
<1> HIDE DEF p, s
<1>2. M * (q - p) = s - r
  BY <1>1
<1>3. CASE q - p >= 1
  <2>1. M * (q - p) >= M
    BY <1>1, <1>3
  <2> QED BY <1>1, <1>2, <2>1
<1>4. CASE q - p <= -1
  <2>1. M * (q - p) <= -M
    BY <1>1, <1>4
  <2> QED BY <1>1, <1>2, <2>1
<1>5. CASE q = p
  <2>1. M * (q - p) = 0
    BY <1>1, <1>5
  <2> QED BY <1>1, <1>2, <2>1
<1> QED BY <1>1, <1>3, <1>4, <1>5

LEMMA RemainderRange ==
  ASSUME NEW M \in Nat \ {0}, NEW a \in Nat
  PROVE  a % M \in 0 .. (M - 1)
OBVIOUS

\* Counting modulo M step by step is counting and then reducing.
LEMMA CountModulo ==
  ASSUME NEW M \in Nat \ {0}, NEW n \in Nat
  PROVE  ((n % M) + 1) % M = (n + 1) % M
<1> DEFINE q == n \div M
           r == n % M
<1>1. q \in Nat /\ r \in 0 .. (M - 1) /\ n = M * q + r
  OBVIOUS
<1> HIDE DEF q, r
<1>2. CASE r + 1 < M
  <2>1. (n + 1) % M = r + 1
    <3>1. n + 1 = M * q + (r + 1) /\ r + 1 \in 0 .. (M - 1)
      BY <1>1, <1>2
    <3>2. n + 1 \in Nat
      OBVIOUS
    <3> QED BY <1>1, <3>1, <3>2, RemainderUnique
  <2>2. (r + 1) % M = r + 1
    <3>1. r + 1 = M * 0 + (r + 1) /\ r + 1 \in 0 .. (M - 1)
      BY <1>1, <1>2
    <3> QED BY <1>1, <3>1, RemainderUnique
  <2> QED BY <2>1, <2>2 DEF r
<1>3. CASE r + 1 = M
  <2>1. (n + 1) % M = 0
    <3>1. n + 1 = M * (q + 1) + 0 /\ 0 \in 0 .. (M - 1)
      BY <1>1, <1>3
    <3>2. n + 1 \in Nat /\ q + 1 \in Nat
      BY <1>1
    <3> QED BY <3>1, <3>2, RemainderUnique
  <2>2. (r + 1) % M = 0
    <3>1. r + 1 = M * 1 + 0 /\ 0 \in 0 .. (M - 1)
      BY <1>1, <1>3
    <3> QED BY <1>1, <3>1, RemainderUnique
  <2> QED BY <2>1, <2>2 DEF r
<1> QED BY <1>1, <1>2, <1>3
-----------------------------------------------------------------------------
(* The inductive invariant. *)

\* Where the publisher is in a round: the topics before pubTopic are one
\* message ahead of the others, and only a failed send leaves a round.
Progress ==
  /\ \A i \in 1 .. 3 : sent[Topics[i]] =
                       sent["counter"] + (IF i < pubTopic THEN 1 ELSE 0)
  /\ pub = "send" => sent["counter"] < MaxRounds
  /\ pub # "send" /\ ~ sendFailed => pubTopic = 1
  /\ sendFailed => pub \in {"closing", "done"}

\* What was made: a value for each message, the counters modulo 2^w.  The
\* static counter is the last one sent, unless its send has failed.
History ==
  /\ \A t \in Topic : Len(made[t]) = sent[t]
  /\ \A n \in 1 .. sent["counter"] : made["counter"][n] = n % CounterMod
  /\ ~ sendFailed => buf["counter"] = sent["counter"] % CounterMod

\* A message is what was made for its topic and round.
AsMade(t, m) ==
  /\ m.uri = PubUri[t] /\ m.size = SentSize[t]
  /\ m.round \in 1 .. sent[t] /\ m.value = made[t][m.round]

Delivered ==
  /\ \A m \in wire : \E t \in Topic : AsMade(t, m)
  /\ \A t \in Topic : shown[t] # None => AsMade(t, shown[t])

\* Which topics have a listener at each place of main_sub.
Listeners ==
  /\ sub = "connect" => subTopic = 1 /\ registered = {}
  /\ sub = "register" => registered = {Topics[i] : i \in 1 .. (subTopic - 1)}
  /\ sub = "loop" => subTopic = 1 /\ registered = Topic
  /\ sub = "unregister" => registered = {Topics[i] : i \in subTopic .. 3}
  /\ sub = "done" => registered = {}
-----------------------------------------------------------------------------
(* The steps of the publisher that send nothing, and all the others. *)

Quiet == PubConnect \/ PubLoop \/ PubClose \/ PubCtrlC
SubOwn == SubStep \/ SubCtrlC

LEMMA NextCases ==
  ASSUME [Next]_vars
  PROVE  \/ Quiet \/ SendMessage \/ SubOwn
         \/ \E m \in wire : onReceive(m)
         \/ \E m \in wire : Lose(m)
         \/ UNCHANGED vars
BY DEF Next, PubStep, Quiet, SubOwn

LEMMA QuietFrame ==
  ASSUME Quiet
  PROVE  UNCHANGED <<pubTopic, buf, sent, made, sendFailed, wire, subVars>>
BY DEF Quiet, PubConnect, PubLoop, PubClose, PubCtrlC

LEMMA SubFrame ==
  ASSUME SubOwn
  PROVE  UNCHANGED <<pubVars, wire, shown>>
BY DEF SubOwn, SubStep, SubConnect, Register, SubLoop, Unregister, SubCtrlC

LEMMA MadeValues ==
  ASSUME TypeOK, NEW t \in Topic, NEW value \in Made(t)
  PROVE  value \in Value
<1>1. buf["counter"] \in Nat
  <2>1. buf["counter"] \in Value
    BY TopicFacts DEF TypeOK
  <2>2. \A v : v \in Clock \/ v \in Random => v \in Nat
    BY ValuesAssumption
  <2>3. \A v : v \in 0 .. (CounterMod - 1) => v \in Nat
    BY CounterAssumption
  <2> QED BY <2>1, <2>2, <2>3 DEF Value
<1>2. (buf["counter"] + 1) % CounterMod \in 0 .. (CounterMod - 1)
  <2>1. buf["counter"] + 1 \in Nat
    BY <1>1
  <2> QED BY <2>1, CounterAssumption, RemainderRange
<1>3. CASE t = "time"
  BY <1>3 DEF Made, getTime, Value
<1>4. CASE t = "random"
  BY <1>4 DEF Made, getRandom, Value
<1>5. CASE t = "counter"
  BY <1>2, <1>5 DEF Made, getCounter, Value
<1> QED BY <1>3, <1>4, <1>5, TopicFacts

\* A send that succeeds, and one that fails.
LEMMA SendCases ==
  ASSUME TypeOK, SendMessage
  PROVE  \E value \in Made(Topics[pubTopic]) :
           /\ buf' = [buf EXCEPT ![Topics[pubTopic]] = value]
           /\ \/ /\ Sent(Topics[pubTopic], value) /\ NextSend("loop")
                 /\ UNCHANGED sendFailed
              \/ /\ sendFailed' = TRUE /\ pub' = "closing"
                 /\ UNCHANGED <<wire, sent, made, pubTopic>>
BY DEF SendMessage

\* What a send leaves alone, and where it is made.
LEMMA SendFacts ==
  ASSUME TypeOK, SendMessage
  PROVE  /\ pub = "send" /\ UNCHANGED <<pubStop, subVars>>
         /\ Topics[pubTopic] \in Topic /\ pubTopic \in 1 .. 3
BY TopicFacts DEF SendMessage, TypeOK
-----------------------------------------------------------------------------
LEMMA TypeInit == Init => TypeOK
<1> SUFFICES ASSUME Init PROVE TypeOK
  OBVIOUS
<1>1. 0 \in Value /\ 0 \in 0 .. MaxRounds
  BY CounterAssumption, RoundsAssumption DEF Value
<1>2. /\ buf \in [Topic -> Value] /\ sent \in [Topic -> 0 .. MaxRounds]
      /\ made \in [Topic -> Seq(Value)]
      /\ shown \in [Topic -> Message \cup {None}]
  BY <1>1 DEF Init
<1>3. 1 \in DOMAIN Topics
  BY TopicFacts
<1> QED BY <1>2, <1>3 DEF Init, TypeOK, Ended

LEMMA TypeStep ==
  ASSUME TypeOK, Progress, [Next]_vars
  PROVE  TypeOK'
<1> USE DEF TypeOK, Ended, pubVars, subVars
<1>1. CASE Quiet
  BY <1>1, QuietFrame DEF Quiet, PubConnect, PubLoop, PubClose, PubCtrlC
<1>2. CASE SendMessage
  <2> DEFINE topic == Topics[pubTopic]
  <2>1. /\ topic \in Topic /\ pub = "send" /\ UNCHANGED <<pubStop, subVars>>
        /\ pubTopic \in 1 .. 3
    BY <1>2, SendFacts
  <2>2. sent[topic] = sent["counter"] /\ sent["counter"] < MaxRounds
        /\ sent[topic] \in Nat
    BY <2>1, TopicFacts DEF Progress
  <2>3. PICK value \in Made(topic) :
          /\ buf' = [buf EXCEPT ![topic] = value]
          /\ \/ /\ Sent(topic, value) /\ NextSend("loop")
                /\ UNCHANGED sendFailed
             \/ /\ sendFailed' = TRUE /\ pub' = "closing"
                /\ UNCHANGED <<wire, sent, made, pubTopic>>
    BY <1>2, SendCases
  <2>4. value \in Value
    BY <2>1, MadeValues
  <2> HIDE DEF topic
  <2>5. buf' \in [Topic -> Value]
    BY <2>1, <2>3, <2>4
  <2>6. CASE Sent(topic, value) /\ NextSend("loop") /\ UNCHANGED sendFailed
    <3>1. sent' \in [Topic -> 0 .. MaxRounds]
      BY <2>1, <2>2, <2>6, RoundsAssumption DEF Sent
    <3>2. made' \in [Topic -> Seq(Value)]
      BY <2>1, <2>4, <2>6 DEF Sent
    <3>3. wire' \subseteq Message
      <4> DEFINE new == [uri |-> PubUri[topic], size |-> SentSize[topic],
                         value |-> value, round |-> sent[topic] + 1]
      <4>1. sent[topic] + 1 \in 1 .. MaxRounds
        BY <2>2, RoundsAssumption
      <4>2. new \in Message
        BY <2>1, <2>4, <4>1, UriFacts DEF Message
      <4> QED BY <2>6, <4>2 DEF Sent
    <3>4. pubTopic' \in DOMAIN Topics /\ pub' \in {"send", "loop"}
      BY <2>1, <2>6, TopicFacts DEF NextSend
    <3> QED BY <2>1, <2>5, <2>6, <3>1, <3>2, <3>3, <3>4
  <2>7. CASE /\ sendFailed' = TRUE /\ pub' = "closing"
             /\ UNCHANGED <<wire, sent, made, pubTopic>>
    BY <2>1, <2>5, <2>7
  <2> QED BY <2>3, <2>6, <2>7
<1>3. CASE SubOwn
  <2> DEFINE SubPlace == {"connect", "register", "loop", "unregister"} \cup Ended
  <2>1. CASE Register \/ Unregister
    <3>1. /\ Topics[subTopic] \in Topic /\ 1 \in DOMAIN Topics
          /\ subTopic < Len(Topics) => subTopic + 1 \in DOMAIN Topics
      BY TopicFacts
    <3>2. subTopic' \in DOMAIN Topics
      BY <2>1, <3>1 DEF Register, Unregister, NextTopic
    <3>3. registered' \subseteq Topic
      BY <2>1, <3>1 DEF Register, Unregister
    <3>4. sub' \in SubPlace /\ subStop' = subStop
      BY <2>1 DEF Register, Unregister, NextTopic
    <3> QED BY <1>3, <3>2, <3>3, <3>4, SubFrame
  <2>2. CASE SubConnect \/ SubLoop \/ SubCtrlC
    <3>1. sub' \in SubPlace /\ subStop' \in BOOLEAN
          /\ UNCHANGED <<subTopic, registered>>
      BY <2>2 DEF SubConnect, SubLoop, SubCtrlC
    <3> QED BY <1>3, <3>1, SubFrame
  <2> QED BY <1>3, <2>1, <2>2 DEF SubOwn, SubStep
<1>4. ASSUME NEW m \in wire, onReceive(m) PROVE TypeOK'
  <2>1. shown' \in [Topic -> Message \cup {None}]
    BY <1>4 DEF onReceive
  <2> QED BY <1>4, <2>1 DEF onReceive
<1>5. ASSUME NEW m \in wire, Lose(m) PROVE TypeOK'
  BY <1>5 DEF Lose
<1>6. CASE UNCHANGED vars
  BY <1>6 DEF vars
<1> QED BY <1>1, <1>2, <1>3, <1>4, <1>5, <1>6, NextCases
-----------------------------------------------------------------------------
LEMMA ProgressInit == Init => Progress
BY TopicFacts, RoundsAssumption DEF Init, Progress

LEMMA ProgressStep ==
  ASSUME TypeOK, Progress, [Next]_vars
  PROVE  Progress'
<1>1. CASE Quiet
  <2>1. UNCHANGED <<pubTopic, sent, sendFailed>>
    BY <1>1, QuietFrame
  <2>2. CASE PubLoop
    <3>1. sent["time"] = sent["counter"] /\ pubTopic = 1 /\ ~ sendFailed
      BY <2>2, TopicFacts DEF PubLoop, Progress, TypeOK
    <3>2. pub' = "send" => sent["counter"] < MaxRounds
      BY <2>2, <3>1 DEF PubLoop
    <3> QED BY <2>1, <3>1, <3>2 DEF Progress
  <2>3. CASE PubConnect \/ PubClose \/ PubCtrlC
    <3>1. /\ pub' = "send" => pub = "send"
          /\ pub' # "send" => pub # "send"
          /\ sendFailed => pub' \in {"closing", "done"}
      BY <2>3 DEF PubConnect, PubClose, PubCtrlC, Progress
    <3> QED BY <2>1, <3>1 DEF Progress
  <2> QED BY <1>1, <2>2, <2>3 DEF Quiet
<1>2. CASE SendMessage
  <2> DEFINE topic == Topics[pubTopic]
  <2>1. topic \in Topic /\ pub = "send" /\ pubTopic \in 1 .. 3
    BY <1>2, SendFacts
  <2>2. sent["counter"] < MaxRounds /\ sendFailed = FALSE
    BY <2>1 DEF Progress, TypeOK
  <2>3. CASE \E value \in Made(topic) :
               /\ Sent(topic, value) /\ NextSend("loop")
               /\ UNCHANGED sendFailed
    <3>1. /\ sent' = [sent EXCEPT ![topic] = @ + 1] /\ NextSend("loop")
          /\ sendFailed' = sendFailed
      BY <2>3 DEF Sent
    <3>2. sent \in [Topic -> Nat]
      BY DEF TypeOK
    <3>3. CASE pubTopic = 1
      BY <2>1, <2>2, <3>1, <3>2, <3>3, TopicFacts DEF NextSend, Progress
    <3>4. CASE pubTopic = 2
      BY <2>1, <2>2, <3>1, <3>2, <3>4, TopicFacts DEF NextSend, Progress
    <3>5. CASE pubTopic = 3
      BY <2>1, <2>2, <3>1, <3>2, <3>5, TopicFacts DEF NextSend, Progress
    <3> QED BY <2>1, <3>3, <3>4, <3>5
  <2>4. CASE sendFailed' = TRUE /\ pub' = "closing"
             /\ UNCHANGED <<wire, sent, made, pubTopic>>
    BY <2>4 DEF Progress
  <2> QED BY <1>2, <2>3, <2>4, SendCases
<1>3. CASE SubOwn
  BY <1>3, SubFrame DEF Progress, pubVars
<1>4. CASE \E m \in wire : onReceive(m) \/ Lose(m)
  BY <1>4 DEF onReceive, Lose, Progress, pubVars
<1>5. CASE UNCHANGED vars
  BY <1>5 DEF vars, Progress, pubVars
<1> QED BY <1>1, <1>2, <1>3, <1>4, <1>5, NextCases
-----------------------------------------------------------------------------
LEMMA HistoryInit == Init => History
<1>1. 0 = 0 % CounterMod
  <2>1. 0 = CounterMod * 0 + 0 /\ 0 \in 0 .. (CounterMod - 1)
    BY CounterAssumption
  <2> QED BY <2>1, CounterAssumption, RemainderUnique
<1>2. "counter" \in Topic
  BY TopicFacts
<1> QED BY <1>1, <1>2 DEF Init, History

\* What a successful send appends.
LEMMA SentFacts ==
  ASSUME TypeOK, History, NEW t \in Topic, NEW value \in Value, Sent(t, value)
  PROVE  /\ \A u \in Topic \ {t} : sent'[u] = sent[u] /\ made'[u] = made[u]
         /\ sent'[t] = sent[t] + 1 /\ Len(made'[t]) = sent[t] + 1
         /\ \A n \in 1 .. sent[t] : made'[t][n] = made[t][n]
         /\ made'[t][sent[t] + 1] = value
<1>1. /\ sent \in [Topic -> Nat] /\ made \in [Topic -> Seq(Value)]
      /\ made[t] \in Seq(Value) /\ Len(made[t]) = sent[t] /\ sent[t] \in Nat
  BY DEF TypeOK, History
<1>2. /\ sent' = [sent EXCEPT ![t] = @ + 1]
      /\ made' = [made EXCEPT ![t] = Append(@, value)]
  BY DEF Sent
<1>3. made'[t] = Append(made[t], value) /\ sent'[t] = sent[t] + 1
  BY <1>1, <1>2
<1>4. \A u \in Topic \ {t} : sent'[u] = sent[u] /\ made'[u] = made[u]
  BY <1>1, <1>2
<1>5. /\ Len(Append(made[t], value)) = Len(made[t]) + 1
      /\ \A n \in 1 .. Len(made[t]) : Append(made[t], value)[n] = made[t][n]
      /\ Append(made[t], value)[Len(made[t]) + 1] = value
  BY <1>1
<1> QED BY <1>1, <1>3, <1>4, <1>5

LEMMA HistoryStep ==
  ASSUME TypeOK, Progress, History, [Next]_vars
  PROVE  History'
<1>1. CASE Quiet \/ SubOwn
  BY <1>1, QuietFrame, SubFrame DEF History, pubVars
<1>2. CASE SendMessage
  <2> DEFINE topic == Topics[pubTopic]
  <2>1. topic \in Topic /\ pub = "send" /\ "counter" \in Topic
    BY <1>2, SendFacts, TopicFacts
  <2>2. sendFailed = FALSE
    BY <2>1 DEF Progress, TypeOK
  <2>3. PICK value \in Made(topic) :
          /\ buf' = [buf EXCEPT ![topic] = value]
          /\ \/ /\ Sent(topic, value) /\ NextSend("loop")
                /\ UNCHANGED sendFailed
             \/ /\ sendFailed' = TRUE /\ pub' = "closing"
                /\ UNCHANGED <<wire, sent, made, pubTopic>>
    BY <1>2, SendCases
  <2>4. value \in Value
    BY <2>1, MadeValues
  <2> HIDE DEF topic
  <2>5. CASE Sent(topic, value) /\ sendFailed' = sendFailed
    <3>1. /\ \A u \in Topic \ {topic} : sent'[u] = sent[u] /\ made'[u] = made[u]
          /\ sent'[topic] = sent[topic] + 1 /\ Len(made'[topic]) = sent[topic] + 1
          /\ \A n \in 1 .. sent[topic] : made'[topic][n] = made[topic][n]
          /\ made'[topic][sent[topic] + 1] = value
      BY <2>1, <2>4, <2>5, SentFacts
    <3>2. \A t \in Topic : Len(made'[t]) = sent'[t]
      BY <2>1, <3>1 DEF History
    <3>3. buf \in [Topic -> Value] /\ sent["counter"] \in Nat
      BY <2>1 DEF TypeOK
    <3>4. CASE topic = "counter"
      <4>1. value = (buf["counter"] + 1) % CounterMod
        BY <2>1, <2>3, <3>4, TopicFacts DEF Made, getCounter
      <4>2. buf["counter"] = sent["counter"] % CounterMod
        BY <2>2 DEF History
      <4>3. value = (sent["counter"] + 1) % CounterMod
        BY <3>3, <4>1, <4>2, CounterAssumption, CountModulo
      <4>4. buf'["counter"] = sent'["counter"] % CounterMod
        BY <2>1, <2>3, <3>1, <3>3, <3>4, <4>3
      <4>5. \A n \in 1 .. sent'["counter"] :
              made'["counter"][n] = n % CounterMod
        <5> TAKE n \in 1 .. sent'["counter"]
        <5>1. n \in 1 .. sent["counter"] \/ n = sent["counter"] + 1
          BY <3>1, <3>3, <3>4
        <5> QED BY <3>1, <3>4, <4>3, <5>1 DEF History
      <4> QED BY <3>2, <4>4, <4>5 DEF History
    <3>5. CASE topic # "counter"
      <4>1. /\ buf'["counter"] = buf["counter"]
            /\ sent'["counter"] = sent["counter"]
            /\ made'["counter"] = made["counter"]
        BY <2>1, <2>3, <3>1, <3>3, <3>5
      <4> QED BY <2>5, <3>2, <4>1 DEF History
    <3> QED BY <3>4, <3>5
  <2>6. CASE sendFailed' = TRUE /\ UNCHANGED <<sent, made>>
    BY <2>6 DEF History
  <2> QED BY <2>3, <2>5, <2>6
<1>3. CASE \E m \in wire : onReceive(m) \/ Lose(m)
  BY <1>3 DEF onReceive, Lose, History, pubVars
<1>4. CASE UNCHANGED vars
  BY <1>4 DEF vars, History, pubVars
<1> QED BY <1>1, <1>2, <1>3, <1>4, NextCases
-----------------------------------------------------------------------------
LEMMA DeliveredInit == Init => Delivered
BY DEF Init, Delivered

\* A later message of the same topic, or of another one, changes nothing.
LEMMA AsMadeStays ==
  ASSUME TypeOK, History, NEW u \in Topic, NEW value \in Value, Sent(u, value),
         NEW t \in Topic, NEW m, AsMade(t, m)
  PROVE  AsMade(t, m)'
<1>1. sent[t] \in Nat /\ m.round \in 1 .. sent[t]
  BY DEF TypeOK, AsMade
<1>2. /\ m.round \in 1 .. sent'[t]
      /\ made'[t][m.round] = made[t][m.round]
  BY <1>1, SentFacts
<1> QED BY <1>2 DEF AsMade

LEMMA DeliveredStep ==
  ASSUME TypeOK, Progress, History, Delivered, [Next]_vars
  PROVE  Delivered'
<1>1. CASE Quiet \/ SubOwn
  <2>1. UNCHANGED <<sent, made, wire, shown>>
    BY <1>1, QuietFrame, SubFrame DEF pubVars, subVars
  <2> QED BY <2>1 DEF Delivered, AsMade
<1>2. CASE SendMessage
  <2>0. PICK topic \in Topic : topic = Topics[pubTopic]
    BY <1>2, SendFacts
  <2>1. UNCHANGED shown
    BY <1>2, SendFacts DEF subVars
  <2>2. PICK value \in Made(topic) :
          \/ Sent(topic, value)
          \/ UNCHANGED <<wire, sent, made>>
    BY <1>2, <2>0, SendCases
  <2>3. value \in Value
    BY MadeValues
  <2>4. CASE Sent(topic, value)
    <3> DEFINE new == [uri |-> PubUri[topic], size |-> SentSize[topic],
                       value |-> value, round |-> sent[topic] + 1]
    <3>1. wire' = wire \cup {new}
      BY <2>4 DEF Sent
    <3>2. ASSUME NEW m, m = new PROVE AsMade(topic, m)'
      <4>1. sent[topic] \in Nat
        BY DEF TypeOK
      <4>2. /\ sent'[topic] = sent[topic] + 1
            /\ made'[topic][sent[topic] + 1] = value
        BY <2>3, <2>4, SentFacts
      <4> QED BY <3>2, <4>1, <4>2 DEF AsMade
    <3>3. \A t \in Topic, m \in wire : AsMade(t, m) => AsMade(t, m)'
      BY <2>3, <2>4, AsMadeStays
    <3>4. \A t \in Topic : AsMade(t, shown[t]) => AsMade(t, shown[t])'
      <4> TAKE t \in Topic
      <4>1. ASSUME AsMade(t, shown[t])
            PROVE  /\ shown[t].round \in 1 .. sent'[t]
                   /\ made'[t][shown[t].round] = made[t][shown[t].round]
        <5>1. sent[t] \in Nat /\ shown[t].round \in 1 .. sent[t]
          BY <4>1 DEF TypeOK, AsMade
        <5> QED BY <2>3, <2>4, <5>1, SentFacts
      <4> QED BY <2>1, <4>1 DEF AsMade
    <3>5. \A m \in wire' : \E t \in Topic : AsMade(t, m)'
      <4> HIDE DEF new
      <4> QED BY <3>1, <3>2, <3>3 DEF Delivered
    <3> QED BY <2>1, <3>4, <3>5 DEF Delivered
  <2>5. CASE UNCHANGED <<wire, sent, made>>
    BY <2>1, <2>5 DEF Delivered, AsMade
  <2> QED BY <2>2, <2>4, <2>5
<1>3. ASSUME NEW m \in wire, onReceive(m) PROVE Delivered'
  <2>1. UNCHANGED <<sent, made>> /\ wire' \subseteq wire
    BY <1>3 DEF onReceive, pubVars
  <2>2. PICK t \in Topic : AsMade(t, m)
    BY DEF Delivered
  <2>3. ReadAs(m.uri.entity) = t
    BY <2>2, UriFacts DEF AsMade
  <2>4. shown' = [shown EXCEPT ![t] = m]
    BY <1>3, <2>3 DEF onReceive
  <2>5. \A u \in Topic : shown'[u] # None => AsMade(u, shown'[u])
    BY <2>2, <2>4 DEF Delivered, TypeOK
  <2> QED BY <2>1, <2>5 DEF Delivered, AsMade
<1>4. ASSUME NEW m \in wire, Lose(m) PROVE Delivered'
  BY <1>4 DEF Lose, Delivered, AsMade, pubVars, subVars
<1>5. CASE UNCHANGED vars
  BY <1>5 DEF vars, Delivered, AsMade, pubVars, subVars
<1> QED BY <1>1, <1>2, <1>3, <1>4, <1>5, NextCases
-----------------------------------------------------------------------------
LEMMA ListenersInit == Init => Listeners
BY DEF Init, Listeners

\* One listener more, one less.
LEMMA TopicRange ==
  /\ {Topics[i] : i \in 1 .. (1 - 1)} = {}
  /\ {Topics[i] : i \in 1 .. 3} = Topic
  /\ \A k \in 1 .. 3 :
       /\ {Topics[i] : i \in 1 .. k} = {Topics[i] : i \in 1 .. (k - 1)} \cup {Topics[k]}
       /\ {Topics[i] : i \in (k + 1) .. 3} = {Topics[i] : i \in k .. 3} \ {Topics[k]}
  /\ {Topics[i] : i \in (3 + 1) .. 3} = {}
<1>1. \A k \in 1 .. 3 : 1 .. k = (1 .. (k - 1)) \cup {k}
  OBVIOUS
<1>2. \A k \in 1 .. 3 : k .. 3 = ((k + 1) .. 3) \cup {k}
  OBVIOUS
<1>3. \A i, k \in 1 .. 3 : i # k => Topics[i] # Topics[k]
  BY TopicFacts
<1>4. 1 .. (1 - 1) = {} /\ (3 + 1) .. 3 = {}
  OBVIOUS
<1>5. {Topics[i] : i \in 1 .. 3} = Topic
  BY TopicFacts
<1>6. ASSUME NEW k \in 1 .. 3
      PROVE  {Topics[i] : i \in (k + 1) .. 3} =
             {Topics[i] : i \in k .. 3} \ {Topics[k]}
  <2>1. \A i \in (k + 1) .. 3 : Topics[i] # Topics[k]
    BY <1>3
  <2> QED BY <1>2, <2>1
<1> QED BY <1>1, <1>4, <1>5, <1>6

LEMMA ListenersStep ==
  ASSUME TypeOK, Listeners, [Next]_vars
  PROVE  Listeners'
<1>1. CASE SubOwn
  <2>1. subTopic \in 1 .. 3 /\ Len(Topics) = 3
    BY TopicFacts DEF TypeOK
  <2>2. CASE Register
    <3>1. CASE sub' = "failed"
      BY <3>1 DEF Listeners
    <3>2. CASE registered' = registered \cup {Topics[subTopic]} /\ NextTopic("loop")
      <4>1. registered' = {Topics[i] : i \in 1 .. subTopic}
        BY <2>1, <2>2, <3>2, TopicRange DEF Register, Listeners
      <4>2. CASE subTopic < 3
        <5>1. sub' = "register" /\ subTopic' = subTopic + 1
          BY <2>1, <2>2, <3>2, <4>2 DEF Register, NextTopic
        <5>2. subTopic' - 1 = subTopic
          BY <2>1, <5>1
        <5> QED BY <4>1, <5>1, <5>2 DEF Listeners
      <4>3. CASE ~ subTopic < 3
        <5>1. sub' = "loop" /\ subTopic' = 1 /\ subTopic = 3
          BY <2>1, <3>2, <4>3 DEF NextTopic
        <5> QED BY <4>1, <5>1, TopicRange DEF Listeners
      <4> QED BY <4>2, <4>3
    <3> QED BY <2>2, <3>1, <3>2 DEF Register
  <2>3. CASE Unregister
    <3>1. CASE sub' = "failed"
      BY <3>1 DEF Listeners
    <3>2. CASE registered' = registered \ {Topics[subTopic]} /\ NextTopic("done")
      <4>1. registered' = {Topics[i] : i \in (subTopic + 1) .. 3}
        BY <2>1, <2>3, <3>2, TopicRange DEF Unregister, Listeners
      <4>2. CASE subTopic < 3
        <5>1. sub' = "unregister" /\ subTopic' = subTopic + 1
          BY <2>1, <2>3, <3>2, <4>2 DEF Unregister, NextTopic
        <5> QED BY <4>1, <5>1 DEF Listeners
      <4>3. CASE ~ subTopic < 3
        <5>1. sub' = "done" /\ subTopic = 3
          BY <2>1, <3>2, <4>3 DEF NextTopic
        <5> QED BY <4>1, <5>1, TopicRange DEF Listeners
      <4> QED BY <4>2, <4>3
    <3> QED BY <2>3, <3>1, <3>2 DEF Unregister
  <2>4. CASE SubConnect
    <3>1. /\ sub' \in {"register", "failed"} /\ subTopic' = 1
          /\ registered' = {} /\ subTopic' - 1 = 1 - 1
      BY <2>4 DEF SubConnect, Listeners
    <3> QED BY <3>1, TopicRange DEF Listeners
  <2>5. CASE SubLoop
    <3>1. sub' = "unregister" /\ subTopic' = 1 /\ registered' = Topic
      BY <2>5 DEF SubLoop, Listeners
    <3> QED BY <3>1, TopicRange DEF Listeners
  <2>6. CASE SubCtrlC
    BY <2>6 DEF SubCtrlC, Listeners
  <2> QED BY <1>1, <2>2, <2>3, <2>4, <2>5, <2>6 DEF SubOwn, SubStep
<1>2. CASE Quiet \/ SendMessage
  BY <1>2, QuietFrame, SendFacts DEF Listeners, subVars
<1>3. CASE \E m \in wire : onReceive(m) \/ Lose(m)
  BY <1>3 DEF onReceive, Lose, Listeners, subVars
<1>4. CASE UNCHANGED vars
  BY <1>4 DEF vars, Listeners, subVars
<1> QED BY <1>1, <1>2, <1>3, <1>4, NextCases
-----------------------------------------------------------------------------
(***************************************************************************)
(* Type correctness: every variable of both programs keeps its range; the  *)
(* publisher never goes past the rounds it has started.                    *)
(***************************************************************************)
THEOREM TypeCorrect == Spec => []TypeOK
<1>1. Init => TypeOK /\ Progress
  BY TypeInit, ProgressInit
<1>2. TypeOK /\ Progress /\ [Next]_vars => (TypeOK /\ Progress)'
  BY TypeStep, ProgressStep
<1> QED BY <1>1, <1>2, PTL DEF Spec

(***************************************************************************)
(* Every message under way or shown is what main_pub made for its topic    *)
(* and round, the counter is the number of counters sent modulo 2^w unless *)
(* a send has failed, and each topic has a listener just when main_sub's   *)
(* loops have come to it.                                                  *)
(***************************************************************************)
THEOREM PubSubInvariant ==
  Spec => [](TypeOK /\ Progress /\ History /\ Delivered /\ Listeners)
<1> DEFINE IInv == TypeOK /\ Progress /\ History /\ Delivered /\ Listeners
<1>1. Init => IInv
  BY TypeInit, ProgressInit, HistoryInit, DeliveredInit, ListenersInit
<1>2. IInv /\ [Next]_vars => IInv'
  BY TypeStep, ProgressStep, HistoryStep, DeliveredStep, ListenersStep
<1> QED BY <1>1, <1>2, PTL DEF Spec

(***************************************************************************)
(* The topics stay in step whatever fails and whenever Ctrl+C comes.       *)
(***************************************************************************)
THEOREM RoundsInStepHolds == Spec => []RoundsInStep
<1>1. TypeOK /\ Progress => RoundsInStep
  <2> SUFFICES ASSUME TypeOK, Progress PROVE RoundsInStep
    OBVIOUS
  <2>1. sent["counter"] \in Nat /\ pubTopic \in 1 .. 3
    BY TopicFacts DEF TypeOK
  <2> QED BY <2>1, TopicFacts DEF Progress, RoundsInStep
<1> QED BY <1>1, PubSubInvariant, PTL

(***************************************************************************)
(* Ctrl+C does not cut a round short.                                      *)
(***************************************************************************)
THEOREM WholeRoundsHold == Spec => []WholeRounds
<1>1. TypeOK /\ Progress => WholeRounds
  <2> SUFFICES ASSUME TypeOK, Progress, pub \in Ended, ~ sendFailed
               PROVE  \A t \in Topic : sent[t] = sent["time"]
    BY DEF WholeRounds
  <2>1. sent["counter"] \in Nat /\ pubTopic = 1
    BY TopicFacts DEF TypeOK, Progress, Ended
  <2> QED BY <2>1, TopicFacts DEF Progress
<1> QED BY <1>1, PubSubInvariant, PTL

(***************************************************************************)
(* What main_sub shows is what main_pub made for that topic and round, and *)
(* it was not read past the end of the payload.                            *)
(***************************************************************************)
THEOREM ShownWasMadeHolds == Spec => []ShownWasMade
<1>1. Delivered => ShownWasMade
  <2> SUFFICES ASSUME Delivered, NEW t \in Topic, shown[t] # None
               PROVE  /\ shown[t].uri = PubUri[t]
                      /\ shown[t].value = made[t][shown[t].round]
                      /\ ReadSize(shown[t].uri.entity) <= shown[t].size
    BY DEF ShownWasMade
  <2>1. AsMade(t, shown[t])
    BY DEF Delivered
  <2>2. SentSize[t] <= SentSize[t]
    BY UriFacts
  <2> QED BY <2>1, <2>2, UriFacts DEF AsMade
<1> QED BY <1>1, PubSubInvariant, PTL

(***************************************************************************)
(* A counter's value is the number of counters sent so far modulo 2^w.     *)
(***************************************************************************)
THEOREM CounterTellsHolds == Spec => []CounterTells
<1>1. History /\ Delivered => CounterTells
  <2> SUFFICES ASSUME History, Delivered PROVE CounterTells
    OBVIOUS
  <2>1. "counter" \in Topic
    BY TopicFacts
  <2>2. ASSUME NEW m, AsMade("counter", m)
        PROVE  m.value = m.round % CounterMod
    BY <2>2 DEF AsMade, History
  <2>3. ASSUME NEW m \in wire, m.uri = PubUri["counter"]
        PROVE  m.value = m.round % CounterMod
    <3>1. PICK t \in Topic : AsMade(t, m)
      BY DEF Delivered
    <3>2. PubUri["counter"] = PubUri[t]
      BY <2>3, <3>1 DEF AsMade
    <3>3. t = "counter"
      BY <2>1, <3>2, UriFacts
    <3> QED BY <2>2, <3>1, <3>3
  <2>4. shown["counter"].value = shown["counter"].round % CounterMod
    <3>1. CASE shown["counter"] = None
      <4>1. 0 = CounterMod * 0 + 0 /\ 0 \in 0 .. (CounterMod - 1)
        BY CounterAssumption
      <4>2. 0 % CounterMod = 0
        BY <4>1, CounterAssumption, RemainderUnique
      <4> QED BY <3>1, <4>2 DEF None
    <3>2. CASE shown["counter"] # None
      <4>1. AsMade("counter", shown["counter"])
        BY <2>1, <3>2 DEF Delivered
      <4> QED BY <4>1 DEF AsMade, History
    <3> QED BY <3>1, <3>2
  <2> QED BY <2>3, <2>4 DEF CounterTells
<1> QED BY <1>1, PubSubInvariant, PTL

(***************************************************************************)
(* A subscriber that ends with success has unregistered every topic.       *)
(***************************************************************************)
THEOREM AllUnregisteredHolds == Spec => []AllUnregistered
<1>1. Listeners => AllUnregistered
  BY DEF Listeners, AllUnregistered
<1> QED BY <1>1, PubSubInvariant, PTL
=============================================================================
