------------------------------ MODULE RpcProofs ------------------------------
(***************************************************************************)
(* Proofs about Rpc and its refinement of RemoteCall, for every number of  *)
(* calls and every set of faults.                                          *)
(***************************************************************************)
EXTENDS RpcRefinement, TLAPS

-----------------------------------------------------------------------------
(* The inductive invariant: three facts about the calls that none of the   *)
(* properties below states by itself.                                      *)

UnderWay == requests \cup handling \cup replies

\* A call has at most one message under way, in one place, and none has a
\* message before it is made.
OneMessage ==
  /\ \A m \in UnderWay : m.payload.of = m.id /\ m.id <= call
  /\ \A m1, m2 \in UnderWay : m1.id = m2.id => m1 = m2
  /\ requests \cap handling = {} /\ handling \cap replies = {}
  /\ requests \cap replies = {}

\* The listener is called once for each call: as long as the request is on
\* the way it has not been, and nothing answers a call it was not called for.
ServedOnce ==
  /\ served \subseteq 1 .. call
  /\ \A r \in requests : r.id \notin served
  /\ \A m \in handling \cup replies : m.id \in served

\* The future belongs to the current call, and is waited for until it is
\* fulfilled; the answer shown is the one it was fulfilled with.
FutureOfCall ==
  /\ future \notin {Pending, Error} => future.of = call /\ call \in served
  /\ future = Pending => cli = "wait"
  /\ cli = "connect" => call = 0 /\ shown = Nothing
  /\ cli = "failed" => call = 0
  /\ cli = "wait" => call # 0
  /\ cli = "loop" /\ shown.answered => shown.of = call /\ future # Error

CallInv == OneMessage /\ ServedOnce /\ FutureOfCall
-----------------------------------------------------------------------------
(***************************************************************************)
(* Type correctness: client, server and messages keep their ranges; every  *)
(* request, running callback and response is of a call that can be made.   *)
(***************************************************************************)
THEOREM TypeCorrect == Spec => []TypeOK
<1> USE DEF Call, Message, Payload, Pending, Error, Nothing, TimeSize, Ended,
            cliVars, netVars, srvVars
<1>1. Init => TypeOK
  <2> SUFFICES ASSUME Init PROVE TypeOK
    OBVIOUS
  <2>1. call \in 0 .. MaxCalls /\ shown \in [answered : BOOLEAN, time : BOOLEAN,
                                              of : 0 .. MaxCalls]
    BY CallsAssumption DEF Init
  <2>2. future \in {Pending, Error}
    BY DEF Init
  <2> QED BY <2>1, <2>2 DEF Init, TypeOK
<1>2. TypeOK /\ [Next]_vars => TypeOK'
  <2> SUFFICES ASSUME TypeOK, [Next]_vars PROVE TypeOK'
    OBVIOUS
  <2> USE CallsAssumption DEF TypeOK
  <2>1. CASE CliConnect
    BY <2>1 DEF CliConnect
  <2>2. CASE InvokeMethod
    <3>1. call' \in Call
      BY <2>2 DEF InvokeMethod
    <3>2. [id |-> call', payload |-> Payload(1, call')] \in Message
      BY <3>1
    <3> QED BY <2>2, <3>1, <3>2 DEF InvokeMethod
  <2>3. CASE GetResult
    BY <2>3 DEF GetResult
  <2>4. CASE CliClose \/ CliCtrlC
    BY <2>4 DEF CliClose, CliCtrlC
  <2>5. CASE SrvStep \/ SrvCtrlC
    BY <2>5 DEF SrvStep, SrvConnect, RegisterListener, UnregisterListener,
                SrvClose, SrvCtrlC
  <2>6. ASSUME NEW r \in requests, Receive(r) PROVE TypeOK'
    BY <2>6 DEF Receive
  <2>7. ASSUME NEW r \in handling, Respond(r) PROVE TypeOK'
    <3>1. [id |-> ResponseId(r), payload |-> r.payload] \in Message
      BY DEF ResponseId
    <3> QED BY <2>7, <3>1 DEF Respond
  <2>8. ASSUME NEW m \in replies, Fulfil(m) PROVE TypeOK'
    BY <2>8 DEF Fulfil
  <2>9. CASE TtlExpires
    BY <2>9 DEF TtlExpires
  <2>10. CASE Lose
    BY <2>10 DEF Lose
  <2>11. CASE UNCHANGED vars
    BY <2>11 DEF vars
  <2> QED BY <2>1, <2>2, <2>3, <2>4, <2>5, <2>6, <2>7, <2>8, <2>9, <2>10,
             <2>11 DEF Next, CliStep
<1> QED BY <1>1, <1>2, PTL DEF Spec
-----------------------------------------------------------------------------
(* Each part of CallInv is kept by each step that can disturb it. *)

LEMMA CallInvInit == Init => CallInv
BY DEF Init, CallInv, OneMessage, ServedOnce, FutureOfCall, UnderWay, Pending,
       Error, Payload, Nothing

LEMMA MessageIsRecord ==
  ASSUME TypeOK, NEW m \in UnderWay
  PROVE  m \in Message /\ m.id \in Nat
BY DEF TypeOK, UnderWay, Message, Call

LEMMA OneMessageStep ==
  ASSUME TypeOK, OneMessage, [Next]_vars
  PROVE  OneMessage'
<1> USE DEF OneMessage, UnderWay
<1>1. CASE InvokeMethod
  <2>1. call' = call + 1 /\ call \in Nat
    BY <1>1 DEF InvokeMethod, TypeOK
  <2> DEFINE new == [id |-> call', payload |-> Payload(1, call')]
  <2>2. new.id = call' /\ new.payload.of = call'
    BY DEF Payload
  <2>3. \A m \in UnderWay : m.id < call'
    BY <2>1, MessageIsRecord
  <2>4. new \notin UnderWay
    BY <2>1, <2>2, <2>3
  <2> HIDE DEF new
  <2>5. requests' = requests \cup {new} \/ requests' = requests
    BY <1>1 DEF InvokeMethod, new
  <2>6. handling' = handling /\ replies' = replies
    BY <1>1 DEF InvokeMethod
  <2>7. UnderWay' \subseteq UnderWay \cup {new}
    BY <2>5, <2>6
  <2>8. \A m \in UnderWay' : m.payload.of = m.id /\ m.id <= call'
    BY <2>1, <2>2, <2>3, <2>7, MessageIsRecord
  <2>9. \A m1, m2 \in UnderWay' : m1.id = m2.id => m1 = m2
    BY <2>1, <2>2, <2>3, <2>7, MessageIsRecord
  <2>10. /\ requests' \cap handling' = {} /\ handling' \cap replies' = {}
         /\ requests' \cap replies' = {}
    BY <2>4, <2>5, <2>6
  <2> QED BY <2>8, <2>9, <2>10
<1>2. ASSUME NEW r \in requests, Receive(r) PROVE OneMessage'
  BY <1>2 DEF Receive, cliVars
<1>3. ASSUME NEW r \in handling, Respond(r) PROVE OneMessage'
  <2> DEFINE answer == [id |-> ResponseId(r), payload |-> r.payload]
  <2>1. answer = r
    BY MessageIsRecord DEF Message, ResponseId
  <2>2. \/ replies' = replies \cup {r}
        \/ replies' = replies
    BY <1>3, <2>1 DEF Respond
  <2> QED BY <1>3, <2>2 DEF Respond, cliVars
<1>4. ASSUME NEW m \in replies, Fulfil(m) PROVE OneMessage'
  BY <1>4 DEF Fulfil
<1>5. CASE Lose
  BY <1>5 DEF Lose, cliVars
<1>6. CASE CliConnect \/ GetResult \/ CliClose \/ CliCtrlC \/ TtlExpires
  BY <1>6 DEF CliConnect, GetResult, CliClose, CliCtrlC, TtlExpires, netVars
<1>7. CASE SrvStep \/ SrvCtrlC
  BY <1>7 DEF SrvStep, SrvConnect, RegisterListener, UnregisterListener,
              SrvClose, SrvCtrlC, cliVars, netVars
<1>8. CASE UNCHANGED vars
  BY <1>8 DEF vars, cliVars, netVars
<1> QED BY <1>1, <1>2, <1>3, <1>4, <1>5, <1>6, <1>7, <1>8 DEF Next, CliStep

LEMMA ServedOnceStep ==
  ASSUME TypeOK, OneMessage, ServedOnce, [Next]_vars
  PROVE  ServedOnce'
<1> USE DEF ServedOnce
<1>1. CASE InvokeMethod
  <2>1. call' = call + 1 /\ call \in Nat
    BY <1>1 DEF InvokeMethod, TypeOK
  <2>2. call' \notin served /\ served \subseteq 1 .. call'
    BY <2>1
  <2>3. \A r \in requests' : r \in requests \/ r.id = call'
    BY <1>1 DEF InvokeMethod
  <2> QED BY <1>1, <2>2, <2>3 DEF InvokeMethod
<1>2. ASSUME NEW r \in requests, Receive(r) PROVE ServedOnce'
  <2>1. r.id \in 1 .. call
    BY MessageIsRecord DEF OneMessage, UnderWay, Message, Call
  <2>2. \A q \in requests \ {r} : q.id # r.id
    BY DEF OneMessage, UnderWay
  <2> QED BY <1>2, <2>1, <2>2 DEF Receive, cliVars
<1>3. ASSUME NEW r \in handling, Respond(r) PROVE ServedOnce'
  BY <1>3 DEF Respond, ResponseId, cliVars
<1>4. ASSUME NEW m \in replies, Fulfil(m) PROVE ServedOnce'
  BY <1>4 DEF Fulfil
<1>5. CASE Lose
  BY <1>5 DEF Lose, cliVars
<1>6. CASE CliConnect \/ GetResult \/ CliClose \/ CliCtrlC \/ TtlExpires
  BY <1>6 DEF CliConnect, GetResult, CliClose, CliCtrlC, TtlExpires, netVars
<1>7. CASE SrvStep \/ SrvCtrlC
  BY <1>7 DEF SrvStep, SrvConnect, RegisterListener, UnregisterListener,
              SrvClose, SrvCtrlC, cliVars, netVars
<1>8. CASE UNCHANGED vars
  BY <1>8 DEF vars, cliVars, netVars
<1> QED BY <1>1, <1>2, <1>3, <1>4, <1>5, <1>6, <1>7, <1>8 DEF Next, CliStep

LEMMA FutureOfCallStep ==
  ASSUME TypeOK, OneMessage, ServedOnce, FutureOfCall, [Next]_vars
  PROVE  FutureOfCall'
<1> USE DEF FutureOfCall
<1>1. CASE InvokeMethod
  <2>1. call' # 0 /\ cli' = "wait" /\ future' \in {Pending, Error}
    BY <1>1 DEF InvokeMethod, TypeOK
  <2> QED BY <2>1
<1>2. CASE GetResult
  <2>1. cli' = "loop" /\ UNCHANGED <<call, future, served>> /\ future # Pending
    BY <1>2 DEF GetResult, netVars
  <2>2. shown'.answered => shown'.of = call /\ future # Error
    BY <1>2 DEF GetResult, Nothing
  <2> QED BY <2>1, <2>2
<1>3. ASSUME NEW m \in replies, Fulfil(m) PROVE FutureOfCall'
  <2>1. UNCHANGED <<cli, call, shown, served>>
    BY <1>3 DEF Fulfil
  <2>2. CASE future = Pending /\ m.id = call
    <3>1. future' = m.payload /\ m.payload.of = call /\ call \in served
      BY <1>3, <2>2 DEF Fulfil, OneMessage, UnderWay, ServedOnce
    <3>2. future' # Pending /\ cli = "wait"
      BY <2>2, <3>1, MessageIsRecord
         DEF UnderWay, Message, Call, Pending, Payload
    <3> QED BY <2>1, <3>1, <3>2
  <2>3. CASE ~ (future = Pending /\ m.id = call)
    BY <1>3, <2>1, <2>3 DEF Fulfil
  <2> QED BY <2>2, <2>3
<1>4. CASE CliConnect
  BY <1>4 DEF CliConnect, Nothing, netVars
<1>5. CASE CliClose \/ CliCtrlC
  BY <1>5 DEF CliClose, CliCtrlC, netVars
<1>6. CASE TtlExpires
  <2>1. future' = Error /\ Error # Pending /\ cli = "wait"
    BY <1>6 DEF TtlExpires, Error, Pending, Payload
  <2> QED BY <1>6, <2>1 DEF TtlExpires, netVars
<1>7. CASE Lose \/ SrvStep \/ SrvCtrlC
  BY <1>7 DEF Lose, SrvStep, SrvConnect, RegisterListener, UnregisterListener,
              SrvClose, SrvCtrlC, cliVars, netVars
<1>8. ASSUME NEW r \in requests \cup handling, Receive(r) \/ Respond(r)
      PROVE  FutureOfCall'
  <2>1. UNCHANGED cliVars /\ served \subseteq served'
    BY <1>8 DEF Receive, Respond
  <2> QED BY <2>1 DEF cliVars
<1>9. CASE UNCHANGED vars
  BY <1>9 DEF vars, cliVars, netVars
<1> QED BY <1>1, <1>2, <1>3, <1>4, <1>5, <1>6, <1>7, <1>8, <1>9
        DEF Next, CliStep
-----------------------------------------------------------------------------
(***************************************************************************)
(* Whatever the network loses, delays or reorders and whichever callbacks  *)
(* run at once: a call has at most one message under way, the listener is  *)
(* called at most once for it, and its future takes only its own answer.   *)
(***************************************************************************)
THEOREM CallInvariant == Spec => [](TypeOK /\ CallInv)
<1>1. TypeOK /\ CallInv /\ [Next]_vars => CallInv'
  BY OneMessageStep, ServedOnceStep, FutureOfCallStep DEF CallInv
<1> QED BY <1>1, CallInvInit, TypeCorrect, PTL DEF Spec

(***************************************************************************)
(* The client takes only the answer to its own current call for an answer. *)
(***************************************************************************)
THEOREM OwnAnswerHolds == Spec => []OwnAnswer
<1>1. CallInv => OwnAnswer
  BY DEF CallInv, FutureOfCall, OwnAnswer
<1> QED BY <1>1, CallInvariant, PTL

(***************************************************************************)
(* A response carries the id of the request it answers, and no call has    *)
(* two messages under way.                                                 *)
(***************************************************************************)
THEOREM AnswersMatchHolds == Spec => []AnswersMatch
<1>1. CallInv => AnswersMatch
  BY DEF CallInv, OneMessage, UnderWay, AnswersMatch
<1> QED BY <1>1, CallInvariant, PTL
-----------------------------------------------------------------------------
(* Rpc implements the safety part of RemoteCall. *)

LEMMA OutcomeFrame ==
  ASSUME UNCHANGED <<call, shown>>, cli' = cli
  PROVE  Outcome' = Outcome
BY DEF Outcome

(***************************************************************************)
(* Client, server and network make a remote call: each step begins a call, *)
(* serves one that was made and not yet served, ends the current one with  *)
(* the answer to it or without one, or is none of the caller's concern.    *)
(***************************************************************************)
THEOREM RemoteCallSafety == Spec => Remote!Init /\ [][Remote!Next]_(Remote!vars)
<1> USE DEF Remote!Open, Remote!Idle, Remote!Failed, Remote!Answered,
            Remote!vars
<1>1. Init => Remote!Init
  BY DEF Init, Outcome, Remote!Init
<1>2. TypeOK /\ CallInv /\ [Next]_vars => [Remote!Next]_(Remote!vars)
  <2> SUFFICES ASSUME TypeOK, CallInv, [Next]_vars
               PROVE  [Remote!Next]_(Remote!vars)
    OBVIOUS
  <2>1. CASE InvokeMethod
    <3>1. cli = "loop" /\ cli' = "wait" /\ call < MaxCalls /\ call' = call + 1
      BY <2>1 DEF InvokeMethod
    <3>2. Outcome' = Remote!Open
      BY <3>1 DEF Outcome
    <3>3. Outcome # Remote!Open
      BY <3>1 DEF Outcome
    <3>4. Remote!Begin
      BY <2>1, <3>1, <3>2, <3>3 DEF InvokeMethod, Remote!Begin
    <3> QED BY <3>4 DEF Remote!Next
  <2>2. CASE GetResult
    <3>1. /\ cli = "wait" /\ cli' = "loop" /\ future # Pending
          /\ UNCHANGED <<call, served>> /\ call # 0
      BY <2>2 DEF GetResult, netVars, CallInv, FutureOfCall
    <3>2. Outcome = Remote!Open
      BY <3>1 DEF Outcome
    <3>3. CASE future = Error
      <4>1. shown'.answered = FALSE
        BY <2>2, <3>3 DEF GetResult, Nothing
      <4>2. Outcome' = Remote!Failed
        BY <3>1, <4>1 DEF Outcome
      <4>3. Remote!Fail
        BY <3>1, <3>2, <4>2 DEF Remote!Fail
      <4> QED BY <4>3 DEF Remote!Next
    <3>4. CASE future # Error
      <4>1. shown'.answered = TRUE /\ shown'.of = future.of
        BY <2>2, <3>4 DEF GetResult
      <4>2. future.of = call /\ call \in served
        BY <3>1, <3>4 DEF CallInv, FutureOfCall
      <4>3. Outcome' = Remote!Answered(call)
        BY <3>1, <4>1, <4>2 DEF Outcome
      <4>4. Remote!Answer
        BY <3>1, <3>2, <4>2, <4>3 DEF Remote!Answer
      <4> QED BY <4>4 DEF Remote!Next
    <3> QED BY <3>3, <3>4
  <2>3. ASSUME NEW r \in requests, Receive(r)
        PROVE  [Remote!Next]_(Remote!vars)
    <3>1. r.id \in (1 .. call) \ served
      BY MessageIsRecord
         DEF CallInv, OneMessage, ServedOnce, UnderWay, Message, Call
    <3>2. UNCHANGED <<call, Outcome>>
      BY <2>3, OutcomeFrame DEF Receive, cliVars
    <3>3. Remote!Serve(r.id)
      BY <2>3, <3>1, <3>2 DEF Receive, Remote!Serve
    <3> QED BY <3>1, <3>3 DEF Remote!Next
  <2>4. CASE CliConnect
    <3>1. call = 0 /\ cli = "connect" /\ cli' \in {"loop", "failed"}
      BY <2>4 DEF CliConnect, CallInv, FutureOfCall
    <3>2. UNCHANGED <<call, served>>
      BY <2>4 DEF CliConnect, netVars
    <3>3. Outcome' = Outcome
      BY <3>1, <3>2 DEF Outcome
    <3> QED BY <3>2, <3>3
  <2>5. CASE CliClose
    <3>1. cli = "loop" /\ cli' = "done" /\ UNCHANGED <<call, served, shown>>
      BY <2>5 DEF CliClose, netVars
    <3>2. Outcome' = Outcome
      BY <3>1 DEF Outcome
    <3> QED BY <3>1, <3>2
  <2>6. CASE \/ CliCtrlC \/ SrvStep \/ SrvCtrlC \/ TtlExpires \/ Lose
             \/ UNCHANGED vars
             \/ \E r \in handling : Respond(r)
             \/ \E m \in replies : Fulfil(m)
    <3>1. UNCHANGED <<call, served, shown>> /\ cli' = cli
      BY <2>6 DEF CliCtrlC, SrvStep, SrvConnect, RegisterListener,
         UnregisterListener, SrvClose, SrvCtrlC, TtlExpires, Lose, Respond,
         Fulfil, vars, cliVars, netVars
    <3> QED BY <3>1, OutcomeFrame
  <2> QED BY <2>1, <2>2, <2>3, <2>4, <2>5, <2>6 DEF Next, CliStep
<1> QED BY <1>1, <1>2, CallInvariant, PTL DEF Spec
=============================================================================
