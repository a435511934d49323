-------------------------------- MODULE Rpc --------------------------------
(***************************************************************************)
(* The sample applications main_rpc_client and main_rpc_server.  The       *)
(* client calls once a second, blocks on the future of the call and shows  *)
(* the answer if it is long enough to be a time in milliseconds; the       *)
(* server answers in a callback of the transport's own threads.  Both run  *)
(* until Ctrl+C.                                                           *)
(*                                                                         *)
(* The transport (Zenoh and UpZenohClient, not part of the repository)     *)
(* loses, delays and reorders messages and runs callbacks concurrently; it *)
(* fulfils the future of a call with the response that carries the call's  *)
(* request id, or with an error when the time to live has passed.          *)
(***************************************************************************)
EXTENDS Integers, FiniteSets

CONSTANTS
  MaxCalls, \* bound: calls the client makes
  Faults    \* what may go wrong in the transport

ASSUME CallsAssumption  == MaxCalls \in Nat \ {0}
ASSUME FaultsAssumption ==
  Faults \subseteq {"connect", "invoke", "lose", "respond", "register",
                   "unregister"}

Call == 1 .. MaxCalls

VARIABLES
  cli,      \* where the client is
  call,     \* number of the current call, which is its request id
  future,   \* of the current call
  shown,    \* what the client has made of the last call
  cliStop,  \* the client's gTerminate
  requests, \* on the way to the server
  handling, \* requests whose callback is running
  replies,  \* on the way to the client
  served,   \* history: the calls the server's listener was called for
  srv,      \* where the server's main thread is
  srvStop   \* the server's gTerminate

cliVars == <<cli, call, future, shown, cliStop>>
netVars == <<requests, handling, replies, served>>
srvVars == <<srv, srvStop>>
vars == <<cliVars, netVars, srvVars>>

Ended == {"done", "failed"}

\* A payload, as its size in bytes and the call it was made for.
Payload(size, id) == [size |-> size, of |-> id]
Pending == Payload(0, 0)
Error   == Payload(-1, 0)
TimeSize == 8
Nothing == [answered |-> FALSE, time |-> FALSE, of |-> 0]
-----------------------------------------------------------------------------
(* Client *)

\* What rpcSuccess_ may be after the constructor has opened a session, or not.
RpCDemoClient == {"OK"} \cup {"UNAVAILABLE" : f \in Faults \cap {"connect"}}

CliConnect ==
  /\ cli = "connect"
  /\ \E success \in RpCDemoClient :
        cli' = IF success = "OK" THEN "loop" ELSE "failed"
  /\ UNCHANGED <<call, future, shown, cliStop, netVars, srvVars>>

\* while (!gTerminate), and invokeMethod with a payload of one byte.
InvokeMethod ==
  /\ cli = "loop" /\ ~ cliStop /\ call < MaxCalls
  /\ call' = call + 1
  /\ cli' = "wait"
  /\ \/ /\ requests' = requests \cup
                         {[id |-> call', payload |-> Payload(1, call')]}
        /\ future' = Pending
     \/ \* the future is not valid
        "invoke" \in Faults /\ future' = Error /\ UNCHANGED requests
  /\ UNCHANGED <<shown, cliStop, handling, replies, served, srvVars>>

\* Mutant: an error leaves the last answer where it is.
GetResultStale ==
  /\ cli = "wait" /\ future # Pending
  /\ shown' = IF future = Error THEN shown
              ELSE [answered |-> TRUE, time |-> future.size >= TimeSize,
                    of |-> future.of]
  /\ cli' = "loop"
  /\ UNCHANGED <<call, future, cliStop, netVars, srvVars>>

\* result.wait() and get(); an error gives an empty payload, and memcpy and
\* the message "Received = " need the size of a time.
GetResult ==
  /\ cli = "wait" /\ future # Pending
  /\ shown' = IF future = Error THEN Nothing
              ELSE [answered |-> TRUE, time |-> future.size >= TimeSize,
                    of |-> future.of]
  /\ cli' = "loop"
  /\ UNCHANGED <<call, future, cliStop, netVars, srvVars>>

CliClose ==
  /\ cli = "loop" /\ cliStop
  /\ cli' = "done"
  /\ UNCHANGED <<call, future, shown, cliStop, netVars, srvVars>>

CliCtrlC ==
  /\ cli \notin Ended /\ ~ cliStop
  /\ cliStop' = TRUE
  /\ UNCHANGED <<cli, call, future, shown, netVars, srvVars>>
-----------------------------------------------------------------------------
(* Server *)

RpcServer == {"OK"} \cup {"UNAVAILABLE" : f \in Faults \cap {"connect"}}

SrvConnect ==
  /\ srv = "connect"
  /\ \E success \in RpcServer :
        srv' = IF success = "OK" THEN "register" ELSE "failed"
  /\ UNCHANGED <<srvStop, cliVars, netVars>>

RegisterListener ==
  /\ srv = "register"
  /\ \/ srv' = "serve"
     \/ "register" \in Faults /\ srv' = "failed"
  /\ UNCHANGED <<srvStop, cliVars, netVars>>

SrvCtrlC ==
  /\ srv \notin Ended /\ ~ srvStop
  /\ srvStop' = TRUE
  /\ UNCHANGED <<srv, cliVars, netVars>>

\* The loop is left and the listener unregistered ...
UnregisterListener ==
  /\ srv = "serve" /\ srvStop
  /\ \/ srv' = "closing"
     \/ "unregister" \in Faults /\ srv' = "failed"
  /\ UNCHANGED <<srvStop, cliVars, netVars>>

\* ... and the transport deleted.
SrvClose ==
  /\ srv = "closing"
  /\ srv' = "done"
  /\ UNCHANGED <<srvStop, cliVars, netVars>>

\* The transport calls onReceive.
Receive(r) ==
  /\ r \in requests /\ srv = "serve"
  /\ requests' = requests \ {r}
  /\ handling' = handling \cup {r}
  /\ served' = served \cup {r.id}
  /\ UNCHANGED <<replies, cliVars, srvVars>>

\* Mutant: the response carries an id of its own (the commented-out line).
ResponseIdFresh(r) == MaxCalls + r.id

\* The response carries the request's id, so that it meets its future.
ResponseId(r) == r.id

\* onReceive builds responsePayload with the time, but the message is built
\* of the payload of the request.  Callbacks may overtake each other, and one
\* that is running when the listener is unregistered still responds.
Respond(r) ==
  /\ r \in handling /\ srv \notin Ended
  /\ handling' = handling \ {r}
  /\ \/ replies' = replies \cup {[id |-> ResponseId(r), payload |-> r.payload]}
     \/ "respond" \in Faults /\ UNCHANGED replies
  /\ UNCHANGED <<requests, served, cliVars, srvVars>>
-----------------------------------------------------------------------------
(* Transport *)

\* A response fulfils the future of its call; one that is late is dropped.
Fulfil(m) ==
  /\ m \in replies
  /\ replies' = replies \ {m}
  /\ future' = IF future = Pending /\ m.id = call THEN m.payload ELSE future
  /\ UNCHANGED <<requests, handling, served, cli, call, shown, cliStop, srvVars>>

\* Mutant: no time to live.
TtlNever == cli = "wait" /\ future = Error /\ UNCHANGED vars

\* The time to live, set_ttl(150), passes before a response is there.
TtlExpires ==
  /\ cli = "wait" /\ future = Pending
  /\ future' = Error
  /\ UNCHANGED <<cli, call, shown, cliStop, netVars, srvVars>>

Lose ==
  /\ "lose" \in Faults
  /\ \/ \E r \in requests : requests' = requests \ {r} /\ UNCHANGED replies
     \/ \E m \in replies : replies' = replies \ {m} /\ UNCHANGED requests
  /\ UNCHANGED <<handling, served, cliVars, srvVars>>
-----------------------------------------------------------------------------
Init ==
  /\ cli = "connect" /\ call = 0 /\ future = Error /\ shown = Nothing
  /\ cliStop = FALSE
  /\ requests = {} /\ handling = {} /\ replies = {} /\ served = {}
  /\ srv = "connect" /\ srvStop = FALSE

CliStep == CliConnect \/ InvokeMethod \/ GetResult \/ CliClose
SrvStep == SrvConnect \/ RegisterListener \/ UnregisterListener \/ SrvClose

Next ==
  \/ CliStep \/ CliCtrlC
  \/ SrvStep \/ SrvCtrlC
  \/ \E r \in requests : Receive(r)
  \/ \E r \in handling : Respond(r)
  \/ \E m \in replies : Fulfil(m)
  \/ TtlExpires \/ Lose

Spec == Init /\ [][Next]_vars

\* Both main threads are scheduled and time passes; the network promises
\* nothing, and Ctrl+C may never come.
FairSpec == Spec /\ WF_vars(CliStep) /\ WF_vars(SrvStep) /\ WF_vars(TtlExpires)
-----------------------------------------------------------------------------
Message == [id : Call, payload : [size : {1, TimeSize}, of : Call]]

TypeOK ==
  /\ cli \in {"connect", "loop", "wait"} \cup Ended
  /\ srv \in {"connect", "register", "serve", "closing"} \cup Ended
  /\ call \in 0 .. MaxCalls
  /\ future \in [size : {1, TimeSize}, of : Call] \cup {Pending, Error}
  /\ shown \in [answered : BOOLEAN, time : BOOLEAN, of : 0 .. MaxCalls]
  /\ cliStop \in BOOLEAN /\ srvStop \in BOOLEAN
  /\ requests \subseteq Message
  /\ handling \subseteq Message
  /\ replies \subseteq Message
  /\ served \subseteq Call

(***************************************************************************)
(* The client takes only the answer to its own current call for an answer: *)
(* a response that comes after the time to live of its call, when the next *)
(* call is already waiting, is never shown, and a failed call shows none.  *)
(***************************************************************************)
OwnAnswer ==
  /\ future \notin {Pending, Error} => future.of = call
  /\ cli = "loop" /\ shown.answered => shown.of = call /\ future # Error

(***************************************************************************)
(* The response carries the id of the request it answers, whichever        *)
(* callbacks ran in between, and no call has two messages under way.       *)
(***************************************************************************)
AnswersMatch ==
  /\ \A m \in replies : m.payload.of = m.id
  /\ \A m1, m2 \in requests \cup handling \cup replies :
        m1.payload.of = m2.payload.of => m1 = m2
  /\ requests \cap handling = {} /\ handling \cap replies = {}
  /\ requests \cap replies = {}

(***************************************************************************)
(* Ctrl+C ends the client although result.wait() has no timeout of its     *)
(* own, and ends the server, whatever the network loses.                   *)
(***************************************************************************)
CtrlCEnds ==
  /\ cliStop ~> cli \in Ended
  /\ srvStop ~> srv \in Ended

(***************************************************************************)
(* What both programs say of the answer ("The response in this example     *)
(* will be the current time"): a call that was answered shows a time.      *)
(***************************************************************************)
TimeShown == shown.answered => shown.time
=============================================================================
