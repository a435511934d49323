----------------------------- MODULE RemoteCall -----------------------------
(***************************************************************************)
(* What the client of a remote procedure is promised, without messages,    *)
(* futures or a server that comes and goes:                                *)
(*                                                                         *)
(*  - it makes one call at a time, and every call ends;                    *)
(*  - a call ends with an answer only if the server was asked, which it is *)
(*    once at most for each call, and the answer is the one to this call;  *)
(*  - else it fails, and a call that failed may still be served.           *)
(***************************************************************************)
EXTENDS Naturals

CONSTANT MaxCalls \* bound: calls the client makes

VARIABLES
  call,    \* number of the current call
  outcome, \* what has become of it
  served   \* the calls the server was asked

vars == <<call, outcome, served>>

Idle        == [at |-> "idle",     to |-> 0]
Open        == [at |-> "open",     to |-> 0]
Failed      == [at |-> "failed",   to |-> 0]
Answered(c) == [at |-> "answered", to |-> c]

Init == call = 0 /\ outcome = Idle /\ served = {}

Begin ==
  /\ outcome # Open /\ call < MaxCalls
  /\ call' = call + 1 /\ outcome' = Open
  /\ UNCHANGED served

Serve(c) ==
  /\ c \in (1 .. call) \ served
  /\ served' = served \cup {c}
  /\ UNCHANGED <<call, outcome>>

Answer ==
  /\ outcome = Open /\ call \in served
  /\ outcome' = Answered(call)
  /\ UNCHANGED <<call, served>>

Fail ==
  /\ outcome = Open
  /\ outcome' = Failed
  /\ UNCHANGED <<call, served>>

Next == Begin \/ Answer \/ Fail \/ \E c \in 1 .. call : Serve(c)

Spec == Init /\ [][Next]_vars /\ WF_vars(Answer \/ Fail)
=============================================================================
