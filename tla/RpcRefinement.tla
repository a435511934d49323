---------------------------- MODULE RpcRefinement ----------------------------
(* Rpc implements RemoteCall. *)
EXTENDS Rpc

\* What has become of the current call, from what the client shows of it.
Outcome ==
  CASE cli = "wait" -> [at |-> "open", to |-> 0]
    [] cli # "wait" /\ call = 0 -> [at |-> "idle", to |-> 0]
    [] cli # "wait" /\ call # 0 /\ shown.answered ->
         [at |-> "answered", to |-> shown.of]
    [] OTHER -> [at |-> "failed", to |-> 0]

Remote == INSTANCE RemoteCall WITH outcome <- Outcome

(***************************************************************************)
(* Client, server and a network that loses, delays and reorders make a     *)
(* remote call: whatever the listener's callbacks do beside each other,    *)
(* the client goes from one call to the next with an answer the server was *)
(* asked for, once, in this very call, or with none, and never waits for   *)
(* ever.                                                                   *)
(***************************************************************************)
RemoteCallSpec == Remote!Spec
=============================================================================
