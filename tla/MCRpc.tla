------------------------------- MODULE MCRpc -------------------------------
(* Instances of Rpc for TLC. *)
EXTENDS RpcRefinement

AllFaults == {"connect", "invoke", "lose", "respond", "register", "unregister"}
=============================================================================
