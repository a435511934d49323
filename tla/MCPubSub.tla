------------------------------ MODULE MCPubSub ------------------------------
(* Instances of PubSub for TLC. *)
EXTENDS PubSub

AllFaults == {"connect", "send", "register", "unregister"}
=============================================================================
