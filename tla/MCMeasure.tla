------------------------------ MODULE MCMeasure ------------------------------
(* Instances of Measure for TLC. *)
EXTENDS Measure

Rounds    == 0 .. 3
Lengths   == {-1, 0, 3, 4, 6}
Listeners == 0 .. 3
AllFaults == {"connect", "register", "unregister", "send"}
=============================================================================
