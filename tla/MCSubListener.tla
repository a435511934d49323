--------------------------- MODULE MCSubListener ---------------------------
(* Instances of SubListener for TLC. *)
EXTENDS SubListener, TLC

\* The topics are alike.
Symmetric == Permutations(Uris)
=============================================================================
