------------------------------ MODULE MCUtils ------------------------------
(* Instances of Utils for TLC. *)
EXTENDS Utils

Samples  == 0 .. 3
Chars    == {"|", ".", "7"}
Bytes    == {0, 9, 16, 255}
Figures  == {0, 9, 10, 607, 65536}
UpToFive == 0 .. 5
=============================================================================
