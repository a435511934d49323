---------------------------- MODULE MCResultDirs ----------------------------
(* Instances of ResultDirs for TLC. *)
EXTENDS ResultDirs

\* The old directories, one for each run, and one more.
Names == 1 .. MaxDirs + Runs + 1
=============================================================================
