----------------------------- MODULE MCBenchRun -----------------------------
(* Instances of BenchRun for TLC. *)
EXTENDS BenchRunRefinement

=============================================================================
