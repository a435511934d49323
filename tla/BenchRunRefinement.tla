------------------------- MODULE BenchRunRefinement -------------------------
(* BenchRun implements StopBarrier. *)
EXTENDS BenchRun

\* What has become of the run, from where run_tests is.
Outcome ==
  CASE ctl \in {"error", "killed"}                     -> "givenUp"
    [] ctl \in {"stats", "unlink", "done", "aborted"}  -> "collected"
    [] OTHER                                           -> "running"

Barrier == INSTANCE StopBarrier WITH
  Pub       <- Pubs,
  Sub       <- Subs,
  outcome   <- Outcome,
  alive     <- {a \in App : proc[a] \in Live},
  left      <- {a \in App : proc[a] \in Gone \ {"none"}},
  published <- {p \in Pubs : count[p] = Loops},
  stopping  <- {s \in Subs : proc[s] \in {"dump", "unregister", "exited"}}

(***************************************************************************)
(* The Start/Stop protocol over shared memory that is never cleared, with  *)
(* its polling, its error paths and its signals, is a barrier: every step  *)
(* of the programs is a step of StopBarrier or changes nothing it shows.   *)
(***************************************************************************)
BarrierSpec == Barrier!Spec
=============================================================================
