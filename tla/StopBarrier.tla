----------------------------- MODULE StopBarrier -----------------------------
(***************************************************************************)
(* What the benchmark run promises, without shared memory, polling or      *)
(* signals: a barrier between publishers and subscribers, and the rule     *)
(* about when results may be read.                                         *)
(*                                                                         *)
(*  - a child takes part once in a run, and leaves for good;               *)
(*  - a subscriber stops only when all publishers have published;          *)
(*  - the results are collected only when, besides, all children are gone; *)
(*  - the next run begins only when no child of the last one is left.      *)
(***************************************************************************)
EXTENDS Naturals

CONSTANTS Pub, Sub, \* the publishers and the subscribers
          MaxRuns   \* bound: number of runs

VARIABLES
  run,       \* number of the run
  outcome,   \* what has become of it
  alive,     \* the children taking part
  left,      \* the children that did
  published, \* the publishers that have published everything
  stopping   \* the subscribers that have stopped or are about to

vars == <<run, outcome, alive, left, published, stopping>>

Child == Pub \cup Sub

Init ==
  /\ run = 1 /\ outcome = "running"
  /\ alive = {} /\ left = {} /\ published = {} /\ stopping = {}

Enter(c) ==
  /\ outcome = "running" /\ c \notin alive \cup left
  /\ alive' = alive \cup {c}
  /\ UNCHANGED <<run, outcome, left, published, stopping>>

Publish(p) ==
  /\ p \in alive \ published
  /\ published' = published \cup {p}
  /\ UNCHANGED <<run, outcome, alive, left, stopping>>

Stop(s) ==
  /\ s \in alive \ stopping /\ published = Pub
  /\ stopping' = stopping \cup {s}
  /\ UNCHANGED <<run, outcome, alive, left, published>>

\* Some children leave; a subscriber that fails while it stops, the set K,
\* has not stopped.
Leave(S) ==
  /\ S # {} /\ S \subseteq alive
  /\ alive' = alive \ S
  /\ left' = left \cup S
  /\ \E K \in SUBSET (S \cap stopping) : stopping' = stopping \ K
  /\ UNCHANGED <<run, outcome, published>>

Collect ==
  /\ outcome = "running" /\ published = Pub /\ left = Child
  /\ outcome' = "collected"
  /\ UNCHANGED <<run, alive, left, published, stopping>>

GiveUp ==
  /\ outcome # "givenUp"
  /\ outcome' = "givenUp"
  /\ UNCHANGED <<run, alive, left, published, stopping>>

NewRun ==
  /\ outcome # "running" /\ alive = {} /\ run < MaxRuns
  /\ run' = run + 1 /\ outcome' = "running"
  /\ alive' = {} /\ left' = {} /\ published' = {} /\ stopping' = {}

Next ==
  \/ \E c \in Child : Enter(c)
  \/ \E p \in Pub : Publish(p)
  \/ \E s \in Sub : Stop(s)
  \/ \E S \in SUBSET alive : Leave(S)
  \/ Collect \/ GiveUp \/ NewRun

Spec == Init /\ [][Next]_vars
=============================================================================
