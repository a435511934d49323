------------------------------ MODULE BenchRun ------------------------------
(***************************************************************************)
(* The benchmark run: run_tests forks MAX_PROCESS children, alternately    *)
(* pub_test and sub_test, and steers them through one POSIX shared-memory  *)
(* object per child that holds a C string:                                 *)
(*                                                                         *)
(*   run_tests  --"Start"--> every object                                  *)
(*   pub_test   --"Stop"---> its own object, when it has published all     *)
(*   run_tests  --"Stop"---> the subscribers' objects, when it has seen    *)
(*                           MAX_PROCESS / 2 publishers stop               *)
(*                                                                         *)
(* The objects are named after program and instance and stay behind when a *)
(* run ends without removeSharedMem, so that the next run opens them with  *)
(* the old string in them.  The module follows consecutive runs; a run is  *)
(* started only when no child of the one before is left.                   *)
(*                                                                         *)
(* A string read or written by memcpy is one step here.  A reader compares *)
(* with the whole word, so a half-written one equals neither word, and the *)
(* only concurrent writers (run_tests "Start", pub_test "Stop") can leave, *)
(* besides the two words, a mixture that run_tests treats as it treats     *)
(* "Start": not "Stop".                                                    *)
(***************************************************************************)
EXTENDS Integers, FiniteSets, Functions

CONSTANTS
  MAX_PROCESS, \* number of children
  Loops,       \* rounds pub_test publishes (100000 in the code), one URI
  MaxRuns,     \* bound: invocations of run_tests
  Faults       \* the failures of the environment that may happen

FaultKinds == {"fork", "exec", "shm", "session", "register", "send", "file",
               "crash", "sigint", "sigterm"}

ASSUME ProcessAssumption == MAX_PROCESS \in Nat \ {0} /\ MAX_PROCESS % 2 = 0
ASSUME LoopsAssumption   == Loops \in Nat \ {0}
ASSUME RunsAssumption    == MaxRuns \in Nat \ {0}
ASSUME FaultsAssumption  == Faults \subseteq FaultKinds

App  == 0 .. (MAX_PROCESS - 1)
Pubs == {a \in App : a % 2 = 0}
Subs == App \ Pubs

VARIABLES
  run,       \* number of the current invocation of run_tests
  ctl,       \* where run_tests is
  idx,       \* the index of the loop it is in
  shmVec,    \* the children whose object run_tests has mapped (shm_vec)
  stopSeen,  \* the publishers found stopped in this pass over shm_vec
  terminate, \* the flag its signal handler sets
  proc,      \* where each child is
  count,     \* publisher: rounds published; subscriber: samples taken
  file,      \* number of samples in the child's result file
  signalled, \* the children with a signal pending that will end them
  errIdx,    \* child whose exec failed: its index in run_tests' error path
  shm,       \* content of the child's shared-memory object
  linked,    \* does the object's name exist
  fresh      \* content of the object a child made under a removed name

ctlVars   == <<run, ctl, idx, shmVec, stopSeen, terminate>>
childVars == <<proc, count, file, signalled, errIdx>>
shmVars   == <<shm, linked, fresh>>
vars      == <<ctlVars, childVars, shmVars>>

CtlExited == {"done", "error", "aborted", "killed"}
CtlPoint  == {"spawn", "start", "poll", "stop", "wait", "stats", "unlink",
              "terminate", "cleanup"} \cup CtlExited
Gone      == {"none", "exited", "failed", "execfailed", "killed"}
Executing == {"open", "connect", "publish", "report", "closing",
              "waitStart", "register", "listen", "dump", "unregister"}
Live      == Executing \cup {"forked", "aborting"}
Contents  == {"empty", "Start", "Stop"}
NoObject  == "none"
-----------------------------------------------------------------------------
(* Shared memory. *)

\* createSheredMem: opens the object, created empty when the name is free.  A
\* child that finds removed the name of an object run_tests has mapped gets
\* another object than run_tests.
createSheredMem(a) ==
  /\ linked' = [linked EXCEPT ![a] = TRUE]
  /\ IF a \in shmVec /\ ~ linked[a]
     THEN fresh' = [fresh EXCEPT ![a] = "empty"] /\ UNCHANGED shm
     ELSE /\ shm' = [shm EXCEPT ![a] = IF linked[a] THEN @ ELSE "empty"]
          /\ UNCHANGED fresh

\* It fails in shm_open, or in mmap when the object is already there.
createSheredMemFails(a) ==
  /\ "shm" \in Faults
  /\ createSheredMem(a) \/ UNCHANGED shmVars

\* removeSharedMem for each object of S; who mapped it keeps the content.
removeSharedMem(S) ==
  /\ linked' = [a \in App |-> linked[a] /\ a \notin S]
  /\ UNCHANGED <<shm, fresh>>

\* What a child reads in its object, and what becomes of it when it writes.
Mapped(a) == IF fresh[a] = NoObject THEN shm[a] ELSE fresh[a]
Write(a, word) ==
  IF fresh[a] = NoObject
  THEN shm' = [shm EXCEPT ![a] = word] /\ UNCHANGED fresh
  ELSE fresh' = [fresh EXCEPT ![a] = word] /\ UNCHANGED shm
-----------------------------------------------------------------------------
(* run_tests *)

\* Mutant: the loop condition i <= max_process.
AdvanceTooFar(next) ==
  IF idx < MAX_PROCESS
  THEN idx' = idx + 1 /\ UNCHANGED ctl
  ELSE idx' = 0 /\ ctl' = next

Advance(next) ==
  IF idx + 1 < MAX_PROCESS
  THEN idx' = idx + 1 /\ UNCHANGED ctl
  ELSE idx' = 0 /\ ctl' = next

\* createProcess, parent side.  Nobody looks at what createSheredMem returns.
CreateProcess ==
  /\ ctl = "spawn"
  /\ proc' = [proc EXCEPT ![idx] = "forked"]
  /\ \/ createSheredMem(idx) /\ shmVec' = shmVec \cup {idx}
     \/ createSheredMemFails(idx) /\ UNCHANGED shmVec
  /\ Advance("start")
  /\ UNCHANGED <<run, stopSeen, terminate, count, file, signalled, errIdx>>

\* kill: who is there will die of the signal, but not at once.
Signalled(S) == signalled \cup {a \in S : proc[a] \in Live}

\* fork fails: run_tests kills the children it has, waits for each, removes
\* the objects and exits.
ForkFails ==
  /\ ctl = "spawn" /\ "fork" \in Faults
  /\ ctl' = "terminate" /\ idx' = 0
  /\ UNCHANGED <<run, shmVec, stopSeen, terminate, childVars, shmVars>>

\* One entry of the loop that kills: kill, then waitpid on one's own child.
KillChild ==
  /\ ctl = "terminate" /\ proc[idx] \in Live /\ idx \notin signalled
  /\ signalled' = Signalled({idx})
  /\ UNCHANGED <<ctlVars, proc, count, file, errIdx, shmVars>>

\* Mutant: no waitpid after the kill.
ReapChildNot ==
  /\ ctl = "terminate" /\ (proc[idx] \in Gone \/ idx \in signalled)
  /\ Advance("cleanup")
  /\ UNCHANGED <<run, shmVec, stopSeen, terminate, childVars, shmVars>>

ReapChild ==
  /\ ctl = "terminate" /\ proc[idx] \in Gone
  /\ Advance("cleanup")
  /\ UNCHANGED <<run, shmVec, stopSeen, terminate, childVars, shmVars>>

\* One entry of the loop that removes the objects, of the error path or of
\* the end of main.
UnlinkShm ==
  /\ ctl \in {"unlink", "cleanup"}
  /\ removeSharedMem({idx} \cap shmVec)
  /\ Advance(IF ctl = "unlink" THEN "done" ELSE "error")
  /\ UNCHANGED <<run, shmVec, stopSeen, terminate, childVars>>

\* Mutant: "Start" only for those that wait for it.
WriteStartSubsOnly ==
  /\ ctl = "start"
  /\ shm' = IF idx \in shmVec \cap Subs THEN [shm EXCEPT ![idx] = "Start"]
                                        ELSE shm
  /\ Advance("poll")
  /\ UNCHANGED <<run, shmVec, stopSeen, terminate, childVars, linked, fresh>>

WriteStart ==
  /\ ctl = "start"
  /\ shm' = IF idx \in shmVec THEN [shm EXCEPT ![idx] = "Start"] ELSE shm
  /\ Advance("poll")
  /\ UNCHANGED <<run, shmVec, stopSeen, terminate, childVars, linked, fresh>>

\* Mutant: a "Stop" that has been counted is consumed.
PollEntryConsumes ==
  LET stopped == idx \in Pubs \cap shmVec /\ shm[idx] = "Stop" IN
  /\ ctl = "poll" /\ idx < MAX_PROCESS
  /\ stopSeen' = IF stopped THEN stopSeen \cup {idx} ELSE stopSeen
  /\ shm' = IF stopped THEN [shm EXCEPT ![idx] = "empty"] ELSE shm
  /\ idx' = idx + 1
  /\ UNCHANGED <<run, ctl, shmVec, terminate, childVars, linked, fresh>>

\* One entry of the polling pass.
PollEntry ==
  /\ ctl = "poll" /\ idx < MAX_PROCESS
  /\ stopSeen' = IF idx \in Pubs \cap shmVec /\ shm[idx] = "Stop"
                 THEN stopSeen \cup {idx} ELSE stopSeen
  /\ idx' = idx + 1
  /\ UNCHANGED <<run, ctl, shmVec, terminate, childVars, shmVars>>

\* Mutants: the first publisher is enough; all the children are expected.
PollPassFirst ==
  /\ ctl = "poll" /\ idx = MAX_PROCESS
  /\ ctl' = IF stopSeen # {} THEN "stop" ELSE ctl
  /\ idx' = 0
  /\ stopSeen' = {}
  /\ UNCHANGED <<run, shmVec, terminate, childVars, shmVars>>

PollPassAll ==
  /\ ctl = "poll" /\ idx = MAX_PROCESS
  /\ ctl' = IF Cardinality(stopSeen) = MAX_PROCESS THEN "stop" ELSE ctl
  /\ idx' = 0
  /\ stopSeen' = {}
  /\ UNCHANGED <<run, shmVec, terminate, childVars, shmVars>>

\* The end of a pass: all publishers counted, or the next pass.
PollPass ==
  /\ ctl = "poll" /\ idx = MAX_PROCESS
  /\ ctl' = IF Cardinality(stopSeen) = MAX_PROCESS \div 2 THEN "stop" ELSE ctl
  /\ idx' = 0
  /\ stopSeen' = {}
  /\ UNCHANGED <<run, shmVec, terminate, childVars, shmVars>>

WriteStop ==
  /\ ctl = "stop"
  /\ shm' = IF idx \in Subs \cap shmVec THEN [shm EXCEPT ![idx] = "Stop"]
                                        ELSE shm
  /\ Advance("wait")
  /\ UNCHANGED <<run, shmVec, stopSeen, terminate, childVars, linked, fresh>>

\* Mutant: only the publishers are waited for.
WaitChildPubsOnly ==
  /\ ctl = "wait" /\ (idx \in Pubs => proc[idx] \in Gone)
  /\ Advance("stats")
  /\ UNCHANGED <<run, shmVec, stopSeen, terminate, childVars, shmVars>>

WaitChild ==
  /\ ctl = "wait" /\ proc[idx] \in Gone
  /\ Advance("stats")
  /\ UNCHANGED <<run, shmVec, stopSeen, terminate, childVars, shmVars>>

\* getStats has no value below two samples, and value() then throws: the
\* process aborts and the objects stay.
EnoughSamples(S) == SumFunctionOnSet(file, S) >= 2

Stats ==
  /\ ctl = "stats"
  /\ \/ /\ EnoughSamples(Pubs) /\ EnoughSamples(Subs)
        /\ ctl' = "unlink"
     \/ /\ ~ (EnoughSamples(Pubs) /\ EnoughSamples(Subs))
        /\ ctl' = "aborted"
  /\ idx' = 0
  /\ UNCHANGED <<run, shmVec, stopSeen, terminate, childVars, shmVars>>

\* SIGTERM: the handler exits on the spot and leaves children and objects.
Sigterm ==
  /\ ctl \notin CtlExited /\ "sigterm" \in Faults
  /\ ctl' = "killed"
  /\ UNCHANGED <<run, idx, shmVec, stopSeen, terminate, childVars, shmVars>>

\* Ctrl+C reaches the whole process group.  run_tests and a child before its
\* exec only set the flag; a child after it has no handler and dies.
CtrlC ==
  /\ ctl \notin CtlExited /\ ~ terminate /\ "sigint" \in Faults
  /\ terminate' = TRUE
  /\ signalled' = Signalled({a \in App : proc[a] \in Executing})
  /\ UNCHANGED <<run, ctl, idx, shmVec, stopSeen, proc, count, file, errIdx,
                 shmVars>>
-----------------------------------------------------------------------------
(* Steps of either kind of child. *)

\* A process that is gone has no signal pending.
Goto(a, point) ==
  /\ proc' = [proc EXCEPT ![a] = point]
  /\ signalled' = IF point \in Gone THEN signalled \ {a} ELSE signalled

Exec(a) ==
  /\ proc[a] = "forked"
  /\ Goto(a, "open")
  /\ UNCHANGED <<ctlVars, count, file, errIdx, shmVars>>

\* execvp fails: createProcess returns -1 in the child, and the child runs
\* run_tests' error path on its copy of child_pids and shm_vec, which hold
\* the siblings forked before it.
ExecFails(a) ==
  /\ proc[a] = "forked" /\ "exec" \in Faults
  /\ Goto(a, "aborting")
  /\ UNCHANGED <<ctlVars, count, file, errIdx, shmVars>>

NextEntry(a) == errIdx' = [errIdx EXCEPT ![a] = @ + 1]

\* Mutant: kill is not called.
KillSiblingNot(a) ==
  /\ proc[a] = "aborting" /\ errIdx[a] < a
  /\ NextEntry(a)
  /\ UNCHANGED <<ctlVars, proc, count, file, signalled, shmVars>>

\* The siblings are not its children: waitpid returns at once.
KillSibling(a) ==
  /\ proc[a] = "aborting" /\ errIdx[a] < a
  /\ signalled' = Signalled({errIdx[a]})
  /\ NextEntry(a)
  /\ UNCHANGED <<ctlVars, proc, count, file, shmVars>>

RemoveSibling(a) ==
  /\ proc[a] = "aborting" /\ errIdx[a] \in a .. (2 * a - 1)
  /\ removeSharedMem({errIdx[a] - a} \cap shmVec)
  /\ NextEntry(a)
  /\ UNCHANGED <<ctlVars, proc, count, file, signalled>>

ExitFailed(a) ==
  /\ proc[a] = "aborting" /\ errIdx[a] = 2 * a
  /\ Goto(a, "execfailed")
  /\ UNCHANGED <<ctlVars, count, file, errIdx, shmVars>>

\* A signal ends the child: by default, or by the handler it has from
\* run_tests before its exec.
Die(a) ==
  /\ proc[a] \in Live /\ a \in signalled
  /\ Goto(a, "killed")
  /\ UNCHANGED <<ctlVars, count, file, errIdx, shmVars>>

OpenShm(a) ==
  /\ proc[a] = "open"
  /\ \/ createSheredMem(a) /\ Goto(a, IF a \in Pubs THEN "connect"
                                                    ELSE "waitStart")
     \/ createSheredMemFails(a) /\ Goto(a, "failed")
  /\ UNCHANGED <<ctlVars, count, file, errIdx>>

\* The ZenohUTransport constructor and the check of getSuccess.
OpenSession(a) ==
  /\ proc[a] = "connect"
  /\ \/ Goto(a, IF a \in Pubs THEN "publish" ELSE "register")
     \/ "session" \in Faults /\ Goto(a, "failed")
  /\ UNCHANGED <<ctlVars, count, file, errIdx, shmVars>>

Crash(a) ==
  /\ proc[a] \in Live /\ "crash" \in Faults
  /\ Goto(a, "killed")
  /\ UNCHANGED <<ctlVars, count, file, errIdx, shmVars>>
-----------------------------------------------------------------------------
(* pub_test.  It does not wait for "Start". *)

Listening == {s \in Subs : proc[s] \in {"listen", "dump", "unregister"}}

\* onReceive in the subscribers of R: every message of the publishers has a
\* time stamp and a counter, so each call takes a sample.
onReceive(R) == [a \in App |-> IF a \in R THEN count[a] + 1 ELSE count[a]]

\* A round reaches some of the subscribers that listen at that moment.
PublishRound(p) ==
  /\ proc[p] = "publish" /\ count[p] < Loops
  /\ \E R \in SUBSET Listening : count' = [onReceive(R) EXCEPT ![p] = @ + 1]
  /\ UNCHANGED <<ctlVars, proc, file, signalled, errIdx, shmVars>>

SendFails(p) ==
  /\ proc[p] = "publish" /\ count[p] < Loops /\ "send" \in Faults
  /\ Goto(p, "failed")
  /\ UNCHANGED <<ctlVars, count, file, errIdx, shmVars>>

\* writeVecToFile; nobody looks at its result either.
WriteFile(a, samples) ==
  \/ file' = [file EXCEPT ![a] = samples]
  \/ "file" \in Faults /\ UNCHANGED file

\* The first round is not measured.
WritePubFile(p) ==
  /\ proc[p] = "publish" /\ count[p] = Loops
  /\ WriteFile(p, Loops - 1)
  /\ Goto(p, "report")
  /\ UNCHANGED <<ctlVars, count, errIdx, shmVars>>

Report(p) ==
  /\ proc[p] = "report"
  /\ Write(p, "Stop")
  /\ Goto(p, "closing")
  /\ UNCHANGED <<ctlVars, count, file, errIdx, linked>>

Close(p) ==
  /\ proc[p] = "closing"
  /\ Goto(p, "exited")
  /\ UNCHANGED <<ctlVars, count, file, errIdx, shmVars>>
-----------------------------------------------------------------------------
(* sub_test *)

SeeStart(s) ==
  /\ proc[s] = "waitStart" /\ Mapped(s) = "Start"
  /\ Goto(s, "connect")
  /\ UNCHANGED <<ctlVars, count, file, errIdx, shmVars>>

Register(s) ==
  /\ proc[s] = "register"
  /\ \/ Goto(s, "listen")
     \/ "register" \in Faults /\ Goto(s, "failed")
  /\ UNCHANGED <<ctlVars, count, file, errIdx, shmVars>>

SeeStop(s) ==
  /\ proc[s] = "listen" /\ Mapped(s) = "Stop"
  /\ Goto(s, "dump")
  /\ UNCHANGED <<ctlVars, count, file, errIdx, shmVars>>

WriteSubFile(s) ==
  /\ proc[s] = "dump"
  /\ WriteFile(s, count[s])
  /\ Goto(s, "unregister")
  /\ UNCHANGED <<ctlVars, count, errIdx, shmVars>>

Unregister(s) ==
  /\ proc[s] = "unregister"
  /\ \/ Goto(s, "exited")
     \/ "register" \in Faults /\ Goto(s, "failed")
  /\ UNCHANGED <<ctlVars, count, file, errIdx, shmVars>>
-----------------------------------------------------------------------------
\* The next invocation, with its own result directory; it finds the objects
\* that have a name.
NewRun ==
  /\ ctl \in CtlExited /\ run < MaxRuns
  /\ \A a \in App : proc[a] \in Gone
  /\ run' = run + 1
  /\ ctl' = "spawn" /\ idx' = 0 /\ shmVec' = {} /\ stopSeen' = {}
  /\ terminate' = FALSE
  /\ proc' = [a \in App |-> "none"]
  /\ count' = [a \in App |-> 0]
  /\ file' = [a \in App |-> 0]
  /\ signalled' = {}
  /\ errIdx' = [a \in App |-> 0]
  /\ shm' = [a \in App |-> IF linked[a] THEN Mapped(a) ELSE shm[a]]
  /\ fresh' = [a \in App |-> NoObject]
  /\ UNCHANGED linked

Init ==
  /\ run = 1
  /\ ctl = "spawn" /\ idx = 0 /\ shmVec = {} /\ stopSeen = {}
  /\ terminate = FALSE
  /\ proc = [a \in App |-> "none"]
  /\ count = [a \in App |-> 0]
  /\ file = [a \in App |-> 0]
  /\ signalled = {}
  /\ errIdx = [a \in App |-> 0]
  /\ fresh = [a \in App |-> NoObject]
  /\ shm = [a \in App |-> "empty"]
  /\ linked = [a \in App |-> FALSE]

CtlStep ==
  \/ CreateProcess \/ ForkFails \/ WriteStart \/ PollEntry \/ PollPass
  \/ WriteStop \/ WaitChild \/ Stats \/ KillChild \/ ReapChild \/ UnlinkShm

PubStep(p) ==
  \/ PublishRound(p) \/ SendFails(p) \/ WritePubFile(p) \/ Report(p) \/ Close(p)

SubStep(s) ==
  \/ SeeStart(s) \/ Register(s) \/ SeeStop(s) \/ WriteSubFile(s)
  \/ Unregister(s)

ChildStep(a) ==
  \/ Exec(a) \/ OpenShm(a) \/ OpenSession(a) \/ Die(a)
  \/ ExecFails(a) \/ KillSibling(a) \/ RemoveSibling(a) \/ ExitFailed(a)
  \/ a \in Pubs /\ PubStep(a)
  \/ a \in Subs /\ SubStep(a)

Next ==
  \/ CtlStep \/ Sigterm \/ CtrlC
  \/ \E a \in App : ChildStep(a) \/ Crash(a)
  \/ NewRun

Spec == Init /\ [][Next]_vars

(***************************************************************************)
(* The operating system schedules every process and delivers the signals   *)
(* sent; nothing forces a fault, a Ctrl+C or another run.                  *)
(***************************************************************************)
FairSpec == Spec /\ WF_vars(CtlStep) /\ \A a \in App : WF_vars(ChildStep(a))
-----------------------------------------------------------------------------
TypeOK ==
  /\ run \in 1 .. MaxRuns
  /\ ctl \in CtlPoint
  /\ idx \in 0 .. MAX_PROCESS
  /\ ctl \notin {"poll"} \cup CtlExited => idx \in App
  /\ shmVec \subseteq App
  /\ stopSeen \subseteq Pubs
  /\ terminate \in BOOLEAN
  /\ proc \in [App -> Live \cup Gone]
  /\ count \in [App -> Nat]
  /\ file \in [App -> Nat]
  /\ signalled \subseteq App
  /\ errIdx \in [App -> 0 .. (2 * MAX_PROCESS)]
  /\ shm \in [App -> Contents]
  /\ fresh \in [App -> Contents \cup {NoObject}]
  /\ linked \in [App -> BOOLEAN]

AllPublished == \A p \in Pubs : count[p] = Loops

(***************************************************************************)
(* A subscriber begins its shutdown only when every publisher of its own   *)
(* run has published all its rounds, whatever an earlier run left in the   *)
(* shared memory (the polling loop of run_tests, the "Stop" of pub_test    *)
(* and the two waiting loops of sub_test together).                        *)
(***************************************************************************)
StopAfterAllPublished ==
  \A s \in Subs : proc[s] \in {"dump", "unregister", "exited"} => AllPublished

(***************************************************************************)
(* run_tests reads the result files, removes the objects and leaves, other *)
(* than by a signal, only when no child of the run is left that could      *)
(* still write a file or open an object.                                   *)
(***************************************************************************)
ChildrenReaped ==
  ctl \in {"stats", "unlink", "cleanup", "done", "aborted", "error"} =>
    \A a \in App : proc[a] \in Gone

(***************************************************************************)
(* After an orderly exit (the statistics, or the error path of a failed    *)
(* fork) no shared-memory object run_tests had mapped is left behind, nor  *)
(* made anew by a child that was late to open it.                          *)
(***************************************************************************)
ObjectsRemoved ==
  ctl \in {"done", "error"} => \A a \in shmVec : ~ linked[a]

\* Gone, or with a signal pending that ends it.
Dying(a) == proc[a] \in Gone \/ a \in signalled

(***************************************************************************)
(* A name is removed only when its child is gone or has been sent a signal *)
(* that ends it, and so only a dying child can still open its object anew  *)
(* and work in one run_tests does not see: a failed exec leaves no pair of *)
(* processes that wait for each other in two objects of one name.          *)
(***************************************************************************)
NoRemovalInUse ==
  [][\A a \in App : (linked[a] /\ ~ linked'[a]) \/ fresh'[a] # NoObject
                      => Dying(a)']_vars

\* run_tests is past the point where it overwrites what a holds by "Start".
Started(a) ==
  /\ a \in shmVec
  /\ \/ ctl \in {"poll", "stop", "wait", "stats"}
     \/ ctl = "start" /\ a < idx

(***************************************************************************)
(* The polling pass reads one object after the other; it is sound because  *)
(* a publisher's "Stop", once "Start" has been written, is never taken     *)
(* back while run_tests runs.                                              *)
(***************************************************************************)
ReportStays ==
  [][\A p \in Pubs : Started(p) /\ shm[p] = "Stop" /\ ctl' \notin CtlExited
                      => shm'[p] = "Stop"]_vars

(***************************************************************************)
(* Every invocation of run_tests ends, except for one of these reasons:    *)
(*  - an object it could not map, which it then never writes or polls;     *)
(*  - a publisher that is gone, or done, without a "Stop" in its object:   *)
(*    it failed, was killed, or reported before "Start" overwrote it;      *)
(*  - a subscriber that was still waiting for "Start" when "Stop" came.    *)
(***************************************************************************)
NotMapped == \E a \in App : proc[a] # "none" /\ a \notin shmVec
ReportLost ==
  \E p \in Pubs : /\ proc[p] \in (Gone \ {"none"}) \cup {"closing"}
                  /\ shm[p] # "Stop"
StartMissed ==
  \E s \in Subs : /\ proc[s] \in {"forked", "open", "waitStart"}
                  /\ shm[s] = "Stop" /\ ctl \in {"stop", "wait"}

Completion ==
  []<>(ctl \in CtlExited \/ NotMapped \/ ReportLost \/ StartMissed)

(***************************************************************************)
(* What signalHandler announces ("Got Ctrl+C. Exiting...", "set flag to    *)
(* stop process and close system"): after a Ctrl+C that has ended all the  *)
(* children run_tests comes to an end too.                                 *)
(***************************************************************************)
InterruptExits ==
  (terminate /\ \A a \in App : proc[a] = "killed") ~> ctl \in CtlExited

(***************************************************************************)
(* What the error path of run_tests announces ("Error creating process",   *)
(* "terminate all", exit): when a process cannot be created, run_tests     *)
(* comes to an end.                                                        *)
(***************************************************************************)
CreationFailureExits ==
  (\E a \in App : proc[a] = "execfailed") ~> ctl \in CtlExited
-----------------------------------------------------------------------------
(* The invariants the proofs of BenchRunProofs rest on. *)

\* Who says or has seen that publishers are finished is right about it: a
\* publisher that reports, or whose "Stop" is in an object run_tests started ...
ReportTrue ==
  \A p \in Pubs :
    \/ proc[p] \in {"report", "closing"}
    \/ Started(p) /\ shm[p] = "Stop"
    => count[p] = Loops

\* ... the publishers counted in the current pass ...
SeenTrue ==
  ctl \in {"spawn", "start", "poll"} => \A p \in stopSeen : count[p] = Loops

\* ... run_tests past its polling loop ...
PolledTrue ==
  ctl \in {"stop", "wait", "stats", "unlink", "done", "aborted"} => AllPublished

\* ... and a subscriber past "Start" that would read something else.
ReplacedTrue ==
  \A s \in Subs :
    proc[s] \in {"connect", "register", "listen"} /\ shm[s] # "Start"
      => AllPublished

\* ... and nobody tells a subscriber anything in an object of its own.
FreshSilent == \A s \in Subs : fresh[s] \in {NoObject, "empty"}

StopKnowledge ==
  /\ ReportTrue
  /\ SeenTrue
  /\ PolledTrue
  /\ ReplacedTrue
  /\ FreshSilent
  /\ StopAfterAllPublished

\* What run_tests has mapped, whom it has waited for, and which names it has
\* removed, at its index.
MappedBelow == ctl = "spawn" => \A a \in shmVec : a < idx
ReapedBelow ==
  ctl \in {"wait", "terminate"} => \A a \in App : a < idx => proc[a] \in Gone
RemovedBelow ==
  ctl \in {"unlink", "cleanup"} => \A a \in shmVec : a < idx => ~ linked[a]

\* An exec-failed child has killed the siblings below its index ...
SiblingsSignalled ==
  \A a, b \in App : b < a /\ b < errIdx[a] => proc[b] # "none" /\ Dying(b)

\* ... and only a child gone or dying loses the name of its object.
MappedLinked ==
  \A a \in App : (a \in shmVec /\ ~ linked[a]) \/ fresh[a] # NoObject
                   => a \in shmVec /\ Dying(a)

Shutdown ==
  /\ MappedBelow
  /\ ReapedBelow
  /\ RemovedBelow
  /\ SiblingsSignalled
  /\ MappedLinked
  /\ ChildrenReaped
  /\ ObjectsRemoved
=============================================================================
