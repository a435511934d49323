--------------------------- MODULE BenchRunProofs ---------------------------
(***************************************************************************)
(* Proofs about BenchRun, for every even number of children, every number  *)
(* of rounds, every number of consecutive runs and every set of faults,    *)
(* and that it implements StopBarrier.                                     *)
(***************************************************************************)
EXTENDS BenchRunRefinement, FiniteSetTheorems, FunctionTheorems, TLAPS

-----------------------------------------------------------------------------
(* Counting to max_process / 2 is counting all the publishers. *)

LEMMA PubsCounted ==
  /\ IsFiniteSet(Pubs)
  /\ Cardinality(Pubs) = MAX_PROCESS \div 2
<1> DEFINE half == MAX_PROCESS \div 2
           Double == [k \in 0 .. (half - 1) |-> 2 * k]
<1>1. half \in Nat /\ half >= 1 /\ MAX_PROCESS = 2 * half
  BY ProcessAssumption
<1> HIDE DEF half
<1>2. /\ IsFiniteSet(0 .. (half - 1))
      /\ Cardinality(0 .. (half - 1)) = half
  <2>1. /\ 0 \in Int /\ half - 1 \in Int
        /\ ~ 0 > half - 1 /\ (half - 1) - 0 + 1 = half
    BY <1>1
  <2> QED BY <2>1, FS_Interval
<1>3. Double \in [0 .. (half - 1) -> Pubs]
  BY <1>1 DEF Pubs, App
<1>4. \A j, k \in 0 .. (half - 1) : Double[j] = Double[k] => j = k
  BY <1>1
<1>5. \A p \in Pubs : \E k \in 0 .. (half - 1) : Double[k] = p
  <2> TAKE p \in Pubs
  <2>1. p \div 2 \in 0 .. (half - 1) /\ 2 * (p \div 2) = p
    BY <1>1 DEF Pubs, App
  <2> QED BY <2>1
<1>6. ExistsBijection(0 .. (half - 1), Pubs)
  <2> HIDE DEF Double
  <2>1. Double \in Bijection(0 .. (half - 1), Pubs)
    BY <1>3, <1>4, <1>5, Fun_IsBij
  <2> QED BY <2>1 DEF ExistsBijection
<1>7. IsFiniteSet(Pubs) /\ Cardinality(Pubs) = half
  BY <1>2, <1>6, FS_Bijection
<1> QED BY <1>7 DEF half

LEMMA AllPubsCounted ==
  ASSUME NEW S \in SUBSET Pubs, Cardinality(S) = MAX_PROCESS \div 2
  PROVE  S = Pubs
BY PubsCounted, FS_Subset
-----------------------------------------------------------------------------
(* What the index of a loop over App may become. *)

LEMMA AppIndex ==
  /\ 0 \in App /\ 0 \in 0 .. MAX_PROCESS
  /\ \A a \in App : /\ a \in Nat /\ a < MAX_PROCESS
                    /\ a \in 0 .. MAX_PROCESS /\ a + 1 \in 0 .. MAX_PROCESS
                    /\ a + 1 < MAX_PROCESS => a + 1 \in App
                    /\ ~ (a + 1 < MAX_PROCESS) => \A b \in App : b <= a
  /\ \A i \in 0 .. MAX_PROCESS : i < MAX_PROCESS => i \in App
  /\ Pubs \subseteq App /\ Subs \subseteq App
  /\ \A a \in App : a \in Pubs <=> a \notin Subs
BY ProcessAssumption DEF App, Pubs, Subs
-----------------------------------------------------------------------------
(* Opening an object leaves the shared memory well-typed. *)
ShmType ==
  /\ shm \in [App -> Contents]
  /\ linked \in [App -> BOOLEAN]
  /\ fresh \in [App -> Contents \cup {NoObject}]

\* A call of createSheredMem, or a failed one, keeps these types.
LEMMA SharedMemType ==
  ASSUME ShmType, NEW a \in App, createSheredMem(a) \/ UNCHANGED shmVars
  PROVE  ShmType'
<1>1. CASE createSheredMem(a) /\ a \in shmVec /\ ~ linked[a]
  BY <1>1 DEF createSheredMem, ShmType, Contents
<1>2. CASE createSheredMem(a) /\ ~ (a \in shmVec /\ ~ linked[a])
  BY <1>2 DEF createSheredMem, ShmType, Contents
<1>3. CASE UNCHANGED shmVars
  BY <1>3 DEF shmVars, ShmType
<1> QED BY <1>1, <1>2, <1>3
-----------------------------------------------------------------------------
(***************************************************************************)
(* Type correctness: every variable of the run keeps its range; the index  *)
(* of run_tests' loops stays within shm_vec and child_pids wherever it is  *)
(* used as an index.                                                       *)
(***************************************************************************)
THEOREM TypeCorrect == Spec => []TypeOK
<1>1. Init => TypeOK
  <2> SUFFICES ASSUME Init PROVE TypeOK
    OBVIOUS
  <2>1. run \in 1 .. MaxRuns
    BY RunsAssumption DEF Init
  <2>2. proc \in [App -> Live \cup Gone] /\ shm \in [App -> Contents]
    BY DEF Init, Gone, Contents
  <2>3. /\ count \in [App -> Nat] /\ file \in [App -> Nat]
        /\ linked \in [App -> BOOLEAN]
        /\ fresh \in [App -> Contents \cup {NoObject}]
        /\ errIdx \in [App -> 0 .. (2 * MAX_PROCESS)]
        /\ signalled \subseteq App
    BY ProcessAssumption DEF Init
  <2> QED BY <2>1, <2>2, <2>3, AppIndex DEF Init, TypeOK, CtlPoint
<1>2. TypeOK /\ [Next]_vars => TypeOK'
  <2> SUFFICES ASSUME TypeOK, [Next]_vars PROVE TypeOK'
    OBVIOUS
  <2> USE AppIndex, LoopsAssumption
  <2> USE DEF CtlPoint, CtlExited, Contents
  <2>1. CASE CreateProcess
    <3>1. ShmType'
      BY <2>1, SharedMemType DEF CreateProcess, createSheredMemFails, TypeOK,
         ShmType, Contents
    <3> QED BY <2>1, <3>1 DEF CreateProcess, Advance, TypeOK, ShmType, Live
  <2>2. CASE ForkFails
    BY <2>2 DEF ForkFails, TypeOK, childVars, shmVars
  <2>3. CASE WriteStart
    BY <2>3 DEF WriteStart, Advance, TypeOK, childVars
  <2>4. CASE PollEntry
    BY <2>4 DEF PollEntry, TypeOK, childVars, shmVars
  <2>5. CASE PollPass
    BY <2>5 DEF PollPass, TypeOK, childVars, shmVars
  <2>6. CASE WriteStop
    BY <2>6 DEF WriteStop, Advance, TypeOK, childVars
  <2>7. CASE WaitChild
    BY <2>7 DEF WaitChild, Advance, TypeOK, childVars, shmVars
  <2>8. CASE Stats
    BY <2>8 DEF Stats, TypeOK, childVars, shmVars
  <2>9. CASE Sigterm
    BY <2>9 DEF Sigterm, TypeOK, childVars, shmVars
  <2>10. CASE CtrlC
    BY <2>10 DEF CtrlC, Signalled, TypeOK, shmVars
  <2>11. ASSUME NEW a \in App, ChildStep(a) PROVE TypeOK'
    <3> USE DEF Live, Executing, Goto, TypeOK, ctlVars, shmVars
    <3>1. CASE Exec(a) \/ ExecFails(a) \/ ExitFailed(a) \/ Die(a)
      BY <3>1 DEF Exec, ExecFails, ExitFailed, Die, Gone
    <3>2. CASE KillSibling(a) \/ RemoveSibling(a)
      <4>1. /\ errIdx[a] \in Nat /\ a \in Nat /\ MAX_PROCESS \in Nat
            /\ a < MAX_PROCESS
        BY ProcessAssumption
      <4>2. errIdx[a] < a \/ errIdx[a] \in a .. (2 * a - 1)
        BY <3>2 DEF KillSibling, RemoveSibling
      <4>4. errIdx[a] + 1 <= 2 * a
        BY <4>1, <4>2
      <4>5. errIdx[a] + 1 \in 0 .. (2 * MAX_PROCESS)
        BY <4>1, <4>4
      <4>3. errIdx' \in [App -> 0 .. (2 * MAX_PROCESS)]
        BY <3>2, <4>5 DEF KillSibling, RemoveSibling, NextEntry
      <4>6. CASE KillSibling(a)
        <5>1. errIdx[a] < a
          BY <4>6 DEF KillSibling
        <5>2. errIdx[a] \in App
          BY <4>1, <5>1 DEF App
        <5>3. signalled' \subseteq App
          BY <4>6, <5>2 DEF KillSibling, Signalled
        <5> QED BY <4>3, <4>6, <5>3 DEF KillSibling
      <4>7. CASE RemoveSibling(a)
        BY <4>3, <4>7 DEF RemoveSibling, removeSharedMem
      <4> QED BY <3>2, <4>6, <4>7
    <3>3. CASE OpenShm(a)
      <4>1. ShmType'
        BY <3>3, SharedMemType DEF OpenShm, createSheredMemFails, ShmType
      <4> QED BY <3>3, <4>1 DEF OpenShm, Gone, ShmType
    <3>4. CASE OpenSession(a)
      BY <3>4 DEF OpenSession, Gone
    <3>5. CASE a \in Pubs /\ PubStep(a)
      <4>1. CASE PublishRound(a)
        <5>1. PICK R \in SUBSET Listening :
                count' = [onReceive(R) EXCEPT ![a] = @ + 1]
          BY <4>1 DEF PublishRound
        <5>2. onReceive(R) \in [App -> Nat]
          BY DEF onReceive
        <5>3. count' \in [App -> Nat]
          BY <5>1, <5>2
        <5> QED BY <4>1, <5>3 DEF PublishRound
      <4>2. CASE SendFails(a) \/ WritePubFile(a) \/ Close(a)
        BY <4>2 DEF SendFails, WritePubFile, WriteFile, Close, Gone
      <4>3. CASE Report(a)
        BY <4>3 DEF Report, Write
      <4> QED BY <3>5, <4>1, <4>2, <4>3 DEF PubStep
    <3>6. CASE a \in Subs /\ SubStep(a)
      BY <3>6 DEF SubStep, SeeStart, Register, SeeStop, WriteSubFile,
                  WriteFile, Unregister, Gone
    <3> QED BY <2>11, <3>1, <3>2, <3>3, <3>4, <3>5, <3>6 DEF ChildStep
  <2>12. ASSUME NEW a \in App, Crash(a) PROVE TypeOK'
    BY <2>12 DEF Crash, Goto, TypeOK, ctlVars, shmVars, Gone
  <2>13. CASE NewRun
    <3>1. run' \in 1 .. MaxRuns
      BY <2>13, RunsAssumption DEF NewRun, TypeOK
    <3>2. proc' \in [App -> Live \cup Gone]
      BY <2>13 DEF NewRun, Gone
    <3>3. count' \in [App -> Nat] /\ file' \in [App -> Nat]
      BY <2>13 DEF NewRun
    <3>4. /\ errIdx' \in [App -> 0 .. (2 * MAX_PROCESS)]
          /\ signalled' \subseteq App
      BY <2>13, ProcessAssumption DEF NewRun
    <3>5. /\ shm' \in [App -> Contents]
          /\ fresh' \in [App -> Contents \cup {NoObject}]
      BY <2>13 DEF NewRun, Mapped, TypeOK
    <3> QED BY <3>1, <3>2, <3>3, <3>4, <3>5, <2>13 DEF NewRun, TypeOK
  <2>14. CASE UNCHANGED vars
    BY <2>14 DEF TypeOK, vars, ctlVars, childVars, shmVars
  <2>15. CASE KillChild
    BY <2>15 DEF KillChild, Signalled, TypeOK, ctlVars, shmVars
  <2>16. CASE ReapChild
    BY <2>16 DEF ReapChild, Advance, TypeOK, childVars, shmVars
  <2>17. CASE UnlinkShm
    BY <2>17 DEF UnlinkShm, removeSharedMem, Advance, TypeOK, childVars
  <2> QED
    BY <2>1, <2>2, <2>3, <2>4, <2>5, <2>6, <2>7, <2>8, <2>9, <2>10, <2>11,
       <2>12, <2>13, <2>14, <2>15, <2>16, <2>17 DEF Next, CtlStep
<1> QED BY <1>1, <1>2, PTL DEF Spec
-----------------------------------------------------------------------------
(* Within a run what is published stays published. *)

LEMMA PublishedStays ==
  ASSUME TypeOK, [Next]_vars, run' = run,
         NEW p \in Pubs, count[p] = Loops
  PROVE  count'[p] = Loops
<1>1. CASE CtlStep \/ Sigterm \/ CtrlC
  BY <1>1 DEF CtlStep, CreateProcess, ForkFails, WriteStart, PollEntry,
     PollPass, WriteStop, WaitChild, Stats, KillChild, ReapChild, UnlinkShm,
     Sigterm, CtrlC, childVars
<1>2. ASSUME NEW a \in App, ChildStep(a) \/ Crash(a) PROVE count'[p] = Loops
  <2>1. ASSUME a \in Pubs, PublishRound(a) PROVE count'[p] = Loops
    <3>1. a # p
      BY <2>1, LoopsAssumption DEF PublishRound
    <3>2. p \in App /\ p \notin Listening
      BY AppIndex DEF Listening
    <3> QED BY <2>1, <3>1, <3>2 DEF PublishRound, onReceive
  <2> QED
    BY <1>2, <2>1 DEF ChildStep, PubStep, SubStep, Crash, Exec, ExecFails,
       KillSibling, RemoveSibling, ExitFailed, Die, OpenShm, OpenSession,
       SendFails, WritePubFile, Report, Close, SeeStart, Register, SeeStop,
       WriteSubFile, Unregister
<1>3. CASE NewRun
  BY <1>3 DEF NewRun, TypeOK
<1>4. CASE UNCHANGED vars
  BY <1>4 DEF vars, childVars
<1> QED BY <1>1, <1>2, <1>3, <1>4 DEF Next

LEMMA AllPublishedStays ==
  ASSUME TypeOK, [Next]_vars, run' = run, AllPublished
  PROVE  AllPublished'
BY PublishedStays DEF AllPublished
-----------------------------------------------------------------------------
(* What a child's step leaves alone. *)

LEMMA ChildLeavesCtl ==
  ASSUME NEW a \in App, ChildStep(a) \/ Crash(a)
  PROVE  UNCHANGED ctlVars
BY DEF ChildStep, PubStep, SubStep, Crash, Exec, ExecFails, KillSibling,
   RemoveSibling, ExitFailed, Die, OpenShm, OpenSession, PublishRound,
   SendFails, WritePubFile, Report, Close, SeeStart, Register, SeeStop,
   WriteSubFile, Unregister

\* The step of a child that moves, or of one that goes through the error path.
LEMMA ChildMoves ==
  ASSUME TypeOK, NEW a \in App, ChildStep(a) \/ Crash(a)
  PROVE  \/ PublishRound(a) \/ KillSibling(a) \/ RemoveSibling(a)
         \/ \E point \in (Live \cup Gone) \ {"none"} : Goto(a, point)
<1> USE DEF Live, Executing, Gone
<1>1. CASE \/ Exec(a) \/ ExecFails(a) \/ ExitFailed(a) \/ Die(a)
           \/ Crash(a)
  BY <1>1 DEF Exec, ExecFails, ExitFailed, Die, Crash
<1>2. CASE OpenShm(a) \/ OpenSession(a)
  BY <1>2 DEF OpenShm, OpenSession
<1>3. CASE a \in Pubs /\ PubStep(a)
  BY <1>3 DEF PubStep, SendFails, WritePubFile, Report, Close
<1>4. CASE a \in Subs /\ SubStep(a)
  BY <1>4 DEF SubStep, SeeStart, Register, SeeStop, WriteSubFile, Unregister
<1> QED BY <1>1, <1>2, <1>3, <1>4 DEF ChildStep

\* Other children stay where they are; signals pending stay pending.
LEMMA ChildFrame ==
  ASSUME TypeOK, NEW a \in App, ChildStep(a) \/ Crash(a),
         NEW b \in App, b # a
  PROVE  /\ proc'[b] = proc[b]
         /\ b \in signalled => b \in signalled'
<1>1. CASE PublishRound(a) \/ KillSibling(a) \/ RemoveSibling(a)
  BY <1>1 DEF PublishRound, KillSibling, RemoveSibling, Signalled
<1>2. ASSUME NEW point \in (Live \cup Gone) \ {"none"}, Goto(a, point)
      PROVE  /\ proc'[b] = proc[b]
             /\ b \in signalled => b \in signalled'
  BY <1>2 DEF Goto, TypeOK
<1> QED BY <1>1, <1>2, ChildMoves

\* Only its own object is opened and written by a child.
LEMMA ChildShmFrame ==
  ASSUME TypeOK, NEW a \in App, ChildStep(a) \/ Crash(a),
         NEW b \in App, b # a
  PROVE  shm'[b] = shm[b] /\ fresh'[b] = fresh[b]
<1>1. CASE \/ Exec(a) \/ ExecFails(a) \/ ExitFailed(a) \/ Die(a)
           \/ Crash(a) \/ KillSibling(a) \/ RemoveSibling(a)
  BY <1>1 DEF Exec, ExecFails, ExitFailed, Die, Crash, KillSibling,
     RemoveSibling, removeSharedMem, shmVars
<1>2. CASE OpenShm(a)
  BY <1>2 DEF OpenShm, createSheredMem, createSheredMemFails, shmVars, TypeOK
<1>3. CASE OpenSession(a)
  BY <1>3 DEF OpenSession, shmVars
<1>4. CASE a \in Pubs /\ PubStep(a)
  BY <1>4 DEF PubStep, PublishRound, SendFails, WritePubFile, Report, Write,
     Close, shmVars, TypeOK
<1>5. CASE a \in Subs /\ SubStep(a)
  BY <1>5 DEF SubStep, SeeStart, Register, SeeStop, WriteSubFile, Unregister,
     shmVars
<1> QED BY <1>1, <1>2, <1>3, <1>4, <1>5 DEF ChildStep
-----------------------------------------------------------------------------
(***************************************************************************)
(* A subscriber begins its shutdown only when every publisher of its run   *)
(* has published all its rounds.                                           *)
(***************************************************************************)
LEMMA StopKnowledgeInit == Init => StopKnowledge
BY DEF Init, StopKnowledge, ReportTrue, SeenTrue, PolledTrue, ReplacedTrue,
       FreshSilent, StopAfterAllPublished, Started, Pubs, Subs

\* A step of run_tests keeps it ...
LEMMA StopKnowledgeCtl ==
  ASSUME TypeOK, StopKnowledge, CtlStep \/ Sigterm \/ CtrlC
  PROVE  /\ ReportTrue' /\ SeenTrue' /\ PolledTrue' /\ ReplacedTrue'
         /\ StopAfterAllPublished'
<1> USE DEF StopKnowledge
<1>1. [Next]_vars
  BY DEF Next
<1>2. CtlStep \/ Sigterm \/ CtrlC
  OBVIOUS
<1> QED
  <2>1. run' = run
    BY <1>2 DEF CtlStep, CreateProcess, ForkFails, WriteStart, PollEntry,
       PollPass, WriteStop, WaitChild, Stats, KillChild, ReapChild, UnlinkShm,
       Sigterm, CtrlC, ctlVars
  <2>2. AllPublished => AllPublished'
    BY <1>1, <2>1, AllPublishedStays
  <2>3. \A p \in Pubs : count[p] = Loops => count'[p] = Loops
    BY <1>1, <2>1, PublishedStays
  <2> USE <2>2, <2>3, AppIndex
  <2>4. CASE CreateProcess
    <3>1. /\ idx \in App /\ ctl = "spawn" /\ ctl' \in {"spawn", "start"}
          /\ \A a \in App : \/ proc'[a] = proc[a] /\ shm'[a] = shm[a]
                            \/ a = idx /\ proc'[a] = "forked"
      BY <2>4 DEF CreateProcess, createSheredMem, createSheredMemFails,
         Advance, shmVars, TypeOK, CtlExited
    <3>2. ctl' = "start" => idx' = 0
      BY <2>4 DEF CreateProcess, Advance
    <3>3. \A a \in App : ~ Started(a)'
      BY <3>1, <3>2 DEF Started, App
    <3>4. UNCHANGED <<stopSeen, count>>
      BY <2>4 DEF CreateProcess
    <3> QED BY <3>1, <3>3, <3>4 DEF ReportTrue, SeenTrue, PolledTrue,
               ReplacedTrue, StopAfterAllPublished
  <2>5. CASE ForkFails
    BY <2>5 DEF ForkFails, childVars, shmVars, ReportTrue, SeenTrue,
       PolledTrue, ReplacedTrue, StopAfterAllPublished, Started
  <2>6. CASE WriteStart
    <3>1. idx \in App /\ idx' \in {0, idx + 1} /\ ctl' \in {"start", "poll"}
      BY <2>6 DEF WriteStart, Advance, TypeOK, CtlExited
    <3>2. \A a \in App : Started(a)' => Started(a) \/ a = idx
      <4>1. ctl = "start" /\ shmVec' = shmVec
        BY <2>6 DEF WriteStart
      <4>2. CASE idx + 1 < MAX_PROCESS
        <5>1. ctl' = "start" /\ idx' = idx + 1
          BY <2>6, <4>2 DEF WriteStart, Advance
        <5>2. \A a \in App : a < idx + 1 => a < idx \/ a = idx
          BY <3>1 DEF App
        <5> QED BY <4>1, <5>1, <5>2 DEF Started
      <4>3. CASE ~ idx + 1 < MAX_PROCESS
        <5>1. \A a \in App : a < idx \/ a = idx
          BY <3>1, <4>3 DEF App
        <5> QED BY <4>1, <5>1 DEF Started
      <4> QED BY <4>2, <4>3
    <3>3. \A a \in App : shm'[a] = "Stop" => shm[a] = "Stop"
      BY <2>6 DEF WriteStart, TypeOK
    <3>4. idx \in shmVec => shm'[idx] = "Start"
      BY <2>6, <3>1 DEF WriteStart, TypeOK
    <3>5. UNCHANGED <<shmVec, stopSeen, proc, count>>
      BY <2>6 DEF WriteStart, childVars
    <3>6. ReportTrue'
      BY <3>2, <3>3, <3>4, <3>5 DEF ReportTrue, Started
    <3>7. SeenTrue' /\ PolledTrue' /\ StopAfterAllPublished'
      BY <2>6, <3>1, <3>5 DEF WriteStart, Advance, SeenTrue, PolledTrue,
         StopAfterAllPublished
    <3>8. \A s \in App : shm'[s] # "Start" => shm[s] # "Start"
      BY <2>6 DEF WriteStart, TypeOK
    <3>9. ReplacedTrue'
      BY <3>5, <3>8 DEF ReplacedTrue
    <3> QED BY <3>6, <3>7, <3>9
  <2>7. CASE PollEntry
    BY <2>7 DEF PollEntry, childVars, shmVars, ReportTrue, SeenTrue,
       PolledTrue, ReplacedTrue, StopAfterAllPublished, Started, TypeOK
  <2>8. CASE PollPass
    <3>1. ctl' = "stop" => AllPublished
      BY <2>8, AllPubsCounted DEF PollPass, TypeOK, SeenTrue, AllPublished
    <3>2. ctl' \in {"poll", "stop"}
      BY <2>8 DEF PollPass
    <3>3. SeenTrue' /\ PolledTrue'
      BY <2>8, <3>1, <3>2 DEF PollPass, SeenTrue, PolledTrue
    <3>4. ReportTrue' /\ ReplacedTrue' /\ StopAfterAllPublished'
      BY <2>8, <3>2 DEF PollPass, childVars, shmVars, ReportTrue, ReplacedTrue,
         StopAfterAllPublished, Started
    <3> QED BY <3>3, <3>4
  <2>9. CASE WriteStop
    BY <2>9 DEF WriteStop, Advance, childVars, ReportTrue, SeenTrue,
       PolledTrue, ReplacedTrue, StopAfterAllPublished, Started, TypeOK
  <2>10. CASE WaitChild
    BY <2>10 DEF WaitChild, Advance, childVars, shmVars, ReportTrue, SeenTrue,
       PolledTrue, ReplacedTrue, StopAfterAllPublished, Started, TypeOK
  <2>11. CASE Stats
    BY <2>11 DEF Stats, childVars, shmVars, ReportTrue,
       SeenTrue, PolledTrue, ReplacedTrue, StopAfterAllPublished, Started
  <2>12. CASE Sigterm
    BY <2>12 DEF Sigterm, childVars, shmVars, CtlExited, ReportTrue,
       SeenTrue, PolledTrue, ReplacedTrue, StopAfterAllPublished, Started
  <2>13. CASE CtrlC
    BY <2>13 DEF CtrlC, shmVars, ReportTrue, SeenTrue, PolledTrue,
       ReplacedTrue, StopAfterAllPublished, Started
  <2>14. CASE KillChild
    BY <2>14 DEF KillChild, ctlVars, shmVars, ReportTrue, SeenTrue,
       PolledTrue, ReplacedTrue, StopAfterAllPublished, Started
  <2>16. CASE ReapChild
    BY <2>16 DEF ReapChild, Advance, childVars, shmVars, ReportTrue,
       SeenTrue, PolledTrue, ReplacedTrue, StopAfterAllPublished, Started
  <2>15. CASE UnlinkShm
    BY <2>15 DEF UnlinkShm, removeSharedMem, Advance, childVars, ReportTrue,
       SeenTrue, PolledTrue, ReplacedTrue, StopAfterAllPublished, Started
  <2> QED BY <1>2, <2>4, <2>5, <2>6, <2>7, <2>8, <2>9, <2>10, <2>11, <2>12,
             <2>13, <2>14, <2>15, <2>16 DEF CtlStep

\* Nobody but the subscriber opens its own object, and nobody writes in it.
LEMMA FreshSilentStep ==
  ASSUME TypeOK, FreshSilent, [Next]_vars
  PROVE  FreshSilent'
<1> USE AppIndex DEF FreshSilent
<1>1. CASE CreateProcess
  BY <1>1 DEF CreateProcess, createSheredMem, createSheredMemFails, shmVars,
     TypeOK, CtlExited
<1>2. CASE \/ ForkFails \/ WriteStart \/ PollEntry \/ PollPass \/ WriteStop
           \/ WaitChild \/ Stats
  BY <1>2 DEF ForkFails, WriteStart, PollEntry, PollPass, WriteStop, WaitChild,
     Stats, shmVars
<1>3. CASE KillChild \/ ReapChild \/ UnlinkShm \/ Sigterm \/ CtrlC
  BY <1>3 DEF KillChild, ReapChild, UnlinkShm, removeSharedMem, Sigterm, CtrlC,
     shmVars
<1>4. ASSUME NEW a \in App, ChildStep(a) \/ Crash(a) PROVE FreshSilent'
  <2>1. ASSUME NEW s \in Subs PROVE fresh'[s] \in {NoObject, "empty"}
    <3>1. CASE s # a
      BY <1>4, <3>1, ChildShmFrame
    <3>2. CASE s = a
      <4>1. CASE OpenShm(a)
        BY <3>2, <4>1 DEF OpenShm, createSheredMem, createSheredMemFails,
           shmVars, TypeOK
      <4>2. CASE \/ Exec(a) \/ ExecFails(a) \/ ExitFailed(a) \/ Die(a)
                 \/ Crash(a) \/ KillSibling(a) \/ RemoveSibling(a)
                 \/ OpenSession(a) \/ SubStep(a)
        BY <3>2, <4>2 DEF Exec, ExecFails, ExitFailed, Die, Crash,
           KillSibling, RemoveSibling, removeSharedMem, OpenSession, SubStep,
           SeeStart, Register, SeeStop, WriteSubFile, Unregister, shmVars
      <4> QED BY <1>4, <3>2, <4>1, <4>2 DEF ChildStep
    <3> QED BY <3>1, <3>2
  <2> QED BY <2>1
<1>5. CASE NewRun
  BY <1>5 DEF NewRun
<1>6. CASE UNCHANGED vars
  BY <1>6 DEF vars, shmVars
<1> QED BY <1>1, <1>2, <1>3, <1>4, <1>5, <1>6 DEF Next, CtlStep

\* ... and so does a step of a child, and the next run.
LEMMA StopKnowledgeStep ==
  ASSUME TypeOK, StopKnowledge, [Next]_vars
  PROVE  StopKnowledge'
<1> USE DEF StopKnowledge
<1>5. FreshSilent'
  BY FreshSilentStep
<1>1. CASE CtlStep \/ Sigterm \/ CtrlC
  BY <1>1, <1>5, StopKnowledgeCtl
<1>2. ASSUME NEW a \in App, ChildStep(a) \/ Crash(a) PROVE StopKnowledge'
  <2>1. UNCHANGED ctlVars
    BY <1>2, ChildLeavesCtl
  <2>2. AllPublished => AllPublished'
    BY <2>1, AllPublishedStays DEF ctlVars
  <2>3. \A p \in Pubs : count[p] = Loops => count'[p] = Loops
    BY <2>1, PublishedStays DEF ctlVars
  <2>4. SeenTrue' /\ PolledTrue'
    BY <2>1, <2>2, <2>3, AppIndex DEF ctlVars, SeenTrue, PolledTrue, TypeOK
  <2>5. \A b \in App : Started(b)' <=> Started(b)
    BY <2>1 DEF ctlVars, Started
  <2> USE <2>2, <2>3, <2>5, AppIndex
  <2>6. ReportTrue'
    <3> SUFFICES ASSUME NEW p \in Pubs, count[p] # Loops,
                        \/ proc'[p] \in {"report", "closing"}
                        \/ Started(p) /\ shm'[p] = "Stop"
                 PROVE  FALSE
      BY DEF ReportTrue
    <3>1. CASE p # a
      <4>1. proc'[p] = proc[p] /\ shm'[p] = shm[p]
        BY <1>2, <3>1, ChildFrame, ChildShmFrame
      <4> QED BY <4>1 DEF ReportTrue
    <3>2. CASE p = a
      <4>1. CASE \/ Exec(a) \/ ExecFails(a) \/ ExitFailed(a) \/ Die(a)
                 \/ OpenSession(a) \/ Crash(a)
        BY <3>2, <4>1 DEF ReportTrue, TypeOK, shmVars, Exec, ExecFails,
           ExitFailed, Die, OpenSession, Crash, Goto
      <4>5. CASE KillSibling(a) \/ RemoveSibling(a)
        BY <3>2, <4>5 DEF ReportTrue, shmVars, KillSibling, RemoveSibling,
           removeSharedMem
      <4>2. CASE OpenShm(a)
        BY <3>2, <4>2 DEF ReportTrue, TypeOK, OpenShm, createSheredMem,
           createSheredMemFails, shmVars, Goto
      <4>3. CASE PublishRound(a) \/ SendFails(a)
        BY <3>2, <4>3 DEF ReportTrue, TypeOK, PublishRound, SendFails, shmVars,
           Goto
      <4>4. CASE WritePubFile(a) \/ Report(a) \/ Close(a)
        BY <3>2, <4>4 DEF ReportTrue, TypeOK, WritePubFile, Report, Write,
           Close, shmVars, Goto
      <4> QED BY <1>2, <3>2, <4>1, <4>2, <4>3, <4>4, <4>5
              DEF ChildStep, PubStep
    <3> QED BY <3>1, <3>2
  <2>7. ReplacedTrue' /\ StopAfterAllPublished'
    <3> SUFFICES ASSUME NEW s \in Subs, ~ AllPublished,
                        \/ /\ proc'[s] \in {"connect", "register", "listen"}
                           /\ shm'[s] # "Start"
                        \/ proc'[s] \in {"dump", "unregister", "exited"}
                 PROVE  FALSE
      BY DEF ReplacedTrue, StopAfterAllPublished
    <3>1. CASE s # a
      <4>1. proc'[s] = proc[s] /\ shm'[s] = shm[s]
        BY <1>2, <3>1, ChildFrame, ChildShmFrame
      <4> QED BY <4>1 DEF ReplacedTrue, StopAfterAllPublished
    <3>2. CASE s = a
      <4>1. CASE \/ Exec(a) \/ ExecFails(a) \/ ExitFailed(a) \/ Die(a)
                 \/ OpenSession(a) \/ Crash(a)
        BY <3>2, <4>1 DEF ReplacedTrue, TypeOK, shmVars, Exec, ExecFails,
           ExitFailed, Die, OpenSession, Crash, Goto
      <4>5. CASE KillSibling(a) \/ RemoveSibling(a)
        BY <3>2, <4>5 DEF ReplacedTrue, StopAfterAllPublished, shmVars,
           KillSibling, RemoveSibling, removeSharedMem
      <4>2. CASE OpenShm(a)
        BY <3>2, <4>2 DEF ReplacedTrue, TypeOK, OpenShm, Goto
      <4>3. CASE SeeStart(a) \/ Register(a) \/ SeeStop(a)
        BY <3>2, <4>3 DEF ReplacedTrue, FreshSilent, Mapped, NoObject, TypeOK,
           SeeStart, Register, SeeStop, shmVars, Goto
      <4>4. CASE WriteSubFile(a) \/ Unregister(a)
        BY <3>2, <4>4 DEF StopAfterAllPublished, TypeOK, WriteSubFile,
           Unregister, Goto
      <4> QED BY <1>2, <3>2, <4>1, <4>2, <4>3, <4>4, <4>5
              DEF ChildStep, SubStep
    <3> QED BY <3>1, <3>2
  <2> QED BY <1>5, <2>4, <2>6, <2>7
<1>3. CASE NewRun
  BY <1>3, <1>5, AppIndex DEF NewRun, ReportTrue, SeenTrue, PolledTrue,
     ReplacedTrue, StopAfterAllPublished, Started
<1>4. CASE UNCHANGED vars
  BY <1>4, <1>5 DEF vars, ctlVars, childVars, shmVars, ReportTrue, SeenTrue,
     PolledTrue, ReplacedTrue, StopAfterAllPublished, AllPublished, Started
<1> QED BY <1>1, <1>2, <1>3, <1>4 DEF Next

(***************************************************************************)
(* What each process takes "Stop" for is true at every moment of a run:    *)
(* a publisher's "Stop", the count of run_tests, its leaving the polling   *)
(* loop, and the "Stop" a subscriber reads.                                *)
(***************************************************************************)
THEOREM StopKnown == Spec => []StopKnowledge
BY StopKnowledgeInit, StopKnowledgeStep, TypeCorrect, PTL DEF Spec

(***************************************************************************)
(* No subscriber shuts down before every publisher of its run has          *)
(* published all its rounds, for every even number of children, every      *)
(* number of rounds and runs, and every combination of failures.           *)
(***************************************************************************)
THEOREM StopWhenPublished == Spec => []StopAfterAllPublished
BY StopKnown, PTL DEF StopKnowledge
-----------------------------------------------------------------------------
(* A child is forked once in a run: those at and above the index of the    *)
(* forking loop are not there yet, and after the loop all have been.       *)
Forked ==
  /\ ctl = "spawn" => \A a \in App : proc[a] = "none" <=> ~ a < idx
  /\ \A a, b \in App : b < a /\ proc[a] # "none" => proc[b] # "none"
  /\ ctl \in {"start", "poll", "stop", "wait"} =>
       \A a \in App : proc[a] # "none"

\* Who takes a step is there.
LEMMA ChildIsLive ==
  ASSUME NEW a \in App, ChildStep(a) \/ Crash(a)
  PROVE  proc[a] \in Live
BY DEF ChildStep, Exec, ExecFails, KillSibling, RemoveSibling, ExitFailed, Die,
   OpenShm, OpenSession, Crash, PubStep, PublishRound, SendFails, WritePubFile,
   Report, Close, SubStep, SeeStart, Register, SeeStop, WriteSubFile,
   Unregister, Live, Executing

LEMMA ForkedInit == Init => Forked
BY DEF Init, Forked, App

\* No step but a fork makes a child of what is none, and none undoes a fork.
LEMMA OnlyForksAdd ==
  ASSUME TypeOK, NEW a \in App, ChildStep(a) \/ Crash(a), NEW b \in App
  PROVE  proc'[b] = "none" <=> proc[b] = "none"
<1>1. CASE b = a
  <2>1. proc[a] # "none"
    BY ChildIsLive DEF Live, Executing
  <2>2. CASE PublishRound(a) \/ KillSibling(a) \/ RemoveSibling(a)
    BY <2>2 DEF PublishRound, KillSibling, RemoveSibling
  <2>3. ASSUME NEW point \in (Live \cup Gone) \ {"none"}, Goto(a, point)
        PROVE  proc'[a] # "none"
    BY <2>3 DEF Goto, TypeOK, Live, Executing
  <2> QED BY <1>1, <2>1, <2>2, <2>3, ChildMoves
<1>2. CASE b # a
  BY <1>2, ChildFrame
<1> QED BY <1>1, <1>2

LEMMA ForkedStep ==
  ASSUME TypeOK, Forked, [Next]_vars
  PROVE  Forked'
<1> USE AppIndex DEF Forked
<1>1. CASE CreateProcess
  <2>1. /\ idx \in App /\ ctl = "spawn"
        /\ \A a \in App : proc'[a] = IF a = idx THEN "forked" ELSE proc[a]
    BY <1>1 DEF CreateProcess, TypeOK, CtlExited
  <2>2. \A a \in App : a < idx + 1 <=> a < idx \/ a = idx
    BY <2>1 DEF App
  <2>3. \A a \in App : proc'[a] = "none" <=> ~ a < idx + 1
    BY <2>1, <2>2
  <2>4. \A a, b \in App : b < a /\ a < idx + 1 => b < idx + 1
    BY <2>1 DEF App
  <2>5. \A a, b \in App : b < a /\ proc'[a] # "none" => proc'[b] # "none"
    BY <2>3, <2>4
  <2>6. CASE idx + 1 < MAX_PROCESS
    BY <1>1, <2>3, <2>5, <2>6 DEF CreateProcess, Advance
  <2>7. CASE ~ idx + 1 < MAX_PROCESS
    <3>1. \A a \in App : a < idx + 1
      BY <2>1, <2>7 DEF App
    <3>2. ctl' = "start" /\ \A a \in App : proc'[a] # "none"
      BY <1>1, <2>3, <2>7, <3>1 DEF CreateProcess, Advance
    <3> QED BY <3>2
  <2> QED BY <2>6, <2>7
<1>2. CASE WriteStart \/ PollEntry \/ PollPass \/ WriteStop \/ WaitChild
  BY <1>2 DEF WriteStart, PollEntry, PollPass, WriteStop, WaitChild, Advance,
     childVars
<1>3. CASE ForkFails \/ Stats \/ ReapChild \/ UnlinkShm \/ Sigterm
  BY <1>3 DEF ForkFails, Stats, ReapChild, UnlinkShm, Sigterm, Advance,
     childVars
<1>4. CASE CtrlC \/ KillChild
  BY <1>4 DEF CtrlC, KillChild, ctlVars
<1>5. ASSUME NEW a \in App, ChildStep(a) \/ Crash(a) PROVE Forked'
  <2>1. UNCHANGED ctlVars
    BY <1>5, ChildLeavesCtl
  <2>2. \A b \in App : proc'[b] = "none" <=> proc[b] = "none"
    BY <1>5, OnlyForksAdd
  <2> QED BY <2>1, <2>2 DEF ctlVars
<1>6. CASE NewRun
  BY <1>6 DEF NewRun, App
<1>7. CASE UNCHANGED vars
  BY <1>7 DEF vars, ctlVars, childVars
<1> QED BY <1>1, <1>2, <1>3, <1>4, <1>5, <1>6, <1>7 DEF Next, CtlStep
\* Children are forked once and in the order of their indices.
LEMMA ForkedInOrder == Spec => []Forked
BY ForkedInit, ForkedStep, TypeCorrect, PTL DEF Spec
-----------------------------------------------------------------------------
(* A child that is gone takes no step, and a step of another leaves it gone. *)

LEMMA ChildGone ==
  ASSUME TypeOK, NEW a \in App, ChildStep(a) \/ Crash(a),
         NEW b \in App, proc[b] \in Gone
  PROVE  b # a /\ proc'[b] \in Gone
<1>1. b # a
  BY ChildIsLive DEF Live, Executing, Gone
<1> QED BY <1>1, ChildFrame

\* The steps of a run but its forks; a child's are apart.
RunStep ==
  \/ ForkFails \/ WriteStart \/ PollEntry \/ PollPass \/ WriteStop
  \/ WaitChild \/ Stats \/ KillChild \/ ReapChild \/ UnlinkShm
  \/ Sigterm \/ CtrlC \/ UNCHANGED vars

OtherStep == RunStep \/ \E a \in App : ChildStep(a) \/ Crash(a)

LEMMA StepKinds ==
  ASSUME [Next]_vars
  PROVE  CreateProcess \/ NewRun \/ OtherStep
BY DEF Next, CtlStep, OtherStep, RunStep

\* Within a run nobody comes back to life, and no signal is lost.
LEMMA DyingStays ==
  ASSUME TypeOK, OtherStep, NEW b \in App, Dying(b)
  PROVE  Dying(b)'
<1> USE DEF Dying
<1>1. CASE RunStep
  BY <1>1 DEF RunStep, ForkFails, WriteStart, PollEntry, PollPass, WriteStop,
     WaitChild, Stats, KillChild, ReapChild, UnlinkShm, Sigterm, CtrlC,
     Signalled, childVars, vars
<1>3. ASSUME NEW a \in App, ChildStep(a) \/ Crash(a) PROVE Dying(b)'
  <2>1. CASE proc[b] \in Gone
    BY <1>3, <2>1, ChildGone
  <2>2. CASE b \in signalled /\ b # a
    BY <1>3, <2>2, ChildFrame
  <2>3. CASE b \in signalled /\ b = a
    <3>1. CASE PublishRound(a) \/ KillSibling(a) \/ RemoveSibling(a)
      BY <2>3, <3>1 DEF PublishRound, KillSibling, RemoveSibling, Signalled
    <3>2. ASSUME NEW point \in (Live \cup Gone) \ {"none"}, Goto(a, point)
          PROVE  Dying(b)'
      BY <2>3, <3>2 DEF Goto, TypeOK
    <3> QED BY <1>3, <3>1, <3>2, ChildMoves
  <2> QED BY <2>1, <2>2, <2>3
<1> QED BY <1>1, <1>3 DEF OtherStep

\* Which steps of a child remove a name, make an object run_tests does not
\* have, or count the entries of the error path.
LEMMA ChildUnlinks ==
  ASSUME TypeOK, NEW a \in App, ChildStep(a) \/ Crash(a),
         NEW b \in App, linked[b], ~ linked'[b]
  PROVE  RemoveSibling(a)
<1>1. CASE OpenShm(a)
  BY <1>1 DEF OpenShm, createSheredMem, createSheredMemFails, shmVars, TypeOK
<1>2. CASE ~ OpenShm(a)
  BY <1>2 DEF ChildStep, PubStep, SubStep, Crash, Exec, ExecFails, KillSibling,
     ExitFailed, Die, OpenSession, PublishRound, SendFails, WritePubFile,
     Report, Close, SeeStart, Register, SeeStop, WriteSubFile, Unregister,
     shmVars
<1> QED BY <1>1, <1>2

\* An object run_tests does not have comes from opening a removed name.
LEMMA ChildMakesFresh ==
  ASSUME TypeOK, NEW a \in App, ChildStep(a) \/ Crash(a),
         NEW b \in App, fresh[b] = NoObject, fresh'[b] # NoObject
  PROVE  b \in shmVec /\ ~ linked[b]
<1>1. CASE OpenShm(a)
  BY <1>1 DEF OpenShm, createSheredMem, createSheredMemFails, shmVars, TypeOK
<1>2. CASE Report(a)
  BY <1>2, ChildShmFrame DEF Report, Write
<1>3. CASE ~ OpenShm(a) /\ ~ Report(a)
  BY <1>3 DEF ChildStep, PubStep, SubStep, Crash, Exec, ExecFails, KillSibling,
     RemoveSibling, removeSharedMem, ExitFailed, Die, OpenSession,
     PublishRound, SendFails, WritePubFile, Close, SeeStart, Register, SeeStop,
     WriteSubFile, Unregister, shmVars
<1> QED BY <1>1, <1>2, <1>3

\* Only a child in the error path counts its entries.
LEMMA ChildCounts ==
  ASSUME TypeOK, NEW a \in App, ChildStep(a) \/ Crash(a),
         NEW b \in App, errIdx'[b] # errIdx[b]
  PROVE  b = a /\ (KillSibling(a) \/ RemoveSibling(a))
<1>1. KillSibling(a) \/ RemoveSibling(a)
  BY DEF ChildStep, PubStep, SubStep, Crash, Exec, ExecFails, ExitFailed, Die,
     OpenShm, OpenSession, PublishRound, SendFails, WritePubFile, Report,
     Close, SeeStart, Register, SeeStop, WriteSubFile, Unregister
<1>2. NextEntry(a)
  BY <1>1 DEF KillSibling, RemoveSibling
<1> QED BY <1>1, <1>2 DEF NextEntry, TypeOK
-----------------------------------------------------------------------------
(* An exec-failed child signals its siblings before it removes their names. *)

LEMMA SiblingsStep ==
  ASSUME TypeOK, Forked, SiblingsSignalled, [Next]_vars
  PROVE  SiblingsSignalled'
<1> SUFFICES ASSUME NEW a \in App, NEW b \in App, b < a, b < errIdx'[a]
             PROVE  proc'[b] # "none" /\ Dying(b)'
  BY DEF SiblingsSignalled
<1>1. CASE NewRun
  <2>1. errIdx'[a] = 0
    BY <1>1 DEF NewRun
  <2>2. b \in Nat
    BY AppIndex
  <2> QED BY <2>1, <2>2
<1>2. CASE CreateProcess
  <2>1. proc[b] # "none" /\ Dying(b)
    BY <1>2 DEF CreateProcess, SiblingsSignalled
  <2>2. b # idx
    BY <1>2, <2>1, AppIndex DEF CreateProcess, Forked
  <2>3. proc'[b] = proc[b] /\ signalled' = signalled
    BY <1>2, <2>2 DEF CreateProcess, TypeOK
  <2> QED BY <2>1, <2>3 DEF Dying
<1>4. CASE OtherStep /\ errIdx'[a] = errIdx[a]
  <2>1. proc[b] # "none" /\ Dying(b)
    BY <1>4 DEF SiblingsSignalled
  <2>2. Dying(b)'
    BY <1>4, <2>1, DyingStays
  <2>3. CASE RunStep
    BY <2>1, <2>2, <2>3 DEF RunStep, ForkFails, WriteStart, PollEntry,
       PollPass, WriteStop, WaitChild, Stats, KillChild, ReapChild, UnlinkShm,
       Sigterm, CtrlC, childVars, vars
  <2>4. ASSUME NEW c \in App, ChildStep(c) \/ Crash(c)
        PROVE  proc'[b] # "none"
    BY <2>1, <2>4, OnlyForksAdd
  <2> QED BY <1>4, <2>2, <2>3, <2>4 DEF OtherStep
<1>3. CASE OtherStep /\ errIdx'[a] # errIdx[a]
  <2>1. KillSibling(a) \/ RemoveSibling(a)
    <3>1. ~ RunStep
      BY <1>3 DEF RunStep, ForkFails, WriteStart, PollEntry, PollPass,
         WriteStop, WaitChild, Stats, KillChild, ReapChild, UnlinkShm, Sigterm,
         CtrlC, childVars, vars
    <3> QED BY <1>3, <3>1, ChildCounts DEF OtherStep
  <2>2. errIdx'[a] = errIdx[a] + 1 /\ errIdx[a] \in Nat
    BY <2>1 DEF KillSibling, RemoveSibling, NextEntry, TypeOK
  <2>3. proc'[b] = proc[b] /\ (b \in signalled => b \in signalled')
    BY <2>1 DEF KillSibling, RemoveSibling, Signalled
  <2>4. CASE b < errIdx[a]
    <3>1. proc[b] # "none" /\ Dying(b)
      BY <2>4 DEF SiblingsSignalled
    <3> QED BY <2>3, <3>1 DEF Dying
  <2>5. CASE ~ b < errIdx[a]
    <3>1. b = errIdx[a]
      <4>1. b \in Nat /\ b < errIdx[a] + 1
        BY <2>2, AppIndex
      <4> QED BY <2>2, <2>5, <4>1
    <3>2. KillSibling(a)
      <4>1. a \in Nat /\ b \in Nat
        BY AppIndex
      <4>2. ~ b \in a .. (2 * a - 1)
        BY <4>1
      <4> QED BY <2>1, <3>1, <4>2 DEF RemoveSibling
    <3>3. proc[b] # "none"
      BY <3>2 DEF KillSibling, Forked
    <3>4. proc[b] \in Live => b \in signalled'
      BY <3>1, <3>2 DEF KillSibling, Signalled
    <3>5. proc[b] \in Live \/ proc[b] \in Gone
      BY DEF TypeOK
    <3> QED BY <2>3, <3>3, <3>4, <3>5 DEF Dying
  <2> QED BY <2>4, <2>5
<1> QED BY <1>1, <1>2, <1>3, <1>4, StepKinds
-----------------------------------------------------------------------------
(* Names are removed, and objects made under removed names, only of those. *)

LEMMA RemovedIsMapped ==
  ASSUME TypeOK, [Next]_vars, NEW a \in App, linked[a], ~ linked'[a]
  PROVE  a \in shmVec'
<1>1. CASE UnlinkShm
  BY <1>1 DEF UnlinkShm, removeSharedMem
<1>2. CASE CreateProcess
  BY <1>2 DEF CreateProcess, createSheredMem, createSheredMemFails, shmVars,
     TypeOK
<1>3. CASE \/ ForkFails \/ WriteStart \/ PollEntry \/ PollPass \/ WriteStop
           \/ WaitChild \/ Stats \/ KillChild \/ ReapChild
           \/ Sigterm \/ CtrlC \/ NewRun \/ UNCHANGED vars
  BY <1>3 DEF ForkFails, WriteStart, PollEntry, PollPass, WriteStop, WaitChild,
     Stats, KillChild, ReapChild, Sigterm, CtrlC, NewRun, vars, shmVars
<1>4. ASSUME NEW b \in App, ChildStep(b) \/ Crash(b) PROVE a \in shmVec'
  <2>1. RemoveSibling(b)
    BY <1>4, ChildUnlinks
  <2> QED BY <2>1 DEF RemoveSibling, removeSharedMem, ctlVars
<1> QED BY <1>1, <1>2, <1>3, <1>4 DEF Next, CtlStep

\* A name is removed, and made anew, only of a child gone or dying.
LEMMA MappedLinkedStep ==
  ASSUME TypeOK, MappedBelow, SiblingsSignalled, MappedLinked, ChildrenReaped,
         [Next]_vars
  PROVE  MappedLinked'
<1> SUFFICES ASSUME NEW a \in App,
                    (a \in shmVec' /\ ~ linked'[a]) \/ fresh'[a] # NoObject
             PROVE  a \in shmVec' /\ Dying(a)'
  BY DEF MappedLinked
<1>1. CASE CreateProcess
  <2>1. idx \in App /\ idx \notin shmVec
    BY <1>1, AppIndex DEF CreateProcess, TypeOK, CtlExited, MappedBelow
  <2>2. fresh' = fresh /\ fresh[idx] = NoObject
    BY <1>1, <2>1 DEF CreateProcess, createSheredMem, createSheredMemFails,
       shmVars, MappedLinked
  <2>3. CASE a = idx
    BY <1>1, <2>1, <2>2, <2>3 DEF CreateProcess, createSheredMem, TypeOK
  <2>4. CASE a # idx
    <3>1. /\ linked'[a] = linked[a] /\ proc'[a] = proc[a]
          /\ signalled' = signalled /\ (a \in shmVec' <=> a \in shmVec)
      BY <1>1, <2>4 DEF CreateProcess, createSheredMem, createSheredMemFails,
         shmVars, TypeOK
    <3> QED BY <2>2, <3>1 DEF MappedLinked, Dying
  <2> QED BY <2>3, <2>4
<1>2. CASE NewRun
  BY <1>2 DEF NewRun
<1>3. CASE UnlinkShm
  <2>1. a \in shmVec /\ shmVec' = shmVec
    BY <1>3 DEF UnlinkShm, removeSharedMem, MappedLinked
  <2>2. Dying(a)'
    BY <1>3 DEF UnlinkShm, childVars, ChildrenReaped, Dying
  <2> QED BY <2>1, <2>2
<1>4. CASE RunStep /\ ~ UnlinkShm
  <2>1. UNCHANGED <<shmVec, linked, fresh>>
    BY <1>4 DEF RunStep, ForkFails, WriteStart, PollEntry, PollPass, WriteStop,
       WaitChild, Stats, KillChild, ReapChild, Sigterm, CtrlC, vars, ctlVars,
       shmVars
  <2>2. a \in shmVec /\ Dying(a)
    BY <2>1 DEF MappedLinked
  <2> QED BY <1>4, <2>1, <2>2, DyingStays DEF OtherStep
<1>5. ASSUME NEW b \in App, ChildStep(b) \/ Crash(b)
      PROVE  a \in shmVec' /\ Dying(a)'
  <2>1. UNCHANGED ctlVars
    BY <1>5, ChildLeavesCtl
  <2>2. a \in shmVec /\ Dying(a)
    <3>1. CASE fresh'[a] # NoObject /\ fresh[a] = NoObject
      <4>1. a \in shmVec /\ ~ linked[a]
        BY <1>5, <3>1, ChildMakesFresh
      <4> QED BY <4>1 DEF MappedLinked
    <3>2. CASE linked[a] /\ ~ linked'[a]
      <4>1. RemoveSibling(b)
        BY <1>5, <3>2, ChildUnlinks
      <4>2. a = errIdx[b] - b /\ a \in shmVec
        BY <3>2, <4>1 DEF RemoveSibling, removeSharedMem
      <4>3. a < b /\ a < errIdx[b]
        BY <4>1, <4>2, AppIndex DEF RemoveSibling
      <4> QED BY <4>2, <4>3 DEF SiblingsSignalled
    <3>3. CASE fresh[a] # NoObject \/ (a \in shmVec /\ ~ linked[a])
      BY <3>3 DEF MappedLinked
    <3> QED BY <2>1, <3>1, <3>2, <3>3 DEF ctlVars
  <2>3. OtherStep
    BY <1>5 DEF OtherStep
  <2> QED BY <2>1, <2>2, <2>3, DyingStays DEF ctlVars
<1> QED BY <1>1, <1>2, <1>3, <1>4, <1>5, StepKinds DEF OtherStep
-----------------------------------------------------------------------------
(* The invariant of the loops that wait, kill and remove. *)

LEMMA ShutdownInit == Init => Shutdown
BY AppIndex DEF Init, Shutdown, MappedBelow, ReapedBelow, RemovedBelow,
       SiblingsSignalled, MappedLinked, ChildrenReaped, ObjectsRemoved

\* What of it is about the places of run_tests' loops.
LoopsPassed ==
  /\ MappedBelow
  /\ ReapedBelow
  /\ RemovedBelow
  /\ ChildrenReaped
  /\ ObjectsRemoved

\* The loops of run_tests one by one; a child's step touches none of it.
LEMMA LoopsPassedStep ==
  ASSUME TypeOK, LoopsPassed, [Next]_vars
  PROVE  LoopsPassed'
<1> USE AppIndex DEF LoopsPassed
<1>1. CASE CreateProcess
  <2>1. idx \in App /\ ctl' \in {"spawn", "start"} /\ shmVec \subseteq App
    BY <1>1 DEF CreateProcess, Advance, TypeOK, CtlExited
  <2>3. shmVec' \subseteq shmVec \cup {idx}
    BY <1>1 DEF CreateProcess
  <2>5. MappedBelow'
    <3>1. \A a \in shmVec' : a < idx + 1
      BY <1>1, <2>1, <2>3 DEF CreateProcess, MappedBelow
    <3> QED BY <1>1, <3>1 DEF CreateProcess, Advance, MappedBelow
  <2> QED BY <2>1, <2>5 DEF ReapedBelow, RemovedBelow, ChildrenReaped,
             ObjectsRemoved
<1>2. CASE ForkFails
  BY <1>2 DEF ForkFails, childVars, shmVars, MappedBelow, ReapedBelow,
     RemovedBelow, ChildrenReaped, ObjectsRemoved, App
<1>3. CASE WriteStart \/ WriteStop
  BY <1>3 DEF WriteStart, WriteStop, Advance, childVars, MappedBelow,
     ReapedBelow, RemovedBelow, ChildrenReaped, ObjectsRemoved
<1>4. CASE PollEntry \/ PollPass
  BY <1>4 DEF PollEntry, PollPass, childVars, shmVars, MappedBelow,
     ReapedBelow, RemovedBelow, ChildrenReaped, ObjectsRemoved
<1>5. CASE WaitChild
  <2>1. idx \in App
    BY <1>5 DEF WaitChild, TypeOK, CtlExited
  <2>2. \A a \in App : a < idx + 1 => proc[a] \in Gone
    BY <1>5, <2>1 DEF WaitChild, ReapedBelow, App
  <2>3. ReapedBelow' /\ ChildrenReaped'
    BY <1>5, <2>1, <2>2 DEF WaitChild, Advance, childVars, ReapedBelow,
       ChildrenReaped, App
  <2>4. MappedBelow' /\ RemovedBelow' /\ ObjectsRemoved'
    BY <1>5 DEF WaitChild, Advance, childVars, shmVars, MappedBelow,
       RemovedBelow, ObjectsRemoved
  <2> QED BY <2>3, <2>4
<1>6. CASE Stats \/ Sigterm
  <2>1. ctl' = "unlink" => \A a \in App : ~ a < idx'
    BY <1>6 DEF Stats, Sigterm, CtlExited, App
  <2>2. /\ ctl' \in {"unlink", "aborted", "killed"}
        /\ UNCHANGED <<proc, shmVec, linked>>
    BY <1>6 DEF Stats, Sigterm, childVars, shmVars
  <2>3. RemovedBelow'
    BY <2>1, <2>2 DEF RemovedBelow, TypeOK
  <2>4. ctl' \in {"unlink", "aborted"} => \A a \in App : proc[a] \in Gone
    BY <1>6 DEF Stats, Sigterm, ChildrenReaped
  <2> QED BY <2>2, <2>3, <2>4 DEF MappedBelow, ReapedBelow, ChildrenReaped,
             ObjectsRemoved, TypeOK
<1>7. CASE CtrlC \/ KillChild
  BY <1>7 DEF CtrlC, KillChild, ctlVars, shmVars, MappedBelow, ReapedBelow,
     RemovedBelow, ChildrenReaped, ObjectsRemoved
<1>8. ASSUME NEW a \in App, ChildStep(a) \/ Crash(a) PROVE LoopsPassed'
  <2>1. UNCHANGED ctlVars
    BY <1>8, ChildLeavesCtl
  <2>2. \A b \in App : proc[b] \in Gone => b # a /\ proc'[b] \in Gone
    BY <1>8, ChildGone
  <2>3. MappedBelow' /\ ReapedBelow' /\ ChildrenReaped'
    BY <2>1, <2>2 DEF ctlVars, MappedBelow, ReapedBelow, ChildrenReaped
  <2>6. ObjectsRemoved'
    <3> SUFFICES ASSUME ctl \in {"done", "error"}, NEW b \in shmVec
                 PROVE  ~ linked'[b]
      BY <2>1 DEF ObjectsRemoved, ctlVars
    <3>1. proc[a] \in Gone
      BY DEF ChildrenReaped
    <3> QED BY <2>2, <3>1
  <2>7. RemovedBelow'
    <3> SUFFICES ASSUME ctl \in {"unlink", "cleanup"}
                 PROVE  FALSE
      BY <2>1 DEF RemovedBelow, ctlVars
    <3>1. proc[a] \in Gone
      BY DEF ChildrenReaped
    <3> QED BY <2>2, <3>1
  <2> QED BY <2>3, <2>6, <2>7
<1>9. CASE NewRun
  BY <1>9 DEF NewRun, MappedBelow, ReapedBelow, RemovedBelow, ChildrenReaped,
     ObjectsRemoved
<1>10. CASE UNCHANGED vars
  BY <1>10 DEF vars, ctlVars, childVars, shmVars, MappedBelow, ReapedBelow,
     RemovedBelow, ChildrenReaped, ObjectsRemoved
<1>11. CASE ReapChild
  <2>1. idx \in App
    BY <1>11 DEF ReapChild, TypeOK, CtlExited
  <2>2. \A a \in App : a < idx + 1 => proc[a] \in Gone
    BY <1>11, <2>1 DEF ReapChild, ReapedBelow, App
  <2>3. ReapedBelow' /\ ChildrenReaped'
    BY <1>11, <2>1, <2>2 DEF ReapChild, Advance, childVars, ReapedBelow,
       ChildrenReaped, App
  <2>4. UNCHANGED <<shmVec, linked>> /\ ctl' \in {"terminate", "cleanup"}
    BY <1>11 DEF ReapChild, Advance, shmVars
  <2>5. ctl' = "cleanup" => idx' = 0
    BY <1>11 DEF ReapChild, Advance
  <2>6. RemovedBelow'
    <3>1. \A a \in App : ~ a < 0
      BY DEF App
    <3> QED BY <2>4, <2>5, <3>1 DEF RemovedBelow, TypeOK
  <2>7. MappedBelow' /\ ObjectsRemoved'
    BY <2>4 DEF MappedBelow, ObjectsRemoved
  <2> QED BY <2>3, <2>6, <2>7
<1>12. CASE UnlinkShm
  <2>1. idx \in App /\ shmVec \subseteq App
    BY <1>12 DEF UnlinkShm, TypeOK, CtlExited
  <2>2. UNCHANGED <<proc, shmVec>>
    BY <1>12 DEF UnlinkShm, childVars
  <2>3. \A a \in shmVec : a < idx + 1 => ~ linked'[a]
    <3>1. \A a \in App : linked'[a] <=> linked[a] /\ a \notin {idx} \cap shmVec
      BY <1>12 DEF UnlinkShm, removeSharedMem
    <3>2. \A a \in App : a < idx + 1 => a < idx \/ a = idx
      BY <2>1 DEF App
    <3>3. \A a \in shmVec : a < idx => ~ linked[a]
      BY <1>12 DEF UnlinkShm, RemovedBelow
    <3> QED BY <2>1, <3>1, <3>2, <3>3
  <2>4. \A a \in App : proc[a] \in Gone
    BY <1>12 DEF UnlinkShm, ChildrenReaped
  <2>5. RemovedBelow' /\ ObjectsRemoved'
    BY <1>12, <2>1, <2>2, <2>3 DEF UnlinkShm, Advance, RemovedBelow,
       ObjectsRemoved, App
  <2>6. MappedBelow' /\ ReapedBelow' /\ ChildrenReaped'
    BY <1>12, <2>1, <2>2, <2>4 DEF UnlinkShm, Advance, MappedBelow,
       ReapedBelow, ChildrenReaped
  <2> QED BY <2>5, <2>6
<1> QED BY <1>1, <1>2, <1>3, <1>4, <1>5, <1>6, <1>7, <1>8, <1>9, <1>10, <1>11,
           <1>12 DEF Next, CtlStep

\* The loops and the error path together.
LEMMA ShutdownStep ==
  ASSUME TypeOK, Forked, Shutdown, [Next]_vars
  PROVE  Shutdown'
<1>1. LoopsPassed'
  BY LoopsPassedStep DEF Shutdown, LoopsPassed
<1>2. SiblingsSignalled'
  BY SiblingsStep DEF Shutdown
<1>3. MappedLinked'
  BY MappedLinkedStep DEF Shutdown
<1> QED BY <1>1, <1>2, <1>3 DEF Shutdown, LoopsPassed

(***************************************************************************)
(* The loops of run_tests that wait for children and remove objects have   *)
(* done so for every index they have passed, and nothing undoes it.        *)
(***************************************************************************)
THEOREM OrderlyShutdown == Spec => []Shutdown
BY ShutdownInit, ShutdownStep, TypeCorrect, ForkedInOrder, PTL DEF Spec

(***************************************************************************)
(* The result files are read, and the objects removed, when no child is    *)
(* left.                                                                   *)
(***************************************************************************)
THEOREM ResultsAfterReaping == Spec => []ChildrenReaped
BY OrderlyShutdown, PTL DEF Shutdown

(***************************************************************************)
(* An orderly exit leaves none of the objects run_tests had mapped behind. *)
(***************************************************************************)
THEOREM NothingLeftBehind == Spec => []ObjectsRemoved
BY OrderlyShutdown, PTL DEF Shutdown

\* What a removal, or an object made anew, says of its child.
LEMMA RemovalStep ==
  ASSUME TypeOK, MappedLinked', [Next]_vars, NEW a \in App,
         (linked[a] /\ ~ linked'[a]) \/ fresh'[a] # NoObject
  PROVE  Dying(a)'
<1>1. CASE fresh'[a] # NoObject
  BY <1>1 DEF MappedLinked
<1>2. CASE linked[a] /\ ~ linked'[a]
  BY <1>2, RemovedIsMapped DEF MappedLinked
<1> QED BY <1>1, <1>2

(***************************************************************************)
(* A name is removed only when its child is gone or about to die of a      *)
(* signal, in the three places that remove names (the end of run_tests,    *)
(* its error path, and the same path in a child whose exec failed, beside  *)
(* everything its siblings do meanwhile), and no other child ever works in *)
(* an object run_tests does not have.                                      *)
(***************************************************************************)
THEOREM RemovalAfterUse == Spec => NoRemovalInUse
<1>1. TypeOK /\ MappedLinked' /\ [Next]_vars
        => [\A a \in App : (linked[a] /\ ~ linked'[a]) \/ fresh'[a] # NoObject
                            => Dying(a)']_vars
  BY RemovalStep
<1>2. Spec => []MappedLinked
  BY OrderlyShutdown, PTL DEF Shutdown
<1> QED BY <1>1, <1>2, TypeCorrect, PTL DEF Spec, NoRemovalInUse
-----------------------------------------------------------------------------
LEMMA ReportStep ==
  ASSUME TypeOK, [Next]_vars,
         NEW p \in Pubs, Started(p), shm[p] = "Stop", ctl' \notin CtlExited
  PROVE  shm'[p] = "Stop"
<1> USE AppIndex DEF Started
<1>1. CASE WriteStart
  <2>1. idx # p
    BY <1>1 DEF WriteStart, TypeOK
  <2> QED BY <1>1, <2>1 DEF WriteStart, TypeOK
<1>2. CASE WriteStop
  <2>1. idx \in Subs => idx # p
    OBVIOUS
  <2> QED BY <1>2, <2>1 DEF WriteStop, TypeOK
<1>3. CASE \/ CreateProcess \/ ForkFails \/ PollEntry \/ PollPass \/ WaitChild
           \/ Stats
  BY <1>3 DEF CreateProcess, ForkFails, PollEntry, PollPass, WaitChild, Stats,
     shmVars
<1>5. CASE \/ KillChild \/ ReapChild \/ UnlinkShm \/ Sigterm \/ CtrlC
           \/ NewRun \/ UNCHANGED vars
  BY <1>5 DEF KillChild, ReapChild, UnlinkShm, Sigterm, CtrlC, NewRun, vars,
     removeSharedMem, shmVars, CtlExited
<1>4. ASSUME NEW b \in App, ChildStep(b) \/ Crash(b) PROVE shm'[p] = "Stop"
  <2>1. CASE b # p
    <3>1. shm'[p] = shm[p]
      BY <1>4, <2>1, ChildShmFrame
    <3> QED BY <3>1
  <2>2. CASE b = p /\ OpenShm(p)
    BY <2>2 DEF OpenShm, createSheredMem, createSheredMemFails, shmVars, TypeOK
  <2>3. CASE b = p /\ PubStep(p)
    BY <2>3 DEF PubStep, PublishRound, SendFails, WritePubFile, Report, Write,
       Close, shmVars, TypeOK
  <2>4. CASE b = p /\ ~ OpenShm(p) /\ ~ PubStep(p)
    BY <1>4, <2>4 DEF ChildStep, Crash, Exec, ExecFails, KillSibling,
       RemoveSibling, removeSharedMem, ExitFailed, Die, OpenSession, shmVars
  <2> QED BY <2>1, <2>2, <2>3, <2>4
<1> QED BY <1>1, <1>2, <1>3, <1>4, <1>5 DEF Next, CtlStep

(***************************************************************************)
(* A pass over shm_vec may read the objects one at a time: a "Stop" that   *)
(* is there after "Start" was written stays until run_tests leaves.        *)
(***************************************************************************)
THEOREM ReportPersists == Spec => ReportStays
<1>1. TypeOK /\ [Next]_vars
        => [\A p \in Pubs :
              Started(p) /\ shm[p] = "Stop" /\ ctl' \notin CtlExited
                => shm'[p] = "Stop"]_vars
  BY ReportStep
<1> QED BY <1>1, TypeCorrect, PTL DEF Spec, ReportStays
-----------------------------------------------------------------------------
(***************************************************************************)
(* BenchRun implements StopBarrier: the proof, step by step.  StopBarrier  *)
(* states no fairness, so this is all of the refinement.                   *)
(***************************************************************************)
-----------------------------------------------------------------------------
(* What the barrier sees of a step. *)

\* The children that leave, S, and what may become of them.
LEMMA LeaveStep ==
  ASSUME TypeOK, UNCHANGED <<run, Outcome, count>>, NEW S \in SUBSET App,
         \A b \in S : /\ proc[b] \in Live
                      /\ proc'[b] \in {"exited", "failed", "execfailed",
                                       "killed"}
                      /\ b \in Subs /\ proc'[b] = "exited" =>
                           proc[b] \in {"dump", "unregister"},
         \A b \in App \ S : proc'[b] = proc[b]
  PROVE  [Barrier!Next]_(Barrier!vars)
<1> DEFINE Alive    == {a \in App : proc[a] \in Live}
           Left     == {a \in App : proc[a] \in Gone \ {"none"}}
           Stopping == {s \in Subs : proc[s] \in {"dump", "unregister",
                                                  "exited"}}
           K        == {s \in S \cap Stopping : proc'[s] # "exited"}
<1>1. Alive' = Alive \ S /\ S \subseteq Alive
  BY DEF Live, Executing
<1>2. Left' = Left \cup S
  BY DEF Live, Executing, Gone
<1>3. Stopping' = Stopping \ K
  BY AppIndex DEF Live, Executing
<1>4. K \in SUBSET (S \cap Stopping)
  OBVIOUS
<1>5. CASE S = {}
  <2>1. Alive' = Alive /\ Left' = Left /\ Stopping' = Stopping
    BY <1>1, <1>2, <1>3, <1>5
  <2> QED BY <2>1 DEF Barrier!vars
<1>6. CASE S # {}
  <2>1. Barrier!Leave(S)
    BY <1>1, <1>2, <1>3, <1>4, <1>6 DEF Barrier!Leave
  <2> QED BY <1>1, <2>1 DEF Barrier!Next
<1> QED BY <1>5, <1>6

\* A step that is none of the barrier's.
LEMMA StutterStep ==
  ASSUME TypeOK, UNCHANGED <<run, Outcome, count>>,
         \A b \in App : \/ proc'[b] = proc[b]
                        \/ /\ proc[b] \in Live \ {"dump", "unregister"}
                           /\ proc'[b] \in Live \ {"dump", "unregister"}
                        \/ /\ proc[b] \in {"dump", "unregister"}
                           /\ proc'[b] \in {"dump", "unregister"}
  PROVE  UNCHANGED Barrier!vars
<1> DEFINE Alive    == {a \in App : proc[a] \in Live}
           Left     == {a \in App : proc[a] \in Gone \ {"none"}}
           Stopping == {s \in Subs : proc[s] \in {"dump", "unregister",
                                                  "exited"}}
<1>1. Alive' = Alive
  BY DEF Live, Executing
<1>2. Left' = Left
  BY DEF Live, Executing, Gone
<1>3. Stopping' = Stopping
  BY AppIndex DEF Live, Executing
<1> QED BY <1>1, <1>2, <1>3 DEF Barrier!vars

\* run_tests forks a child.
LEMMA EnterStep ==
  ASSUME TypeOK, Forked, CreateProcess
  PROVE  Barrier!Next
<1> DEFINE Alive    == {a \in App : proc[a] \in Live}
           Left     == {a \in App : proc[a] \in Gone \ {"none"}}
           Stopping == {s \in Subs : proc[s] \in {"dump", "unregister",
                                                  "exited"}}
<1>1. /\ idx \in App /\ idx \in Nat /\ proc[idx] = "none"
      /\ \A a \in App : proc'[a] = IF a = idx THEN "forked" ELSE proc[a]
  BY AppIndex DEF CreateProcess, TypeOK, CtlExited, Forked
<1>2. Alive' = Alive \cup {idx}
  BY <1>1 DEF Live
<1>3. Left' = Left
  BY <1>1 DEF Gone
<1>4. Stopping' = Stopping
  BY <1>1, AppIndex
<1>5. idx \notin Alive \cup Left
  BY <1>1 DEF Live, Executing
<1>6. Outcome = "running" /\ Outcome' = "running"
  BY DEF CreateProcess, Advance, Outcome
<1>7. UNCHANGED <<run, count>>
  BY DEF CreateProcess
<1>8. PICK c \in App : c = idx
  BY <1>1
<1>9. Barrier!Enter(c) /\ c \in Barrier!Child
  BY <1>2, <1>3, <1>4, <1>5, <1>6, <1>7, <1>8
  DEF Barrier!Enter, Barrier!Child, Subs
<1> QED BY <1>9 DEF Barrier!Next

\* The last round of a publisher; the others show nothing.
LEMMA PublishStep ==
  ASSUME TypeOK, NEW p \in Pubs, PublishRound(p)
  PROVE  [Barrier!Next]_(Barrier!vars)
<1> DEFINE Published == {q \in Pubs : count[q] = Loops}
<1>1. UNCHANGED <<run, ctl, proc>>
  BY DEF PublishRound, ctlVars
<1>2. Outcome' = Outcome
  BY <1>1 DEF Outcome
<1>3. /\ p \in App /\ proc[p] \in Live /\ count[p] # Loops
      /\ count'[p] = count[p] + 1
      /\ \A q \in Pubs : q # p => count'[q] = count[q]
  <2>1. p \in App /\ \A q \in Pubs : q \in App /\ q \notin Listening
    BY AppIndex DEF Listening
  <2>2. proc[p] \in Live
    BY DEF PublishRound, Live, Executing
  <2>3. count[p] \in Nat /\ count[p] < Loops
    BY <2>1 DEF TypeOK, PublishRound
  <2>4. PICK R \in SUBSET Listening :
          count' = [onReceive(R) EXCEPT ![p] = @ + 1]
    BY DEF PublishRound
  <2>5. /\ count'[p] = count[p] + 1
        /\ \A q \in Pubs : q # p => count'[q] = count[q]
    BY <2>1, <2>4 DEF onReceive
  <2>6. count[p] # Loops
    BY <2>3, LoopsAssumption
  <2> QED BY <2>1, <2>2, <2>5, <2>6
<1>4. CASE count'[p] = Loops
  <2>1. Published' = Published \cup {p}
    BY <1>3, <1>4
  <2>2. Barrier!Publish(p)
    BY <1>1, <1>2, <1>3, <2>1 DEF Barrier!Publish
  <2> QED BY <2>2 DEF Barrier!Next
<1>5. CASE count'[p] # Loops
  <2>1. Published' = Published
    BY <1>3, <1>5
  <2> QED BY <1>1, <1>2, <2>1 DEF Barrier!vars
<1> QED BY <1>4, <1>5

\* A subscriber finds "Stop" in its object.
LEMMA StopStep ==
  ASSUME TypeOK, ReplacedTrue, FreshSilent, NEW s \in Subs, SeeStop(s)
  PROVE  Barrier!Next
<1> DEFINE Alive    == {a \in App : proc[a] \in Live}
           Left     == {a \in App : proc[a] \in Gone \ {"none"}}
           Stopping == {t \in Subs : proc[t] \in {"dump", "unregister",
                                                  "exited"}}
<1>1. /\ s \in App /\ proc[s] = "listen"
      /\ \A a \in App : proc'[a] = IF a = s THEN "dump" ELSE proc[a]
  BY AppIndex DEF SeeStop, Goto, TypeOK
<1>2. Alive' = Alive /\ s \in Alive
  BY <1>1 DEF Live, Executing
<1>3. Left' = Left
  BY <1>1 DEF Gone
<1>4. Stopping' = Stopping \cup {s} /\ s \notin Stopping
  BY <1>1, AppIndex
<1>5. {p \in Pubs : count[p] = Loops} = Pubs
  <2>1. shm[s] = "Stop"
    BY DEF SeeStop, Mapped, FreshSilent, NoObject
  <2> QED BY <2>1 DEF SeeStop, ReplacedTrue, AllPublished
<1>6. UNCHANGED <<run, ctl, count>>
  BY DEF SeeStop, ctlVars
<1>7. Outcome' = Outcome
  BY <1>6 DEF Outcome
<1>8. Barrier!Stop(s)
  BY <1>2, <1>3, <1>4, <1>5, <1>6, <1>7 DEF Barrier!Stop
<1> QED BY <1>8 DEF Barrier!Next

\* run_tests has waited for the last child.
LEMMA CollectStep ==
  ASSUME TypeOK, Forked, PolledTrue, ReapedBelow, WaitChild
  PROVE  [Barrier!Next]_(Barrier!vars)
<1>1. UNCHANGED <<run, proc, count>>
  BY DEF WaitChild, childVars
<1>2. CASE ctl' = ctl
  <2>1. Outcome' = Outcome
    BY <1>2 DEF Outcome
  <2> QED BY <1>1, <2>1 DEF Barrier!vars
<1>3. CASE ctl' # ctl
  <2>1. idx \in App /\ ctl = "wait" /\ ctl' = "stats"
        /\ ~ idx + 1 < MAX_PROCESS
    BY <1>3 DEF WaitChild, Advance, TypeOK, CtlExited
  <2>2. \A a \in App : a < idx \/ a = idx
    BY <2>1, ProcessAssumption DEF App
  <2>3. \A a \in App : proc[a] \in Gone \ {"none"}
    BY <2>1, <2>2 DEF WaitChild, ReapedBelow, Forked
  <2>4. {a \in App : proc[a] \in Gone \ {"none"}} = Barrier!Child
    BY <2>3, AppIndex DEF Barrier!Child, Subs
  <2>5. {p \in Pubs : count[p] = Loops} = Pubs
    BY <2>1 DEF PolledTrue, AllPublished
  <2>6. Outcome = "running" /\ Outcome' = "collected"
    BY <2>1 DEF Outcome
  <2>7. Barrier!Collect
    BY <1>1, <2>4, <2>5, <2>6 DEF Barrier!Collect
  <2> QED BY <2>7 DEF Barrier!Next
<1> QED BY <1>2, <1>3

\* run_tests leaves other than by its statistics: an error or a signal.
LEMMA GiveUpStep ==
  ASSUME UNCHANGED <<run, proc, count>>,
         ctl \notin CtlExited, ctl' \in {"error", "killed"}
  PROVE  Barrier!Next
<1>1. Outcome # "givenUp" /\ Outcome' = "givenUp"
  BY DEF Outcome, CtlExited
<1>2. Barrier!GiveUp
  BY <1>1 DEF Barrier!GiveUp
<1> QED BY <1>2 DEF Barrier!Next

\* The next run starts from nothing, but for the shared memory.
LEMMA NewRunStep ==
  ASSUME TypeOK, NewRun
  PROVE  Barrier!Next
<1>1. {a \in App : proc[a] \in Live} = {}
  BY DEF NewRun, Gone, Live, Executing
<1>2. {a \in App : proc[a] \in Live}' = {}
  BY DEF NewRun, Live, Executing
<1>3. {a \in App : proc[a] \in Gone \ {"none"}}' = {}
  BY DEF NewRun
<1>4. {s \in Subs : proc[s] \in {"dump", "unregister", "exited"}}' = {}
  BY AppIndex DEF NewRun
<1>5. {p \in Pubs : count[p] = Loops}' = {}
  BY AppIndex, LoopsAssumption DEF NewRun
<1>6. Outcome # "running" /\ Outcome' = "running"
  BY DEF NewRun, Outcome, CtlExited
<1>7. run < MaxRuns /\ run' = run + 1
  BY DEF NewRun
<1>8. Barrier!NewRun
  BY <1>1, <1>2, <1>3, <1>4, <1>5, <1>6, <1>7 DEF Barrier!NewRun
<1> QED BY <1>8 DEF Barrier!Next
-----------------------------------------------------------------------------
LEMMA BarrierInit == Init => Barrier!Init
BY LoopsAssumption, AppIndex
DEF Init, Barrier!Init, Outcome, Live, Executing

LEMMA ChildBarrierStep ==
  ASSUME TypeOK, StopKnowledge, NEW a \in App, ChildStep(a) \/ Crash(a)
  PROVE  [Barrier!Next]_(Barrier!vars)
<1>1. UNCHANGED ctlVars
  BY ChildLeavesCtl
<1>2. UNCHANGED <<run, Outcome>>
  BY <1>1 DEF ctlVars, Outcome
<1>3. CASE a \in Pubs /\ PublishRound(a)
  BY <1>3, PublishStep
<1>4. CASE a \in Subs /\ SeeStop(a)
  BY <1>4, StopStep DEF StopKnowledge
<1>6. CASE /\ proc[a] \in Live
           /\ proc'[a] \in {"exited", "failed", "execfailed", "killed"}
           /\ a \in Subs /\ proc'[a] = "exited" =>
                proc[a] \in {"dump", "unregister"}
           /\ UNCHANGED count
           /\ \A b \in App \ {a} : proc'[b] = proc[b]
  <2>1. {a} \in SUBSET App
    OBVIOUS
  <2>2. UNCHANGED <<run, Outcome, count>>
    BY <1>2, <1>6
  <2> QED BY <1>6, <2>1, <2>2, LeaveStep
<1>7. CASE /\ \/ /\ proc[a] \in Live \ {"dump", "unregister"}
                 /\ proc'[a] \in Live \ {"dump", "unregister"}
              \/ /\ proc[a] \in {"dump", "unregister"}
                 /\ proc'[a] \in {"dump", "unregister"}
           /\ UNCHANGED count
           /\ \A b \in App \ {a} : proc'[b] = proc[b]
  <2>1. UNCHANGED <<run, Outcome, count>>
    BY <1>2, <1>7
  <2> QED BY <1>7, <2>1, StutterStep
<1>8. CASE Exec(a) \/ OpenShm(a) \/ OpenSession(a)
  BY <1>6, <1>7, <1>8, AppIndex DEF Exec, OpenShm, OpenSession, Goto, TypeOK,
     Live, Executing
<1>11. CASE ExecFails(a) \/ ExitFailed(a) \/ Die(a) \/ Crash(a)
  BY <1>6, <1>7, <1>11, AppIndex DEF ExecFails, ExitFailed, Die, Crash, Goto,
     TypeOK, Live, Executing
<1>12. CASE KillSibling(a) \/ RemoveSibling(a)
  BY <1>7, <1>12, AppIndex DEF KillSibling, RemoveSibling, Live, Executing
<1>9. CASE a \in Pubs /\ PubStep(a) /\ ~ PublishRound(a)
  BY <1>6, <1>7, <1>9, AppIndex DEF PubStep, SendFails, WritePubFile, Report,
     Close, Goto, TypeOK, Live, Executing
<1>10. CASE a \in Subs /\ SubStep(a) /\ ~ SeeStop(a)
  BY <1>6, <1>7, <1>10 DEF SubStep, SeeStart, Register, WriteSubFile,
     Unregister, Goto, TypeOK, Live, Executing
<1> QED BY <1>3, <1>4, <1>8, <1>9, <1>10, <1>11, <1>12 DEF ChildStep

LEMMA BarrierStep ==
  ASSUME TypeOK, Forked, StopKnowledge, Shutdown, [Next]_vars
  PROVE  [Barrier!Next]_(Barrier!vars)
<1>1. CASE CreateProcess
  BY <1>1, EnterStep
<1>2. CASE \/ ForkFails \/ WriteStart \/ PollEntry \/ PollPass \/ WriteStop
           \/ Stats \/ KillChild \/ ReapChild \/ CtrlC
  <2>1. UNCHANGED <<run, proc, count>>
    BY <1>2 DEF ForkFails, WriteStart, PollEntry, PollPass, WriteStop, Stats,
       KillChild, ReapChild, CtrlC, ctlVars, childVars
  <2>2. Outcome' = Outcome
    BY <1>2 DEF ForkFails, WriteStart, PollEntry, PollPass, WriteStop, Stats,
       KillChild, ReapChild, CtrlC, ctlVars, Advance, Outcome
  <2> QED BY <2>1, <2>2 DEF Barrier!vars
<1>3. CASE WaitChild
  BY <1>3, CollectStep DEF StopKnowledge, Shutdown
<1>5. CASE UnlinkShm
  <2>1. UNCHANGED <<run, proc, count>>
    BY <1>5 DEF UnlinkShm, childVars
  <2>2. CASE ctl' = "error"
    <3>1. ctl \notin CtlExited
      BY <1>5 DEF UnlinkShm, CtlExited
    <3> QED BY <2>1, <2>2, <3>1, GiveUpStep
  <2>3. CASE ctl' # "error"
    <3>1. Outcome' = Outcome
      BY <1>5, <2>3 DEF UnlinkShm, Advance, Outcome
    <3> QED BY <2>1, <3>1 DEF Barrier!vars
  <2> QED BY <2>2, <2>3
<1>6. CASE Sigterm
  BY <1>6, GiveUpStep DEF Sigterm, childVars
<1>8. ASSUME NEW a \in App, ChildStep(a) \/ Crash(a)
      PROVE  [Barrier!Next]_(Barrier!vars)
  BY <1>8, ChildBarrierStep
<1>9. CASE NewRun
  BY <1>9, NewRunStep
<1>10. CASE UNCHANGED vars
  BY <1>10 DEF vars, ctlVars, childVars, Barrier!vars, Outcome
<1> QED BY <1>1, <1>2, <1>3, <1>5, <1>6, <1>8, <1>9, <1>10 DEF Next, CtlStep

(***************************************************************************)
(* The benchmark run is a barrier, for every even number of children,      *)
(* every number of rounds and runs and every set of faults: children enter *)
(* once and leave for good, a subscriber stops when all the publishers     *)
(* have published, and the results are collected when besides no child is  *)
(* left, whatever earlier runs left in the shared memory.                  *)
(***************************************************************************)
THEOREM BarrierImplemented == Spec => BarrierSpec
<1>1. Spec => Barrier!Init
  BY BarrierInit DEF Spec
<1>2. Spec => [][Barrier!Next]_(Barrier!vars)
  BY BarrierStep, TypeCorrect, ForkedInOrder, StopKnown, OrderlyShutdown, PTL
  DEF Spec
<1> QED BY <1>1, <1>2 DEF BarrierSpec, Barrier!Spec
=============================================================================
