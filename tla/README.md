# Verification of up-zenoh-example-cpp

TLA+ models of the example and benchmark programs of this repository, the TLC
configurations that check them on small instances, and TLAPS proofs about each of
them for every value of their constants. Paths below are relative to `src/`.

    tlc -workers 2 -config MCBenchRun_two.cfg MCBenchRun.tla
    tlapm BenchRunProofs.tla

## The system

The repository holds three groups of programs over the uProtocol client library
for Zenoh (`up-client-zenoh-cpp`, not part of the repository):

| Component | State it keeps | Operations | Talks to |
|---|---|---|---|
| `run_tests` (`benchmarks/src/run_tests.cpp`) | `child_pids`, `shm_vec`, the polling count, `terminate` | fork/exec of `max_process` children, "Start", polling, "Stop", `waitpid`, statistics, removal of the shared memory, error path, signals | children through one shared-memory object each; result files |
| `pub_test` (`benchmarks/src/pub_test.cpp`) | rounds published, durations | open object, open session, publish, write file, report "Stop" | its object, the transport, its file |
| `sub_test` (`benchmarks/src/sub_tests.cpp`) | listener (durations, counters) | wait for "Start", register, wait for "Stop", write file, unregister | its object, the transport (callbacks), its file |
| shared memory (`benchmarks/src/utils.h` 135-162) | named objects with one C string, which outlive the processes | `createSheredMem`, `removeSharedMem` | - |
| result directories (`benchmarks/src/filesys.h`, `run_tests.cpp` 86-116) | directories named after the time | make, find the newest, prune, write and read samples | - |
| statistics and text conversions (`benchmarks/src/utils.h`) | none | percentiles, median, kurtosis, hex strings, `split`, server lists | - |
| `benc`, `start_time` (`benchmarks/src/main.cpp`, `sub.h`, `pub.h`, `start_time.cpp`) | durations | sequential measuring loops | the transport |
| `main_pub`, `main_sub` (`pubsub/`) | static counter, `gTerminate`; listener | three messages a second; callback by entity id | each other through Zenoh |
| `main_rpc_client`, `main_rpc_server` (`rpc/`) | `gTerminate`; listener | one call a second; response from a callback | each other through Zenoh |

What is hard about it:

- **The benchmark run is a protocol over unsynchronised shared memory.** Two
  processes write the same string; readers poll; the objects are opened without
  truncation under names every run uses, so that a run that was killed, or that
  aborted in its statistics, hands its last word to the next run.
- **Many things can fail, and hardly any failure is reported.** Nobody looks at
  the results of `createSheredMem` and `writeVecToFile`; a child that fails says
  nothing to `run_tests`; a failed `execvp` lets a child run its parent's error
  path.
- **Signals.** SIGTERM ends a process inside its handler; SIGINT sets a flag
  that only some of the programs look at. A signal acts some time after it was
  sent, and only a parent can wait until it has.
- **Messages are lost and reordered, callbacks overlap**, and a response may
  come after the time to live of its call.

What makes each part correct: a subscriber shuts down only when all publishers of
*its* run have published everything; results are read and objects removed only
when no child is left; nothing is left behind by an orderly exit; runs end, or
the reason they do not is a named one; topics stay in step and are read as what
they were published; each call gets its own answer or none; Ctrl+C ends the
sample programs. `PROJECT.json` lists, under "hazards", each place where one of
these is at risk, with the properties that cover it or the reason none does yet.

## The modules

| Module | Part of the system | Composes or implements |
|---|---|---|
| `BenchRun` | `run_tests`, `pub_test`, `sub_test`, shared memory | the three programs together |
| `StopBarrier` | what a benchmark run promises | abstract |
| `BenchRunRefinement` | | `BenchRun` implements `StopBarrier` |
| `BenchRunProofs` | | theorems about `BenchRun`, and that it implements `StopBarrier` |
| `SubListener` | the listeners of `sub_test` beside its `main` | refines one step of `BenchRun` in detail |
| `ResultDirs` | directories and files of results over several runs | |
| `Stats`, `Text` | statistics; payloads, hex strings, lists of pipes (operators) | |
| `Utils` | `Stats` and `Text` over bounded inputs | extends both |
| `Measure` | `benc` and `start_time` | |
| `PubSub` | `main_pub` and `main_sub` | the two programs together |
| `Rpc` | `main_rpc_client` and `main_rpc_server` | the two programs together |
| `RemoteCall` | what a client of a remote procedure is promised | abstract |
| `RpcRefinement` | | `Rpc` implements `RemoteCall` |

The modules `MC...` are the instances for TLC. `SubListenerProofs`,
`ResultDirsProofs`, `UtilsProofs`, `MeasureProofs`, `PubSubProofs` and `RpcProofs`
hold the theorems about the module each is named after (`RpcProofs` those about
`RpcRefinement` too), `TextProofs` those about `Utils` that speak of texts; see
"Proofs".

### BenchRun - run_tests, pub_test, sub_test and their shared memory

One module, because the three programs make sense only together.

| Variable | In the code |
|---|---|
| `ctl`, `idx` | the place of `run_tests` in `main` and the index of the loop it is in |
| `shmVec` | `shm_vec`: the children whose object is mapped |
| `stopSeen` | the publishers counted in the current polling pass (`stop_counter`) |
| `terminate` | `terminate`, the flag of `signalHandler` in `utils.h` |
| `proc[a]` | the place of child `a` in its `main`, or how it ended |
| `count[a]`, `file[a]` | rounds published or samples taken; samples in the result file |
| `signalled` | the children with a signal pending that will end them |
| `errIdx[a]` | the index of a child whose exec failed in the error path, which it runs on its copy of `child_pids` and `shm_vec` |
| `shm[a]`, `linked[a]` | content of the object `run_tests` has (or would) map; whether its name exists |
| `fresh[a]` | content of the object a child has made itself, because the name of the other had been removed |

There is one action per step another process could observe: `CreateProcess` (fork,
then the parent's `createSheredMem`), `WriteStart`, `PollEntry` and `PollPass`
(the polling pass reads one object per step and starts to count anew),
`WriteStop`, `WaitChild`, `Stats`, `UnlinkShm`; the error path of a failed
fork, `ForkFails`, then `KillChild` and `ReapChild` for each child, then
`UnlinkShm`; the same path in a child whose exec failed, `ExecFails`,
`KillSibling`, `RemoveSibling`, `ExitFailed`; the signals `Sigterm` and `CtrlC`
and their effect on a child, `Die`; for the children `Exec`, `OpenShm`,
`OpenSession`, then `PublishRound`,
`SendFails`, `WritePubFile`, `Report`, `Close` for a publisher and `SeeStart`,
`Register`, `SeeStop`, `WriteSubFile`, `Unregister` for a subscriber; `Crash`.
`NewRun` starts `run_tests` again over whatever the last run left.

Abstractions, each of which is also a comment in the module:

- `memcpy` of a word is one step. A half-written word equals neither word, and
  no reader distinguishes it from "neither".
- A publisher sends to one URI; a round over several URIs is one step of the
  same kind. A round reaches any subset of the listening subscribers: Zenoh
  gives no guarantee the code relies on.
- The content of payloads and the values of samples are left out; the number of
  samples is kept because `getStats` depends on it.
- A new run starts only when no child of the one before is left, and
  `MAX_PROCESS` is even, as it is in the code (`ProcessAssumption`).

Signals are asynchronous: `kill` and Ctrl+C put a child into `signalled`, and it
goes on until `Die`. `run_tests` waits for each child it kills (`ReapChild`). A child
whose exec failed runs the same lines, but the siblings are not its children, so
that `waitpid` returns at once (`ECHILD`): it removes names while the siblings are
still running, one entry at a time, and a sibling that has not opened its object yet
makes it anew (`fresh`), after which it and `run_tests` talk through different
objects. That a signal is sent to a process that is gone and whose number another
process has got meanwhile is left out.

### StopBarrier and BenchRunRefinement

`StopBarrier` says what all this is for, without shared memory, polling or
signals: children enter a run once and leave for good, a subscriber stops only
when all publishers have published, results are collected only when besides all
children have left, and the next run begins only when nobody is left of the last.
`BenchRunRefinement` maps `BenchRun` to it: `alive` and `left` are the children
whose process runs or is gone, `published` the publishers whose count has reached
the number of rounds, `stopping` the subscribers past their "Stop", and the
outcome depends on the place of `run_tests` alone. Every step of the programs is
a step of the barrier or changes none of these.

### SubListener - callbacks beside main in sub_test

`BenchRun` has a callback as one step. Here it is five (`Deliver`, `PushBack`,
`Count`, `AddSize`, `Account`, between which another thread may run), beside `main`,
which registers its listeners one by one, reads the two figures it prints of each
(`Dump`, then `DumpSize`: since C++17, which `std::filesystem` requires, the
operands of `<<` are evaluated from left to right), tests for samples (`TestSize`) and writes them out (`Write`, which notes in `torn` when
the vector may have moved under the loop), unregisters them, and deletes the
transport, whose destructor waits for callbacks. A listener's URI is picked at
random, as in the code, so two may share one and a URI have none. `atStop` is
history: the samples there when "Stop" was seen. Since every access to the figures
is a step, the figures printed may be of different moments, and torn; `FiguresPrinted`
says how far they may be apart. After a failed `unregisterListener` the code returns
with listeners registered; the model ends there (`leaked`), and what a callback does
then is listed as a hazard without a property.

### ResultDirs - where the samples go

`run_tests` names a directory after the time (`MakeDir`; names are integers in
the order of the strings), lists and prunes (`ListDirs`, `RemoveDir`, one
directory at a time) and forks; each child takes the last name there is when it
starts (`getWorkingDir`) and writes its file when it ends; `ReadFiles` reads what
is in the directory that was named. Any number of directories may be there from
before. Runs overlap freely and can be killed, the clock can be set, a directory
may resist removal. `create_directory` may fail: the code catches the exception
(`run_tests.cpp` 104-106) and goes on without its directory (`unmade`), so that the
children take an older one, or that of a later run, or crash on an empty list, and
`run_tests` ends with an exception when it reads a directory that is not there. 8
and 5 of the code are the constants `MaxDirs` and `Removed`.

### Stats, Text and Utils

Operators, named like the functions. Samples are integers and percentiles
hundredths, so that interpolation is exact; an optional is a set of at most one
value; a text is a sequence of characters. What `std::sort` leaves at a place is
stated by rank (`Sorted`): the value with fewer smaller ones than the place's
number and at least as many that are no larger. What the code does in loops over texts
are recursive functions (`split`, `Number`, `Decimal`, `getAllTypeKeys`); the
properties do not speak of loops but of places: `SplitIntoRuns` of the places
where a run without separators starts (`Starts`), in ascending order (`InOrder`).
`Utils` feeds them with every input up
to a bound: each state is one vector of samples, text or string of bytes.

### Measure - benc and start_time

One behaviour per choice of arguments. `at`, `i` and `u` are the place in the
program and the loop indices, `text` the length of the string stream, `samples`
the number of durations of each kind of call, `rows` what has been printed.
`size_t` has its width (`SizeMod`): `msg_size - len` wraps when the text is
longer than the message, and asks for more memory than there is (`exhausted`);
`value()` of a statistic over less than two samples throws (`aborted`).

### PubSub - main_pub and main_sub

`pub`, `sub` are the places in the two programs, `pubTopic` and `subTopic` the
loop positions, `pubStop` and `subStop` the two `gTerminate`, `buf` the static
buffers in which `getTime`, `getRandom` and `getCounter` make their values (the
counter lives in its own), `registered` the topics with a listener, `wire` the
messages under way, with their URI, size and value, `shown` the last message shown
of each topic. `made` and `sendFailed` are history, and messages carry the
`round` they were made in, to state properties. The transport delivers in any
order and drops (`Lose`). `connect`, `send`, `registerListener` and
`unregisterListener` fail if `Faults` says so.

### Rpc - main_rpc_client and main_rpc_server

`call` is the number of the current call, which stands for its request id;
`future` the future of that call; `requests`, `handling` and `replies` the
messages under way and the callbacks that are running; `served` is history, the
calls the listener was called for. A callback starts (`Receive`) and responds
(`Respond`) in two steps, so callbacks overlap with each other and with the
server's shutdown. `Fulfil`, `TtlExpires` and `Lose` are the library and the
network, modelled from how the client uses them: the response that carries the
request's id fulfils its future, a later one is dropped, and the time to live of
the call (`set_ttl(150)`) ends a wait with an error.

`RemoteCall` is the promise: one call at a time, every call ends, with an answer
only if the server was asked in this very call, and the server is asked once at
most per call. `RpcRefinement` maps to it with one operator, `Outcome`, what the
client shows of the current call.

## The runs

| Run | Instance | Question |
|---|---|---|
| `two` | 2 children, 3 rounds, 2 consecutive runs, every fault | Is the protocol right, also over what a first run leaves behind, and does every run end, named reasons aside? `TypeOK`, `StopAfterAllPublished`, `ChildrenReaped`, `ObjectsRemoved`, `NoRemovalInUse`, `ReportStays`, `BarrierSpec`, `Completion` |
| `four` | 4 children, 1 round, 1 run, failing fork and exec, crash | Does it count the publishers rightly, and what do children whose exec failed take from their siblings? `NoRemovalInUse`, `BarrierSpec` |
| `interrupt` | 2 children, only Ctrl+C | violated: `InterruptExits` |
| `exec` | 2 children, only a failing exec | violated: `CreationFailureExits` |
| `listener` | 2 URIs, 2 listeners, 2 rounds, failing register and unregister | What do callbacks during the dump and the shutdown spoil? `TypeOK`, `DumpKeeps`, `FiguresPrinted` |
| `dirs` | 3 overlapping runs of one child, up to 4 old directories, 4 kept and 3 removed, two things that go wrong | Does each run read its own results? `TypeOK`, `OwnResults`, `WorkingDirExists`, `DirsBounded` |
| `utils` | up to 6 samples of 4 values, texts of 5 characters of 3, 4 bytes of 4 values, 5 figures of one to five digits, up to 5 processes | Do the statistics hold by rank, and do texts survive the exchange? `PercentileByRank`, `RowWhole`, `SplitIntoRuns`, `UriSurvives`, `PayloadSurvives`, `ConnectsToAll` |
| `stats_kurtosis` | up to 4 samples | violated: `KurtosisShown` |
| `measure_args` | arguments around every boundary, every fault | Does a printed row stand for a whole measurement, and what ends a program? `TypeOK`, `RowsWhole`, `AbortsOnlyWhenFew`, `FillingFits` |
| `pubsub` | counter modulo 2, 2 rounds, a clock that moves, every fault | Do the topics stay in step, is each message shown as what was made, and does Ctrl+C end both? `TypeOK`, `RoundsInStep`, `WholeRounds`, `CounterTells`, `ShownWasMade`, `AllUnregistered`, `CtrlCEnds` |
| `rpc` | 3 calls, every fault | Is it a remote call, and does Ctrl+C end both programs though `result.wait()` has no timeout? `TypeOK`, `OwnAnswer`, `AnswersMatch`, `RemoteCallSpec`, `CtrlCEnds` |
| `rpc_time` | 2 calls, nothing fails | violated: `TimeShown` |

Why the bounds are enough. Two children are what the code has
(`run_tests.cpp`, `max_process`); four is the least number at which a count of
publishers differs from "one" and an error path has several siblings to deal with.
Two runs are enough for stale content, because a run leaves nothing behind but the
content and the existence of names, and the second run starts from every
combination the first can leave. Three rounds give a publisher two measured
samples, the least for statistics: with one publisher and fewer rounds every run
would abort in `Stats`. So does every run of `four`, whose one round gives none: its
subject is the order of forks, kills, removals and of the publishers' "Stop", and the
orderly end is that of `two`. The state spaces have 277,300 states (`two`), 1.6
million (`four`), 3.1 million (`listener`, whose URIs are interchangeable, by the
symmetry set `Symmetric`) and 3.5 million (`dirs`). In `SubListener` two listeners are one that is being dumped or unregistered
and one before or behind it, and two rounds a message before "Stop" and one after. In
`ResultDirs` the old directories make the first run prune already, and three runs
are the most that may prune beside each other when three are removed (five in the
code); `MaxFaults` bounds what goes wrong (a clock that is set, a kill, a failed
removal, a directory not made) to two. Each of the four reasons in `OwnResults` is
needed: leave one out and TLC finds a run that reads another's results or none. In `Measure`
the rounds, sizes and URIs are those around 0 and 1, and text lengths below, at
and above the message size. In `PubSub` the counter is one bit instead of eight:
two rounds wrap it and overwrite each buffer. In `Rpc` three calls let a late
response meet the next call and the one after it. `MaxRuns`, `Runs`, `Rounds`,
`MaxRounds` and `MaxCalls` only bound the exploration.

Deadlock is not checked: all programs end, and the benchmark run can also stand
still for ever, which is the subject of `Completion`.

**Fairness.** The operating system schedules every process and delivers the signals
sent to it (`WF_vars` of each process' steps, `Die` among them: all loops of the code wait by polling or in
`waitpid`, so an enabled step stays enabled or is replaced by another step of the
same process), and time passes (`WF_vars(TtlExpires)`). From these follows the
fairness `RemoteCall` asks for, that every call ends. No fault, signal, new
run, delivery or response is ever forced.

**Liveness of the benchmark run.** `Completion` says that every run ends, unless
an object could not be mapped, a publisher is gone or done without its "Stop" in
the object, or a subscriber was overtaken by "Stop" while it still waited for
"Start". Each of the three reasons is needed: leave one out and TLC finds a run
that hangs without it. The last two need no failure at all, because a publisher
does not wait for "Start": with few rounds its "Stop" is overwritten by
"Start", or a slow subscriber never sees its "Start".

### What the violated runs show

- `interrupt`: `signalHandler` announces "Got Ctrl+C. Exiting..." and that it
  sets a flag to stop the process (`utils.h` 274-287), but nothing in `run_tests`
  reads the flag. A Ctrl+C that comes when all the children have exec'd kills
  them, for exec has taken their handler away; in TLC's trace the publisher dies
  before it could write "Stop", and `run_tests` polls the objects for ever. (A
  child that has not exec'd yet only sets its copy of the flag and goes on;
  `InterruptExits` says nothing of such a run.)
- `exec`: when `execvp` fails, `createProcess` returns -1 *in the child*
  (`run_tests.cpp` 63-69), so the error path of `main` runs there, kills the
  siblings one by one and removes their objects, while `run_tests` itself goes on to
  poll for ever.
- `rpc_time`: the server's callback puts the time into `responsePayload` and
  then builds the message of `payload`, the request's own byte
  (`main_rpc_server.cpp` 75-93), so the client never has a time to show.

- `stats_kurtosis`: `getKurtosis` multiplies by `1 / size`, a division of integers
  and 0 (`utils.h` 417), so that the column "Kurtosis" shows -3 for any samples.

The first three are checked with nothing else going wrong, so that no other fault is behind
the violation.

## Proofs

Every theorem is proved for all values of the constants that satisfy the named
assumptions of its module (the `ASSUME`s beside the `CONSTANTS`); these say no
more than that numbers are numbers, that the URIs of `SubListener` are a finite
set that is not empty, that the number of children is even (`ProcessAssumption`),
that a directory limit leaves one standing, and that an `int` is narrower than
`size_t` (`LengthAssumption`). One theorem, `DirsBoundedHolds`, has a hypothesis
besides. Each inductive invariant was checked by TLC on a run's instance before
it was proved.

### BenchRun

`BenchRunProofs` proves, for every even number of children, every number of rounds
and runs and every set of faults (the four assumptions of `BenchRun` and
nothing else):

| Theorem | States |
|---|---|
| `TypeCorrect` | `[]TypeOK` |
| `StopWhenPublished` | `[]StopAfterAllPublished` |
| `ResultsAfterReaping` | `[]ChildrenReaped` |
| `NothingLeftBehind` | `[]ObjectsRemoved` |
| `RemovalAfterUse` | `NoRemovalInUse` |
| `ReportPersists` | `ReportStays` |

`StopAfterAllPublished` is not inductive: that a subscriber may shut down when it
reads "Stop" depends on who can have written that word. `StopKnowledge`
therefore follows the word back, one conjunct per station: a publisher that
reports, or whose "Stop" is in an object where "Start" was written before, has
published everything (`ReportTrue`); so has every publisher counted in the
current pass (`SeenTrue`); once `run_tests` has left the polling loop all have
(`PolledTrue`); and a subscriber past "Start" whose object holds anything else
can only have got it from there (`ReplacedTrue`), for in an object a subscriber has
made itself under a removed name nobody tells it anything (`FreshSilent`). The condition "where 'Start' was
written" (`Started`) is what makes stale content harmless. The step from "as many
as MAX_PROCESS / 2" to "all" is the lemma `AllPubsCounted`, which rests on the
cardinality of the set of publishers (`PubsCounted`, by a bijection with
`0 .. MAX_PROCESS \div 2 - 1`) and is where evenness is used. That nothing
published is ever unpublished within a run is `PublishedStays`.

`ResultsAfterReaping`, `NothingLeftBehind` and `RemovalAfterUse` rest on `Shutdown`:
at each index of the loops that map, wait, kill and remove, what lies below the
index has been dealt with (`MappedBelow`, `ReapedBelow`, `RemovedBelow`), also in
every child whose exec failed (`SiblingsSignalled`: below its index all siblings are
gone or dying); so a mapped object loses its name, and a child works in one of its
own, only when that child is gone or dying (`MappedLinked`). That a child's siblings
before it have all been forked is `Forked` (see below), and that a child never
comes out of dying is the lemma `DyingStays`. Nothing stronger holds: a dying
sibling can make its object anew after the name was removed. An orderly exit leaves
no name all the same, for `run_tests` removes names only when it has waited for all
children.

`ReportPersists` needs type correctness alone: a publisher that opens its object late
finds the one that exists, with what it holds, or makes another one, which
`run_tests` does not read, and `run_tests` passes over the entry with "Start" once.

### BenchRun implements StopBarrier

`BarrierImplemented` (`BarrierSpec`): a run of the three programs starts as a run
of the barrier does, and each step is one of the barrier's or changes nothing it
shows. `StopBarrier` states no fairness, so this is the whole refinement. There
is one lemma per step of the barrier (`EnterStep`, `PublishStep`, `StopStep`,
`LeaveStep`, `CollectStep`, `GiveUpStep`, `NewRunStep`) and one for the steps it
does not see. `StopKnowledge` gives that a subscriber stops after all have
published, `Shutdown` that results are collected when all have left, and one more
invariant, `Forked`, that a child is forked once in a run, in the order of the
indices: the children below the index of the forking loop are there, the others
are not, and after the loop all have been.

### SubListener

`DumpInvariant` carries `DumpKeepsHolds`, `FiguresPrintedHolds` and `TypeCorrect`. The samples are bounded only
because none is made without a message: `Conserved` adds what is under way to a
listener, in its callback's hands and sampled, against what was sent, by
cardinalities. `Figures` says how far the samples and the two figures may be apart,
by which of its five steps the callback has taken. `DumpInv` follows the dump: its place (`Place`), the samples at "Stop"
that are still there (`Kept`), and the figures printed whose samples are not out
yet (`InHand`), without which `FiguresPrinted` says nothing about the listener that
is being dumped.

### ResultDirs

`DirsInvariant` (nobody plans to remove the newest directory, `Newest`, and plans
exist only while pruning, `Phases`) gives `TypeCorrect` and `WorkingDirExistsHolds`:
once there is a directory, by whichever run, there is one, so that a child finds none
only when all runs so far failed to make theirs and none was there before.

`DirsBoundedHolds` says `Spec /\ []FewPrune => []DirsBounded`, where `FewPrune`
says that no more runs than one removes directories (`Removed`, five in the code)
are at "prune" at a time. Two runs that list the same directories plan to remove
the same ones, so a bound on the directories must count what several plans
remove together, whichever of them are carried out first: `Pruned` states the
bound for every set of pruning runs, with the directories outside all of their
plans. The lemma `LowestAreMany` counts the lowest names.
`DirsBoundedForFewRuns` is the case of the run `dirs`: no more runs than
`Removed`, for which `FewPrune` cannot fail.

`OwnResultsHolds` is the module's main result: a run reads its own children's
samples, all of them and no others, unless its clock was set back
(`ClockBack`), children of it and of another run started beside each other
(`Beside`), as many runs began during it as prune it away (`Overtaken`), or its own
directory or a later run's, whose children then take its, was not made (`Unmade`). Two
invariants carry it. `Naming`: runs begin in order, and every name in use, in a
directory, plan, child or file, is an old one or that of a run that has begun. `Alone`: a run to
which none of the four happened (`Clean`) is `Undisturbed`, that is, its
directory is there, in nobody's plan, found by its own children and by nobody
else's, and holds just the files its children have written. Among the lemmas,
`CleanOrder` is why a later run's name is later, `CleanNotOldest` why pruning
passes a clean run's directory by, `FindsOwn` why `getWorkingDir` finds it.

### Utils

`PercentileByRankHolds` and `RowWholeHolds`, for samples of any number and any
values. `RankExists` shows that the value `Sorted` chooses exists and
`SortedRank` where it stands; `SortedAscends` that a sorted vector ascends. From
there on it is arithmetic: an interpolated point lies between its neighbours
(`PointBetween`), points ascend (`PointsAscend`, `PercentilesAscend`), 50% is the
median (`MediansAgree`) and 0% and 100% the extremes (`ExtremesAre`). Where an
induction would be needed there is a least counterexample
(`LeastNatural`) instead.

### Texts

`TextProofs` proves the other four properties of `Utils`, for texts, URIs and
lists of processes of any length:

| Theorem | States |
|---|---|
| `SplitIntoRunsHolds` | `[]SplitIntoRuns` |
| `UriSurvivesHolds` | `[]UriSurvives` |
| `PayloadSurvivesHolds` | `[]PayloadSurvives` |
| `ConnectsToAllHolds` | `[]ConnectsToAll` |

The state has little to do with it: `Inputs` says that what is fed in is a sequence of
what it should be. What a loop computes needs an induction. The library's theorems take a
predicate as a parameter, which the provers cannot instantiate; so the
predicate is the set of the numbers for which it holds. From the fact that a set
of numbers has a least element (`LeastNatural`) follow `Induction`,
`UpwardInduction` and `DownwardInduction`, and from those that a function defined by
recursion exists (`Recursion`, for recursion to any smaller number, as
`Decimal` has it; `Loop`, for a loop over `1 .. N`). A recursive function of
the model is a `CHOOSE`, about which nothing is known before there is one.

- `SplitIntoRunsHolds`. `RunsFrom` is the closed form of what remains of `split`
  from a place on: the runs that start there or later. `RunsTurn` shows by downward
  induction that it satisfies the equation of the loop: a turn finds the next
  separator (`FindIs`, `FindUnique`), nothing starts before it but the piece itself
  (`NextStart`), and taking away the least start shifts all others by one
  (`InOrderFirst`, from `RankFacts`).
- `UriSurvivesHolds`. `HexString` says where in the string the two digits of each byte
  stand, by induction over the bytes; `PairNumber` that they stand for that byte.
- `PayloadSurvivesHolds`. `DecimalNumber`: the decimal digits of a natural number,
  however large, are digits and stand for that number, by recursion to its tenth;
  `NumberRead`: so `strtol` reads it back. `PayloadCut`: the two separators and the
  point are where `split` cuts, twice, because no digit is one of them, whatever the
  filling holds, for what comes behind the second separator is not looked at.
- `ConnectsToAllHolds`. `ConnectKey` goes along the processes in the order of the hash
  map: after each, what `getAllTypeKeys` has written is the list of the subscribers so
  far, whose number is the rank of the place among all places of subscribers
  (`RankStep`). At the end there is a subscriber (`SomeSub`, which is where two
  processes are needed), so that what `pop_back` removes is a comma.

### Measure

`MeasureInvariant` carries `TypeCorrect`, `RowsWholeHolds`,
`AbortsOnlyWhenFewHolds` and `FillingFitsHolds`, for any arguments. It says exactly
how many samples of each kind of call there are at each place of the two
programs' loops (`Counts`, over `Place`), in whole rounds and a part of one, so
that products of arguments appear; which rows cannot have been printed yet
(`Unprinted`); and how many sessions are open at each place, where one that
stayed behind keeps the rows of its function from being printed (`LeftOpen`).

### PubSub

`PubSubInvariant` carries `RoundsInStepHolds`, `WholeRoundsHold`,
`ShownWasMadeHolds`, `CounterTellsHolds` and `AllUnregisteredHolds`. `Progress`
says where in a round the publisher is and how far each topic therefore is, and
that only a failed send leaves a round; `History` that a value was made for each
message, the n-th counter being n modulo its width, and that the static counter
is the last one sent; `Delivered` that every message under way or shown is one
that was made for its topic, although the static buffers it was made in have been
overwritten since; `Listeners` which topics have a listener, by where the
subscriber's loops are.

### Rpc

`CallInvariant` carries `OwnAnswerHolds`, `AnswersMatchHolds` and
`RemoteCallSafety`, which is the safety part of the refinement of `RemoteCall`
(its initial states and its steps). `OneMessage`: a call has at most one message
under way, as a request, in a callback, or as a response; `ServedOnce`: the
listener is called once for each call, and nothing answers a call it was not
called for; `FutureOfCall`: the future is fulfilled only by the current call's
response, so that one that comes after the time to live is nobody's.

### Only model-checked

- `Completion`, both `CtrlCEnds`, and the fairness in `RemoteCallSpec`: liveness.
- `InterruptExits`, `CreationFailureExits`, `TimeShown` and `KurtosisShown`, which
  do not hold.

## What reading showed besides

Divergences met while modelling that no run is devoted to:

- `sub_tests.cpp` 94 keeps a counter under the comment "get the first counter
  arrived", but 0 stands for "none yet" and the publishers start at 0
  (`pub_test.cpp` 124): the first counter is replaced by the second. Nothing reads
  it. (`Account` in `SubListener`.)
- `sub_tests.cpp` 85 and 97 add the size of each message twice; `main` prints
  twice the bytes as "total messages" (line 261). `FiguresPrinted` says so.
- The RPC server constructs `RpcListener listner((void*)transport)`, though the
  class's constructor is commented out, and responds through
  `UpZenohClient::instance()`; the sink URI of the client is unused.
- `benc` registers the listener of a copy of its entry (`sub.h` 109), which dies
  at the end of the iteration, long before it is unregistered.
- `benc` and `start_time` have no way to be stopped but SIGINT's flag, which
  nothing reads, and a measurement that failed still exits with 0.

## Not modelled, and why

- **Overlapping runs of the protocol, and orphans of a killed one**: the
  shared-memory names are the same in every run and the code has no provision for
  a second one beside it (an orphan publisher's "Stop" counts for the new run), so
  that nothing of interest holds. `NewRun` waits until no child is left.
  `ResultDirs`, whose names differ, does let runs overlap.
- **An odd number of children**: ruled out by a constant of the code and by
  `ProcessAssumption`.
- **The transport** (Zenoh, up-client-zenoh-cpp): external, modelled from its use.
  What `unregisterListener` guarantees about a running callback is not in the
  repository; `Rpc` lets it run, `SubListener` waits for it in the destructor.
- **Overloads nobody calls** in `utils.h` (`getMedian`, `getPercentile`, the
  one-argument `getVariance`, `getStd`, `getKurtosis`), and rounding of doubles.
- **Build files, CI, conan recipe**: no behaviour at run time.
- Logging, formatting, measured times, random payloads.

## Plan

What is modelled is complete by the table of parts above, and every safety
property that a passing run checks is proved. What could be added:

1. The proofs of `Completion` and of both `CtrlCEnds`, should the prover learn to
   reason about fairness.
2. What `unregisterListener` promises about a running callback, if the client
   library comes to say so: `Rpc` and `SubListener` would then agree on it.
3. The content behind a payload that fills its message, once the listener takes
   the payload's length into account.
