----------------------------- MODULE ResultDirs -----------------------------
(***************************************************************************)
(* Where the samples of a benchmark run go.  run_tests makes a directory   *)
(* named after the local time to the second, removes the oldest ones when  *)
(* there are too many, and forks the children.  It does not tell them the  *)
(* name: each takes, when it starts, the directory that is last by name,   *)
(* and writes its file there when it ends.  run_tests then reads the files *)
(* of the directory it named.                                              *)
(*                                                                         *)
(* Invocations may overlap and be killed, a directory may resist its       *)
(* removal, and one may not be made: the exception is caught, and the run  *)
(* goes on without. Names are as good as the clock, which shows a later    *)
(* second at each run (here: the next) unless it was set (at the latest    *)
(* when summer time ends), or two runs start within a second, or a century *)
(* ends.                                                                   *)
(***************************************************************************)
EXTENDS Integers, FiniteSets, FiniteSetsExt

CONSTANTS
  Runs,     \* bound: invocations 1 .. Runs
  Children, \* the children of an invocation
  Name,     \* names of directories, ordered as integers
  MaxDirs,  \* directories that may stay (8 in the code)
  Removed,  \* directories removed when there are more (5 in the code)
  MaxFaults \* bound: what may go wrong

ASSUME RunsAssumption  == Runs \in Nat \ {0}
ASSUME NameAssumption  == Name \subseteq Nat /\ 1 .. MaxDirs \subseteq Name
ASSUME PruneAssumption ==
  MaxDirs \in Nat /\ Removed \in 1 .. MaxDirs
ASSUME FaultsAssumption == MaxFaults \in Nat

Run == 1 .. Runs

VARIABLES
  old,      \* directories of earlier runs, 1 .. old by name
  at,       \* where the run_tests of each run is
  path,     \* the name of its directory
  dirs,     \* the directories there are
  plan,     \* those it is about to remove
  child,    \* where each of its children is
  dirOf,    \* the directory the child has found
  files,    \* the result files
  read,     \* what run_tests has read
  unmade,   \* runs whose directory was not made
  starting, \* history: other runs with children yet to start
            \* when the directory was made
  kept      \* history: number of failed removals

vars == <<old, at, path, dirs, plan, child, dirOf, files, read, unmade,
          starting, kept>>

NoName == -1
Ended == {"read", "aborted", "killed"}
-----------------------------------------------------------------------------
\* The name the clock gives to run r, unless it is set.
NextName(r) == (IF r = 1 THEN old ELSE path[r - 1]) + 1

ClockSet == {q \in Run : at[q] # "idle" /\ path[q] # NextName(q)}

Killed == {q \in Run : at[q] = "killed"}

MayFail == Cardinality(ClockSet) + Cardinality(Killed) + Cardinality(unmade)
             + kept < MaxFaults
-----------------------------------------------------------------------------
(* run_tests *)

\* Some child of q has not found its directory yet, or is still to be forked.
Starting(q) ==
  /\ at[q] # "idle" /\ \E c \in Children : child[q][c] \in {"none", "forked"}
  /\ at[q] \in Ended => \E c \in Children : child[q][c] = "forked"

\* create_directory does nothing if the directory is there already; what it
\* throws when it fails is caught, and the run goes on.
MakeDir(r) ==
  /\ at[r] = "idle" /\ \A q \in Run : q < r => at[q] # "idle"
  /\ \E name \in Name :
        /\ name # NextName(r) => MayFail
        /\ path' = [path EXCEPT ![r] = name]
        /\ \/ dirs' = dirs \cup {name} /\ UNCHANGED unmade
           \/ /\ MayFail /\ name \notin dirs
              /\ unmade' = unmade \cup {r} /\ UNCHANGED dirs
  /\ at' = [at EXCEPT ![r] = "list"]
  /\ starting' = [starting EXCEPT ![r] = {q \in Run : Starting(q)}]
  /\ UNCHANGED <<old, plan, child, dirOf, files, read, kept>>

\* Mutants: all go; one goes.
OldestAll == dirs
OldestOne == {Min(dirs)}

\* The first ones of the sorted list.
Oldest == {d \in dirs : Cardinality({e \in dirs : e < d}) < Removed}

ListDirs(r) ==
  /\ at[r] = "list"
  /\ at' = [at EXCEPT ![r] = "prune"]
  /\ plan' = [plan EXCEPT
                ![r] = IF Cardinality(dirs) > MaxDirs THEN Oldest ELSE {}]
  /\ UNCHANGED <<old, path, dirs, child, dirOf, files, read, unmade,
                 starting, kept>>

\* remove_directory takes the files along; if it fails, it only says so.
RemoveDir(r) ==
  /\ at[r] = "prune" /\ plan[r] # {}
  /\ LET d == Min(plan[r]) IN
     /\ plan' = [plan EXCEPT ![r] = @ \ {d}]
     /\ \/ /\ dirs' = dirs \ {d}
           /\ files' = {f \in files : f.dir # d}
           /\ UNCHANGED kept
        \/ /\ MayFail
           /\ kept' = kept + 1 /\ UNCHANGED <<dirs, files>>
  /\ UNCHANGED <<old, at, path, child, dirOf, read, unmade,
                 starting>>

Fork(r) ==
  /\ at[r] = "prune" /\ plan[r] = {}
  /\ at' = [at EXCEPT ![r] = "run"]
  /\ child' = [child EXCEPT ![r] = [c \in Children |-> "forked"]]
  /\ UNCHANGED <<old, path, dirs, plan, dirOf, files, read, unmade,
                 starting, kept>>

\* When the children are gone: the files of the directory, or an exception
\* nobody catches if there is none.
ReadFiles(r) ==
  /\ at[r] = "run" /\ \A c \in Children : child[r][c] = "gone"
  /\ at' = [at EXCEPT ![r] = IF path[r] \in dirs THEN "read" ELSE "aborted"]
  /\ read' = [read EXCEPT ![r] = {f \in files : f.dir = path[r]}]
  /\ UNCHANGED <<old, path, dirs, plan, child, dirOf, files, unmade,
                 starting, kept>>

\* SIGTERM: the children go on.
Kill(r) ==
  /\ at[r] \notin {"idle"} \cup Ended /\ MayFail
  /\ at' = [at EXCEPT ![r] = "killed"]
  /\ plan' = [plan EXCEPT ![r] = {}]
  /\ UNCHANGED <<old, path, dirs, child, dirOf, files, read, unmade,
                 starting, kept>>
-----------------------------------------------------------------------------
(* pub_test and sub_test *)

\* Mutant: the list is not sorted.
getWorkingDirUnsorted(r, c) ==
  /\ child[r][c] = "forked"
  /\ \/ /\ \E d \in dirs : dirOf' = [dirOf EXCEPT ![r][c] = d]
        /\ child' = [child EXCEPT ![r][c] = "running"]
     \/ /\ dirs = {}
        /\ child' = [child EXCEPT ![r][c] = "gone"] /\ UNCHANGED dirOf
  /\ UNCHANGED <<old, at, path, dirs, plan, files, read, unmade,
                 starting, kept>>

\* The last of the sorted list; the child crashes if there is none.
getWorkingDir(r, c) ==
  /\ child[r][c] = "forked"
  /\ \/ /\ dirs # {}
        /\ dirOf' = [dirOf EXCEPT ![r][c] = Max(dirs)]
        /\ child' = [child EXCEPT ![r][c] = "running"]
     \/ /\ dirs = {}
        /\ child' = [child EXCEPT ![r][c] = "gone"] /\ UNCHANGED dirOf
  /\ UNCHANGED <<old, at, path, dirs, plan, files, read, unmade,
                 starting, kept>>

\* Mutant: the directory is neither looked for nor needed.
writeVecToFileEarly(r, c) ==
  /\ child[r][c] \in {"forked", "running"}
  /\ files' = files \cup {[dir |-> dirOf[r][c], run |-> r, child |-> c]}
  /\ child' = [child EXCEPT ![r][c] = "gone"]
  /\ UNCHANGED <<old, at, path, dirs, plan, dirOf, read, unmade,
                 starting, kept>>

\* The file cannot be opened if the directory is gone; nobody minds.
writeVecToFile(r, c) ==
  /\ child[r][c] = "running"
  /\ files' = IF dirOf[r][c] \in dirs
              THEN files \cup {[dir |-> dirOf[r][c], run |-> r, child |-> c]}
              ELSE files
  /\ child' = [child EXCEPT ![r][c] = "gone"]
  /\ UNCHANGED <<old, at, path, dirs, plan, dirOf, read, unmade,
                 starting, kept>>
-----------------------------------------------------------------------------
Init ==
  /\ at = [r \in Run |-> "idle"]
  /\ path = [r \in Run |-> NoName]
  /\ old \in 0 .. MaxDirs /\ dirs = 1 .. old
  /\ plan = [r \in Run |-> {}]
  /\ child = [r \in Run |-> [c \in Children |-> "none"]]
  /\ dirOf = [r \in Run |-> [c \in Children |-> NoName]]
  /\ files = [dir : dirs, run : {0}, child : Children]
  /\ read = [r \in Run |-> {}]
  /\ unmade = {} /\ starting = [r \in Run |-> {}] /\ kept = 0

Next ==
  \E r \in Run :
    \/ MakeDir(r) \/ ListDirs(r) \/ RemoveDir(r) \/ Fork(r) \/ ReadFiles(r)
    \/ Kill(r)
    \/ \E c \in Children : getWorkingDir(r, c) \/ writeVecToFile(r, c)

Spec == Init /\ [][Next]_vars
-----------------------------------------------------------------------------
File == [dir : Name, run : {0} \cup Run, child : Children]

TypeOK ==
  /\ old \in 0 .. MaxDirs
  /\ at \in [Run -> {"idle", "list", "prune", "run"} \cup Ended]
  /\ path \in [Run -> Name \cup {NoName}]
  /\ dirs \subseteq Name
  /\ plan \in [Run -> SUBSET Name]
  /\ child \in [Run -> [Children -> {"none", "forked", "running", "gone"}]]
  /\ dirOf \in [Run -> [Children -> Name \cup {NoName}]]
  /\ files \subseteq File
  /\ read \in [Run -> SUBSET File]
  /\ unmade \subseteq Run
  /\ starting \in [Run -> SUBSET Run]
  /\ kept \in 0 .. MaxFaults

OwnFiles(r) == {[dir |-> path[r], run |-> r, child |-> c] : c \in Children}

\* The clock was not ahead of the earlier runs, or set back for a later one.
ClockBack(r) ==
  \/ path[r] <= old
  \/ \E q \in Run : q < r /\ path[q] >= path[r]
  \/ \E q \in Run : q > r /\ at[q] # "idle" /\ path[q] <= path[r]

\* Another run had children yet to start when r made its directory, or the
\* other way round.
Beside(r) == starting[r] # {} \/ \E q \in Run : r \in starting[q]

\* So many runs have begun since that r's directory is among the oldest.
Overtaken(r) ==
  Cardinality({q \in Run : q > r /\ at[q] # "idle"}) > MaxDirs - Removed

\* The directory of r, or of a later run whose children then take the one of
\* r, was not made.
Unmade(r) == \E q \in unmade : q >= r

(***************************************************************************)
(* run_tests computes its statistics from the samples of its own children, *)
(* all of them and no others, although they are never told the directory   *)
(* and any run may remove it, unless one of four things happened: the      *)
(* clock was set back, or showed the same second twice; children of two    *)
(* runs were starting at the same time; at least four (MaxDirs + 1 -       *)
(* Removed) runs were begun during this one; or its directory could not be *)
(* made, or that of a later run.                                           *)
(***************************************************************************)
OwnResults ==
  \A r \in Run :
    at[r] \in {"read", "aborted"} =>
      \/ at[r] = "read" /\ read[r] = OwnFiles(r)
      \/ ClockBack(r) \/ Beside(r) \/ Overtaken(r) \/ Unmade(r)

\* r has made its directory and not pruned, or was killed in between.
Unpruned(r) ==
  /\ at[r] \in {"list", "prune", "killed"} /\ r \notin unmade
  /\ \A c \in Children : child[r][c] = "none"

(***************************************************************************)
(* The directories do not pile up: with up to Removed runs that list and   *)
(* remove beside each other, there are never more than MaxDirs, plus one   *)
(* for each run that is on its way to pruning or was killed on it, plus    *)
(* those that could not be removed.                                        *)
(***************************************************************************)
DirsBounded ==
  Cardinality(dirs) <= MaxDirs + Cardinality({r \in Run : Unpruned(r)}) + kept

(***************************************************************************)
(* A child that looks for its directory finds one: getWorkingDir takes the *)
(* last element of the list without asking whether there is any.  The      *)
(* pruning never takes the last one away, whoever prunes beside whom; only *)
(* when there never was one, because no directory could be made so far and *)
(* no earlier run had left one, does a child find none.                    *)
(***************************************************************************)
WorkingDirExists ==
  (\E r \in Run : \E c \in Children : child[r][c] = "forked") =>
    \/ dirs # {}
    \/ old = 0 /\ \A r \in Run : at[r] # "idle" => r \in unmade
=============================================================================
