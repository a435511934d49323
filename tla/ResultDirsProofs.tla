-------------------------- MODULE ResultDirsProofs --------------------------
(***************************************************************************)
(* Proofs about ResultDirs, for any number of runs and of children, any    *)
(* names, any limits and any number of faults.                             *)
(***************************************************************************)
EXTENDS ResultDirs, FiniteSetTheorems, FunctionTheorems, WellFoundedInduction,
        TLAPS

-----------------------------------------------------------------------------
(* Sets of names. *)

LEMMA LeastNatural ==
  ASSUME NEW T \in SUBSET Nat, T # {}
  PROVE  \E x \in T : \A y \in T : x <= y
<1> DEFINE Less == OpToRel(<, Nat)
<1>1. IsWellFoundedOn(Less, Nat)
  BY NatLessThanWellFounded
<1>2. \A x, y \in Nat : x < y => <<x, y>> \in Less
  BY DEF OpToRel
<1> HIDE DEF Less
<1>3. PICK x \in T : \A y \in T : ~ <<y, x>> \in Less
  BY <1>1, WFMin
<1>4. \A y \in T : ~ y < x
  BY <1>2, <1>3
<1> QED BY <1>4

LEMMA MinElement ==
  ASSUME NEW T \in SUBSET Nat, T # {}
  PROVE  Min(T) \in T /\ \A y \in T : Min(T) <= y
BY LeastNatural DEF Min

LEMMA MaxElement ==
  ASSUME NEW T \in SUBSET Nat, NEW m \in T, \A y \in T : y <= m
  PROVE  Max(T) = m
<1>1. \A y \in T : m >= y
  OBVIOUS
<1>2. \A x \in T : (\A y \in T : x >= y) => x = m
  BY <1>1
<1> QED BY <1>1, <1>2 DEF Max
-----------------------------------------------------------------------------
(* The inductive invariants. *)

\* A run forks when it has pruned, and removes only then.
Phases ==
  \A r \in Run :
    /\ at[r] \in {"idle", "list", "prune"} => \A c \in Children :
                                                child[r][c] = "none"
    /\ at[r] # "prune" => plan[r] = {}
    /\ r \in unmade => at[r] # "idle"

\* The newest directory is in nobody's plan, so that there always is one as
\* soon as there is any.
Newest ==
  /\ dirs # {} =>
       \E m \in dirs : /\ \A d \in dirs : d <= m
                       /\ \A r \in Run : \A d \in plan[r] : d < m
  /\ dirs = {} => /\ old = 0
                  /\ \A r \in Run : plan[r] = {}
                  /\ \A r \in Run : at[r] # "idle" => r \in unmade

\* The directories that stay when the runs of S have carried out their plans,
\* and the runs on their way to pruning.
Staying(there, planned, S) == there \ UNION {planned[r] : r \in S}
Waiting(where, children, missing) ==
  {r \in Run : /\ where[r] \in {"list", "prune", "killed"} /\ r \notin missing
               /\ \A c \in Children : children[r][c] = "none"}

\* Whichever of the pruning runs are done first, the bound holds then.
Pruned ==
  \A S \in SUBSET {r \in Run : at[r] = "prune"} :
    Cardinality(Staying(dirs, plan, S)) <=
      MaxDirs + Cardinality(Waiting(at, child, unmade) \ S) + kept

\* The runs begin in order; names are those of old directories and of runs
\* that have begun, and none of these is later than every directory.
Begun(r) == at[r] # "idle"
Known == 1 .. old \cup {path[q] : q \in {p \in Run : Begun(p)}}

Naming ==
  /\ \A q, r \in Run : q < r /\ Begun(r) => Begun(q)
  /\ dirs \subseteq Known
  /\ \A r \in Run :
       /\ plan[r] \subseteq Known
       /\ \A c \in Children : dirOf[r][c] \in Known \cup {NoName}
       /\ Begun(r) => path[r] \in Name
       /\ Begun(r) /\ r \notin unmade => \E d \in dirs : path[r] <= d
       /\ ~ Begun(r) => starting[r] = {}
  /\ \A f \in files : f.dir \in Known

\* A run to which none of the four things has happened has its directory to
\* itself, and nobody is about to remove it.
Clean(r) ==
  Begun(r) /\ ~ ClockBack(r) /\ ~ Beside(r) /\ ~ Overtaken(r) /\ ~ Unmade(r)

Found(r) == {c \in Children : child[r][c] \in {"running", "gone"}}
Wrote(r) == {c \in Children : child[r][c] = "gone"}
In(name) == {f \in files : f.dir = name}
FilesOf(r, S) == {[dir |-> path[r], run |-> r, child |-> c] : c \in S}

Undisturbed(r) ==
  /\ path[r] \in dirs
  /\ \A q \in Run : path[r] \notin plan[q]
  /\ Starting(r) => \A q \in Run : q > r => ~ Begun(q)
  /\ \A q \in Run : q < r => ~ Starting(q)
  /\ \A c \in Found(r) : dirOf[r][c] = path[r]
  /\ \A q \in Run \ {r} : \A c \in Children : dirOf[q][c] # path[r]
  /\ In(path[r]) = FilesOf(r, Wrote(r))
  /\ at[r] # "aborted" /\ (at[r] = "read" => read[r] = OwnFiles(r))

Alone == \A r \in Run : Clean(r) => Undisturbed(r)

DirsInv ==
  /\ TypeOK
  /\ IsFiniteSet(dirs)
  /\ Phases
  /\ Newest
-----------------------------------------------------------------------------
(* Type correctness and the newest directory. *)

LEMMA RunFacts ==
  /\ IsFiniteSet(Run)
  /\ \A S \in SUBSET Run : IsFiniteSet(S) /\ Cardinality(S) \in Nat
<1>1. IsFiniteSet(Run)
  <2>1. 1 \in Int /\ Runs \in Int
    BY RunsAssumption
  <2> QED BY <2>1, FS_Interval DEF Run
<1> QED BY <1>1, FS_Subset, FS_CardinalityType

\* A fault is only spent while there is one left.
LEMMA FaultLeft ==
  ASSUME TypeOK, MayFail
  PROVE  kept + 1 \in 0 .. MaxFaults
<1>1. /\ Cardinality(ClockSet) \in Nat /\ Cardinality(Killed) \in Nat
      /\ Cardinality(unmade) \in Nat
  BY RunFacts DEF ClockSet, Killed, TypeOK
<1>2. kept \in Nat /\ MaxFaults \in Nat
  BY FaultsAssumption DEF TypeOK
<1> QED BY <1>1, <1>2 DEF MayFail

LEMMA NewestFacts ==
  ASSUME DirsInv, dirs # {}
  PROVE  \E m \in dirs : /\ \A d \in dirs : d <= m
                         /\ \A q \in Run : \A d \in plan[q] : d < m
                         /\ Max(dirs) = m
<1>2. PICK m \in dirs : /\ \A d \in dirs : d <= m
                        /\ \A q \in Run : \A d \in plan[q] : d < m
  BY DEF DirsInv, Newest
<1>3. dirs \in SUBSET Nat
  BY NameAssumption DEF DirsInv, TypeOK
<1>4. Max(dirs) = m
  BY <1>2, <1>3, MaxElement
<1> QED BY <1>2, <1>4

LEMMA TypeInit == Init => TypeOK
<1> SUFFICES ASSUME Init PROVE TypeOK
  OBVIOUS
<1>1. MaxDirs \in Nat /\ old \in 0 .. MaxDirs /\ dirs = 1 .. old
  BY PruneAssumption DEF Init
<1>2. dirs \subseteq Name
  BY <1>1, NameAssumption
<1>3. files \subseteq File
  BY <1>2 DEF Init, File
<1>4. kept \in 0 .. MaxFaults
  BY FaultsAssumption DEF Init
<1> QED BY <1>1, <1>2, <1>3, <1>4 DEF Init, TypeOK, Ended

\* What making a directory does.
LEMMA MakeFacts ==
  ASSUME NEW r \in Run, MakeDir(r)
  PROVE  \E name \in Name :
           /\ path' = [path EXCEPT ![r] = name]
           /\ \/ dirs' = dirs \cup {name} /\ unmade' = unmade
              \/ dirs' = dirs /\ unmade' = unmade \cup {r}
BY DEF MakeDir

LEMMA TypeStep ==
  ASSUME DirsInv, [Next]_vars
  PROVE  TypeOK'
<1> USE DEF DirsInv, Ended
<1>1. ASSUME NEW r \in Run, MakeDir(r) PROVE TypeOK'
  <2>1. PICK name \in Name :
          /\ path' = [path EXCEPT ![r] = name]
          /\ \/ dirs' = dirs \cup {name} /\ unmade' = unmade
             \/ dirs' = dirs /\ unmade' = unmade \cup {r}
    BY <1>1, MakeFacts
  <2> QED BY <1>1, <2>1 DEF MakeDir, TypeOK
<1>2. ASSUME NEW r \in Run, ListDirs(r) PROVE TypeOK'
  BY <1>2 DEF ListDirs, Oldest, TypeOK
<1>3. ASSUME NEW r \in Run, RemoveDir(r) PROVE TypeOK'
  <2>1. plan' \in [Run -> SUBSET Name]
    BY <1>3 DEF RemoveDir, TypeOK
  <2>2. /\ dirs' \subseteq Name /\ files' \subseteq File
        /\ kept' \in 0 .. MaxFaults
    BY <1>3, FaultLeft DEF RemoveDir, TypeOK
  <2> QED BY <1>3, <2>1, <2>2 DEF RemoveDir, TypeOK
<1>4. ASSUME NEW r \in Run, Fork(r) \/ ReadFiles(r) \/ Kill(r) PROVE TypeOK'
  <2>1. CASE Fork(r)
    BY <2>1 DEF Fork, TypeOK
  <2>2. CASE ReadFiles(r)
    <3>1. {f \in files : f.dir = path[r]} \subseteq File
      BY DEF TypeOK
    <3> QED BY <2>2, <3>1 DEF ReadFiles, TypeOK
  <2>3. CASE Kill(r)
    BY <2>3 DEF Kill, TypeOK
  <2> QED BY <1>4, <2>1, <2>2, <2>3
<1>5. ASSUME NEW r \in Run, NEW c \in Children, getWorkingDir(r, c)
      PROVE  TypeOK'
  <2>1. dirs # {} => Max(dirs) \in Name
    BY NewestFacts DEF TypeOK
  <2>2. dirOf' \in [Run -> [Children -> Name \cup {NoName}]]
    <3>1. CASE dirs # {} /\ dirOf' = [dirOf EXCEPT ![r][c] = Max(dirs)]
      BY <2>1, <3>1 DEF TypeOK
    <3>2. CASE UNCHANGED dirOf
      BY <3>2 DEF TypeOK
    <3> QED BY <1>5, <3>1, <3>2 DEF getWorkingDir
  <2>3. child' \in [Run -> [Children -> {"none", "forked", "running", "gone"}]]
    <3>1. PICK w \in {"running", "gone"} : child' = [child EXCEPT ![r][c] = w]
      BY <1>5 DEF getWorkingDir
    <3> QED BY <3>1 DEF TypeOK
  <2>4. UNCHANGED <<old, at, path, dirs, plan, files, read, unmade, starting,
                    kept>>
    BY <1>5 DEF getWorkingDir
  <2> QED BY <2>2, <2>3, <2>4 DEF TypeOK
<1>6. ASSUME NEW r \in Run, NEW c \in Children, writeVecToFile(r, c)
      PROVE  TypeOK'
  <2>1. files' \subseteq File
    BY <1>6 DEF writeVecToFile, TypeOK, File
  <2> QED BY <1>6, <2>1 DEF writeVecToFile, TypeOK
<1>7. CASE UNCHANGED vars
  BY <1>7 DEF vars, TypeOK
<1> QED BY <1>1, <1>2, <1>3, <1>4, <1>5, <1>6, <1>7 DEF Next

LEMMA FiniteStep ==
  ASSUME DirsInv, [Next]_vars
  PROVE  IsFiniteSet(dirs')
<1>1. \A x : IsFiniteSet(dirs \cup {x}) /\ IsFiniteSet(dirs \ {x})
  BY FS_AddElement, FS_RemoveElement DEF DirsInv
<1>2. dirs' = dirs \/ \E x : dirs' = dirs \cup {x} \/ dirs' = dirs \ {x}
  BY DEF Next, MakeDir, ListDirs, RemoveDir, Fork, ReadFiles, Kill,
         getWorkingDir, writeVecToFile, vars
<1> QED BY <1>1, <1>2 DEF DirsInv

LEMMA PhasesStep ==
  ASSUME DirsInv, [Next]_vars
  PROVE  Phases'
<1> USE DEF DirsInv, Phases, TypeOK
<1>1. ASSUME NEW r \in Run, ListDirs(r) \/ Fork(r) \/ ReadFiles(r) \/ Kill(r)
      PROVE  Phases'
  <2>1. CASE ListDirs(r)
    BY <2>1 DEF ListDirs
  <2>2. CASE Fork(r)
    BY <2>2 DEF Fork
  <2>3. CASE ReadFiles(r)
    BY <2>3 DEF ReadFiles
  <2>4. CASE Kill(r)
    BY <2>4 DEF Kill
  <2> QED BY <1>1, <2>1, <2>2, <2>3, <2>4
<1>5. ASSUME NEW r \in Run, MakeDir(r) PROVE Phases'
  <2>1. /\ at' = [at EXCEPT ![r] = "list"] /\ at[r] = "idle"
        /\ UNCHANGED <<child, plan>> /\ unmade' \subseteq unmade \cup {r}
    BY <1>5 DEF MakeDir
  <2> QED BY <2>1
<1>2. ASSUME NEW r \in Run, RemoveDir(r) PROVE Phases'
  BY <1>2 DEF RemoveDir
<1>3. ASSUME NEW r \in Run, NEW c \in Children,
             getWorkingDir(r, c) \/ writeVecToFile(r, c)
      PROVE  Phases'
  <2>1. child[r][c] # "none" /\ UNCHANGED <<at, plan, unmade>>
    BY <1>3 DEF getWorkingDir, writeVecToFile
  <2>2. \A q \in Run \ {r} : child'[q] = child[q]
    BY <1>3 DEF getWorkingDir, writeVecToFile
  <2>3. at[r] \notin {"idle", "list", "prune"}
    <3>1. at[r] \in {"idle", "list", "prune"} => \A e \in Children :
                                                 child[r][e] = "none"
      OBVIOUS
    <3> QED BY <2>1, <3>1
  <2>4. ASSUME NEW q \in Run
        PROVE  /\ at'[q] \in {"idle", "list", "prune"} =>
                    \A e \in Children : child'[q][e] = "none"
               /\ at'[q] # "prune" => plan'[q] = {}
               /\ q \in unmade' => at'[q] # "idle"
    <3>1. CASE q = r
      BY <2>1, <2>3, <3>1
    <3>2. CASE q # r
      BY <2>1, <2>2, <3>2
    <3> QED BY <3>1, <3>2
  <2> QED BY <2>4
<1>4. CASE UNCHANGED vars
  BY <1>4 DEF vars
<1> QED BY <1>1, <1>2, <1>3, <1>4, <1>5 DEF Next

\* What a removal does.
LEMMA RemoveFacts ==
  ASSUME DirsInv, NEW r \in Run, RemoveDir(r)
  PROVE  \E d \in plan[r] :
           /\ plan' = [plan EXCEPT ![r] = @ \ {d}]
           /\ \/ dirs' = dirs \ {d} /\ kept' = kept
              \/ dirs' = dirs /\ kept' = kept + 1
<1>1. plan[r] \in SUBSET Nat /\ plan[r] # {}
  BY NameAssumption DEF DirsInv, TypeOK, RemoveDir
<1>2. Min(plan[r]) \in plan[r]
  BY <1>1, MinElement
<1> QED BY <1>2 DEF RemoveDir

\* The newest of more than MaxDirs directories is not among the oldest.
LEMMA NewestNotOldest ==
  ASSUME DirsInv, Cardinality(dirs) > MaxDirs,
         NEW m \in dirs, \A d \in dirs : d <= m
  PROVE  m \notin Oldest
<1>1. m \in Nat /\ \A d \in dirs : d \in Nat
  BY NameAssumption DEF DirsInv, TypeOK
<1>2. {e \in dirs : e < m} = dirs \ {m}
  <2>1. \A e \in dirs : e < m <=> e # m
    BY <1>1
  <2> QED BY <2>1
<1>3. /\ Cardinality(dirs \ {m}) = Cardinality(dirs) - 1
      /\ Cardinality(dirs) \in Nat
  BY FS_RemoveElement, FS_CardinalityType DEF DirsInv
<1>4. ~ Cardinality(dirs \ {m}) < Removed
  BY <1>3, PruneAssumption
<1> QED BY <1>2, <1>4 DEF Oldest

LEMMA NewestStep ==
  ASSUME DirsInv, [Next]_vars
  PROVE  Newest'
<1> DEFINE Latest(m) == /\ \A d \in dirs : d <= m
                        /\ \A r \in Run : \A d \in plan[r] : d < m
<1>1. ASSUME NEW r \in Run, MakeDir(r) PROVE Newest'
  <2>1. PICK name \in Name : \/ dirs' = dirs \cup {name}
                             \/ dirs' = dirs /\ unmade' = unmade \cup {r}
    BY <1>1, MakeFacts
  <2>2. /\ plan' = plan /\ old' = old
        /\ \A q \in Run : q # r => at'[q] = at[q]
    BY <1>1 DEF MakeDir, DirsInv, TypeOK
  <2>3. name \in Nat /\ dirs \subseteq Nat
    BY NameAssumption DEF DirsInv, TypeOK
  <2>4. CASE dirs' = dirs /\ unmade' = unmade \cup {r}
    BY <2>2, <2>4 DEF DirsInv, Newest
  <2>5. CASE dirs' = dirs \cup {name} /\ dirs = {}
    <3>1. \A q \in Run : plan[q] = {}
      BY <2>5 DEF DirsInv, Newest
    <3> QED BY <2>2, <2>3, <2>5, <3>1 DEF Newest
  <2>6. CASE dirs' = dirs \cup {name} /\ dirs # {}
    <3>1. PICK m \in dirs : Latest(m)
      BY <2>6 DEF DirsInv, Newest
    <3>2. CASE name <= m
      BY <2>2, <2>6, <3>1, <3>2 DEF Newest
    <3>3. CASE ~ name <= m
      <4>1. \A d \in dirs : d <= name
        BY <2>3, <3>1, <3>3
      <4>2. \A q \in Run : \A d \in plan[q] : d < name
        <5>1. \A q \in Run : plan[q] \subseteq Nat
          BY NameAssumption DEF DirsInv, TypeOK
        <5> QED BY <2>3, <3>1, <3>3, <5>1
      <4> QED BY <2>2, <2>3, <2>6, <4>1, <4>2 DEF Newest
    <3> QED BY <3>2, <3>3
  <2> QED BY <2>1, <2>4, <2>5, <2>6
<1>2. ASSUME NEW r \in Run, ListDirs(r) PROVE Newest'
  <2>1. /\ dirs' = dirs /\ old' = old /\ unmade' = unmade
        /\ at[r] # "idle" /\ \A q \in Run : q # r => at'[q] = at[q]
        /\ plan'[r] = IF Cardinality(dirs) > MaxDirs THEN Oldest ELSE {}
        /\ \A q \in Run : q # r => plan'[q] = plan[q]
    BY <1>2 DEF ListDirs, DirsInv, TypeOK
  <2>2. CASE dirs = {}
    <3>1. plan'[r] = {}
      BY <2>1, <2>2 DEF Oldest
    <3> QED BY <2>1, <2>2, <3>1 DEF DirsInv, Newest
  <2>3. CASE dirs # {}
    <3>1. PICK m \in dirs : Latest(m)
      BY <2>3 DEF DirsInv, Newest
    <3>2. \A d \in plan'[r] : d < m
      <4>1. Cardinality(dirs) > MaxDirs => m \notin Oldest
        BY <3>1, NewestNotOldest
      <4>2. Oldest \subseteq dirs /\ \A d \in dirs : d \in Nat
        BY NameAssumption DEF Oldest, DirsInv, TypeOK
      <4>3. \A d \in dirs : d # m => d < m
        BY <3>1, <4>2
      <4> QED BY <2>1, <4>1, <4>2, <4>3
    <3> QED BY <2>1, <2>3, <3>1, <3>2 DEF Newest
  <2> QED BY <2>2, <2>3
<1>3. ASSUME NEW r \in Run, RemoveDir(r) PROVE Newest'
  <2>1. PICK d \in plan[r] : /\ plan' = [plan EXCEPT ![r] = @ \ {d}]
                             /\ dirs' = dirs \ {d} \/ dirs' = dirs
    BY <1>3, RemoveFacts
  <2>2. dirs # {}
    BY <2>1 DEF DirsInv, Newest
  <2>3. PICK m \in dirs : Latest(m)
    BY <2>2 DEF DirsInv, Newest
  <2>4. m \in dirs'
    <3>1. d < m /\ m \in Nat
      BY <2>1, <2>3, NameAssumption DEF DirsInv, TypeOK
    <3> QED BY <2>1, <3>1
  <2>5. \A q \in Run : plan'[q] \subseteq plan[q]
    BY <2>1 DEF DirsInv, TypeOK
  <2>6. dirs' \subseteq dirs
    BY <2>1
  <2> QED BY <2>3, <2>4, <2>5, <2>6 DEF Newest
<1>4. ASSUME UNCHANGED <<dirs, old, unmade>>,
             \A q \in Run : /\ plan'[q] \subseteq plan[q]
                            /\ at'[q] # "idle" => at[q] # "idle"
      PROVE  Newest'
  BY <1>4 DEF DirsInv, Newest
<1>5. ASSUME NEW r \in Run, Fork(r) \/ ReadFiles(r) \/ Kill(r) PROVE Newest'
  <2>1. UNCHANGED <<dirs, old, unmade>>
    BY <1>5 DEF Fork, ReadFiles, Kill
  <2>2. \A q \in Run : /\ plan'[q] \subseteq plan[q]
                       /\ at'[q] # "idle" => at[q] # "idle"
    BY <1>5 DEF Fork, ReadFiles, Kill, DirsInv, TypeOK
  <2> QED BY <1>4, <2>1, <2>2
<1>6. ASSUME NEW r \in Run, NEW c \in Children,
             getWorkingDir(r, c) \/ writeVecToFile(r, c)
      PROVE  Newest'
  BY <1>4, <1>6 DEF getWorkingDir, writeVecToFile
<1>7. CASE UNCHANGED vars
  BY <1>4, <1>7 DEF vars
<1> QED BY <1>1, <1>2, <1>3, <1>5, <1>6, <1>7 DEF Next

LEMMA DirsInit == Init => DirsInv
<1> SUFFICES ASSUME Init PROVE DirsInv
  OBVIOUS
<1>1. MaxDirs \in Nat /\ old \in 0 .. MaxDirs /\ dirs = 1 .. old
  BY PruneAssumption DEF Init
<1>2. IsFiniteSet(dirs)
  BY <1>1, FS_Interval
<1>3. /\ dirs # {} => old \in dirs /\ \A d \in dirs : d <= old
      /\ dirs = {} => old = 0
  BY <1>1
<1>4. Phases /\ Newest
  BY <1>3 DEF Init, Phases, Newest
<1> QED BY <1>2, <1>4, TypeInit DEF DirsInv

-----------------------------------------------------------------------------
(* The bound on the number of directories. *)

\* There are n elements with fewer than n below them, if there are n at all.
LEMMA LowestAreMany ==
  ASSUME NEW T \in SUBSET Nat, IsFiniteSet(T), NEW n \in Nat,
         n <= Cardinality(T)
  PROVE  n <= Cardinality({d \in T : Cardinality({e \in T : e < d}) < n})
<1> DEFINE Below(d) == {e \in T : e < d}
           Lowest == {d \in T : Cardinality(Below(d)) < n}
<1>1. \A S \in SUBSET T : IsFiniteSet(S) /\ Cardinality(S) \in Nat
  BY FS_Subset, FS_CardinalityType
<1>2. Cardinality(Lowest) \in Nat
  BY <1>1
<1>3. SUFFICES ASSUME Cardinality(Lowest) < n PROVE FALSE
  BY <1>2
<1>4. T \ Lowest # {}
  <2>1. ~ Cardinality(T) < n
    BY <1>1
  <2>2. T # Lowest
    <3> HIDE DEF Lowest
    <3> QED BY <1>3, <2>1
  <2> QED BY <2>2
<1>5. PICK m \in T \ Lowest : \A y \in T \ Lowest : m <= y
  BY <1>4, LeastNatural
<1>6. Below(m) \subseteq Lowest
  <2>1. ASSUME NEW e \in T, e < m, e \notin Lowest PROVE FALSE
    BY <1>5, <2>1
  <2> QED BY <2>1
<1>7. Cardinality(Below(m)) <= Cardinality(Lowest)
  BY <1>1, <1>6, FS_Subset
<1>8. Cardinality(Below(m)) \in Nat
  BY <1>1
<1>9. Cardinality(Below(m)) < n
  BY <1>2, <1>3, <1>7, <1>8
<1> QED BY <1>5, <1>9

\* A larger set has no fewer elements; one element more is one more at most.
LEMMA Smaller ==
  ASSUME NEW T, IsFiniteSet(T), NEW S \in SUBSET T
  PROVE  /\ IsFiniteSet(S) /\ Cardinality(S) <= Cardinality(T)
         /\ Cardinality(S) \in Nat /\ Cardinality(T) \in Nat
BY FS_Subset, FS_CardinalityType

LEMMA OneMore ==
  ASSUME NEW T, IsFiniteSet(T), NEW x, NEW S \in SUBSET (T \cup {x})
  PROVE  /\ Cardinality(S) <= Cardinality(T) + 1
         /\ Cardinality(S) \in Nat /\ Cardinality(T) \in Nat
<1>1. /\ IsFiniteSet(T \cup {x}) /\ Cardinality(T) \in Nat
      /\ \/ Cardinality(T \cup {x}) = Cardinality(T)
         \/ Cardinality(T \cup {x}) = Cardinality(T) + 1
  BY FS_AddElement, FS_CardinalityType
<1>2. /\ Cardinality(S) <= Cardinality(T \cup {x})
      /\ Cardinality(S) \in Nat
  BY <1>1, Smaller
<1> QED BY <1>1, <1>2

LEMMA StayingFinite ==
  ASSUME DirsInv, NEW S
  PROVE  IsFiniteSet(Staying(dirs, plan, S))
BY FS_Subset DEF DirsInv, Staying

LEMMA WaitingFinite ==
  ASSUME NEW where, NEW children, NEW missing, NEW S
  PROVE  IsFiniteSet(Waiting(where, children, missing) \ S)
BY RunFacts DEF Waiting

\* At most Removed runs remove at a time.
FewPrune == Cardinality({r \in Run : at[r] = "prune"}) <= Removed

LEMMA PrunedInit == Init => Pruned
<1> SUFFICES ASSUME Init, NEW S \in SUBSET {r \in Run : at[r] = "prune"}
             PROVE  Cardinality(Staying(dirs, plan, S)) <=
                      MaxDirs
                      + Cardinality(Waiting(at, child, unmade) \ S)
                      + kept
  BY DEF Pruned
<1>1. MaxDirs \in Nat /\ old \in 0 .. MaxDirs /\ dirs = 1 .. old /\ kept = 0
  BY PruneAssumption DEF Init
<1>2. IsFiniteSet(dirs) /\ Cardinality(dirs) = old
  <2>1. Cardinality(1 .. old) = IF 1 > old THEN 0 ELSE old - 1 + 1
    BY <1>1, FS_Interval
  <2> QED BY <1>1, <2>1, FS_Interval
<1>3. Cardinality(Staying(dirs, plan, S)) <= old
  BY <1>2, Smaller DEF Staying
<1>4. Cardinality(Waiting(at, child, unmade) \ S) \in Nat
  BY WaitingFinite, FS_CardinalityType
<1>5. Cardinality(Staying(dirs, plan, S)) \in Nat
  BY <1>2, Smaller DEF Staying
<1> QED BY <1>1, <1>3, <1>4, <1>5

\* A run that has listed: each of the runs that remove stands for one of the
\* directories that went, or will go.
LEMMA PrunedList ==
  ASSUME DirsInv, Pruned, FewPrune', NEW r \in Run, ListDirs(r)
  PROVE  Pruned'
<1> DEFINE W == Waiting(at, child, unmade)
<1> SUFFICES ASSUME NEW S \in SUBSET {q \in Run : at'[q] = "prune"}
             PROVE  Cardinality(Staying(dirs, plan', S)) <=
                      MaxDirs + Cardinality(W \ S) + kept
  <2>1. dirs' = dirs /\ child' = child /\ kept' = kept /\ unmade' = unmade
    BY DEF ListDirs
  <2>2. Waiting(at', child', unmade') = W
    BY <2>1 DEF ListDirs, Waiting, DirsInv, TypeOK
  <2> QED BY <2>1, <2>2 DEF Pruned
<1>1. /\ MaxDirs \in Nat /\ Removed \in Nat /\ Removed <= MaxDirs
      /\ kept \in Nat
  BY PruneAssumption DEF DirsInv, TypeOK
<1>2. /\ IsFiniteSet(W) /\ Cardinality(W \ S) \in Nat
      /\ Cardinality(W) \in Nat
  BY WaitingFinite, RunFacts, FS_CardinalityType DEF Waiting
<1>3. /\ Cardinality(Staying(dirs, plan', S)) <= Cardinality(dirs)
      /\ Cardinality(Staying(dirs, plan', S)) \in Nat
      /\ Cardinality(dirs) \in Nat
  BY Smaller DEF Staying, DirsInv
<1>4. CASE r \notin S
  <2>1. S \in SUBSET {q \in Run : at[q] = "prune"}
    BY <1>4 DEF ListDirs, DirsInv, TypeOK
  <2>2. \A q \in S : plan'[q] = plan[q]
    BY <1>4 DEF ListDirs, DirsInv, TypeOK
  <2>3. Staying(dirs, plan', S) = Staying(dirs, plan, S)
    BY <2>2 DEF Staying
  <2> QED BY <2>1, <2>3 DEF Pruned
<1>5. CASE Cardinality(dirs) <= MaxDirs
  BY <1>1, <1>2, <1>3, <1>5
<1>6. CASE r \in S /\ ~ Cardinality(dirs) <= MaxDirs
  <2>1. plan'[r] = Oldest
    BY <1>1, <1>3, <1>6 DEF ListDirs, DirsInv, TypeOK
  <2>2. Removed <= Cardinality(Oldest)
    <3>1. dirs \in SUBSET Nat /\ Removed <= Cardinality(dirs)
      BY <1>1, <1>3, <1>6, NameAssumption DEF DirsInv, TypeOK
    <3> QED BY <1>1, <3>1, LowestAreMany DEF DirsInv, Oldest
  <2>3. /\ Cardinality(dirs \ Oldest) = Cardinality(dirs) - Cardinality(Oldest)
        /\ IsFiniteSet(dirs \ Oldest) /\ Cardinality(Oldest) \in Nat
    <3>1. Oldest \subseteq dirs
      BY DEF Oldest
    <3>2. dirs \cap Oldest = Oldest
      BY <3>1
    <3>3. Cardinality(dirs \ Oldest) =
            Cardinality(dirs) - Cardinality(dirs \cap Oldest)
      BY FS_Difference DEF DirsInv
    <3> QED BY <3>1, <3>2, <3>3, Smaller, FS_Difference DEF DirsInv
  <2>4. /\ Cardinality(Staying(dirs, plan', S)) <= Cardinality(dirs \ Oldest)
        /\ Cardinality(dirs \ Oldest) \in Nat
    <3>1. Staying(dirs, plan', S) \subseteq dirs \ Oldest
      BY <1>6, <2>1 DEF Staying
    <3> QED BY <2>3, <3>1, Smaller
  <2>5. Cardinality(dirs) <= MaxDirs + Cardinality(W) + kept
    <3>1. Staying(dirs, plan, {}) = dirs /\ W \ {} = W
      BY DEF Staying
    <3> QED BY <3>1 DEF Pruned
  <2>6. Cardinality(W) <= Cardinality(W \ S) + Removed
    <3>1. /\ Cardinality(W \ S) = Cardinality(W) - Cardinality(W \cap S)
      BY <1>2, FS_Difference
    <3>2. /\ Cardinality(W \cap S) <=
                 Cardinality({q \in Run : at'[q] = "prune"})
          /\ Cardinality(W \cap S) \in Nat
          /\ Cardinality({q \in Run : at'[q] = "prune"}) \in Nat
      BY RunFacts, Smaller
    <3>3. Cardinality({q \in Run : at'[q] = "prune"}) <= Removed
      BY DEF FewPrune
    <3> QED BY <1>1, <1>2, <3>1, <3>2, <3>3
  <2> QED BY <1>1, <1>2, <1>3, <2>2, <2>3, <2>4, <2>5, <2>6
<1> QED BY <1>4, <1>5, <1>6

LEMMA PrunedStep ==
  ASSUME DirsInv, Pruned, FewPrune', [Next]_vars
  PROVE  Pruned'
<1> DEFINE Pruning == {q \in Run : at[q] = "prune"}
           W == Waiting(at, child, unmade)
<1>1. ASSUME NEW S, NEW T
      PROVE  /\ IsFiniteSet(Staying(dirs, plan, S))
             /\ IsFiniteSet(W \ S) /\ Cardinality(W \ S) \in Nat
             /\ Cardinality(Staying(dirs, plan, S)) \in Nat
  BY StayingFinite, WaitingFinite, FS_CardinalityType
<1>2. MaxDirs \in Nat /\ kept \in Nat
  BY PruneAssumption DEF DirsInv, TypeOK
<1>3. ASSUME NEW r \in Run, MakeDir(r) PROVE Pruned'
  <2> SUFFICES ASSUME NEW S \in SUBSET {q \in Run : at'[q] = "prune"}
               PROVE  Cardinality(Staying(dirs', plan', S)) <=
                        MaxDirs
                        + Cardinality(Waiting(at', child', unmade') \ S)
                        + kept'
    BY DEF Pruned
  <2>1. plan' = plan /\ child' = child /\ kept' = kept
    BY <1>3 DEF MakeDir
  <2>2. S \in SUBSET Pruning /\ r \notin S
    BY <1>3 DEF MakeDir, DirsInv, TypeOK
  <2>3. Cardinality(Staying(dirs, plan, S)) <=
          MaxDirs + Cardinality(W \ S) + kept
    BY <2>2 DEF Pruned
  <2>4. at' = [at EXCEPT ![r] = "list"] /\ at[r] = "idle"
        /\ \A c \in Children : child[r][c] = "none"
    BY <1>3 DEF MakeDir, DirsInv, Phases
  <2>5. PICK name \in Name : \/ dirs' = dirs \cup {name} /\ unmade' = unmade
                             \/ dirs' = dirs /\ unmade' = unmade \cup {r}
    BY <1>3, MakeFacts
  <2>6. CASE dirs' = dirs /\ unmade' = unmade \cup {r}
    <3>1. Waiting(at', child', unmade') = W
      BY <2>1, <2>4, <2>6 DEF Waiting, DirsInv, TypeOK
    <3> QED BY <2>1, <2>3, <2>6, <3>1
  <2>7. CASE dirs' = dirs \cup {name} /\ unmade' = unmade /\ r \in unmade
    BY <2>4, <2>7 DEF DirsInv, Phases
  <2>8. CASE dirs' = dirs \cup {name} /\ unmade' = unmade /\ r \notin unmade
    <3>1. Waiting(at', child', unmade') = W \cup {r} /\ r \notin W
      BY <2>1, <2>4, <2>8 DEF Waiting, DirsInv, TypeOK
    <3>2. Cardinality(Waiting(at', child', unmade') \ S) =
            Cardinality(W \ S) + 1
      <4>1. /\ Waiting(at', child', unmade') \ S = (W \ S) \cup {r}
            /\ r \notin W \ S
        BY <2>2, <3>1
      <4> QED BY <1>1, <4>1, FS_AddElement
    <3>3. Cardinality(Staying(dirs', plan', S)) <=
            Cardinality(Staying(dirs, plan, S)) + 1
      <4>1. Staying(dirs', plan', S) \subseteq
              Staying(dirs, plan, S) \cup {name}
        BY <2>1, <2>8 DEF Staying
      <4> QED BY <1>1, <4>1, OneMore
    <3>4. Cardinality(Staying(dirs', plan', S)) \in Nat
      <4>1. IsFiniteSet(dirs')
        BY <1>3, FiniteStep DEF Next
      <4> QED BY <4>1, Smaller DEF Staying
    <3> QED BY <1>1, <1>2, <2>1, <2>3, <3>2, <3>3, <3>4
  <2> QED BY <2>5, <2>6, <2>7, <2>8
<1>4. ASSUME NEW r \in Run, ListDirs(r) PROVE Pruned'
  BY <1>4, PrunedList
<1>5. ASSUME NEW r \in Run, RemoveDir(r) PROVE Pruned'
  <2> SUFFICES ASSUME NEW S \in SUBSET {q \in Run : at'[q] = "prune"}
               PROVE  Cardinality(Staying(dirs', plan', S)) <=
                        MaxDirs
                        + Cardinality(Waiting(at', child', unmade') \ S)
                        + kept'
    BY DEF Pruned
  <2>1. PICK d \in plan[r] :
          /\ plan' = [plan EXCEPT ![r] = @ \ {d}]
          /\ \/ dirs' = dirs \ {d} /\ kept' = kept
             \/ dirs' = dirs /\ kept' = kept + 1
    BY <1>5, RemoveFacts
  <2>2. at' = at /\ child' = child /\ unmade' = unmade
    BY <1>5 DEF RemoveDir
  <2>3. \A q \in S : plan[q] \subseteq plan'[q] \cup {d}
    BY <2>1 DEF DirsInv, TypeOK
  <2>4. Cardinality(Staying(dirs, plan, S)) <=
          MaxDirs + Cardinality(W \ S) + kept
    BY <2>2 DEF Pruned
  <2>5. CASE dirs' = dirs \ {d} /\ kept' = kept
    <3>1. Staying(dirs', plan', S) \subseteq Staying(dirs, plan, S)
      BY <2>3, <2>5 DEF Staying
    <3>2. /\ Cardinality(Staying(dirs', plan', S)) <=
               Cardinality(Staying(dirs, plan, S))
          /\ Cardinality(Staying(dirs', plan', S)) \in Nat
      BY <1>1, <3>1, Smaller
    <3> QED BY <1>1, <1>2, <2>2, <2>4, <2>5, <3>2
  <2>6. CASE dirs' = dirs /\ kept' = kept + 1
    <3>1. Staying(dirs', plan', S) \subseteq Staying(dirs, plan, S) \cup {d}
      BY <2>3, <2>6 DEF Staying
    <3>2. /\ Cardinality(Staying(dirs', plan', S)) <=
               Cardinality(Staying(dirs, plan, S)) + 1
          /\ Cardinality(Staying(dirs', plan', S)) \in Nat
      BY <1>1, <3>1, OneMore
    <3> QED BY <1>1, <1>2, <2>2, <2>4, <2>6, <3>2
  <2> QED BY <2>1, <2>5, <2>6
<1>6. ASSUME NEW r \in Run, Fork(r) PROVE Pruned'
  <2> SUFFICES ASSUME NEW S \in SUBSET {q \in Run : at'[q] = "prune"}
               PROVE  Cardinality(Staying(dirs', plan', S)) <=
                        MaxDirs
                        + Cardinality(Waiting(at', child', unmade') \ S)
                        + kept'
    BY DEF Pruned
  <2>1. dirs' = dirs /\ plan' = plan /\ kept' = kept /\ plan[r] = {}
    BY <1>6 DEF Fork
  <2>2. S \cup {r} \in SUBSET Pruning
    BY <1>6 DEF Fork, DirsInv, TypeOK
  <2>3. Staying(dirs', plan', S) = Staying(dirs, plan, S \cup {r})
    BY <2>1 DEF Staying
  <2>4. Waiting(at', child', unmade') \ S = W \ (S \cup {r})
    BY <1>6 DEF Fork, Waiting, DirsInv, TypeOK
  <2> QED BY <2>1, <2>2, <2>3, <2>4 DEF Pruned
<1>7. ASSUME NEW r \in Run, Kill(r) PROVE Pruned'
  <2> SUFFICES ASSUME NEW S \in SUBSET {q \in Run : at'[q] = "prune"}
               PROVE  Cardinality(Staying(dirs', plan', S)) <=
                        MaxDirs
                        + Cardinality(Waiting(at', child', unmade') \ S)
                        + kept'
    BY DEF Pruned
  <2>1. dirs' = dirs /\ child' = child /\ kept' = kept /\ unmade' = unmade
    BY <1>7 DEF Kill
  <2>2. S \in SUBSET Pruning /\ \A q \in S : plan'[q] = plan[q]
    BY <1>7 DEF Kill, DirsInv, TypeOK
  <2>3. Staying(dirs', plan', S) = Staying(dirs, plan, S)
    BY <2>1, <2>2 DEF Staying
  <2>4. W \ S \subseteq Waiting(at', child', unmade') \ S
    BY <1>7, <2>1 DEF Kill, Waiting, DirsInv, TypeOK
  <2>5. /\ Cardinality(W \ S) <= Cardinality(Waiting(at', child', unmade') \ S)
        /\ Cardinality(Waiting(at', child', unmade') \ S) \in Nat
    BY <2>4, WaitingFinite, Smaller
  <2>6. Cardinality(Staying(dirs, plan, S)) <=
          MaxDirs + Cardinality(W \ S) + kept
    BY <2>2 DEF Pruned
  <2> QED BY <1>1, <1>2, <2>1, <2>3, <2>5, <2>6
<1>8. ASSUME UNCHANGED <<dirs, plan, kept>>, Waiting(at', child', unmade') = W,
             \A q \in Run : at'[q] = "prune" => at[q] = "prune"
      PROVE  Pruned'
  <2>1. {q \in Run : at'[q] = "prune"} \subseteq Pruning
    BY <1>8
  <2> QED BY <1>8, <2>1 DEF Pruned
<1>9. ASSUME NEW r \in Run, ReadFiles(r) PROVE Pruned'
  BY <1>8, <1>9 DEF ReadFiles, Waiting, DirsInv, TypeOK
<1>10. ASSUME NEW r \in Run, NEW c \in Children,
              getWorkingDir(r, c) \/ writeVecToFile(r, c)
       PROVE  Pruned'
  <2>1. UNCHANGED <<dirs, plan, kept, at, unmade>>
    BY <1>10 DEF getWorkingDir, writeVecToFile
  <2>2. child[r][c] # "none" /\ child'[r][c] # "none"
    BY <1>10 DEF getWorkingDir, writeVecToFile, DirsInv, TypeOK
  <2>3. \A q \in Run \ {r} : child'[q] = child[q]
    BY <1>10 DEF getWorkingDir, writeVecToFile, DirsInv, TypeOK
  <2>4. Waiting(at', child', unmade') = W
    BY <2>1, <2>2, <2>3 DEF Waiting
  <2> QED BY <1>8, <2>1, <2>4
<1>11. CASE UNCHANGED vars
  BY <1>8, <1>11 DEF vars
<1> QED
  BY <1>3, <1>4, <1>5, <1>6, <1>7, <1>9, <1>10, <1>11 DEF Next
-----------------------------------------------------------------------------
(* Runs that nothing has happened to. *)

\* Only a run that makes its directory can become one that has none.
LEMMA UnmadeKept ==
  ASSUME [Next]_vars
  PROVE  /\ unmade \subseteq unmade'
         /\ \A q \in unmade' : q \in unmade \/ ~ Begun(q)
BY DEF Next, MakeDir, ListDirs, RemoveDir, Fork, ReadFiles, Kill,
       getWorkingDir, writeVecToFile, vars, Begun

\* What a run has when it has begun it keeps.
LEMMA BegunKept ==
  ASSUME DirsInv, [Next]_vars, NEW q \in Run, Begun(q)
  PROVE  /\ old' = old /\ Begun(q)'
         /\ path'[q] = path[q] /\ starting'[q] = starting[q]
<1> USE DEF DirsInv, TypeOK, Begun, Ended
<1>1. ASSUME NEW r \in Run, MakeDir(r) \/ ListDirs(r) \/ RemoveDir(r)
      PROVE  /\ old' = old /\ Begun(q)'
             /\ path'[q] = path[q] /\ starting'[q] = starting[q]
  BY <1>1 DEF MakeDir, ListDirs, RemoveDir
<1>2. ASSUME NEW r \in Run, Fork(r) \/ ReadFiles(r) \/ Kill(r)
      PROVE  /\ old' = old /\ Begun(q)'
             /\ path'[q] = path[q] /\ starting'[q] = starting[q]
  BY <1>2 DEF Fork, ReadFiles, Kill
<1>3. ASSUME NEW r \in Run, NEW c \in Children,
             getWorkingDir(r, c) \/ writeVecToFile(r, c)
      PROVE  /\ old' = old /\ Begun(q)'
             /\ path'[q] = path[q] /\ starting'[q] = starting[q]
  BY <1>3 DEF getWorkingDir, writeVecToFile
<1> QED BY <1>1, <1>2, <1>3 DEF Next, vars

\* The step of a run that has not begun is to make its directory.
LEMMA NotBegunYet ==
  ASSUME DirsInv, [Next]_vars, NEW q \in Run, ~ Begun(q)
  PROVE  MakeDir(q) \/ (~ Begun(q)' /\ starting'[q] = starting[q])
<1> USE DEF DirsInv, TypeOK, Begun, Phases
<1>1. ASSUME NEW r \in Run, r # q, MakeDir(r)
      PROVE  ~ Begun(q)' /\ starting'[q] = starting[q]
  BY <1>1 DEF MakeDir
<1>2. ASSUME NEW r \in Run,
             ListDirs(r) \/ RemoveDir(r) \/ Fork(r) \/ ReadFiles(r) \/ Kill(r)
      PROVE  ~ Begun(q)' /\ starting'[q] = starting[q]
  BY <1>2 DEF ListDirs, RemoveDir, Fork, ReadFiles, Kill
<1>3. ASSUME NEW r \in Run, NEW c \in Children,
             getWorkingDir(r, c) \/ writeVecToFile(r, c)
      PROVE  ~ Begun(q)' /\ starting'[q] = starting[q]
  BY <1>3 DEF getWorkingDir, writeVecToFile
<1> QED BY <1>1, <1>2, <1>3 DEF Next, vars

LEMMA NamingInit == Init => Naming
<1> SUFFICES ASSUME Init PROVE Naming
  OBVIOUS
<1>1. dirs \subseteq Known /\ \A f \in files : f.dir \in Known
  BY DEF Init, Known
<1>2. \A r \in Run : /\ ~ Begun(r) /\ plan[r] = {} /\ starting[r] = {}
                     /\ \A c \in Children : dirOf[r][c] = NoName
  BY DEF Init, Begun
<1> QED BY <1>1, <1>2 DEF Naming

LEMMA KnownGrows ==
  ASSUME DirsInv, [Next]_vars
  PROVE  Known \subseteq Known'
<1>1. old' = old
  BY DEF Next, MakeDir, ListDirs, RemoveDir, Fork, ReadFiles, Kill,
         getWorkingDir, writeVecToFile, vars
<1>2. ASSUME NEW q \in Run, Begun(q)
      PROVE  Begun(q)' /\ path'[q] = path[q]
  BY <1>2, BegunKept
<1> QED BY <1>1, <1>2 DEF Known

LEMMA NamingStep ==
  ASSUME DirsInv, Naming, [Next]_vars
  PROVE  Naming'
<1>1. Known \subseteq Known'
  BY KnownGrows
<1>2. ASSUME NEW q \in Run, NEW r \in Run, q < r, Begun(r)' PROVE Begun(q)'
  <2>1. CASE Begun(r)
    BY <1>2, <2>1, BegunKept DEF Naming
  <2>2. CASE ~ Begun(r)
    <3>1. MakeDir(r)
      BY <1>2, <2>2, NotBegunYet
    <3>2. Begun(q)
      BY <1>2, <3>1 DEF MakeDir, Begun
    <3> QED BY <3>2, BegunKept
  <2> QED BY <2>1, <2>2
<1>3. ASSUME NEW r \in Run, ~ Begun(r)' PROVE starting'[r] = {}
  <2>1. ~ Begun(r)
    BY <1>3, BegunKept
  <2>2. ~ MakeDir(r)
    BY <1>3 DEF MakeDir, Begun, DirsInv, TypeOK
  <2> QED BY <2>1, <2>2, NotBegunYet DEF Naming
<1> DEFINE Kept == /\ dirs' \subseteq Known'
                   /\ \A r \in Run :
                        /\ plan'[r] \subseteq Known'
                        /\ \A c \in Children :
                             dirOf'[r][c] \in Known' \cup {NoName}
                   /\ \A f \in files' : f.dir \in Known'
           Above == \A r \in Run : Begun(r)' =>
                      /\ path'[r] \in Name
                      /\ r \notin unmade' => \E d \in dirs' : path'[r] <= d
<1>4. ASSUME \A r \in Run : Begun(r)' => Begun(r),
             \A d \in dirs : \E e \in dirs' : d <= e
      PROVE  Above
  <2> SUFFICES ASSUME NEW r \in Run, Begun(r)'
               PROVE  /\ path'[r] \in Name
                      /\ r \notin unmade' => \E d \in dirs' : path'[r] <= d
    OBVIOUS
  <2>1. Begun(r)
    BY <1>4
  <2>2. path'[r] = path[r] /\ path[r] \in Name
    BY <2>1, BegunKept DEF Naming
  <2> SUFFICES ASSUME r \notin unmade' PROVE \E d \in dirs' : path'[r] <= d
    BY <2>2
  <2>3. PICK d \in dirs : path[r] <= d
    BY <2>1, UnmadeKept DEF Naming
  <2>4. PICK e \in dirs' : d <= e
    BY <1>4
  <2>5. path[r] \in Nat /\ d \in Nat /\ e \in Nat
    <3>1. dirs' \subseteq Name
      BY TypeStep DEF TypeOK
    <3> QED BY <2>2, <3>1, NameAssumption DEF DirsInv, TypeOK
  <2> QED BY <2>2, <2>3, <2>4, <2>5
<1>5. \A d \in dirs : d <= d
  BY NameAssumption DEF DirsInv, TypeOK
<1>6. ASSUME NEW r \in Run, MakeDir(r) PROVE Kept /\ Above
  <2>1. PICK name \in Name :
          /\ path' = [path EXCEPT ![r] = name]
          /\ \/ dirs' = dirs \cup {name} /\ unmade' = unmade
             \/ dirs' = dirs /\ unmade' = unmade \cup {r}
    BY <1>6, MakeFacts
  <2>2. path'[r] = name /\ Begun(r)'
    BY <1>6, <2>1 DEF MakeDir, Begun, DirsInv, TypeOK
  <2>3. name \in Known'
    BY <2>2 DEF Known
  <2>4. plan' = plan /\ dirOf' = dirOf /\ files' = files
    BY <1>6 DEF MakeDir
  <2>5. Kept
    BY <1>1, <2>1, <2>3, <2>4 DEF Naming
  <2>6. ASSUME NEW q \in Run, Begun(q)'
        PROVE  /\ path'[q] \in Name
               /\ q \notin unmade' => \E d \in dirs' : path'[q] <= d
    <3>1. CASE q = r
      <4>1. name <= name
        BY NameAssumption
      <4> QED BY <2>1, <2>2, <3>1, <4>1
    <3>2. CASE q # r
      <4>1. Begun(q)
        BY <1>6, <2>6, <3>2 DEF MakeDir, Begun, DirsInv, TypeOK
      <4>2. /\ path'[q] = path[q] /\ path[q] \in Name /\ dirs \subseteq dirs'
            /\ q \notin unmade => \E d \in dirs : path[q] <= d
        BY <2>1, <4>1, BegunKept DEF Naming
      <4> QED BY <4>2, UnmadeKept
    <3> QED BY <3>1, <3>2
  <2> QED BY <2>5, <2>6
<1>7. ASSUME NEW r \in Run, ListDirs(r) PROVE Kept /\ Above
  <2>1. dirs' = dirs /\ dirOf' = dirOf /\ files' = files
    BY <1>7 DEF ListDirs
  <2>2. \A q \in Run : plan'[q] \subseteq plan[q] \cup dirs
    BY <1>7 DEF ListDirs, Oldest, DirsInv, TypeOK
  <2>3. \A q \in Run : Begun(q)' => Begun(q)
    BY <1>7 DEF ListDirs, Begun, DirsInv, TypeOK
  <2> QED BY <1>1, <1>4, <1>5, <2>1, <2>2, <2>3 DEF Naming
<1>8. ASSUME NEW r \in Run, RemoveDir(r) PROVE Kept /\ Above
  <2>1. PICK d \in plan[r] : /\ plan' = [plan EXCEPT ![r] = @ \ {d}]
                             /\ dirs' = dirs \ {d} \/ dirs' = dirs
    BY <1>8, RemoveFacts
  <2>2. dirOf' = dirOf /\ files' \subseteq files /\ at' = at
    BY <1>8 DEF RemoveDir
  <2>3. \A q \in Run : plan'[q] \subseteq plan[q]
    BY <2>1 DEF DirsInv, TypeOK
  <2>4. PICK m \in dirs : /\ \A e \in dirs : e <= m
                          /\ \A e \in plan[r] : e < m
    <3>1. dirs # {}
      BY <2>1 DEF DirsInv, Newest
    <3> QED BY <3>1, NewestFacts
  <2>5. m \in dirs'
    <3>1. m \in Nat
      BY NameAssumption DEF DirsInv, TypeOK
    <3> QED BY <2>1, <2>4, <3>1
  <2>6. Kept
    BY <1>1, <2>1, <2>2, <2>3 DEF Naming
  <2> QED BY <1>4, <2>2, <2>4, <2>5, <2>6 DEF Begun
<1>9. ASSUME NEW r \in Run, Fork(r) \/ ReadFiles(r) \/ Kill(r)
      PROVE  Kept /\ Above
  <2>1. dirs' = dirs /\ dirOf' = dirOf /\ files' = files
    BY <1>9 DEF Fork, ReadFiles, Kill
  <2>2. \A q \in Run : plan'[q] \subseteq plan[q]
    BY <1>9 DEF Fork, ReadFiles, Kill, DirsInv, TypeOK
  <2>3. \A q \in Run : Begun(q)' => Begun(q)
    BY <1>9 DEF Fork, ReadFiles, Kill, Begun, DirsInv, TypeOK
  <2> QED BY <1>1, <1>4, <1>5, <2>1, <2>2, <2>3 DEF Naming
<1>10. ASSUME NEW r \in Run, NEW c \in Children, getWorkingDir(r, c)
       PROVE  Kept /\ Above
  <2>1. UNCHANGED <<dirs, files, plan, at>> /\ child[r][c] = "forked"
    BY <1>10 DEF getWorkingDir
  <2>2. dirs # {} => Max(dirs) \in dirs
    BY NewestFacts
  <2>3. \A q \in Run : \A e \in Children :
          \/ dirOf'[q][e] = dirOf[q][e]
          \/ dirs # {} /\ dirOf'[q][e] = Max(dirs)
    <3>1. \/ UNCHANGED dirOf
          \/ dirs # {} /\ dirOf' = [dirOf EXCEPT ![r][c] = Max(dirs)]
      BY <1>10 DEF getWorkingDir
    <3>2. dirOf \in [Run -> [Children -> Name \cup {NoName}]]
      BY DEF DirsInv, TypeOK
    <3> QED BY <3>1, <3>2
  <2>4. Kept
    BY <1>1, <2>1, <2>2, <2>3 DEF Naming
  <2> QED BY <1>4, <1>5, <2>1, <2>4 DEF Begun
<1>11. ASSUME NEW r \in Run, NEW c \in Children, writeVecToFile(r, c)
       PROVE  Kept /\ Above
  <2>1. UNCHANGED <<dirs, dirOf, plan, at>>
    BY <1>11 DEF writeVecToFile
  <2>2. \A f \in files' : f \in files \/ f.dir \in dirs
    BY <1>11 DEF writeVecToFile
  <2>3. Kept
    BY <1>1, <2>1, <2>2 DEF Naming
  <2> QED BY <1>4, <1>5, <2>1, <2>3 DEF Begun
<1>12. ASSUME UNCHANGED vars PROVE Kept /\ Above
  <2>1. UNCHANGED <<dirs, dirOf, plan, at, files>>
    BY <1>12 DEF vars
  <2>2. Kept
    BY <1>1, <2>1 DEF Naming
  <2> QED BY <1>4, <1>5, <2>1, <2>2 DEF Begun
<1>13. Kept /\ Above
  BY <1>6, <1>7, <1>8, <1>9, <1>10, <1>11, <1>12 DEF Next
<1> QED BY <1>2, <1>3, <1>13 DEF Naming

\* A step that does not make r's directory starts no more children of r.
LEMMA StartingEnds ==
  ASSUME DirsInv, [Next]_vars, NEW r \in Run, Begun(r), Starting(r)'
  PROVE  Starting(r)
<1> USE DEF DirsInv, TypeOK, Begun, Phases, Starting, Ended
<1>1. ASSUME NEW q \in Run, MakeDir(q) \/ ListDirs(q) \/ RemoveDir(q)
      PROVE  Starting(r)
  BY <1>1 DEF MakeDir, ListDirs, RemoveDir
<1>2. ASSUME NEW q \in Run, Fork(q) \/ ReadFiles(q) \/ Kill(q)
      PROVE  Starting(r)
  BY <1>2 DEF Fork, ReadFiles, Kill
<1>3. ASSUME NEW q \in Run, NEW c \in Children,
             getWorkingDir(q, c) \/ writeVecToFile(q, c)
      PROVE  Starting(r)
  <2>1. PICK w \in {"running", "gone"} : child' = [child EXCEPT ![q][c] = w]
    BY <1>3 DEF getWorkingDir, writeVecToFile
  <2>2. at' = at
    BY <1>3 DEF getWorkingDir, writeVecToFile
  <2>3. \A e \in Children :
          child'[r][e] = child[r][e] \/ child'[r][e] \in {"running", "gone"}
    BY <2>1
  <2>4. \A e \in Children :
          child'[r][e] \in {"none", "forked"} => child'[r][e] = child[r][e]
    BY <2>3
  <2> HIDE DEF DirsInv, TypeOK, Phases
  <2> QED BY <2>2, <2>4
<1>4. CASE UNCHANGED vars
  BY <1>4 DEF vars
<1> QED BY <1>1, <1>2, <1>3, <1>4 DEF Next

\* What has happened to a run has happened for good.
LEMMA CleanBefore ==
  ASSUME DirsInv, Naming, [Next]_vars, NEW r \in Run, Begun(r), Clean(r)'
  PROVE  Clean(r)
<1>1. \A q \in Run : Begun(q) => /\ old' = old /\ Begun(q)'
                                 /\ path'[q] = path[q]
                                 /\ starting'[q] = starting[q]
  BY BegunKept
<1>2. \A q \in Run : q < r => Begun(q)
  BY DEF Naming
<1>3. ~ ClockBack(r)
  BY <1>1, <1>2 DEF Clean, ClockBack, Begun
<1>4. ~ Beside(r)
  <2>1. \A q \in Run : ~ Begun(q) => starting[q] = {}
    BY DEF Naming
  <2> QED BY <1>1, <2>1 DEF Clean, Beside
<1>5. ~ Overtaken(r)
  <2> DEFINE Later == {q \in Run : q > r /\ at[q] # "idle"}
             LaterNow == {q \in Run : q > r /\ at'[q] # "idle"}
  <2>1. Later \subseteq LaterNow
    BY <1>1 DEF Begun
  <2>2. /\ Cardinality(Later) <= Cardinality(LaterNow)
        /\ Cardinality(Later) \in Nat /\ Cardinality(LaterNow) \in Nat
    BY <2>1, RunFacts, Smaller
  <2>3. ~ Cardinality(LaterNow) > MaxDirs - Removed
    BY DEF Clean, Overtaken
  <2>4. ~ Cardinality(Later) > MaxDirs - Removed
    BY <2>2, <2>3, PruneAssumption
  <2> QED BY <2>4 DEF Overtaken
<1>6. ~ Unmade(r)
  BY UnmadeKept DEF Clean, Unmade
<1> QED BY <1>3, <1>4, <1>5, <1>6 DEF Clean

\* The directory of a clean run is later than those of the runs before it and
\* earlier than those of the runs after it.
LEMMA CleanOrder ==
  ASSUME DirsInv, Naming, NEW r \in Run, Clean(r)
  PROVE  /\ path[r] \in Nat /\ path[r] > old /\ old \in Nat
         /\ \A q \in Run : q < r => path[q] < path[r]
         /\ \A q \in Run : q > r /\ Begun(q) => path[q] > path[r]
<1>1. path[r] \in Nat /\ old \in Nat
  <2>1. old \in 0 .. MaxDirs /\ MaxDirs \in Nat
    BY PruneAssumption DEF DirsInv, TypeOK
  <2>2. path[r] \in Name
    BY DEF Naming, Clean
  <2>3. path[r] \in Nat
    BY <2>2, NameAssumption
  <2> QED BY <2>1, <2>3
<1>2. \A q \in Run : Begun(q) => path[q] \in Nat
  BY NameAssumption DEF Naming
<1>3. \A q \in Run : q < r => Begun(q)
  BY DEF Naming, Clean
<1> QED BY <1>1, <1>2, <1>3 DEF Clean, ClockBack, Begun

\* It is not among the oldest when there are too many.
LEMMA CleanNotOldest ==
  ASSUME DirsInv, Naming, NEW r \in Run, Clean(r), path[r] \in dirs,
         Cardinality(dirs) > MaxDirs
  PROVE  path[r] \notin Oldest
<1> DEFINE Later == {q \in Run : q > r /\ at[q] # "idle"}
           above == {d \in dirs : d > path[r]}
           below == {d \in dirs : d < path[r]}
<1>1. /\ path[r] \in Nat /\ path[r] > old /\ old \in Nat
      /\ \A q \in Run : q < r => path[q] < path[r]
      /\ \A d \in dirs : d \in Nat
  BY CleanOrder, NameAssumption DEF DirsInv, TypeOK
<1>2. /\ IsFiniteSet(above) /\ IsFiniteSet(below) /\ IsFiniteSet(Later)
      /\ Cardinality(above) \in Nat /\ Cardinality(below) \in Nat
      /\ Cardinality(Later) \in Nat /\ Cardinality(dirs) \in Nat
  BY RunFacts, FS_Subset, FS_CardinalityType DEF DirsInv
<1>3. above \subseteq {path[q] : q \in Later}
  <2> SUFFICES ASSUME NEW d \in dirs, d > path[r]
               PROVE  \E q \in Later : d = path[q]
    OBVIOUS
  <2>1. d \notin 1 .. old
    BY <1>1
  <2>2. PICK q \in Run : Begun(q) /\ d = path[q]
    BY <2>1 DEF Naming, Known
  <2>3. q > r
    <3>1. q # r /\ ~ q < r
      BY <1>1, <2>2
    <3> QED BY <3>1, RunsAssumption DEF Run
  <2> QED BY <2>2, <2>3 DEF Begun
<1>4. Cardinality(above) <= Cardinality(Later)
  <2>1. /\ IsFiniteSet({path[q] : q \in Later})
        /\ Cardinality({path[q] : q \in Later}) <= Cardinality(Later)
    <3> DEFINE f == [q \in Later |-> path[q]]
    <3>1. f \in Surjection(Later, {path[q] : q \in Later})
      BY DEF Surjection
    <3> QED BY <1>2, <3>1, FS_Surjection
  <2>2. /\ Cardinality(above) <= Cardinality({path[q] : q \in Later})
        /\ Cardinality({path[q] : q \in Later}) \in Nat
    BY <1>3, <2>1, Smaller
  <2> QED BY <1>2, <2>1, <2>2
<1>5. Cardinality(dirs) <= Cardinality(below) + 1 + Cardinality(above)
  <2>1. dirs = (below \cup {path[r]}) \cup above
    BY <1>1
  <2>2. /\ IsFiniteSet(below \cup {path[r]})
        /\ Cardinality(below \cup {path[r]}) <= Cardinality(below) + 1
        /\ Cardinality(below \cup {path[r]}) \in Nat
    BY <1>2, FS_AddElement, OneMore
  <2>3. (below \cup {path[r]}) \cap above = {}
    BY <1>1
  <2>4. Cardinality((below \cup {path[r]}) \cup above) =
          Cardinality(below \cup {path[r]}) + Cardinality(above)
            - Cardinality((below \cup {path[r]}) \cap above)
    BY <1>2, <2>2, FS_Union
  <2>5. Cardinality((below \cup {path[r]}) \cap above) = 0
    BY <2>3, FS_EmptySet
  <2>6. Cardinality(dirs) =
          Cardinality(below \cup {path[r]}) + Cardinality(above)
    <3> HIDE DEF above, below
    <3> QED BY <1>2, <2>1, <2>2, <2>4, <2>5
  <2> HIDE DEF above, below
  <2> QED BY <1>2, <2>2, <2>6
<1>6. ~ Cardinality(Later) > MaxDirs - Removed
  BY DEF Clean, Overtaken
<1>7. ~ Cardinality(below) < Removed
  BY <1>2, <1>4, <1>5, <1>6, PruneAssumption
<1> QED BY <1>7 DEF Oldest

\* The directory of a clean run stays, and nobody takes it among the oldest.
LEMMA DirStays ==
  ASSUME DirsInv, Naming, [Next]_vars,
         NEW r \in Run, Clean(r), Clean(r)', Undisturbed(r)
  PROVE  path[r] \in dirs' /\ \A q \in Run : path[r] \notin plan'[q]
<1>1. path[r] \in dirs /\ \A q \in Run : path[r] \notin plan[q]
  BY DEF Undisturbed
<1>2. ASSUME NEW q \in Run, ListDirs(q)
      PROVE  path[r] \in dirs' /\ \A p \in Run : path[r] \notin plan'[p]
  <2>1. /\ dirs' = dirs
        /\ plan' = [plan EXCEPT
                      ![q] = IF Cardinality(dirs) > MaxDirs
                             THEN Oldest ELSE {}]
    BY <1>2 DEF ListDirs
  <2>2. Cardinality(dirs) > MaxDirs => path[r] \notin Oldest
    BY <1>1, CleanNotOldest
  <2>3. plan \in [Run -> SUBSET Name]
    BY DEF DirsInv, TypeOK
  <2> QED BY <1>1, <2>1, <2>2, <2>3
<1>3. ASSUME NEW q \in Run, RemoveDir(q)
      PROVE  path[r] \in dirs' /\ \A p \in Run : path[r] \notin plan'[p]
  <2>1. PICK d \in plan[q] : /\ plan' = [plan EXCEPT ![q] = @ \ {d}]
                             /\ dirs' = dirs \ {d} \/ dirs' = dirs
    BY <1>3, RemoveFacts
  <2>2. plan \in [Run -> SUBSET Name]
    BY DEF DirsInv, TypeOK
  <2> QED BY <1>1, <2>1, <2>2
<1>4. ASSUME NEW q \in Run,
             \/ MakeDir(q) \/ Fork(q) \/ ReadFiles(q) \/ Kill(q)
             \/ \E c \in Children : getWorkingDir(q, c) \/ writeVecToFile(q, c)
      PROVE  path[r] \in dirs' /\ \A p \in Run : path[r] \notin plan'[p]
  <2>1. dirs \subseteq dirs'
    BY <1>4 DEF MakeDir, Fork, ReadFiles, Kill, getWorkingDir, writeVecToFile
  <2>2. \A p \in Run : plan'[p] \subseteq plan[p]
    BY <1>4 DEF MakeDir, Fork, ReadFiles, Kill, getWorkingDir, writeVecToFile,
                DirsInv, TypeOK
  <2> QED BY <1>1, <2>1, <2>2
<1> QED BY <1>1, <1>2, <1>3, <1>4 DEF Next, vars

\* No other run starts its children while a clean run starts its own.
LEMMA StartsApart ==
  ASSUME DirsInv, Naming, [Next]_vars,
         NEW r \in Run, Clean(r), Clean(r)', Undisturbed(r)
  PROVE  /\ Starting(r)' => \A q \in Run : q > r => ~ Begun(q)'
         /\ \A q \in Run : q < r => ~ Starting(q)'
<1>1. Begun(r)
  BY DEF Clean
<1>2. ASSUME Starting(r)', NEW q \in Run, q > r PROVE ~ Begun(q)'
  <2>1. Starting(r)
    BY <1>1, <1>2, StartingEnds
  <2>2. ~ Begun(q)
    BY <1>2, <2>1 DEF Undisturbed
  <2>3. ~ MakeDir(q)
    <3>1. SUFFICES ASSUME MakeDir(q) PROVE FALSE
      OBVIOUS
    <3>2. r \in starting'[q]
      BY <2>1, <3>1 DEF MakeDir, DirsInv, TypeOK
    <3> QED BY <3>2 DEF Clean, Beside
  <2> QED BY <2>2, <2>3, NotBegunYet
<1>3. ASSUME NEW q \in Run, q < r PROVE ~ Starting(q)'
  <2>1. Begun(q) /\ ~ Starting(q)
    BY <1>1, <1>3 DEF Naming, Undisturbed
  <2> QED BY <2>1, StartingEnds
<1> QED BY <1>2, <1>3

\* The children of a clean run, and no others, find its directory.
LEMMA FindsOwn ==
  ASSUME DirsInv, Naming, [Next]_vars,
         NEW r \in Run, Clean(r), Clean(r)', Undisturbed(r)
  PROVE  /\ \A c \in Found(r)' : dirOf'[r][c] = path[r]
         /\ \A q \in Run \ {r} : \A c \in Children : dirOf'[q][c] # path[r]
<1> DEFINE Own == \A c \in Found(r)' : dirOf'[r][c] = path[r]
           Others == \A q \in Run \ {r} : \A c \in Children :
                       dirOf'[q][c] # path[r]
<1>1. /\ \A c \in Found(r) : dirOf[r][c] = path[r]
      /\ \A q \in Run \ {r} : \A c \in Children : dirOf[q][c] # path[r]
  BY DEF Undisturbed
<1>2. ASSUME NEW q \in Run, NEW c \in Children, getWorkingDir(q, c)
      PROVE  Own /\ Others
  <2>9. dirs # {}
    BY DEF Undisturbed
  <2>1. /\ child[q][c] = "forked" /\ at' = at
        /\ dirOf' = [dirOf EXCEPT ![q][c] = Max(dirs)]
        /\ child' = [child EXCEPT ![q][c] = "running"]
    BY <1>2, <2>9 DEF getWorkingDir
  <2>2. /\ dirOf \in [Run -> [Children -> Name \cup {NoName}]]
        /\ child \in [Run -> [Children ->
                                {"none", "forked", "running", "gone"}]]
    BY DEF DirsInv, TypeOK
  <2>3. Begun(q) /\ Starting(q)
    <3>1. at[q] \in {"idle", "list", "prune"} =>
            \A e \in Children : child[q][e] = "none"
      BY DEF DirsInv, Phases
    <3>2. at[q] # "idle"
      BY <2>1, <3>1
    <3> QED BY <2>1, <3>2 DEF Begun, Starting
  <2>4. PICK m \in dirs : Max(dirs) = m /\ \A d \in dirs : d <= m
    BY <2>9, NewestFacts
  <2>5. /\ path[r] \in Nat /\ m \in Nat /\ \A d \in dirs : d \in Nat
        /\ path[r] > old /\ old \in Nat
        /\ \A p \in Run : p < r => path[p] < path[r]
        /\ \A p \in Run : p > r /\ Begun(p) => path[p] > path[r]
    BY CleanOrder, NameAssumption DEF DirsInv, TypeOK
  <2>6. CASE q = r
    <3>1. \A p \in Run : p > r => ~ Begun(p)
      BY <2>3, <2>6 DEF Undisturbed
    <3>2. \A d \in dirs : d <= path[r]
      <4> SUFFICES ASSUME NEW d \in dirs PROVE d <= path[r]
        OBVIOUS
      <4>1. CASE d \in 1 .. old
        BY <2>5, <4>1
      <4>2. CASE d \notin 1 .. old
        <5>1. PICK p \in Run : Begun(p) /\ d = path[p]
          BY <4>2 DEF Naming, Known
        <5>2. p = r \/ p < r
          <6>1. ~ p > r
            BY <3>1, <5>1
          <6> QED BY <6>1, RunsAssumption DEF Run
        <5> QED BY <2>5, <5>1, <5>2
      <4> QED BY <4>1, <4>2
    <3>3. m = path[r]
      <4>1. path[r] \in dirs
        BY DEF Undisturbed
      <4> QED BY <2>4, <2>5, <3>2, <4>1
    <3>4. Own
      <4>1. \A e \in Children : e # c =>
              child'[r][e] = child[r][e] /\ dirOf'[r][e] = dirOf[r][e]
        BY <2>1, <2>2, <2>6
      <4>2. dirOf'[r][c] = path[r]
        BY <2>1, <2>2, <2>4, <2>6, <3>3
      <4> QED BY <1>1, <4>1, <4>2 DEF Found
    <3>5. Others
      BY <1>1, <2>1, <2>2, <2>6
    <3> QED BY <3>4, <3>5
  <2>7. CASE q # r
    <3>1. q > r
      <4>1. ~ q < r
        BY <2>3 DEF Undisturbed
      <4> QED BY <2>7, <4>1, RunsAssumption DEF Run
    <3>2. PICK d \in dirs : path[q] <= d
      <4>1. q \notin unmade
        BY <3>1, RunsAssumption DEF Clean, Unmade, Run
      <4> QED BY <2>3, <4>1 DEF Naming
    <3>3. m # path[r]
      <4>1. path[q] \in Nat
        BY <2>3, NameAssumption DEF Naming
      <4>2. path[q] > path[r] /\ d <= m /\ d \in Nat
        BY <2>3, <2>4, <2>5, <3>1
      <4> QED BY <2>5, <3>2, <4>1, <4>2
    <3>4. Own
      <4>1. child'[r] = child[r] /\ dirOf'[r] = dirOf[r]
        BY <2>1, <2>2, <2>7
      <4> QED BY <1>1, <4>1 DEF Found
    <3>5. Others
      BY <1>1, <2>1, <2>2, <2>4, <3>3
    <3> QED BY <3>4, <3>5
  <2> QED BY <2>6, <2>7
<1>3. ASSUME NEW q \in Run,
             \/ MakeDir(q) \/ ListDirs(q) \/ RemoveDir(q) \/ Fork(q)
             \/ ReadFiles(q) \/ Kill(q)
             \/ \E c \in Children : writeVecToFile(q, c)
      PROVE  Own /\ Others
  <2>1. dirOf' = dirOf
    BY <1>3 DEF MakeDir, ListDirs, RemoveDir, Fork, ReadFiles, Kill,
                writeVecToFile
  <2>2. Found(r)' \subseteq Found(r)
    <3>1. CASE child' = child
      BY <3>1 DEF Found
    <3>2. CASE Fork(q)
      BY <3>2 DEF Fork, Found, DirsInv, TypeOK
    <3>3. ASSUME NEW c \in Children, writeVecToFile(q, c)
          PROVE  Found(r)' \subseteq Found(r)
      <4>1. /\ child' = [child EXCEPT ![q][c] = "gone"]
            /\ child[q][c] = "running"
        BY <3>3 DEF writeVecToFile
      <4>2. child \in [Run -> [Children ->
                                 {"none", "forked", "running", "gone"}]]
        BY DEF DirsInv, TypeOK
      <4> QED BY <4>1, <4>2 DEF Found
    <3> QED
      BY <1>3, <3>1, <3>2, <3>3 DEF MakeDir, ListDirs, RemoveDir, ReadFiles, Kill
  <2> QED BY <1>1, <2>1, <2>2
<1>4. ASSUME UNCHANGED vars PROVE Own /\ Others
  BY <1>1, <1>4 DEF vars, Found
<1> QED BY <1>2, <1>3, <1>4 DEF Next

\* The files in its directory are those its children wrote.
LEMMA HoldsOwn ==
  ASSUME DirsInv, Naming, [Next]_vars,
         NEW r \in Run, Clean(r), Clean(r)', Undisturbed(r)
  PROVE  In(path[r])' = FilesOf(r, Wrote(r))'
<1>1. In(path[r]) = FilesOf(r, Wrote(r))
  BY DEF Undisturbed
<1>2. path'[r] = path[r]
  BY BegunKept DEF Clean
<1>3. ASSUME \A f : f.dir = path[r] => (f \in files' <=> f \in files),
             Wrote(r)' = Wrote(r)
      PROVE  In(path[r])' = FilesOf(r, Wrote(r))'
  <2>1. In(path[r])' = In(path[r])
    BY <1>2, <1>3 DEF In
  <2>2. FilesOf(r, Wrote(r))' = FilesOf(r, Wrote(r))
    BY <1>2, <1>3 DEF FilesOf
  <2> QED BY <1>1, <2>1, <2>2
<1>4. ASSUME NEW q \in Run, RemoveDir(q)
      PROVE  In(path[r])' = FilesOf(r, Wrote(r))'
  <2>1. PICK d \in Nat : /\ d = Min(plan[q])
                         /\ files' = {f \in files : f.dir # d} \/ files' = files
    <3>1. plan[q] \in SUBSET Nat /\ plan[q] # {}
      BY <1>4, NameAssumption DEF RemoveDir, DirsInv, TypeOK
    <3>2. Min(plan[q]) \in Nat
      BY <3>1, MinElement
    <3> QED BY <1>4, <3>2 DEF RemoveDir
  <2>2. d # path[r]
    <3>1. plan[q] \in SUBSET Nat /\ plan[q] # {}
      BY <1>4, NameAssumption DEF RemoveDir, DirsInv, TypeOK
    <3>2. Min(plan[q]) \in plan[q]
      BY <3>1, MinElement
    <3> QED BY <2>1, <3>2 DEF Undisturbed
  <2>3. Wrote(r)' = Wrote(r)
    BY <1>4 DEF RemoveDir, Wrote
  <2> QED BY <1>3, <2>1, <2>2, <2>3
<1>5. ASSUME NEW q \in Run, NEW c \in Children, writeVecToFile(q, c)
      PROVE  In(path[r])' = FilesOf(r, Wrote(r))'
  <2> DEFINE new == [dir |-> dirOf[q][c], run |-> q, child |-> c]
  <2>1. /\ child' = [child EXCEPT ![q][c] = "gone"]
        /\ child[q][c] = "running"
        /\ files' = IF dirOf[q][c] \in dirs THEN files \cup {new} ELSE files
    BY <1>5 DEF writeVecToFile
  <2>2. child \in [Run -> [Children ->
                             {"none", "forked", "running", "gone"}]]
    BY DEF DirsInv, TypeOK
  <2>3. CASE q = r
    <3>1. dirOf[r][c] = path[r] /\ path[r] \in dirs
      BY <2>1, <2>3 DEF Undisturbed, Found
    <3>2. Wrote(r)' = Wrote(r) \cup {c}
      BY <2>1, <2>2, <2>3 DEF Wrote
    <3>3. new.dir = path[r]
      BY <2>3, <3>1
    <3>4. In(path[r])' = In(path[r]) \cup {new}
      <4>1. files' = files \cup {new}
        BY <2>1, <2>3, <3>1
      <4> HIDE DEF new
      <4> QED BY <1>2, <3>3, <4>1 DEF In
    <3>5. FilesOf(r, Wrote(r))' = FilesOf(r, Wrote(r)) \cup {new}
      BY <1>2, <2>3, <3>1, <3>2 DEF FilesOf
    <3> QED BY <1>1, <3>4, <3>5
  <2>4. CASE q # r
    <3>1. dirOf[q][c] # path[r]
      BY <2>4 DEF Undisturbed
    <3>2. Wrote(r)' = Wrote(r)
      BY <2>1, <2>2, <2>4 DEF Wrote
    <3>3. \A f : f.dir = path[r] => (f \in files' <=> f \in files)
      BY <2>1, <3>1
    <3> QED BY <1>3, <3>2, <3>3
  <2> QED BY <2>3, <2>4
<1>6. ASSUME NEW q \in Run,
             \/ MakeDir(q) \/ ListDirs(q) \/ Fork(q) \/ ReadFiles(q) \/ Kill(q)
             \/ \E c \in Children : getWorkingDir(q, c)
      PROVE  In(path[r])' = FilesOf(r, Wrote(r))'
  <2>1. files' = files
    BY <1>6 DEF MakeDir, ListDirs, Fork, ReadFiles, Kill, getWorkingDir
  <2>2. Wrote(r)' = Wrote(r)
    <3>1. CASE child' = child
      BY <3>1 DEF Wrote
    <3>2. CASE Fork(q)
      <4>1. \A c \in Children : child[q][c] = "none"
        BY <3>2 DEF Fork, DirsInv, Phases
      <4> QED BY <3>2, <4>1 DEF Fork, Wrote, DirsInv, TypeOK
    <3>3. ASSUME NEW c \in Children, getWorkingDir(q, c)
          PROVE  Wrote(r)' = Wrote(r)
      <4>1. /\ child' = [child EXCEPT ![q][c] = "running"]
            /\ child[q][c] = "forked"
        BY <3>3 DEF getWorkingDir, Undisturbed
      <4>2. child \in [Run -> [Children ->
                                 {"none", "forked", "running", "gone"}]]
        BY DEF DirsInv, TypeOK
      <4> QED BY <4>1, <4>2 DEF Wrote
    <3> QED
      BY <1>6, <3>1, <3>2, <3>3 DEF MakeDir, ListDirs, ReadFiles, Kill
  <2> QED BY <1>3, <2>1, <2>2
<1>7. ASSUME UNCHANGED vars PROVE In(path[r])' = FilesOf(r, Wrote(r))'
  BY <1>3, <1>7 DEF vars, Wrote
<1> QED BY <1>4, <1>5, <1>6, <1>7 DEF Next

\* It reads them all.
LEMMA ReadsOwn ==
  ASSUME DirsInv, [Next]_vars, NEW r \in Run, Clean(r), Undisturbed(r)
  PROVE  at'[r] # "aborted" /\ (at'[r] = "read" => read'[r] = OwnFiles(r)')
<1> DEFINE Reads == /\ at'[r] # "aborted"
                    /\ at'[r] = "read" => read'[r] = OwnFiles(r)'
<1>1. OwnFiles(r)' = OwnFiles(r)
  <2>1. path'[r] = path[r]
    BY BegunKept DEF Clean
  <2> QED BY <2>1 DEF OwnFiles
<1>2. /\ at \in [Run -> {"idle", "list", "prune", "run"} \cup Ended]
      /\ read \in [Run -> SUBSET File]
  BY DEF DirsInv, TypeOK
<1>3. at[r] # "aborted" /\ (at[r] = "read" => read[r] = OwnFiles(r))
  BY DEF Undisturbed
<1>4. ASSUME NEW q \in Run, ReadFiles(q) PROVE Reads
  <2>1. CASE q = r
    <3>1. Wrote(r) = Children
      BY <1>4, <2>1 DEF ReadFiles, Wrote
    <3>2. In(path[r]) = OwnFiles(r) /\ path[r] \in dirs
      BY <3>1 DEF Undisturbed, FilesOf, OwnFiles
    <3>3. at'[r] = "read" /\ read'[r] = In(path[r])
      BY <1>2, <1>4, <2>1, <3>2 DEF ReadFiles, In
    <3> QED BY <1>1, <3>2, <3>3
  <2>2. CASE q # r
    BY <1>1, <1>2, <1>3, <1>4, <2>2 DEF ReadFiles
  <2> QED BY <2>1, <2>2
<1>5. ASSUME NEW q \in Run,
             MakeDir(q) \/ ListDirs(q) \/ Fork(q) \/ Kill(q)
      PROVE  Reads
  BY <1>1, <1>2, <1>3, <1>5 DEF MakeDir, ListDirs, Fork, Kill
<1>6. ASSUME at' = at, read' = read PROVE Reads
  BY <1>1, <1>3, <1>6
<1> QED
  BY <1>4, <1>5, <1>6 DEF Next, RemoveDir, getWorkingDir, writeVecToFile, vars

\* A clean run has just made its directory: nobody knew the name.
LEMMA NewRun ==
  ASSUME DirsInv, Naming, NEW r \in Run, MakeDir(r), Clean(r)'
  PROVE  Undisturbed(r)'
<1>1. PICK name \in Name : /\ path' = [path EXCEPT ![r] = name]
                           /\ dirs' = dirs \cup {name}
  <2>1. r \notin unmade'
    BY RunsAssumption DEF Clean, Unmade, Run
  <2> QED BY <2>1, MakeFacts
<1>2. /\ path'[r] = name /\ \A q \in Run : q # r => path'[q] = path[q]
      /\ starting'[r] = {q \in Run : Starting(q)}
      /\ \A q \in Run : q # r => at'[q] = at[q]
      /\ at'[r] = "list" /\ ~ Begun(r)
      /\ UNCHANGED <<old, plan, child, dirOf, files>>
  BY <1>1 DEF MakeDir, DirsInv, TypeOK, Begun
<1>3. name \notin Known /\ name # NoName
  <2>1. name > old /\ name \in Nat /\ old \in Nat
    <3>1. old \in Nat
      BY PruneAssumption DEF DirsInv, TypeOK
    <3>2. ~ name <= old
      BY <1>2 DEF Clean, ClockBack
    <3> QED BY <3>1, <3>2, NameAssumption
  <2>2. ASSUME NEW q \in Run, Begun(q), path[q] = name PROVE FALSE
    <3>1. q < r
      <4>1. ~ q > r /\ q # r
        BY <1>2, <2>2 DEF Naming
      <4> QED BY <4>1, RunsAssumption DEF Run
    <3>2. path'[q] >= path'[r]
      <4>1. q # r
        BY <1>2, <2>2
      <4> QED BY <1>2, <2>1, <2>2, <4>1
    <3> QED BY <3>1, <3>2 DEF Clean, ClockBack
  <2> QED BY <2>1, <2>2 DEF Known, NoName
<1>4. \A q \in Run : ~ Starting(q)
  BY <1>2 DEF Clean, Beside
<1>5. \A c \in Children : child[r][c] = "none"
  BY DEF MakeDir, DirsInv, Phases
<1>6. \A q \in Run : q > r => ~ Begun(q)'
  <2> SUFFICES ASSUME NEW q \in Run, q > r PROVE ~ Begun(q)'
    OBVIOUS
  <2>1. q # r /\ r < q
    BY RunsAssumption DEF Run
  <2>2. ~ Begun(q)
    BY <1>2, <2>1 DEF Naming
  <2> QED BY <1>2, <2>1, <2>2 DEF Begun
<1>7. \A q \in Run : q < r => ~ Starting(q)'
  <2> SUFFICES ASSUME NEW q \in Run, q < r PROVE ~ Starting(q)'
    OBVIOUS
  <2>1. q # r
    BY RunsAssumption DEF Run
  <2> QED BY <1>2, <1>4, <2>1 DEF Starting
<1>8. /\ path'[r] \in dirs'
      /\ \A q \in Run : path'[r] \notin plan'[q]
      /\ \A q \in Run \ {r} : \A c \in Children : dirOf'[q][c] # path'[r]
  BY <1>1, <1>2, <1>3 DEF Naming
<1>9. Found(r)' = {} /\ Wrote(r)' = {}
  BY <1>2, <1>5 DEF Found, Wrote
<1>10. In(path[r])' = FilesOf(r, Wrote(r))'
  <2>1. In(path[r])' = {}
    BY <1>2, <1>3 DEF In, Naming
  <2>2. FilesOf(r, Wrote(r))' = {}
    BY <1>9 DEF FilesOf
  <2> QED BY <2>1, <2>2
<1> QED
  BY <1>2, <1>6, <1>7, <1>8, <1>9, <1>10 DEF Undisturbed

LEMMA AloneStep ==
  ASSUME DirsInv, Naming, Alone, [Next]_vars
  PROVE  Alone'
<1> SUFFICES ASSUME NEW r \in Run, Clean(r)' PROVE Undisturbed(r)'
  BY DEF Alone
<1>1. CASE ~ Begun(r)
  <2>1. Begun(r)'
    BY DEF Clean
  <2>2. MakeDir(r)
    BY <1>1, <2>1, NotBegunYet
  <2> QED BY <2>2, NewRun
<1>2. CASE Begun(r)
  <2>1. Clean(r)
    BY <1>2, CleanBefore
  <2>2. Undisturbed(r)
    BY <2>1 DEF Alone
  <2>3. path'[r] = path[r]
    BY <1>2, BegunKept
  <2>4. path'[r] \in dirs' /\ \A q \in Run : path'[r] \notin plan'[q]
    BY <2>1, <2>2, <2>3, DirStays
  <2>5. /\ Starting(r)' => \A q \in Run : q > r => ~ Begun(q)'
        /\ \A q \in Run : q < r => ~ Starting(q)'
    BY <2>1, <2>2, StartsApart
  <2>6. /\ \A c \in Found(r)' : dirOf'[r][c] = path'[r]
        /\ \A q \in Run \ {r} : \A c \in Children : dirOf'[q][c] # path'[r]
    BY <2>1, <2>2, <2>3, FindsOwn
  <2>7. In(path[r])' = FilesOf(r, Wrote(r))'
    BY <2>1, <2>2, HoldsOwn
  <2>8. at'[r] # "aborted" /\ (at'[r] = "read" => read'[r] = OwnFiles(r)')
    BY <2>1, <2>2, ReadsOwn
  <2> QED BY <2>4, <2>5, <2>6, <2>7, <2>8 DEF Undisturbed
<1> QED BY <1>1, <1>2
-----------------------------------------------------------------------------
(***************************************************************************)
(* The newest directory is never about to be removed, whatever the runs    *)
(* beside each other list and remove.                                      *)
(***************************************************************************)
THEOREM DirsInvariant == Spec => []DirsInv
<1>1. DirsInv /\ [Next]_vars => DirsInv'
  BY TypeStep, FiniteStep, PhasesStep, NewestStep DEF DirsInv
<1> QED BY <1>1, DirsInit, PTL DEF Spec

(***************************************************************************)
(* Type correctness.                                                       *)
(***************************************************************************)
THEOREM TypeCorrect == Spec => []TypeOK
BY DirsInvariant, PTL DEF DirsInv

(***************************************************************************)
(* A child that looks for its directory finds one, for any number of       *)
(* overlapping, killed and failing runs, unless none was ever made.        *)
(***************************************************************************)
THEOREM WorkingDirExistsHolds == Spec => []WorkingDirExists
<1>1. DirsInv => WorkingDirExists
  BY DEF DirsInv, Phases, Newest, WorkingDirExists
<1> QED BY <1>1, DirsInvariant, PTL

(***************************************************************************)
(* The directories do not pile up, however many runs there are, as long as *)
(* no more than Removed of them are removing directories at the same time: *)
(* each of these takes Removed directories away, and may count on the same *)
(* ones as the others.                                                     *)
(***************************************************************************)
THEOREM DirsBoundedHolds == Spec /\ []FewPrune => []DirsBounded
<1>1. DirsInv /\ Pruned /\ FewPrune' /\ [Next]_vars => Pruned'
  BY PrunedStep
<1>2. Pruned => DirsBounded
  <2>1. Staying(dirs, plan, {}) = dirs
    BY DEF Staying
  <2>2. Waiting(at, child, unmade) \ {} = {r \in Run : Unpruned(r)}
    BY DEF Waiting, Unpruned
  <2> QED BY <2>1, <2>2 DEF Pruned, DirsBounded
<1> QED BY <1>1, <1>2, PrunedInit, DirsInvariant, PTL DEF Spec

(***************************************************************************)
(* The directories do not pile up at all when there are no more runs than  *)
(* directories a run removes.                                              *)
(***************************************************************************)
THEOREM DirsBoundedForFewRuns ==
  ASSUME Runs <= Removed
  PROVE  Spec => []DirsBounded
<1>1. FewPrune
  <2> DEFINE Pruning == {r \in Run : at[r] = "prune"}
  <2>1. 1 \in Int /\ Runs \in Int /\ Runs - 1 + 1 = Runs /\ 1 <= Runs
    BY RunsAssumption
  <2>2. IsFiniteSet(Run) /\ Cardinality(Run) = Runs
    BY <2>1, FS_Interval DEF Run
  <2>3. Pruning \subseteq Run
    OBVIOUS
  <2> HIDE DEF Pruning
  <2>4. Cardinality(Pruning) <= Cardinality(Run) /\ Cardinality(Pruning) \in Nat
    BY <2>2, <2>3, FS_Subset, FS_CardinalityType
  <2>5. Removed \in Int
    BY PruneAssumption
  <2> QED BY <2>1, <2>2, <2>4, <2>5 DEF FewPrune, Pruning
<1>2. []FewPrune
  BY <1>1, PTL
<1> QED BY <1>2, DirsBoundedHolds, PTL

(***************************************************************************)
(* The statistics of a run are computed from the samples of its own        *)
(* children, all of them and no others, for any number of overlapping,     *)
(* killed and failing runs, unless the clock was set back, children of two *)
(* runs were starting at the same time, many runs began during this one,   *)
(* or its directory, or a later run's, could not be made.                  *)
(***************************************************************************)
THEOREM OwnResultsHolds == Spec => []OwnResults
<1>1. Init => Naming /\ Alone
  <2>1. Init => Alone
    BY DEF Init, Alone, Clean, Begun
  <2> QED BY <2>1, NamingInit
<1>2. DirsInv /\ Naming /\ Alone /\ [Next]_vars => Naming' /\ Alone'
  BY NamingStep, AloneStep
<1>3. DirsInv /\ Naming /\ Alone => OwnResults
  <2> SUFFICES ASSUME Alone, NEW r \in Run, at[r] \in {"read", "aborted"},
                      ~ (\/ ClockBack(r) \/ Beside(r)
                         \/ Overtaken(r) \/ Unmade(r))
               PROVE  at[r] = "read" /\ read[r] = OwnFiles(r)
    BY DEF OwnResults
  <2>1. Clean(r)
    BY DEF Clean, Begun
  <2>2. at[r] # "aborted" /\ (at[r] = "read" => read[r] = OwnFiles(r))
    BY <2>1 DEF Alone, Undisturbed
  <2> QED BY <2>2
<1> QED BY <1>1, <1>2, <1>3, DirsInvariant, PTL DEF Spec
=============================================================================
