-------------------------- MODULE SubListenerProofs --------------------------
(***************************************************************************)
(* Proofs about SubListener, for every finite set of topics, every number  *)
(* of rounds and every set of faults.                                      *)
(***************************************************************************)
EXTENDS SubListener, FiniteSetTheorems, TLAPS

-----------------------------------------------------------------------------
(* The inductive invariant. *)

\* The deliveries of W to listener i.
To(W, i) == {m \in W : m.to = i}

\* What is under way to a listener, in its callback's hands or sampled is no
\* more than what was sent: nothing is sampled twice.
Conserved ==
  \A i \in Listener :
    /\ IsFiniteSet(To(wire, i))
    /\ Cardinality(To(wire, i)) + duration_vec[i]
         + (IF callback[i].at = "push" THEN 1 ELSE 0) <= sent[subscription[i]]

\* How often the size of a message that is counted is still to be added.
Unsized(at) == IF at = "size" THEN 2 ELSE IF at = "account" THEN 1 ELSE 0

\* How far the figures of a listener may be apart, by where its callback is.
Figures ==
  \A i \in Listener :
    /\ duration_vec[i] = count_arraived[i]
                         + (IF callback[i].at = "count" THEN 1 ELSE 0)
    /\ messeges_size[i] = 2 * count_arraived[i] - Unsized(callback[i].at)

\* The dump's place among the listeners, and what it has in hand.
Place ==
  /\ main \in {"register", "listen"} =>
       atStop = Zero /\ file = Zero /\ torn = {}
  /\ main = "listen" => idx = 1
  /\ main \in {"dump", "figures", "test", "writing"} =>
       \A i \in Listener : i >= idx => file[i] = 0
  /\ main = "writing" => atStop[idx] <= end /\ end <= duration_vec[idx]

\* The samples at "Stop" are still there, and what is done with them.
Kept ==
  /\ \A i \in Listener : atStop[i] <= duration_vec[i]
  /\ DumpKeeps

\* The figures just printed, before the samples that go with them are out.
Taken == IF main = "writing" THEN end ELSE duration_vec[idx]

InHand ==
  /\ main \in {"figures", "test", "writing"} =>
       atStop[idx] - 1 <= printed[idx].count /\ printed[idx].count <= Taken
  /\ main = "figures" => printed[idx].count <= count_arraived[idx]
  /\ main \in {"test", "writing"} =>
       printed[idx].size \in 2 * printed[idx].count - 2 .. 2 * Taken

DumpInv == Place /\ Kept /\ InHand /\ FiguresPrinted
-----------------------------------------------------------------------------
(* The listeners' numbers, and the index of main's loops over them. *)

LEMMA ListenerFacts ==
  /\ N \in Nat /\ N >= 1 /\ 1 \in Listener
  /\ \A i \in Listener : i \in Nat /\ i >= 1 /\ i <= N
  /\ \A i \in Listener : i < N => i + 1 \in Listener
<1>1. N \in Nat
  BY UrisAssumption, FS_CardinalityType DEF N
<1>2. N # 0
  BY UrisAssumption, FS_EmptySet DEF N
<1> QED BY <1>1, <1>2 DEF Listener

LEMMA AdvanceFacts ==
  ASSUME idx \in Listener, NEW this, NEW next, Advance(this, next)
  PROVE  \/ main' = this /\ idx' = idx + 1 /\ idx' \in Listener
         \/ main' = next /\ idx' = 1 /\ \A i \in Listener : i <= idx
BY ListenerFacts DEF Advance

LEMMA TypeFacts ==
  ASSUME TypeOK
  PROVE  /\ \A i \in Listener :
              /\ duration_vec[i] \in Nat /\ count_arraived[i] \in Nat
              /\ messeges_size[i] \in Nat /\ file[i] \in Nat
              /\ atStop[i] \in Nat /\ printed[i].count \in Nat
              /\ printed[i].size \in Nat /\ subscription[i] \in Uris
         /\ \A u \in Uris : sent[u] \in Nat /\ sent[u] <= Rounds
         /\ end \in Nat /\ idx \in Listener /\ idx \in Nat
BY RoundsAssumption, ListenerFacts DEF TypeOK
-----------------------------------------------------------------------------
LEMMA TypeInit == Init => TypeOK
<1> SUFFICES ASSUME Init PROVE TypeOK
  OBVIOUS
<1>1. 0 \in 0 .. Rounds /\ 0 \in 0 .. Rounds - 1 /\ 0 \in 0 .. 2 * Rounds
  BY RoundsAssumption
<1>2. Zero \in [Listener -> 0 .. Rounds] /\ Zero \in [Listener -> 0 .. Rounds - 1]
      /\ Zero \in [Listener -> 0 .. 2 * Rounds]
  BY <1>1 DEF Zero
<1>3. /\ callback \in
           [Listener -> [at : {"idle", "push", "count", "size", "account"},
                         counter : 0 .. Rounds - 1]]
      /\ printed \in [Listener -> [count : 0 .. Rounds, size : 0 .. 2 * Rounds]]
  BY <1>1 DEF Init, Idle, NotPrinted
<1> QED BY <1>1, <1>2, <1>3, ListenerFacts DEF Init, TypeOK

\* A round more for a listener is a round that was sent.
LEMMA PushBound ==
  ASSUME TypeOK, Conserved, NEW i \in Listener, callback[i].at = "push"
  PROVE  duration_vec[i] + 1 <= Rounds
<1>1. Cardinality(To(wire, i)) \in Nat
  BY FS_CardinalityType DEF Conserved
<1> QED BY <1>1, TypeFacts, RoundsAssumption DEF Conserved

LEMMA TypeStep ==
  ASSUME TypeOK, Conserved, Figures, Place, [Next]_vars
  PROVE  TypeOK'
<1> USE DEF TypeOK, mainVars, listenerVars, Ended
<1>1. ASSUME NEW u \in Uris, Send(u) PROVE TypeOK'
  <2>1. sent' \in [Uris -> 0 .. Rounds] /\ sent[u] \in 0 .. Rounds - 1
    BY <1>1, RoundsAssumption DEF Send
  <2>2. wire' \subseteq [to : Listener, counter : 0 .. Rounds - 1]
    BY <1>1, <2>1 DEF Send
  <2> QED BY <1>1, <2>1, <2>2 DEF Send
<1>2. ASSUME NEW m \in wire, Drop(m) PROVE TypeOK'
  BY <1>2 DEF Drop
<1>3. ASSUME NEW m \in wire, Deliver(m) PROVE TypeOK'
  BY <1>3 DEF Deliver
<1>4. ASSUME NEW i \in Listener, PushBack(i) PROVE TypeOK'
  <2>1. duration_vec[i] + 1 \in 0 .. Rounds
    BY <1>4, PushBound, TypeFacts, RoundsAssumption DEF PushBack
  <2> QED BY <1>4, <2>1 DEF PushBack
<1>5. ASSUME NEW i \in Listener, Count(i) PROVE TypeOK'
  <2>1. count_arraived[i] + 1 \in 0 .. Rounds
    BY <1>5, RoundsAssumption DEF Count, Figures
  <2> QED BY <1>5, <2>1 DEF Count
<1>9. ASSUME NEW i \in Listener, AddSize(i) PROVE TypeOK'
  <2>1. messeges_size[i] + 1 \in 0 .. 2 * Rounds
    BY <1>9, RoundsAssumption DEF AddSize, Figures, Unsized
  <2> QED BY <1>9, <2>1 DEF AddSize
<1>6. ASSUME NEW i \in Listener, Account(i) PROVE TypeOK'
  <2>1. messeges_size[i] + 1 \in 0 .. 2 * Rounds
    BY <1>6, RoundsAssumption DEF Account, Figures, Unsized
  <2>2. Idle \in [at : {"idle", "push", "count", "size", "account"},
                  counter : 0 .. Rounds - 1]
    BY RoundsAssumption DEF Idle
  <2> QED BY <1>6, <2>1, <2>2 DEF Account
<1>7. CASE MainStep
  <2>1. CASE Register
    <3>1. idx' \in Listener /\ main' \in {"register", "listen", "delete"}
      BY <2>1, AdvanceFacts, ListenerFacts DEF Register
    <3>2. registered' \subseteq Listener
      BY <2>1 DEF Register
    <3> QED BY <2>1, <3>1, <3>2 DEF Register
  <2>2. CASE SeeStop
    BY <2>2 DEF SeeStop
  <2>3. CASE Dump
    BY <2>3 DEF Dump
  <2>8. CASE DumpSize
    BY <2>8 DEF DumpSize
  <2>4. CASE TestSize
    <3>1. /\ idx' \in Listener /\ main' \in {"dump", "unregister", "writing"}
          /\ end' \in 0 .. Rounds
      BY <2>4, AdvanceFacts, ListenerFacts DEF TestSize
    <3> QED BY <2>4, <3>1 DEF TestSize
  <2>5. CASE Write
    <3>1. /\ idx' \in Listener /\ main' \in {"dump", "unregister"}
          /\ torn' \subseteq Listener
      BY <2>5, AdvanceFacts, ListenerFacts DEF Write
    <3>2. file[idx] = 0 /\ file' = [file EXCEPT ![idx] = file[idx] + end]
      BY <2>5, TypeFacts DEF Write, Place
    <3>3. file' \in [Listener -> 0 .. Rounds]
      BY <3>2
    <3> QED BY <2>5, <3>1, <3>3 DEF Write
  <2>6. CASE Unregister
    <3>1. idx' \in Listener /\ main' \in {"unregister", "delete", "leaked"}
      BY <2>6, AdvanceFacts, ListenerFacts DEF Unregister
    <3>2. registered' \subseteq Listener
      BY <2>6 DEF Unregister
    <3> QED BY <2>6, <3>1, <3>2 DEF Unregister
  <2>7. CASE Delete
    BY <2>7 DEF Delete
  <2> QED BY <1>7, <2>1, <2>2, <2>3, <2>4, <2>5, <2>6, <2>7, <2>8 DEF MainStep
<1>8. CASE UNCHANGED vars
  BY <1>8 DEF vars
<1> QED BY <1>1, <1>2, <1>3, <1>4, <1>5, <1>6, <1>7, <1>8, <1>9 DEF Next
-----------------------------------------------------------------------------
LEMMA ConservedInit == Init => Conserved
<1> SUFFICES ASSUME Init PROVE Conserved
  OBVIOUS
<1>1. IsFiniteSet({}) /\ Cardinality({}) = 0
  BY FS_EmptySet
<1>2. \A i \in Listener : To(wire, i) = {}
  BY DEF Init, To
<1> QED BY <1>1, <1>2 DEF Init, Conserved, Zero, Idle

\* One delivery more, and one less.
LEMMA ToCounts ==
  ASSUME NEW W, NEW i, IsFiniteSet(To(W, i))
  PROVE  /\ Cardinality(To(W, i)) \in Nat
         /\ \A V, m : To(V, i) = To(W, i) \cup {m} =>
              /\ IsFiniteSet(To(V, i)) /\ Cardinality(To(V, i)) \in Nat
              /\ Cardinality(To(V, i)) <= Cardinality(To(W, i)) + 1
         /\ \A m \in W :
              /\ IsFiniteSet(To(W \ {m}, i))
              /\ Cardinality(To(W \ {m}, i)) \in Nat
              /\ Cardinality(To(W \ {m}, i)) =
                   Cardinality(To(W, i)) - (IF m.to = i THEN 1 ELSE 0)
<1>1. Cardinality(To(W, i)) \in Nat
  BY FS_CardinalityType
<1>2. ASSUME NEW V, NEW m, To(V, i) = To(W, i) \cup {m}
      PROVE  /\ IsFiniteSet(To(V, i)) /\ Cardinality(To(V, i)) \in Nat
             /\ Cardinality(To(V, i)) <= Cardinality(To(W, i)) + 1
  <2>1. IsFiniteSet(To(V, i))
    BY <1>2, FS_AddElement
  <2>2. Cardinality(To(V, i)) = IF m \in To(W, i) THEN Cardinality(To(W, i))
                                ELSE Cardinality(To(W, i)) + 1
    BY <1>2, FS_AddElement
  <2> QED BY <1>1, <2>1, <2>2, FS_CardinalityType
<1>3. ASSUME NEW m \in W
      PROVE  /\ IsFiniteSet(To(W \ {m}, i))
             /\ Cardinality(To(W \ {m}, i)) \in Nat
             /\ Cardinality(To(W \ {m}, i)) =
                  Cardinality(To(W, i)) - (IF m.to = i THEN 1 ELSE 0)
  <2>1. To(W \ {m}, i) = To(W, i) \ {m} /\ (m \in To(W, i) <=> m.to = i)
    BY DEF To
  <2>2. IsFiniteSet(To(W \ {m}, i))
    BY <2>1, FS_RemoveElement
  <2>3. Cardinality(To(W \ {m}, i)) = IF m.to = i THEN Cardinality(To(W, i)) - 1
                                      ELSE Cardinality(To(W, i))
    BY <2>1, FS_RemoveElement
  <2> QED BY <1>1, <2>2, <2>3, FS_CardinalityType
<1> QED BY <1>1, <1>2, <1>3

LEMMA ConservedStep ==
  ASSUME TypeOK, Conserved, [Next]_vars
  PROVE  Conserved'
<1> USE TypeFacts DEF Conserved, listenerVars
<1>1. ASSUME NEW u \in Uris, Send(u) PROVE Conserved'
  <2>1. PICK R \in SUBSET {i \in registered : subscription[i] = u} :
          wire' = wire \cup {[to |-> i, counter |-> sent[u]] : i \in R}
    BY <1>1 DEF Send
  <2>2. UNCHANGED <<subscription, duration_vec, callback>>
    BY <1>1 DEF Send
  <2>3. ASSUME NEW i \in Listener
        PROVE  /\ IsFiniteSet(To(wire', i))
               /\ Cardinality(To(wire', i)) + duration_vec[i]
                    + (IF callback[i].at = "push" THEN 1 ELSE 0)
                  <= sent'[subscription[i]]
    <3>1. CASE i \in R
      <4>1. PICK m : m = [to |-> i, counter |-> sent[u]]
        OBVIOUS
      <4>2. To(wire', i) = To(wire, i) \cup {m}
        BY <2>1, <3>1, <4>1 DEF To
      <4>3. /\ IsFiniteSet(To(wire', i)) /\ Cardinality(To(wire', i)) \in Nat
            /\ Cardinality(To(wire, i)) \in Nat
            /\ Cardinality(To(wire', i)) <= Cardinality(To(wire, i)) + 1
        BY <4>2, ToCounts
      <4>4. sent'[subscription[i]] = sent[subscription[i]] + 1
        BY <1>1, <2>1, <3>1 DEF Send, TypeOK
      <4> QED BY <4>3, <4>4
    <3>2. CASE i \notin R
      <4>1. To(wire', i) = To(wire, i)
        BY <2>1, <3>2 DEF To
      <4>2. /\ sent[subscription[i]] <= sent'[subscription[i]]
            /\ sent'[subscription[i]] \in Nat
        BY <1>1 DEF Send, TypeOK
      <4>3. Cardinality(To(wire, i)) \in Nat
        BY ToCounts
      <4> QED BY <4>1, <4>2, <4>3
    <3> QED BY <3>1, <3>2
  <2> QED BY <2>2, <2>3
<1>2. ASSUME NEW m \in wire, Drop(m) PROVE Conserved'
  <2>1. /\ wire' = wire \ {m}
        /\ UNCHANGED <<subscription, sent, duration_vec, callback>>
    BY <1>2 DEF Drop
  <2>2. \A i \in Listener :
          /\ IsFiniteSet(To(wire', i)) /\ Cardinality(To(wire', i)) \in Nat
          /\ Cardinality(To(wire, i)) \in Nat
          /\ Cardinality(To(wire', i)) <= Cardinality(To(wire, i))
    BY <2>1, ToCounts
  <2>3. ASSUME NEW i \in Listener
        PROVE  Cardinality(To(wire', i)) + duration_vec[i]
                 + (IF callback[i].at = "push" THEN 1 ELSE 0)
               <= sent[subscription[i]]
    <3>1. /\ Cardinality(To(wire, i)) + duration_vec[i]
               + (IF callback[i].at = "push" THEN 1 ELSE 0)
             <= sent[subscription[i]]
          /\ duration_vec[i] \in Nat /\ sent[subscription[i]] \in Nat
      OBVIOUS
    <3> HIDE DEF Conserved
    <3> QED BY <2>2, <3>1
  <2> QED BY <2>1, <2>2, <2>3
<1>3. ASSUME NEW m \in wire, Deliver(m) PROVE Conserved'
  <2>1. /\ wire' = wire \ {m} /\ m.to \in Listener
        /\ callback[m.to].at # "push"
        /\ \A i \in Listener : i # m.to => callback'[i] = callback[i]
        /\ UNCHANGED <<subscription, sent, duration_vec>>
    BY <1>3 DEF Deliver, Idle, TypeOK
  <2>2. \A i \in Listener :
          /\ IsFiniteSet(To(wire', i)) /\ Cardinality(To(wire', i)) \in Nat
          /\ Cardinality(To(wire, i)) \in Nat
          /\ Cardinality(To(wire', i)) =
               Cardinality(To(wire, i)) - (IF m.to = i THEN 1 ELSE 0)
    BY <2>1, ToCounts
  <2>3. ASSUME NEW i \in Listener
        PROVE  Cardinality(To(wire', i)) + duration_vec[i]
                 + (IF callback'[i].at = "push" THEN 1 ELSE 0)
               <= sent[subscription[i]]
    <3>1. /\ Cardinality(To(wire, i)) + duration_vec[i]
               + (IF callback[i].at = "push" THEN 1 ELSE 0)
             <= sent[subscription[i]]
          /\ duration_vec[i] \in Nat /\ sent[subscription[i]] \in Nat
      OBVIOUS
    <3> HIDE DEF Conserved
    <3>2. CASE m.to = i
      <4>1. /\ Cardinality(To(wire', i)) = Cardinality(To(wire, i)) - 1
            /\ Cardinality(To(wire, i)) \in Nat
        BY <2>2, <3>2
      <4>2. Cardinality(To(wire, i)) + duration_vec[i] <= sent[subscription[i]]
        BY <2>1, <3>1, <3>2, <4>1
      <4> QED BY <3>1, <4>1, <4>2
    <3>3. CASE m.to # i
      <4>1. /\ Cardinality(To(wire', i)) = Cardinality(To(wire, i))
            /\ Cardinality(To(wire, i)) \in Nat
        BY <2>2, <3>3
      <4>2. callback'[i] = callback[i]
        BY <2>1, <3>3
      <4> QED BY <3>1, <4>1, <4>2
    <3> QED BY <3>2, <3>3
  <2> QED BY <2>1, <2>2, <2>3
<1>4. ASSUME wire' = wire, UNCHANGED <<subscription, sent>>,
             \A i \in Listener :
               duration_vec'[i] + (IF callback'[i].at = "push" THEN 1 ELSE 0)
               = duration_vec[i] + (IF callback[i].at = "push" THEN 1 ELSE 0),
             \A i \in Listener : duration_vec'[i] \in Nat
      PROVE  Conserved'
  <2>1. \A i \in Listener : Cardinality(To(wire, i)) \in Nat
    BY ToCounts
  <2> QED BY <1>4, <2>1
<1>5. ASSUME NEW j \in Listener,
             PushBack(j) \/ Count(j) \/ AddSize(j) \/ Account(j)
      PROVE  Conserved'
  <2>1. UNCHANGED <<wire, subscription, sent>>
    BY <1>5 DEF PushBack, Count, AddSize, Account
  <2>2. \A i \in Listener :
          /\ duration_vec'[i] + (IF callback'[i].at = "push" THEN 1 ELSE 0)
             = duration_vec[i] + (IF callback[i].at = "push" THEN 1 ELSE 0)
          /\ duration_vec'[i] \in Nat
    <3>1. CASE PushBack(j)
      BY <3>1 DEF PushBack, TypeOK
    <3>2. CASE Count(j)
      BY <3>2 DEF Count, TypeOK
    <3>3. CASE Account(j)
      BY <3>3 DEF Account, Idle, TypeOK
    <3>4. CASE AddSize(j)
      BY <3>4 DEF AddSize, TypeOK
    <3> QED BY <1>5, <3>1, <3>2, <3>3, <3>4
  <2> QED BY <1>4, <2>1, <2>2
<1>6. CASE MainStep
  BY <1>4, <1>6 DEF MainStep, Register, SeeStop, Dump, DumpSize, TestSize,
     Write, Unregister, Delete
<1>7. CASE UNCHANGED vars
  BY <1>4, <1>7 DEF vars
<1> QED BY <1>1, <1>2, <1>3, <1>5, <1>6, <1>7 DEF Next
-----------------------------------------------------------------------------
LEMMA FiguresInit == Init => Figures
<1> SUFFICES ASSUME Init, NEW i \in Listener
             PROVE  /\ duration_vec[i] = count_arraived[i]
                         + (IF callback[i].at = "count" THEN 1 ELSE 0)
                    /\ messeges_size[i] =
                         2 * count_arraived[i] - Unsized(callback[i].at)
  BY DEF Figures
<1>1. /\ duration_vec[i] = 0 /\ count_arraived[i] = 0 /\ messeges_size[i] = 0
      /\ callback[i].at = "idle"
  BY DEF Init, Zero, Idle
<1> QED BY <1>1 DEF Unsized

LEMMA FiguresStep ==
  ASSUME TypeOK, Figures, [Next]_vars
  PROVE  Figures'
<1> USE TypeFacts DEF Figures, Unsized
<1>1. ASSUME NEW i \in Listener, PushBack(i) PROVE Figures'
  <2>1. callback[i].at = "push" /\ callback'[i].at = "count"
        /\ UNCHANGED <<count_arraived, messeges_size>>
        /\ duration_vec'[i] = duration_vec[i] + 1
        /\ \A j \in Listener : j # i => callback'[j] = callback[j]
                                       /\ duration_vec'[j] = duration_vec[j]
    BY <1>1 DEF PushBack, TypeOK
  <2>2. duration_vec'[i] = count_arraived'[i] + 1
        /\ messeges_size'[i] = 2 * count_arraived'[i]
    BY <2>1
  <2> QED BY <2>1, <2>2
<1>2. ASSUME NEW i \in Listener, Count(i) PROVE Figures'
  <2>1. callback[i].at = "count" /\ callback'[i].at = "size"
        /\ UNCHANGED <<duration_vec, messeges_size>>
        /\ count_arraived'[i] = count_arraived[i] + 1
        /\ \A j \in Listener : j # i =>
              callback'[j] = callback[j] /\ count_arraived'[j] = count_arraived[j]
    BY <1>2 DEF Count, TypeOK
  <2>2. duration_vec'[i] = count_arraived'[i]
        /\ messeges_size'[i] = 2 * count_arraived'[i] - 2
    BY <2>1
  <2> QED BY <2>1, <2>2
<1>6. ASSUME NEW i \in Listener, AddSize(i) PROVE Figures'
  <2>1. callback[i].at = "size" /\ callback'[i].at = "account"
        /\ UNCHANGED <<duration_vec, count_arraived>>
        /\ messeges_size'[i] = messeges_size[i] + 1
        /\ \A j \in Listener : j # i =>
              callback'[j] = callback[j] /\ messeges_size'[j] = messeges_size[j]
    BY <1>6 DEF AddSize, TypeOK
  <2>2. duration_vec'[i] = count_arraived'[i]
        /\ messeges_size'[i] = 2 * count_arraived'[i] - 1
    BY <2>1
  <2> QED BY <2>1, <2>2
<1>3. ASSUME NEW i \in Listener, Account(i) PROVE Figures'
  BY <1>3 DEF Account, Idle, TypeOK
<1>4. ASSUME NEW m \in wire, Deliver(m) PROVE Figures'
  BY <1>4 DEF Deliver, Idle, TypeOK
<1>5. CASE \/ \E m \in wire : Drop(m)
           \/ \E u \in Uris : Send(u)
           \/ MainStep \/ UNCHANGED vars
  BY <1>5 DEF Drop, Send, MainStep, Register, SeeStop, Dump, DumpSize,
     TestSize, Write, Unregister, Delete, vars, listenerVars
<1> QED BY <1>1, <1>2, <1>3, <1>4, <1>5, <1>6 DEF Next
-----------------------------------------------------------------------------
(* The dump: beside main's own steps samples only come in. *)

LEMMA SamplesGrow ==
  ASSUME TypeOK, [Next]_vars, ~ MainStep
  PROVE  /\ UNCHANGED mainVars
         /\ \A i \in Listener : /\ duration_vec[i] <= duration_vec'[i]
                                /\ duration_vec'[i] \in Nat
                                /\ count_arraived[i] <= count_arraived'[i]
                                /\ count_arraived'[i] \in Nat
<1> USE TypeFacts DEF TypeOK
<1>1. ASSUME NEW i \in Listener, PushBack(i)
      PROVE  /\ UNCHANGED <<mainVars, count_arraived>>
             /\ \A j \in Listener : /\ duration_vec[j] <= duration_vec'[j]
                                    /\ duration_vec'[j] \in Nat
  BY <1>1 DEF PushBack
<1>2. ASSUME NEW i \in Listener, Count(i)
      PROVE  /\ UNCHANGED <<mainVars, duration_vec>>
             /\ \A j \in Listener : /\ count_arraived[j] <= count_arraived'[j]
                                    /\ count_arraived'[j] \in Nat
  BY <1>2 DEF Count
<1>3. CASE \/ \E i \in Listener : AddSize(i) \/ Account(i)
           \/ \E m \in wire : Deliver(m) \/ Drop(m)
           \/ \E u \in Uris : Send(u)
           \/ UNCHANGED vars
  <2>1. UNCHANGED <<mainVars, duration_vec, count_arraived>>
    BY <1>3 DEF AddSize, Account, Deliver, Drop, Send, vars, listenerVars
  <2> QED BY <2>1
<1> QED BY <1>1, <1>2, <1>3 DEF Next

LEMMA MainKeepsSamples ==
  ASSUME MainStep
  PROVE  UNCHANGED <<duration_vec, count_arraived>>
BY DEF MainStep, Register, SeeStop, Dump, DumpSize, TestSize, Write,
       Unregister, Delete, listenerVars

LEMMA DumpInvInit == Init => DumpInv
<1> SUFFICES ASSUME Init PROVE DumpInv
  OBVIOUS
<1>1. \A i \in Listener : ~ Dumped(i)
  BY DEF Init, Dumped
<1>2. \A i \in Listener : file[i] = 0 /\ duration_vec[i] = 0 /\ atStop[i] = 0
  BY DEF Init, Zero
<1>3. Place /\ InHand
  BY DEF Init, Place, InHand
<1>4. Kept /\ FiguresPrinted
  BY <1>1, <1>2 DEF Init, Kept, DumpKeeps, FiguresPrinted
<1> QED BY <1>3, <1>4 DEF DumpInv

LEMMA PlaceStep ==
  ASSUME TypeOK, DumpInv, [Next]_vars
  PROVE  Place'
<1> USE TypeFacts, ListenerFacts DEF Place, DumpInv
<1>1. CASE ~ MainStep
  <2>1. /\ UNCHANGED <<main, idx, atStop, file, torn, end>>
        /\ \A i \in Listener : /\ duration_vec[i] <= duration_vec'[i]
                               /\ duration_vec'[i] \in Nat
    BY <1>1, SamplesGrow DEF mainVars
  <2> QED BY <2>1 DEF Zero
<1>2. CASE Register
  <2>1. main' \in {"register", "listen", "delete"}
        /\ UNCHANGED <<atStop, file, torn>>
    BY <1>2, AdvanceFacts DEF Register
  <2>2. main' = "listen" => idx' = 1
    BY <1>2, AdvanceFacts DEF Register
  <2> QED BY <1>2, <2>1, <2>2 DEF Register, Zero
<1>3. CASE SeeStop
  BY <1>3 DEF SeeStop, Zero
<1>4. CASE Dump \/ DumpSize
  BY <1>4 DEF Dump, DumpSize
<1>5. CASE TestSize
  <2>1. CASE duration_vec[idx] > 0 /\ main' = "writing"
             /\ end' = duration_vec[idx] /\ UNCHANGED idx
    BY <1>5, <2>1 DEF TestSize, Kept, listenerVars
  <2>2. CASE duration_vec[idx] = 0 /\ Advance("dump", "unregister")
    BY <1>5, <2>2, AdvanceFacts DEF TestSize
  <2> QED BY <1>5, <2>1, <2>2 DEF TestSize
<1>6. CASE Write
  <2>1. file' = [file EXCEPT ![idx] = @ + end]
        /\ Advance("dump", "unregister") /\ main = "writing"
    BY <1>6 DEF Write
  <2>2. CASE main' = "dump" /\ idx' = idx + 1
    <3>1. \A i \in Listener : i >= idx + 1 => file'[i] = 0
      BY <2>1 DEF TypeOK
    <3> QED BY <2>2, <3>1
  <2>3. CASE main' = "unregister"
    BY <2>3
  <2> QED BY <2>1, <2>2, <2>3, AdvanceFacts
<1>7. CASE Unregister
  <2>1. main' \in {"unregister", "delete", "leaked"}
    BY <1>7, AdvanceFacts DEF Unregister
  <2> QED BY <2>1
<1>8. CASE Delete
  BY <1>8 DEF Delete
<1> QED BY <1>1, <1>2, <1>3, <1>4, <1>5, <1>6, <1>7, <1>8 DEF MainStep

\* A listener is dealt with in the dump when it was before, or when it is the
\* one in hand: without samples, or with those just written out.
LEMMA DumpedNow ==
  ASSUME TypeOK, DumpInv, MainStep, NEW i \in Listener, Dumped(i)'
  PROVE  /\ atStop' = atStop
         /\ \/ Dumped(i) /\ file'[i] = file[i] /\ printed'[i] = printed[i]
            \/ /\ i = idx /\ printed' = printed
               /\ \/ main = "writing" /\ file'[i] = end
                  \/ main = "test" /\ duration_vec[i] = 0 /\ file'[i] = 0
<1> USE TypeFacts, ListenerFacts DEF Dumped
<1>1. CASE Register
  <2>1. atStop' = Zero /\ main' \in {"register", "listen", "delete"}
    BY <1>1, AdvanceFacts DEF Register, DumpInv, Place
  <2> QED BY <2>1 DEF Zero
<1>2. CASE SeeStop
  <2>1. main' = "dump" /\ idx' = 1
    BY <1>2 DEF SeeStop, DumpInv, Place
  <2> QED BY <2>1
<1>3. CASE Dump \/ DumpSize
  <2>1. /\ main \in {"dump", "figures"} /\ main' \in {"figures", "test"}
        /\ UNCHANGED <<idx, file, atStop>>
    BY <1>3 DEF Dump, DumpSize
  <2>2. i < idx
    BY <2>1
  <2>3. printed'[i] = printed[i]
    BY <1>3, <2>2 DEF Dump, DumpSize, TypeOK
  <2> QED BY <2>1, <2>2, <2>3
<1>4. CASE TestSize
  <2>1. main = "test" /\ UNCHANGED <<file, printed, atStop>>
    BY <1>4 DEF TestSize
  <2>2. CASE main' = "writing" /\ UNCHANGED idx
    BY <2>1, <2>2
  <2>3. CASE duration_vec[idx] = 0 /\ Advance("dump", "unregister")
    <3>1. i < idx \/ i = idx
      BY <2>3, AdvanceFacts
    <3>2. i = idx => file[i] = 0
      BY <2>1 DEF DumpInv, Place
    <3> QED BY <2>1, <2>3, <3>1, <3>2
  <2> QED BY <1>4, <2>2, <2>3 DEF TestSize
<1>5. CASE Write
  <2>1. /\ main = "writing" /\ UNCHANGED <<printed, atStop>>
        /\ file' = [file EXCEPT ![idx] = @ + end]
        /\ Advance("dump", "unregister")
    BY <1>5 DEF Write
  <2>2. i < idx \/ i = idx
    BY <2>1, AdvanceFacts
  <2>3. CASE i < idx
    BY <2>1, <2>3 DEF TypeOK
  <2>4. CASE i = idx
    <3>1. file[i] = 0
      BY <2>1, <2>4 DEF DumpInv, Place
    <3> QED BY <2>1, <2>4, <3>1 DEF TypeOK
  <2> QED BY <2>2, <2>3, <2>4
<1>6. CASE Unregister
  BY <1>6 DEF Unregister
<1>7. CASE Delete
  BY <1>7 DEF Delete
<1> QED BY <1>1, <1>2, <1>3, <1>4, <1>5, <1>6, <1>7 DEF MainStep

LEMMA KeptStep ==
  ASSUME TypeOK, DumpInv, [Next]_vars
  PROVE  Kept'
<1> USE TypeFacts, ListenerFacts DEF Kept, DumpKeeps, DumpInv
<1>1. CASE ~ MainStep
  <2>1. /\ UNCHANGED mainVars
        /\ \A i \in Listener : /\ duration_vec[i] <= duration_vec'[i]
                               /\ duration_vec'[i] \in Nat
    BY <1>1, SamplesGrow
  <2>2. \A i \in Listener : Dumped(i)' <=> Dumped(i)
    BY <2>1 DEF Dumped, Zero, mainVars
  <2> QED BY <2>1, <2>2 DEF mainVars
<1>2. CASE MainStep
  <2>1. UNCHANGED duration_vec
    BY <1>2, MainKeepsSamples
  <2>2. ASSUME NEW i \in Listener PROVE atStop'[i] <= duration_vec[i]
    <3>1. CASE SeeStop
      BY <3>1 DEF SeeStop
    <3>2. CASE \/ Register \/ Dump \/ DumpSize \/ TestSize
               \/ Write \/ Unregister \/ Delete
      BY <3>2 DEF Register, Dump, DumpSize, TestSize, Write, Unregister,
         Delete
    <3> QED BY <1>2, <3>1, <3>2 DEF MainStep
  <2>3. ASSUME NEW i \in Listener PROVE file'[i] <= duration_vec[i]
    <3>1. CASE Write
      <4>1. file[idx] = 0 /\ end <= duration_vec[idx]
        BY <3>1 DEF Write, Place
      <4> QED BY <3>1, <4>1 DEF Write, TypeOK
    <3>2. CASE \/ Register \/ SeeStop \/ Dump \/ DumpSize \/ TestSize
               \/ Unregister \/ Delete
      BY <3>2 DEF Register, SeeStop, Dump, DumpSize, TestSize, Unregister,
         Delete
    <3> QED BY <1>2, <3>1, <3>2 DEF MainStep
  <2>4. ASSUME NEW i \in Listener, Dumped(i)' PROVE atStop'[i] <= file'[i]
    <3>1. CASE Dumped(i) /\ file'[i] = file[i]
      BY <1>2, <2>4, <3>1, DumpedNow
    <3>2. CASE /\ i = idx
               /\ \/ main = "writing" /\ file'[i] = end
                  \/ main = "test" /\ duration_vec[i] = 0 /\ file'[i] = 0
      BY <1>2, <2>4, <3>2, DumpedNow DEF Place
    <3> QED BY <1>2, <2>4, <3>1, <3>2, DumpedNow
  <2>5. ASSUME NEW i \in Listener, i \in torn'
        PROVE  atStop'[i] < duration_vec[i]
    <3>1. CASE Write
      <4>1. i \in torn \/ (i = idx /\ duration_vec[idx] # end)
        BY <2>5, <3>1 DEF Write
      <4>2. /\ atStop' = atStop /\ atStop[idx] <= end
            /\ end <= duration_vec[idx]
        BY <3>1 DEF Write, Place
      <4> QED BY <4>1, <4>2
    <3>2. CASE SeeStop
      BY <2>5, <3>2 DEF SeeStop, Place
    <3>3. CASE Register \/ Dump \/ DumpSize \/ TestSize \/ Unregister \/ Delete
      BY <2>5, <3>3 DEF Register, Dump, DumpSize, TestSize, Unregister,
         Delete
    <3> QED BY <1>2, <3>1, <3>2, <3>3 DEF MainStep
  <2> QED BY <2>1, <2>2, <2>3, <2>4, <2>5
<1> QED BY <1>1, <1>2

LEMMA InHandStep ==
  ASSUME TypeOK, Figures, DumpInv, [Next]_vars
  PROVE  InHand'
<1> USE TypeFacts, ListenerFacts DEF InHand, DumpInv
<1>1. CASE ~ MainStep
  <2>1. /\ UNCHANGED <<main, idx, atStop, printed, end>>
        /\ \A i \in Listener : /\ duration_vec[i] <= duration_vec'[i]
                               /\ duration_vec'[i] \in Nat
                               /\ count_arraived[i] <= count_arraived'[i]
                               /\ count_arraived'[i] \in Nat
    BY <1>1, SamplesGrow DEF mainVars
  <2> QED BY <2>1 DEF Taken
<1>2. CASE Dump
  <2>1. /\ main' = "figures" /\ UNCHANGED <<idx, atStop, listenerVars>>
        /\ printed'[idx].count = count_arraived[idx]
    BY <1>2 DEF Dump, TypeOK
  <2>2. /\ duration_vec[idx] = count_arraived[idx]
                         + (IF callback[idx].at = "count" THEN 1 ELSE 0)
        /\ atStop[idx] <= duration_vec[idx]
    BY DEF Figures, Kept
  <2> QED BY <2>1, <2>2 DEF Taken, listenerVars
<1>6. CASE DumpSize
  <2>1. /\ main = "figures" /\ main' = "test"
        /\ UNCHANGED <<idx, atStop, listenerVars>>
        /\ printed'[idx].count = printed[idx].count
        /\ printed'[idx].size = messeges_size[idx]
    BY <1>6 DEF DumpSize, TypeOK
  <2>2. /\ count_arraived[idx] <= duration_vec[idx]
        /\ messeges_size[idx] = 2 * count_arraived[idx]
                                - Unsized(callback[idx].at)
        /\ printed[idx].count <= count_arraived[idx]
    BY <2>1 DEF Figures
  <2>3. messeges_size[idx] \in
          2 * printed[idx].count - 2 .. 2 * duration_vec[idx]
    BY <2>2 DEF Unsized
  <2> QED BY <2>1, <2>3 DEF Taken, listenerVars
<1>3. CASE TestSize
  <2>1. CASE main' = "writing" /\ end' = duration_vec[idx] /\ UNCHANGED idx
    BY <1>3, <2>1 DEF TestSize, Taken
  <2>2. CASE Advance("dump", "unregister")
    BY <2>2, AdvanceFacts
  <2> QED BY <1>3, <2>1, <2>2 DEF TestSize
<1>4. CASE Register \/ Write \/ Unregister
  <2>1. main' \notin {"figures", "test", "writing"}
    BY <1>4, AdvanceFacts DEF Register, Write, Unregister
  <2> QED BY <2>1
<1>5. CASE SeeStop \/ Delete
  BY <1>5 DEF SeeStop, Delete
<1> QED BY <1>1, <1>2, <1>3, <1>4, <1>5, <1>6 DEF MainStep

LEMMA FiguresPrintedStep ==
  ASSUME TypeOK, DumpInv, [Next]_vars
  PROVE  FiguresPrinted'
<1> USE TypeFacts, ListenerFacts DEF FiguresPrinted, DumpInv
<1>1. CASE ~ MainStep
  <2>1. UNCHANGED mainVars
    BY <1>1, SamplesGrow
  <2>2. \A i \in Listener : Dumped(i)' <=> Dumped(i)
    BY <2>1 DEF Dumped, Zero, mainVars
  <2> QED BY <2>1, <2>2 DEF mainVars
<1>2. CASE MainStep
  <2> SUFFICES ASSUME NEW i \in Listener, Dumped(i)'
               PROVE  /\ printed'[i].count \in atStop'[i] - 1 .. file'[i]
                      /\ printed'[i].size \in
                           2 * printed'[i].count - 2 .. 2 * file'[i]
    OBVIOUS
  <2>1. CASE Dumped(i) /\ file'[i] = file[i] /\ printed'[i] = printed[i]
    BY <1>2, <2>1, DumpedNow
  <2>2. CASE /\ i = idx /\ printed' = printed
             /\ \/ main = "writing" /\ file'[i] = end
                \/ main = "test" /\ duration_vec[i] = 0 /\ file'[i] = 0
    <3>1. /\ atStop' = atStop /\ atStop[i] - 1 <= printed[i].count
          /\ printed[i].count <= file'[i] /\ file'[i] \in Nat
          /\ printed[i].size \in 2 * printed[i].count - 2 .. 2 * file'[i]
      BY <1>2, <2>2, DumpedNow DEF InHand, Taken
    <3> QED BY <2>2, <3>1
  <2> QED BY <1>2, <2>1, <2>2, DumpedNow
<1> QED BY <1>1, <1>2
-----------------------------------------------------------------------------
(***************************************************************************)
(* Between the dump and the callbacks that go on beside it: no message is  *)
(* sampled twice, a listener's figures are at most one message apart, and  *)
(* what main has in hand, read one figure after the other, lies between    *)
(* the samples at "Stop" and those there are now.                          *)
(***************************************************************************)
THEOREM DumpInvariant == Spec => [](TypeOK /\ Conserved /\ Figures /\ DumpInv)
<1>1. Init => TypeOK /\ Conserved /\ Figures /\ DumpInv
  BY TypeInit, ConservedInit, FiguresInit, DumpInvInit
<1>2. TypeOK /\ Conserved /\ Figures /\ DumpInv /\ [Next]_vars
        => (TypeOK /\ Conserved /\ Figures /\ DumpInv)'
  BY TypeStep, ConservedStep, FiguresStep, PlaceStep, KeptStep, InHandStep,
     FiguresPrintedStep DEF DumpInv
<1> QED BY <1>1, <1>2, PTL DEF Spec

(***************************************************************************)
(* Type correctness: main's index never leaves subscription, and no sample *)
(* is taken of a message that was not sent to its listener.                *)
(***************************************************************************)
THEOREM TypeCorrect == Spec => []TypeOK
BY DumpInvariant, PTL

(***************************************************************************)
(* The result file gets every sample that was there at "Stop" and none     *)
(* that was never taken.                                                   *)
(***************************************************************************)
THEOREM DumpKeepsHolds == Spec => []DumpKeeps
<1>1. DumpInv => DumpKeeps
  BY DEF DumpInv, Kept
<1> QED BY <1>1, DumpInvariant, PTL

(***************************************************************************)
(* The figures main prints of a listener, of different moments though they *)
(* may be, each lie between the samples at "Stop" and its result file.     *)
(***************************************************************************)
THEOREM FiguresPrintedHolds == Spec => []FiguresPrinted
<1>1. DumpInv => FiguresPrinted
  BY DEF DumpInv
<1> QED BY <1>1, DumpInvariant, PTL
=============================================================================
