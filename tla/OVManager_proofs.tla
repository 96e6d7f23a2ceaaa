--------------------------- MODULE OVManager_proofs ---------------------------
(***************************************************************************)
(* Proofs about the two halves of OpenVideo's Manager.  Its main loop,     *)
(* OVManager, for any number of threads and nodes: type correctness, that  *)
(* traversals exclude each other and pauses, that who pauses is woken, and *)
(* the order in which stop() proceeds.  How the graph is built and brought *)
(* up, OVGraph, for every configuration: the sort loses no node, never     *)
(* gets stuck and comes to its end, and puts a node after its inputs.      *)
(***************************************************************************)
EXTENDS OVManager, OVGraph, FiniteSetTheorems, SequenceTheorems, TLAPS

RunnerPoints == {"loop", "update", "traverse", "idle", "release", "ended"}
PauserPoints == {"call", "wait", "woken"}
StopperPoints == {"call", "stopping", "ended"}

(* A thread in the middle of update() holds updateLock, nobody else does; the
   traversal flag belongs to the thread that traverses; a traversal that is on
   keeps the loop from being paused. *)
LockInv ==
  /\ \A t \in Runners : pc[t] \in RunnerPoints
  /\ \A t \in Pausers : pc[t] \in PauserPoints
  /\ \A t \in Stoppers : pc[t] \in StopperPoints
  /\ updateLock \in Runners \cup {Nobody}
  /\ \A t \in Runners : pc[t] \in {"traverse", "idle", "release"} <=> updateLock = t
  /\ travBlock <=> \E t \in Runners : pc[t] = "traverse"
  /\ \A t \in Runners : pc[t] = "traverse" => isRunning

ManagerInv == TypeOK /\ LockInv

LEMMA InitManager == Init => ManagerInv
<1> SUFFICES ASSUME Init PROVE ManagerInv
  OBVIOUS
<1>1. TypeOK
  <2>1. pc \in [Threads -> Points]
    BY DEF Init, Points
  <2>2. last \in [Stoppers -> 0..NumNodes] /\ node \in 1..NumNodes + 1 /\ pass \in Passes
    BY ManagerAssumption DEF Init, Passes
  <2>3. updateLock \in Threads \cup {Nobody} /\ stopped \subseteq Nodes /\ pauses \in 0..MaxPauses
    BY ManagerAssumption DEF Init
  <2>4. isRunning \in BOOLEAN /\ travBlock \in BOOLEAN /\ exitIdle \in BOOLEAN
    BY DEF Init
  <2>5. QED
    BY <2>1, <2>2, <2>3, <2>4 DEF TypeOK
<1>2. LockInv
  BY ManagerAssumption
     DEF Init, LockInv, RunnerPoints, PauserPoints, StopperPoints, Threads
<1>3. QED
  BY <1>1, <1>2 DEF ManagerInv

LEMMA TypeStep == ASSUME ManagerInv, [Next]_vars PROVE TypeOK'
<1> USE ManagerAssumption DEF ManagerInv, TypeOK, Goto, traversal, Threads
<1>p. ASSUME NEW t \in Threads, NEW p \in Points, Goto(t, p) PROVE pc' \in [Threads -> Points]
  BY <1>p
<1>n. {"loop", "update", "traverse", "idle", "release", "ended", "call", "wait", "woken",
       "stopping"} \subseteq Points
  BY DEF Points
<1>1. ASSUME NEW t \in Runners, TestExit(t) PROVE TypeOK'
  BY <1>1, <1>p, <1>n DEF TestExit
<1>2. ASSUME NEW t \in Runners, Update(t) PROVE TypeOK'
  <2>1. pc' \in [Threads -> Points]
    BY <1>2, <1>p, <1>n DEF Update
  <2>2. pass' \in Passes /\ node' \in 1..NumNodes + 1 /\ travBlock' \in BOOLEAN
    <3>1. \/ pass' = 1 /\ node' = 1 /\ travBlock' = TRUE
          \/ pass' = pass /\ node' = node /\ travBlock' = travBlock
      BY <1>2 DEF Update
    <3>2. travBlock' \in BOOLEAN
      BY <3>1
    <3>3. pass' \in Passes /\ node' \in 1..NumNodes + 1
      BY <3>1 DEF Passes
    <3>4. QED
      BY <3>2, <3>3
  <2>3. QED
    BY <1>2, <2>1, <2>2 DEF Update
<1>3. ASSUME NEW t \in Runners, Visit(t) PROVE TypeOK'
  <2>1. pc' \in [Threads -> Points]
    BY <1>3, <1>p, <1>n DEF Visit
  <2>2. pass' \in Passes /\ node' \in 1..NumNodes + 1 /\ travBlock' \in BOOLEAN
    <3>1. \/ node <= NumNodes /\ node' = node + 1 /\ pass' = pass /\ travBlock' = travBlock
          \/ pass < 3 /\ pass' = pass + 1 /\ node' = 1 /\ travBlock' = travBlock
          \/ pass' = pass /\ node' = node /\ travBlock' = FALSE
      BY <1>3 DEF Visit
    <3>2. travBlock' \in BOOLEAN
      BY <3>1
    <3>3. pass' \in Passes /\ node' \in 1..NumNodes + 1
      BY <3>1 DEF Passes
    <3>4. QED
      BY <3>2, <3>3
  <2>3. QED
    BY <1>3, <2>1, <2>2 DEF Visit
<1>4. ASSUME NEW t \in Runners, IdleTasks(t) PROVE TypeOK'
  BY <1>4, <1>p, <1>n DEF IdleTasks
<1>5. ASSUME NEW t \in Runners, Release(t) PROVE TypeOK'
  <2>1. pc' \in [Threads -> Points]
    BY <1>5, <1>n DEF Release
  <2>2. QED
    BY <1>5, <2>1 DEF Release
<1>6. ASSUME NEW t \in Pausers, Pause(t) PROVE TypeOK'
  <2>1. pc' \in [Threads -> Points]
    BY <1>6, <1>p, <1>n DEF Pause
  <2>2. pauses' \in 0..MaxPauses /\ isRunning' \in BOOLEAN
    <3>1. isRunning' = FALSE \/ isRunning' = isRunning
      BY <1>6 DEF Pause
    <3>2. pauses < MaxPauses /\ pauses' = pauses + 1
      BY <1>6 DEF Pause
    <3>3. isRunning' \in BOOLEAN
      BY <3>1
    <3>4. pauses' \in 0..MaxPauses
      BY <3>2
    <3>5. QED
      BY <3>3, <3>4
  <2>3. QED
    BY <1>6, <2>1, <2>2 DEF Pause
<1>7. ASSUME NEW t \in Pausers, PauseReturns(t) \/ Spurious(t) PROVE TypeOK'
  BY <1>7, <1>p, <1>n DEF PauseReturns, Spurious
<1>8. ASSUME NEW t \in Stoppers, Stop(t) PROVE TypeOK'
  BY <1>8, <1>p, <1>n DEF Stop
<1>9. ASSUME NEW t \in Stoppers, StopNode(t) PROVE TypeOK'
  <2>1. pc' \in [Threads -> Points]
    BY <1>9, <1>p, <1>n DEF StopNode
  <2>2. stopped' \subseteq Nodes /\ last' \in [Stoppers -> 0..NumNodes]
    <3>1. \/ last[t] > 0 /\ stopped' = stopped \cup {last[t]}
             /\ last' = [last EXCEPT ![t] = last[t] - 1]
          \/ UNCHANGED <<stopped, last>>
      BY <1>9 DEF StopNode
    <3>2. last[t] \in 0..NumNodes
      OBVIOUS
    <3>3. CASE last[t] > 0 /\ stopped' = stopped \cup {last[t]}
               /\ last' = [last EXCEPT ![t] = last[t] - 1]
      <4>1. last[t] \in Nodes /\ last[t] - 1 \in 0..NumNodes
        BY <3>2, <3>3 DEF Nodes
      <4>2. QED
        BY <3>3, <4>1
    <3>4. CASE UNCHANGED <<stopped, last>>
      BY <3>4
    <3>5. QED
      BY <3>1, <3>3, <3>4
  <2>3. QED
    BY <1>9, <2>1, <2>2 DEF StopNode
<1>10. CASE UNCHANGED vars
  BY <1>10 DEF vars
<1>11. QED
  BY <1>1, <1>2, <1>3, <1>4, <1>5, <1>6, <1>7, <1>8, <1>9, <1>10 DEF Next, RunnerStep

LEMMA LockStep == ASSUME ManagerInv, [Next]_vars PROVE LockInv'
<1> USE ManagerAssumption
      DEF ManagerInv, TypeOK, LockInv, Goto, traversal, Threads,
          RunnerPoints, PauserPoints, StopperPoints
<1>1. ASSUME NEW t \in Runners, TestExit(t) PROVE LockInv'
  BY <1>1 DEF TestExit
<1>2. ASSUME NEW t \in Runners, Update(t) PROVE LockInv'
  BY <1>2 DEF Update
<1>3. ASSUME NEW t \in Runners, Visit(t) PROVE LockInv'
  BY <1>3 DEF Visit
<1>4. ASSUME NEW t \in Runners, IdleTasks(t) PROVE LockInv'
  BY <1>4 DEF IdleTasks
<1>5. ASSUME NEW t \in Runners, Release(t) PROVE LockInv'
  BY <1>5 DEF Release
<1>6. ASSUME NEW t \in Pausers, Pause(t) PROVE LockInv'
  BY <1>6 DEF Pause
<1>7. ASSUME NEW t \in Pausers, PauseReturns(t) \/ Spurious(t) PROVE LockInv'
  BY <1>7 DEF PauseReturns, Spurious
<1>8. ASSUME NEW t \in Stoppers, Stop(t) PROVE LockInv'
  BY <1>8 DEF Stop
<1>9. ASSUME NEW t \in Stoppers, StopNode(t) PROVE LockInv'
  BY <1>9 DEF StopNode
<1>10. CASE UNCHANGED vars
  BY <1>10 DEF vars
<1>11. QED
  BY <1>1, <1>2, <1>3, <1>4, <1>5, <1>6, <1>7, <1>8, <1>9, <1>10 DEF Next, RunnerStep

LEMMA ManagerInvariant == Spec => []ManagerInv
<1>1. ManagerInv /\ [Next]_vars => ManagerInv'
  BY TypeStep, LockStep DEF ManagerInv
<1>2. QED
  BY InitManager, <1>1, PTL DEF Spec

(* Type correctness, the two loops over the nodes included. *)
THEOREM TypeCorrect == Spec => []TypeOK
BY ManagerInvariant, PTL DEF ManagerInv

(* At most one thread traverses the graph, and travBlock is set exactly then. *)
THEOREM OneTraversal == Spec => []TraversalsExclusive
<1>1. ManagerInv => TraversalsExclusive
  <2> SUFFICES ASSUME ManagerInv PROVE TraversalsExclusive
    OBVIOUS
  <2>1. travBlock <=> Traversing # {}
    BY DEF ManagerInv, LockInv, Traversing
  <2>2. Traversing \subseteq {updateLock}
    BY DEF ManagerInv, LockInv, Traversing
  <2>3. Cardinality(Traversing) <= 1
    <3>1. IsFiniteSet({updateLock}) /\ Cardinality({updateLock}) = 1
      BY FS_Singleton
    <3>2. Traversing \in SUBSET {updateLock}
      BY <2>2
    <3>3. QED
      BY <3>1, <3>2, FS_Subset
  <2>4. QED
    BY <2>1, <2>3 DEF TraversalsExclusive
<1>2. QED
  BY <1>1, ManagerInvariant, PTL

(* While the loop is paused no node is visited, whoever paused it and whatever
   the threads in run() were doing. *)
THEOREM PausesExclude == Spec => []NothingRunsPaused
<1>1. ManagerInv => NothingRunsPaused
  BY DEF ManagerInv, LockInv, NothingRunsPaused, Traversing
<1>2. QED
  BY <1>1, ManagerInvariant, PTL

(* A node is visited by one thread at most, and by none in a pause. *)
THEOREM LoopSafety == Spec => []LoopSafe
BY OneTraversal, PausesExclude, PTL DEF LoopSafe
-----------------------------------------------------------------------------
(* OVGraph: lemmas on numbers and lists. *)

(* A set of numbers that is not empty has a least one. *)
LEMMA LeastNumber ==
  ASSUME NEW T \in SUBSET Nat, T # {}
  PROVE  \E x \in T : \A y \in T : x <= y
<1>. DEFINE U == {1..x : x \in T}
            R == StrictSubsetOrdering(Nat)
<1>1. U \subseteq FiniteSubsetsOf(Nat) /\ U # {}
  <2>1. \A x \in Nat : IsFiniteSet(1..x)
    BY FS_Interval
  <2>2. \A x \in T : IsFiniteSet(1..x) /\ 1..x \in SUBSET Nat
    BY <2>1
  <2>. QED
    BY <2>2 DEF FiniteSubsetsOf
<1>2. IsWellFoundedOn(R, FiniteSubsetsOf(Nat))
  BY FS_StrictSubsetOrderingWellFounded
<1>3. PICK X \in U : \A Y \in U : ~(<<Y, X>> \in R)
  <2>. HIDE DEF U, R
  <2>. QED
    BY <1>1, <1>2, WFMin
<1>4. PICK x \in T : X = 1..x
  OBVIOUS
<1>5. ASSUME NEW y \in T, y < x PROVE FALSE
  <2>1. 1..y \subseteq X /\ x \in X /\ x \notin 1..y
    BY <1>4, <1>5
  <2>2. 1..y \in SUBSET Nat /\ X \in SUBSET Nat
    BY <1>4
  <2>3. <<1..y, X>> \in R
    BY <2>1, <2>2 DEF StrictSubsetOrdering
  <2>. QED
    BY <1>3, <2>3
<1>. QED
  BY <1>5

(* Some of the positions of a sequence. *)
LEMMA PositionsFinite ==
  ASSUME NEW T, NEW s \in Seq(T), NEW I \in SUBSET DOMAIN s
  PROVE  /\ IsFiniteSet(I) /\ Cardinality(I) \in Nat
         /\ Cardinality(I) = 0 <=> I = {}
<1>1. DOMAIN s = 1..Len(s) /\ Len(s) \in Int
  BY LenProperties
<1>2. IsFiniteSet(DOMAIN s)
  BY <1>1, FS_Interval
<1>3. IsFiniteSet(I)
  BY <1>2, FS_Subset
<1>. QED
  BY <1>3, FS_CardinalityType, FS_EmptySet

LEMMA MembersIn == ASSUME NEW T, NEW s \in Seq(T) PROVE Members(s) \subseteq T
  BY LenProperties DEF Members

(* Count and Outside are numbers, and say who is a member. *)
LEMMA CountMembers ==
  ASSUME NEW T, NEW s \in Seq(T), NEW x
  PROVE  Count(s, x) \in Nat /\ (Count(s, x) = 0 <=> x \notin Members(s))
<1>. DEFINE I == {i \in DOMAIN s : s[i] = x}
<1>1. Cardinality(I) \in Nat /\ (Cardinality(I) = 0 <=> I = {})
  BY PositionsFinite
<1>2. I = {} <=> x \notin Members(s)
  BY DEF Members
<1>. QED
  BY <1>1, <1>2 DEF Count

LEMMA OutsideMembers ==
  ASSUME NEW T, NEW s \in Seq(T), NEW S
  PROVE  Outside(s, S) \in Nat /\ (Outside(s, S) = 0 <=> Members(s) \subseteq S)
<1>. DEFINE I == {i \in DOMAIN s : s[i] \notin S}
<1>1. Cardinality(I) \in Nat /\ (Cardinality(I) = 0 <=> I = {})
  BY PositionsFinite
<1>2. I = {} <=> Members(s) \subseteq S
  BY DEF Members
<1>. QED
  BY <1>1, <1>2 DEF Outside

(* An entry at the end: one member more, counted once. *)
LEMMA AppendEntries ==
  ASSUME NEW T, NEW s \in Seq(T), NEW e \in T
  PROVE  /\ Append(s, e) \in Seq(T) /\ Len(Append(s, e)) = Len(s) + 1
         /\ DOMAIN s = 1..Len(s) /\ DOMAIN Append(s, e) = DOMAIN s \cup {Len(s) + 1}
         /\ Len(s) + 1 \notin DOMAIN s /\ Append(s, e)[Len(s) + 1] = e
         /\ \A i \in DOMAIN s : Append(s, e)[i] = s[i]
         /\ Members(Append(s, e)) = Members(s) \cup {e}
<1>1. /\ Append(s, e) \in Seq(T) /\ Len(Append(s, e)) = Len(s) + 1
      /\ \A i \in 1..Len(s) : Append(s, e)[i] = s[i]
      /\ Append(s, e)[Len(s) + 1] = e
  BY AppendProperties
<1>2. DOMAIN s = 1..Len(s) /\ Len(s) \in Nat /\ DOMAIN Append(s, e) = 1..(Len(s) + 1)
  BY <1>1, LenProperties
<1>3. DOMAIN Append(s, e) = DOMAIN s \cup {Len(s) + 1} /\ Len(s) + 1 \notin DOMAIN s
  BY <1>2
<1>4. Members(Append(s, e)) = Members(s) \cup {e}
  BY <1>1, <1>2, <1>3 DEF Members
<1>. QED
  BY <1>1, <1>2, <1>3, <1>4

LEMMA CountAppend ==
  ASSUME NEW T, NEW s \in Seq(T), NEW e \in T, NEW x
  PROVE  Count(Append(s, e), x) = IF x = e THEN Count(s, x) + 1 ELSE Count(s, x)
<1>. DEFINE I == {i \in DOMAIN s : s[i] = x}
            J == {i \in DOMAIN Append(s, e) : Append(s, e)[i] = x}
<1>1. J = IF x = e THEN I \cup {Len(s) + 1} ELSE I
  BY AppendEntries
<1>2. IsFiniteSet(I) /\ Len(s) + 1 \notin I
  BY PositionsFinite, AppendEntries
<1>3. Cardinality(J) = IF x = e THEN Cardinality(I) + 1 ELSE Cardinality(I)
  BY <1>1, <1>2, FS_AddElement
<1>. QED
  BY <1>3 DEF Count

LEMMA OutsideAppend ==
  ASSUME NEW T, NEW s \in Seq(T), NEW e \in T, NEW S
  PROVE  Outside(Append(s, e), S) = IF e \in S THEN Outside(s, S) ELSE Outside(s, S) + 1
<1>. DEFINE I == {i \in DOMAIN s : s[i] \notin S}
            J == {i \in DOMAIN Append(s, e) : Append(s, e)[i] \notin S}
<1>1. J = IF e \in S THEN I ELSE I \cup {Len(s) + 1}
  BY AppendEntries
<1>2. IsFiniteSet(I) /\ Len(s) + 1 \notin I
  BY PositionsFinite, AppendEntries
<1>3. Cardinality(J) = IF e \in S THEN Cardinality(I) ELSE Cardinality(I) + 1
  BY <1>1, <1>2, FS_AddElement
<1>. QED
  BY <1>3 DEF Outside

(* One value more to be in: the entries with that value are outside no longer. *)
LEMMA OutsideMore ==
  ASSUME NEW T, NEW s \in Seq(T), NEW S, NEW x, x \notin S
  PROVE  Outside(s, S \cup {x}) = Outside(s, S) - Count(s, x)
<1>. DEFINE I == {i \in DOMAIN s : s[i] \notin S}
            J == {i \in DOMAIN s : s[i] \notin S \cup {x}}
            K == {i \in DOMAIN s : s[i] = x}
<1>1. I = J \cup K /\ J \cap K = {}
  OBVIOUS
<1>2. IsFiniteSet(J) /\ IsFiniteSet(K) /\ Cardinality(J) \in Nat /\ Cardinality(K) \in Nat
  BY PositionsFinite
<1>3. Cardinality(I) = Cardinality(J) + Cardinality(K) - Cardinality(J \cap K)
  BY <1>1, <1>2, FS_Union
<1>4. Cardinality(J \cap K) = 0
  BY <1>1, FS_EmptySet
<1>. HIDE DEF I, J, K
<1>5. Cardinality(J) = Cardinality(I) - Cardinality(K)
  BY <1>2, <1>3, <1>4
<1>. QED
  BY <1>5 DEF Outside, Count, I, J, K

(* The element at k leaves a list without repetitions. *)
Distinct(s) == \A i, j \in DOMAIN s : s[i] = s[j] => i = j

LEMMA WithoutEntries ==
  ASSUME NEW T, NEW s \in Seq(T), NEW k \in DOMAIN s
  PROVE  /\ Without(s, k) \in Seq(T) /\ Len(Without(s, k)) = Len(s) - 1
         /\ \A i \in 1..(Len(s) - 1) : Without(s, k)[i] = IF i < k THEN s[i] ELSE s[i + 1]
<1>1. /\ Len(s) \in Nat /\ k \in Nat /\ k >= 1 /\ k <= Len(s)
      /\ \A i \in 1..Len(s) : s[i] \in T
  BY LenProperties
<1>2. /\ SubSeq(s, 1, k - 1) \in Seq(T) /\ Len(SubSeq(s, 1, k - 1)) = k - 1
      /\ \A i \in 1..(k - 1) : SubSeq(s, 1, k - 1)[i] = s[i]
  BY <1>1
<1>3. /\ SubSeq(s, k + 1, Len(s)) \in Seq(T) /\ Len(SubSeq(s, k + 1, Len(s))) = Len(s) - k
      /\ \A i \in 1..(Len(s) - k) : SubSeq(s, k + 1, Len(s))[i] = s[i + k]
  BY <1>1
<1>. DEFINE front == SubSeq(s, 1, k - 1)
            back == SubSeq(s, k + 1, Len(s))
<1>4. Without(s, k) = front \o back
  BY DEF Without
<1>. HIDE DEF front, back
<1>5. /\ front \in Seq(T) /\ Len(front) = k - 1
      /\ back \in Seq(T) /\ Len(back) = Len(s) - k
      /\ \A i \in 1..(k - 1) : front[i] = s[i]
      /\ \A i \in 1..(Len(s) - k) : back[i] = s[i + k]
  BY <1>2, <1>3 DEF front, back
<1>6. /\ front \o back \in Seq(T) /\ Len(front \o back) = Len(front) + Len(back)
      /\ \A i \in 1..(Len(front) + Len(back)) :
           (front \o back)[i] = IF i <= Len(front) THEN front[i] ELSE back[i - Len(front)]
  BY <1>5, ConcatProperties
<1>7. Len(front) + Len(back) = Len(s) - 1
  BY <1>1, <1>5
<1>8. ASSUME NEW i \in 1..(Len(s) - 1)
      PROVE  (front \o back)[i] = IF i < k THEN s[i] ELSE s[i + 1]
  <2>1. i \in 1..(Len(front) + Len(back))
    BY <1>7
  <2>2. CASE i < k
    <3>1. i \in 1..(k - 1) /\ i <= Len(front)
      BY <1>1, <1>5, <2>2
    <3>. QED
      BY <1>5, <1>6, <2>1, <2>2, <3>1
  <2>3. CASE ~(i < k)
    <3>0. i \in Nat /\ k \in Nat /\ Len(s) \in Nat /\ k <= i /\ i <= Len(s) - 1
      BY <1>1, <2>3
    <3>1. i - (k - 1) \in 1..(Len(s) - k) /\ ~(i <= k - 1) /\ (i - (k - 1)) + k = i + 1
      BY ONLY <3>0
    <3>2. (front \o back)[i] = back[i - (k - 1)]
      <4>1. ~(i <= Len(front)) /\ i - Len(front) = i - (k - 1)
        BY ONLY <1>5, <3>1
      <4>. QED
        BY ONLY <1>6, <2>1, <4>1
    <3>3. back[i - (k - 1)] = s[i + 1]
      BY ONLY <1>5, <3>1
    <3>. QED
      BY <2>3, <3>2, <3>3
  <2>. QED
    BY <2>2, <2>3
<1>. QED
  BY <1>4, <1>6, <1>7, <1>8

LEMMA WithoutDistinct ==
  ASSUME NEW T, NEW s \in Seq(T), NEW k \in DOMAIN s, Distinct(s)
  PROVE  Distinct(Without(s, k)) /\ Members(Without(s, k)) = Members(s) \ {s[k]}
<1>. DEFINE w == Without(s, k)
<1>1. /\ w \in Seq(T) /\ Len(w) = Len(s) - 1
      /\ \A i \in 1..(Len(s) - 1) : w[i] = IF i < k THEN s[i] ELSE s[i + 1]
  BY WithoutEntries
<1>. HIDE DEF w
<1>2. /\ DOMAIN s = 1..Len(s) /\ DOMAIN w = 1..(Len(s) - 1) /\ Len(s) \in Nat
      /\ k \in 1..Len(s)
  BY <1>1, LenProperties
<1>3. ASSUME NEW i \in DOMAIN w
      PROVE  \E j \in DOMAIN s : j # k /\ w[i] = s[j] /\ (j = i \/ j = i + 1) /\ (j = i <=> i < k)
  <2>1. CASE i < k
    BY <1>1, <1>2, <2>1
  <2>2. CASE ~(i < k)
    <3>1. i + 1 \in DOMAIN s /\ i + 1 # k /\ w[i] = s[i + 1] /\ i + 1 # i
      BY <1>1, <1>2, <2>2
    <3>. QED
      BY <2>2, <3>1
  <2>. QED
    BY <2>1, <2>2
<1>4. Distinct(w)
  <2>. SUFFICES ASSUME NEW i \in DOMAIN w, NEW j \in DOMAIN w, w[i] = w[j] PROVE i = j
    BY DEF Distinct
  <2>1. PICK a \in DOMAIN s : w[i] = s[a] /\ (a = i \/ a = i + 1) /\ (a = i <=> i < k)
    BY <1>3
  <2>2. PICK b \in DOMAIN s : w[j] = s[b] /\ (b = j \/ b = j + 1) /\ (b = j <=> j < k)
    BY <1>3
  <2>3. a = b
    BY <2>1, <2>2 DEF Distinct
  <2>. QED
    BY <1>2, <2>1, <2>2, <2>3
<1>5. ASSUME NEW x \in Members(w) PROVE x \in Members(s) /\ x # s[k]
  <2>1. PICK i \in DOMAIN w : x = w[i]
    BY DEF Members
  <2>2. PICK j \in DOMAIN s : j # k /\ w[i] = s[j]
    BY <1>3
  <2>. QED
    BY <2>1, <2>2 DEF Members, Distinct
<1>6. ASSUME NEW x \in Members(s), x # s[k] PROVE x \in Members(w)
  <2>1. PICK j \in DOMAIN s : x = s[j]
    BY DEF Members
  <2>2. j # k
    BY <1>6, <2>1
  <2>3. CASE j < k
    <3>1. j \in 1..(Len(s) - 1) /\ w[j] = s[j]
      BY <1>1, <1>2, <2>3
    <3>. QED
      BY <1>2, <2>1, <3>1 DEF Members
  <2>4. CASE j > k
    <3>1. j - 1 \in 1..(Len(s) - 1) /\ ~(j - 1 < k) /\ (j - 1) + 1 = j
      BY <1>2, <2>4
    <3>2. w[j - 1] = s[j]
      BY <1>1, <3>1
    <3>. QED
      BY <1>2, <2>1, <3>1, <3>2 DEF Members
  <2>. QED
    BY <1>2, <2>2, <2>3, <2>4
<1>. QED
  BY <1>4, <1>5, <1>6 DEF w

LEMMA AppendDistinct ==
  ASSUME NEW T, NEW s \in Seq(T), NEW e \in T, Distinct(s), e \notin Members(s)
  PROVE  Distinct(Append(s, e))
<1>1. ASSUME NEW i \in DOMAIN s PROVE Append(s, e)[i] = s[i] /\ s[i] # e
  BY AppendEntries DEF Members
<1>. QED
  BY <1>1, AppendEntries DEF Distinct

(* The first node of the list that some condition holds of. *)
LEMMA FirstPosition ==
  ASSUME NEW T, NEW s \in Seq(T), NEW D, NEW k \in DOMAIN s, s[k] \in D
  PROVE  \E i \in DOMAIN s : s[i] \in D /\ \A j \in 1..(i - 1) : s[j] \notin D
<1>. DEFINE I == {i \in DOMAIN s : s[i] \in D}
<1>1. DOMAIN s = 1..Len(s) /\ Len(s) \in Nat
  BY LenProperties
<1>2. I \in SUBSET Nat /\ I # {}
  BY <1>1
<1>3. PICK i \in I : \A j \in I : i <= j
  <2>. HIDE DEF I
  <2>. QED
    BY <1>2, LeastNumber
<1>4. ASSUME NEW j \in 1..(i - 1), s[j] \in D PROVE FALSE
  <2>1. i \in 1..Len(s)
    BY <1>1
  <2>2. j \in 1..Len(s) /\ ~(i <= j)
    BY <1>1, <2>1
  <2>. QED
    BY <1>1, <1>3, <1>4, <2>2
<1>. QED
  BY <1>4

-----------------------------------------------------------------------------
(* What the graph's edges satisfy: every output is an input on the other side,
   as often; the in-degrees count the inputs that are not in S; and the nodes
   can be ranked so that every input is below. *)
Mirrors(V, outs, ins) == \A p, n \in V : Count(outs[p], n) = Count(ins[n], p)
Exact(V, ins, degrees, S) == \A n \in V : degrees[n] = Outside(ins[n], S)
Ranks(V, ins, rank) == \A n \in V : \A p \in Members(ins[n]) : rank[p] < rank[n]

(* The nodes' list and the sorted list share the nodes among them. *)
ListInv ==
  /\ Distinct(nodes) /\ Distinct(sorted)
  /\ phase \in {"parse", "sort"} =>
       /\ Members(nodes) \cap Members(sorted) = {}
       /\ Members(nodes) \cup Members(sorted) = Made
       /\ Len(nodes) + Len(sorted) = made
  /\ phase = "parse" => sorted = <<>>
  /\ phase \in {"init", "start", "run"} =>
       nodes = sorted /\ Members(sorted) = Made /\ Len(sorted) = made

(* In the sorted list a node comes after all its inputs. *)
OrderInv ==
  \A i \in DOMAIN sorted : Members(inputs[sorted[i]]) \subseteq {sorted[j] : j \in 1..(i - 1)}

MirrorInv == Mirrors(Made, outputs, inputs)
AcyclicInv == \E rank \in [Made -> Nat] : Ranks(Made, inputs, rank)

GraphInv ==
  GraphTypeOK /\ ListInv /\ MirrorInv /\ InDegreeExact /\ OrderInv /\ AcyclicInv

LEMMA EmptyList ==
  /\ DOMAIN <<>> = {} /\ Members(<<>>) = {} /\ Distinct(<<>>) /\ Len(<<>>) = 0
  /\ \A T : <<>> \in Seq(T)
<1>1. DOMAIN <<>> = {} /\ Len(<<>>) = 0 /\ \A T : <<>> \in Seq(T)
  OBVIOUS
<1>. QED
  BY <1>1 DEF Members, Distinct

LEMMA GraphInitial == GraphInit => GraphInv
<1>. SUFFICES ASSUME GraphInit PROVE GraphInv
  OBVIOUS
<1>1. Made = {}
  BY DEF GraphInit, Made
<1>2. \A T : <<>> \in [Made -> T]
  BY <1>1
<1>3. GraphTypeOK
  <2>1. made \in 0..MaxNodes /\ uses \in 0..MaxUses /\ initialized \in 0..made /\ started \in 0..made
    BY BoundAssumption DEF GraphInit
  <2>2. /\ open \in Seq(Made) /\ nodes \in Seq(Made) /\ sorted \in Seq(Made)
        /\ outputs \in [Made -> Seq(Made)] /\ inputs \in [Made -> Seq(Made)]
        /\ curInDegree \in [Made -> Nat]
    BY <1>2, EmptyList DEF GraphInit
  <2>. QED
    BY <2>1, <2>2 DEF GraphInit, GraphTypeOK
<1>4. ListInv /\ OrderInv
  BY <1>1, EmptyList DEF GraphInit, ListInv, OrderInv
<1>5. MirrorInv /\ InDegreeExact
  BY <1>1 DEF MirrorInv, InDegreeExact, Mirrors
<1>6. AcyclicInv
  BY <1>1, <1>2 DEF AcyclicInv, Ranks
<1>. QED
  BY <1>3, <1>4, <1>5, <1>6 DEF GraphInv

(* Connect keeps what the edges satisfy, and adds one input at most. *)
LEMMA ConnectStep ==
  ASSUME NEW V, open \in Seq(V), NEW n \in V,
         NEW outs \in [V -> Seq(V)], NEW ins \in [V -> Seq(V)], NEW degrees \in [V -> Nat],
         Mirrors(V, outs, ins), Exact(V, ins, degrees, {}),
         Connect(n, outs, ins, degrees)
  PROVE  /\ outputs' \in [V -> Seq(V)] /\ inputs' \in [V -> Seq(V)] /\ curInDegree' \in [V -> Nat]
         /\ Mirrors(V, outputs', inputs') /\ Exact(V, inputs', curInDegree', {})
         /\ open # <<>> => open[Len(open)] \in V
         /\ \A x \in V : Members(inputs'[x]) =
              IF x = n /\ open # <<>> THEN Members(ins[x]) \cup {open[Len(open)]} ELSE Members(ins[x])
<1>1. CASE open = <<>>
  BY <1>1 DEF Connect
<1>2. CASE open # <<>>
  <2>. DEFINE p == open[Len(open)]
  <2>1. Len(open) \in 1..Len(open)
    BY <1>2, EmptySeq
  <2>2. p \in V
    BY <2>1, ElementOfSeq
  <2>3. /\ outputs' = [outs EXCEPT ![p] = Append(@, n)]
        /\ inputs' = [ins EXCEPT ![n] = Append(@, p)]
        /\ curInDegree' = [degrees EXCEPT ![n] = @ + 1]
    BY <1>2 DEF Connect
  <2>. HIDE DEF p
  <2>4. \A x \in V : outputs'[x] = IF x = p THEN Append(outs[x], n) ELSE outs[x]
    BY <2>2, <2>3
  <2>5. \A x \in V : inputs'[x] = IF x = n THEN Append(ins[x], p) ELSE ins[x]
    BY <2>2, <2>3
  <2>6. \A x \in V : curInDegree'[x] = IF x = n THEN degrees[x] + 1 ELSE degrees[x]
    BY <2>3
  <2>7. Append(outs[p], n) \in Seq(V) /\ Append(ins[n], p) \in Seq(V) /\ degrees[n] + 1 \in Nat
    BY <2>2
  <2>8. outputs' \in [V -> Seq(V)] /\ inputs' \in [V -> Seq(V)] /\ curInDegree' \in [V -> Nat]
    BY <2>3, <2>7
  <2>9. Mirrors(V, outputs', inputs')
    <3>. SUFFICES ASSUME NEW q \in V, NEW m \in V
                  PROVE  Count(outputs'[q], m) = Count(inputs'[m], q)
      BY DEF Mirrors
    <3>1. outs[q] \in Seq(V) /\ ins[m] \in Seq(V)
      OBVIOUS
    <3>2. Count(outputs'[q], m)
            = IF q = p /\ m = n THEN Count(outs[q], m) + 1 ELSE Count(outs[q], m)
      BY <2>4, <3>1, CountAppend
    <3>3. Count(inputs'[m], q)
            = IF q = p /\ m = n THEN Count(ins[m], q) + 1 ELSE Count(ins[m], q)
      BY <2>2, <2>5, <3>1, CountAppend
    <3>. QED
      BY <3>2, <3>3 DEF Mirrors
  <2>10. Exact(V, inputs', curInDegree', {})
    <3>. SUFFICES ASSUME NEW m \in V PROVE curInDegree'[m] = Outside(inputs'[m], {})
      BY DEF Exact
    <3>1. degrees[m] = Outside(ins[m], {}) /\ ins[m] \in Seq(V)
      BY DEF Exact
    <3>2. Outside(Append(ins[m], p), {}) = Outside(ins[m], {}) + 1
      BY <2>2, <3>1, OutsideAppend
    <3>. QED
      BY <2>5, <2>6, <3>1, <3>2
  <2>11. \A x \in V : Members(inputs'[x]) =
              IF x = n THEN Members(ins[x]) \cup {p} ELSE Members(ins[x])
    <3>1. Members(Append(ins[n], p)) = Members(ins[n]) \cup {p}
      BY <2>2, AppendEntries
    <3>. QED
      BY <2>5, <3>1
  <2>. QED
    BY <1>2, <2>2, <2>8, <2>9, <2>10, <2>11 DEF p
<1>. QED
  BY <1>1, <1>2

(* While the parser is at work all nodes are in the list and none is sorted. *)
LEMMA ParseFacts ==
  ASSUME GraphInv, phase = "parse"
  PROVE  /\ made \in Nat /\ made \in 0..MaxNodes /\ sorted = <<>> /\ open \in Seq(Made)
         /\ outputs \in [Made -> Seq(Made)] /\ inputs \in [Made -> Seq(Made)]
         /\ curInDegree \in [Made -> Nat] /\ Mirrors(Made, outputs, inputs)
         /\ Exact(Made, inputs, curInDegree, {})
         /\ nodes \in Seq(Made) /\ Distinct(nodes) /\ Members(nodes) = Made /\ Len(nodes) = made
<1>1. sorted = <<>> /\ made \in Nat
  BY DEF GraphInv, ListInv, GraphTypeOK
<1>2. Members(sorted) = {} /\ Len(sorted) = 0
  BY <1>1, EmptyList
<1>3. Exact(Made, inputs, curInDegree, {})
  BY <1>2 DEF GraphInv, InDegreeExact, Exact
<1>4. Members(nodes) \cup Members(sorted) = Made /\ Len(nodes) + Len(sorted) = made
      /\ Distinct(nodes)
  BY DEF GraphInv, ListInv
<1>5. nodes \in Seq(Made) /\ Len(nodes) \in Nat
  BY LenProperties DEF GraphInv, GraphTypeOK
<1>6. Members(nodes) = Made /\ Len(nodes) = made
  BY <1>1, <1>2, <1>4, <1>5
<1>. QED
  BY <1>1, <1>3, <1>4, <1>5, <1>6 DEF GraphInv, GraphTypeOK, MirrorInv

(* A node is made and put below the innermost open element: it goes above its
   one input. *)
LEMMA AddNodeStep == ASSUME GraphInv, NEW def \in BOOLEAN, AddNode(def) PROVE GraphInv'
<1>. DEFINE n == made + 1
            V == 1..n
            outs == Append(outputs, <<>>)
            ins == Append(inputs, <<>>)
            degrees == Append(curInDegree, 0)
<1>1. /\ phase = "parse" /\ made < MaxNodes /\ made' = n /\ nodes' = Append(nodes, n)
      /\ defs' = (IF def THEN defs \cup {n} ELSE defs) /\ open' = Append(open, n)
      /\ Connect(n, outs, ins, degrees)
      /\ UNCHANGED <<phase, sorted, initialized, started, uses>>
  BY DEF AddNode
<1>2. /\ made \in Nat /\ made \in 0..MaxNodes /\ Made = 1..made /\ sorted = <<>>
      /\ outputs \in [Made -> Seq(Made)] /\ inputs \in [Made -> Seq(Made)]
      /\ curInDegree \in [Made -> Nat] /\ Mirrors(Made, outputs, inputs)
      /\ Exact(Made, inputs, curInDegree, {})
  BY <1>1, ParseFacts DEF Made
<1>3. V = Made \cup {n} /\ n \notin Made /\ Made' = V /\ Made \subseteq V /\ n \in V
  BY <1>1, <1>2 DEF Made
<1>4. /\ outs \in [V -> Seq(V)] /\ ins \in [V -> Seq(V)] /\ degrees \in [V -> Nat]
      /\ Mirrors(V, outs, ins) /\ Exact(V, ins, degrees, {})
      /\ Members(ins[n]) = {} /\ \A x \in Made : ins[x] = inputs[x]
  <2>1. <<>> \in Seq(Made)
    BY EmptyList
  <2>2. /\ outs \in [V -> Seq(Made)] /\ outs[n] = <<>> /\ \A x \in Made : outs[x] = outputs[x]
        /\ ins \in [V -> Seq(Made)] /\ ins[n] = <<>> /\ \A x \in Made : ins[x] = inputs[x]
        /\ degrees \in [V -> Nat] /\ degrees[n] = 0
        /\ \A x \in Made : degrees[x] = curInDegree[x]
    <3>1. outputs \in Seq(Seq(Made)) /\ inputs \in Seq(Seq(Made)) /\ curInDegree \in Seq(Nat)
          /\ Len(outputs) = made /\ Len(inputs) = made /\ Len(curInDegree) = made
      BY <1>2
    <3>2. /\ outs \in Seq(Seq(Made)) /\ Len(outs) = n /\ outs[n] = <<>>
          /\ \A x \in 1..made : outs[x] = outputs[x]
      BY <2>1, <3>1, AppendProperties
    <3>3. /\ ins \in Seq(Seq(Made)) /\ Len(ins) = n /\ ins[n] = <<>>
          /\ \A x \in 1..made : ins[x] = inputs[x]
      BY <2>1, <3>1, AppendProperties
    <3>4. /\ degrees \in Seq(Nat) /\ Len(degrees) = n /\ degrees[n] = 0
          /\ \A x \in 1..made : degrees[x] = curInDegree[x]
      BY <3>1, AppendProperties
    <3>. HIDE DEF outs, ins, degrees
    <3>5. outs \in [V -> Seq(Made)] /\ ins \in [V -> Seq(Made)] /\ degrees \in [V -> Nat]
      BY <3>2, <3>3, <3>4, LenProperties
    <3>. QED
      BY <1>2, <3>2, <3>3, <3>4, <3>5
  <2>. HIDE DEF n, V, outs, ins, degrees
  <2>3. outs \in [V -> Seq(V)] /\ ins \in [V -> Seq(V)] /\ degrees \in [V -> Nat]
    <3>1. Seq(Made) \subseteq Seq(V)
      BY <1>3, SeqMonotonic
    <3>. QED
      BY <2>2, <3>1
  <2>4. Mirrors(V, outs, ins)
    <3>. SUFFICES ASSUME NEW p \in V, NEW m \in V PROVE Count(outs[p], m) = Count(ins[m], p)
      BY DEF Mirrors
    <3>1. \A x : Count(<<>>, x) = 0
      BY CountMembers, EmptyList
    <3>2. ASSUME NEW q \in Made PROVE Count(outputs[q], n) = 0 /\ Count(inputs[q], n) = 0
      <4>1. outputs[q] \in Seq(Made) /\ inputs[q] \in Seq(Made)
        BY <1>2
      <4>2. n \notin Members(outputs[q]) /\ n \notin Members(inputs[q])
        BY <1>3, <4>1, MembersIn
      <4>. QED
        BY <4>1, <4>2, CountMembers
    <3>3. CASE p \in Made /\ m \in Made
      BY <1>2, <2>2, <3>3 DEF Mirrors
    <3>4. CASE p \in Made /\ m = n
      BY <2>2, <3>1, <3>2, <3>4
    <3>5. CASE p = n /\ m \in Made
      BY <2>2, <3>1, <3>2, <3>5
    <3>6. CASE p = n /\ m = n
      BY <2>2, <3>1, <3>6
    <3>. QED
      BY <1>3, <3>3, <3>4, <3>5, <3>6
  <2>5. Exact(V, ins, degrees, {})
    <3>1. Outside(<<>>, {}) = 0
      BY OutsideMembers, EmptyList
    <3>. QED
      BY <1>2, <1>3, <2>2, <3>1 DEF Exact
  <2>. QED
    BY <2>2, <2>3, <2>4, <2>5, EmptyList
<1>5. open \in Seq(Made) /\ nodes \in Seq(Made) /\ open \in Seq(V) /\ nodes \in Seq(V)
  BY <1>3, SeqMonotonic DEF GraphInv, GraphTypeOK
<1>. HIDE DEF n, V, outs, ins, degrees
<1>6. /\ outputs' \in [V -> Seq(V)] /\ inputs' \in [V -> Seq(V)] /\ curInDegree' \in [V -> Nat]
      /\ Mirrors(V, outputs', inputs') /\ Exact(V, inputs', curInDegree', {})
      /\ \A x \in V : Members(inputs'[x]) =
           IF x = n /\ open # <<>> THEN Members(ins[x]) \cup {open[Len(open)]} ELSE Members(ins[x])
  BY <1>1, <1>3, <1>4, <1>5, ConnectStep
<1>7. GraphTypeOK'
  <2>1. open' \in Seq(V) /\ nodes' \in Seq(V)
    BY <1>1, <1>3, <1>5, AppendProperties
  <2>2. sorted' \in Seq(V)
    BY <1>1, <1>2, EmptyList
  <2>3. made' \in 0..MaxNodes /\ initialized' \in 0..made' /\ started' \in 0..made'
    BY <1>1, <1>2, BoundAssumption DEF n, GraphInv, GraphTypeOK
  <2>4. defs' \subseteq V
    BY <1>1, <1>3 DEF GraphInv, GraphTypeOK
  <2>. QED
    BY <1>1, <1>3, <1>6, <2>1, <2>2, <2>3, <2>4 DEF GraphInv, GraphTypeOK
<1>8. ListInv'
  <2>1. /\ Distinct(nodes) /\ Members(nodes) = Made /\ Len(nodes) = made
    BY <1>1, ParseFacts
  <2>2. Distinct(nodes') /\ Members(nodes') = V /\ Len(nodes') = n
    BY <1>1, <1>3, <1>5, <2>1, AppendDistinct, AppendEntries DEF n
  <2>3. Len(nodes') + Len(sorted') = made'
    BY <1>1, <1>2, <2>2, EmptyList DEF n
  <2>. QED
    BY <1>1, <1>2, <1>3, <2>2, <2>3, EmptyList DEF ListInv
<1>9. MirrorInv' /\ InDegreeExact' /\ OrderInv'
  BY <1>1, <1>2, <1>3, <1>6, EmptyList DEF MirrorInv, InDegreeExact, Exact, OrderInv
<1>10. AcyclicInv'
  <2>1. PICK rank \in [Made -> Nat] : Ranks(Made, inputs, rank)
    BY DEF GraphInv, AcyclicInv
  <2>. DEFINE top == IF open = <<>> THEN 0 ELSE rank[open[Len(open)]] + 1
              higher == [x \in V |-> IF x = n THEN top ELSE rank[x]]
  <2>2. open # <<>> => open[Len(open)] \in Made
    BY <1>5, EmptySeq, ElementOfSeq
  <2>3. higher \in [V -> Nat]
    BY <1>3, <2>2
  <2>4. ASSUME NEW x \in V, NEW p \in Members(inputs'[x]) PROVE higher[p] < higher[x]
    <3>1. CASE x = n
      <4>1. open # <<>> /\ p = open[Len(open)]
        BY <1>4, <1>6, <2>4, <3>1
      <4>2. higher[x] = rank[p] + 1 /\ higher[p] = rank[p] /\ rank[p] \in Nat
        BY <1>3, <2>2, <3>1, <4>1
      <4>. QED
        BY <4>2
    <3>2. CASE x # n
      <4>1. x \in Made /\ p \in Members(inputs[x])
        <5>1. x \in Made /\ Members(inputs'[x]) = Members(ins[x])
          BY <1>3, <1>6, <3>2
        <5>2. ins[x] = inputs[x]
          BY <1>4, <5>1
        <5>. QED
          BY <2>4, <5>1, <5>2
      <4>2. p \in Made
        <5>1. inputs[x] \in Seq(Made)
          BY <1>2, <4>1
        <5>. QED
          BY <4>1, <5>1, MembersIn
      <4>3. rank[p] < rank[x]
        BY <2>1, <4>1 DEF Ranks
      <4>. QED
        BY <1>3, <4>1, <4>2, <4>3
    <3>. QED
      BY <3>1, <3>2
  <2>. HIDE DEF higher
  <2>. QED
    BY <1>3, <2>3, <2>4 DEF AcyclicInv, Ranks
<1>. QED
  BY <1>7, <1>8, <1>9, <1>10 DEF GraphInv

(* A node is used again, below an element it does not reach: it moves above that
   element, with everything it reaches. *)
LEMMA UseNodeStep == ASSUME GraphInv, NEW n \in Made, UseNode(n) PROVE GraphInv'
<1>1. /\ phase = "parse" /\ uses < MaxUses /\ n \in defs
      /\ open # <<>> => ~Reaches(n, open[Len(open)])
      /\ uses' = uses + 1 /\ open' = Append(open, n)
      /\ Connect(n, outputs, inputs, curInDegree)
      /\ UNCHANGED <<phase, nodes, defs, sorted, initialized, started, made>>
  BY DEF UseNode
<1>2. /\ sorted = <<>> /\ Made' = Made /\ open \in Seq(Made)
      /\ outputs \in [Made -> Seq(Made)] /\ inputs \in [Made -> Seq(Made)]
      /\ curInDegree \in [Made -> Nat] /\ Mirrors(Made, outputs, inputs)
      /\ Exact(Made, inputs, curInDegree, {})
  BY <1>1, ParseFacts DEF Made
<1>3. /\ outputs' \in [Made -> Seq(Made)] /\ inputs' \in [Made -> Seq(Made)]
      /\ curInDegree' \in [Made -> Nat]
      /\ Mirrors(Made, outputs', inputs') /\ Exact(Made, inputs', curInDegree', {})
      /\ open # <<>> => open[Len(open)] \in Made
      /\ \A x \in Made : Members(inputs'[x]) =
           IF x = n /\ open # <<>> THEN Members(inputs[x]) \cup {open[Len(open)]}
                                   ELSE Members(inputs[x])
  <2>. DEFINE V == Made
  <2>1. open \in Seq(V) /\ n \in V
    BY <1>2
  <2>. HIDE DEF V
  <2>. QED
    BY <1>1, <1>2, <2>1, ConnectStep DEF V
<1>4. GraphTypeOK'
  <2>1. open' \in Seq(Made)
    BY <1>1, <1>2, AppendProperties
  <2>2. uses' \in 0..MaxUses
    BY <1>1, BoundAssumption DEF GraphInv, GraphTypeOK
  <2>. QED
    BY <1>1, <1>2, <1>3, <2>1, <2>2 DEF GraphInv, GraphTypeOK
<1>5. ListInv'
  BY <1>1, <1>2 DEF GraphInv, ListInv
<1>6. MirrorInv' /\ InDegreeExact' /\ OrderInv'
  BY <1>1, <1>2, <1>3, EmptyList DEF MirrorInv, InDegreeExact, Exact, OrderInv
<1>7. AcyclicInv'
  <2>1. PICK rank \in [Made -> Nat] : Ranks(Made, inputs, rank)
    BY DEF GraphInv, AcyclicInv
  <2>2. CASE open = <<>>
    <3>1. Ranks(Made, inputs', rank)
      BY <1>3, <2>1, <2>2 DEF Ranks
    <3>. QED
      BY <1>2, <3>1 DEF AcyclicInv
  <2>3. CASE open # <<>>
    <3>. DEFINE p == open[Len(open)]
    <3>1. p \in Made
      BY <1>3, <2>3
    <3>2. PICK S \in SUBSET Made : n \in S /\ Closed(S) /\ p \notin S
      BY <1>1, <2>3 DEF Reaches
    <3>. HIDE DEF p
    <3>. DEFINE higher == [x \in Made |-> IF x \in S THEN rank[x] + rank[p] + 1 ELSE rank[x]]
    <3>3. higher \in [Made -> Nat]
      BY <3>1
    <3>4. ASSUME NEW x \in Made, NEW q \in Members(inputs[x]) PROVE higher[q] < higher[x]
      <4>1. inputs[x] \in Seq(Made)
        BY <1>2
      <4>2. q \in Made
        BY <3>4, <4>1, MembersIn
      <4>3. rank[q] < rank[x] /\ rank[q] \in Nat /\ rank[x] \in Nat /\ rank[p] \in Nat
        BY <2>1, <3>1, <3>4, <4>2 DEF Ranks
      <4>4. q \in S => x \in S
        <5>1. Count(outputs[q], x) = Count(inputs[x], q) /\ outputs[q] \in Seq(Made)
          BY <1>2, <4>2 DEF Mirrors
        <5>2. x \in Members(outputs[q])
          BY <3>4, <4>1, <5>1, CountMembers
        <5>. QED
          BY <3>2, <5>2 DEF Closed
      <4>. QED
        BY <4>2, <4>3, <4>4
    <3>5. higher[p] < higher[n]
      BY <3>1, <3>2
    <3>. HIDE DEF higher
    <3>6. Ranks(Made, inputs', higher)
      BY <1>3, <2>3, <3>4, <3>5 DEF Ranks, p
    <3>. QED
      BY <1>2, <3>3, <3>6 DEF AcyclicInv
  <2>. QED
    BY <2>2, <2>3
<1>. QED
  BY <1>4, <1>5, <1>6, <1>7 DEF GraphInv

(* The end of an element or of the configuration changes no edge and no list. *)
LEMMA CloseStep == ASSUME GraphInv, CloseElement \/ EndParse PROVE GraphInv'
<1>1. /\ phase = "parse" /\ phase' \in {"parse", "sort"}
      /\ UNCHANGED <<nodes, curInDegree, sorted, initialized, started, graph>>
  BY DEF CloseElement, EndParse
<1>2. open' \in Seq(Made)
  <2>1. open \in Seq(Made) /\ Len(open) \in Nat /\ \A i \in 1..Len(open) : open[i] \in Made
    BY LenProperties DEF GraphInv, GraphTypeOK
  <2>2. CASE EndParse
    BY <2>1, <2>2 DEF EndParse
  <2>3. CASE CloseElement
    <3>1. \A i \in 1..(Len(open) - 1) : open[i] \in Made
      BY <2>1
    <3>. QED
      BY <2>1, <2>3, <3>1, SubSeqProperties DEF CloseElement
  <2>. QED
    BY <2>2, <2>3
<1>3. Made' = Made
  BY <1>1 DEF graph, Made
<1>4. GraphTypeOK'
  BY <1>1, <1>2, <1>3 DEF GraphInv, GraphTypeOK, graph
<1>5. ListInv'
  BY <1>1, <1>3 DEF GraphInv, ListInv, graph
<1>6. MirrorInv' /\ InDegreeExact' /\ OrderInv' /\ AcyclicInv'
  BY <1>1, <1>3 DEF GraphInv, MirrorInv, InDegreeExact, OrderInv, AcyclicInv, graph
<1>. QED
  BY <1>4, <1>5, <1>6 DEF GraphInv

(* The first free node goes to the end of the sorted list; the counters stay
   exact, an output that is connected twice included. *)
LEMMA SortStepStep == ASSUME GraphInv, SortStep PROVE GraphInv'
<1>1. PICK i \in DOMAIN nodes :
        /\ curInDegree[nodes[i]] = 0
        /\ sorted' = Append(sorted, nodes[i])
        /\ nodes' = Without(nodes, i)
        /\ curInDegree' = [n \in Made |-> curInDegree[n] - Count(outputs[nodes[i]], n)]
  BY DEF SortStep, IsFirstFree
<1>2. /\ phase = "sort" /\ UNCHANGED <<phase, open, initialized, started, graph>> /\ Made' = Made
  BY DEF SortStep, graph, Made
<1>. DEFINE n == nodes[i]
            S == Members(sorted)
<1>3. /\ nodes \in Seq(Made) /\ sorted \in Seq(Made)
      /\ outputs \in [Made -> Seq(Made)] /\ inputs \in [Made -> Seq(Made)]
      /\ curInDegree \in [Made -> Nat] /\ made \in Nat
  BY DEF GraphInv, GraphTypeOK
<1>4. /\ Distinct(nodes) /\ Distinct(sorted) /\ Members(nodes) \cap S = {}
      /\ Members(nodes) \cup S = Made /\ Len(nodes) + Len(sorted) = made
  BY <1>2 DEF GraphInv, ListInv
<1>5. n \in Made /\ n \in Members(nodes) /\ n \notin S
  BY <1>3, <1>4, MembersIn DEF Members
<1>6. /\ nodes' \in Seq(Made) /\ Len(nodes') = Len(nodes) - 1
      /\ Distinct(nodes') /\ Members(nodes') = Members(nodes) \ {n}
  BY <1>1, <1>3, <1>4, WithoutEntries, WithoutDistinct
<1>. HIDE DEF n
<1>7. /\ sorted' = Append(sorted, n)
      /\ \A m \in Made : curInDegree'[m] = curInDegree[m] - Count(outputs[n], m)
      /\ DOMAIN curInDegree' = Made /\ curInDegree' = [m \in Made |-> curInDegree'[m]]
      /\ curInDegree[n] = 0
  BY <1>1 DEF n
<1>8. /\ sorted' \in Seq(Made) /\ Len(sorted') = Len(sorted) + 1 /\ Distinct(sorted')
      /\ Members(sorted') = S \cup {n} /\ DOMAIN sorted = 1..Len(sorted)
      /\ DOMAIN sorted' = DOMAIN sorted \cup {Len(sorted) + 1} /\ sorted'[Len(sorted) + 1] = n
      /\ \A j \in DOMAIN sorted : sorted'[j] = sorted[j]
  <2>1. Distinct(Append(sorted, n))
    BY <1>3, <1>4, <1>5, AppendDistinct
  <2>. DEFINE t == Append(sorted, n)
  <2>2. sorted \in Seq(Made) /\ n \in Made
    BY <1>3, <1>5
  <2>3. t \in Seq(Made) /\ Len(t) = Len(sorted) + 1 /\ Members(t) = S \cup {n}
    BY <2>2, AppendEntries
  <2>4. /\ DOMAIN sorted = 1..Len(sorted) /\ DOMAIN t = DOMAIN sorted \cup {Len(sorted) + 1}
        /\ t[Len(sorted) + 1] = n /\ \A j \in DOMAIN sorted : t[j] = sorted[j]
    BY <2>2, AppendEntries
  <2>. HIDE DEF t
  <2>5. sorted' = t
    BY <1>7 DEF t
  <2>. QED
    BY <2>1, <2>3, <2>4, <2>5 DEF t
<1>9. \A m \in Made : curInDegree'[m] \in Nat /\ curInDegree'[m] = Outside(inputs[m], S \cup {n})
  <2>. SUFFICES ASSUME NEW m \in Made
                PROVE  curInDegree'[m] \in Nat /\ curInDegree'[m] = Outside(inputs[m], S \cup {n})
    OBVIOUS
  <2>1. inputs[m] \in Seq(Made)
    BY <1>3
  <2>2. Count(outputs[n], m) = Count(inputs[m], n)
    BY <1>5 DEF GraphInv, MirrorInv, Mirrors
  <2>3. Outside(inputs[m], S \cup {n}) = Outside(inputs[m], S) - Count(inputs[m], n)
    BY <1>5, <2>1, OutsideMore
  <2>4. curInDegree[m] = Outside(inputs[m], S)
    BY DEF GraphInv, InDegreeExact
  <2>5. Outside(inputs[m], S \cup {n}) \in Nat
    BY <2>1, OutsideMembers
  <2>. QED
    BY <1>7, <2>2, <2>3, <2>4, <2>5
<1>10. GraphTypeOK'
  <2>1. curInDegree' \in [Made -> Nat]
    BY <1>7, <1>9
  <2>. QED
    BY <1>2, <1>6, <1>8, <2>1 DEF GraphInv, GraphTypeOK, graph
<1>11. ListInv'
  <2>1. Members(nodes') \cap Members(sorted') = {} /\ Members(nodes') \cup Members(sorted') = Made
    BY <1>4, <1>5, <1>6, <1>8
  <2>2. Len(nodes') + Len(sorted') = made'
    <3>1. Len(nodes) \in Nat /\ Len(sorted) \in Nat /\ made' = made
      BY <1>2, <1>3, LenProperties DEF graph
    <3>2. Len(nodes') = Len(nodes) - 1 /\ Len(sorted') = Len(sorted) + 1
      BY <1>6, <1>8
    <3>. QED
      BY <1>4, <3>1, <3>2
  <2>. QED
    BY <1>2, <1>6, <1>8, <2>1, <2>2 DEF ListInv
<1>12. InDegreeExact'
  BY <1>2, <1>8, <1>9 DEF InDegreeExact, graph
<1>13. OrderInv'
  <2>. SUFFICES ASSUME NEW k \in DOMAIN sorted'
                PROVE  Members(inputs[sorted'[k]]) \subseteq {sorted'[j] : j \in 1..(k - 1)}
    BY <1>2 DEF OrderInv, graph
  <2>1. Len(sorted) \in Nat
    BY <1>3, LenProperties
  <2>2. CASE k \in DOMAIN sorted
    <3>1. Members(inputs[sorted[k]]) \subseteq {sorted[j] : j \in 1..(k - 1)}
      BY <2>2 DEF GraphInv, OrderInv
    <3>2. \A j \in 1..(k - 1) : sorted'[j] = sorted[j]
      BY <1>8, <2>1, <2>2
    <3>. QED
      BY <1>8, <2>2, <3>1, <3>2
  <2>3. CASE k = Len(sorted) + 1
    <3>1. Outside(inputs[n], S) = 0 /\ inputs[n] \in Seq(Made)
      BY <1>3, <1>5, <1>7 DEF GraphInv, InDegreeExact
    <3>2. Members(inputs[n]) \subseteq S
      BY <3>1, OutsideMembers
    <3>3. S = {sorted'[j] : j \in 1..(k - 1)}
      <4>1. 1..(k - 1) = DOMAIN sorted
        BY <1>8, <2>1, <2>3
      <4>2. S = {sorted[j] : j \in DOMAIN sorted}
        BY DEF Members
      <4>. QED
        BY <1>8, <4>1, <4>2
    <3>. QED
      BY <1>8, <2>3, <3>2, <3>3
  <2>. QED
    BY <1>8, <2>2, <2>3
<1>14. MirrorInv' /\ AcyclicInv'
  BY <1>2 DEF GraphInv, MirrorInv, AcyclicInv, graph
<1>. QED
  BY <1>10, <1>11, <1>12, <1>13, <1>14 DEF GraphInv

(* The sorted list replaces the list; then init() and start() count through it. *)
LEMMA BringUpStep == ASSUME GraphInv, WriteBack \/ InitNode \/ StartNode PROVE GraphInv'
<1>1. UNCHANGED <<open, curInDegree, sorted, graph>> /\ Made' = Made
  BY DEF WriteBack, InitNode, StartNode, graph, Made
<1>2. /\ nodes' = sorted /\ Members(sorted) = Made /\ Len(sorted) = made /\ sorted \in Seq(Made)
      /\ Distinct(sorted) /\ phase' \in {"init", "start", "run"}
  <2>1. sorted \in Seq(Made) /\ Distinct(sorted) /\ Len(sorted) \in Nat
    BY LenProperties DEF GraphInv, GraphTypeOK, ListInv
  <2>2. CASE WriteBack
    <3>1. phase = "sort" /\ nodes = <<>> /\ nodes' = sorted /\ phase' = "init"
      BY <2>2 DEF WriteBack
    <3>2. Members(nodes) = {} /\ Len(nodes) = 0 /\ made \in Nat
      BY <3>1, EmptyList DEF GraphInv, GraphTypeOK
    <3>3. Members(nodes) \cup Members(sorted) = Made /\ Len(nodes) + Len(sorted) = made
      BY <3>1 DEF GraphInv, ListInv
    <3>. QED
      BY <2>1, <3>1, <3>2, <3>3
  <2>3. CASE InitNode \/ StartNode
    BY <2>1, <2>3 DEF InitNode, StartNode, GraphInv, ListInv
  <2>. QED
    BY <2>2, <2>3
<1>3. initialized' \in 0..made /\ started' \in 0..made
  <2>1. initialized \in 0..made /\ started \in 0..made /\ made \in Nat
    BY DEF GraphInv, GraphTypeOK
  <2>2. CASE WriteBack
    BY <2>1, <2>2 DEF WriteBack
  <2>3. CASE InitNode \/ StartNode
    <3>1. nodes = sorted
      BY <2>3 DEF InitNode, StartNode, GraphInv, ListInv
    <3>. QED
      BY <1>2, <2>1, <2>3, <3>1 DEF InitNode, StartNode
  <2>. QED
    BY <2>2, <2>3
<1>4. GraphTypeOK'
  BY <1>1, <1>2, <1>3 DEF GraphInv, GraphTypeOK, graph
<1>5. ListInv'
  BY <1>1, <1>2 DEF ListInv, graph
<1>6. MirrorInv' /\ InDegreeExact' /\ OrderInv' /\ AcyclicInv'
  BY <1>1 DEF GraphInv, MirrorInv, InDegreeExact, OrderInv, AcyclicInv, graph
<1>. QED
  BY <1>4, <1>5, <1>6 DEF GraphInv

LEMMA GraphInvariant == GraphSpec => []GraphInv
<1>1. GraphInv /\ [GraphNext]_graphVars => GraphInv'
  <2>. SUFFICES ASSUME GraphInv, [GraphNext]_graphVars PROVE GraphInv'
    OBVIOUS
  <2>1. ASSUME NEW def \in BOOLEAN, AddNode(def) PROVE GraphInv'
    BY <2>1, AddNodeStep
  <2>2. ASSUME NEW n \in Made, UseNode(n) PROVE GraphInv'
    BY <2>2, UseNodeStep
  <2>3. CASE CloseElement \/ EndParse
    BY <2>3, CloseStep
  <2>4. CASE SortStep
    BY <2>4, SortStepStep
  <2>5. CASE WriteBack \/ InitNode \/ StartNode
    BY <2>5, BringUpStep
  <2>6. CASE UNCHANGED graphVars
    <3>1. GraphTypeOK' /\ ListInv'
      BY <2>6 DEF graphVars, graph, GraphInv, GraphTypeOK, ListInv, Made
    <3>2. MirrorInv' /\ InDegreeExact' /\ OrderInv' /\ AcyclicInv'
      BY <2>6 DEF graphVars, graph, GraphInv, MirrorInv, InDegreeExact, OrderInv, AcyclicInv, Made
    <3>. QED
      BY <3>1, <3>2 DEF GraphInv
  <2>. QED
    BY <2>1, <2>2, <2>3, <2>4, <2>5, <2>6 DEF GraphNext, Parse, BringUp
<1>. QED
  BY <1>1, GraphInitial, PTL DEF GraphSpec

(* Of the nodes that are not sorted yet, one with the least rank has all its
   inputs sorted, so that its counter is zero. *)
LEMMA SomeNodeFree == GraphInv => NeverStuck
<1>. SUFFICES ASSUME GraphInv, phase = "sort", nodes # <<>>
              PROVE  \E i \in DOMAIN nodes : IsFirstFree(i)
  BY DEF NeverStuck
<1>1. PICK rank \in [Made -> Nat] : Ranks(Made, inputs, rank)
  BY DEF GraphInv, AcyclicInv
<1>2. /\ nodes \in Seq(Made) /\ Members(nodes) \cup Members(sorted) = Made
      /\ Members(nodes) \subseteq Made /\ inputs \in [Made -> Seq(Made)]
  BY MembersIn DEF GraphInv, GraphTypeOK, ListInv
<1>3. DOMAIN nodes = 1..Len(nodes) /\ 1 \in DOMAIN nodes
  BY <1>2, EmptySeq, LenProperties
<1>. DEFINE heights == {rank[n] : n \in Members(nodes)}
<1>4. heights \in SUBSET Nat /\ heights # {}
  <2>1. nodes[1] \in Members(nodes)
    BY <1>3 DEF Members
  <2>2. \A n \in Members(nodes) : rank[n] \in Nat
    BY <1>2
  <2>. QED
    BY <2>1, <2>2
<1>5. PICK n \in Members(nodes) : \A m \in Members(nodes) : rank[n] <= rank[m]
  <2>1. PICK h \in heights : \A g \in heights : h <= g
    <3>. HIDE DEF heights
    <3>. QED
      BY <1>4, LeastNumber
  <2>. QED
    BY <2>1
<1>6. Members(inputs[n]) \subseteq Members(sorted)
  <2>. SUFFICES ASSUME NEW p \in Members(inputs[n]) PROVE p \in Members(sorted)
    OBVIOUS
  <2>1. inputs[n] \in Seq(Made) /\ n \in Made
    BY <1>2
  <2>2. p \in Made
    BY <2>1, MembersIn
  <2>3. rank[p] < rank[n] /\ rank[p] \in Nat /\ rank[n] \in Nat
    BY <1>1, <2>1, <2>2 DEF Ranks
  <2>4. ~(rank[n] <= rank[p])
    BY <2>3
  <2>. QED
    BY <1>2, <1>5, <2>2, <2>4
<1>7. curInDegree[n] = 0
  <2>1. inputs[n] \in Seq(Made) /\ n \in Made
    BY <1>2
  <2>2. Outside(inputs[n], Members(sorted)) = 0
    BY <1>6, <2>1, OutsideMembers
  <2>. QED
    BY <2>1, <2>2 DEF GraphInv, InDegreeExact
<1>. DEFINE free == {m \in Made : curInDegree[m] = 0}
<1>8. PICK k \in DOMAIN nodes : nodes[k] = n
  BY DEF Members
<1>9. PICK i \in DOMAIN nodes : nodes[i] \in free /\ \A j \in 1..(i - 1) : nodes[j] \notin free
  <2>1. nodes[k] \in free
    BY <1>2, <1>7, <1>8
  <2>. HIDE DEF free
  <2>. QED
    BY <1>2, <2>1, FirstPosition
<1>10. ASSUME NEW j \in 1..(i - 1) PROVE nodes[j] \in Made
  <2>1. j \in 1..Len(nodes)
    BY <1>2, <1>3, LenProperties
  <2>. QED
    BY <1>2, <2>1, ElementOfSeq
<1>. QED
  BY <1>9, <1>10 DEF IsFirstFree

(* The sort works on exact counters, finds a node to move in every turn and gives
   back every node once, for every acyclic configuration, whatever DEF and USE
   it has and whatever is connected twice. *)
THEOREM SortSafety == GraphSpec => []SortSafe
<1>1. GraphInv => SortSafe
  <2>1. GraphInv => NothingLost
    BY DEF GraphInv, ListInv, NothingLost
  <2>. QED
    BY <2>1, SomeNodeFree DEF GraphInv, SortSafe
<1>. QED
  BY <1>1, GraphInvariant, PTL

(* In the list that init() is called along, a node comes after all its inputs. *)
THEOREM InputsInitialised == GraphSpec => []InputsFirst
<1>1. GraphInv => InputsFirst
  <2>. SUFFICES ASSUME GraphInv, phase \in {"init", "start", "run"}, NEW i \in 1..initialized
                PROVE  Members(inputs[nodes[i]]) \subseteq {nodes[j] : j \in 1..(i - 1)}
    BY DEF InputsFirst
  <2>1. nodes = sorted /\ Len(sorted) = made /\ sorted \in Seq(Made) /\ initialized \in 0..made
        /\ made \in Nat
    BY DEF GraphInv, ListInv, GraphTypeOK
  <2>2. i \in DOMAIN sorted
    BY <2>1, LenProperties
  <2>. QED
    BY <2>1, <2>2 DEF GraphInv, OrderInv
<1>. QED
  BY <1>1, GraphInvariant, PTL

(* initTraversal calls start() when every node's init() has returned, and comes
   back when every node's start() has: the safety half of ComesUp. *)
StartsInOrder ==
  /\ phase \notin {"start", "run"} => started = 0
  /\ phase \in {"start", "run"} => initialized = made
  /\ phase = "run" => started = made

(* No node is started while another one is not initialised yet, and the loop is
   not entered before all of them are started. *)
THEOREM StartOrder == GraphSpec => []StartsInOrder
<1>. USE DEF StartsInOrder
<1>1. GraphInit => StartsInOrder
  BY DEF GraphInit
<1>2. GraphInv /\ StartsInOrder /\ [GraphNext]_graphVars => StartsInOrder'
  <2>. SUFFICES ASSUME GraphInv, StartsInOrder, [GraphNext]_graphVars PROVE StartsInOrder'
    OBVIOUS
  <2>1. ASSUME NEW def \in BOOLEAN, AddNode(def) PROVE StartsInOrder'
    BY <2>1 DEF AddNode
  <2>2. ASSUME NEW n \in Made, UseNode(n) PROVE StartsInOrder'
    BY <2>2 DEF UseNode
  <2>3. CASE CloseElement \/ EndParse \/ SortStep \/ WriteBack
    BY <2>3 DEF CloseElement, EndParse, SortStep, WriteBack, graph
  <2>4. CASE InitNode \/ StartNode
    <3>1. /\ Len(nodes) = made /\ made \in Nat
          /\ initialized \in 0..made /\ started \in 0..made /\ made' = made
      BY <2>4 DEF InitNode, StartNode, GraphInv, ListInv, GraphTypeOK, graph
    <3>. QED
      BY <2>4, <3>1 DEF InitNode, StartNode
  <2>5. CASE UNCHANGED graphVars
    BY <2>5 DEF graphVars, graph
  <2>. QED
    BY <2>1, <2>2, <2>3, <2>4, <2>5 DEF GraphNext, Parse, BringUp
<1>. QED
  BY <1>1, <1>2, GraphInvariant, PTL DEF GraphSpec
-----------------------------------------------------------------------------
(* The steps that initTraversal, init() and start() still take at most. *)
StepsLeft ==
  CASE phase = "sort"  -> Len(nodes) + 2 * made + 3
    [] phase = "init"  -> (made - initialized) + made + 2
    [] phase = "start" -> (made - started) + 1
    [] OTHER           -> 0

(* The bring-up of a parsed graph comes to its end: every step of it lowers
   StepsLeft.  With NeverStuck, which says that the sort has a step, this is
   what ComesUp states, for every graph. *)
BringUpEnds ==
  [][phase # "parse" =>
       /\ StepsLeft \in Nat /\ StepsLeft' \in Nat /\ StepsLeft' < StepsLeft
       /\ phase' # "parse"]_graphVars

(* initTopologicalSortedTraversal(), init() and start() come to their end, for
   every acyclic configuration. *)
THEOREM BringUpVariant == GraphSpec => BringUpEnds
<1>1. ASSUME GraphInv, GraphNext, phase # "parse"
      PROVE  /\ StepsLeft \in Nat /\ StepsLeft' \in Nat /\ StepsLeft' < StepsLeft
             /\ phase' # "parse"
  <2>. USE <1>1
  <2>1. /\ made \in Nat /\ initialized \in 0..made /\ started \in 0..made
        /\ nodes \in Seq(Made) /\ Len(nodes) \in Nat
    BY LenProperties DEF GraphInv, GraphTypeOK
  <2>2. ~Parse
    BY DEF Parse, AddNode, UseNode, CloseElement, EndParse
  <2>3. CASE SortStep
    <3>1. phase = "sort" /\ UNCHANGED <<phase, made>>
      BY <2>3 DEF SortStep, graph
    <3>2. Len(nodes') = Len(nodes) - 1 /\ Len(nodes') \in Nat
      <4>1. PICK i \in DOMAIN nodes : nodes' = Without(nodes, i)
        BY <2>3 DEF SortStep
      <4>2. Distinct(nodes)
        BY DEF GraphInv, ListInv
      <4>3. nodes' \in Seq(Made) /\ Len(nodes') = Len(nodes) - 1
        BY <2>1, <4>1, <4>2, WithoutEntries
      <4>. QED
        BY <4>3, LenProperties
    <3>. QED
      BY <2>1, <3>1, <3>2 DEF StepsLeft
  <2>4. CASE WriteBack
    <3>1. phase = "sort" /\ phase' = "init" /\ UNCHANGED <<made, initialized>>
      BY <2>4 DEF WriteBack, graph
    <3>. QED
      BY <2>1, <3>1 DEF StepsLeft
  <2>5. CASE InitNode
    <3>1. /\ phase = "init" /\ UNCHANGED <<made, started>> /\ Len(nodes) = made
          /\ \/ initialized < made /\ initialized' = initialized + 1 /\ phase' = "init"
             \/ phase' = "start"
      BY <2>5 DEF InitNode, graph, GraphInv, ListInv
    <3>. QED
      BY <2>1, <3>1 DEF StepsLeft
  <2>6. CASE StartNode
    <3>1. /\ phase = "start" /\ UNCHANGED made /\ Len(nodes) = made
          /\ \/ started < made /\ started' = started + 1 /\ phase' = "start"
             \/ phase' = "run"
      BY <2>6 DEF StartNode, graph, GraphInv, ListInv
    <3>. QED
      BY <2>1, <3>1 DEF StepsLeft
  <2>. QED
    BY <2>2, <2>3, <2>4, <2>5, <2>6 DEF GraphNext, BringUp
<1>2. GraphInv /\ [GraphNext]_graphVars =>
        [phase # "parse" =>
           /\ StepsLeft \in Nat /\ StepsLeft' \in Nat /\ StepsLeft' < StepsLeft
           /\ phase' # "parse"]_graphVars
  BY <1>1
<1>. QED
  BY <1>2, GraphInvariant, PTL DEF GraphSpec, BringUpEnds

-----------------------------------------------------------------------------
(* A thread that sleeps in pause() has its wake-up before it: the loop is still
   paused, so that the next update() does the idle tasks, or an update() has
   done them and is about to broadcast. *)
WakeUpComes ==
  \A t \in Pausers :
    pc[t] = "wait" => ~isRunning \/ \E r \in Runners : pc[r] = "release"

(* No pause() sleeps through its broadcast, however many threads call pause()
   and update(): the safety half of EveryPauseReturns. *)
THEOREM PausesWoken == Spec => []WakeUpComes
<1>. USE ManagerAssumption DEF WakeUpComes, TypeOK, Threads, Goto
<1>1. Init => WakeUpComes
  BY DEF Init
<1>2. ManagerInv /\ WakeUpComes /\ [Next]_vars => WakeUpComes'
  <2>. SUFFICES ASSUME ManagerInv, TypeOK, WakeUpComes, [Next]_vars PROVE WakeUpComes'
    BY DEF ManagerInv
  <2>1. ASSUME NEW r \in Runners, TestExit(r) PROVE WakeUpComes'
    BY <2>1 DEF TestExit
  <2>2. ASSUME NEW r \in Runners, Update(r) PROVE WakeUpComes'
    <3>1. isRunning' = isRunning /\ \A u \in Threads : u # r => pc'[u] = pc[u]
      BY <2>2 DEF Update
    <3>2. pc[r] = "update"
      BY <2>2 DEF Update
    <3>. QED
      BY <3>1, <3>2
  <2>3. ASSUME NEW r \in Runners, Visit(r) PROVE WakeUpComes'
    <3>1. isRunning' = isRunning /\ \A u \in Threads : u # r => pc'[u] = pc[u]
      BY <2>3 DEF Visit, traversal
    <3>2. pc[r] = "traverse"
      BY <2>3 DEF Visit
    <3>. QED
      BY <3>1, <3>2
  <2>4. ASSUME NEW r \in Runners, IdleTasks(r) PROVE WakeUpComes'
    BY <2>4 DEF IdleTasks
  <2>5. ASSUME NEW r \in Runners, Release(r) PROVE WakeUpComes'
    BY <2>5 DEF Release
  <2>6. ASSUME NEW t \in Pausers, Pause(t) \/ PauseReturns(t) \/ Spurious(t) PROVE WakeUpComes'
    <3>1. isRunning' = isRunning \/ isRunning' = FALSE
      BY <2>6 DEF Pause, PauseReturns, Spurious
    <3>2. \A u \in Threads : u # t => pc'[u] = pc[u]
      BY <2>6 DEF Pause, PauseReturns, Spurious
    <3>3. pc'[t] = "wait" => isRunning' = FALSE \/ pc[t] = "wait"
      BY <2>6 DEF Pause, PauseReturns, Spurious
    <3>. QED
      BY <3>1, <3>2, <3>3
  <2>7. ASSUME NEW t \in Stoppers, Stop(t) \/ StopNode(t) PROVE WakeUpComes'
    <3>1. isRunning' = isRunning /\ \A u \in Threads : u # t => pc'[u] = pc[u]
      BY <2>7 DEF Stop, StopNode
    <3>. QED
      BY <3>1
  <2>8. CASE UNCHANGED vars
    BY <2>8 DEF vars
  <2>. QED
    BY <2>1, <2>2, <2>3, <2>4, <2>5, <2>6, <2>7, <2>8 DEF Next, RunnerStep
<1>. QED
  BY <1>1, <1>2, ManagerInvariant, PTL DEF Spec

(* stop() ends the scheduler before it touches a node, and goes through the
   nodes from the last to the first, leaving none out; run() returns to nobody
   but one who is stopped. *)
StopsInOrder ==
  /\ \A t \in Stoppers :
       /\ pc[t] # "call" => exitIdle
       /\ pc[t] = "stopping" => \A n \in Nodes : n > last[t] => n \in stopped
       /\ pc[t] = "ended" => stopped = Nodes
  /\ stopped # {} => exitIdle
  /\ \A r \in Runners : pc[r] = "ended" => exitIdle

(* For any number of threads that stop the same Manager at once. *)
THEOREM StopOrder == Spec => []StopsInOrder
<1>. USE ManagerAssumption DEF StopsInOrder, TypeOK, Threads, Goto
<1>1. Init => StopsInOrder
  BY DEF Init
<1>2. ManagerInv /\ StopsInOrder /\ [Next]_vars => StopsInOrder'
  <2>. SUFFICES ASSUME ManagerInv, TypeOK, StopsInOrder, [Next]_vars PROVE StopsInOrder'
    BY DEF ManagerInv
  <2>0. \A t \in Stoppers : pc[t] # "wait"
    BY DEF ManagerInv, LockInv, StopperPoints
  <2>1. ASSUME NEW r \in Runners, RunnerStep(r) PROVE StopsInOrder'
    <3>1. UNCHANGED <<exitIdle, stopped, last>>
      BY <2>1 DEF RunnerStep, TestExit, Update, Visit, IdleTasks, Release
    <3>2. \A t \in Stoppers : pc'[t] = pc[t]
      BY <2>0, <2>1 DEF RunnerStep, TestExit, Update, Visit, IdleTasks, Release, traversal
    <3>3. \A q \in Runners : pc'[q] = "ended" => pc[q] = "ended" \/ exitIdle
      BY <2>1 DEF RunnerStep, TestExit, Update, Visit, IdleTasks, Release, traversal
    <3>. QED
      BY <3>1, <3>2, <3>3
  <2>2. ASSUME NEW t \in Pausers, Pause(t) \/ PauseReturns(t) \/ Spurious(t) PROVE StopsInOrder'
    BY <2>2 DEF Pause, PauseReturns, Spurious
  <2>3. ASSUME NEW t \in Stoppers, Stop(t) PROVE StopsInOrder'
    <3>1. /\ exitIdle' = TRUE /\ stopped' = stopped
          /\ \A u \in Threads : pc'[u] = IF u = t THEN "stopping" ELSE pc[u]
          /\ \A u \in Stoppers : last'[u] = IF u = t THEN NumNodes ELSE last[u]
      BY <2>3 DEF Stop
    <3>. QED
      BY <3>1 DEF Nodes
  <2>4. ASSUME NEW t \in Stoppers, StopNode(t) PROVE StopsInOrder'
    <3>1. pc[t] = "stopping" /\ exitIdle' = exitIdle /\ exitIdle /\ last[t] \in 0..NumNodes
      BY <2>4 DEF StopNode
    <3>2. CASE last[t] > 0
      <4>1. /\ stopped' = stopped \cup {last[t]} /\ pc' = pc
            /\ \A u \in Stoppers : last'[u] = IF u = t THEN last[t] - 1 ELSE last[u]
        BY <2>4, <3>1, <3>2 DEF StopNode
      <4>2. \A n \in Nodes : n > last'[t] => n \in stopped'
        BY <3>1, <3>2, <4>1 DEF Nodes
      <4>3. stopped = Nodes => stopped' = Nodes
        BY <3>1, <3>2, <4>1 DEF Nodes
      <4>. QED
        BY <3>1, <4>1, <4>2, <4>3
    <3>3. CASE last[t] = 0
      <4>1. /\ UNCHANGED <<stopped, last>>
            /\ \A u \in Threads : pc'[u] = IF u = t THEN "ended" ELSE pc[u]
        BY <2>4, <3>1, <3>3 DEF StopNode
      <4>2. stopped = Nodes
        <5>1. \A n \in Nodes : n > last[t]
          BY <3>3 DEF Nodes
        <5>. QED
          BY <3>1, <5>1
      <4>. QED
        BY <3>1, <4>1, <4>2
    <3>. QED
      BY <3>1, <3>2, <3>3
  <2>5. CASE UNCHANGED vars
    BY <2>5 DEF vars
  <2>. QED
    BY <2>1, <2>2, <2>3, <2>4, <2>5 DEF Next
<1>. QED
  BY <1>1, <1>2, ManagerInvariant, PTL DEF Spec
=============================================================================
