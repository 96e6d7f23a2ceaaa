-------------------------- MODULE FrameBuffers_proofs --------------------------
(***************************************************************************)
(* Proofs about FrameBuffers, for any number of buffers, subscribers and   *)
(* clients: the lock counters are exact, so a buffer that is written has   *)
(* no holder; then every subscriber offers whole frames in the order they  *)
(* were captured, no client steps back, and the safety of LatestFrame is   *)
(* implemented.                                                            *)
(***************************************************************************)
EXTENDS FrameBuffers, FiniteSetTheorems, TLAPS

(* Which control points each thread has, and what it knows there about its own
   variables and the mutex of the synchronizer it deals with. *)
ControlInv ==
  /\ pc[Video] \notin ClientPoints
  /\ \A c \in Clients : pc[c] \notin VideoPoints
  /\ \A t \in Threads :
       pc[t] \in SharedPoints \cup {"assign", "swap", "release"} => at[t] \in Subscribers

WriterInv ==
  /\ pc[Video] = "write" => scan \in Buffers /\ frames < MaxFrames
  /\ \A b \in Buffers : updateCtr[b] <= frames

MutexInv ==
  /\ \A t \in Threads : pc[t] = "lock" =>
       mutex[at[t]] = t /\ ptr[t] \in Buffers /\ ptr[t] = buffer[at[t]]
  /\ pc[Video] \in {"swap", "release"} => mutex[at[Video]] = Video

PointerInv ==
  /\ \A t \in Threads : pc[t] = "grab" => buffer[at[t]] \in Buffers
  /\ \A t \in Threads : pc[t] \in {"use", "unlock"} =>
       held[t] \in Buffers /\ buffer[at[t]] \in Buffers
  /\ \A t \in Threads : pc[t] \notin {"use", "unlock", "swap", "release"} => held[t] = None
  /\ pc[Video] \in {"assign", "swap"} =>
       /\ ptr[Video] = currentBuffer /\ currentBuffer \in Buffers
       /\ buffer[at[Video]] # currentBuffer
  /\ pc[Video] = "swap" => held[Video] = ptr[Video]
  /\ pc[Video] = "release" => buffer[at[Video]] \in Buffers

ShapeInv == TypeOK /\ ControlInv /\ WriterInv /\ MutexInv /\ PointerInv

LEMMA VideoIsAThread == Video \in Threads /\ Clients \subseteq Threads
BY DEF Threads

LEMMA InitShape == Init => ShapeInv
<1> SUFFICES ASSUME Init PROVE ShapeInv
  OBVIOUS
<1> USE VideoIsAThread, SizeAssumption, NameAssumption DEF Init
<1>1. TypeOK
  BY DEF TypeOK, Buffers, Frames, VideoPoints, ClientPoints, SharedPoints
<1>2. ControlInv /\ MutexInv /\ PointerInv
  BY DEF ControlInv, MutexInv, PointerInv, VideoPoints, ClientPoints, SharedPoints
<1>3. WriterInv
  BY DEF WriterInv
<1>4. QED
  BY <1>1, <1>2, <1>3 DEF ShapeInv

LEMMA TypeStep == ASSUME ShapeInv, [Next]_vars PROVE TypeOK'
<1> USE VideoIsAThread, SizeAssumption DEF ShapeInv, TypeOK, Goto, bufVars, syncVars, userVars,
      localVars
<1>p. ASSUME NEW t \in Threads, NEW p \in VideoPoints \cup ClientPoints \cup SharedPoints, Goto(t, p)
      PROVE pc' \in [Threads -> VideoPoints \cup ClientPoints \cup SharedPoints]
  BY <1>p
<1>n. /\ {"find", "write", "sink", "assign", "swap", "release"}
             \subseteq VideoPoints \cup ClientPoints \cup SharedPoints
      /\ {"idle", "grab", "lock", "use", "unlock"}
             \subseteq VideoPoints \cup ClientPoints \cup SharedPoints
  BY DEF VideoPoints, ClientPoints, SharedPoints
<1>1. CASE MissFrame \/ DropFrame
  <2>1. Goto(Video, "sink") /\ scan' = 1 /\ at' = [at EXCEPT ![Video] = NumSubscribers]
    BY <1>1 DEF MissFrame, DropFrame, ToSink
  <2>2. QED
    BY <1>1, <1>p, <1>n, <2>1 DEF MissFrame, DropFrame
<1>2. CASE SkipLocked
  BY <1>2 DEF SkipLocked, Buffers
<1>3. CASE BeginWrite
  BY <1>3, <1>p, <1>n DEF BeginWrite
<1>4. CASE EndWrite
  <2>1. Goto(Video, "sink") /\ scan' = 1 /\ at' = [at EXCEPT ![Video] = NumSubscribers]
    BY <1>4 DEF EndWrite, ToSink
  <2>2. frames' \in Frames /\ scan \in Buffers
    BY <1>4 DEF EndWrite, WriterInv, Frames
  <2>3. updateCtr' \in [Buffers -> Frames] /\ pixels' \in [Buffers -> Frames \cup {Torn}]
    <3>1. updateCtr[scan] + 1 \in Frames
      BY <1>4, <2>2 DEF EndWrite, WriterInv, Frames
    <3>2. QED
      BY <1>4, <2>2, <3>1 DEF EndWrite
  <2>4. QED
    BY <1>4, <1>p, <1>n, <2>1, <2>2, <2>3 DEF EndWrite
<1>5. CASE EndTraversal \/ SkipUpdate
  <2>1. CASE EndTraversal
    BY <2>1, <1>p, <1>n DEF EndTraversal
  <2>2. CASE SkipUpdate
    <3>1. at[Video] - 1 \in 0..NumSubscribers
      <4>1. at[Video] \in 0..NumSubscribers /\ at[Video] # 0 /\ NumSubscribers \in Nat
        BY <2>2 DEF SkipUpdate
      <4>2. QED
        BY ONLY <4>1
    <3>2. QED
      BY <2>2, <3>1 DEF SkipUpdate
  <2>3. QED
    BY <1>5, <2>1, <2>2
<1>6. CASE BeginUpdate
  BY <1>6, <1>p, <1>n DEF BeginUpdate
<1>7. CASE AssignLock
  <2>1. ptr[Video] \in Buffers /\ at[Video] \in Subscribers
    BY <1>7 DEF AssignLock, PointerInv, ControlInv
  <2>2. QED
    BY <1>7, <1>p, <1>n, <2>1 DEF AssignLock
<1>8. CASE AssignSwap
  <2>1. at[Video] \in Subscribers /\ held[Video] \in Buffers
    BY <1>8 DEF AssignSwap, ControlInv, PointerInv
  <2>2. QED
    BY <1>8, <1>p, <1>n, <2>1 DEF AssignSwap
<1>u. ASSUME NEW b \in Buffers \cup {None}, Unlocked(b) PROVE lockCtr' \in [Buffers -> Int]
  BY <1>u DEF Unlocked
<1>9. CASE AssignRelease
  <2>1. at[Video] \in Subscribers /\ lockCtr' \in [Buffers -> Int]
    BY <1>9, <1>u DEF AssignRelease, ControlInv
  <2>2. QED
    BY <1>9, <1>p, <1>n, <2>1 DEF AssignRelease
<1>10. ASSUME NEW t \in Threads, GetLocked(t) PROVE TypeOK'
  <2>1. CASE Grab(t)
    <3>1. at[t] \in Subscribers
      BY <2>1 DEF Grab, SharedPoints, ControlInv
    <3>2. QED
      BY <2>1, <1>p, <1>n, <3>1 DEF Grab
  <2>2. CASE LockGrabbed(t)
    <3>1. at[t] \in Subscribers /\ ptr[t] \in Buffers
      BY <2>2 DEF LockGrabbed, SharedPoints, ControlInv, MutexInv
    <3>2. QED
      BY <2>2, <1>p, <1>n, <3>1 DEF LockGrabbed
  <2>3. CASE Use(t)
    <3>1. held[t] \in Buffers /\ at[t] \in Subscribers /\ pc[t] = "use"
      BY <2>3 DEF Use, ControlInv, PointerInv, SharedPoints
    <3>2. CASE t = Video
      BY <2>3, <1>p, <1>n, <3>1, <3>2 DEF Use
    <3>3. CASE t # Video
      <4>1. t \in Clients
        BY <3>3 DEF Threads
      <4>2. updateCtr[held[t]] \in Frames /\ pixels[held[t]] \in Frames \cup {Torn}
        BY <3>1
      <4>3. lastCtr' \in [Clients -> [Subscribers -> Frames]]
        BY <2>3, <3>1, <4>1, <4>2 DEF Use
      <4>4. shown' \in [Clients -> [Subscribers -> Frames \cup {Torn}]]
        BY <2>3, <3>1, <4>1, <4>2 DEF Use
      <4>5. QED
        BY <2>3, <1>p, <1>n, <4>3, <4>4 DEF Use
    <3>4. QED
      BY <3>2, <3>3
  <2>4. CASE Unlock(t)
    <3>1. at[t] \in 1..NumSubscribers
      BY <2>4 DEF Unlock, ControlInv, SharedPoints, Subscribers
    <3>2. QED
      BY <2>4, <1>p, <1>n, <1>u, <3>1 DEF Unlock
  <2>5. QED
    BY <1>10, <2>1, <2>2, <2>3, <2>4 DEF GetLocked
<1>11. ASSUME NEW c \in Clients, NEW s \in Subscribers, BeginClient(c, s) PROVE TypeOK'
  BY <1>11, <1>p, <1>n DEF BeginClient, Subscribers
<1>12. CASE UNCHANGED vars
  BY <1>12 DEF vars
<1>13. QED
  BY <1>1, <1>2, <1>3, <1>4, <1>5, <1>6, <1>7, <1>8, <1>9, <1>10, <1>11, <1>12
     DEF Next, SourceStep, SinkStep
LEMMA ControlStep == ASSUME ShapeInv, [Next]_vars PROVE ControlInv'
<1> USE VideoIsAThread, SizeAssumption, NameAssumption
      DEF ShapeInv, TypeOK, ControlInv, Goto, ClientPoints, VideoPoints, SharedPoints
<1>1. CASE MissFrame \/ DropFrame
  BY <1>1 DEF MissFrame, DropFrame, ToSink
<1>2. CASE SkipLocked
  BY <1>2 DEF SkipLocked
<1>3. CASE BeginWrite
  BY <1>3 DEF BeginWrite
<1>4. CASE EndWrite
  BY <1>4 DEF EndWrite, ToSink
<1>5. CASE EndTraversal \/ SkipUpdate
  BY <1>5 DEF EndTraversal, SkipUpdate
<1>6. CASE BeginUpdate
  BY <1>6 DEF BeginUpdate, Subscribers
<1>7. CASE AssignLock
  BY <1>7 DEF AssignLock
<1>8. CASE AssignSwap
  BY <1>8 DEF AssignSwap
<1>9. CASE AssignRelease
  BY <1>9 DEF AssignRelease
<1>10. ASSUME NEW t \in Threads, GetLocked(t) PROVE ControlInv'
  <2>1. CASE Grab(t)
    BY <2>1 DEF Grab
  <2>2. CASE LockGrabbed(t)
    BY <2>2 DEF LockGrabbed
  <2>3. CASE Use(t)
    BY <2>3 DEF Use
  <2>4. CASE Unlock(t)
    BY <2>4 DEF Unlock, Threads
  <2>5. QED
    BY <1>10, <2>1, <2>2, <2>3, <2>4 DEF GetLocked
<1>11. ASSUME NEW c \in Clients, NEW s \in Subscribers, BeginClient(c, s) PROVE ControlInv'
  BY <1>11 DEF BeginClient, Subscribers
<1>12. CASE UNCHANGED vars
  BY <1>12 DEF vars, localVars
<1>13. QED
  BY <1>1, <1>2, <1>3, <1>4, <1>5, <1>6, <1>7, <1>8, <1>9, <1>10, <1>11, <1>12
     DEF Next, SourceStep, SinkStep

LEMMA WriterStep == ASSUME ShapeInv, [Next]_vars PROVE WriterInv'
<1> USE VideoIsAThread, SizeAssumption
      DEF ShapeInv, TypeOK, WriterInv, Goto, bufVars, localVars, Frames
<1>1. CASE MissFrame \/ DropFrame
  BY <1>1 DEF MissFrame, DropFrame, ToSink
<1>2. CASE SkipLocked
  BY <1>2 DEF SkipLocked
<1>3. CASE BeginWrite
  BY <1>3 DEF BeginWrite
<1>4. CASE EndWrite
  BY <1>4 DEF EndWrite, ToSink
<1>5. CASE EndTraversal \/ SkipUpdate
  BY <1>5 DEF EndTraversal, SkipUpdate
<1>6. CASE BeginUpdate
  BY <1>6 DEF BeginUpdate
<1>7. CASE AssignLock
  BY <1>7 DEF AssignLock
<1>8. CASE AssignSwap
  BY <1>8 DEF AssignSwap
<1>9. CASE AssignRelease
  BY <1>9 DEF AssignRelease
<1>10. ASSUME NEW t \in Threads, GetLocked(t) PROVE WriterInv'
  BY <1>10 DEF GetLocked, Grab, LockGrabbed, Use, Unlock
<1>11. ASSUME NEW c \in Clients, NEW s \in Subscribers, BeginClient(c, s) PROVE WriterInv'
  BY <1>11 DEF BeginClient, Threads
<1>12. CASE UNCHANGED vars
  BY <1>12 DEF vars
<1>13. QED
  BY <1>1, <1>2, <1>3, <1>4, <1>5, <1>6, <1>7, <1>8, <1>9, <1>10, <1>11, <1>12
     DEF Next, SourceStep, SinkStep
LEMMA MutexStep == ASSUME ShapeInv, [Next]_vars PROVE MutexInv'
<1> USE VideoIsAThread, SizeAssumption, NameAssumption
      DEF ShapeInv, TypeOK, MutexInv, ControlInv, PointerInv, ClientPoints, VideoPoints, SharedPoints, Goto, bufVars, syncVars, localVars
<1>1. CASE MissFrame \/ DropFrame
  <2>1. /\ pc'[Video] = "sink" /\ \A t \in Threads \ {Video} : pc'[t] = pc[t] /\ at'[t] = at[t]
        /\ ptr' = ptr /\ mutex' = mutex /\ buffer' = buffer
    BY <1>1 DEF MissFrame, DropFrame, ToSink
  <2>2. QED
    BY <2>1
<1>2. CASE SkipLocked
  BY <1>2 DEF SkipLocked
<1>3. CASE BeginWrite
  BY <1>3 DEF BeginWrite
<1>4. CASE EndWrite
  BY <1>4 DEF EndWrite, ToSink
<1>5. CASE EndTraversal \/ SkipUpdate
  BY <1>5 DEF EndTraversal, SkipUpdate
<1>6. CASE BeginUpdate
  BY <1>6 DEF BeginUpdate
<1>7. CASE AssignLock
  BY <1>7 DEF AssignLock
<1>8. CASE AssignSwap
  BY <1>8 DEF AssignSwap
<1>9. CASE AssignRelease
  BY <1>9 DEF AssignRelease
<1>10. ASSUME NEW t \in Threads, GetLocked(t) PROVE MutexInv'
  <2>1. CASE Grab(t)
    BY <2>1 DEF Grab
  <2>2. CASE LockGrabbed(t)
    BY <2>2 DEF LockGrabbed
  <2>3. CASE Use(t)
    BY <2>3 DEF Use
  <2>4. CASE Unlock(t)
    BY <2>4 DEF Unlock
  <2>5. QED
    BY <1>10, <2>1, <2>2, <2>3, <2>4 DEF GetLocked
<1>11. ASSUME NEW c \in Clients, NEW s \in Subscribers, BeginClient(c, s) PROVE MutexInv'
  BY <1>11 DEF BeginClient, Subscribers
<1>12. CASE UNCHANGED vars
  BY <1>12 DEF vars
<1>13. QED
  BY <1>1, <1>2, <1>3, <1>4, <1>5, <1>6, <1>7, <1>8, <1>9, <1>10, <1>11, <1>12
     DEF Next, SourceStep, SinkStep

LEMMA PointerStep == ASSUME ShapeInv, [Next]_vars PROVE PointerInv'
<1> USE VideoIsAThread, SizeAssumption, NameAssumption
      DEF ShapeInv, TypeOK, MutexInv, ControlInv, PointerInv, WriterInv, ClientPoints, VideoPoints, SharedPoints, Goto, bufVars, syncVars, localVars
<1>1. CASE MissFrame \/ DropFrame
  BY SMTT(20), <1>1 DEF MissFrame, DropFrame, ToSink
<1>2. CASE SkipLocked
  BY <1>2 DEF SkipLocked
<1>3. CASE BeginWrite
  BY <1>3 DEF BeginWrite
<1>4. CASE EndWrite
  BY <1>4 DEF EndWrite, ToSink
<1>5. CASE EndTraversal \/ SkipUpdate
  <2>1. /\ pc'[Video] \in {"sink", "find"} /\ pc[Video] = "sink"
        /\ \A t \in Threads \ {Video} : pc'[t] = pc[t] /\ at'[t] = at[t]
        /\ held' = held /\ buffer' = buffer
    BY <1>5 DEF EndTraversal, SkipUpdate
  <2>2. QED
    BY <2>1
<1>6. CASE BeginUpdate
  BY <1>6 DEF BeginUpdate
<1>7. CASE AssignLock
  BY <1>7 DEF AssignLock
<1>8. CASE AssignSwap
  BY <1>8 DEF AssignSwap
<1>9. CASE AssignRelease
  BY <1>9 DEF AssignRelease
<1>10. ASSUME NEW t \in Threads, GetLocked(t) PROVE PointerInv'
  <2>1. CASE Grab(t)
    BY <2>1 DEF Grab
  <2>2. CASE LockGrabbed(t)
    BY <2>2 DEF LockGrabbed
  <2>3. CASE Use(t)
    BY <2>3 DEF Use
  <2>4. CASE Unlock(t)
    BY <2>4 DEF Unlock
  <2>5. QED
    BY <1>10, <2>1, <2>2, <2>3, <2>4 DEF GetLocked
<1>11. ASSUME NEW c \in Clients, NEW s \in Subscribers, BeginClient(c, s) PROVE PointerInv'
  BY <1>11 DEF BeginClient, Subscribers
<1>12. CASE UNCHANGED vars
  BY <1>12 DEF vars
<1>13. QED
  BY <1>1, <1>2, <1>3, <1>4, <1>5, <1>6, <1>7, <1>8, <1>9, <1>10, <1>11, <1>12
     DEF Next, SourceStep, SinkStep
-----------------------------------------------------------------------------
(* Lock counters.  Holders as a function of what the synchronizers point to    *)
(* and of what the threads hold, to reason about two states at once.           *)

HolderSet(points, holds, b) ==
  {<<"subscriber", s>> : s \in {s \in Subscribers : points[s] = b}} \cup
  {<<"thread", t>> : t \in {t \in Threads : holds[t] = b}}

LEMMA HolderSetIsHolders == \A b : Holders(b) = HolderSet(buffer, held, b)
BY DEF Holders, HolderSet

LEMMA HolderSetFinite == ASSUME NEW points, NEW holds, NEW b
                         PROVE  IsFiniteSet(HolderSet(points, holds, b))
<1> DEFINE Possible == ({"subscriber"} \X Subscribers) \cup ({"thread"} \X Threads)
<1>1. IsFiniteSet({"subscriber"} \X Subscribers)
  <2>1. IsFiniteSet(Subscribers)
    BY SizeAssumption, FS_Interval DEF Subscribers
  <2>2. QED
    BY <2>1, FS_Singleton, FS_Product
<1>2. IsFiniteSet({"thread"} \X Threads)
  <2>1. IsFiniteSet(Threads)
    BY NameAssumption, FS_AddElement DEF Threads
  <2>2. QED
    BY <2>1, FS_Singleton, FS_Product
<1>3. IsFiniteSet(Possible)
  BY <1>1, <1>2, FS_Union
<1>4. HolderSet(points, holds, b) \in SUBSET Possible
  BY DEF HolderSet
<1>5. QED
  BY <1>3, <1>4, FS_Subset

(* A thread that locks h adds one to the holders of h and to no other buffer. *)
LEMMA LockAdds ==
  ASSUME NEW points, NEW holds \in [Threads -> Buffers \cup {None}], NEW t \in Threads,
         NEW h \in Buffers, holds[t] = None, NEW b \in Buffers,
         NEW newHolds,
         newHolds[t] = h, \A u \in Threads \ {t} : newHolds[u] = holds[u]
  PROVE  Cardinality(HolderSet(points, newHolds, b)) =
           Cardinality(HolderSet(points, holds, b)) + IF b = h THEN 1 ELSE 0
<1> DEFINE Before == HolderSet(points, holds, b)
           After == HolderSet(points, newHolds, b)
<1>1. IsFiniteSet(Before) /\ Cardinality(Before) \in Nat
  BY HolderSetFinite, FS_CardinalityType
<1>2. <<"thread", t>> \notin Before
  BY NameAssumption DEF HolderSet
<1>3. CASE b = h
  <2>1. After = Before \cup {<<"thread", t>>}
    BY <1>3 DEF HolderSet
  <2> HIDE DEF Before, After
  <2>2. Cardinality(After) = Cardinality(Before) + 1
    BY <1>1, <1>2, <2>1, FS_AddElement
  <2>3. QED
    BY <1>3, <2>2 DEF Before, After
<1>4. CASE b # h
  <2>1. After = Before
    BY <1>4, NameAssumption DEF HolderSet
  <2>2. QED
    BY <1>1, <1>4, <2>1
<1>5. QED
  BY <1>3, <1>4

(* A thread that unlocks its buffer takes one away. *)
LEMMA UnlockRemoves ==
  ASSUME NEW points, NEW holds \in [Threads -> Buffers \cup {None}], NEW t \in Threads,
         NEW b \in Buffers, NEW newHolds,
         newHolds[t] = None, \A u \in Threads \ {t} : newHolds[u] = holds[u]
  PROVE  Cardinality(HolderSet(points, newHolds, b)) =
           Cardinality(HolderSet(points, holds, b)) - IF b = holds[t] THEN 1 ELSE 0
<1> DEFINE Before == HolderSet(points, holds, b)
           After == HolderSet(points, newHolds, b)
<1>1. IsFiniteSet(Before) /\ Cardinality(Before) \in Nat
  BY HolderSetFinite, FS_CardinalityType
<1>2. CASE b = holds[t]
  <2>1. <<"thread", t>> \in Before
    BY <1>2 DEF HolderSet
  <2>2. After = Before \ {<<"thread", t>>}
    BY <1>2, NameAssumption DEF HolderSet
  <2> HIDE DEF Before, After
  <2>3. Cardinality(After) = Cardinality(Before) - 1
    BY <1>1, <2>1, <2>2, FS_RemoveElement
  <2>4. QED
    BY <1>2, <2>3 DEF Before, After
<1>3. CASE b # holds[t]
  <2>1. After = Before
    BY <1>3, NameAssumption DEF HolderSet
  <2>2. QED
    BY <1>1, <1>3, <2>1
<1>4. QED
  BY <1>2, <1>3

(* The video thread and a synchronizer exchange their buffers: nothing is
   locked or unlocked. *)
LEMMA SwapKeeps ==
  ASSUME NEW points \in [Subscribers -> Buffers \cup {None}],
         NEW holds \in [Threads -> Buffers \cup {None}],
         NEW s \in Subscribers, NEW t \in Threads, NEW b \in Buffers,
         NEW newPoints,
         newPoints[s] = holds[t], \A r \in Subscribers \ {s} : newPoints[r] = points[r],
         NEW newHolds,
         newHolds[t] = points[s], \A u \in Threads \ {t} : newHolds[u] = holds[u]
  PROVE  Cardinality(HolderSet(newPoints, newHolds, b)) =
           Cardinality(HolderSet(points, holds, b))
<1> DEFINE Before == HolderSet(points, holds, b)
           After == HolderSet(newPoints, newHolds, b)
           S == <<"subscriber", s>>
           T == <<"thread", t>>
           Rest == (Before \ {S}) \ {T}
<1>1. IsFiniteSet(Before) /\ Cardinality(Before) \in Nat
  BY HolderSetFinite, FS_CardinalityType
<1>2. IsFiniteSet(Rest) /\ Cardinality(Rest) \in Nat
  BY <1>1, FS_RemoveElement, FS_CardinalityType
<1>3. S # T /\ S \notin Rest /\ T \notin Rest
  OBVIOUS
<1>4. /\ S \in Before <=> points[s] = b
      /\ T \in Before <=> holds[t] = b
      /\ S \in After <=> holds[t] = b
      /\ T \in After <=> points[s] = b
  BY DEF HolderSet
<1>5. (After \ {S}) \ {T} = Rest
  <2>1. \A r \in Subscribers : r # s => newPoints[r] = points[r]
    OBVIOUS
  <2>2. \A u \in Threads : u # t => newHolds[u] = holds[u]
    OBVIOUS
  <2>3. \A x : x \in After /\ x # S /\ x # T <=> x \in Before /\ x # S /\ x # T
    BY <2>1, <2>2 DEF HolderSet
  <2>4. QED
    BY <2>3
<1>6. IsFiniteSet(After) /\ Cardinality(After) \in Nat
  BY HolderSetFinite, FS_CardinalityType
<1>7. ASSUME NEW X, IsFiniteSet(X), (X \ {S}) \ {T} = Rest
      PROVE  Cardinality(X) = Cardinality(Rest) + (IF S \in X THEN 1 ELSE 0)
                                                + (IF T \in X THEN 1 ELSE 0)
  <2>1. /\ IsFiniteSet(X \ {S}) /\ Cardinality(X) \in Nat
        /\ Cardinality(X \ {S}) = IF S \in X THEN Cardinality(X) - 1 ELSE Cardinality(X)
    BY <1>7, FS_RemoveElement, FS_CardinalityType
  <2>2. Cardinality(Rest) =
          IF T \in X \ {S} THEN Cardinality(X \ {S}) - 1 ELSE Cardinality(X \ {S})
    BY <1>7, <2>1, FS_RemoveElement
  <2>3. T \in X \ {S} <=> T \in X
    BY <1>3
  <2>4. QED
    BY <1>2, <2>1, <2>2, <2>3
<1>8. Cardinality(Before) = Cardinality(Rest) + (IF points[s] = b THEN 1 ELSE 0)
                                              + (IF holds[t] = b THEN 1 ELSE 0)
  BY <1>1, <1>4, <1>7
<1>9. Cardinality(After) = Cardinality(Rest) + (IF holds[t] = b THEN 1 ELSE 0)
                                             + (IF points[s] = b THEN 1 ELSE 0)
  BY <1>4, <1>5, <1>6, <1>7
<1> HIDE DEF Before, After, Rest
<1>10. Cardinality(Before) = Cardinality(After)
  BY <1>2, <1>8, <1>9
<1>11. QED
  BY <1>10 DEF Before, After
(* The lock counters are exact, and the buffer that is written has no holder. *)
CountInv ==
  /\ LockCounterExact
  /\ pc[Video] = "write" => Holders(scan) = {}

LEMMA InitCount == Init => CountInv
<1> SUFFICES ASSUME Init PROVE CountInv
  OBVIOUS
<1>1. \A b \in Buffers : Holders(b) = {}
  BY NameAssumption DEF Init, Holders
<1>2. \A b \in Buffers : lockCtr[b] = 0
  BY DEF Init
<1>3. pc[Video] = "find"
  BY VideoIsAThread DEF Init
<1>4. QED
  BY <1>1, <1>2, <1>3, FS_EmptySet DEF CountInv, LockCounterExact

(* A step that changes neither pointer nor lock keeps the counts. *)
LEMMA KeepsCount ==
  ASSUME CountInv, UNCHANGED <<buffer, held, lockCtr>>,
         pc'[Video] = "write" => pc[Video] = "write" /\ scan' = scan
  PROVE  CountInv'
<1>1. \A b : Holders(b)' = Holders(b)
  BY DEF Holders
<1>2. QED
  BY <1>1 DEF CountInv, LockCounterExact

(* Every step changes each counter by as much as the number of its holders, and no
   step gives a holder to the buffer that is written. *)
LEMMA CountStep == ASSUME ShapeInv, CountInv, [Next]_vars PROVE CountInv'
<1> USE VideoIsAThread, NameAssumption DEF ShapeInv, TypeOK, Goto, bufVars, syncVars
<1>h. \A b : Holders(b) = HolderSet(buffer, held, b) /\ Holders(b)' = HolderSet(buffer', held', b)
  BY DEF Holders, HolderSet
<1>1. CASE MissFrame \/ DropFrame
  BY <1>1, KeepsCount DEF MissFrame, DropFrame, ToSink
<1>2. CASE SkipLocked
  BY <1>2, KeepsCount DEF SkipLocked
<1>3. CASE BeginWrite
  <2>1. \A b : Holders(b)' = Holders(b)
    BY <1>3 DEF BeginWrite, Holders
  <2>2. Holders(scan) = {}
    <3>1. scan \in Buffers /\ lockCtr[scan] <= 0
      BY <1>3 DEF BeginWrite
    <3>2. IsFiniteSet(Holders(scan)) /\ Cardinality(Holders(scan)) \in Nat
      BY HolderSetIsHolders, HolderSetFinite, FS_CardinalityType
    <3>3. QED
      BY <3>1, <3>2, FS_EmptySet DEF CountInv, LockCounterExact
  <2>3. QED
    BY <1>3, <2>1, <2>2 DEF BeginWrite, CountInv, LockCounterExact
<1>4. CASE EndWrite
  BY <1>4, KeepsCount DEF EndWrite, ToSink
<1>5. CASE EndTraversal \/ SkipUpdate
  BY <1>5, KeepsCount DEF EndTraversal, SkipUpdate
<1>6. CASE BeginUpdate
  BY <1>6, KeepsCount DEF BeginUpdate
<1>7. CASE AssignLock
  <2>1. ptr[Video] \in Buffers /\ held[Video] = None
    BY <1>7 DEF AssignLock, PointerInv
  <2>2. \A b \in Buffers : lockCtr'[b] = lockCtr[b] + IF b = ptr[Video] THEN 1 ELSE 0
    BY <1>7, <2>1 DEF AssignLock
  <2>3. held' = [held EXCEPT ![Video] = ptr[Video]] /\ buffer' = buffer /\ pc'[Video] = "swap"
    BY <1>7 DEF AssignLock
  <2>4. ASSUME NEW b \in Buffers PROVE lockCtr'[b] = Cardinality(Holders(b)')
    <3>0. held'[Video] = ptr[Video] /\ \A u \in Threads \ {Video} : held'[u] = held[u]
      BY <2>3
    <3>1. Cardinality(HolderSet(buffer, held', b)) =
            Cardinality(HolderSet(buffer, held, b)) + IF b = ptr[Video] THEN 1 ELSE 0
      <4>1. held \in [Threads -> Buffers \cup {None}]
        OBVIOUS
      <4>2. QED
        BY ONLY <4>1, <2>1, <3>0, LockAdds, Video \in Threads, b \in Buffers
    <3>2. Holders(b)' = HolderSet(buffer, held', b)
      BY <1>h, <2>3
    <3>3. lockCtr[b] = Cardinality(HolderSet(buffer, held, b))
      BY <1>h DEF CountInv, LockCounterExact
    <3>4. QED
      BY <2>2, <3>1, <3>2, <3>3
  <2>5. QED
    BY <2>3, <2>4 DEF CountInv, LockCounterExact
<1>8. CASE AssignSwap
  <2>1. at[Video] \in Subscribers /\ held[Video] \in Buffers
    BY <1>8 DEF AssignSwap, ControlInv, PointerInv
  <2>2. /\ lockCtr' = lockCtr /\ pc'[Video] = "release"
        /\ buffer' = [buffer EXCEPT ![at[Video]] = held[Video]]
        /\ held' = [held EXCEPT ![Video] = buffer[at[Video]]]
    BY <1>8 DEF AssignSwap
  <2>3. ASSUME NEW b \in Buffers PROVE lockCtr'[b] = Cardinality(Holders(b)')
    <3>1. Cardinality(HolderSet(buffer', held', b)) = Cardinality(HolderSet(buffer, held, b))
      <4>1. /\ held \in [Threads -> Buffers \cup {None}]
            /\ buffer \in [Subscribers -> Buffers \cup {None}]
        OBVIOUS
      <4>2. /\ held'[Video] = buffer[at[Video]] /\ buffer'[at[Video]] = held[Video]
            /\ \A u \in Threads \ {Video} : held'[u] = held[u]
            /\ \A r \in Subscribers \ {at[Video]} : buffer'[r] = buffer[r]
        BY <2>1, <2>2
      <4>3. QED
        BY ONLY <4>1, <4>2, <2>1, SwapKeeps, Video \in Threads, b \in Buffers
    <3>2. Holders(b)' = HolderSet(buffer', held', b)
      BY <1>h
    <3>3. lockCtr[b] = Cardinality(HolderSet(buffer, held, b))
      BY <1>h DEF CountInv, LockCounterExact
    <3>4. QED
      BY <2>2, <3>1, <3>2, <3>3
  <2>4. QED
    BY <2>2, <2>3 DEF CountInv, LockCounterExact
<1>9. ASSUME NEW t \in Threads, Unlocked(held[t]), held' = [held EXCEPT ![t] = None],
             buffer' = buffer
      PROVE  \A b \in Buffers : lockCtr'[b] = Cardinality(Holders(b)')
  <2>1. \A b \in Buffers : lockCtr'[b] = lockCtr[b] - IF b = held[t] THEN 1 ELSE 0
    BY <1>9 DEF Unlocked
  <2>2. TAKE b \in Buffers
  <2>3. Cardinality(HolderSet(buffer, held', b)) =
          Cardinality(HolderSet(buffer, held, b)) - IF b = held[t] THEN 1 ELSE 0
    <3>1. held \in [Threads -> Buffers \cup {None}]
      OBVIOUS
    <3>2. held'[t] = None /\ \A u \in Threads \ {t} : held'[u] = held[u]
      BY <1>9
    <3>3. QED
      BY ONLY <3>1, <3>2, UnlockRemoves, t \in Threads, b \in Buffers
  <2>4. Holders(b)' = HolderSet(buffer, held', b)
    BY <1>h, <1>9
  <2>5. lockCtr[b] = Cardinality(HolderSet(buffer, held, b))
    BY <1>h DEF CountInv, LockCounterExact
  <2>6. QED
    BY <2>1, <2>3, <2>4, <2>5
<1>10. CASE AssignRelease
  BY <1>9, <1>10 DEF AssignRelease, CountInv, LockCounterExact
<1>11. ASSUME NEW t \in Threads, LockGrabbed(t) PROVE CountInv'
  <2>1. /\ ptr[t] \in Buffers /\ held[t] = None /\ at[t] \in Subscribers
        /\ ptr[t] = buffer[at[t]]
    BY <1>11 DEF LockGrabbed, PointerInv, MutexInv, ControlInv, SharedPoints
  <2>2. \A b \in Buffers : lockCtr'[b] = lockCtr[b] + IF b = ptr[t] THEN 1 ELSE 0
    BY <1>11, <2>1 DEF LockGrabbed
  <2>3. held' = [held EXCEPT ![t] = ptr[t]] /\ buffer' = buffer
    BY <1>11 DEF LockGrabbed
  <2>4. ASSUME NEW b \in Buffers PROVE lockCtr'[b] = Cardinality(Holders(b)')
    <3>0. held'[t] = ptr[t] /\ \A u \in Threads \ {t} : held'[u] = held[u]
      BY <2>3
    <3>1. Cardinality(HolderSet(buffer, held', b)) =
            Cardinality(HolderSet(buffer, held, b)) + IF b = ptr[t] THEN 1 ELSE 0
      <4>1. held \in [Threads -> Buffers \cup {None}]
        OBVIOUS
      <4>2. QED
        BY ONLY <4>1, <2>1, <3>0, LockAdds, t \in Threads, b \in Buffers
    <3>2. Holders(b)' = HolderSet(buffer, held', b)
      BY <1>h, <2>3
    <3>3. lockCtr[b] = Cardinality(HolderSet(buffer, held, b))
      BY <1>h DEF CountInv, LockCounterExact
    <3>4. QED
      BY <2>2, <3>1, <3>2, <3>3
  <2>5. ASSUME pc'[Video] = "write" PROVE Holders(scan)' = {}
    <3>1. pc[Video] = "write" /\ scan' = scan
      BY <1>11, <2>5 DEF LockGrabbed
    <3>2. Holders(scan) = {} /\ <<"subscriber", at[t]>> \in Holders(ptr[t])
      BY <2>1, <3>1 DEF CountInv, Holders
    <3>3. ptr[t] # scan
      BY <3>2
    <3>4. \A u \in Threads : held'[u] = scan => held[u] = scan
      BY <2>3, <3>3
    <3>5. QED
      BY <2>3, <3>1, <3>2, <3>4 DEF Holders
  <2>6. QED
    BY <2>4, <2>5 DEF CountInv, LockCounterExact
<1>12. ASSUME NEW t \in Threads, Unlock(t) PROVE CountInv'
  <2>1. \A b \in Buffers : lockCtr'[b] = Cardinality(Holders(b)')
    BY <1>9, <1>12 DEF Unlock
  <2>2. ASSUME pc'[Video] = "write" PROVE Holders(scan)' = {}
    <3>1. pc[Video] = "write" /\ scan' = scan /\ buffer' = buffer
      BY <1>12, <2>2 DEF Unlock
    <3>2. \A u \in Threads : held'[u] = scan => held[u] = scan
      BY <1>12, <3>1 DEF Unlock, WriterInv
    <3>3. QED
      BY <3>1, <3>2 DEF Holders, CountInv
  <2>3. QED
    BY <2>1, <2>2 DEF CountInv, LockCounterExact
<1>13. ASSUME NEW t \in Threads, Grab(t) \/ Use(t) PROVE CountInv'
  <2>1. pc'[Video] = "write" => pc[Video] = "write"
    BY <1>13 DEF Grab, Use
  <2>2. QED
    BY <1>13, <2>1, KeepsCount DEF Grab, Use
<1>14. ASSUME NEW c \in Clients, NEW s \in Subscribers, BeginClient(c, s) PROVE CountInv'
  BY <1>14, KeepsCount DEF BeginClient
<1>15. CASE UNCHANGED vars
  BY <1>15, KeepsCount DEF vars, localVars
<1>16. QED
  BY <1>1, <1>2, <1>3, <1>4, <1>5, <1>6, <1>7, <1>8, <1>10, <1>11, <1>12, <1>13, <1>14,
     <1>15 DEF Next, SourceStep, SinkStep, GetLocked
-----------------------------------------------------------------------------
LEMMA ShapeAndCount == Spec => [](ShapeInv /\ CountInv)
<1>1. Init => ShapeInv /\ CountInv
  BY InitShape, InitCount
<1>2. (ShapeInv /\ CountInv) /\ [Next]_vars => (ShapeInv /\ CountInv)'
  BY TypeStep, ControlStep, WriterStep, MutexStep, PointerStep, CountStep DEF ShapeInv
<1>3. QED
  BY <1>1, <1>2, PTL DEF Spec

(* Type correctness, the range of every update counter and of the sink's loop over
   the subscribers included, for any number of buffers, subscribers and clients. *)
THEOREM TypeCorrect == Spec => []TypeOK
BY ShapeAndCount, PTL DEF ShapeInv

(* The lock counter of every buffer is the number of its holders: Buffer::lock()
   and unlock() are balanced over assign(), getLocked() and the clients. *)
THEOREM CountersExact == Spec => []LockCounterExact
BY ShapeAndCount, PTL DEF CountInv

(* No buffer is written while somebody holds it or is about to lock it, although
   findFreeBuffer() reads the counters without a mutex. *)
THEOREM WritesAlone == Spec => []WriteIsExclusive
<1>1. ShapeInv /\ CountInv => WriteIsExclusive
  <2> SUFFICES ASSUME ShapeInv, CountInv, pc[Video] = "write"
               PROVE  /\ Holders(scan) = {}
                      /\ \A t \in Threads : pc[t] = "lock" => ptr[t] # scan
    BY DEF WriteIsExclusive
  <2>1. Holders(scan) = {}
    BY DEF CountInv
  <2>2. ASSUME NEW t \in Threads, pc[t] = "lock" PROVE ptr[t] # scan
    <3>1. at[t] \in Subscribers /\ buffer[at[t]] = ptr[t]
      BY <2>2 DEF ShapeInv, ControlInv, MutexInv, SharedPoints
    <3>2. <<"subscriber", at[t]>> \in Holders(ptr[t])
      BY <3>1 DEF Holders
    <3>3. QED
      BY <2>1, <3>2
  <2>3. QED
    BY <2>1, <2>2
<1>2. QED
  BY <1>1, ShapeAndCount, PTL

(* getLocked() never follows a NULL pointer, although it tests the pointer before
   it has the mutex. *)
THEOREM NeverNull == Spec => []NoNullBuffer
<1>1. ShapeInv => NoNullBuffer
  BY NameAssumption DEF ShapeInv, MutexInv, NoNullBuffer
<1>2. QED
  BY <1>1, ShapeAndCount, PTL

(* The buffers are shared safely, for any number of buffers, subscribers and
   clients. *)
THEOREM SharingSafe == Spec => []BuffersSafe
BY CountersExact, WritesAlone, NeverNull, PTL DEF BuffersSafe
-----------------------------------------------------------------------------
(* Contents: which frame each buffer has.                                      *)

Offered(s) == IF buffer[s] = None THEN 0 ELSE pixels[buffer[s]]

(* The current buffer has the latest frame and the others have older ones; a
   buffer is torn only while it is written. *)
PixelInv ==
  /\ currentBuffer \in Buffers =>
       frames >= 1 /\ (pixels[currentBuffer] = frames
                         \/ (pc[Video] = "write" /\ scan = currentBuffer))
  /\ \A b \in Buffers : pixels[b] = Torn => pc[Video] = "write" /\ scan = b
  /\ \A b \in Buffers : /\ pixels[b] <= frames
                        /\ currentBuffer \in Buffers \ {b} => pixels[b] < frames

(* What is offered and what is held is a captured frame, a held one at most as new
   as what its synchronizer offers; no client has seen more than it is offered. *)
SeenInv ==
  /\ \A s \in Subscribers : buffer[s] \in Buffers => pixels[buffer[s]] >= 1
  /\ \A t \in Threads : pc[t] \in {"use", "unlock"} =>
       pixels[held[t]] >= 1 /\ pixels[held[t]] <= Offered(at[t])
  /\ \A c \in Clients, s \in Subscribers : shown[c][s] <= Offered(s)
  /\ \A c \in Clients : pc[c] = "use" => shown[c][at[c]] <= pixels[held[c]]

ContentInv == PixelInv /\ SeenInv

LEMMA InitContent == Init => ContentInv
<1> SUFFICES ASSUME Init PROVE ContentInv
  OBVIOUS
<1> USE VideoIsAThread, NameAssumption DEF Init
<1>1. PixelInv
  BY DEF PixelInv, Torn
<1>2. SeenInv
  BY DEF SeenInv, Offered
<1>3. QED
  BY <1>1, <1>2 DEF ContentInv

LEMMA HoldersHold ==
  /\ \A s \in Subscribers : <<"subscriber", s>> \in Holders(buffer[s])
  /\ \A t \in Threads : <<"thread", t>> \in Holders(held[t])
BY DEF Holders

(* Every buffer somebody holds keeps its pixels. *)
LEMMA HeldPixels ==
  ASSUME ShapeInv, CountInv, BeginWrite \/ EndWrite
  PROVE  /\ \A s \in Subscribers : buffer[s] # scan
         /\ \A t \in Threads : held[t] # scan
         /\ \A b \in Buffers \ {scan} : pixels'[b] = pixels[b]
<1> USE DEF ShapeInv, TypeOK
<1>1. scan \in Buffers
  BY DEF BeginWrite, EndWrite, WriterInv
<1>2. Holders(scan) = {}
  <2>1. CASE BeginWrite
    <3>1. lockCtr[scan] <= 0
      BY <2>1 DEF BeginWrite
    <3>2. IsFiniteSet(Holders(scan)) /\ Cardinality(Holders(scan)) \in Nat
      BY HolderSetIsHolders, HolderSetFinite, FS_CardinalityType
    <3>3. QED
      BY <1>1, <3>1, <3>2, FS_EmptySet DEF CountInv, LockCounterExact
  <2>2. CASE EndWrite
    BY <2>2 DEF EndWrite, CountInv
  <2>3. QED
    BY <2>1, <2>2
<1>3. \A b \in Buffers \ {scan} : pixels'[b] = pixels[b]
  BY <1>1 DEF BeginWrite, EndWrite
<1>4. \A s \in Subscribers : buffer[s] # scan
  BY <1>2, HoldersHold
<1>5. \A t \in Threads : held[t] # scan
  BY <1>2, HoldersHold
<1>6. QED
  BY <1>3, <1>4, <1>5

LEMMA PixelStep == ASSUME ShapeInv, CountInv, ContentInv, [Next]_vars PROVE PixelInv'
<1> USE VideoIsAThread, NameAssumption, SizeAssumption
      DEF ShapeInv, TypeOK, ContentInv, PixelInv, Goto, bufVars, Frames, Torn
<1>1. CASE MissFrame \/ DropFrame \/ SkipLocked
  <2>1. /\ pc[Video] = "find" /\ pixels' = pixels
        /\ currentBuffer' = currentBuffer /\ frames' = frames
    BY <1>1 DEF MissFrame, DropFrame, SkipLocked
  <2>2. \A b \in Buffers : pixels[b] # Torn
    BY <2>1
  <2>3. currentBuffer \in Buffers => pixels[currentBuffer] = frames
    BY <2>1
  <2>4. \A b \in Buffers : currentBuffer \in Buffers \ {b} => pixels[b] < frames
    OBVIOUS
  <2>5. \A b \in Buffers : pixels[b] <= frames
    OBVIOUS
  <2> HIDE DEF TypeOK, Torn, PixelInv
  <2>6. currentBuffer' \in Buffers =>
          frames' >= 1 /\ (pixels'[currentBuffer'] = frames'
                            \/ (pc'[Video] = "write" /\ scan' = currentBuffer'))
    BY <2>1, <2>3 DEF PixelInv
  <2>7. \A b \in Buffers : pixels'[b] = Torn => pc'[Video] = "write" /\ scan' = b
    BY <2>1, <2>2
  <2>8. \A b \in Buffers : /\ pixels'[b] <= frames'
                           /\ currentBuffer' \in Buffers \ {b} => pixels'[b] < frames'
    BY <2>1, <2>4, <2>5
  <2>9. QED
    BY <2>6, <2>7, <2>8 DEF PixelInv, Torn
<1>3. CASE BeginWrite
  BY <1>3 DEF BeginWrite
<1>4. CASE EndWrite
  <2>1. /\ scan \in Buffers /\ pixels' = [pixels EXCEPT ![scan] = frames + 1]
        /\ currentBuffer' = scan /\ frames' = frames + 1 /\ frames \in Nat
    BY <1>4 DEF EndWrite, WriterInv
  <2>2. \A b \in Buffers : b # scan => pixels[b] # Torn
    BY <1>4 DEF EndWrite
  <2>3. \A b \in Buffers : pixels'[b] = IF b = scan THEN frames + 1 ELSE pixels[b]
    BY <2>1
  <2>4. \A b \in Buffers : pixels[b] \in Int /\ pixels[b] <= frames
    OBVIOUS
  <2>5. frames + 1 # Torn /\ frames' >= 1
    BY <2>1
  <2> HIDE DEF TypeOK, Torn, PixelInv
  <2>6. currentBuffer' \in Buffers =>
          frames' >= 1 /\ (pixels'[currentBuffer'] = frames'
                            \/ (pc'[Video] = "write" /\ scan' = currentBuffer'))
    BY <2>1, <2>3, <2>5
  <2>7. \A b \in Buffers : pixels'[b] = Torn => pc'[Video] = "write" /\ scan' = b
    BY <2>1, <2>2, <2>3, <2>5
  <2>8. \A b \in Buffers : /\ pixels'[b] <= frames'
                           /\ currentBuffer' \in Buffers \ {b} => pixels'[b] < frames'
    BY <2>1, <2>3, <2>4
  <2>9. QED
    BY <2>6, <2>7, <2>8 DEF PixelInv, Torn
<1>5. CASE EndTraversal \/ SkipUpdate
  BY <1>5 DEF EndTraversal, SkipUpdate
<1>6. CASE BeginUpdate
  BY <1>6 DEF BeginUpdate
<1>7. CASE AssignLock
  BY <1>7 DEF AssignLock
<1>8. CASE AssignSwap
  BY <1>8 DEF AssignSwap
<1>9. CASE AssignRelease
  BY <1>9 DEF AssignRelease
<1>10. ASSUME NEW t \in Threads, GetLocked(t) PROVE PixelInv'
  <2>1. /\ pixels' = pixels /\ currentBuffer' = currentBuffer /\ frames' = frames
        /\ scan' = scan /\ (pc[Video] = "write" => pc'[Video] = "write")
    BY <1>10 DEF GetLocked, Grab, LockGrabbed, Use, Unlock
  <2>2. QED
    BY <2>1
<1>11. ASSUME NEW c \in Clients, NEW s \in Subscribers, BeginClient(c, s) PROVE PixelInv'
  BY <1>11 DEF BeginClient
<1>12. CASE UNCHANGED vars
  BY <1>12 DEF vars, localVars
<1>13. QED
  BY <1>1, <1>3, <1>4, <1>5, <1>6, <1>7, <1>8, <1>9, <1>10, <1>11, <1>12
     DEF Next, SourceStep, SinkStep

(* A step that moves nobody to "use" and changes no frame, pointer or lock. *)
LEMMA KeepsSeen ==
  ASSUME ShapeInv, SeenInv, UNCHANGED <<pixels, buffer, shown>>,
         \A t \in Threads : pc'[t] \in {"use", "unlock"} =>
           pc'[t] = pc[t] /\ at'[t] = at[t] /\ held'[t] = held[t]
  PROVE  SeenInv'
<1>1. \A s : Offered(s)' = Offered(s)
  BY DEF Offered
<1>2. QED
  BY <1>1, VideoIsAThread DEF SeenInv, Offered
LEMMA SeenStep == ASSUME ShapeInv, CountInv, ContentInv, [Next]_vars PROVE SeenInv'
<1> USE VideoIsAThread, NameAssumption, SizeAssumption
      DEF ShapeInv, TypeOK, ContentInv, Goto, bufVars, syncVars, userVars
<1>1. CASE MissFrame \/ DropFrame
  BY <1>1, KeepsSeen DEF MissFrame, DropFrame, ToSink
<1>2. CASE SkipLocked
  BY <1>2, KeepsSeen DEF SkipLocked
<1>3. CASE BeginWrite \/ EndWrite
  <2>1. /\ \A s \in Subscribers : buffer[s] # scan
        /\ \A t \in Threads : held[t] # scan
        /\ \A b \in Buffers \ {scan} : pixels'[b] = pixels[b]
    BY <1>3, HeldPixels
  <2>2. /\ buffer' = buffer /\ held' = held /\ shown' = shown
        /\ \A t \in Threads : pc'[t] \in {"use", "unlock"} => pc'[t] = pc[t] /\ at'[t] = at[t]
    BY <1>3 DEF BeginWrite, EndWrite, ToSink
  <2>3. \A s \in Subscribers : Offered(s)' = Offered(s)
    BY <2>1, <2>2 DEF Offered
  <2>4. \A t \in Threads : pc[t] \in {"use", "unlock"} =>
           held[t] \in Buffers \ {scan} /\ at[t] \in Subscribers
    BY <2>1 DEF PointerInv, ControlInv, SharedPoints
  <2>5. QED
    BY <2>1, <2>2, <2>3, <2>4 DEF SeenInv
<1>4. CASE EndTraversal \/ SkipUpdate
  BY <1>4, KeepsSeen DEF EndTraversal, SkipUpdate
<1>5. CASE BeginUpdate
  BY <1>5, KeepsSeen DEF BeginUpdate
<1>6. CASE AssignLock
  BY <1>6, KeepsSeen DEF AssignLock
<1>7. CASE AssignSwap
  <2>1. /\ at[Video] \in Subscribers /\ held[Video] = currentBuffer
        /\ currentBuffer \in Buffers /\ buffer[at[Video]] # currentBuffer
    BY <1>7 DEF AssignSwap, ControlInv, PointerInv
  <2>2. pixels[currentBuffer] = frames /\ frames >= 1
    BY <1>7, <2>1 DEF AssignSwap, PixelInv
  <2>3. /\ buffer' = [buffer EXCEPT ![at[Video]] = currentBuffer]
        /\ pixels' = pixels /\ shown' = shown /\ at' = at
        /\ \A t \in Threads \ {Video} : held'[t] = held[t] /\ pc'[t] = pc[t]
        /\ pc'[Video] = "release"
    BY <1>7, <2>1 DEF AssignSwap
  <2>4. \A s \in Subscribers : Offered(s)' >= Offered(s)
    <3>1. TAKE s \in Subscribers
    <3>2. CASE s = at[Video]
      <4>1. Offered(s)' = frames
        <5>1. buffer'[s] = currentBuffer /\ currentBuffer # None
          BY <2>1, <2>3, <3>2
        <5>2. QED
          BY <2>2, <2>3, <5>1 DEF Offered
      <4>2. Offered(s) <= frames
        <5>1. CASE buffer[s] = None
          BY <2>2, <5>1 DEF Offered, Frames
        <5>2. CASE buffer[s] # None
          BY <5>2 DEF Offered, PixelInv
        <5>3. QED
          BY <5>1, <5>2
      <4>3. Offered(s) \in Int /\ frames \in Int
        BY DEF Offered, Frames, Torn
      <4>4. QED
        BY <4>1, <4>2, <4>3
    <3>3. CASE s # at[Video]
      <4>1. Offered(s)' = Offered(s) /\ Offered(s) \in Int
        BY <2>1, <2>3, <3>3 DEF Offered, Frames, Torn
      <4>2. QED
        BY <4>1
    <3>4. QED
      BY <3>2, <3>3
  <2>5. \A s \in Subscribers : buffer'[s] \in Buffers => pixels'[buffer'[s]] >= 1
    BY <2>1, <2>2, <2>3 DEF SeenInv
  <2>6. \A t \in Threads : pc'[t] \in {"use", "unlock"} =>
          pixels'[held'[t]] >= 1 /\ pixels'[held'[t]] <= Offered(at[t])'
    <3>1. SUFFICES ASSUME NEW t \in Threads, pc'[t] \in {"use", "unlock"}
                   PROVE  pixels'[held'[t]] >= 1 /\ pixels'[held'[t]] <= Offered(at[t])'
      OBVIOUS
    <3>2. /\ pc[t] \in {"use", "unlock"} /\ held'[t] = held[t] /\ held[t] \in Buffers
          /\ at[t] \in Subscribers
      BY <2>3, <3>1 DEF PointerInv, ControlInv, SharedPoints
    <3>3. pixels[held[t]] >= 1 /\ pixels[held[t]] <= Offered(at[t])
      BY <3>2 DEF SeenInv
    <3>4. Offered(at[t]) \in Int /\ Offered(at[t])' \in Int /\ pixels[held[t]] \in Int
      BY <2>1, <2>3, <3>2 DEF Offered, Frames, Torn
    <3>5. Offered(at[t])' >= Offered(at[t])
      BY <2>3, <2>4, <3>2 DEF Offered
    <3>6. QED
      BY <2>3, <3>2, <3>3, <3>4, <3>5
  <2>7. \A c \in Clients, s \in Subscribers : shown'[c][s] <= Offered(s)'
    <3>1. TAKE c \in Clients, s \in Subscribers
    <3>2. shown[c][s] <= Offered(s) /\ Offered(s)' >= Offered(s)
      BY <2>4 DEF SeenInv
    <3>3. shown[c][s] \in Int /\ Offered(s) \in Int /\ Offered(s)' \in Int
      BY <2>1, <2>3 DEF Offered, Frames, Torn
    <3>4. QED
      BY <2>3, <3>2, <3>3
  <2>8. \A c \in Clients : pc'[c] = "use" => shown'[c][at'[c]] <= pixels'[held'[c]]
    BY <2>3 DEF SeenInv
  <2>9. QED
    BY <2>3, <2>5, <2>6, <2>7, <2>8 DEF SeenInv
<1>8. CASE AssignRelease
  BY <1>8, KeepsSeen DEF AssignRelease
<1>9. ASSUME NEW t \in Threads, Grab(t) \/ Unlock(t) PROVE SeenInv'
  <2>1. \A u \in Threads : pc'[u] \in {"use", "unlock"} =>
          pc'[u] = pc[u] /\ at'[u] = at[u] /\ held'[u] = held[u]
    BY <1>9 DEF Grab, Unlock
  <2>2. QED
    BY <1>9, <2>1, KeepsSeen DEF Grab, Unlock
<1>10. ASSUME NEW t \in Threads, LockGrabbed(t) PROVE SeenInv'
  <2>1. /\ at[t] \in Subscribers /\ ptr[t] \in Buffers /\ ptr[t] = buffer[at[t]]
    BY <1>10 DEF LockGrabbed, ControlInv, MutexInv, SharedPoints
  <2>2. /\ held' = [held EXCEPT ![t] = ptr[t]] /\ pc' = [pc EXCEPT ![t] = "use"] /\ at' = at
        /\ buffer' = buffer /\ pixels' = pixels /\ shown' = shown
    BY <1>10 DEF LockGrabbed
  <2>3. \A s : Offered(s)' = Offered(s)
    BY <2>2 DEF Offered
  <2>4. Offered(at[t]) = pixels[ptr[t]] /\ pixels[ptr[t]] >= 1 /\ pixels[ptr[t]] \in Int
    BY <2>1 DEF Offered, SeenInv, Frames, Torn
  <2>5. QED
    BY <2>1, <2>2, <2>3, <2>4 DEF SeenInv
<1>11. ASSUME NEW t \in Threads, Use(t) PROVE SeenInv'
  <2>1. /\ at[t] \in Subscribers /\ held[t] \in Buffers /\ pc[t] = "use"
    BY <1>11 DEF Use, ControlInv, PointerInv, SharedPoints
  <2>2. /\ pc' = [pc EXCEPT ![t] = "unlock"] /\ held' = held /\ at' = at
        /\ buffer' = buffer /\ pixels' = pixels
    BY <1>11 DEF Use
  <2>3. \A s : Offered(s)' = Offered(s)
    BY <2>2 DEF Offered
  <2>4. \A c \in Clients, s \in Subscribers :
          shown'[c][s] = shown[c][s] \/ (c = t /\ s = at[t] /\ shown'[c][s] = pixels[held[t]])
    BY <1>11, <2>1 DEF Use
  <2>5. \A u \in Threads : pc'[u] \in {"use", "unlock"} => pc[u] \in {"use", "unlock"}
    BY <2>1, <2>2
  <2>6. \A c \in Clients, s \in Subscribers : shown'[c][s] <= Offered(s)'
    BY SMTT(20), <2>1, <2>3, <2>4 DEF SeenInv
  <2>7. \A c \in Clients : pc'[c] = "use" => shown'[c][at'[c]] <= pixels'[held'[c]]
    <3>1. SUFFICES ASSUME NEW c \in Clients, pc'[c] = "use"
                   PROVE  shown'[c][at'[c]] <= pixels'[held'[c]]
      OBVIOUS
    <3>2. c # t /\ pc[c] = "use" /\ at[c] \in Subscribers
      BY <2>2, <3>1 DEF ControlInv, SharedPoints
    <3>3. shown'[c][at[c]] = shown[c][at[c]]
      BY <2>4, <3>2
    <3>4. QED
      BY <2>2, <3>2, <3>3 DEF SeenInv
  <2>8. QED
    BY <2>2, <2>3, <2>5, <2>6, <2>7 DEF SeenInv
<1>12. ASSUME NEW c \in Clients, NEW s \in Subscribers, BeginClient(c, s) PROVE SeenInv'
  BY <1>12, KeepsSeen DEF BeginClient
<1>13. CASE UNCHANGED vars
  BY <1>13, KeepsSeen DEF vars, localVars
<1>14. QED
  BY <1>1, <1>2, <1>3, <1>4, <1>5, <1>6, <1>7, <1>8, <1>9, <1>10, <1>11, <1>12, <1>13
     DEF Next, SourceStep, SinkStep, GetLocked
LEMMA Contents == Spec => [](ShapeInv /\ CountInv /\ ContentInv)
<1>1. Init => ShapeInv /\ CountInv /\ ContentInv
  BY InitShape, InitCount, InitContent
<1>2. (ShapeInv /\ CountInv /\ ContentInv) /\ [Next]_vars
        => (ShapeInv /\ CountInv /\ ContentInv)'
  BY TypeStep, ControlStep, WriterStep, MutexStep, PointerStep, CountStep, PixelStep, SeenStep
     DEF ShapeInv, ContentInv
<1>3. QED
  BY <1>1, <1>2, PTL DEF Spec

(* A client that works with the frames of a subscriber never meets an older frame
   than one it has used before. *)
THEOREM NoStepBack == Spec => NeverGoesBack
<1>1. ShapeInv /\ ContentInv /\ [Next]_vars =>
        [\A c \in Clients, s \in Subscribers : shown'[c][s] >= shown[c][s]]_vars
  <2> SUFFICES ASSUME ShapeInv, ContentInv, [Next]_vars,
                      NEW c \in Clients, NEW s \in Subscribers
               PROVE  shown'[c][s] >= shown[c][s]
    OBVIOUS
  <2>1. shown[c][s] \in Int
    BY DEF ShapeInv, TypeOK, Frames, Torn
  <2>2. CASE shown' = shown
    BY <2>1, <2>2
  <2>3. ASSUME NEW t \in Threads, Use(t) PROVE shown'[c][s] >= shown[c][s]
    <3>1. at[t] \in Subscribers /\ held[t] \in Buffers /\ pc[t] = "use"
      BY <2>3 DEF Use, ShapeInv, ControlInv, PointerInv, SharedPoints
    <3>2. shown'[c][s] = shown[c][s] \/ (c = t /\ s = at[t] /\ shown'[c][s] = pixels[held[t]])
      BY <2>3, <3>1 DEF Use, ShapeInv, TypeOK
    <3>3. c = t => shown[c][at[c]] <= pixels[held[c]]
      BY <3>1 DEF ContentInv, SeenInv
    <3>4. pixels[held[t]] \in Int
      BY <3>1 DEF ShapeInv, TypeOK, Frames, Torn
    <3>5. QED
      BY <2>1, <3>2, <3>3, <3>4
  <2>4. shown' = shown \/ \E t \in Threads : Use(t)
    BY DEF Next, SourceStep, SinkStep, GetLocked, MissFrame, DropFrame, SkipLocked, BeginWrite,
           EndWrite, EndTraversal, SkipUpdate, BeginUpdate, AssignLock, AssignSwap,
           AssignRelease, Grab, LockGrabbed, Unlock, BeginClient, userVars, vars
  <2>5. QED
    BY <2>2, <2>3, <2>4
<1>2. QED
  BY <1>1, Contents, PTL DEF Spec, NeverGoesBack
(* The hand-over implements LatestFrame: each subscriber offers one whole frame,
   always a newer one, and who takes a frame keeps exactly that frame. *)
THEOREM HandOverRefinement == Spec => ImplementsLatest
<1> DEFINE offered == [s \in Subscribers |-> IF buffer[s] = None THEN 0 ELSE pixels[buffer[s]]]
           taken == [t \in Threads |-> IF pc[t] \in {"use", "unlock"} /\ held[t] # None
                                       THEN pixels[held[t]] ELSE 0]
<1>1. Init => Latest!Init
  BY VideoIsAThread DEF Init, Latest!Init
<1>2. (ShapeInv /\ CountInv /\ ContentInv) /\ ShapeInv' /\ [Next]_vars
        => Latest!Next \/ UNCHANGED <<offered, taken>>
  <2> SUFFICES ASSUME ShapeInv, CountInv, ContentInv, ShapeInv', [Next]_vars
               PROVE  Latest!Next \/ UNCHANGED <<offered, taken>>
    OBVIOUS
  <2> USE VideoIsAThread, NameAssumption
        DEF ShapeInv, TypeOK, ContentInv, Goto, bufVars, syncVars, localVars, userVars
  <2>0. ASSUME UNCHANGED <<buffer, held, pixels>>,
               \A t \in Threads : pc'[t] \in {"use", "unlock"} <=> pc[t] \in {"use", "unlock"}
        PROVE  UNCHANGED <<offered, taken>>
    BY <2>0
  <2>1. CASE MissFrame \/ DropFrame \/ SkipLocked
    BY <2>0, <2>1 DEF MissFrame, DropFrame, ToSink, SkipLocked
  <2>2. CASE BeginWrite \/ EndWrite
    <3>1. /\ \A s \in Subscribers : buffer[s] # scan
          /\ \A t \in Threads : held[t] # scan
          /\ \A b \in Buffers \ {scan} : pixels'[b] = pixels[b]
      BY <2>2, HeldPixels
    <3>2. /\ buffer' = buffer /\ held' = held
          /\ \A t \in Threads : pc'[t] \in {"use", "unlock"} <=> pc[t] \in {"use", "unlock"}
      BY <2>2 DEF BeginWrite, EndWrite, ToSink
    <3>3. offered' = offered
      BY <3>1, <3>2
    <3>4. taken' = taken
      BY <3>1, <3>2
    <3>5. QED
      BY <3>3, <3>4
  <2>3. CASE EndTraversal \/ SkipUpdate
    BY <2>0, <2>3 DEF EndTraversal, SkipUpdate
  <2>4. CASE BeginUpdate
    BY <2>0, <2>4 DEF BeginUpdate
  <2>5. CASE AssignLock
    <3>1. taken' = taken /\ offered' = offered
      BY <2>5 DEF AssignLock
    <3>2. QED
      BY <3>1
  <2>6. CASE AssignSwap
    <3>1. /\ at[Video] \in Subscribers /\ held[Video] = currentBuffer
          /\ currentBuffer \in Buffers /\ buffer[at[Video]] # currentBuffer
      BY <2>6 DEF AssignSwap, ControlInv, PointerInv
    <3>2. pixels[currentBuffer] = frames /\ frames \in Nat /\ frames >= 1
      BY <2>6, <3>1 DEF AssignSwap, PixelInv, Frames
    <3>3. taken' = taken
      BY <2>6 DEF AssignSwap
    <3>4. offered' = [offered EXCEPT ![at[Video]] = frames]
      BY <2>6, <3>1, <3>2 DEF AssignSwap
    <3>5. frames > offered[at[Video]]
      BY <3>1, <3>2 DEF PixelInv, Frames, Torn
    <3>6. offered'[at[Video]] = frames
      BY <3>1, <3>4
    <3>7. PICK s \in Subscribers : s = at[Video]
      BY <3>1
    <3>8. offered'[s] \in Nat /\ offered'[s] > offered[s]
      <4> HIDE DEF offered
      <4>1. QED
        BY <3>2, <3>5, <3>6, <3>7
    <3>9. offered' = [offered EXCEPT ![s] = offered'[s]]
      <4> HIDE DEF offered
      <4>1. QED
        BY <3>4, <3>6, <3>7
    <3>10. Latest!Publish(s)
      BY <3>3, <3>8, <3>9 DEF Latest!Publish
    <3>11. QED
      BY <3>10 DEF Latest!Next
  <2>7. CASE AssignRelease
    <3>1. taken' = taken /\ offered' = offered
      BY <2>7 DEF AssignRelease
    <3>2. QED
      BY <3>1
  <2>8. ASSUME NEW t \in Threads, Grab(t) \/ Use(t) PROVE UNCHANGED <<offered, taken>>
    BY <2>0, <2>8 DEF Grab, Use
  <2>9. ASSUME NEW t \in Threads, LockGrabbed(t) PROVE Latest!Next
    <3>1. /\ at[t] \in Subscribers /\ ptr[t] \in Buffers /\ ptr[t] = buffer[at[t]]
          /\ pc[t] = "lock"
      BY <2>9 DEF LockGrabbed, ControlInv, MutexInv, SharedPoints
    <3>2. taken[t] = 0 /\ offered[at[t]] = pixels[ptr[t]] /\ offered[at[t]] # 0
      BY <3>1 DEF SeenInv
    <3>3. offered' = offered
      BY <2>9 DEF LockGrabbed
    <3>4. taken' = [taken EXCEPT ![t] = offered[at[t]]]
      BY <2>9, <3>1, <3>2 DEF LockGrabbed
    <3>5. PICK s \in Subscribers : s = at[t]
      BY <3>1
    <3>6. offered[s] # 0 /\ taken' = [taken EXCEPT ![t] = offered[s]]
      <4> HIDE DEF offered, taken
      <4>1. QED
        BY <3>2, <3>4, <3>5
    <3>7. Latest!Take(t, s)
      BY <3>2, <3>3, <3>6 DEF Latest!Take
    <3>8. QED
      BY <3>7 DEF Latest!Next
  <2>10. ASSUME NEW t \in Threads, Unlock(t) PROVE Latest!Next
    <3>1. pc[t] = "unlock" /\ held[t] \in Buffers
      BY <2>10 DEF Unlock, PointerInv
    <3>2. taken[t] # 0
      BY <3>1 DEF SeenInv
    <3>3. offered' = offered
      BY <2>10 DEF Unlock
    <3>4. taken' = [taken EXCEPT ![t] = 0]
      BY <2>10, <3>1 DEF Unlock
    <3>5. Latest!GiveBack(t)
      BY <3>2, <3>3, <3>4 DEF Latest!GiveBack
    <3>6. QED
      BY <3>5 DEF Latest!Next
  <2>11. ASSUME NEW c \in Clients, NEW s \in Subscribers, BeginClient(c, s)
         PROVE  UNCHANGED <<offered, taken>>
    BY <2>0, <2>11 DEF BeginClient
  <2>12. CASE UNCHANGED vars
    BY <2>0, <2>12 DEF vars
  <2>13. QED
    BY <2>1, <2>2, <2>3, <2>4, <2>5, <2>6, <2>7, <2>8, <2>9, <2>10, <2>11, <2>12
       DEF Next, SourceStep, SinkStep, GetLocked
<1>3. QED
  BY <1>1, <1>2, Contents, PTL DEF Spec, ImplementsLatest, Latest!Spec
===============================================================================
