------------------------------ MODULE FrameBuffers ------------------------------
(***************************************************************************)
(* The frame hand-over of OpenVideo.  The video thread traverses the graph *)
(* for ever: the source's process() looks for a buffer nobody has locked   *)
(* (State::findFreeBuffer), writes the next frame into it and makes it the *)
(* current one; the sink's process() then calls every subscriber's         *)
(* update(), which assigns the current buffer to the subscriber's          *)
(* BufferSynchronizer and works with it.  Clients on other threads (the    *)
(* render thread, the GLUT thread) take the buffer of a subscriber with    *)
(* getLocked(), work with the pixels and unlock it.                        *)
(*                                                                         *)
(* A step is one access to shared memory or one section under Buffer's     *)
(* mutex.  The mutex of a BufferSynchronizer is held over several steps.   *)
(***************************************************************************)
EXTENDS Integers, FiniteSets

CONSTANTS
  NumBuffers,      \* buffers of the source's State: 2 in init() of the sources
  NumSubscribers,  \* subscribers of the sink
  Clients,         \* threads that call getLocked()
  DeviceMayMiss,   \* may the device have no new frame for a traversal
  MaxFrames,       \* bound: frames captured
  Video,           \* the thread that traverses the graph
  None             \* no buffer, no holder

Buffers == 1..NumBuffers
Subscribers == 1..NumSubscribers
Threads == Clients \cup {Video}
Frames == 0..MaxFrames
Torn == -1         \* the pixels of a buffer that is being written

ASSUME SizeAssumption ==
  /\ NumBuffers \in Nat \ {0}
  /\ NumSubscribers \in Nat
  /\ MaxFrames \in Nat
  /\ DeviceMayMiss \in BOOLEAN

ASSUME NameAssumption ==
  /\ IsFiniteSet(Clients) /\ Video \notin Clients
  /\ None \notin Buffers /\ None \notin Threads

VARIABLES
  pc,             \* control point of each thread
  scan,           \* findFreeBuffer's index, and the buffer process() writes
  at,             \* the subscriber each thread deals with
  ptr,            \* the local buffer pointer of assign() and getLocked()
  held,           \* the buffer each thread has a lock on
  lockCtr, updateCtr, pixels,   \* Buffer: counters, and the frame it contains
  currentBuffer,  \* State::currentBuffer
  buffer, mutex,  \* BufferSynchronizer: its pointer and the holder of its mutex
  lastCtr,        \* the updateCtr a client remembers, per subscriber
  shown,          \* the frame a client has last used, per subscriber
  frames          \* frames captured so far

bufVars == <<lockCtr, updateCtr, pixels, currentBuffer, frames>>
syncVars == <<buffer, mutex>>
userVars == <<lastCtr, shown>>
localVars == <<pc, scan, at, ptr, held>>
vars == <<localVars, bufVars, syncVars, userVars>>

VideoPoints == {"find", "write", "sink", "assign", "swap", "release"}
ClientPoints == {"idle"}
SharedPoints == {"grab", "lock", "use", "unlock"}

TypeOK ==
  /\ pc \in [Threads -> VideoPoints \cup ClientPoints \cup SharedPoints]
  /\ scan \in 1..NumBuffers + 1
  /\ at \in [Threads -> 0..NumSubscribers]
  /\ ptr \in [Threads -> Buffers \cup {None}]
  /\ held \in [Threads -> Buffers \cup {None}]
  /\ lockCtr \in [Buffers -> Int]
  /\ updateCtr \in [Buffers -> Frames]
  /\ pixels \in [Buffers -> Frames \cup {Torn}]
  /\ currentBuffer \in Buffers \cup {None}
  /\ buffer \in [Subscribers -> Buffers \cup {None}]
  /\ mutex \in [Subscribers -> Threads \cup {None}]
  /\ lastCtr \in [Clients -> [Subscribers -> Frames]]
  /\ shown \in [Clients -> [Subscribers -> Frames \cup {Torn}]]
  /\ frames \in Frames

(* The nodes are initialised, the subscribers have subscribed, no traversal yet. *)
Init ==
  /\ pc = [t \in Threads |-> IF t = Video THEN "find" ELSE "idle"]
  /\ scan = 1
  /\ at = [t \in Threads |-> 0]
  /\ ptr = [t \in Threads |-> None]
  /\ held = [t \in Threads |-> None]
  /\ lockCtr = [b \in Buffers |-> 0]
  /\ updateCtr = [b \in Buffers |-> 0]
  /\ pixels = [b \in Buffers |-> 0]
  /\ currentBuffer = None
  /\ buffer = [s \in Subscribers |-> None]
  /\ mutex = [s \in Subscribers |-> None]
  /\ lastCtr = [c \in Clients |-> [s \in Subscribers |-> 0]]
  /\ shown = [c \in Clients |-> [s \in Subscribers |-> 0]]
  /\ frames = 0

Goto(t, p) == pc' = [pc EXCEPT ![t] = p]
-----------------------------------------------------------------------------
(* The source: TestSrc::process, V4L2Src::process and processImage.        *)

(* The sink's turn: process() starts with the last subscriber. *)
ToSink ==
  /\ Goto(Video, "sink")
  /\ at' = [at EXCEPT ![Video] = NumSubscribers]
  /\ scan' = 1

(* The device has nothing, or every buffer is locked: the frame is dropped. *)
MissFrame ==
  /\ pc[Video] = "find" /\ scan = 1 /\ DeviceMayMiss
  /\ ToSink
  /\ UNCHANGED <<ptr, held, bufVars, syncVars, userVars>>

DropFrame ==
  /\ pc[Video] = "find" /\ scan > NumBuffers
  /\ ToSink
  /\ UNCHANGED <<ptr, held, bufVars, syncVars, userVars>>

(* findFreeBuffer() reads the counters one after the other, without a lock. *)
SkipLocked ==
  /\ pc[Video] = "find" /\ scan \in Buffers /\ lockCtr[scan] > 0
  /\ scan' = scan + 1
  /\ UNCHANGED <<pc, at, ptr, held, bufVars, syncVars, userVars>>

(* Mutant: findFreeBuffer() returns the first buffer, locked or not. *)
BeginWrite_AnyBuffer ==
  /\ pc[Video] = "find" /\ scan \in Buffers /\ frames < MaxFrames
  /\ Goto(Video, "write")
  /\ pixels' = [pixels EXCEPT ![scan] = Torn]
  /\ UNCHANGED <<scan, at, ptr, held, lockCtr, updateCtr, currentBuffer, frames,
                 syncVars, userVars>>

BeginWrite ==
  /\ pc[Video] = "find" /\ scan \in Buffers /\ lockCtr[scan] <= 0 /\ frames < MaxFrames
  /\ Goto(Video, "write")
  /\ pixels' = [pixels EXCEPT ![scan] = Torn]
  /\ UNCHANGED <<scan, at, ptr, held, lockCtr, updateCtr, currentBuffer, frames,
                 syncVars, userVars>>

(* The frame is complete; setCurrentBuffer(buffer); incUpdateCounter().  (TestSrc
   sets the current buffer before it writes: nobody but this thread reads it.) *)
EndWrite ==
  /\ pc[Video] = "write"
  /\ frames' = frames + 1
  /\ pixels' = [pixels EXCEPT ![scan] = frames + 1]
  /\ updateCtr' = [updateCtr EXCEPT ![scan] = @ + 1]
  /\ currentBuffer' = scan
  /\ ToSink
  /\ UNCHANGED <<ptr, held, lockCtr, syncVars, userVars>>

-----------------------------------------------------------------------------
(* The sink: VideoSink::process calls update() from the last subscriber to  *)
(* the first.                                                               *)

EndTraversal ==
  /\ pc[Video] = "sink" /\ at[Video] = 0
  /\ Goto(Video, "find")
  /\ UNCHANGED <<scan, at, ptr, held, bufVars, syncVars, userVars>>

(* No frame yet: assign(NULL) does nothing and getLocked() returns NULL. *)
SkipUpdate ==
  /\ pc[Video] = "sink" /\ at[Video] # 0 /\ currentBuffer = None
  /\ at' = [at EXCEPT ![Video] = @ - 1]
  /\ UNCHANGED <<pc, scan, ptr, held, bufVars, syncVars, userVars>>

(* assign(): nothing to do when the buffer is the same (read without a lock). *)
BeginUpdate ==
  /\ pc[Video] = "sink" /\ at[Video] # 0 /\ currentBuffer # None
  /\ ptr' = [ptr EXCEPT ![Video] = currentBuffer]
  /\ Goto(Video, IF buffer[at[Video]] = currentBuffer THEN "grab" ELSE "assign")
  /\ UNCHANGED <<scan, at, held, bufVars, syncVars, userVars>>

(* mutex->acquire(); newBuffer->lock() *)
AssignLock ==
  /\ pc[Video] = "assign" /\ mutex[at[Video]] = None
  /\ mutex' = [mutex EXCEPT ![at[Video]] = Video]
  /\ lockCtr' = [lockCtr EXCEPT ![ptr[Video]] = @ + 1]
  /\ held' = [held EXCEPT ![Video] = ptr[Video]]
  /\ Goto(Video, "swap")
  /\ UNCHANGED <<scan, at, ptr, updateCtr, pixels, currentBuffer, frames, buffer,
                 userVars>>

(* buffer = newBuffer: the thread's lock now is the one on the old buffer. *)
AssignSwap ==
  /\ pc[Video] = "swap"
  /\ buffer' = [buffer EXCEPT ![at[Video]] = held[Video]]
  /\ held' = [held EXCEPT ![Video] = buffer[at[Video]]]
  /\ Goto(Video, "release")
  /\ UNCHANGED <<scan, at, ptr, bufVars, mutex, userVars>>

(* oldBuffer->unlock(); mutex->release() *)
Unlocked(b) ==
  lockCtr' = IF b = None THEN lockCtr ELSE [lockCtr EXCEPT ![b] = @ - 1]

(* Mutant: assign() does not unlock the old buffer. *)
AssignRelease_KeepOld ==
  /\ pc[Video] = "release"
  /\ held' = [held EXCEPT ![Video] = None]
  /\ mutex' = [mutex EXCEPT ![at[Video]] = None]
  /\ Goto(Video, "grab")
  /\ UNCHANGED <<scan, at, ptr, bufVars, buffer, userVars>>

AssignRelease ==
  /\ pc[Video] = "release"
  /\ Unlocked(held[Video])
  /\ held' = [held EXCEPT ![Video] = None]
  /\ mutex' = [mutex EXCEPT ![at[Video]] = None]
  /\ Goto(Video, "grab")
  /\ UNCHANGED <<scan, at, ptr, updateCtr, pixels, currentBuffer, frames, buffer,
                 userVars>>
-----------------------------------------------------------------------------
(* BufferSynchronizer::getLocked, by a client or, in update(), by the video  *)
(* thread.                                                                   *)

(* if(!buffer) return NULL; *)
BeginClient(c, s) ==
  /\ pc[c] = "idle" /\ buffer[s] # None
  /\ at' = [at EXCEPT ![c] = s]
  /\ Goto(c, "grab")
  /\ UNCHANGED <<scan, ptr, held, bufVars, syncVars, userVars>>

(* Mutant: getLocked() does not take the mutex. *)
Grab_NoMutex(t) ==
  /\ pc[t] = "grab"
  /\ ptr' = [ptr EXCEPT ![t] = buffer[at[t]]]
  /\ Goto(t, "lock")
  /\ UNCHANGED <<scan, at, held, bufVars, syncVars, userVars>>

(* mutex->acquire(); retBuffer = buffer; *)
Grab(t) ==
  /\ pc[t] = "grab" /\ mutex[at[t]] = None
  /\ mutex' = [mutex EXCEPT ![at[t]] = t]
  /\ ptr' = [ptr EXCEPT ![t] = buffer[at[t]]]
  /\ Goto(t, "lock")
  /\ UNCHANGED <<scan, at, held, bufVars, buffer, userVars>>

(* Mutant: the mutex stays locked. *)
LockGrabbed_KeepMutex(t) ==
  /\ pc[t] = "lock"
  /\ lockCtr' = [lockCtr EXCEPT ![ptr[t]] = @ + 1]
  /\ held' = [held EXCEPT ![t] = ptr[t]]
  /\ Goto(t, "use")
  /\ UNCHANGED <<scan, at, ptr, updateCtr, pixels, currentBuffer, frames, syncVars,
                 userVars>>

(* retBuffer->lock(); mutex->release(); *)
LockGrabbed(t) ==
  /\ pc[t] = "lock"
  /\ lockCtr' = [lockCtr EXCEPT ![ptr[t]] = @ + 1]
  /\ held' = [held EXCEPT ![t] = ptr[t]]
  /\ mutex' = [mutex EXCEPT ![at[t]] = None]
  /\ Goto(t, "use")
  /\ UNCHANGED <<scan, at, ptr, updateCtr, pixels, currentBuffer, frames, buffer,
                 userVars>>

(* The pixels are used.  A client takes the frame for a new one when the update
   counter of the buffer is not the one it remembers; the video thread tells
   its users of every frame. *)
Use(t) ==
  /\ pc[t] = "use"
  /\ LET s == at[t]
         new == t # Video /\ updateCtr[held[t]] # lastCtr[t][s] IN
       /\ lastCtr' = IF new THEN [lastCtr EXCEPT ![t][s] = updateCtr[held[t]]] ELSE lastCtr
       /\ shown' = IF new THEN [shown EXCEPT ![t][s] = pixels[held[t]]] ELSE shown
  /\ Goto(t, "unlock")
  /\ UNCHANGED <<scan, at, ptr, held, bufVars, syncVars>>

(* buffer->unlock(); the video thread goes on to the next subscriber. *)
Unlock(t) ==
  /\ pc[t] = "unlock"
  /\ Unlocked(held[t])
  /\ held' = [held EXCEPT ![t] = None]
  /\ at' = [at EXCEPT ![t] = IF t = Video THEN @ - 1 ELSE @]
  /\ Goto(t, IF t = Video THEN "sink" ELSE "idle")
  /\ UNCHANGED <<scan, ptr, updateCtr, pixels, currentBuffer, frames, syncVars, userVars>>
-----------------------------------------------------------------------------
SourceStep == MissFrame \/ DropFrame \/ SkipLocked \/ BeginWrite \/ EndWrite
SinkStep == EndTraversal \/ SkipUpdate \/ BeginUpdate \/ AssignLock \/ AssignSwap \/ AssignRelease
GetLocked(t) == Grab(t) \/ LockGrabbed(t) \/ Use(t) \/ Unlock(t)

Next ==
  \/ SourceStep \/ SinkStep
  \/ \E t \in Threads : GetLocked(t)
  \/ \E c \in Clients, s \in Subscribers : BeginClient(c, s)

Spec == Init /\ [][Next]_vars

(* The video thread runs for ever; a client that has begun comes to its unlock;
   a thread that waits for a synchronizer's mutex gets it when it is released
   over and over, though the clients come back as often as they like; and the
   device has a frame for every traversal from some time on, or now and then. *)
FairSpec ==
  /\ Spec
  /\ WF_vars(SourceStep \/ SinkStep \/ GetLocked(Video))
  /\ \A c \in Clients : WF_vars(GetLocked(c))
  /\ SF_vars(AssignLock) /\ SF_vars(SkipLocked \/ BeginWrite)
  /\ \A t \in Threads : SF_vars(Grab(t))
-----------------------------------------------------------------------------
(* Properties.                                                               *)

(* Who has a lock on b: synchronizers that point to it, threads that work with it. *)
Holders(b) ==
  {<<"subscriber", s>> : s \in {s \in Subscribers : buffer[s] = b}} \cup
  {<<"thread", t>> : t \in {t \in Threads : held[t] = b}}

(* The lock counter of every buffer is the number of its holders: no lock is
   lost, none is released twice, and assert(lockCtr >= 0) holds. *)
LockCounterExact == \A b \in Buffers : lockCtr[b] = Cardinality(Holders(b))

(* A buffer is written only while nobody can reach it: no subscriber points to
   it and no thread has it locked or is about to lock it. *)
WriteIsExclusive ==
  pc[Video] = "write" =>
    /\ Holders(scan) = {}
    /\ \A t \in Threads : pc[t] = "lock" => ptr[t] # scan

(* getLocked() never follows a NULL pointer after its test of the pointer. *)
NoNullBuffer == \A t \in Threads : pc[t] = "lock" => ptr[t] # None

(* The buffers are shared safely: the counters count the holders, a buffer that
   is written has none, and no thread follows a NULL pointer to one. *)
BuffersSafe == LockCounterExact /\ WriteIsExclusive /\ NoNullBuffer

(* A client never steps back to an older frame of a subscriber. *)
NeverGoesBack ==
  [][\A c \in Clients, s \in Subscribers : shown'[c][s] >= shown[c][s]]_vars

(* "all buffers locked" never lasts: the source captures frame after frame. *)
CapturesOn == <>(frames = MaxFrames)

(* The latest captured frame reaches every subscriber, or a newer one does. *)
ReachesSubscribers ==
  \A s \in Subscribers, f \in 1..MaxFrames :
    frames = f ~> (buffer[s] # None /\ pixels[buffer[s]] >= f)

(* Each subscriber offers the latest whole frame, and a client keeps the frame
   it took. *)
Latest == INSTANCE LatestFrame WITH
  Clients <- Threads,
  offered <- [s \in Subscribers |-> IF buffer[s] = None THEN 0 ELSE pixels[buffer[s]]],
  taken <- [t \in Threads |->
              IF pc[t] \in {"use", "unlock"} /\ held[t] # None THEN pixels[held[t]] ELSE 0]
ImplementsLatest == Latest!Spec
=============================================================================
