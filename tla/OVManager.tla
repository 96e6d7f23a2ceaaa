------------------------------ MODULE OVManager ------------------------------
(***************************************************************************)
(* OpenVideo's Manager at run time.  Threads inside run() call update()    *)
(* until the scheduler is told to stop; update() traverses the sorted      *)
(* nodes under updateLock, or does the idle tasks when somebody paused the *)
(* loop; pause() (setGLContext, deleteGLContext) waits for an update;      *)
(* stop() ends the scheduler and stops the nodes.  The scheduler is the    *)
(* one of schedule mode "idle".                                            *)
(***************************************************************************)
EXTENDS Naturals, FiniteSets

CONSTANTS
  Runners,    \* threads inside run(): of the Video component, of OpenVideoModule
  Pausers,    \* threads that call pause()
  Stoppers,   \* threads that call stop()
  NumNodes,   \* nodes of the graph, in traversal order
  Recursive,  \* may ACE_Thread_Mutex be acquired twice (Windows) or not (POSIX)
  MaxPauses,  \* bound: calls of pause()
  Nobody      \* holder of the free lock

Nodes == 1..NumNodes
Threads == Runners \cup Pausers \cup Stoppers

ASSUME ManagerAssumption ==
  /\ Runners \cap (Pausers \cup Stoppers) = {} /\ Pausers \cap Stoppers = {}
  /\ Nobody \notin Threads
  /\ NumNodes \in Nat /\ MaxPauses \in Nat
  /\ Recursive \in BOOLEAN

VARIABLES
  pc,          \* control point of each thread
  pass, node,  \* the pass of the running traversal and the next node to visit
  updateLock,  \* holder of Manager::updateLock
  isRunning, travBlock,
  exitIdle,    \* SchedulerPC::exitIdle
  stopped,     \* nodes whose stop() was called
  last,        \* the stopper's loop: the nodes still to stop are 1..last
  pauses       \* bound

traversal == <<pass, node, travBlock>>
vars == <<pc, traversal, updateLock, isRunning, exitIdle, stopped, last, pauses>>

Passes == 1..3   \* preProcess, process, postProcess

Points == {"loop", "update", "traverse", "idle", "release", "ended",
           "call", "wait", "woken", "stopping"}

TypeOK ==
  /\ pc \in [Threads -> Points]
  /\ pass \in Passes /\ node \in 1..NumNodes + 1
  /\ updateLock \in Threads \cup {Nobody}
  /\ isRunning \in BOOLEAN /\ travBlock \in BOOLEAN /\ exitIdle \in BOOLEAN
  /\ stopped \subseteq Nodes
  /\ last \in [Stoppers -> 0..NumNodes]
  /\ pauses \in 0..MaxPauses

Init ==
  /\ pc = [t \in Threads |-> IF t \in Runners THEN "loop" ELSE "call"]
  /\ pass = 1 /\ node = 1 /\ travBlock = FALSE
  /\ updateLock = Nobody
  /\ isRunning = TRUE /\ exitIdle = FALSE
  /\ stopped = {} /\ last = [t \in Stoppers |-> NumNodes]
  /\ pauses = 0

Goto(t, p) == pc' = [pc EXCEPT ![t] = p]
-----------------------------------------------------------------------------
(* Mutant: the loop never tests exitIdle. *)
TestExit_Forever(t) ==
  /\ pc[t] = "loop"
  /\ Goto(t, "update")
  /\ UNCHANGED <<traversal, updateLock, isRunning, exitIdle, stopped, last, pauses>>

(* SchedulerPC::scheduleIdle: while(!exitIdle) Manager::update(NULL); *)
TestExit(t) ==
  /\ pc[t] = "loop"
  /\ Goto(t, IF exitIdle THEN "ended" ELSE "update")
  /\ UNCHANGED <<traversal, updateLock, isRunning, exitIdle, stopped, last, pauses>>

(* Manager::update takes updateLock.  A traversal that finds travBlock set does
   nothing. *)
Update(t) ==
  /\ pc[t] = "update" /\ updateLock = Nobody
  /\ updateLock' = t
  /\ \/ isRunning /\ Goto(t, IF travBlock THEN "release" ELSE "traverse")
        /\ travBlock' = TRUE /\ pass' = 1 /\ node' = 1
     \/ ~isRunning /\ Goto(t, "idle") /\ UNCHANGED traversal
  /\ UNCHANGED <<isRunning, exitIdle, stopped, last, pauses>>

(* Mutant: travBlock is not cleared after the traversal. *)
Visit_KeepBlock(t) ==
  /\ pc[t] = "traverse"
  /\ \/ node <= NumNodes /\ node' = node + 1 /\ UNCHANGED <<pc, pass, travBlock>>
     \/ node > NumNodes /\ pass < 3 /\ pass' = pass + 1 /\ node' = 1
        /\ UNCHANGED <<pc, travBlock>>
     \/ node > NumNodes /\ pass = 3 /\ Goto(t, "release") /\ UNCHANGED traversal
  /\ UNCHANGED <<updateLock, isRunning, exitIdle, stopped, last, pauses>>

(* topologicalSortedTraversal: three passes over the nodes. *)
Visit(t) ==
  /\ pc[t] = "traverse"
  /\ \/ node <= NumNodes /\ node' = node + 1 /\ UNCHANGED <<pc, pass, travBlock>>
     \/ node > NumNodes /\ pass < 3 /\ pass' = pass + 1 /\ node' = 1
        /\ UNCHANGED <<pc, travBlock>>
     \/ node > NumNodes /\ pass = 3 /\ travBlock' = FALSE /\ Goto(t, "release")
        /\ UNCHANGED <<pass, node>>
  /\ UNCHANGED <<updateLock, isRunning, exitIdle, stopped, last, pauses>>

(* doIdleTasks: resume() acquires updateLock, which this thread already holds. *)
IdleTasks(t) ==
  /\ pc[t] = "idle" /\ Recursive
  /\ isRunning' = TRUE
  /\ Goto(t, "release")
  /\ UNCHANGED <<traversal, updateLock, exitIdle, stopped, last, pauses>>

(* Mutant: no broadcast. *)
Release_NoBroadcast(t) ==
  /\ pc[t] = "release"
  /\ updateLock' = Nobody
  /\ Goto(t, "loop")
  /\ UNCHANGED <<traversal, isRunning, exitIdle, stopped, last, pauses>>

(* updateLockCondition->broadcast(); updateLock->release() *)
Release(t) ==
  /\ pc[t] = "release"
  /\ updateLock' = Nobody
  /\ pc' = [u \in Threads |-> IF u = t THEN "loop"
                              ELSE IF pc[u] = "wait" THEN "woken" ELSE pc[u]]
  /\ UNCHANGED <<traversal, isRunning, exitIdle, stopped, last, pauses>>
-----------------------------------------------------------------------------
(* Mutant: pause() does not wait for a traversal to end. *)
Pause_NoLock(t) ==
  /\ pc[t] = "call" /\ pauses < MaxPauses
  /\ pauses' = pauses + 1
  /\ \/ isRunning /\ isRunning' = FALSE /\ Goto(t, "wait")
     \/ ~isRunning /\ UNCHANGED <<pc, isRunning>>
  /\ UNCHANGED <<traversal, updateLock, exitIdle, stopped, last>>

(* Manager::pause *)
Pause(t) ==
  /\ pc[t] = "call" /\ updateLock = Nobody /\ pauses < MaxPauses
  /\ pauses' = pauses + 1
  /\ \/ isRunning /\ isRunning' = FALSE /\ Goto(t, "wait")
     \/ ~isRunning /\ UNCHANGED <<pc, isRunning>>
  /\ UNCHANGED <<traversal, updateLock, exitIdle, stopped, last>>

PauseReturns(t) ==
  /\ pc[t] = "woken" /\ updateLock = Nobody
  /\ Goto(t, "call")
  /\ UNCHANGED <<traversal, updateLock, isRunning, exitIdle, stopped, last, pauses>>

Spurious(t) ==
  /\ pc[t] = "wait"
  /\ Goto(t, "woken")
  /\ UNCHANGED <<traversal, updateLock, isRunning, exitIdle, stopped, last, pauses>>

(* Manager::stop: unscheduleIdle(), then every node's stop(), from the last node
   to the first, without updateLock. *)
Stop(t) ==
  /\ pc[t] = "call"
  /\ exitIdle' = TRUE
  /\ last' = [last EXCEPT ![t] = NumNodes]
  /\ Goto(t, "stopping")
  /\ UNCHANGED <<traversal, updateLock, isRunning, stopped, pauses>>

StopNode(t) ==
  /\ pc[t] = "stopping"
  /\ \/ last[t] > 0 /\ stopped' = stopped \cup {last[t]}
        /\ last' = [last EXCEPT ![t] = @ - 1] /\ UNCHANGED pc
     \/ last[t] = 0 /\ Goto(t, "ended") /\ UNCHANGED <<stopped, last>>
  /\ UNCHANGED <<traversal, updateLock, isRunning, exitIdle, pauses>>
-----------------------------------------------------------------------------
RunnerStep(t) == TestExit(t) \/ Update(t) \/ Visit(t) \/ IdleTasks(t) \/ Release(t)

Next ==
  \/ \E t \in Runners : RunnerStep(t)
  \/ \E t \in Pausers : Pause(t) \/ PauseReturns(t) \/ Spurious(t)
  \/ \E t \in Stoppers : Stop(t) \/ StopNode(t)

Spec == Init /\ [][Next]_vars

(* Threads run when they can; a thread that waits for updateLock gets it when it
   is released over and over.  Nobody has to pause or stop the loop. *)
FairSpec ==
  /\ Spec
  /\ \A t \in Runners : WF_vars(RunnerStep(t)) /\ SF_vars(Update(t))
  /\ \A t \in Pausers : SF_vars(PauseReturns(t))
  /\ \A t \in Stoppers : WF_vars(StopNode(t))
-----------------------------------------------------------------------------
(* Properties.                                                             *)

Traversing == {t \in Runners : pc[t] = "traverse"}

(* One traversal at a time, and none that travBlock turns into nothing. *)
TraversalsExclusive ==
  /\ Cardinality(Traversing) <= 1
  /\ travBlock <=> Traversing # {}

(* While the loop is paused no node is visited: pause() waits for the end of the
   traversal that is on. *)
NothingRunsPaused == ~isRunning => Traversing = {}

(* A node is visited by one thread at most, and by none in a pause. *)
LoopSafe == TraversalsExclusive /\ NothingRunsPaused

(* pause() returns: the next update() does the idle tasks and wakes it.  (A stop()
   that comes first ends the updates, and with them the wake-ups.) *)
EveryPauseReturns == \A t \in Pausers : pc[t] = "wait" ~> pc[t] = "call" \/ exitIdle

(* After every pause the loop traverses the graph again, until it is stopped. *)
TraversesOn == ~exitIdle ~> Traversing # {} \/ exitIdle

(* stop() "Stops the manger's mainLoop": every run() returns. *)
StopEndsRun == exitIdle ~> \A t \in Runners : pc[t] = "ended"
=============================================================================
