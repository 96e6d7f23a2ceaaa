------------------------------ MODULE ContextSync ------------------------------
(***************************************************************************)
(* The data-driven main loop of OpenTracker: Context::runOnDemand() and    *)
(* the threads that meet it.  A producer (a driver thread of a module, or  *)
(* a client that calls CallforwardModule::callForward) stores an event and *)
(* calls dataSignal() and consumedWait(); the loop takes the datum,        *)
(* traverses the graph and hands the producer its acknowledgement; other   *)
(* threads edit the graph under lock() or call stopLoop().                 *)
(*                                                                         *)
(* Three mutexes guard the state.  _mutex and _havedatamutex are held over *)
(* several steps and have a variable naming their holder; every section    *)
(* under _consumeddatamutex is a step of its own.  A condition variable is *)
(* the set of threads whose control point is the wait on it: a notified    *)
(* thread moves to a "woken" point, where it must get the mutex again.     *)
(***************************************************************************)
EXTENDS Naturals, FiniteSets

CONSTANTS
  Clients,        \* threads that call callForward(), for ever
  Sources,        \* driver threads of modules: leave when their module has stop = 1
  Joined,         \* the sources whose module's close() joins the thread
  Joysticks,      \* driver threads that call consumedBroadcast() instead
  Stoppers,       \* threads that call stopLoop() once
  Editors,        \* threads that edit the graph under lock()/unlock()
  ModulesMayStop, \* may a module's stop() ask the loop to end
  MaxRuns,        \* bound: calls of runOnDemand()
  MaxEdits,       \* bound: graph edits
  Loop,           \* the thread inside runOnDemand()
  Nobody          \* holder of a free mutex

Drivers   == Sources \cup Joysticks
Producers == Clients \cup Drivers
Threads   == Producers \cup Stoppers \cup Editors

ASSUME ThreadAssumption ==
  /\ Joined \subseteq Sources
  /\ Clients \cap Drivers = {} /\ Sources \cap Joysticks = {}
  /\ Stoppers \cap Producers = {}
  /\ Editors \cap (Producers \cup Stoppers) = {}
  /\ Loop \notin Threads /\ Nobody \notin Threads \cup {Loop}

ASSUME BoundAssumption ==
  /\ ModulesMayStop \in BOOLEAN
  /\ MaxRuns \in Nat
  /\ MaxEdits \in Nat

VARIABLES
  loop,            \* control point of runOnDemand()
  pc,              \* control point of every other thread
  graphLock,       \* holder of Context::_mutex
  dataLock,        \* holder of Context::_havedatamutex
  pendingdata, waitingpending,      \* guarded by _havedatamutex
  dataconsumed, waitingconsumed,    \* guarded by _consumeddatamutex
  stoploopflag,    \* Context::stoploopflag, written and read without a common lock
  stopflag,        \* the loop's local: the modules' answer to stop()
  dosync,          \* Context::dosync
  stopped,         \* the drivers whose module has stop = 1
  oneLeft,         \* the stoppers whose first dataSignal() has returned
  unseen,          \* history: threads whose signal no traversal has answered yet
  runs, edits      \* bounds

dataVars == <<pendingdata, waitingpending>>
consVars == <<dataconsumed, waitingconsumed>>
lockVars == <<graphLock, dataLock>>
ctlVars  == <<stoploopflag, stopflag, dosync, stopped>>
restVars == <<oneLeft, runs, edits>>
vars == <<loop, pc, lockVars, dataVars, consVars, ctlVars, restVars, unseen>>

LoopPoints == {"start", "opened", "resetdata", "asked", "test", "want",
               "datawait", "datawoken", "lockgraph", "traverse", "handback",
               "consumerwait", "consumerwoken", "drain", "drainwait",
               "drainwoken", "close", "join", "reset"}
ThreadPoints == {"work", "signal", "sigwait", "sigwoken", "consume", "conswait",
                 "conswoken", "broadcast", "unlock", "edit", "exit"}

TypeOK ==
  /\ loop \in LoopPoints
  /\ pc \in [Threads -> ThreadPoints]
  /\ graphLock \in Threads \cup {Loop, Nobody}
  /\ dataLock \in {Loop, Nobody}
  /\ pendingdata \in BOOLEAN /\ waitingpending \in BOOLEAN
  /\ dataconsumed \in BOOLEAN /\ waitingconsumed \in BOOLEAN
  /\ stoploopflag \in BOOLEAN /\ stopflag \in BOOLEAN /\ dosync \in BOOLEAN
  /\ stopped \subseteq Drivers
  /\ oneLeft \subseteq Stoppers
  /\ unseen \subseteq Threads
  /\ runs \in 0..MaxRuns /\ edits \in 0..MaxEdits

(* Context::Context: every flag cleared, no module thread running yet. *)
Init ==
  /\ loop = "start"
  /\ pc = [t \in Threads |-> IF t \in Drivers THEN "exit" ELSE "work"]
  /\ graphLock = Nobody /\ dataLock = Nobody
  /\ pendingdata = FALSE /\ waitingpending = FALSE
  /\ dataconsumed = FALSE /\ waitingconsumed = FALSE
  /\ stoploopflag = FALSE /\ stopflag = FALSE /\ dosync = FALSE
  /\ stopped = {} /\ oneLeft = {} /\ unseen = {}
  /\ runs = 0 /\ edits = 0

(* broadcast() on a condition variable: every thread waiting at one point. *)
Wake(at, woken) ==
  pc' = [t \in Threads |-> IF pc[t] = at THEN woken ELSE pc[t]]

Goto(t, p) == pc' = [pc EXCEPT ![t] = p]

-----------------------------------------------------------------------------
(* Context::runOnDemand(), the loop's own steps.                           *)

(* setSynchronization(true) and start(): the modules spawn their threads, and
   none resets the stop of the run before.  A module thread that has not ended
   by the next run would get a twin; the model stops there (one thread per
   module). *)
Start ==
  /\ loop = "start" /\ runs < MaxRuns
  /\ \A d \in Drivers : pc[d] = "exit"
  /\ loop' = "opened" /\ runs' = runs + 1
  /\ dosync' = TRUE
  /\ pc' = [t \in Threads |-> IF t \in Drivers THEN "work" ELSE pc[t]]
  /\ UNCHANGED <<lockVars, dataVars, consVars, stoploopflag, stopflag, stopped,
                 oneLeft, edits, unseen>>

ResetConsumed ==
  /\ loop = "opened" /\ loop' = "resetdata"
  /\ dataconsumed' = TRUE
  /\ Wake("conswait", "conswoken")
  /\ UNCHANGED <<lockVars, dataVars, waitingconsumed, ctlVars, restVars, unseen>>

ResetData ==
  /\ loop = "resetdata" /\ dataLock = Nobody
  /\ loop' = "asked"
  /\ pendingdata' = FALSE
  /\ UNCHANGED <<pc, lockVars, waitingpending, consVars, ctlVars, restVars, unseen>>

(* stop(): any module may ask the loop to end. *)
AskModules == stopflag' \in {FALSE, ModulesMayStop}

FirstStop ==
  /\ loop = "asked" /\ loop' = "test"
  /\ AskModules
  /\ UNCHANGED <<pc, lockVars, dataVars, consVars, stoploopflag, dosync, stopped,
                 restVars, unseen>>

Test ==
  /\ loop = "test"
  /\ loop' = IF stoploopflag \/ stopflag THEN "drain" ELSE "want"
  /\ UNCHANGED <<pc, lockVars, dataVars, consVars, ctlVars, restVars, unseen>>

(* The datum is taken and _havedatamutex stays locked for the traversal, or
   the loop waits on _havedatacondition and the mutex is released. *)
TakeOrWait ==
  \/ /\ pendingdata
     /\ pendingdata' = FALSE /\ dataLock' = Loop /\ loop' = "lockgraph"
  \/ /\ ~pendingdata
     /\ loop' = "datawait"
     /\ UNCHANGED <<pendingdata, dataLock>>

(* Mutant: no broadcast of _waitingpendingcondition. *)
WantData_NoBroadcast ==
  /\ loop = "want" /\ dataLock = Nobody
  /\ waitingpending' = TRUE
  /\ TakeOrWait
  /\ UNCHANGED <<pc, graphLock, consVars, ctlVars, restVars, unseen>>

WantData ==
  /\ loop = "want" /\ dataLock = Nobody
  /\ waitingpending' = TRUE
  /\ Wake("sigwait", "sigwoken")
  /\ TakeOrWait
  /\ UNCHANGED <<graphLock, consVars, ctlVars, restVars, unseen>>

(* Mutant: "if (!pendingdata) wait()" in the place of "while". *)
DataWoken_If ==
  /\ loop = "datawoken" /\ dataLock = Nobody
  /\ pendingdata' = FALSE /\ dataLock' = Loop /\ loop' = "lockgraph"
  /\ UNCHANGED <<pc, graphLock, waitingpending, consVars, ctlVars, restVars, unseen>>

DataWoken ==
  /\ loop = "datawoken" /\ dataLock = Nobody
  /\ TakeOrWait
  /\ UNCHANGED <<pc, graphLock, waitingpending, consVars, ctlVars, restVars, unseen>>

(* loopOnce(): lock(), pushEvents(), pullEvents(), stop(), unlock(), all with
   _havedatamutex held; every datum signalled so far is seen. *)
BeginTraverse ==
  /\ loop = "lockgraph" /\ graphLock = Nobody
  /\ loop' = "traverse" /\ graphLock' = Loop
  /\ unseen' = {}
  /\ UNCHANGED <<pc, dataLock, dataVars, consVars, ctlVars, restVars>>

EndTraverse ==
  /\ loop = "traverse" /\ loop' = "handback"
  /\ AskModules
  /\ graphLock' = Nobody /\ dataLock' = Nobody
  /\ UNCHANGED <<pc, dataVars, consVars, stoploopflag, dosync, stopped, restVars,
                 unseen>>

(* The acknowledgement: wait until a producer has come to consumedWait(). *)
TellOrWait(tell) ==
  \/ /\ tell
     /\ waitingconsumed' = FALSE /\ dataconsumed' = TRUE
     /\ Wake("conswait", "conswoken")
     /\ loop' = "test"
  \/ /\ ~tell
     /\ loop' = "consumerwait"
     /\ UNCHANGED <<pc, consVars>>

(* Mutant: the loop does not wait for its producer. *)
HandBack_NoWait ==
  /\ loop = "handback"
  /\ TellOrWait(TRUE)
  /\ UNCHANGED <<lockVars, dataVars, ctlVars, restVars, unseen>>

HandBack ==
  /\ loop = "handback"
  /\ TellOrWait(stoploopflag \/ waitingconsumed)
  /\ UNCHANGED <<lockVars, dataVars, ctlVars, restVars, unseen>>

ConsumerWoken ==
  /\ loop = "consumerwoken"
  /\ TellOrWait(waitingconsumed)
  /\ UNCHANGED <<lockVars, dataVars, ctlVars, restVars, unseen>>

(* After the loop: one more datum is awaited unless stopLoop() was called. *)
DrainOrWait(drained) ==
  \/ /\ drained
     /\ pendingdata' = FALSE /\ loop' = "close"
  \/ /\ ~drained
     /\ loop' = "drainwait"
     /\ UNCHANGED pendingdata

(* Mutant: no broadcast of _waitingpendingcondition after the loop. *)
Drain_NoBroadcast ==
  /\ loop = "drain" /\ dataLock = Nobody
  /\ waitingpending' = TRUE
  /\ DrainOrWait(stoploopflag \/ pendingdata)
  /\ UNCHANGED <<pc, lockVars, consVars, ctlVars, restVars, unseen>>

Drain ==
  /\ loop = "drain" /\ dataLock = Nobody
  /\ waitingpending' = TRUE
  /\ Wake("sigwait", "sigwoken")
  /\ DrainOrWait(stoploopflag \/ pendingdata)
  /\ UNCHANGED <<lockVars, consVars, ctlVars, restVars, unseen>>

DrainWoken ==
  /\ loop = "drainwoken" /\ dataLock = Nobody
  /\ DrainOrWait(pendingdata)
  /\ UNCHANGED <<pc, lockVars, waitingpending, consVars, ctlVars, restVars, unseen>>

(* close(): every module sets its thread's stop; some join the thread. *)
Close ==
  /\ loop = "close" /\ loop' = "join"
  /\ stopped' = Drivers
  /\ UNCHANGED <<pc, lockVars, dataVars, consVars, stoploopflag, stopflag, dosync,
                 restVars, unseen>>

Join ==
  /\ loop = "join" /\ \A s \in Joined : pc[s] = "exit"
  /\ loop' = "reset"
  /\ UNCHANGED <<pc, lockVars, dataVars, consVars, ctlVars, restVars, unseen>>

(* stoploopflag = 0; setSynchronization(true); runOnDemand() returns. *)
Finish ==
  /\ loop = "reset" /\ loop' = "start"
  /\ stoploopflag' = FALSE /\ dosync' = TRUE
  /\ UNCHANGED <<pc, lockVars, dataVars, consVars, stopflag, stopped, restVars, unseen>>

-----------------------------------------------------------------------------
(* The producers.                                                          *)

(* A new event is in the source node; if (doSynchronization()) tell the loop.
   A driver whose module was told to stop leaves its loop instead. *)
Publish(t) ==
  /\ pc[t] = "work" /\ t \notin stopped /\ dosync
  /\ Goto(t, "signal")
  /\ UNCHANGED <<loop, lockVars, dataVars, consVars, ctlVars, restVars, unseen>>

(* The thread of some modules resets stop when it has left its loop; that of
   the others, the joystick's among them, does not, and is of no use in the
   next run. *)
Leave(t) ==
  /\ pc[t] = "work" /\ t \in stopped
  /\ stopped' \in {stopped} \cup (IF t \in Joysticks THEN {} ELSE {stopped \ {t}})
  /\ Goto(t, "exit")
  /\ UNCHANGED <<loop, lockVars, dataVars, consVars, stoploopflag, stopflag, dosync,
                 restVars, unseen>>

(* What follows dataSignal() in its caller. *)
AfterSignal(t) ==
  CASE t \in Joysticks -> "broadcast"
    [] t \in Stoppers  -> IF t \in oneLeft THEN "unlock" ELSE "signal"
    [] OTHER           -> "consume"

(* Mutant: pendingdata is set but _havedatacondition is not signalled. *)
Deliver_NoSignal(t) ==
  /\ pendingdata' = TRUE
  /\ unseen' = unseen \cup {t}
  /\ oneLeft' = IF t \in Stoppers THEN oneLeft \cup {t} ELSE oneLeft
  /\ Goto(t, AfterSignal(t))
  /\ UNCHANGED loop

(* pendingdata = true; _havedatacondition->signal(). *)
Deliver(t) ==
  /\ pendingdata' = TRUE
  /\ unseen' = unseen \cup {t}
  /\ loop' = CASE loop = "datawait"  -> "datawoken"
               [] loop = "drainwait" -> "drainwoken"
               [] OTHER              -> loop
  /\ oneLeft' = IF t \in Stoppers THEN oneLeft \cup {t} ELSE oneLeft
  /\ Goto(t, AfterSignal(t))

WaitSignal(t) ==
  /\ Goto(t, "sigwait")
  /\ UNCHANGED <<loop, pendingdata, waitingpending, unseen, oneLeft>>

(* Mutant: waitingpending is not consumed. *)
DataSignal_KeepFlag(t) ==
  /\ pc[t] = "signal" /\ dataLock = Nobody
  /\ \/ (stoploopflag \/ waitingpending) /\ Deliver(t) /\ UNCHANGED waitingpending
     \/ ~stoploopflag /\ ~waitingpending /\ WaitSignal(t)
  /\ UNCHANGED <<lockVars, consVars, ctlVars, runs, edits>>

(* dataSignal() (dataBroadcast() differs in how many threads it wakes, and only
   the loop waits): under _havedatamutex, wait until the loop wants a datum,
   unless the loop was told to stop. *)
DataSignal(t) ==
  /\ pc[t] = "signal" /\ dataLock = Nobody
  /\ \/ stoploopflag /\ Deliver(t) /\ UNCHANGED waitingpending
     \/ ~stoploopflag /\ waitingpending /\ Deliver(t) /\ waitingpending' = FALSE
     \/ ~stoploopflag /\ ~waitingpending /\ WaitSignal(t)
  /\ UNCHANGED <<lockVars, consVars, ctlVars, runs, edits>>

SignalWoken(t) ==
  /\ pc[t] = "sigwoken" /\ dataLock = Nobody
  /\ \/ waitingpending /\ Deliver(t) /\ waitingpending' = FALSE
     \/ ~waitingpending /\ WaitSignal(t)
  /\ UNCHANGED <<lockVars, consVars, ctlVars, runs, edits>>

WakeConsumerWait == IF loop = "consumerwait" THEN "consumerwoken" ELSE loop

(* consumedWait(): announce, wake the loop, and wait for dataconsumed unless
   the loop was told to stop. *)
ConsumedWait(t) ==
  /\ pc[t] = "consume"
  /\ waitingconsumed' = TRUE
  /\ loop' = WakeConsumerWait
  /\ \/ (stoploopflag \/ dataconsumed) /\ dataconsumed' = FALSE /\ Goto(t, "work")
     \/ ~stoploopflag /\ ~dataconsumed /\ Goto(t, "conswait") /\ UNCHANGED dataconsumed
  /\ UNCHANGED <<lockVars, dataVars, ctlVars, restVars, unseen>>

ConsumedWoken(t) ==
  /\ pc[t] = "conswoken"
  /\ \/ dataconsumed /\ dataconsumed' = FALSE /\ Goto(t, "work")
     \/ ~dataconsumed /\ Goto(t, "conswait") /\ UNCHANGED dataconsumed
  /\ UNCHANGED <<loop, lockVars, dataVars, waitingconsumed, ctlVars, restVars, unseen>>

(* consumedBroadcast(), called by the joystick in the place of consumedWait(). *)
ConsumedBroadcast(t) ==
  /\ pc[t] = "broadcast"
  /\ dataconsumed' = TRUE
  /\ pc' = [u \in Threads |-> IF u = t THEN "work"
                              ELSE IF pc[u] = "conswait" THEN "conswoken" ELSE pc[u]]
  /\ UNCHANGED <<loop, lockVars, dataVars, waitingconsumed, ctlVars, restVars, unseen>>

-----------------------------------------------------------------------------
(* stopLoop(), the graph editors, and spurious wake-ups.                   *)

(* lock(); stoploopflag = 1; then dataSignal() twice, with _mutex held. *)
StopLoop(t) ==
  /\ pc[t] = "work" /\ graphLock = Nobody
  /\ graphLock' = t /\ stoploopflag' = TRUE
  /\ Goto(t, "signal")
  /\ UNCHANGED <<loop, dataLock, dataVars, consVars, stopflag, dosync, stopped,
                 restVars, unseen>>

StopUnlock(t) ==
  /\ pc[t] = "unlock"
  /\ graphLock' = Nobody /\ Goto(t, "exit")
  /\ UNCHANGED <<loop, dataLock, dataVars, consVars, ctlVars, restVars, unseen>>

BeginEdit(t) ==
  /\ pc[t] = "work" /\ graphLock = Nobody /\ edits < MaxEdits
  /\ graphLock' = t /\ Goto(t, "edit") /\ edits' = edits + 1
  /\ UNCHANGED <<loop, dataLock, dataVars, consVars, ctlVars, oneLeft, runs, unseen>>

EndEdit(t) ==
  /\ pc[t] = "edit"
  /\ graphLock' = Nobody /\ Goto(t, "work")
  /\ UNCHANGED <<loop, dataLock, dataVars, consVars, ctlVars, restVars, unseen>>

(* A wait on a condition variable may return without a signal. *)
Spurious(t) ==
  /\ \/ pc[t] = "sigwait" /\ Goto(t, "sigwoken")
     \/ pc[t] = "conswait" /\ Goto(t, "conswoken")
  /\ UNCHANGED <<loop, lockVars, dataVars, consVars, ctlVars, restVars, unseen>>

SpuriousLoop ==
  /\ loop' = CASE loop = "datawait"     -> "datawoken"
               [] loop = "drainwait"    -> "drainwoken"
               [] loop = "consumerwait" -> "consumerwoken"
               [] OTHER                 -> loop
  /\ loop' # loop
  /\ UNCHANGED <<pc, lockVars, dataVars, consVars, ctlVars, restVars, unseen>>

-----------------------------------------------------------------------------
LoopStep ==
  \/ ResetConsumed \/ ResetData \/ FirstStop \/ Test
  \/ WantData \/ DataWoken \/ BeginTraverse \/ EndTraverse
  \/ HandBack \/ ConsumerWoken \/ Drain \/ DrainWoken
  \/ Close \/ Join \/ Finish

Signal(t) == DataSignal(t) \/ SignalWoken(t)
Consume(t) == ConsumedWait(t) \/ ConsumedWoken(t) \/ ConsumedBroadcast(t)
ProducerStep(t) == Publish(t) \/ Leave(t) \/ Signal(t) \/ Consume(t)
StopperStep(t) == Signal(t) \/ StopUnlock(t)

Next ==
  \/ Start \/ LoopStep \/ SpuriousLoop
  \/ \E t \in Producers : ProducerStep(t)
  \/ \E t \in Stoppers : StopLoop(t) \/ StopperStep(t)
  \/ \E t \in Editors : BeginEdit(t) \/ EndEdit(t)
  \/ \E t \in Threads : Spurious(t)

(* Every thread runs when it can: the loop, a producer (its device or network
   keeps delivering), a stopper once it has begun, an editor until it unlocks.
   The program calls runOnDemand(); nobody has to call stopLoop() or to edit
   the graph. *)
Fairness ==
  /\ WF_vars(Start) /\ WF_vars(LoopStep)
  /\ \A t \in Producers : WF_vars(ProducerStep(t))
  /\ \A t \in Stoppers : WF_vars(StopperStep(t))
  /\ \A t \in Editors : WF_vars(EndEdit(t))

Spec == Init /\ [][Next]_vars
FairSpec == Spec /\ Fairness
-----------------------------------------------------------------------------
(* Properties.                                                             *)

(* At most one datum is between dataSignal() and its traversal, and it is
   exactly there when pendingdata is set or the loop holds it: no signal is
   overwritten by another producer's and none is dropped. *)
Holding == pendingdata \/ loop = "lockgraph"
OneDatumInFlight ==
  /\ Cardinality(unseen) <= 1
  /\ (unseen # {}) <=> Holding

(* The round trips of two producers never overlap: while one is between
   dataSignal() and the end of consumedWait(), no other datum is accepted. *)
RoundTripsExclusive ==
  Cardinality({t \in Producers : pc[t] \in {"consume", "conswait", "conswoken"}}) <= 1

(* consumedWait() never sleeps: dataconsumed is always still set by the round
   before, so the call announces the producer and returns, possibly before the
   traversal.  Producers are throttled by dataSignal() alone. *)
ConsumedWaitNeverSleeps ==
  \A t \in Producers : pc[t] \notin {"conswait", "conswoken"}

(* The rendezvous serves one producer at a time, from its dataSignal() to the
   end of its consumedWait(), where it never sleeps: no signal is overwritten,
   and no acknowledgement goes to another producer. *)
RendezvousSafe == OneDatumInFlight /\ RoundTripsExclusive /\ ConsumedWaitNeverSleeps

(* Context.h:160-162: "the graph is only traversed if some event-driven enabled
   event generator node produces new data".  stopLoop() breaks that: its two
   dataSignal() bring no data.  What holds: a traversal without a producer's
   datum follows a stopLoop() that has returned, and there is one for a call of
   stopLoop() at most, even if the call straddles the end of a run. *)
TraversalNeedsData ==
  [][loop # "traverse" /\ loop' = "traverse" =>
       \/ unseen \cap Producers # {}
       \/ \E t \in Stoppers : t \in unseen /\ pc[t] = "exit"]_vars

(* Every datum signalled is answered by a traversal. *)
SignalIsSeen == \A t \in Threads : t \in unseen ~> t \notin unseen

(* While producers keep producing, the loop keeps traversing: no wake-up is
   lost and the waits of loop and producers never form a cycle. *)
LoopKeepsTraversing == []<>(loop = "traverse")

(* The rendezvous implements the abstract service of one datum at a time. *)
Service == INSTANCE DataDriven WITH
  stage <- IF unseen # {} THEN "offered"
           ELSE IF loop \in {"traverse", "handback", "consumerwait", "consumerwoken"}
           THEN "traversed" ELSE "idle",
  acked <- waitingconsumed
ImplementsService == Service!Spec

(* The loop sleeps in the drain and no thread is left that could signal, until
   somebody calls stopLoop(). *)
Deserted ==
  /\ loop \in {"drainwait", "drainwoken"}
  /\ Clients = {} /\ \A d \in Drivers : pc[d] = "exit"

(* close() joins a driver that sleeps in dataSignal() or consumedWait(). *)
JoinHangs ==
  /\ loop = "join"
  /\ \E s \in Joined : pc[s] \in {"sigwait", "sigwoken", "conswait", "conswoken"}

(* The main loop "runs until it is stopped somehow. Then it calls close() on
   all modules" (Context.h:300): so does runOnDemand(), and returns, or it hangs
   for ever in one of the two ways above.  No wake-up, and no flag left by an
   earlier run, keeps it in a third one. *)
StoppedLoopReturns ==
  loop = "drain" ~> (loop = "start" \/ []Deserted \/ []JoinHangs)

(* stopLoop() "sets a termination flag for the main loop": the loop ends. *)
StopLoopEndsLoop == stoploopflag ~> loop = "start"
-----------------------------------------------------------------------------
(* The inductive invariant behind OneDatumInFlight and ConsumedWaitNeverSleeps:
   when nobody stops the loop and every producer calls consumedWait(), the
   loop and the flags of both mutexes are always in one of three stages. *)
NobodyStops == Stoppers = {} /\ Joysticks = {} /\ ModulesMayStop = FALSE

AtConsume == {t \in Producers : pc[t] = "consume"}

(* The producer of the datum being served has come to consumedWait(), or not. *)
Served ==
  \/ AtConsume = {} /\ waitingconsumed /\ ~dataconsumed
  \/ (\E p \in Producers : AtConsume = {p}) /\ ~waitingconsumed /\ dataconsumed

Resting ==
  /\ loop \in {"start", "opened", "resetdata", "asked", "test", "want", "datawait",
               "datawoken"}
  /\ unseen = {} /\ AtConsume = {} /\ ~pendingdata /\ ~waitingconsumed
  /\ waitingpending <=> (loop \in {"datawait", "datawoken"})
  /\ dataconsumed <=> (loop \notin {"start", "opened"})

Offered ==
  /\ loop \in {"datawoken", "lockgraph"}
  /\ \E p \in Producers : unseen = {p}
  /\ pendingdata <=> (loop = "datawoken")
  /\ ~waitingpending /\ Served

Traversed ==
  /\ loop \in {"traverse", "handback", "consumerwait", "consumerwoken"}
  /\ unseen = {}
  /\ ~pendingdata /\ ~waitingpending /\ Served

RoundInv ==
  /\ ~stoploopflag /\ ~stopflag
  /\ ConsumedWaitNeverSleeps /\ \A t \in Producers : pc[t] # "broadcast"
  /\ Resting \/ Offered \/ Traversed
=============================================================================
