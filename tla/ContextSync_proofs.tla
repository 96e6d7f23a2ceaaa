-------------------------- MODULE ContextSync_proofs --------------------------
(***************************************************************************)
(* Proofs about ContextSync.  For a loop nobody stops and producers that   *)
(* all use consumedWait(): data are served one at a time and               *)
(* consumedWait() never sleeps.  For every instance, with stoppers and     *)
(* joysticks: type correctness, what a traversal was signalled by, no lost *)
(* wake-up, the exclusion of traversal and editors, and two hangs that     *)
(* nothing ends: stopLoop() against the loop, and the deserted drain.      *)
(***************************************************************************)
EXTENDS ContextSync, FiniteSetTheorems, TLAPS


(* Type correctness of every variable of the data-driven loop. *)
THEOREM TypeCorrect == Spec => []TypeOK
<1>1. Init => TypeOK
  <2> SUFFICES ASSUME Init PROVE TypeOK
    OBVIOUS
  <2>1. loop \in LoopPoints /\ pc \in [Threads -> ThreadPoints]
    BY DEF Init, LoopPoints, ThreadPoints
  <2>2. runs \in 0..MaxRuns /\ edits \in 0..MaxEdits
    BY BoundAssumption DEF Init
  <2>3. QED
    BY <2>1, <2>2 DEF Init, TypeOK
<1>2. TypeOK /\ [Next]_vars => TypeOK'
  <2> SUFFICES ASSUME TypeOK, [Next]_vars PROVE TypeOK'
    OBVIOUS
  <2> USE DEF TypeOK, lockVars, dataVars, consVars, ctlVars, restVars, Wake, Goto
  <2>1. CASE Start
    <3>1. loop' \in LoopPoints
      BY <2>1 DEF LoopPoints, Start
    <3>2. pc' \in [Threads -> ThreadPoints]
      BY <2>1 DEF ThreadPoints, Start
    <3>3. QED
      BY <2>1, <3>1, <3>2, BoundAssumption DEF Start
  <2>2. CASE ResetConsumed \/ ResetData \/ FirstStop \/ Test
    <3>1. loop' \in LoopPoints
      BY <2>2 DEF LoopPoints, ResetConsumed, ResetData, FirstStop, Test, AskModules
    <3>2. pc' \in [Threads -> ThreadPoints]
      BY <2>2 DEF ThreadPoints, ResetConsumed, ResetData, FirstStop, Test, AskModules
    <3>3. CASE ResetConsumed \/ ResetData
      BY <3>1, <3>2, <3>3 DEF ResetConsumed, ResetData
    <3>4. CASE FirstStop
      BY <3>1, <3>2, <3>4, BoundAssumption DEF FirstStop, AskModules
    <3>5. CASE Test
      BY <3>1, <3>2, <3>5 DEF Test
    <3>6. QED
      BY <2>2, <3>3, <3>4, <3>5
  <2>3. CASE WantData \/ DataWoken
    <3>1. loop' \in LoopPoints
      BY <2>3 DEF LoopPoints, WantData, DataWoken, TakeOrWait
    <3>2. pc' \in [Threads -> ThreadPoints]
      BY <2>3 DEF ThreadPoints, WantData, DataWoken, TakeOrWait
    <3>3. QED
      BY <2>3, <3>1, <3>2 DEF WantData, DataWoken, TakeOrWait
  <2>4. CASE BeginTraverse \/ EndTraverse
    <3>1. loop' \in LoopPoints
      BY <2>4 DEF LoopPoints, BeginTraverse, EndTraverse, AskModules
    <3>2. pc' \in [Threads -> ThreadPoints]
      BY <2>4 DEF ThreadPoints, BeginTraverse, EndTraverse, AskModules
    <3>3. QED
      BY <2>4, <3>1, <3>2, BoundAssumption DEF BeginTraverse, EndTraverse, AskModules
  <2>5. CASE HandBack \/ ConsumerWoken
    <3>1. loop' \in LoopPoints
      BY <2>5 DEF LoopPoints, HandBack, ConsumerWoken, TellOrWait
    <3>2. pc' \in [Threads -> ThreadPoints]
      BY <2>5 DEF ThreadPoints, HandBack, ConsumerWoken, TellOrWait
    <3>3. QED
      BY <2>5, <3>1, <3>2 DEF HandBack, ConsumerWoken, TellOrWait
  <2>6. CASE Drain \/ DrainWoken
    <3>1. loop' \in LoopPoints
      BY <2>6 DEF LoopPoints, Drain, DrainWoken, DrainOrWait
    <3>2. pc' \in [Threads -> ThreadPoints]
      BY <2>6 DEF ThreadPoints, Drain, DrainWoken, DrainOrWait
    <3>3. QED
      BY <2>6, <3>1, <3>2 DEF Drain, DrainWoken, DrainOrWait
  <2>7. CASE Close \/ Join \/ Finish
    <3>1. loop' \in LoopPoints
      BY <2>7 DEF LoopPoints, Close, Join, Finish
    <3>2. pc' \in [Threads -> ThreadPoints]
      BY <2>7 DEF ThreadPoints, Close, Join, Finish
    <3>3. QED
      BY <2>7, <3>1, <3>2 DEF Close, Join, Finish
  <2>8. CASE SpuriousLoop
    <3>1. loop' \in LoopPoints
      BY <2>8 DEF LoopPoints, SpuriousLoop
    <3>2. pc' \in [Threads -> ThreadPoints]
      BY <2>8 DEF ThreadPoints, SpuriousLoop
    <3>3. QED
      BY <2>8, <3>1, <3>2 DEF SpuriousLoop
  <2>9. ASSUME NEW t \in Threads, Publish(t) \/ Leave(t) PROVE TypeOK'
    <3>1. loop' \in LoopPoints
      BY <2>9 DEF LoopPoints, Publish, Leave
    <3>2. pc' \in [Threads -> ThreadPoints]
      BY <2>9 DEF ThreadPoints, Publish, Leave
    <3>3. QED
      BY <2>9, <3>1, <3>2 DEF Publish, Leave
  <2>10. ASSUME NEW t \in Threads, Signal(t) PROVE TypeOK'
    <3>1. loop' \in LoopPoints
      BY <2>10 DEF LoopPoints, Signal, DataSignal, SignalWoken, Deliver, WaitSignal, AfterSignal
    <3>2. pc' \in [Threads -> ThreadPoints]
      BY <2>10 DEF ThreadPoints, Signal, DataSignal, SignalWoken, Deliver, WaitSignal, AfterSignal
    <3>3. QED
      BY <2>10, <3>1, <3>2 DEF Signal, DataSignal, SignalWoken, Deliver, WaitSignal, AfterSignal
  <2>11. ASSUME NEW t \in Threads, Consume(t) PROVE TypeOK'
    <3>1. loop' \in LoopPoints
      BY <2>11 DEF LoopPoints, Consume, ConsumedWait, ConsumedWoken, ConsumedBroadcast,
                         WakeConsumerWait
    <3>2. pc' \in [Threads -> ThreadPoints]
      BY <2>11 DEF ThreadPoints, Consume, ConsumedWait, ConsumedWoken, ConsumedBroadcast,
                         WakeConsumerWait
    <3>3. QED
      BY <2>11, <3>1, <3>2 DEF Consume, ConsumedWait, ConsumedWoken, ConsumedBroadcast,
                         WakeConsumerWait
  <2>12. ASSUME NEW t \in Threads, StopLoop(t) \/ StopUnlock(t) \/ Spurious(t)
         PROVE  TypeOK'
    <3>1. loop' \in LoopPoints
      BY <2>12 DEF LoopPoints, StopLoop, StopUnlock, Spurious
    <3>2. pc' \in [Threads -> ThreadPoints]
      BY <2>12 DEF ThreadPoints, StopLoop, StopUnlock, Spurious
    <3>3. QED
      BY <2>12, <3>1, <3>2 DEF StopLoop, StopUnlock, Spurious
  <2>13. ASSUME NEW t \in Threads, BeginEdit(t) \/ EndEdit(t) PROVE TypeOK'
    <3>1. loop' \in LoopPoints
      BY <2>13 DEF LoopPoints, BeginEdit, EndEdit
    <3>2. pc' \in [Threads -> ThreadPoints]
      BY <2>13 DEF ThreadPoints, BeginEdit, EndEdit
    <3>3. QED
      BY <2>13, <3>1, <3>2, BoundAssumption DEF BeginEdit, EndEdit
  <2>14. CASE UNCHANGED vars
    BY <2>14 DEF vars
  <2>15. QED
    BY <2>1, <2>2, <2>3, <2>4, <2>5, <2>6, <2>7, <2>8, <2>9, <2>10, <2>11, <2>12, <2>13, <2>14
    DEF Next, LoopStep, ProducerStep, StopperStep, Threads, Producers
<1>3. QED
  BY <1>1, <1>2, PTL DEF Spec

-----------------------------------------------------------------------------
(* Which producers are between dataSignal() and consumedWait() after a step
   that changes the control point of one thread, or of none. *)
LEMMA AtConsumeMove ==
  ASSUME TypeOK, NEW t \in Threads, NEW p \in ThreadPoints, Goto(t, p)
  PROVE  /\ p # "consume" => AtConsume' = AtConsume \ {t}
         /\ p = "consume" /\ t \in Producers => AtConsume' = AtConsume \cup {t}
BY DEF TypeOK, Goto, AtConsume, Threads

LEMMA AtConsumeWake ==
  ASSUME TypeOK, NEW at, NEW woken, Wake(at, woken), at # "consume", woken # "consume"
  PROVE  AtConsume' = AtConsume
BY DEF TypeOK, Wake, AtConsume, Threads

LEMMA ModulesQuiet ==
  ASSUME NobodyStops, AskModules PROVE stopflag' = FALSE
BY DEF NobodyStops, AskModules

LEMMA ProducerConsumes ==
  ASSUME NobodyStops, NEW t \in Producers, ThreadAssumption
  PROVE  t \notin Stoppers /\ AfterSignal(t) = "consume"
BY DEF NobodyStops, AfterSignal

(* The three stages are inductive. *)
LEMMA RoundInvStep ==
  ASSUME NobodyStops, TypeOK, RoundInv, [Next]_vars
  PROVE  RoundInv'
<1> USE DEF lockVars, dataVars, consVars, ctlVars, restVars
<1> DEFINE Quiet == /\ ~stoploopflag /\ ~stopflag
                    /\ ConsumedWaitNeverSleeps /\ \A t \in Producers : pc[t] # "broadcast"
<1>1. CASE Start
  <2>1. AtConsume' = {} /\ Quiet'
    BY <1>1 DEF Start, RoundInv, Resting, Offered, Traversed, AtConsume, TypeOK, Threads,
                Producers, ConsumedWaitNeverSleeps
  <2>2. Resting'
    BY <1>1, <2>1 DEF Start, RoundInv, Resting, Offered, Traversed
  <2>3. QED
    BY <2>1, <2>2 DEF RoundInv
<1>2. CASE ResetConsumed
  <2>1. AtConsume' = AtConsume /\ Quiet'
    BY <1>2, AtConsumeWake DEF ResetConsumed, RoundInv, ConsumedWaitNeverSleeps, Wake,
                               Threads, TypeOK
  <2>2. QED
    BY <1>2, <2>1 DEF ResetConsumed, RoundInv, Resting, Offered, Traversed
<1>3. CASE ResetData \/ FirstStop \/ Test
  <2>0. ~stopflag'
    BY <1>3, ModulesQuiet DEF ResetData, FirstStop, Test, RoundInv
  <2>1. AtConsume' = AtConsume /\ Quiet'
    BY <1>3, <2>0 DEF ResetData, FirstStop, Test, AtConsume, RoundInv,
                ConsumedWaitNeverSleeps
  <2>2. QED
    BY <1>3, <2>1 DEF ResetData, FirstStop, Test, RoundInv, Resting, Offered, Traversed
<1>4. CASE WantData
  <2>1. AtConsume' = AtConsume /\ Quiet'
    BY <1>4, AtConsumeWake DEF WantData, RoundInv, ConsumedWaitNeverSleeps, Wake, Threads,
                               TypeOK
  <2>2. QED
    BY <1>4, <2>1 DEF WantData, TakeOrWait, RoundInv, Resting, Offered, Traversed
<1>5. CASE DataWoken \/ BeginTraverse \/ EndTraverse
  <2>0. ~stopflag'
    BY <1>5, ModulesQuiet DEF DataWoken, BeginTraverse, EndTraverse, RoundInv
  <2>1. AtConsume' = AtConsume /\ Quiet'
    BY <1>5, <2>0 DEF DataWoken, BeginTraverse, EndTraverse, AtConsume,
                RoundInv, ConsumedWaitNeverSleeps
  <2>2. CASE Resting
    BY <1>5, <2>1, <2>2 DEF DataWoken, BeginTraverse, EndTraverse, TakeOrWait, RoundInv, Resting
  <2>3. CASE Offered
    BY <1>5, <2>1, <2>3 DEF DataWoken, BeginTraverse, EndTraverse, TakeOrWait, RoundInv,
                            Offered, Traversed, Served
  <2>4. CASE Traversed
    BY <1>5, <2>1, <2>4 DEF DataWoken, BeginTraverse, EndTraverse, RoundInv, Traversed, Served
  <2>5. QED
    BY <2>2, <2>3, <2>4 DEF RoundInv
<1>6. CASE HandBack \/ ConsumerWoken
  <2>0. Traversed /\ ~stoploopflag
    BY <1>6 DEF HandBack, ConsumerWoken, RoundInv, Resting, Offered
  <2>1. AtConsume' = AtConsume /\ Quiet'
    BY <1>6, AtConsumeWake DEF HandBack, ConsumerWoken, TellOrWait, RoundInv,
                     ConsumedWaitNeverSleeps, Wake, Threads, TypeOK, AtConsume
  <2>2. CASE waitingconsumed
    BY <1>6, <2>0, <2>1, <2>2 DEF HandBack, ConsumerWoken, TellOrWait, RoundInv, Traversed,
                                  Resting, Served
  <2>3. CASE ~waitingconsumed
    BY <1>6, <2>0, <2>1, <2>3 DEF HandBack, ConsumerWoken, TellOrWait, RoundInv, Traversed,
                                  Served
  <2>4. QED
    BY <2>2, <2>3
<1>7. CASE Drain \/ DrainWoken \/ Close \/ Join \/ Finish
  BY <1>7 DEF Drain, DrainWoken, Close, Join, Finish, RoundInv, Resting, Offered, Traversed
<1>8. CASE SpuriousLoop
  <2>1. AtConsume' = AtConsume /\ Quiet'
    BY <1>8 DEF SpuriousLoop, AtConsume, RoundInv, ConsumedWaitNeverSleeps
  <2>2. QED
    BY <1>8, <2>1 DEF SpuriousLoop, RoundInv, Resting, Offered, Traversed, Served
<1>9. ASSUME NEW t \in Threads, Publish(t) \/ Leave(t) \/ Spurious(t) PROVE RoundInv'
  <2>1. AtConsume' = AtConsume /\ Quiet'
    BY <1>9 DEF Publish, Leave, Spurious, Goto, AtConsume, RoundInv, ConsumedWaitNeverSleeps,
                Threads, TypeOK
  <2>2. QED
    BY <1>9, <2>1 DEF Publish, Leave, Spurious, RoundInv, Resting, Offered, Traversed, Served
<1>10. ASSUME NEW t \in Producers, Signal(t) PROVE RoundInv'
  <2>0. t \in Threads /\ t \notin Stoppers /\ t \notin Joysticks /\ ~stoploopflag
    BY DEF NobodyStops, Threads, RoundInv
  <2>1. CASE Deliver(t) /\ waitingpending' = FALSE /\ waitingpending
    <3>1. Resting /\ loop \in {"datawait", "datawoken"}
      BY <2>1 DEF RoundInv, Resting, Offered, Traversed
    <3>2. AtConsume' = {t} /\ unseen' = {t} /\ pendingdata' /\ loop' = "datawoken"
      BY <2>0, <2>1, <3>1, AtConsumeMove, ProducerConsumes, ThreadAssumption
      DEF Deliver, Resting, ThreadPoints
    <3>3. pc' = [pc EXCEPT ![t] = "consume"] /\ UNCHANGED <<stoploopflag, stopflag>>
      BY <1>10, <2>1, ProducerConsumes, ThreadAssumption
      DEF Signal, DataSignal, SignalWoken, Deliver, Goto
    <3>4. Quiet'
      BY <3>3 DEF TypeOK, RoundInv, ConsumedWaitNeverSleeps, Threads
    <3>5. UNCHANGED <<dataconsumed, waitingconsumed>>
      BY <1>10 DEF Signal, DataSignal, SignalWoken
    <3>6. QED
      BY <2>1, <3>1, <3>2, <3>4, <3>5 DEF RoundInv, Resting, Offered, Served
  <2>2. CASE WaitSignal(t)
    <3>1. AtConsume' = AtConsume /\ Quiet'
      BY <1>10, <2>0, <2>2 DEF Signal, DataSignal, SignalWoken, WaitSignal, Goto, AtConsume,
                  RoundInv, ConsumedWaitNeverSleeps, TypeOK, Threads
    <3>2. QED
      BY <1>10, <2>2, <3>1 DEF Signal, DataSignal, SignalWoken, WaitSignal, RoundInv, Resting,
                  Offered, Traversed, Served
  <2>3. QED
    BY <1>10, <2>0, <2>1, <2>2 DEF Signal, DataSignal, SignalWoken
<1>11. ASSUME NEW t \in Producers, Consume(t) PROVE RoundInv'
  <2>0. t \in Threads /\ t \notin Joysticks /\ ~stoploopflag
    BY DEF NobodyStops, Threads, RoundInv
  <2>1. ConsumedWait(t)
    BY <1>11, <2>0 DEF Consume, ConsumedWoken, ConsumedBroadcast, RoundInv,
                       ConsumedWaitNeverSleeps
  <2>2. t \in AtConsume
    BY <2>1 DEF ConsumedWait, AtConsume
  <2>3. Served /\ AtConsume = {t} /\ dataconsumed
    BY <2>2 DEF RoundInv, Resting, Offered, Traversed, Served
  <2>4. AtConsume' = {} /\ Quiet' /\ Goto(t, "work")
    BY <2>0, <2>1, <2>3 DEF ConsumedWait, Goto, RoundInv, ConsumedWaitNeverSleeps, TypeOK,
                            AtConsume, Threads
  <2>5. waitingconsumed' /\ ~dataconsumed' /\ UNCHANGED <<pendingdata, waitingpending, unseen>>
    BY <2>1, <2>3 DEF ConsumedWait
  <2>6. QED
    BY <2>1, <2>2, <2>4, <2>5 DEF ConsumedWait, WakeConsumerWait, RoundInv, Resting, Offered,
                             Traversed, Served
<1>12. ASSUME NEW t \in Editors, BeginEdit(t) \/ EndEdit(t) PROVE RoundInv'
  <2>1. AtConsume' = AtConsume /\ Quiet'
    BY <1>12, ThreadAssumption DEF BeginEdit, EndEdit, Goto, AtConsume, RoundInv,
                ConsumedWaitNeverSleeps, TypeOK, Threads
  <2>2. QED
    BY <1>12, <2>1 DEF BeginEdit, EndEdit, RoundInv, Resting, Offered, Traversed, Served
<1>13. CASE UNCHANGED vars
  BY <1>13 DEF vars, RoundInv, ConsumedWaitNeverSleeps, Resting, Offered, Traversed, Served,
               AtConsume
<1>14. QED
  BY <1>1, <1>2, <1>3, <1>4, <1>5, <1>6, <1>7, <1>8, <1>9, <1>10, <1>11, <1>12, <1>13
  DEF Next, LoopStep, ProducerStep, NobodyStops, Threads

(* Between the steps of the rendezvous the flags say where the datum is, its
   producer and the loop, when nobody stops the loop: see RoundInv. *)
THEOREM RoundInvariant == ASSUME NobodyStops PROVE Spec => []RoundInv
<1>1. Init => RoundInv
  BY ThreadAssumption DEF Init, RoundInv, Resting, AtConsume, ConsumedWaitNeverSleeps, Producers, Threads
<1>2. TypeOK /\ RoundInv /\ [Next]_vars => RoundInv'
  BY RoundInvStep
<1>3. QED
  BY <1>1, <1>2, TypeCorrect, PTL DEF Spec

(* For any number of producers: at most one datum is between its signal and
   its traversal, and it is there exactly while the loop has it to take. *)
THEOREM OneDatum == ASSUME NobodyStops PROVE Spec => []OneDatumInFlight
<1>1. RoundInv => OneDatumInFlight
  <2> SUFFICES ASSUME RoundInv PROVE OneDatumInFlight
    OBVIOUS
  <2>1. unseen = {} \/ \E p \in Producers : unseen = {p}
    BY DEF RoundInv, Resting, Offered, Traversed
  <2>2. Cardinality(unseen) <= 1
    <3>1. CASE unseen = {}
      BY <3>1, FS_EmptySet
    <3>2. ASSUME NEW p \in Producers, unseen = {p} PROVE Cardinality(unseen) <= 1
      BY <3>2, FS_Singleton
    <3>3. QED
      BY <2>1, <3>1, <3>2
  <2>3. (unseen # {}) <=> Holding
    <3>1. CASE Resting
      BY <3>1 DEF Resting, Holding
    <3>2. CASE Offered
      <4>1. unseen # {}
        BY <3>2 DEF Offered
      <4>2. Holding
        BY <3>2 DEF Offered, Holding
      <4>3. QED
        BY <4>1, <4>2
    <3>3. CASE Traversed
      BY <3>3 DEF Traversed, Holding
    <3>4. QED
      BY <3>1, <3>2, <3>3 DEF RoundInv
  <2>4. QED
    BY <2>2, <2>3 DEF OneDatumInFlight
<1>2. QED
  BY <1>1, RoundInvariant, PTL

(* The round trips of two producers never overlap, and consumedWait() never
   puts a producer to sleep. *)
THEOREM RoundTrips ==
  ASSUME NobodyStops PROVE Spec => [](RoundTripsExclusive /\ ConsumedWaitNeverSleeps)
<1>1. RoundInv => RoundTripsExclusive /\ ConsumedWaitNeverSleeps
  <2> SUFFICES ASSUME RoundInv PROVE RoundTripsExclusive /\ ConsumedWaitNeverSleeps
    OBVIOUS
  <2> DEFINE Inside == {t \in Producers : pc[t] \in {"consume", "conswait", "conswoken"}}
  <2>1. Inside = AtConsume
    BY DEF AtConsume, RoundInv, ConsumedWaitNeverSleeps
  <2>2. AtConsume = {} \/ \E p \in Producers : AtConsume = {p}
    BY DEF RoundInv, Resting, Offered, Traversed, Served
  <2>3. Cardinality(Inside) <= 1
    BY SMTT(20), <2>1, <2>2, FS_EmptySet, FS_Singleton
  <2>4. QED
    BY <2>3 DEF RoundTripsExclusive, RoundInv
<1>2. QED
  BY <1>1, RoundInvariant, PTL

(* The rendezvous serves one producer at a time and never lets one sleep, for
   any number of producers. *)
THEOREM RendezvousSafety == ASSUME NobodyStops PROVE Spec => []RendezvousSafe
BY OneDatum, RoundTrips, PTL DEF RendezvousSafe

(* The rendezvous implements the abstract service of one datum at a time: its
   initial states are the service's and each step is one of the service's. *)
THEOREM ServiceRefinement ==
  ASSUME NobodyStops PROVE Spec => Service!Init /\ [][Service!Next]_(Service!vars)
<1>1. Init => Service!Init
  BY DEF Init, Service!Init
<1>2. TypeOK /\ RoundInv /\ RoundInv' /\ [Next]_vars => [Service!Next]_(Service!vars)
  <2> SUFFICES ASSUME TypeOK, RoundInv, RoundInv', [Next]_vars
               PROVE  [Service!Next]_(Service!vars)
    OBVIOUS
  <2> USE DEF lockVars, dataVars, consVars, ctlVars, restVars, Service!vars
  <2>1. CASE Start \/ ResetConsumed \/ ResetData \/ FirstStop \/ Test
    BY <2>1 DEF Start, ResetConsumed, ResetData, FirstStop, Test, RoundInv, Resting, Offered, Traversed
  <2>2. CASE WantData \/ DataWoken
    BY <2>2 DEF WantData, DataWoken, TakeOrWait
  <2>3. CASE BeginTraverse
    BY <2>3 DEF BeginTraverse, Service!Next, Service!Traverse, RoundInv, Resting, Offered, Traversed
  <2>4. CASE EndTraverse
    BY <2>4 DEF EndTraverse
  <2>5. CASE HandBack \/ ConsumerWoken
    BY <2>5 DEF HandBack, ConsumerWoken, TellOrWait, RoundInv, Resting, Offered, Traversed,
                Service!Next, Service!Done
  <2>6. CASE Drain \/ DrainWoken \/ Close \/ Join \/ Finish
    BY <2>6 DEF Drain, DrainWoken, Close, Join, Finish, RoundInv, Resting, Offered, Traversed
  <2>7. CASE SpuriousLoop
    BY <2>7 DEF SpuriousLoop
  <2>8. ASSUME NEW t \in Threads, Publish(t) \/ Leave(t) \/ Spurious(t)
        PROVE  [Service!Next]_(Service!vars)
    BY <2>8 DEF Publish, Leave, Spurious
  <2>9. ASSUME NEW t \in Producers, Signal(t) PROVE [Service!Next]_(Service!vars)
    BY <2>9 DEF Signal, DataSignal, SignalWoken, Deliver, WaitSignal, RoundInv, Resting, Offered,
                Traversed, Service!Next, Service!Accept
  <2>10. ASSUME NEW t \in Producers, Consume(t) PROVE [Service!Next]_(Service!vars)
    <3>1. ConsumedWait(t)
      BY <2>10 DEF Consume, ConsumedWoken, ConsumedBroadcast, RoundInv, ConsumedWaitNeverSleeps
    <3>2. Served /\ ~Resting /\ t \in AtConsume
      BY <3>1 DEF ConsumedWait, RoundInv, Resting, Offered, Traversed, AtConsume
    <3>3. waitingconsumed = FALSE /\ waitingconsumed' = TRUE /\ unseen' = unseen
      BY <3>1, <3>2 DEF ConsumedWait, Served, TypeOK
    <3>4. CASE Offered
      <4>1. unseen # {}
        BY <3>4 DEF Offered
      <4>2. QED
        BY <3>3, <4>1 DEF Service!Next, Service!Ack
    <3>5. CASE Traversed
      <4>1. loop' \in {"traverse", "handback", "consumerwait", "consumerwoken"}
        BY <3>1, <3>5 DEF ConsumedWait, WakeConsumerWait, Traversed
      <4>2. QED
        BY <3>3, <3>5, <4>1 DEF Traversed, Service!Next, Service!Ack
    <3>6. QED
      BY <3>2, <3>4, <3>5 DEF RoundInv
  <2>11. ASSUME NEW t \in Editors, BeginEdit(t) \/ EndEdit(t)
         PROVE  [Service!Next]_(Service!vars)
    BY <2>11 DEF BeginEdit, EndEdit
  <2>12. CASE UNCHANGED vars
    BY <2>12 DEF vars
  <2>13. QED
    BY <2>1, <2>2, <2>3, <2>4, <2>5, <2>6, <2>7, <2>8, <2>9, <2>10, <2>11, <2>12
    DEF Next, LoopStep, ProducerStep, NobodyStops, Threads
<1>3. QED
  BY <1>1, <1>2, TypeCorrect, RoundInvariant, PTL DEF Spec

-----------------------------------------------------------------------------
(* Whoever stops the loop or acknowledges by broadcast: a datum that is pending
   or that the loop has taken was signalled after the last traversal, and the
   loop holds _havedatamutex from taking it to the end of the traversal. *)
DatumInv ==
  /\ loop \in {"lockgraph", "traverse"} => dataLock = Loop /\ ~pendingdata
  /\ pendingdata \/ loop = "lockgraph" => unseen # {}

LEMMA DatumStep ==
  ASSUME DatumInv, [Next]_vars
  PROVE  DatumInv'
<1>. USE DEF DatumInv, lockVars, dataVars, consVars, ctlVars, restVars
<1>1. CASE Start \/ ResetConsumed \/ ResetData \/ FirstStop \/ Test
  BY <1>1 DEF Start, ResetConsumed, ResetData, FirstStop, Test
<1>2. CASE WantData \/ DataWoken
  BY <1>2 DEF WantData, DataWoken, TakeOrWait
<1>3. CASE BeginTraverse \/ EndTraverse
  BY <1>3 DEF BeginTraverse, EndTraverse
<1>4. CASE HandBack \/ ConsumerWoken
  BY <1>4 DEF HandBack, ConsumerWoken, TellOrWait
<1>5. CASE Drain \/ DrainWoken \/ Close \/ Join \/ Finish \/ SpuriousLoop
  BY <1>5 DEF Drain, DrainWoken, DrainOrWait, Close, Join, Finish, SpuriousLoop
<1>6. ASSUME NEW t \in Threads, Signal(t) PROVE DatumInv'
  <2>1. dataLock = Nobody /\ UNCHANGED lockVars
    BY <1>6 DEF Signal, DataSignal, SignalWoken
  <2>2. loop \notin {"lockgraph", "traverse"}
    BY <2>1, ThreadAssumption
  <2>3. CASE Deliver(t)
    BY <2>2, <2>3 DEF Deliver
  <2>4. CASE WaitSignal(t)
    BY <2>2, <2>4 DEF WaitSignal
  <2>. QED
    BY <1>6, <2>3, <2>4 DEF Signal, DataSignal, SignalWoken
<1>7. ASSUME NEW t \in Threads, Consume(t) PROVE DatumInv'
  BY <1>7 DEF Consume, ConsumedWait, ConsumedWoken, ConsumedBroadcast, WakeConsumerWait
<1>8. ASSUME NEW t \in Threads,
             Publish(t) \/ Leave(t) \/ StopLoop(t) \/ StopUnlock(t) \/ BeginEdit(t) \/ EndEdit(t)
               \/ Spurious(t)
      PROVE  DatumInv'
  BY <1>8 DEF Publish, Leave, StopLoop, StopUnlock, BeginEdit, EndEdit, Spurious
<1>9. CASE UNCHANGED vars
  BY <1>9 DEF vars
<1>. QED
  BY <1>1, <1>2, <1>3, <1>4, <1>5, <1>6, <1>7, <1>8, <1>9
     DEF Next, LoopStep, ProducerStep, StopperStep, Threads
-----------------------------------------------------------------------------
(* The four condition variables: whoever sleeps on one finds the flag it waits
   for unset.  Each flag is set together with the signal or the broadcast that
   wakes the sleepers, under the mutex under which they tested it, so that no
   wake-up is lost, whoever stops the loop. *)
SleepersWait ==
  /\ loop \in {"datawait", "drainwait"} => ~pendingdata
  /\ loop = "consumerwait" => ~waitingconsumed
  /\ \A t \in Threads : pc[t] = "sigwait" => ~waitingpending
  /\ \A t \in Threads : pc[t] = "conswait" => ~dataconsumed

LEMMA SleepersStep == ASSUME TypeOK, SleepersWait, [Next]_vars PROVE SleepersWait'
<1>. USE DEF SleepersWait, TypeOK, lockVars, dataVars, consVars, ctlVars, restVars
<1>1. CASE Start
  BY <1>1 DEF Start
<1>2. CASE ResetConsumed \/ ResetData
  BY <1>2 DEF ResetConsumed, ResetData, Wake
<1>3. CASE FirstStop \/ Test \/ BeginTraverse \/ EndTraverse \/ Close \/ Join \/ Finish
  BY <1>3 DEF FirstStop, Test, BeginTraverse, EndTraverse, Close, Join, Finish
<1>4. CASE WantData \/ DataWoken
  BY <1>4 DEF WantData, DataWoken, TakeOrWait, Wake
<1>5. CASE HandBack \/ ConsumerWoken
  BY <1>5 DEF HandBack, ConsumerWoken, TellOrWait, Wake
<1>6. CASE Drain \/ DrainWoken
  BY <1>6 DEF Drain, DrainWoken, DrainOrWait, Wake
<1>7. CASE SpuriousLoop
  BY <1>7 DEF SpuriousLoop
<1>8. ASSUME NEW t \in Threads, Signal(t) PROVE SleepersWait'
  <2>1. CASE Deliver(t)
    <3>1. AfterSignal(t) \notin {"sigwait", "conswait"}
      BY DEF AfterSignal
    <3>2. UNCHANGED consVars /\ (waitingpending' = waitingpending \/ waitingpending' = FALSE)
      BY <1>8, <2>1 DEF Signal, DataSignal, SignalWoken, WaitSignal, Deliver
    <3>3. \A u \in Threads : pc'[u] = IF u = t THEN AfterSignal(t) ELSE pc[u]
      BY <2>1 DEF Deliver, Goto
    <3>4. loop' \notin {"datawait", "drainwait"} /\ (loop' = "consumerwait" => loop' = loop)
      BY <2>1 DEF Deliver
    <3>5. \A u \in Threads : pc'[u] \in {"sigwait", "conswait"} => pc[u] = pc'[u]
      BY <3>1, <3>3
    <3>6. (loop \in {"datawait", "drainwait"} => ~pendingdata)'
      BY <3>4
    <3>7. (loop = "consumerwait" => ~waitingconsumed)'
      BY <3>2, <3>4
    <3>8. (\A u \in Threads : pc[u] = "sigwait" => ~waitingpending)'
      BY <3>2, <3>5
    <3>9. (\A u \in Threads : pc[u] = "conswait" => ~dataconsumed)'
      BY <3>2, <3>5
    <3>. QED
      BY ONLY <3>6, <3>7, <3>8, <3>9 DEF SleepersWait
  <2>2. CASE WaitSignal(t)
    <3>0. ~Deliver(t)
      <4>1. AfterSignal(t) # "sigwait"
        BY DEF AfterSignal
      <4>. QED
        BY <2>2, <4>1 DEF Deliver, WaitSignal, Goto
    <3>1. ~waitingpending /\ UNCHANGED consVars
      BY <1>8, <3>0 DEF Signal, DataSignal, SignalWoken
    <3>2. UNCHANGED <<loop, dataVars, consVars>>
      BY <2>2, <3>1 DEF WaitSignal
    <3>. QED
      BY <2>2, <3>1, <3>2 DEF WaitSignal, Goto
  <2>. QED
    BY <1>8, <2>1, <2>2 DEF Signal, DataSignal, SignalWoken
<1>9. ASSUME NEW t \in Threads, Consume(t) PROVE SleepersWait'
  <2>1. CASE ConsumedWait(t)
    BY <2>1 DEF ConsumedWait, WakeConsumerWait, Goto
  <2>2. CASE ConsumedWoken(t)
    BY <2>2 DEF ConsumedWoken, Goto
  <2>3. CASE ConsumedBroadcast(t)
    BY <2>3 DEF ConsumedBroadcast
  <2>. QED
    BY <1>9, <2>1, <2>2, <2>3 DEF Consume
<1>10. ASSUME NEW t \in Threads,
              Publish(t) \/ Leave(t) \/ StopLoop(t) \/ StopUnlock(t) \/ BeginEdit(t) \/ EndEdit(t)
                \/ Spurious(t)
       PROVE  SleepersWait'
  BY <1>10 DEF Publish, Leave, StopLoop, StopUnlock, BeginEdit, EndEdit, Spurious, Goto
<1>11. CASE UNCHANGED vars
  BY <1>11 DEF vars
<1>. QED
  BY <1>1, <1>2, <1>3, <1>4, <1>5, <1>6, <1>7, <1>8, <1>9, <1>10, <1>11
     DEF Next, LoopStep, ProducerStep, StopperStep, Threads

(* No wake-up is lost, with stoppers, joysticks and modules that end the loop. *)
THEOREM WakeUpsKept == Spec => []SleepersWait
<1>1. Init => SleepersWait
  BY DEF Init, SleepersWait
<1>. QED
  BY <1>1, SleepersStep, TypeCorrect, PTL DEF Spec

(* Who has which mutex, from where it is.  A stopper keeps _mutex from setting
   the flag to the return of its second dataSignal(). *)
LocksHeld ==
  /\ dataLock = Loop <=> loop \in {"lockgraph", "traverse"}
  /\ graphLock = Loop <=> loop = "traverse"
  /\ graphLock \notin Producers
  /\ \A t \in Editors : pc[t] \in {"work", "edit"} /\ (pc[t] = "edit" <=> graphLock = t)
  /\ \A t \in Stoppers :
       /\ pc[t] \in {"work", "signal", "sigwait", "sigwoken", "unlock", "exit"}
       /\ graphLock = t <=> pc[t] \in {"signal", "sigwait", "sigwoken", "unlock"}

LEMMA LocksStep == ASSUME TypeOK, LocksHeld, [Next]_vars PROVE LocksHeld'
<1>. USE ThreadAssumption DEF LocksHeld, TypeOK, lockVars, dataVars, consVars, ctlVars, restVars
<1>m. /\ \A t \in Editors : t \in Threads /\ t \notin Producers /\ t \notin Stoppers /\ t \notin Drivers
      /\ \A t \in Stoppers : t \in Threads /\ t \notin Producers /\ t \notin Drivers
      /\ \A t \in Producers : t \in Threads
      /\ Loop \notin Threads /\ Nobody \notin Threads /\ Nobody # Loop
  BY DEF Threads, Producers
<1>1. CASE Start
  BY <1>1, <1>m DEF Start
<1>2. CASE ResetConsumed \/ ResetData
  BY <1>2, <1>m DEF ResetConsumed, ResetData, Wake
<1>3. CASE FirstStop \/ Test \/ Close \/ Join \/ Finish
  BY <1>3 DEF FirstStop, Test, Close, Join, Finish
<1>4. CASE BeginTraverse \/ EndTraverse
  BY <1>4, <1>m DEF BeginTraverse, EndTraverse
<1>5. CASE WantData \/ DataWoken
  BY <1>5, <1>m DEF WantData, DataWoken, TakeOrWait, Wake
<1>6. CASE HandBack \/ ConsumerWoken
  BY <1>6, <1>m DEF HandBack, ConsumerWoken, TellOrWait, Wake
<1>7. CASE Drain \/ DrainWoken
  BY <1>7, <1>m DEF Drain, DrainWoken, DrainOrWait, Wake
<1>8. CASE SpuriousLoop
  BY <1>8 DEF SpuriousLoop
<1>9. ASSUME NEW t \in Producers \cup Stoppers, Signal(t) PROVE LocksHeld'
  <2>1. dataLock = Nobody /\ UNCHANGED lockVars /\ pc[t] \in {"signal", "sigwoken"} /\ t \in Threads
    BY <1>9, <1>m DEF Signal, DataSignal, SignalWoken
  <2>2. loop \notin {"lockgraph", "traverse"}
    BY <1>m, <2>1
  <2>3. CASE Deliver(t)
    <3>1. \A u \in Threads : pc'[u] = IF u = t THEN AfterSignal(t) ELSE pc[u]
      BY <2>3 DEF Deliver, Goto
    <3>2. loop' \notin {"lockgraph", "traverse"}
      BY <2>2, <2>3 DEF Deliver
    <3>3. t \in Stoppers => AfterSignal(t) \in {"signal", "unlock"}
      BY <1>m DEF AfterSignal, Producers, Drivers
    <3>. QED
      BY <1>m, <2>1, <2>2, <3>1, <3>2, <3>3
  <2>4. CASE WaitSignal(t)
    <3>1. \A u \in Threads : pc'[u] = IF u = t THEN "sigwait" ELSE pc[u]
      BY <2>4 DEF WaitSignal, Goto
    <3>. QED
      BY <1>m, <2>1, <2>4, <3>1 DEF WaitSignal
  <2>. QED
    BY <1>9, <2>3, <2>4 DEF Signal, DataSignal, SignalWoken
<1>10. ASSUME NEW t \in Producers, Consume(t) PROVE LocksHeld'
  <2>1. UNCHANGED lockVars /\ (loop' = loop \/ (loop = "consumerwait" /\ loop' = "consumerwoken"))
    BY <1>10 DEF Consume, ConsumedWait, ConsumedWoken, ConsumedBroadcast, WakeConsumerWait
  <2>2. \A u \in Editors \cup Stoppers : pc'[u] = pc[u]
    <3>. SUFFICES ASSUME NEW u \in Editors \cup Stoppers PROVE pc'[u] = pc[u]
      OBVIOUS
    <3>1. u \in Threads /\ u # t /\ pc[u] # "conswait"
      BY <1>m
    <3>. QED
      BY <1>10, <3>1 DEF Consume, ConsumedWait, ConsumedWoken, ConsumedBroadcast, Goto
  <2>. QED
    BY <2>1, <2>2
<1>11. ASSUME NEW t \in Producers, Publish(t) \/ Leave(t) PROVE LocksHeld'
  BY <1>11, <1>m DEF Publish, Leave, Goto
<1>12. ASSUME NEW t \in Stoppers, StopLoop(t) \/ StopUnlock(t) PROVE LocksHeld'
  BY <1>12, <1>m DEF StopLoop, StopUnlock, Goto
<1>13. ASSUME NEW t \in Editors, BeginEdit(t) \/ EndEdit(t) PROVE LocksHeld'
  BY <1>13, <1>m DEF BeginEdit, EndEdit, Goto
<1>14. ASSUME NEW t \in Threads, Spurious(t) PROVE LocksHeld'
  BY <1>14, <1>m DEF Spurious, Goto
<1>15. CASE UNCHANGED vars
  BY <1>15 DEF vars
<1>. QED
  BY <1>1, <1>2, <1>3, <1>4, <1>5, <1>6, <1>7, <1>8, <1>9, <1>10, <1>11, <1>12, <1>13, <1>14, <1>15
     DEF Next, LoopStep, ProducerStep, StopperStep

LEMMA LocksInvariant == Spec => []LocksHeld
<1>1. Init => LocksHeld
  BY ThreadAssumption DEF Init, LocksHeld, Threads, Producers
<1>. QED
  BY <1>1, LocksStep, TypeCorrect, PTL DEF Spec

(* The graph is not edited while it is traversed, and by one thread at a time. *)
GraphExclusive ==
  /\ loop = "traverse" => \A t \in Editors : pc[t] # "edit"
  /\ \A t, u \in Editors : pc[t] = "edit" /\ pc[u] = "edit" => t = u

(* lock() and unlock() keep the traversal and every number of editors apart,
   stopLoop(), which leaves with the lock in between, included. *)
THEOREM EditsExclude == Spec => []GraphExclusive
<1>1. LocksHeld => GraphExclusive
  BY ThreadAssumption DEF LocksHeld, GraphExclusive, Threads
<1>. QED
  BY <1>1, LocksInvariant, PTL

-----------------------------------------------------------------------------
(* Only producers and stoppers signal, and a stopper that has signalled is past
   the beginning of stopLoop(). *)
SignalledBy ==
  /\ unseen \subseteq Producers \cup Stoppers
  /\ \A t \in unseen \cap Stoppers : pc[t] # "work"

LEMMA SignalledStep ==
  ASSUME TypeOK, SignalledBy, [Next]_vars
  PROVE  SignalledBy'
<1>. USE ThreadAssumption DEF SignalledBy, TypeOK, lockVars, dataVars, consVars, ctlVars, restVars
<1>m. /\ \A t \in Stoppers : t \in Threads /\ t \notin Producers /\ t \notin Drivers
      /\ Producers \subseteq Threads
      /\ \A t \in Editors : t \in Threads /\ t \notin Producers /\ t \notin Stoppers
  BY DEF Threads, Producers
<1>1. CASE Start
  BY <1>1, <1>m DEF Start
<1>2. CASE ResetConsumed \/ ResetData \/ FirstStop \/ Test
  BY <1>2, <1>m DEF ResetConsumed, ResetData, FirstStop, Test, Wake
<1>3. CASE WantData \/ DataWoken \/ BeginTraverse \/ EndTraverse
  BY <1>3, <1>m DEF WantData, DataWoken, BeginTraverse, EndTraverse, Wake
<1>4. CASE HandBack \/ ConsumerWoken
  BY <1>4, <1>m DEF HandBack, ConsumerWoken, TellOrWait, Wake
<1>5. CASE Drain \/ DrainWoken \/ Close \/ Join \/ Finish \/ SpuriousLoop
  BY <1>5, <1>m DEF Drain, DrainWoken, Close, Join, Finish, SpuriousLoop, Wake
<1>6. ASSUME NEW t \in Producers \cup Stoppers, Signal(t) PROVE SignalledBy'
  <2>1. CASE Deliver(t)
    <3>1. AfterSignal(t) # "work"
      BY DEF AfterSignal
    <3>2. /\ unseen' = unseen \cup {t}
          /\ \A u \in Threads : pc'[u] = IF u = t THEN AfterSignal(t) ELSE pc[u]
      BY <2>1 DEF Deliver, Goto
    <3>. QED
      BY <1>m, <3>1, <3>2
  <2>2. CASE WaitSignal(t)
    BY <1>m, <2>2 DEF WaitSignal, Goto
  <2>. QED
    BY <1>6, <2>1, <2>2 DEF Signal, DataSignal, SignalWoken
<1>7. ASSUME NEW t \in Producers, Publish(t) \/ Leave(t) \/ Consume(t) PROVE SignalledBy'
  <2>1. \A u \in Stoppers : pc'[u] = "work" => pc[u] = "work"
    <3>. SUFFICES ASSUME NEW u \in Stoppers, pc'[u] = "work" PROVE pc[u] = "work"
      OBVIOUS
    <3>1. u \in Threads /\ u # t
      BY <1>m
    <3>2. CASE Publish(t) \/ Leave(t)
      BY <3>1, <3>2 DEF Publish, Leave, Goto
    <3>3. CASE Consume(t)
      BY <3>1, <3>3 DEF Consume, ConsumedWait, ConsumedWoken, ConsumedBroadcast, Goto
    <3>. QED
      BY <1>7, <3>2, <3>3
  <2>2. unseen' = unseen
    BY <1>7 DEF Publish, Leave, Consume, ConsumedWait, ConsumedWoken, ConsumedBroadcast
  <2>. QED
    BY <2>1, <2>2
<1>8. ASSUME NEW t \in Stoppers, StopLoop(t) \/ StopUnlock(t) PROVE SignalledBy'
  BY <1>8, <1>m DEF StopLoop, StopUnlock, Goto
<1>9. ASSUME NEW t \in Editors, BeginEdit(t) \/ EndEdit(t) PROVE SignalledBy'
  BY <1>9, <1>m DEF BeginEdit, EndEdit, Goto
<1>10. ASSUME NEW t \in Threads, Spurious(t) PROVE SignalledBy'
  BY <1>10, <1>m DEF Spurious, Goto
<1>11. CASE UNCHANGED vars
  BY <1>11 DEF vars
<1>. QED
  BY <1>1, <1>2, <1>3, <1>4, <1>5, <1>6, <1>7, <1>8, <1>9, <1>10, <1>11
     DEF Next, LoopStep, ProducerStep, StopperStep

(* A traversal begins only with the datum of a producer, or after a stopLoop()
   that has returned since the last one: it keeps _mutex until both its signals
   are given, so that one call cannot bring about two traversals.  With any
   number of producers and stoppers, over any number of runs. *)
THEOREM DataTraversed == Spec => TraversalNeedsData
<1>1. Init => DatumInv /\ SignalledBy
  BY DEF Init, DatumInv, SignalledBy
<1>2. TypeOK /\ LocksHeld /\ DatumInv /\ SignalledBy /\ [Next]_vars =>
        [loop # "traverse" /\ loop' = "traverse" =>
           \/ unseen \cap Producers # {}
           \/ \E t \in Stoppers : t \in unseen /\ pc[t] = "exit"]_vars
  <2>. SUFFICES ASSUME LocksHeld, DatumInv, SignalledBy, Next, loop # "traverse", loop' = "traverse",
                       unseen \cap Producers = {}
                PROVE  \E t \in Stoppers : t \in unseen /\ pc[t] = "exit"
    BY DEF vars
  <2>1. loop = "lockgraph" /\ graphLock = Nobody
    BY DEF Next, LoopStep, ProducerStep, StopperStep, Signal, Consume, Start, ResetConsumed,
           ResetData, FirstStop, Test, WantData, DataWoken, TakeOrWait, BeginTraverse, EndTraverse,
           HandBack, ConsumerWoken, TellOrWait, Drain, DrainWoken, DrainOrWait, Close, Join, Finish,
           Publish, Leave, DataSignal, SignalWoken, Deliver, WaitSignal, ConsumedWait,
           ConsumedWoken, ConsumedBroadcast, WakeConsumerWait, StopLoop, StopUnlock, BeginEdit,
           EndEdit, Spurious, SpuriousLoop
  <2>2. PICK t \in unseen : t \in Stoppers
    BY <2>1 DEF DatumInv, SignalledBy
  <2>3. pc[t] # "work" /\ graphLock # t
    BY <2>1, <2>2, ThreadAssumption DEF SignalledBy, Threads
  <2>. QED
    BY <2>2, <2>3 DEF LocksHeld
<1>3. TypeOK /\ DatumInv /\ SignalledBy /\ [Next]_vars => (DatumInv /\ SignalledBy)'
  BY DatumStep, SignalledStep
<1>. QED
  BY <1>1, <1>2, <1>3, TypeCorrect, LocksInvariant, PTL DEF Spec, TraversalNeedsData
-----------------------------------------------------------------------------
(* A stopper that has _mutex and has not delivered its datum, and the loop with
   a datum in its hand, which has _havedatamutex. *)
Crossed ==
  loop = "lockgraph" /\ \E t \in Stoppers : pc[t] \in {"signal", "sigwait", "sigwoken"}

(* Context.cxx: stopLoop() calls dataSignal() with _mutex held, and the loop
   locks _mutex with _havedatamutex held.  Where the two meet neither ever goes
   on, whatever the other threads do: the counterexample of the run stoploop is
   a deadlock for any number of threads. *)
THEOREM CrossedForEver == Spec => [][Crossed => Crossed']_vars
<1>1. TypeOK /\ LocksHeld /\ [Next]_vars => [Crossed => Crossed']_vars
  <2>. SUFFICES ASSUME TypeOK, LocksHeld, Next, loop = "lockgraph",
                       NEW s \in Stoppers, pc[s] \in {"signal", "sigwait", "sigwoken"}
                PROVE  loop' = "lockgraph" /\ pc'[s] \in {"signal", "sigwait", "sigwoken"}
    BY DEF Crossed, vars
  <2>1. /\ dataLock = Loop /\ graphLock = s /\ s \in Threads /\ s \notin Producers \cup Editors
        /\ Loop # Nobody /\ s # Nobody
    BY ThreadAssumption DEF LocksHeld, Threads
  <2>. USE <2>1 DEF TypeOK
  <2>2. ~Start /\ ~LoopStep
    BY DEF Start, LoopStep, ResetConsumed, ResetData, FirstStop, Test, WantData, DataWoken,
           BeginTraverse, EndTraverse, HandBack, ConsumerWoken, Drain, DrainWoken, Close, Join,
           Finish
  <2>3. ~SpuriousLoop
    BY DEF SpuriousLoop
  <2>4. ASSUME NEW t \in Producers, ProducerStep(t)
        PROVE  loop' = "lockgraph" /\ pc'[s] \in {"signal", "sigwait", "sigwoken"}
    <3>1. ~Signal(t)
      BY DEF Signal, DataSignal, SignalWoken
    <3>2. CASE Publish(t) \/ Leave(t)
      BY <3>2 DEF Publish, Leave, Goto
    <3>3. CASE Consume(t)
      BY <3>3 DEF Consume, ConsumedWait, ConsumedWoken, ConsumedBroadcast, WakeConsumerWait, Goto
    <3>. QED
      BY <2>4, <3>1, <3>2, <3>3 DEF ProducerStep
  <2>5. ASSUME NEW t \in Stoppers, StopLoop(t) \/ StopperStep(t)
        PROVE  loop' = "lockgraph" /\ pc'[s] \in {"signal", "sigwait", "sigwoken"}
    <3>1. ~StopLoop(t) /\ ~Signal(t)
      BY DEF StopLoop, Signal, DataSignal, SignalWoken
    <3>2. CASE StopUnlock(t)
      <4>1. graphLock = t
        BY <3>2 DEF StopUnlock, LocksHeld
      <4>. QED
        BY <3>2, <4>1 DEF StopUnlock
    <3>. QED
      BY <2>5, <3>1, <3>2 DEF StopperStep
  <2>6. ASSUME NEW t \in Editors, BeginEdit(t) \/ EndEdit(t)
        PROVE  loop' = "lockgraph" /\ pc'[s] \in {"signal", "sigwait", "sigwoken"}
    BY <2>6 DEF BeginEdit, EndEdit, Goto
  <2>7. ASSUME NEW t \in Threads, Spurious(t)
        PROVE  loop' = "lockgraph" /\ pc'[s] \in {"signal", "sigwait", "sigwoken"}
    BY <2>7 DEF Spurious, Goto
  <2>. QED
    BY <2>2, <2>3, <2>4, <2>5, <2>6, <2>7 DEF Next
<1>. QED
  BY <1>1, LocksInvariant, TypeCorrect, PTL DEF Spec
-----------------------------------------------------------------------------
(* The loop sleeps in the drain, every driver has left and every stopLoop() has
   been made. *)
Hopeless == Deserted /\ ~pendingdata /\ \A t \in Stoppers : pc[t] = "exit"

(* The first of the two ways to hang that StoppedLoopReturns names is for ever:
   runOnDemand() waits in its drain (Context.cxx:570-582) for a datum nobody is
   left to signal, for any number of drivers that kept stop = 1 from the run
   before, and any number of editors. *)
THEOREM DesertedForEver == Spec => [][Hopeless => Hopeless']_vars
<1>1. TypeOK /\ [Next]_vars => [Hopeless => Hopeless']_vars
  <2>. SUFFICES ASSUME TypeOK, Next, Hopeless PROVE Hopeless'
    OBVIOUS
  <2>. USE ThreadAssumption DEF Hopeless, Deserted, TypeOK
  <2>m. /\ Stoppers \subseteq Threads /\ Drivers \subseteq Threads
        /\ \A t \in Editors : t \in Threads /\ t \notin Drivers /\ t \notin Stoppers
    BY DEF Threads, Producers
  <2>1. CASE Start \/ LoopStep
    <3>1. DrainWoken
      BY <2>1 DEF Start, LoopStep, ResetConsumed, ResetData, FirstStop, Test, WantData, DataWoken,
             BeginTraverse, EndTraverse, HandBack, ConsumerWoken, Drain, Close, Join, Finish
    <3>. QED
      BY <3>1 DEF DrainWoken, DrainOrWait
  <2>2. CASE SpuriousLoop
    BY <2>2 DEF SpuriousLoop, dataVars
  <2>3. ASSUME NEW t \in Drivers \cup Stoppers,
               ProducerStep(t) \/ StopLoop(t) \/ StopperStep(t) \/ Spurious(t)
        PROVE  FALSE
    BY <2>3 DEF ProducerStep, StopLoop, StopperStep, Publish, Leave, Signal, DataSignal,
           SignalWoken, Consume, ConsumedWait, ConsumedWoken, ConsumedBroadcast, StopUnlock, Spurious
  <2>4. ASSUME NEW t \in Editors, BeginEdit(t) \/ EndEdit(t) \/ Spurious(t) PROVE Hopeless'
    BY <2>4, <2>m DEF BeginEdit, EndEdit, Spurious, Goto, dataVars
  <2>. QED
    BY <2>1, <2>2, <2>3, <2>4 DEF Next, Producers, Threads
<1>. QED
  BY <1>1, TypeCorrect, PTL DEF Spec
=============================================================================
