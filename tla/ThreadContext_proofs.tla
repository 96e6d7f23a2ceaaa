------------------------- MODULE ThreadContext_proofs -------------------------
(***************************************************************************)
(* Proofs about ThreadContext, for any set of clients and of threads that  *)
(* call Context::stopLoop(): no call is forgotten, what the destructor     *)
(* relies on, and the hang of its stopLoop(), which nothing ends.          *)
(***************************************************************************)
EXTENDS ThreadContext, TLAPS

LoopSteps == Turn \/ EndLoop \/ ResetFlag
DispatcherSteps == Take \/ Read \/ Enter \/ LeaveLoop \/ SignalEnd

(* Every variable keeps its type, in particular the dispatcher, the stoppers
   and the destructor are always at one of their places. *)
THEOREM TypeCorrect == Spec => []TypeOK
<1>1. Init => TypeOK
  BY DEF Init, TypeOK, Actions, Loops, Places
<1>2. TypeOK /\ [Next]_vars => TypeOK'
  <2>. SUFFICES ASSUME TypeOK, [Next]_vars PROVE TypeOK'
    OBVIOUS
  <2>. USE DEF TypeOK, callVars, stopVars, dispVars, Actions, Loops, Places
  <2>1. ASSUME NEW c \in Clients, Signal(c) PROVE TypeOK'
    BY <2>1 DEF Signal
  <2>2. ASSUME NEW c \in Clients, NEW action \in Actions \ {"QUIT"}, Call(c, action)
        PROVE  TypeOK'
    BY <2>2 DEF Call
  <2>3. ASSUME NEW k \in Stoppers, StopLock(k) PROVE TypeOK'
    BY <2>3 DEF StopLock
  <2>4a. ASSUME NEW k \in Stoppers, StopSignal(k) PROVE TypeOK'
    <3>1. PICK p \in {"second", "unlock"} : stopping' = [stopping EXCEPT ![k] = p]
      BY <2>4a DEF StopSignal
    <3>2. waitingpending' \in BOOLEAN
      BY <2>4a DEF StopSignal
    <3>. QED
      BY <2>4a, <3>1, <3>2 DEF StopSignal
  <2>4b. ASSUME NEW k \in Stoppers, StopUnlock(k) PROVE TypeOK'
    <3>1. PICK p \in {"no", "done"} : stopping' = [stopping EXCEPT ![k] = p]
      BY <2>4b DEF StopUnlock
    <3>2. at' \in Places
      BY <2>4b DEF StopUnlock
    <3>3. /\ graphLock' = "nobody"
          /\ UNCHANGED <<callVars, stoploopflag, waitingpending, loopend_cond_val, inloop,
                         locactiontype, dying>>
      BY <2>4b DEF StopUnlock
    <3>. QED
      BY <3>1, <3>2, <3>3
  <2>5. CASE ProducerSignal
    <3>1. /\ waitingpending' \in BOOLEAN
          /\ UNCHANGED <<action_type, action_cond_val, calling, stoploopflag, graphLock, stopping,
                         loopend_cond_val, inloop, at, locactiontype, dying>>
      BY <2>5 DEF ProducerSignal
    <3>. QED
      BY ONLY TypeOK, <3>1 DEF TypeOK
  <2>6. CASE DispatcherSteps
    BY <2>6 DEF DispatcherSteps, Take, Read, Enter, Entered, LeaveLoop, SignalEnd
  <2>7. CASE LoopSteps
    BY <2>7 DEF LoopSteps, Turn, NextTurn, LockGraph, EndTurn, Drain, EndLoop, ResetFlag, Stoppers
  <2>8. CASE Mark \/ TestLoop \/ AwaitEnd
    BY <2>8 DEF Mark, TestLoop, AwaitEnd
  <2>9. CASE UNCHANGED vars
    BY <2>9 DEF vars
  <2>. QED
    BY ONLY [Next]_vars, <2>1, <2>2, <2>3, <2>4a, <2>4b, <2>5, <2>6, <2>7, <2>8, <2>9
       DEF Next, StopStep, Dispatcher, DispatcherSteps, LoopSteps, Destructor
<1>. QED
  BY <1>1, <1>2, PTL DEF Spec

(* Who has _mutex, from where it is; and the dispatcher, which may have it for
   a turn of its loop or for stopLoop(), is in one of them at a time. *)
StopLocked == {k \in Stoppers : stopping[k] \in {"first", "second", "unlock"}}
LocksHeld ==
  /\ \A k \in StopLocked : graphLock = k
  /\ graphLock = "dispatcher" => at \in {"stop", "turn"}
  /\ at = "turn" => graphLock = "dispatcher"
  /\ stopping["dispatcher"] # "no" => at = "stop" /\ stopping["dispatcher"] # "done"
  /\ at \in {"loop", "lock", "turn", "drain"} => locactiontype \in Loops
  /\ at = "drain" => locactiontype = "DEMAND"
  /\ at = "stop" => locactiontype = "STOP"
  /\ graphLock \in StopLocked \cup {"nobody", "dispatcher"}
  /\ graphLock = "dispatcher" /\ at = "stop" => "dispatcher" \in StopLocked

LEMMA LocksInvariant == Spec => []LocksHeld
<1>. USE HandlerAssumption DEF LocksHeld, StopLocked, TypeOK, callVars, stopVars, dispVars
<1>1. Init => LocksHeld
  BY DEF Init, Stoppers
<1>2. TypeOK /\ LocksHeld /\ [Next]_vars => LocksHeld'
  <2>. SUFFICES ASSUME TypeOK, LocksHeld, [Next]_vars PROVE LocksHeld'
    OBVIOUS
  <2>m. "dispatcher" \in Stoppers /\ "nobody" \notin Stoppers
    BY DEF Stoppers
  <2>1. ASSUME NEW c \in Clients, Signal(c) \/ \E action \in Actions \ {"QUIT"} : Call(c, action)
        PROVE  LocksHeld'
    BY <2>1 DEF Signal, Call
  <2>2. ASSUME NEW k \in Stoppers, StopLock(k) PROVE LocksHeld'
    BY <2>2, <2>m DEF StopLock, MayStop
  <2>3. ASSUME NEW k \in Stoppers, StopSignal(k) PROVE LocksHeld'
    <3>1. PICK p \in {"second", "unlock"} : stopping' = [stopping EXCEPT ![k] = p]
      BY <2>3 DEF StopSignal
    <3>2. k \in StopLocked /\ StopLocked' = StopLocked /\ UNCHANGED <<graphLock, at, locactiontype>>
      BY <2>3, <3>1 DEF StopSignal
    <3>3. stopping'["dispatcher"] # "no" => at = "stop" /\ stopping'["dispatcher"] # "done"
      BY <2>m, <3>1, <3>2
    <3>. QED
      BY <3>2, <3>3 DEF LocksHeld
  <2>4. ASSUME NEW k \in Stoppers, StopUnlock(k) PROVE LocksHeld'
    BY <2>4, <2>m DEF StopUnlock
  <2>5. CASE ProducerSignal
    BY <2>5 DEF ProducerSignal
  <2>6. CASE DispatcherSteps
    BY <2>6, <2>m DEF DispatcherSteps, Take, Read, Enter, Entered, LeaveLoop, SignalEnd
  <2>7. CASE LoopSteps
    BY <2>7, <2>m DEF LoopSteps, Turn, NextTurn, LockGraph, EndTurn, Drain, EndLoop, ResetFlag
  <2>8. CASE Mark \/ TestLoop \/ AwaitEnd
    BY <2>8 DEF Mark, TestLoop, AwaitEnd
  <2>9. CASE UNCHANGED vars
    BY <2>9 DEF vars
  <2>. QED
    BY ONLY [Next]_vars, <2>1, <2>2, <2>3, <2>4, <2>5, <2>6, <2>7, <2>8, <2>9
       DEF Next, StopStep, Dispatcher, DispatcherSteps, LoopSteps, Destructor
<1>. QED
  BY <1>1, <1>2, TypeCorrect, PTL DEF Spec

(* The dispatcher takes the flag and reads the action in two steps, and
   clients leave an action and raise the flag in two steps: in no interleaving,
   of however many clients, is the last call forgotten.  The invariant is
   inductive: whoever leaves an action is in calling until the flag is up, and
   the flag only comes down on the way to the read. *)
THEOREM CallsKept == Spec => []NoCallForgotten
<1>1. Init => NoCallForgotten
  BY DEF Init, NoCallForgotten
<1>2. TypeOK /\ LocksHeld /\ NoCallForgotten /\ [Next]_vars => NoCallForgotten'
  <2>. SUFFICES ASSUME TypeOK, LocksHeld, NoCallForgotten, [Next]_vars PROVE NoCallForgotten'
    OBVIOUS
  <2>. USE DEF NoCallForgotten, callVars, dispVars
  <2>1. ASSUME NEW c \in Clients, Signal(c) PROVE NoCallForgotten'
    BY <2>1 DEF Signal
  <2>2. ASSUME NEW c \in Clients, NEW action \in Actions \ {"QUIT"}, Call(c, action)
        PROVE  NoCallForgotten'
    <3>1. c \in calling'
      BY <2>2 DEF Call
    <3>. QED
      BY <3>1
  <2>3. ASSUME NEW k \in Stoppers, StopLock(k) \/ StopStep(k) PROVE NoCallForgotten'
    <3>1. UNCHANGED <<callVars, dying, locactiontype>> /\ (at' = at \/ at' = "end")
      BY <2>3 DEF StopLock, StopStep, StopSignal, StopUnlock
    <3>2. at' = "read" <=> at = "read"
      BY <2>3, <3>1 DEF StopLock, StopStep, StopSignal, StopUnlock, LocksHeld
    <3>. QED
      BY <3>1, <3>2
  <2>4. CASE ProducerSignal
    BY <2>4 DEF ProducerSignal
  <2>5. CASE Take \/ Read
    BY <2>5 DEF Take, Read
  <2>6. CASE Enter \/ LeaveLoop \/ SignalEnd
    BY <2>6 DEF Enter, Entered, LeaveLoop, SignalEnd
  <2>7. CASE LoopSteps
    BY <2>7 DEF LoopSteps, Turn, NextTurn, LockGraph, EndTurn, Drain, EndLoop, ResetFlag
  <2>8. CASE Mark \/ TestLoop \/ AwaitEnd
    BY <2>8 DEF Mark, TestLoop, AwaitEnd
  <2>9. CASE UNCHANGED vars
    BY <2>9 DEF vars
  <2>. QED
    BY <2>1, <2>2, <2>3, <2>4, <2>5, <2>6, <2>7, <2>8, <2>9
       DEF Next, Dispatcher, LoopSteps, Destructor
<1>. QED
  BY <1>1, <1>2, TypeCorrect, LocksInvariant, PTL DEF Spec
-----------------------------------------------------------------------------
(* What the destructor relies on (ThreadContext.cxx:111-125).  From the moment
   its stopLoop() has set the flag, a loop that is on, or about to begin, has
   the flag until it resets it; and while the destructor waits for the end of a
   loop, that end is signalled already or the dispatcher is on its way to it. *)
FlagKept ==
  stopping["destructor"] # "no" /\ locactiontype \in Loops
    /\ at \in {"enter", "loop", "lock", "turn", "drain"}
  => stoploopflag
EndComes ==
  dying = "waiting" =>
    loopend_cond_val \/ at \in {"stop", "loop", "lock", "turn", "drain", "reset", "end", "signal"}

(* Its stopLoop() sleeps in dataSignal() only if the loop has reset the flag:
   no loop is on then, and none will begin. *)
SleepsAfterLoop ==
  Asleep("destructor") =>
    at \in {"wait", "read", "reset", "end", "signal", "gone"} \/ locactiontype \in {"STOP", "QUIT"}
DestructorSafe == FlagKept /\ EndComes /\ SleepsAfterLoop

(* Nobody leaves an action once the destructor has left QUIT, so that no loop
   is read after it; inloop is up exactly from the begin of an action to its
   end. *)
DestructorInv ==
  /\ FlagKept /\ EndComes
  /\ dying # "no" => action_type = "QUIT"
  /\ stopping["destructor"] # "no" => dying # "no"
  /\ inloop <=> at \in {"stop", "loop", "lock", "turn", "drain", "reset", "end"}

LEMMA DestructorStep ==
  ASSUME TypeOK, LocksHeld, DestructorInv, [Next]_vars
  PROVE  DestructorInv'
<1>. USE HandlerAssumption
     DEF DestructorInv, FlagKept, EndComes, TypeOK, callVars, stopVars, dispVars
<1>m. "dispatcher" \in Stoppers /\ "destructor" \in Stoppers
  BY DEF Stoppers
<1>1. ASSUME NEW c \in Clients, Signal(c) \/ \E action \in Actions \ {"QUIT"} : Call(c, action)
      PROVE  DestructorInv'
  BY <1>1 DEF Signal, Call
<1>2. ASSUME NEW k \in Stoppers, StopLock(k) PROVE DestructorInv'
  BY <1>2, <1>m DEF StopLock, MayStop
<1>3. ASSUME NEW k \in Stoppers, StopSignal(k) PROVE DestructorInv'
  <2>1. PICK p \in {"second", "unlock"} : stopping' = [stopping EXCEPT ![k] = p]
    BY <1>3 DEF StopSignal
  <2>2. stopping'["destructor"] # "no" <=> stopping["destructor"] # "no"
    BY <1>3, <1>m, <2>1 DEF StopSignal
  <2>. QED
    BY <1>3, <2>2 DEF StopSignal
<1>4. ASSUME NEW k \in Stoppers, StopUnlock(k) PROVE DestructorInv'
  <2>1. stopping'["destructor"] # "no" <=> stopping["destructor"] # "no"
    BY <1>4, <1>m DEF StopUnlock
  <2>2. k = "dispatcher" => at = "stop"
    BY <1>4 DEF StopUnlock, LocksHeld
  <2>. QED
    BY <1>4, <2>1, <2>2 DEF StopUnlock
<1>5. CASE ProducerSignal
  BY <1>5 DEF ProducerSignal
<1>6. CASE Take \/ Read
  BY <1>6 DEF Take, Read, Loops
<1>7. CASE Enter
  BY <1>7 DEF Enter, Entered
<1>8. CASE LeaveLoop \/ SignalEnd
  BY <1>8 DEF LeaveLoop, SignalEnd
<1>9. CASE LoopSteps
  BY <1>9 DEF LoopSteps, Turn, NextTurn, LockGraph, EndTurn, Drain, EndLoop, ResetFlag
<1>10. CASE Mark \/ TestLoop \/ AwaitEnd
  BY <1>10 DEF Mark, TestLoop, AwaitEnd
<1>11. CASE UNCHANGED vars
  BY <1>11 DEF vars
<1>. QED
  BY ONLY [Next]_vars, <1>1, <1>2, <1>3, <1>4, <1>5, <1>6, <1>7, <1>8, <1>9, <1>10, <1>11
     DEF Next, StopStep, Dispatcher, LoopSteps, Destructor

(* Whatever the destructor meets (a loop that is about to begin, that is on, or
   that is just resetting the flag), no loop runs on without the flag, it waits
   for no end of a loop that is already past, and its stopLoop() can only sleep
   because the loop it was to end has ended: the safety half of
   DestructorPasses. *)
THEOREM DestructorSafety == Spec => []DestructorSafe
<1>1. Init => DestructorInv
  BY DEF Init, DestructorInv, FlagKept, EndComes, Stoppers
<1>2. TypeOK /\ LocksHeld /\ DestructorInv => DestructorSafe
  <2>. SUFFICES ASSUME TypeOK, LocksHeld, DestructorInv, Asleep("destructor")
                PROVE  SleepsAfterLoop
    BY DEF DestructorSafe, DestructorInv, SleepsAfterLoop
  <2>1. ~stoploopflag /\ stopping["destructor"] # "no"
    BY DEF Asleep
  <2>2. locactiontype \in Actions /\ at \in Places
    BY DEF TypeOK
  <2>3. at = "stop" => locactiontype = "STOP"
    BY DEF LocksHeld
  <2>. QED
    BY <2>1, <2>2, <2>3 DEF DestructorInv, FlagKept, SleepsAfterLoop, Actions, Loops, Places
<1>3. TypeOK /\ LocksHeld /\ DestructorInv /\ [Next]_vars => DestructorInv'
  BY DestructorStep
<1>. QED
  BY <1>1, <1>2, <1>3, TypeCorrect, LocksInvariant, PTL DEF Spec
-----------------------------------------------------------------------------
(* The destructor sleeps in the dataSignal() of its stopLoop(), and no
   runOnDemand is on that could still want a datum. *)
Lost ==
  /\ dying = "marked" /\ Asleep("destructor")
  /\ locactiontype = "DEMAND" => at \notin {"enter", "loop", "lock", "turn", "drain"}

(* Once asleep the destructor never wakes: it has _mutex, so that nobody sets
   the flag again, and QUIT is the action, so that no loop begins.  The
   exception of DestructorPasses is a hang for ever, for any number of clients
   and of other callers of stopLoop(). *)
THEOREM DestructorHangs == Spec => [][Lost => Lost']_vars
<1>1. TypeOK /\ LocksHeld /\ DestructorInv /\ [Next]_vars => [Lost => Lost']_vars
  <2>. SUFFICES ASSUME TypeOK, LocksHeld, DestructorInv, Next, Lost PROVE Lost'
    BY DEF vars
  <2>. USE HandlerAssumption DEF Lost, Asleep, callVars, stopVars, dispVars
  <2>m. /\ "destructor" \in Stoppers /\ graphLock = "destructor" /\ action_type = "QUIT"
        /\ at \notin {"turn", "drain"}
    BY DEF Stoppers, LocksHeld, StopLocked, DestructorInv
  <2>1. ASSUME NEW c \in Clients, Signal(c) \/ \E action \in Actions \ {"QUIT"} : Call(c, action)
        PROVE  Lost'
    BY <2>1 DEF Signal, Call
  <2>2. ASSUME NEW k \in Stoppers, StopLock(k) \/ StopStep(k) PROVE FALSE
    <3>1. k = "destructor"
      BY <2>2, <2>m DEF StopLock, StopStep, StopSignal, StopUnlock, LocksHeld, StopLocked
    <3>. QED
      BY <2>2, <2>m, <3>1 DEF StopLock, StopStep, StopSignal, StopUnlock
  <2>3. ~ProducerSignal
    BY DEF ProducerSignal
  <2>4. CASE DispatcherSteps
    <3>1. CASE Take \/ LeaveLoop \/ SignalEnd
      BY <3>1 DEF Take, LeaveLoop, SignalEnd
    <3>2. CASE Read
      BY <3>2, <2>m DEF Read
    <3>3. CASE Enter
      BY <3>3 DEF Enter
    <3>. QED
      BY <2>4, <3>1, <3>2, <3>3 DEF DispatcherSteps
  <2>5. CASE LoopSteps
    <3>1. CASE NextTurn
      <4>1. locactiontype # "DEMAND" /\ ~waitingpending'
        BY <3>1 DEF NextTurn
      <4>. QED
        BY <3>1, <4>1 DEF NextTurn
    <3>2. CASE EndLoop
      BY <3>2 DEF EndLoop
    <3>3. CASE ResetFlag
      BY <3>3 DEF ResetFlag
    <3>4. ~LockGraph /\ ~EndTurn /\ ~Drain
      BY <2>m DEF LockGraph, EndTurn, Drain
    <3>. QED
      BY ONLY <2>5, <3>1, <3>2, <3>3, <3>4 DEF LoopSteps, Turn
  <2>6. ~Destructor
    BY DEF Destructor, Mark, TestLoop, AwaitEnd
  <2>. QED
    BY ONLY Next, <2>1, <2>2, <2>3, <2>4, <2>5, <2>6
       DEF Next, Dispatcher, DispatcherSteps, LoopSteps
<1>2. Init => DestructorInv
  BY DEF Init, DestructorInv, FlagKept, EndComes, Stoppers
<1>3. TypeOK /\ LocksHeld /\ DestructorInv /\ [Next]_vars => DestructorInv'
  BY DestructorStep
<1>. QED
  BY <1>1, <1>2, <1>3, TypeCorrect, LocksInvariant, PTL DEF Spec
=============================================================================
