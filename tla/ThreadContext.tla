---------------------------- MODULE ThreadContext ----------------------------
(***************************************************************************)
(* OpenTracker's ThreadContext (core/ThreadContext.cxx): a thread of its   *)
(* own, the dispatcher, runs the main loops of the context.  A call of     *)
(* run(), runAtRate(), runOnDemand() or stopLoop() leaves an action and    *)
(* returns; the dispatcher takes it when it is between two loops.  The     *)
(* destructor asks the dispatcher to quit and waits for the loop to end.   *)
(* Context::stopLoop() is not virtual: whoever holds a Context (a signal   *)
(* handler, the destructor) calls it, and so does the dispatcher for STOP. *)
(* It keeps _mutex while it sets the flag and signals two data.            *)
(*                                                                         *)
(* thread_mutex guards one assignment at a time and each condition is      *)
(* tested again in a loop: a wait is a guard on its flag.                  *)
(***************************************************************************)
CONSTANTS
  Clients,    \* the threads that use the context
  Handlers    \* the threads or signal handlers that call Context::stopLoop() once

ASSUME HandlerAssumption == Handlers \cap {"dispatcher", "destructor", "nobody"} = {}

Loops == {"POLL", "RATE", "DEMAND"}     \* run, runAtRate, runOnDemand
Actions == Loops \cup {"STOP", "QUIT"}
Stoppers == Handlers \cup {"dispatcher", "destructor"}

VARIABLES
  action_type,        \* the action left by the last call
  action_cond_val,    \* an action waits to be taken
  loopend_cond_val,   \* a loop has ended
  inloop,             \* the dispatcher carries out an action
  stoploopflag,       \* Context::stoploopflag
  waitingpending,     \* Context::waitingpending: runOnDemand wants a datum
  graphLock,          \* the holder of Context::_mutex
  stopping,           \* where each stopper is in Context::stopLoop
  at,                 \* where the dispatcher is
  locactiontype,      \* the action it took last
  calling,            \* the clients that have left an action and not signalled it
  dying               \* where the destructor is

callVars == <<action_type, action_cond_val, calling>>
stopVars == <<stoploopflag, waitingpending, graphLock, stopping>>
dispVars == <<loopend_cond_val, inloop, at, locactiontype>>
vars == <<callVars, stopVars, dispVars, dying>>

Places == {"wait", "read", "enter", "stop", "loop", "lock", "turn", "drain", "reset",
           "end", "signal", "gone"}

TypeOK ==
  /\ action_type \in Actions /\ locactiontype \in Actions
  /\ action_cond_val \in BOOLEAN /\ loopend_cond_val \in BOOLEAN
  /\ inloop \in BOOLEAN /\ stoploopflag \in BOOLEAN /\ waitingpending \in BOOLEAN
  /\ graphLock \in Stoppers \cup {"nobody"}
  /\ stopping \in [Stoppers -> {"no", "first", "second", "unlock", "done"}]
  /\ at \in Places /\ calling \subseteq Clients
  /\ dying \in {"no", "marked", "waiting", "join"}

(* action_type is POLL, but nothing waits to be taken. *)
Init ==
  /\ action_type = "POLL" /\ locactiontype = "POLL"
  /\ action_cond_val = FALSE /\ loopend_cond_val = FALSE
  /\ inloop = FALSE /\ stoploopflag = FALSE /\ waitingpending = FALSE
  /\ graphLock = "nobody" /\ stopping = [k \in Stoppers |-> "no"]
  /\ at = "wait" /\ calling = {} /\ dying = "no"
-----------------------------------------------------------------------------

(* run, runAtRate, runOnDemand, stopLoop: first the action ... *)
Call(c, action) ==
  /\ dying = "no" /\ c \notin calling
  /\ action_type' = action
  /\ calling' = calling \cup {c}
  /\ UNCHANGED <<action_cond_val, stopVars, dispVars, dying>>

(* ... then the signal, under another mutex. *)
Signal(c) ==
  /\ c \in calling
  /\ action_cond_val' = TRUE
  /\ calling' = calling \ {c}
  /\ UNCHANGED <<action_type, stopVars, dispVars, dying>>
-----------------------------------------------------------------------------
(* Context::stopLoop.  The dispatcher calls it for STOP, the destructor to end
   the loop that is on. *)
MayStop(k) ==
  CASE k = "dispatcher" -> at = "stop"
    [] k = "destructor" -> dying = "marked"
    [] OTHER            -> dying = "no"

(* lock(); stoploopflag = 1. *)
StopLock(k) ==
  /\ stopping[k] = "no" /\ MayStop(k) /\ graphLock = "nobody"
  /\ graphLock' = k /\ stoploopflag' = TRUE
  /\ stopping' = [stopping EXCEPT ![k] = "first"]
  /\ UNCHANGED <<callVars, waitingpending, dispVars, dying>>

(* dataSignal(), twice: with the flag set it returns at once, but the loop may
   have reset it, and then the call waits until runOnDemand wants a datum.
   Nobody else sets the flag meanwhile: that takes _mutex. *)
StopSignal(k) ==
  /\ stopping[k] \in {"first", "second"}
  /\ \/ stoploopflag /\ UNCHANGED waitingpending
     \/ ~stoploopflag /\ waitingpending /\ waitingpending' = FALSE
  /\ stopping' = [stopping EXCEPT ![k] = IF @ = "first" THEN "second" ELSE "unlock"]
  /\ UNCHANGED <<callVars, stoploopflag, graphLock, dispVars, dying>>

StopUnlock(k) ==
  /\ stopping[k] = "unlock"
  /\ graphLock' = "nobody"
  /\ stopping' = [stopping EXCEPT ![k] = IF k = "dispatcher" THEN "no" ELSE "done"]
  /\ at' = IF k = "dispatcher" THEN "end" ELSE at
  /\ UNCHANGED <<callVars, stoploopflag, waitingpending, loopend_cond_val, inloop,
                 locactiontype, dying>>

(* The dataSignal() of a module's thread takes what runOnDemand offers. *)
ProducerSignal ==
  /\ ~stoploopflag /\ waitingpending
  /\ waitingpending' = FALSE
  /\ UNCHANGED <<callVars, stoploopflag, graphLock, stopping, dispVars, dying>>
-----------------------------------------------------------------------------
(* runDispatcher: the flag is taken under action_mutex ... *)
Take ==
  /\ at = "wait" /\ action_cond_val
  /\ action_cond_val' = FALSE /\ at' = "read"
  /\ UNCHANGED <<action_type, calling, stopVars, loopend_cond_val, inloop, locactiontype, dying>>

(* ... and the action read under thread_mutex, after others may have left
   theirs. *)
Read ==
  /\ at = "read"
  /\ locactiontype' = action_type /\ at' = "enter"
  /\ UNCHANGED <<callVars, stopVars, loopend_cond_val, inloop, dying>>

Entered ==
  at' = CASE locactiontype \in Loops -> "loop"
          [] locactiontype = "STOP"  -> "stop"
          [] OTHER                   -> "end"

(* Mutant: a loop forgets the stop that came before it. *)
Enter_ClearFlag ==
  /\ at = "enter" /\ Entered
  /\ inloop' = TRUE /\ stoploopflag' = FALSE
  /\ UNCHANGED <<callVars, waitingpending, graphLock, stopping, loopend_cond_val, locactiontype,
                 dying>>

(* Mutant: the flag is reset when the action has been read, not before. *)
Enter_ResetLate ==
  /\ at = "enter" /\ Entered
  /\ inloop' = TRUE /\ action_cond_val' = FALSE
  /\ UNCHANGED <<action_type, calling, stopVars, loopend_cond_val, locactiontype, dying>>

(* A loop begins, or stopLoop() is called with no loop on: then the next loop
   is the one that ends at once. *)
Enter ==
  /\ at = "enter" /\ Entered
  /\ inloop' = TRUE
  /\ UNCHANGED <<callVars, stopVars, loopend_cond_val, locactiontype, dying>>

(* Mutant: the dispatcher takes STOP for the end of its thread. *)
SignalEnd_Stop ==
  /\ at = "signal"
  /\ loopend_cond_val' = TRUE
  /\ at' = IF locactiontype \in {"STOP", "QUIT"} THEN "gone" ELSE "wait"
  /\ UNCHANGED <<callVars, stopVars, inloop, locactiontype, dying>>

(* A turn of the loop: the flag is tested, runOnDemand offers to take a datum,
   and loopOnce() traverses the graph under _mutex. *)
NextTurn ==
  /\ at = "loop" /\ ~stoploopflag
  /\ at' = "lock"
  /\ waitingpending' = (waitingpending \/ locactiontype = "DEMAND")
  /\ UNCHANGED <<callVars, stoploopflag, graphLock, stopping, loopend_cond_val, inloop,
                 locactiontype, dying>>

LockGraph ==
  /\ at = "lock" /\ graphLock = "nobody"
  /\ at' = "turn" /\ graphLock' = "dispatcher"
  /\ UNCHANGED <<callVars, stoploopflag, waitingpending, stopping, loopend_cond_val, inloop,
                 locactiontype, dying>>

EndTurn ==
  /\ at = "turn"
  /\ at' = "loop" /\ graphLock' = "nobody"
  /\ UNCHANGED <<callVars, stoploopflag, waitingpending, stopping, loopend_cond_val, inloop,
                 locactiontype, dying>>

(* The loop ends when the flag is set, or when a module's stop() says so. *)
EndLoop ==
  /\ at = "loop"
  /\ at' = IF locactiontype = "DEMAND" THEN "drain" ELSE "reset"
  /\ UNCHANGED <<callVars, stopVars, loopend_cond_val, inloop, locactiontype, dying>>

(* runOnDemand offers to take one more datum. *)
Drain ==
  /\ at = "drain"
  /\ at' = "reset" /\ waitingpending' = TRUE
  /\ UNCHANGED <<callVars, stoploopflag, graphLock, stopping, loopend_cond_val, inloop,
                 locactiontype, dying>>

(* stoploopflag = 0, without a lock; the modules close. *)
ResetFlag ==
  /\ at = "reset"
  /\ stoploopflag' = FALSE /\ at' = "end"
  /\ UNCHANGED <<callVars, waitingpending, graphLock, stopping, loopend_cond_val, inloop,
                 locactiontype, dying>>

LeaveLoop ==
  /\ at = "end"
  /\ inloop' = FALSE /\ at' = "signal"
  /\ UNCHANGED <<callVars, stopVars, loopend_cond_val, locactiontype, dying>>

SignalEnd ==
  /\ at = "signal"
  /\ loopend_cond_val' = TRUE
  /\ at' = IF locactiontype = "QUIT" THEN "gone" ELSE "wait"
  /\ UNCHANGED <<callVars, stopVars, inloop, locactiontype, dying>>
-----------------------------------------------------------------------------
(* The destructor: the next action is to quit ... *)
Mark ==
  /\ dying = "no" /\ calling = {}
  /\ action_type' = "QUIT" /\ dying' = "marked"
  /\ UNCHANGED <<action_cond_val, calling, stopVars, dispVars>>

(* ... Context::stopLoop ends the loop that is on, and if there is one, the
   destructor waits for its end ... *)
TestLoop ==
  /\ dying = "marked" /\ stopping["destructor"] = "done"
  /\ dying' = IF inloop THEN "waiting" ELSE "join"
  /\ UNCHANGED <<callVars, stopVars, dispVars>>

AwaitEnd ==
  /\ dying = "waiting" /\ loopend_cond_val
  /\ loopend_cond_val' = FALSE /\ dying' = "join"
  /\ UNCHANGED <<callVars, stopVars, inloop, at, locactiontype>>

(* ... and for the thread, which it does not signal; the model stops there. *)

StopStep(k) == StopSignal(k) \/ StopUnlock(k)
Turn == NextTurn \/ LockGraph \/ EndTurn \/ Drain
Dispatcher == Take \/ Read \/ Enter \/ Turn \/ EndLoop \/ ResetFlag \/ LeaveLoop \/ SignalEnd
Destructor == Mark \/ TestLoop \/ AwaitEnd

Next ==
  \/ \E c \in Clients : Signal(c) \/ \E action \in Actions \ {"QUIT"} : Call(c, action)
  \/ \E k \in Stoppers : StopLock(k) \/ StopStep(k)
  \/ ProducerSignal \/ Dispatcher \/ Destructor

DemandOn == locactiontype = "DEMAND" /\ at \in {"loop", "lock", "turn", "drain", "reset"}

(* Threads go on, but nobody has to call, and a module's stop() has to end
   nothing.  A loop that frees _mutex after every turn does not keep it from
   the destructor for ever.  runOnDemand sleeps between its turns and holds _havedatamutex
   (see ContextSync), so that neither it nor a dataSignal() that meets it is
   sure to go on. *)
Fairness ==
  /\ \A c \in Clients : WF_vars(Signal(c))
  /\ \A k \in Stoppers : WF_vars(~DemandOn /\ StopStep(k))
  /\ WF_vars(StopLock("dispatcher")) /\ SF_vars(StopLock("destructor"))
  /\ WF_vars(Take \/ Read \/ Enter \/ LeaveLoop \/ SignalEnd)
  /\ WF_vars(~DemandOn /\ (Turn \/ ResetFlag \/ (stoploopflag /\ EndLoop)))
  /\ WF_vars(TestLoop \/ AwaitEnd)

Spec == Init /\ [][Next]_vars /\ Fairness
-----------------------------------------------------------------------------
(* The flag and the action are guarded by two mutexes and taken in two steps.
   Still no call is forgotten: when nothing is left to be taken, the action
   taken last is the one that was left last. *)
NoCallForgotten ==
  ~action_cond_val /\ calling = {} /\ dying = "no" /\ at # "read" =>
    locactiontype = action_type

(* A stopper waits in dataSignal() with _mutex: the loop has reset the flag
   between its lock() and its test of the flag (Context.cxx:743 and 611). *)
Asleep(k) == stopping[k] \in {"first", "second"} /\ ~stoploopflag /\ ~waitingpending
SleeperStays == \E k \in Stoppers : []Asleep(k)

(* A call is taken: the dispatcher reads again after it, unless the loop that
   is on goes on for ever or a stopLoop() sleeps for ever, the dispatcher's own
   for STOP then waiting for its _mutex. *)
CallTaken ==
  calling # {} ~>
    (at = "read" \/ [](at \in {"loop", "lock", "turn", "drain", "reset"}) \/ SleeperStays)

(* ThreadContext.cxx:111-125: the destructor ends the loop that is on and gets
   past it, whatever loop was about to begin or to reset the flag, unless that
   loop waits for data, or a stopLoop(), its own or another, sleeps for ever. *)
DestructorPasses == dying = "marked" ~> (dying = "join" \/ []DemandOn \/ SleeperStays)
=============================================================================
