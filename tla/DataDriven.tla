------------------------------ MODULE DataDriven ------------------------------
(***************************************************************************)
(* What the data-driven main loop promises its producers (Context.h,       *)
(* "the graph is only traversed if some event-driven enabled event         *)
(* generator node produces new data"): data are served one at a time, a    *)
(* datum that was accepted is traversed, and the next one is accepted only *)
(* when the loop has traversed this one and its producer has come for the  *)
(* acknowledgement.  The two may happen in either order.                   *)
(***************************************************************************)
VARIABLES
  stage,   \* of the datum being served
  acked    \* has its producer called consumedWait()

vars == <<stage, acked>>

TypeOK ==
  /\ stage \in {"idle", "offered", "traversed"}
  /\ acked \in BOOLEAN

Init == stage = "idle" /\ acked = FALSE

Accept   == stage = "idle"      /\ stage' = "offered"   /\ UNCHANGED acked
Traverse == stage = "offered"   /\ stage' = "traversed" /\ UNCHANGED acked
Ack      == stage # "idle"      /\ ~acked /\ acked' = TRUE /\ UNCHANGED stage
Done     == stage = "traversed" /\ acked  /\ stage' = "idle" /\ acked' = FALSE

Next == Accept \/ Traverse \/ Ack \/ Done

(* Serving a datum is never given up; nobody has to produce one. *)
Fairness == WF_vars(Traverse) /\ WF_vars(Ack) /\ WF_vars(Done)

Spec == Init /\ [][Next]_vars /\ Fairness
=============================================================================
