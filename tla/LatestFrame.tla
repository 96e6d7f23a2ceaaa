------------------------------ MODULE LatestFrame ------------------------------
(***************************************************************************)
(* What the frame hand-over of OpenVideo promises, whatever buffers and    *)
(* locks it uses: each subscriber always offers one whole frame, the       *)
(* latest published to it; a client that takes a frame keeps exactly that  *)
(* frame until it gives it back.                                           *)
(***************************************************************************)
EXTENDS Naturals

CONSTANTS Subscribers, Clients

VARIABLES
  offered,  \* the frame each subscriber offers; 0: none yet
  taken     \* the frame each client works with; 0: none

Init ==
  /\ offered = [s \in Subscribers |-> 0]
  /\ taken = [c \in Clients |-> 0]

Publish(s) ==
  /\ offered'[s] \in Nat /\ offered'[s] > offered[s]
  /\ offered' = [offered EXCEPT ![s] = offered'[s]]
  /\ UNCHANGED taken

Take(c, s) ==
  /\ taken[c] = 0 /\ offered[s] # 0
  /\ taken' = [taken EXCEPT ![c] = offered[s]]
  /\ UNCHANGED offered

GiveBack(c) ==
  /\ taken[c] # 0
  /\ taken' = [taken EXCEPT ![c] = 0]
  /\ UNCHANGED offered

Next ==
  \/ \E s \in Subscribers : Publish(s)
  \/ \E c \in Clients : GiveBack(c) \/ \E s \in Subscribers : Take(c, s)

Spec == Init /\ [][Next]_<<offered, taken>>
=============================================================================
