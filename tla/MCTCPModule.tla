----------------------------- MODULE MCTCPModule -----------------------------
(* Instances of TCPModule for TLC. *)
EXTENDS TCPModule
=============================================================================
