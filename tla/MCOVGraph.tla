------------------------------ MODULE MCOVGraph ------------------------------
(* Model-checking instances of OVGraph. *)
EXTENDS OVGraph
=============================================================================
