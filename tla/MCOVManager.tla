----------------------------- MODULE MCOVManager -----------------------------
(* Model-checking instances of OVManager. *)
EXTENDS OVManager
=============================================================================
