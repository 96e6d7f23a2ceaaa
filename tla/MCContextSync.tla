---------------------------- MODULE MCContextSync ----------------------------
(* Model-checking instances of ContextSync; the .cfg files choose the threads. *)
EXTENDS ContextSync
=============================================================================
