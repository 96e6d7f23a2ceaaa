--------------------------- MODULE MCThreadContext ---------------------------
(* Instances of ThreadContext for model checking. *)
EXTENDS ThreadContext
=============================================================================
