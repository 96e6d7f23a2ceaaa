---------------------------- MODULE MCFrameBuffers ----------------------------
(* Model-checking instances of FrameBuffers. *)
EXTENDS FrameBuffers
=============================================================================
