------------------------------ MODULE MCOTGraph ------------------------------
(* Instances of OTGraph for TLC. *)
EXTENDS OTGraph, TLC

Symmetry == Permutations(Nodes)
=============================================================================
