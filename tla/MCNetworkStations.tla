------------------------- MODULE MCNetworkStations -------------------------
(* Instances of NetworkStations for TLC. *)
EXTENDS NetworkStations

SomeSettings ==
  {[faults |-> {}, synced |-> Clients],
   [faults |-> {"lose"}, synced |-> Clients],
   [faults |-> {"swap"}, synced |-> {}],
   [faults |-> {"refuse"}, synced |-> {}]}
=============================================================================
