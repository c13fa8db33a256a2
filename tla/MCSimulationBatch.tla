------------------------- MODULE MCSimulationBatch -------------------------
(***************************************************************************)
(* Batches over plugin files with the fixed plugin "fixed" and three       *)
(* varied ones.                                                            *)
(***************************************************************************)
EXTENDS SimulationBatch

CONSTANTS fixed, v1, v2, v3

MCThreePairs == <<v1, v2, v3>>

MCNone == {}
MCLoadFaults == {"open fails", "odd registrations"}

=============================================================================
