-------------------------- MODULE MCTBBStations --------------------------
(* TBBStations on small instances.                                            *)
EXTENDS TBBStations
=============================================================================
