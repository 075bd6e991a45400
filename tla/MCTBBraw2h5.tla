--------------------------- MODULE MCTBBraw2h5 ---------------------------
(* TBBraw2h5 on small instances.                                              *)
EXTENDS TBBraw2h5, TLC

PortSymmetry == Permutations(Ports)
=============================================================================
