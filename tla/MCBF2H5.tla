------------------------------ MODULE MCBF2H5 ------------------------------
(* BF2H5 on small instances.                                                  *)
EXTENDS BF2H5, TLC

ThreadSymmetry == Permutations(CalcThreads)
=============================================================================
