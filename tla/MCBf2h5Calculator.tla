------------------------ MODULE MCBf2h5Calculator ------------------------
(* Bf2h5Calculator on small instances.                                        *)
EXTENDS Bf2h5Calculator, TLC

ThreadSymmetry == Permutations(CalcThreads)
=============================================================================
