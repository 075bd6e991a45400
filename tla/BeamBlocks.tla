----------------------------- MODULE BeamBlocks -----------------------------
(* The blocks of beam-formed data that bf2h5 converts, and their subbands, both  *)
(* numbered from 0.                                                              *)
EXTENDS Integers, Sequences

CONSTANTS
    NrSubbands,     \* nrSubbands of the main header
    MaxBlocks       \* bound: blocks handed to the calculator

ASSUME BlocksAssumption == NrSubbands \in Nat \ {0} /\ MaxBlocks \in Nat \ {0}

Subbands == 0..(NrSubbands - 1)
Blocks   == 0..(MaxBlocks - 1)
=============================================================================
