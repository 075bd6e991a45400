---------------------------- MODULE MCHDF5Writer ----------------------------
(* HDF5Writer on small instances.                                               *)
EXTENDS HDF5Writer
=============================================================================
