-------------------------- MODULE MCBFRootGroup --------------------------
(* Instances of BFRootGroup: one or two pointings of two beams, each with one *)
(* Stokes dataset.  The flags that replace a group are left to runs of what   *)
(* does not hold.                                                             *)
EXTENDS BFRootGroup

Keeping == {"OpenOrCreate", "CreateNew", "Open"}
ByDefault == {"OpenOrCreate"}
Replacing == {"OpenOrCreate", "Create"}
OfFile == {"OpenOrCreate", "ReadWrite", "Create"}
=============================================================================
