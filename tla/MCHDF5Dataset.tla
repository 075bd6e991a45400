--------------------------- MODULE MCHDF5Dataset ---------------------------
(* Instances of HDF5Dataset: one or two objects on datasets of two axes. *)
EXTENDS HDF5Dataset

Arg(op, start, stride, count, block) ==
  [op |-> op, start |-> start, stride |-> stride, count |-> count, block |-> block]

(* One block, given as the data products do: no stride and no count. *)
Blocks == {Arg("SET", <<0, 0>>, << >>, << >>, <<1, 2>>),
           Arg("SET", <<1, 1>>, << >>, << >>, <<2, 1>>)}

(* Two blocks side by side, blocks that overlap, a selection added to the one *)
(* before, and a start of the wrong rank.                                     *)
Others == {Arg("SET", <<0, 0>>, <<2, 1>>, <<1, 2>>, <<2, 1>>),
           Arg("SET", <<0, 0>>, <<1, 1>>, <<2, 1>>, <<2, 1>>),
           Arg("OR",  <<0, 1>>, << >>, << >>, <<1, 1>>),
           Arg("SET", <<0>>, << >>, << >>, <<1>>)}

BothSlabs == Blocks \cup Others

(* For the runs of section 6 of the README, on datasets of one axis: a block  *)
(* that is left out, blocks with a gap between them, single rows, pairs of    *)
(* rows, a selection added to another, and two blocks that are counted.       *)
Part(op, start, block) == Arg(op, <<start>>, << >>, << >>, <<block>>)
NoBlock == {Part("SET", 0, 2), Arg("SET", <<0>>, << >>, << >>, << >>)}
Strided == {Part("SET", 0, 2), Arg("SET", <<0>>, <<3>>, <<2>>, <<1>>)}
Rows == {Part("SET", i, 1) : i \in 0 .. 2}
Pairs == {Part("SET", i, 2) : i \in {0, 2}}
Adding == {Part("SET", 0, 1), Part("OR", 1, 1)}
Counted == {Arg("SET", <<0>>, <<1>>, <<2>>, <<1>>)}
AddingCounted == Adding \cup Counted

Symmetry == Permutations(Handles)

AllFlags == {{"Create"}, {"Open", "ReadOnly"}, {"CreateNew"}}
Created == {{"CreateNew"}}
Planes == {<<1, 3>>}
NoChunks == {<< >>}
SomeChunks == {<< >>, <<1, 1>>}
Line == {<<2>>}
=============================================================================
