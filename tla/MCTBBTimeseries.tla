-------------------------- MODULE MCTBBTimeseries --------------------------
(* Instances of TBBTimeseries: a file of two stations that another program    *)
(* wrote, one that is not HDF5 and one with a dipole that lacks attributes;   *)
(* for the runs of what does not hold also a single file, two files and none. *)
EXTENDS TBBTimeseries, TLC

File(kind, groups) == [kind |-> kind, groups |-> groups]
TwoStations == (1 :> {11, 12} @@ 2 :> {21})
AllFiles == 1 :> File("hdf5", TwoStations) @@ 2 :> File("foreign", << >>)
              @@ 3 :> File("hdf5", 3 :> {31, 32})
OneFile == 1 :> File("hdf5", TwoStations)
TwoFiles == 1 :> File("hdf5", 1 :> {11, 12}) @@ 2 :> File("hdf5", 2 :> {21})
NoFile == 1 :> File("none", << >>)

(* The dipoles start within one second and over its end, two of them too      *)
(* close for doubles that are a quarter of a second apart.                    *)
MCTime == 11 :> 1 @@ 12 :> 2 @@ 21 :> 2 @@ 31 :> 1 @@ 32 :> 2
MCSample == 11 :> 2 @@ 12 :> 0 @@ 21 :> 1 @@ 31 :> 0 @@ 32 :> 3
MCFrequency == 11 :> 4 @@ 12 :> 4 @@ 21 :> 10 @@ 31 :> 4 @@ 32 :> 8
OneSecond == 11 :> 1 @@ 12 :> 1 @@ 21 :> 1 @@ 31 :> 1 @@ 32 :> 1
MCLength == 11 :> 4 @@ 12 :> 3 @@ 21 :> 4 @@ 31 :> 4 @@ 32 :> 4
MCUnreadable ==
  [a \in Attributes |-> IF a \in {"SAMPLE_NUMBER", "DATA_LENGTH"} THEN {31} ELSE {}]

MCDipoles == {11, 12, 21, 31, 32}
MCNames == {{11}, {12, 21}, {21, 32}}
MCFlags == {{"Open", "ReadOnly"}, {"OpenOrCreate"}, {"Open", "Create"}}
ReadOnly == {{"Open", "ReadOnly"}}
ByName == {{"Open"}}
MCStarts == {-1, 0, 2}
=============================================================================
