----------------------------- MODULE HDF5Dataset -----------------------------
(* DAL::HDF5Dataset and DAL::HDF5Hyperslab: datasets of one file, opened or   *)
(* created under one name, and the objects of the program that hold them.  A  *)
(* write selects a hyperslab (start, stride, count and block along each axis) *)
(* in the object's own copy of the dataspace, extends the dataset if the      *)
(* hyperslab's computed end lies past it, and hands the data to the library;  *)
(* a read does the same without extending.                                    *)
(*                                                                            *)
(* Every object has its own dataspace identifier, got when the dataset was    *)
(* opened or last extended by this object, so that two objects on a dataset   *)
(* see its extent independently; the shape an object remembers is read from   *)
(* the dataset after every selection.                                         *)
EXTENDS Integers, Sequences, FiniteSets, FiniteSetsExt,
        SequencesExt

CONSTANTS Handles,      \* HDF5Dataset objects
          Flags,        \* the I/O mode flags open is called with
          Shapes,       \* the shapes it is called with
          Chunkings,    \* the chunk sizes it is called with, << >> for none
          Slabs,        \* arguments of the constructor of HDF5Hyperslab
          Values,       \* what a write puts into the elements it selects
          MaxSize,      \* bound of the library: the longest axis it accepts
          MaxChunk,     \* the largest chunk (2^32 - 1 bytes), in elements
          HSize,        \* the number of values of hsize_t (2^64)
          MaxObjects,   \* bound: datasets created
          MaxSlabs      \* bound: hyperslabs applied by the objects at hand

(* A block that is given has an entry for every axis, as the code reads one.  *)
ASSUME SizesAssumption ==
  /\ MaxSize \in Nat /\ MaxChunk \in Nat \ {0} /\ HSize \in Nat
  /\ MaxSize < HSize
  /\ Values # {}
  /\ \A shape \in Shapes : shape \in Seq(0 .. MaxSize)
  /\ \A arg \in Slabs :
       /\ {arg.start, arg.stride, arg.count, arg.block} \subseteq Seq(Nat)
       /\ arg.block # << >> => Len(arg.block) = Len(arg.start)
       /\ arg.op \in {"SET", "OR"}

VARIABLES link,     \* the dataset the name is linked to, 0 for none
          arrays,   \* the datasets in the order of their creation
          handle,   \* Handles -> members of HDF5Dataset
          status    \* of the last call: its value, and whether data moved

vars == << link, arrays, handle, status >>

None == 0
Gone == -1
All == {<< >>}   \* the selection of a dataspace nobody has selected in

-----------------------------------------------------------------------------
(* HDF5Hyperslab. *)

Axes(v) == DOMAIN v
Fits(v, rank) == Len(v) = rank
Prod(v) ==
  LET upto[n \in 0 .. Len(v)] == IF n = 0 THEN 1 ELSE upto[n - 1] * v[n]
  IN  upto[Len(v)]

(* setStride and setCount keep a vector of the rank and drop a shorter one. *)
Kept(v, rank) == IF Fits(v, rank) THEN v ELSE << >>

(* The constructor: an empty block is stored as a block of zeros. *)
Slab(arg) ==
  LET rank == Len(arg.start)
  IN  [op     |-> arg.op,
       start  |-> arg.start,
       stride |-> Kept(arg.stride, rank),
       count  |-> Kept(arg.count, rank),
       block  |-> IF arg.block = << >> THEN [n \in 1 .. rank |-> 0] ELSE arg.block]

(* A stride or count that was not given is one along every axis. *)
OrOnes(v, rank) == IF Fits(v, rank) THEN v ELSE [n \in 1 .. rank |-> 1]

Stride(slab) == OrOnes(slab.stride, Len(slab.start))
Count(slab) == OrOnes(slab.count, Len(slab.start))

(* HDF5Hyperslab::end: the blocks are summed up and the gaps subtracted, in   *)
(* the unsigned type of HDF5's sizes.                                         *)
End(slab) ==
  [n \in Axes(slab.start) |->
     (slab.start[n] + Count(slab)[n] * slab.block[n] - 1
        + (slab.block[n] - Stride(slab)[n]) * (Count(slab)[n] - 1)) % HSize]

\* Fault: the blocks are not counted.
NofDatapointsOfBlock(slab) == Prod(slab.block)

(* The elements writeData hands over. *)
NofDatapoints(slab) ==
  Prod([n \in Axes(slab.block) |-> Count(slab)[n] * slab.block[n]])

\* Fault: the axes that suffice are cut to the hyperslab.
ExtendedToSlab(slab, shape) == [n \in Axes(shape) |-> (End(slab)[n] + 1) % HSize]

(* The size the dataset is extended to, its own along the axes that suffice. *)
Extended(slab, shape) ==
  [n \in Axes(shape) |-> IF End(slab)[n] > shape[n]
                         THEN (End(slab)[n] + 1) % HSize ELSE shape[n]]

-----------------------------------------------------------------------------
(* The HDF5 library, as the calls in these two files use it. *)

Inside(p, shape) == \A n \in Axes(shape) : p[n] < shape[n]

(* H5Dset_extent: an axis that gets shorter loses its elements. *)
SetExtent(array, size) ==
  IF \E n \in Axes(size) : size[n] > MaxSize THEN array
  ELSE [shape   |-> size,
        written |-> [p \in {q \in DOMAIN array.written : Inside(q, size)} |->
                       array.written[p]]]

(* The elements of a hyperslab. *)
Along(slab, n) ==
  {slab.start[n] + i * Stride(slab)[n] + j :
     i \in 0 .. Count(slab)[n] - 1, j \in 0 .. slab.block[n] - 1}
Elements(slab) ==
  LET axes == Axes(slab.start)
  IN  {p \in [axes -> UNION {Along(slab, n) : n \in axes}] :
         \A n \in axes : p[n] \in Along(slab, n)}

(* H5Sselect_hyperslab refuses a stride of zero and blocks that overlap. *)
Selectable(slab) ==
  \A n \in Axes(slab.start) :
    /\ Stride(slab)[n] > 0
    /\ Count(slab)[n] > 1 => Stride(slab)[n] >= slab.block[n]

(* H5S_SELECT_SET replaces the selection, H5S_SELECT_OR adds to it. *)
Combine(sel, slab) ==
  CASE slab.op = "SET"                -> Elements(slab)
    [] slab.op = "OR" /\ sel = All    -> All
    [] slab.op = "OR" /\ sel # All    -> sel \cup Elements(slab)

\* Fault: nobody asks whether the selection lies within the extent.
ValidAlways(sel, extent) == TRUE

(* H5Sselect_valid, and the number of selected elements. *)
Valid(sel, extent) == sel = All \/ \A p \in sel : Inside(p, extent)
Selected(sel, extent) == IF sel = All THEN Prod(extent) ELSE Cardinality(sel)
-----------------------------------------------------------------------------
(* HDF5Dataset. *)

(* setShape: the shape stands in for a chunk size of the wrong rank. *)
FirstChunk(shape, chunks) == IF Fits(chunks, Len(shape)) THEN chunks ELSE shape

(* adjustChunksize: every axis is halved until the chunk is small enough. *)
ChunkFor(shape, chunks) ==
  LET first == FirstChunk(shape, chunks)
      halved(k) == [n \in Axes(first) |-> first[n] \div 2^k]
      k == CHOOSE i \in 0 .. Len(first) * MaxSize :
             /\ Prod(halved(i)) <= MaxChunk
             /\ \A j \in 0 .. i - 1 : Prod(halved(j)) > MaxChunk
  IN  halved(k)

(* H5Pset_chunk, and with it the creation, fails for a chunk without extent. *)
Creatable(shape, chunks) ==
  \A n \in Axes(shape) : ChunkFor(shape, chunks)[n] > 0

Fresh == [id |-> None, extent |-> << >>, sel |-> All, shape |-> << >>, slabs |-> 0]

OnDataset(h, o, shape) ==
  [handle[h] EXCEPT !.id = o, !.extent = shape, !.sel = All, !.shape = shape]

(* What open does for a set of flags: each case stands for the call of itself *)
(* that the code makes.                                                       *)
CaseOf(flags) ==
  LET exists == link # None
  IN  CASE "OpenOrCreate" \in flags -> IF exists THEN "open" ELSE "new"
        [] "OpenOrCreate" \notin flags /\ "Create" \in flags ->
             IF exists THEN "truncate" ELSE "new"
        [] flags \cap {"OpenOrCreate", "Create"} = {} /\ "Open" \in flags ->
             IF exists THEN "open" ELSE "none"
        [] flags \cap {"OpenOrCreate", "Create", "Open"} = {} /\ "CreateNew" \in flags ->
             IF exists THEN "none" ELSE "new"
        [] flags \cap {"OpenOrCreate", "Create", "Open", "CreateNew"} = {} -> "truncate"

-----------------------------------------------------------------------------
Init ==
  /\ link = None
  /\ arrays = << >>
  /\ handle = [h \in Handles |-> Fresh]
  /\ status = [ok |-> TRUE, moved |-> FALSE]

(* The dataset is there: its shape, type, space and chunk size are read. *)
OpenExisting(h) ==
  /\ handle' = [handle EXCEPT ![h] = OnDataset(h, link, arrays[link].shape)]
  /\ status' = [ok |-> TRUE, moved |-> FALSE]
  /\ UNCHANGED << link, arrays >>

(* A dataset is created, after the link to the old one is deleted if there is *)
(* one.  When the library refuses, the object keeps the shape it was told.    *)
CreateNew(h, shape, chunks) ==
  LET made == Creatable(shape, chunks)
  IN  /\ Len(arrays) < MaxObjects
      /\ link' = IF made THEN Len(arrays) + 1 ELSE None
      /\ arrays' = IF made THEN Append(arrays, [shape |-> shape, written |-> << >>])
                           ELSE arrays
      /\ handle' = [handle EXCEPT ![h] = OnDataset(h, link', shape)]
      /\ status' = [ok |-> made, moved |-> FALSE]

(* Nothing to open, or something where nothing may be: the object is on none. *)
OpenNone(h) ==
  /\ handle' = [handle EXCEPT ![h].id = None]
  /\ status' = [ok |-> FALSE, moved |-> FALSE]
  /\ UNCHANGED << link, arrays >>

Alive(h) == handle[h].id # Gone

Open(h, flags, shape, chunks) ==
  /\ Alive(h)
  /\ \/ CaseOf(flags) = "open" /\ OpenExisting(h)
     \/ CaseOf(flags) \in {"new", "truncate"} /\ CreateNew(h, shape, chunks)
     \/ CaseOf(flags) = "none" /\ OpenNone(h)

(* The other open, by name alone, leaves the object as it is if it fails. *)
OpenByName(h) ==
  /\ Alive(h)
  /\ \/ link # None /\ OpenExisting(h)
     \/ /\ link = None
        /\ status' = [ok |-> FALSE, moved |-> FALSE]
        /\ UNCHANGED << link, arrays, handle >>

(* The object is destroyed and with it its identifiers. *)
Destroy(h) ==
  /\ Alive(h)
  /\ handle' = [handle EXCEPT ![h] = [Fresh EXCEPT !.id = Gone]]
  /\ status' = [ok |-> TRUE, moved |-> FALSE]
  /\ UNCHANGED << link, arrays >>

(* What setHyperslab makes of the dataset and of the object.  The dataspace   *)
(* is got anew, with nothing selected, whenever an extension is tried; the    *)
(* status is that of the selection, whatever became of the extension; the     *)
(* hyperslab is kept and the shape refreshed in every case.                   *)
Extends(slab, shape) == \E n \in Axes(shape) : End(slab)[n] > shape[n]

Applied(h, slab, resize) ==
  LET array  == arrays[handle[h].id]
      ranks  == Len(slab.start) = Len(array.shape)
      extend == ranks /\ resize /\ Extends(slab, array.shape)
      after  == IF extend THEN SetExtent(array, Extended(slab, array.shape)) ELSE array
      extent == IF extend THEN after.shape ELSE handle[h].extent
      before == IF extend THEN All ELSE handle[h].sel
      takes  == ranks /\ Selectable(slab)
      sel    == IF takes THEN Combine(before, slab) ELSE before
  IN  [ok     |-> takes /\ Valid(sel, extent),
       array  |-> after,
       points |-> Selected(sel, extent),
       object |-> [handle[h] EXCEPT !.extent = extent, !.sel = sel, !.shape = after.shape,
                                    !.slabs = handle[h].slabs + 1]]

(* H5Dwrite writes if as many elements are selected as are handed over. *)
Put(array, sel, v) ==
  LET where == IF sel = All
               THEN {p \in [Axes(array.shape) -> 0 .. MaxSize] : Inside(p, array.shape)}
               ELSE sel
      old   == array.written
  IN  [array EXCEPT !.written = [p \in where \cup DOMAIN old |->
                                   IF p \in where THEN v ELSE old[p]]]

OnOpen(h) ==
  /\ handle[h].id \in DOMAIN arrays
  /\ MapThenSumSet(LAMBDA g : handle[g].slabs, Handles) < MaxSlabs

SetHyperslab(h, arg) ==
  LET out == Applied(h, Slab(arg), TRUE)
  IN  /\ OnOpen(h)
      /\ handle' = [handle EXCEPT ![h] = out.object]
      /\ arrays' = [arrays EXCEPT ![handle[h].id] = out.array]
      /\ status' = [ok |-> out.ok, moved |-> FALSE]
      /\ UNCHANGED link

(* The result of H5Dwrite is not looked at. *)
WriteData(h, arg, v) ==
  LET out   == Applied(h, Slab(arg), TRUE)
      moved == out.ok /\ out.points = NofDatapoints(Slab(arg))
  IN  /\ OnOpen(h)
      /\ handle' = [handle EXCEPT ![h] = out.object]
      /\ arrays' = [arrays EXCEPT ![handle[h].id] =
                       IF moved THEN Put(out.array, out.object.sel, v) ELSE out.array]
      /\ status' = [ok |-> out.ok, moved |-> moved]
      /\ UNCHANGED link

(* readData makes room for one block only. *)
ReadData(h, arg) ==
  LET out == Applied(h, Slab(arg), FALSE)
  IN  /\ OnOpen(h)
      /\ handle' = [handle EXCEPT ![h] = out.object]
      /\ status' = [ok    |-> out.ok,
                    moved |-> out.ok /\ out.points = Prod(Slab(arg).block)]
      /\ UNCHANGED << link, arrays >>

(* Each of the three on an object without a dataset says that all is well. *)
OnNothing(h) ==
  /\ handle[h].id = None
  /\ status' = [ok |-> TRUE, moved |-> FALSE]
  /\ UNCHANGED << link, arrays, handle >>

Next ==
  \E h \in Handles :
    \/ \E flags \in Flags, shape \in Shapes, chunks \in Chunkings :
          Open(h, flags, shape, chunks)
    \/ OpenByName(h) \/ Destroy(h) \/ OnNothing(h)
    \/ \E arg \in Slabs : SetHyperslab(h, arg) \/ ReadData(h, arg)
    \/ \E arg \in Slabs, v \in Values : WriteData(h, arg, v)

Spec == Init /\ [][Next]_vars

-----------------------------------------------------------------------------
(* Properties. *)

Sizes == Seq(0 .. MaxSize)

(* A dataset has a shape, and values for some of the elements inside it. *)
IsArray(array) ==
  /\ array = [shape |-> array.shape, written |-> array.written]
  /\ array.shape \in Sizes
  /\ \A p \in DOMAIN array.written :
       /\ p \in [Axes(array.shape) -> Nat] /\ Inside(p, array.shape)
       /\ array.written[p] \in Values

(* Types: the name is linked to a dataset that was created or to none. *)
TypeOK ==
  /\ arrays \in Seq(ToSet(arrays)) /\ \A o \in DOMAIN arrays : IsArray(arrays[o])
  /\ link \in 0 .. Len(arrays)
  /\ handle \in [Handles -> [id : Gone .. Len(arrays), extent : Sizes, sel : SUBSET Seq(Nat),
                            shape : Sizes, slabs : Nat]]
  /\ status \in [ok : BOOLEAN, moved : BOOLEAN]

Array == INSTANCE ExtendibleArray

(* The datasets are extendible arrays: whatever is selected, in whatever      *)
(* order and through however many objects, a dataset never gets shorter along *)
(* any axis and what was written stays until another write selects it.        *)
ImplementsArray == Array!Spec

(* What an object knows of its dataset is behind the dataset, never ahead of  *)
(* it: its dataspace lies within the shape it remembers, and that within the  *)
(* dataset, so that a selection that its dataspace holds is in the dataset.   *)
KnowsLess ==
  \A h \in Handles : handle[h].id \in DOMAIN arrays =>
    /\ Array!Within(handle[h].extent, handle[h].shape)
    /\ Array!Within(handle[h].shape, arrays[handle[h].id].shape)

(* What KnowsLess does not say: a selection is of points of the dataset's     *)
(* rank.  The three together are inductive.                                   *)
SelInv ==
  \A h \in Handles : handle[h].id \in DOMAIN arrays /\ handle[h].sel # All =>
    \A p \in handle[h].sel : p \in [Axes(arrays[handle[h].id].shape) -> Nat]

IInv == TypeOK /\ KnowsLess /\ SelInv

(* No computed end is -1 and wraps to a size of 0.  The end of a block that   *)
(* is left out at the start of an axis is, and those of some blocks with gaps.*)
EndsFit ==
  \A arg \in Slabs : \A n \in Axes(arg.start) : End(Slab(arg))[n] + 1 < HSize

(* A write through an open object that selects anew (H5S_SELECT_SET) and      *)
(* reports success has put its data into the elements of its hyperslab and    *)
(* into no other.                                                             *)
Landed(h, arg, v) ==
  LET old == arrays[handle[h].id].written
      new == arrays'[handle[h].id].written
  IN  /\ status'.moved
      /\ \A p \in Elements(Slab(arg)) : p \in DOMAIN new /\ new[p] = v
      /\ \A p \in DOMAIN new \ Elements(Slab(arg)) : p \in DOMAIN old /\ new[p] = old[p]

WritesLand ==
  [][\A h \in Handles, arg \in Slabs, v \in Values :
       status'.ok /\ arg.op = "SET" /\ WriteData(h, arg, v) => Landed(h, arg, v)]_vars

(* What the calls do not promise, as section 6 of the README shows: a write   *)
(* that reports success moved the data ...                                    *)
OkMeansMoved ==
  [][\A h \in Handles, arg \in Slabs, v \in Values :
       status'.ok /\ WriteData(h, arg, v) => status'.moved]_vars

(* ... so did a read ...                                                      *)
ReadMoves ==
  [][\A h \in Handles, arg \in Slabs : status'.ok /\ ReadData(h, arg) => status'.moved]_vars

(* ... a call through an object without a dataset reports an error ...        *)
NothingRefused == [][\A h \in Handles : OnNothing(h) => ~status'.ok]_vars

(* ... and a write of one block that the library has room for is accepted.    *)
OneBlock(arg) == arg.op = "SET" /\ arg.count = << >> /\ arg.stride = << >>
BlockAccepted ==
  [][\A h \in Handles, arg \in Slabs, v \in Values :
       /\ WriteData(h, arg, v) /\ OneBlock(arg)
       /\ Len(arg.start) = Len(arrays[handle[h].id].shape)
       => status'.ok]_vars
==============================================================================
