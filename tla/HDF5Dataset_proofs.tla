------------------------- MODULE HDF5Dataset_proofs -------------------------
(* Proofs about HDF5Dataset, for any number of objects, datasets and axes, and  *)
(* any hyperslabs whose computed ends are not -1: that datasets are extendible  *)
(* arrays, that no object is ahead of its dataset, and that a write which        *)
(* succeeds has put its data into the elements of its hyperslab.                 *)
EXTENDS HDF5Dataset, FiniteSetTheorems, WellFoundedInduction, TLAPS

-----------------------------------------------------------------------------
(* Numbers.                                                                     *)

\* Every set of natural numbers that is not empty has a smallest member.
LEMMA Smallest ==
    ASSUME NEW T \in SUBSET Nat, T # {}
    PROVE  \E m \in T : \A k \in T : m <= k
<1>. DEFINE R == {ss \in Nat \X Nat : ss[1] < ss[2]}
<1>1. IsWellFoundedOn(R, Nat)
  BY NatLessThanWellFounded DEF OpToRel
<1>2. \E m \in T : \A k \in T : ~ (<<k, m>> \in R)
  <2>. HIDE DEF R
  <2>. QED BY <1>1, WFMin
<1>3. PICK m \in T : \A k \in T : ~ (<<k, m>> \in R)
  BY <1>2
<1>4. \A k \in T : m <= k
  <2>. TAKE k \in T
  <2>1. m \in Nat /\ k \in Nat
    OBVIOUS
  <2>2. <<k, m>> \in Nat \X Nat /\ <<k,m>>[1] = k /\ <<k,m>>[2] = m
    BY <2>1
  <2>3. ~(k < m)
    BY <2>2, <1>3
  <2>. QED BY <2>1, <2>3
<1>. QED BY <1>4

\* Induction: a set of numbers that has 0, and the next of each up to k, has all up to k.
LEMMA Reaches ==
    ASSUME NEW k \in Nat, NEW T, 0 \in T, \A n \in 1..k : n - 1 \in T => n \in T
    PROVE  0..k \subseteq T
<1>. DEFINE F == {n \in 0..k : n \notin T}
<1>1. SUFFICES ASSUME F # {} PROVE FALSE
  OBVIOUS
<1>2. PICK m \in F : \A n \in F : m <= n
  <2>1. F \in SUBSET Nat
    OBVIOUS
  <2>. HIDE DEF F
  <2>. QED BY <1>1, <2>1, Smallest
<1>3. m \in 1..k
  OBVIOUS
<1>4. m - 1 \in 0..k /\ m - 1 \notin F
  BY <1>2, <1>3
<1>. QED BY <1>3, <1>4


-----------------------------------------------------------------------------
(* Sequences.                                                                   *)

\* A function on 1..n is a sequence of length n.
LEMMA FunctionIsSeq ==
    ASSUME NEW n \in Nat, NEW S, NEW f \in [1..n -> S]
    PROVE  f \in Seq(S) /\ Len(f) = n /\ DOMAIN f = 1..n
  BY SMT

\* A sequence is one of its own members.
LEMMA OwnMembers ==
    ASSUME NEW S, NEW s \in Seq(S)
    PROVE  s \in Seq(ToSet(s))
<1>1. Len(s) \in Nat /\ s \in [1..Len(s) -> S] /\ DOMAIN s = 1..Len(s)
  OBVIOUS
<1>2. s \in [1..Len(s) -> ToSet(s)]
  BY <1>1 DEF ToSet
<1>. QED BY <1>1, <1>2, FunctionIsSeq

-----------------------------------------------------------------------------
(* Hyperslabs.                                                                  *)

\* What the constructor makes of its arguments.
LEMMA SlabType ==
    ASSUME NEW arg \in Slabs
    PROVE  /\ Slab(arg).start = arg.start /\ arg.start \in Seq(Nat)
           /\ Slab(arg).op = arg.op /\ arg.op \in {"SET", "OR"}
           /\ Axes(arg.start) = 1..Len(arg.start) /\ Len(arg.start) \in Nat
           /\ \A n \in Axes(arg.start) :
                /\ arg.start[n] \in Nat /\ Slab(arg).block[n] \in Nat
                /\ Stride(Slab(arg))[n] \in Nat /\ Count(Slab(arg))[n] \in Nat
<1>1. /\ arg.start \in Seq(Nat) /\ arg.stride \in Seq(Nat) /\ arg.count \in Seq(Nat)
      /\ arg.block \in Seq(Nat) /\ arg.op \in {"SET", "OR"}
      /\ arg.block # << >> => Len(arg.block) = Len(arg.start)
  BY SizesAssumption
<1>2. /\ Slab(arg).start = arg.start /\ Slab(arg).op = arg.op
      /\ Slab(arg).stride = Kept(arg.stride, Len(arg.start))
      /\ Slab(arg).count = Kept(arg.count, Len(arg.start))
      /\ Slab(arg).block = IF arg.block = << >> THEN [n \in 1..Len(arg.start) |-> 0] ELSE arg.block
  BY DEF Slab
<1>3. Axes(arg.start) = 1..Len(arg.start) /\ Len(arg.start) \in Nat
  BY <1>1 DEF Axes
<1>4. ASSUME NEW v \in Seq(Nat), NEW n \in 1..Len(arg.start)
      PROVE  OrOnes(Kept(v, Len(arg.start)), Len(arg.start))[n] \in Nat
  <2>1. CASE Len(v) = Len(arg.start)
    <3>1. OrOnes(Kept(v, Len(arg.start)), Len(arg.start)) = v
      BY <2>1 DEF OrOnes, Kept, Fits
    <3>. QED BY <3>1, <2>1
  <2>2. CASE Len(v) # Len(arg.start)
    <3>1. Kept(v, Len(arg.start)) = << >>
      BY <2>2 DEF Kept, Fits
    <3>2. Len(arg.start) # 0
      BY <1>3
    <3>3. OrOnes(<< >>, Len(arg.start)) = [m \in 1..Len(arg.start) |-> 1]
      BY <3>2 DEF OrOnes, Fits
    <3>. QED BY <3>1, <3>3
  <2>. QED BY <2>1, <2>2
<1>5. ASSUME NEW n \in 1..Len(arg.start)
      PROVE  /\ arg.start[n] \in Nat /\ Slab(arg).block[n] \in Nat
             /\ Stride(Slab(arg))[n] \in Nat /\ Count(Slab(arg))[n] \in Nat
  <2>1. arg.start[n] \in Nat
    <3>1. arg.start \in Seq(Nat)
      BY <1>1
    <3>. QED BY <3>1
  <2>2. Stride(Slab(arg))[n] \in Nat /\ Count(Slab(arg))[n] \in Nat
    BY <1>1, <1>2, <1>4 DEF Stride, Count
  <2>3. CASE arg.block = << >>
    BY <1>2, <2>1, <2>2, <2>3
  <2>4. CASE arg.block # << >>
    <3>1. arg.block \in Seq(Nat) /\ Len(arg.block) = Len(arg.start)
      BY <1>1, <2>4
    <3>2. arg.block[n] \in Nat
      BY <3>1
    <3>. QED BY <1>2, <2>1, <2>2, <2>4, <3>2
  <2>. QED BY <2>3, <2>4
<1>. QED BY <1>1, <1>2, <1>3, <1>5

\* An end is an unsigned number.
LEMMA EndType ==
    ASSUME NEW arg \in Slabs, NEW n \in Axes(arg.start)
    PROVE  End(Slab(arg))[n] \in 0..(HSize - 1)
<1>. DEFINE s == Slab(arg)
<1>1. /\ arg.start[n] \in Int /\ s.block[n] \in Int
      /\ Stride(s)[n] \in Int /\ Count(s)[n] \in Int /\ s.start = arg.start
  BY SlabType
<1>. HIDE DEF s
<1>2. HSize \in Nat \ {0}
  BY SizesAssumption
<1>. DEFINE x == arg.start[n] + Count(s)[n] * s.block[n] - 1
                   + (s.block[n] - Stride(s)[n]) * (Count(s)[n] - 1)
<1>3. x \in Int
  BY <1>1
<1>4. End(s)[n] = x % HSize
  BY <1>1 DEF End
<1>. HIDE DEF x
<1>. QED BY <1>2, <1>3, <1>4 DEF s

\* The elements of a hyperslab are points of its rank.
LEMMA ElementsType ==
    ASSUME NEW arg \in Slabs
    PROVE  \A p \in Elements(Slab(arg)) : p \in [Axes(arg.start) -> Nat]
<1>. SUFFICES ASSUME NEW p \in Elements(Slab(arg)) PROVE p \in [Axes(arg.start) -> Nat]
  OBVIOUS
<1>. DEFINE s == Slab(arg)
<1>1. s.start = arg.start
  BY SlabType
<1>. HIDE DEF s
<1>2. /\ p \in [Axes(arg.start) -> UNION {Along(s, n) : n \in Axes(arg.start)}]
      /\ \A n \in Axes(arg.start) : p[n] \in Along(s, n)
  BY <1>1 DEF Elements, s
<1>3. ASSUME NEW n \in Axes(arg.start) PROVE p[n] \in Nat
  <2>1. /\ arg.start[n] \in Nat /\ Stride(s)[n] \in Nat
        /\ s.block[n] \in Nat /\ Count(s)[n] \in Nat
    BY SlabType DEF s
  <2>2. PICK i \in 0..(Count(s)[n] - 1), j \in 0..(s.block[n] - 1) :
          p[n] = arg.start[n] + i * Stride(s)[n] + j
    BY <1>1, <1>2 DEF Along
  <2>3. i * Stride(s)[n] \in Nat
    BY <2>1
  <2>. QED BY <2>1, <2>2, <2>3
<1>. QED BY <1>2, <1>3

-----------------------------------------------------------------------------
(* Datasets.                                                                    *)

\* The shape of a dataset.
LEMMA ShapeType ==
    ASSUME NEW shape \in Sizes
    PROVE  /\ Len(shape) \in Nat /\ Axes(shape) = 1..Len(shape)
           /\ shape \in [Axes(shape) -> Nat]
           /\ \A n \in Axes(shape) : shape[n] \in Nat /\ shape[n] <= MaxSize
  BY SizesAssumption DEF Sizes, Axes

\* A shape in a shape in a third.
LEMMA WithinTransitive ==
    ASSUME NEW a \in Sizes, NEW b \in Sizes, NEW c \in Sizes,
           Array!Within(a, b), Array!Within(b, c)
    PROVE  Array!Within(a, c)
  BY ShapeType DEF Array!Within, Axes

LEMMA WithinItself ==
    ASSUME NEW a \in Sizes PROVE Array!Within(a, a)
  BY ShapeType DEF Array!Within, Axes

\* A point in a shape is in a larger one.
LEMMA InsideLarger ==
    ASSUME NEW a \in Sizes, NEW b \in Sizes, Array!Within(a, b),
           NEW p \in [Axes(b) -> Nat], Inside(p, a)
    PROVE  Inside(p, b)
  BY ShapeType DEF Array!Within, Axes, Inside

\* What the dataset is extended to is no smaller, if ends do not wrap.
LEMMA ExtendedType ==
    ASSUME NEW arg \in Slabs, NEW shape \in Sizes, Len(arg.start) = Len(shape)
    PROVE  /\ Extended(Slab(arg), shape) \in [Axes(shape) -> Nat]
           /\ EndsFit => \A n \in Axes(shape) : shape[n] <= Extended(Slab(arg), shape)[n]
<1>1. Axes(shape) = Axes(arg.start)
  BY ShapeType, SlabType
<1>2. HSize \in Nat \ {0}
  BY SizesAssumption
<1>3. ASSUME NEW n \in Axes(shape)
      PROVE  /\ Extended(Slab(arg), shape)[n] \in Nat
             /\ EndsFit => shape[n] <= Extended(Slab(arg), shape)[n]
  <2>. DEFINE e == End(Slab(arg))[n]
  <2>1. e \in 0..(HSize - 1) /\ shape[n] \in Nat
    BY <1>1, EndType, ShapeType
  <2>2. Extended(Slab(arg), shape)[n] = IF e > shape[n] THEN (e + 1) % HSize ELSE shape[n]
    BY DEF Extended
  <2>3. EndsFit => e + 1 < HSize
    BY <1>1 DEF EndsFit
  <2>. HIDE DEF e
  <2>4. (e + 1) % HSize \in Nat /\ (e + 1 < HSize => (e + 1) % HSize = e + 1)
    BY <1>2, <2>1
  <2>. QED BY <2>1, <2>2, <2>3, <2>4
<1>4. Extended(Slab(arg), shape) \in [Axes(shape) -> Nat]
  BY <1>3 DEF Extended
<1>. QED BY <1>3, <1>4

\* The same elements of two datasets are written, with the same values.
SameContent(old, new) ==
    /\ DOMAIN new.written = DOMAIN old.written
    /\ \A p \in DOMAIN old.written : new.written[p] = old.written[p]

\* H5Dset_extent: nothing is lost when the dataset does not get smaller.
LEMMA SetExtentKeeps ==
    ASSUME NEW array, IsArray(array), NEW size \in [Axes(array.shape) -> Nat],
           \A n \in Axes(array.shape) : array.shape[n] <= size[n]
    PROVE  LET new == SetExtent(array, size) IN
           /\ IsArray(new) /\ SameContent(array, new)
           /\ Array!Within(array.shape, new.shape)
<1>1. array.shape \in Sizes /\ array = [shape |-> array.shape, written |-> array.written]
  BY DEF IsArray
<1>2. CASE \E n \in Axes(size) : size[n] > MaxSize
  BY <1>1, <1>2, WithinItself DEF SetExtent, SameContent
<1>3. CASE ~(\E n \in Axes(size) : size[n] > MaxSize)
  <2>. DEFINE new == SetExtent(array, size)
  <2>1. /\ new.shape = size
        /\ new.written = [p \in {q \in DOMAIN array.written : Inside(q, size)} |->
                            array.written[p]]
        /\ new = [shape |-> new.shape, written |-> new.written]
    BY <1>3 DEF SetExtent
  <2>2. Axes(array.shape) = 1..Len(array.shape) /\ Len(array.shape) \in Nat
    BY <1>1, ShapeType
  <2>3. size \in [1..Len(array.shape) -> 0..MaxSize]
    BY <1>3, <2>2, SizesAssumption DEF Axes
  <2>4. size \in Sizes /\ Axes(size) = Axes(array.shape)
    BY <2>2, <2>3, FunctionIsSeq DEF Sizes, Axes
  <2>5. Array!Within(array.shape, size)
    BY <2>4 DEF Array!Within, Axes
  <2>6. \A p \in DOMAIN array.written : Inside(p, size) /\ p \in [Axes(size) -> Nat]
    BY <1>1, <2>4, <2>5, InsideLarger DEF IsArray
  <2>7. new.written = [p \in DOMAIN array.written |-> array.written[p]]
    BY <2>1, <2>6
  <2>. HIDE DEF new
  <2>8. IsArray(new)
    BY <2>1, <2>4, <2>6, <2>7 DEF IsArray
  <2>. QED BY <2>1, <2>5, <2>7, <2>8 DEF new, SameContent
<1>. QED BY <1>2, <1>3

\* H5Dwrite into a dataset that holds the selection.
LEMMA PutWrites ==
    ASSUME NEW array, IsArray(array), NEW v \in Values, NEW sel,
           sel # All => \A p \in sel : p \in [Axes(array.shape) -> Nat] /\ Inside(p, array.shape)
    PROVE  LET new == Put(array, sel, v) IN
           /\ IsArray(new) /\ new.shape = array.shape
           /\ DOMAIN array.written \subseteq DOMAIN new.written
           /\ \A p \in DOMAIN new.written :
                \/ new.written[p] = v
                \/ p \in DOMAIN array.written /\ new.written[p] = array.written[p]
<1>. DEFINE where == IF sel = All
                     THEN {p \in [Axes(array.shape) -> 0 .. MaxSize] : Inside(p, array.shape)}
                     ELSE sel
            new == Put(array, sel, v)
<1>1. array.shape \in Sizes /\ array = [shape |-> array.shape, written |-> array.written]
  BY DEF IsArray
<1>2. /\ new.shape = array.shape
      /\ new.written = [p \in where \cup DOMAIN array.written |->
                          IF p \in where THEN v ELSE array.written[p]]
      /\ new = [shape |-> new.shape, written |-> new.written]
  BY <1>1 DEF Put
<1>3. \A p \in where : p \in [Axes(array.shape) -> Nat] /\ Inside(p, array.shape)
  BY SizesAssumption
<1>. HIDE DEF where, new
<1>4. /\ DOMAIN new.written = where \cup DOMAIN array.written
      /\ \A p \in where : new.written[p] = v
      /\ \A p \in DOMAIN array.written \ where : new.written[p] = array.written[p]
  BY <1>2
<1>5. IsArray(new)
  BY <1>1, <1>2, <1>3, <1>4 DEF IsArray
<1>. QED BY <1>2, <1>4, <1>5 DEF new

-----------------------------------------------------------------------------
(* Applying a hyperslab.                                                        *)

Object == [id : Gone .. Len(arrays), extent : Sizes, sel : SUBSET Seq(Nat),
           shape : Sizes, slabs : Nat]

\* The points of a rank.
IsSelection(sel, shape) == sel # All => \A p \in sel : p \in [Axes(shape) -> Nat]

LEMMA CombineType ==
    ASSUME NEW arg \in Slabs, NEW shape \in Sizes, Len(arg.start) = Len(shape),
           NEW sel \in SUBSET Seq(Nat), IsSelection(sel, shape)
    PROVE  /\ Combine(sel, Slab(arg)) \in SUBSET Seq(Nat)
           /\ IsSelection(Combine(sel, Slab(arg)), shape)
<1>1. Axes(arg.start) = Axes(shape) /\ Axes(shape) = 1..Len(shape) /\ Len(shape) \in Nat
  BY ShapeType, SlabType
<1>2. \A p \in Elements(Slab(arg)) : p \in [Axes(shape) -> Nat] /\ p \in Seq(Nat)
  BY <1>1, ElementsType, FunctionIsSeq
<1>3. Slab(arg).op \in {"SET", "OR"}
  BY SlabType
<1>4. CASE Slab(arg).op = "SET"
  BY <1>2, <1>4 DEF Combine, IsSelection
<1>5. CASE Slab(arg).op = "OR" /\ sel = All
  BY <1>5 DEF Combine, IsSelection
<1>6. CASE Slab(arg).op = "OR" /\ sel # All
  BY <1>2, <1>6 DEF Combine, IsSelection
<1>. QED BY <1>3, <1>4, <1>5, <1>6

\* What a hyperslab makes of a dataset and of an object that is not ahead of it.
LEMMA AppliedType ==
    ASSUME IInv, EndsFit, NEW h \in Handles, handle[h].id \in DOMAIN arrays,
           NEW arg \in Slabs, NEW resize \in BOOLEAN
    PROVE  LET out == Applied(h, Slab(arg), resize)
               array == arrays[handle[h].id]
           IN  /\ IsArray(out.array) /\ SameContent(array, out.array)
               /\ Array!Within(array.shape, out.array.shape)
               /\ ~resize => out.array = array
               /\ out.ok \in BOOLEAN
               /\ out.object \in Object /\ out.object.id = handle[h].id
               /\ out.object.shape = out.array.shape
               /\ Array!Within(out.object.extent, out.array.shape)
               /\ IsSelection(out.object.sel, out.array.shape)
               /\ out.ok /\ out.object.sel # All =>
                    \A p \in out.object.sel : Inside(p, out.array.shape)
<1>. DEFINE slab == Slab(arg)
            array == arrays[handle[h].id]
            ranks == Len(arg.start) = Len(array.shape)
            extend == ranks /\ resize /\ Extends(slab, array.shape)
            after == IF extend THEN SetExtent(array, Extended(slab, array.shape)) ELSE array
            extent == IF extend THEN after.shape ELSE handle[h].extent
            before == IF extend THEN All ELSE handle[h].sel
            takes == ranks /\ Selectable(slab)
            sel == IF takes THEN Combine(before, slab) ELSE before
            slabs == handle[h].slabs + 1
            out == Applied(h, slab, resize)
<1>1. /\ out.array = after /\ out.ok = (takes /\ Valid(sel, extent))
      /\ out.object = [handle[h] EXCEPT !.extent = extent, !.sel = sel,
                                        !.shape = after.shape, !.slabs = slabs]
  BY SlabType DEF Applied
<1>2. /\ IsArray(array) /\ array.shape \in Sizes /\ handle[h] \in Object
      /\ Array!Within(handle[h].extent, handle[h].shape)
      /\ Array!Within(handle[h].shape, array.shape)
      /\ IsSelection(handle[h].sel, array.shape)
  BY DEF IInv, TypeOK, KnowsLess, SelInv, IsSelection, IsArray, Object
<1>3. /\ handle[h].extent \in Sizes /\ handle[h].shape \in Sizes
      /\ handle[h].sel \in SUBSET Seq(Nat) /\ handle[h].slabs \in Nat
  BY <1>2 DEF Object
<1>4. /\ IsArray(after) /\ SameContent(array, after) /\ Array!Within(array.shape, after.shape)
      /\ ~resize => after = array
  <2>1. CASE extend
    BY <1>2, <2>1, ExtendedType, SetExtentKeeps
  <2>2. CASE ~extend
    BY <1>2, <2>2, WithinItself DEF SameContent
  <2>. QED BY <2>1, <2>2
<1>5. after.shape \in Sizes /\ Axes(after.shape) = Axes(array.shape)
  BY <1>4 DEF IsArray, Array!Within, Axes
<1>6. extent \in Sizes /\ Array!Within(extent, after.shape)
  <2>1. CASE extend
    BY <1>5, <2>1, WithinItself
  <2>2. CASE ~extend
    BY <1>2, <1>3, <1>5, <2>2, WithinTransitive
  <2>. QED BY <2>1, <2>2
<1>7. before \in SUBSET Seq(Nat) /\ IsSelection(before, array.shape)
  <2>1. All \in SUBSET Seq(Nat) /\ IsSelection(All, array.shape)
    BY DEF All, IsSelection
  <2>. QED BY <1>2, <1>3, <2>1
<1>8. sel \in SUBSET Seq(Nat) /\ IsSelection(sel, after.shape)
  <2>. HIDE DEF before
  <2>1. CASE takes
    BY <1>2, <1>5, <1>7, <2>1, CombineType DEF IsSelection
  <2>2. CASE ~takes
    BY <1>5, <1>7, <2>2 DEF IsSelection
  <2>. QED BY <2>1, <2>2
<1>. HIDE DEF after, extent, sel, takes, array, slabs
<1>9. /\ out.object \in Object /\ out.object.id = handle[h].id
      /\ out.object.shape = after.shape /\ out.object.extent = extent
      /\ out.object.sel = sel
  <2>. HIDE DEF out
  <2>1. /\ handle[h] \in Object /\ extent \in Sizes /\ sel \in SUBSET Seq(Nat)
        /\ after.shape \in Sizes
    BY <1>2, <1>5, <1>6, <1>8
  <2>. DEFINE new == [handle[h] EXCEPT !.extent = extent, !.sel = sel,
                                       !.shape = after.shape, !.slabs = slabs]
  <2>2. out.object = new
    BY <1>1
  <2>3. slabs \in Nat
    BY <1>3 DEF slabs
  <2>4. /\ new \in Object /\ new.id = handle[h].id
        /\ new.extent = extent /\ new.sel = sel /\ new.shape = after.shape
    <3>. DEFINE Ids == Gone .. Len(arrays)
                Sets == SUBSET Seq(Nat)
    <3>1. Object = [id : Ids, extent : Sizes, sel : Sets, shape : Sizes, slabs : Nat]
      BY DEF Object
    <3>2. sel \in Sets
      BY <2>1
    <3>. HIDE DEF Ids, Sets
    <3>. QED BY <2>1, <2>3, <3>1, <3>2
  <2>. HIDE DEF new
  <2>. QED BY <2>2, <2>4
<1>10. ASSUME out.ok, sel # All, NEW p \in sel PROVE Inside(p, after.shape)
  <2>1. Inside(p, extent) /\ p \in [Axes(after.shape) -> Nat]
    BY <1>1, <1>8, <1>10 DEF Valid, IsSelection
  <2>. QED BY <1>5, <1>6, <2>1, InsideLarger
<1>11. out.ok \in BOOLEAN
  BY <1>1, Zenon
<1>. HIDE DEF out
<1>. QED BY <1>1, <1>4, <1>6, <1>8, <1>9, <1>10, <1>11 DEF out, array

-----------------------------------------------------------------------------
(* What a step does to an object and to the datasets.                           *)

\* What an object knows of the datasets in "all", which it is not ahead of.
Behind(object, all) ==
    object.id \in DOMAIN all =>
        /\ Array!Within(object.extent, object.shape)
        /\ Array!Within(object.shape, all[object.id].shape)
        /\ IsSelection(object.sel, all[object.id].shape)

LEMMA BehindAll ==
    KnowsLess /\ SelInv <=> \A g \in Handles : Behind(handle[g], arrays)
  BY DEF KnowsLess, SelInv, Behind, IsSelection

\* The datasets only grow, and there may be more of them.
Grown ==
    /\ arrays' \in Seq(ToSet(arrays')) /\ \A o \in DOMAIN arrays' : IsArray(arrays'[o])
    /\ DOMAIN arrays \subseteq DOMAIN arrays'
    /\ \A o \in DOMAIN arrays : Array!Within(arrays[o].shape, arrays'[o].shape)

\* An object that does nothing stays behind.
LEMMA StaysBehind ==
    ASSUME IInv, Grown, NEW g \in Handles, handle'[g] = handle[g]
    PROVE  handle'[g] \in Object' /\ Behind(handle'[g], arrays')
<1>1. /\ arrays \in Seq(ToSet(arrays)) /\ DOMAIN arrays = 1..Len(arrays) /\ Len(arrays) \in Nat
      /\ handle[g] \in Object /\ Behind(handle[g], arrays)
      /\ \A o \in DOMAIN arrays : arrays[o].shape \in Sizes
  BY BehindAll DEF IInv, TypeOK, Object, IsArray
<1>2. /\ DOMAIN arrays' = 1..Len(arrays') /\ Len(arrays') \in Nat
      /\ \A o \in DOMAIN arrays' : arrays'[o].shape \in Sizes
  BY DEF Grown, IsArray
<1>3. Len(arrays) <= Len(arrays')
  BY <1>1, <1>2 DEF Grown
<1>4. handle[g].id \in Gone .. Len(arrays) /\ handle[g].id \in Gone .. Len(arrays')
  BY <1>1, <1>2, <1>3 DEF Object, Gone
<1>5. handle[g] \in Object'
  BY <1>1, <1>4 DEF Object
<1>6. ASSUME handle[g].id \in DOMAIN arrays' PROVE Behind(handle[g], arrays')
  <2>. DEFINE o == handle[g].id
  <2>1. o \in DOMAIN arrays
    BY <1>1, <1>2, <1>4, <1>6 DEF Gone
  <2>2. /\ Array!Within(handle[g].shape, arrays[o].shape)
        /\ Array!Within(arrays[o].shape, arrays'[o].shape)
        /\ handle[g].shape \in Sizes
    BY <1>1, <2>1 DEF Behind, Grown, Object
  <2>3. Array!Within(handle[g].shape, arrays'[o].shape)
    BY <1>1, <1>2, <1>6, <2>1, <2>2, WithinTransitive
  <2>4. Axes(arrays[o].shape) = Axes(arrays'[o].shape)
    BY <2>2 DEF Array!Within, Axes
  <2>. QED BY <1>1, <2>1, <2>3, <2>4 DEF Behind, IsSelection
<1>. QED BY <1>5, <1>6 DEF Behind

\* One object does something, and is behind afterwards: so are all.
LEMMA OneMoves ==
    ASSUME IInv, Grown, NEW h \in Handles, NEW object \in Object',
           handle' = [handle EXCEPT ![h] = object], Behind(object, arrays'),
           link' \in 0 .. Len(arrays'), status' \in [ok : BOOLEAN, moved : BOOLEAN]
    PROVE  IInv'
<1>1. handle \in [Handles -> Object]
  BY DEF IInv, TypeOK, Object
<1>2. \A g \in Handles : handle'[g] \in Object' /\ Behind(handle'[g], arrays')
  <2>1. ASSUME NEW g \in Handles PROVE handle'[g] \in Object' /\ Behind(handle'[g], arrays')
    <3>1. CASE g = h
      BY <1>1, <3>1
    <3>2. CASE g # h
      BY <1>1, <3>2, StaysBehind
    <3>. QED BY <3>1, <3>2
  <2>. QED BY <2>1
<1>3. handle' \in [Handles -> Object']
  BY <1>1, <1>2
<1>4. TypeOK'
  BY <1>3 DEF TypeOK, Grown, Object
<1>5. (KnowsLess /\ SelInv)'
  BY <1>2 DEF KnowsLess, SelInv, Behind, IsSelection
<1>. QED BY <1>4, <1>5 DEF IInv

\* Applying a hyperslab makes "new" of the dataset and "object" of the object, and
\* writes v, if anything.
Touches(h, new, object, v) ==
    /\ handle' = [handle EXCEPT ![h] = object]
    /\ arrays' = [arrays EXCEPT ![handle[h].id] = new]
    /\ link' = link /\ status' \in [ok : BOOLEAN, moved : BOOLEAN]
    /\ IsArray(new) /\ Array!Written(arrays[handle[h].id], new, v)
    /\ object \in Object /\ object.id = handle[h].id /\ object.shape = new.shape
    /\ Array!Within(object.extent, new.shape) /\ IsSelection(object.sel, new.shape)

LEMMA SlabTouches ==
    ASSUME IInv, EndsFit, NEW h \in Handles, NEW arg \in Slabs,
           SetHyperslab(h, arg) \/ ReadData(h, arg) \/ \E v \in Values : WriteData(h, arg, v)
    PROVE  \E v \in Values : \E new, object : Touches(h, new, object, v)
<1>. DEFINE o == handle[h].id
            out(resize) == Applied(h, Slab(arg), resize)
<1>1. handle[h].id \in DOMAIN arrays
  BY DEF SetHyperslab, ReadData, WriteData, OnOpen
<1>2. IsArray(arrays[o]) /\ arrays[o].shape \in Sizes
  BY <1>1 DEF IInv, TypeOK, IsArray
<1>3. \A resize \in BOOLEAN :
        /\ IsArray(out(resize).array) /\ SameContent(arrays[o], out(resize).array)
        /\ Array!Within(arrays[o].shape, out(resize).array.shape)
        /\ ~resize => out(resize).array = arrays[o]
        /\ out(resize).ok \in BOOLEAN
        /\ out(resize).object \in Object /\ out(resize).object.id = o
        /\ out(resize).object.shape = out(resize).array.shape
        /\ Array!Within(out(resize).object.extent, out(resize).array.shape)
        /\ IsSelection(out(resize).object.sel, out(resize).array.shape)
        /\ out(resize).ok /\ out(resize).object.sel # All =>
             \A p \in out(resize).object.sel : Inside(p, out(resize).array.shape)
  BY <1>1, AppliedType
<1>. HIDE DEF out
<1>4. PICK v \in Values : TRUE
  BY SizesAssumption
<1>5. \A resize \in BOOLEAN : Array!Written(arrays[o], out(resize).array, v)
  BY <1>3 DEF Array!Written, Array!Inside, SameContent, IsArray, Inside, Axes
<1>6. CASE SetHyperslab(h, arg)
  <2>1. /\ handle' = [handle EXCEPT ![h] = out(TRUE).object]
        /\ arrays' = [arrays EXCEPT ![o] = out(TRUE).array]
        /\ status' = [ok |-> out(TRUE).ok, moved |-> FALSE] /\ link' = link
    BY <1>6 DEF SetHyperslab, out
  <2>2. status' \in [ok : BOOLEAN, moved : BOOLEAN]
    BY <1>3, <2>1
  <2>3. Touches(h, out(TRUE).array, out(TRUE).object, v)
    BY <1>3, <1>5, <2>1, <2>2 DEF Touches
  <2>. QED BY <2>3
<1>7. CASE ReadData(h, arg)
  <2>1. /\ handle' = [handle EXCEPT ![h] = out(FALSE).object]
        /\ arrays' = arrays /\ link' = link
        /\ status' = [ok |-> out(FALSE).ok,
                      moved |-> out(FALSE).ok /\ out(FALSE).points = Prod(Slab(arg).block)]
    BY <1>7 DEF ReadData, out
  <2>2. status' \in [ok : BOOLEAN, moved : BOOLEAN]
    BY <1>3, <2>1, Zenon
  <2>3. arrays' = [arrays EXCEPT ![o] = out(FALSE).array]
    <3>1. out(FALSE).array = arrays[o]
      BY <1>3
    <3>2. arrays \in Seq(ToSet(arrays)) /\ o \in DOMAIN arrays
      BY <1>1 DEF IInv, TypeOK
    <3>3. [arrays EXCEPT ![o] = arrays[o]] = arrays
      BY <3>2
    <3>. QED BY <2>1, <3>1, <3>3
  <2>4. Touches(h, out(FALSE).array, out(FALSE).object, v)
    BY <1>3, <1>5, <2>1, <2>2, <2>3 DEF Touches
  <2>. QED BY <2>4
<1>8. ASSUME NEW w \in Values, WriteData(h, arg, w)
      PROVE  \E u \in Values : \E new, object : Touches(h, new, object, u)
  <2>. DEFINE moved == out(TRUE).ok /\ out(TRUE).points = NofDatapoints(Slab(arg))
              new == IF moved THEN Put(out(TRUE).array, out(TRUE).object.sel, w)
                              ELSE out(TRUE).array
  <2>1. /\ handle' = [handle EXCEPT ![h] = out(TRUE).object]
        /\ arrays' = [arrays EXCEPT ![o] = new]
        /\ status' = [ok |-> out(TRUE).ok, moved |-> moved] /\ link' = link
    BY <1>8 DEF WriteData, out
  <2>2. status' \in [ok : BOOLEAN, moved : BOOLEAN]
    BY <1>3, <2>1, Zenon
  <2>3. CASE moved
    <3>1. /\ IsArray(new) /\ new.shape = out(TRUE).array.shape
          /\ DOMAIN out(TRUE).array.written \subseteq DOMAIN new.written
          /\ \A p \in DOMAIN new.written :
               \/ new.written[p] = w
               \/ p \in DOMAIN out(TRUE).array.written
                  /\ new.written[p] = out(TRUE).array.written[p]
      <4>. DEFINE a == out(TRUE).array
                  sel == out(TRUE).object.sel
      <4>1. new = Put(a, sel, w) /\ IsArray(a)
        BY <1>3, <2>3
      <4>2. sel # All => \A p \in sel : p \in [Axes(a.shape) -> Nat] /\ Inside(p, a.shape)
        BY <1>3, <2>3 DEF IsSelection
      <4>. HIDE DEF new, a, sel
      <4>3. LET n == Put(a, sel, w) IN
            /\ IsArray(n) /\ n.shape = a.shape
            /\ DOMAIN a.written \subseteq DOMAIN n.written
            /\ \A p \in DOMAIN n.written :
                 \/ n.written[p] = w
                 \/ p \in DOMAIN a.written /\ n.written[p] = a.written[p]
        BY <4>1, <4>2, PutWrites
      <4>. QED BY <4>1, <4>3 DEF a
    <3>. HIDE DEF new
    <3>2. Array!Written(arrays[o], new, w)
      BY <1>3, <3>1 DEF Array!Written, Array!Inside, SameContent, IsArray, Inside, Axes
    <3>3. Touches(h, new, out(TRUE).object, w)
      BY <1>3, <2>1, <2>2, <3>1, <3>2 DEF Touches
    <3>. QED BY <3>3
  <2>4. CASE ~moved
    <3>1. new = out(TRUE).array
      BY <2>4
    <3>2. Touches(h, out(TRUE).array, out(TRUE).object, v)
      BY <1>3, <1>5, <2>1, <2>2, <3>1 DEF Touches
    <3>. QED BY <3>2
  <2>. QED BY <2>3, <2>4
<1>. QED BY <1>6, <1>7, <1>8

\* A hyperslab that is applied keeps the invariant, and is a step of the array.
LEMMA TouchKeeps ==
    ASSUME IInv, NEW h \in Handles, handle[h].id \in DOMAIN arrays,
           NEW v \in Values, NEW new, NEW object, Touches(h, new, object, v)
    PROVE  IInv' /\ Array!Put
<1>. DEFINE o == handle[h].id
<1>1. /\ arrays \in Seq(ToSet(arrays)) /\ \A i \in DOMAIN arrays : IsArray(arrays[i])
      /\ link \in 0 .. Len(arrays)
  BY DEF IInv, TypeOK
<1>2. /\ IsArray(new) /\ arrays' = [arrays EXCEPT ![o] = new] /\ o \in DOMAIN arrays
      /\ Array!Written(arrays[o], new, v)
  BY DEF Touches
<1>. HIDE DEF o
<1>3. arrays' \in Seq(ToSet(arrays) \cup {new}) /\ Len(arrays') = Len(arrays)
  BY <1>1, <1>2
<1>4. /\ DOMAIN arrays' = DOMAIN arrays /\ arrays'[o] = new
      /\ \A i \in DOMAIN arrays \ {o} : arrays'[i] = arrays[i]
  BY <1>1, <1>2
<1>5. arrays' \in Seq(ToSet(arrays'))
  BY <1>3, OwnMembers
<1>6. ASSUME NEW i \in DOMAIN arrays
      PROVE  IsArray(arrays'[i]) /\ Array!Within(arrays[i].shape, arrays'[i].shape)
  <2>1. CASE i = o
    BY <1>2, <1>4, <2>1 DEF Array!Written
  <2>2. CASE i # o
    BY <1>1, <1>4, <2>2, WithinItself DEF IsArray
  <2>. QED BY <2>1, <2>2
<1>7. Grown
  BY <1>4, <1>5, <1>6 DEF Grown
<1>8. object \in Object' /\ Behind(object, arrays')
  <2>1. object \in Object'
    BY <1>3 DEF Touches, Object
  <2>2. object.shape = new.shape /\ new.shape \in Sizes /\ object.id = o
        /\ Array!Within(object.extent, new.shape) /\ IsSelection(object.sel, new.shape)
    BY <1>2 DEF Touches, IsArray, o
  <2>. QED BY <2>1, <2>2, <1>4, WithinItself DEF Behind
<1>9. IInv'
  <2>1. /\ handle' = [handle EXCEPT ![h] = object] /\ link' = link
        /\ status' \in [ok : BOOLEAN, moved : BOOLEAN]
    BY DEF Touches
  <2>. QED BY <2>1, <1>1, <1>3, <1>7, <1>8, OneMoves
<1>10. Array!Put
  BY <1>2, <1>4 DEF Array!Put
<1>. QED BY <1>9, <1>10

\* An object on a dataset it has just opened or made.
LEMMA OnDatasetType ==
    ASSUME IInv, NEW h \in Handles, NEW o \in 0 .. Len(arrays'), NEW shape \in Sizes
    PROVE  LET object == OnDataset(h, o, shape) IN
           /\ object \in Object' /\ object.id = o
           /\ object.extent = shape /\ object.shape = shape /\ object.sel = All
<1>1. handle[h] \in Object /\ All \in SUBSET Seq(Nat)
  BY DEF IInv, TypeOK, Object, All
<1>. DEFINE Ids == Gone .. Len(arrays)
            Idz == Gone .. Len(arrays')
            Sets == SUBSET Seq(Nat)
<1>2. /\ Object = [id : Ids, extent : Sizes, sel : Sets, shape : Sizes, slabs : Nat]
      /\ Object' = [id : Idz, extent : Sizes, sel : Sets, shape : Sizes, slabs : Nat]
  BY DEF Object
<1>3. o \in Idz /\ All \in Sets
  BY <1>1 DEF Gone
<1>. HIDE DEF Ids, Idz, Sets
<1>. QED BY <1>1, <1>2, <1>3 DEF OnDataset

\* The datasets as they are.
LEMMA GrownNot ==
    ASSUME IInv, arrays' = arrays PROVE Grown
  BY WithinItself DEF Grown, IInv, TypeOK, IsArray

LEMMA OpenExistingKeeps ==
    ASSUME IInv, NEW h \in Handles, link # None, OpenExisting(h) PROVE IInv' /\ arrays' = arrays
<1>1. /\ link' = link /\ arrays' = arrays /\ status' = [ok |-> TRUE, moved |-> FALSE]
      /\ handle' = [handle EXCEPT ![h] = OnDataset(h, link, arrays[link].shape)]
  BY DEF OpenExisting
<1>2. link \in 0 .. Len(arrays) /\ link \in DOMAIN arrays /\ IsArray(arrays[link])
  BY DEF IInv, TypeOK, None
<1>. DEFINE object == OnDataset(h, link, arrays[link].shape)
<1>3. arrays[link].shape \in Sizes
  BY <1>2 DEF IsArray
<1>4. /\ object \in Object' /\ object.id = link /\ object.sel = All
      /\ object.extent = arrays[link].shape /\ object.shape = arrays[link].shape
  BY <1>1, <1>2, <1>3, OnDatasetType
<1>. HIDE DEF object
<1>5. Behind(object, arrays')
  BY <1>1, <1>3, <1>4, WithinItself DEF Behind, IsSelection
<1>6. link' \in 0 .. Len(arrays') /\ status' \in [ok : BOOLEAN, moved : BOOLEAN]
  BY <1>1, <1>2
<1>7. IInv'
  BY <1>1, <1>4, <1>5, <1>6, GrownNot, OneMoves DEF object
<1>. QED BY <1>1, <1>7

LEMMA CreateNewKeeps ==
    ASSUME IInv, NEW h \in Handles, NEW shape \in Shapes, NEW chunks, CreateNew(h, shape, chunks)
    PROVE  IInv' /\ (Array!Create \/ arrays' = arrays)
<1>. DEFINE made == Creatable(shape, chunks)
            fresh == [shape |-> shape, written |-> << >>]
            object == OnDataset(h, link', shape)
<1>1. /\ link' = IF made THEN Len(arrays) + 1 ELSE None
      /\ arrays' = IF made THEN Append(arrays, fresh) ELSE arrays
      /\ handle' = [handle EXCEPT ![h] = object] /\ status' = [ok |-> made, moved |-> FALSE]
  BY DEF CreateNew
<1>2. /\ arrays \in Seq(ToSet(arrays)) /\ Len(arrays) \in Nat /\ DOMAIN arrays = 1..Len(arrays)
      /\ \A i \in DOMAIN arrays : IsArray(arrays[i])
  BY DEF IInv, TypeOK
<1>3. shape \in Sizes /\ fresh.shape = shape /\ IsArray(fresh)
  BY SizesAssumption DEF Sizes, IsArray
<1>4. status' \in [ok : BOOLEAN, moved : BOOLEAN]
  <2>1. made \in BOOLEAN
    BY Zenon DEF Creatable
  <2>. QED BY <1>1, <2>1, Zenon
<1>. HIDE DEF made, fresh
<1>5. Grown /\ link' \in 0 .. Len(arrays') /\ (link' \in DOMAIN arrays' => arrays'[link'].shape = shape)
  <2>1. CASE made
    <3>1. /\ arrays' \in Seq(ToSet(arrays) \cup {fresh}) /\ Len(arrays') = Len(arrays) + 1
          /\ DOMAIN arrays' = 1..(Len(arrays) + 1) /\ arrays'[Len(arrays) + 1] = fresh
          /\ \A i \in DOMAIN arrays : arrays'[i] = arrays[i]
      BY <1>1, <1>2, <2>1
    <3>2. arrays' \in Seq(ToSet(arrays'))
      BY <3>1, OwnMembers
    <3>3. \A i \in DOMAIN arrays' : IsArray(arrays'[i])
      BY <1>2, <1>3, <3>1
    <3>4. \A i \in DOMAIN arrays : Array!Within(arrays[i].shape, arrays'[i].shape)
      BY <1>2, <3>1, WithinItself DEF IsArray
    <3>5. Grown
      BY <1>2, <3>1, <3>2, <3>3, <3>4 DEF Grown
    <3>. QED BY <1>1, <1>2, <1>3, <2>1, <3>1, <3>5
  <2>2. CASE ~made
    BY <1>1, <1>2, <2>2, GrownNot DEF None
  <2>. QED BY <2>1, <2>2
<1>6. /\ object \in Object' /\ object.id = link'
      /\ object.extent = shape /\ object.shape = shape /\ object.sel = All
  BY <1>3, <1>5, OnDatasetType
<1>. HIDE DEF object
<1>7. Behind(object, arrays')
  BY <1>3, <1>5, <1>6, WithinItself DEF Behind, IsSelection
<1>8. IInv'
  BY <1>1, <1>4, <1>5, <1>6, <1>7, OneMoves
<1>9. Array!Create \/ arrays' = arrays
  BY <1>1 DEF Array!Create, Array!New, fresh
<1>. QED BY <1>8, <1>9

\* An object that is let go of, or that finds nothing to open.
LEMMA LetGoKeeps ==
    ASSUME IInv, NEW h \in Handles, OpenNone(h) \/ Destroy(h) PROVE IInv' /\ arrays' = arrays
<1>. DEFINE Ids == Gone .. Len(arrays)
            Sets == SUBSET Seq(Nat)
<1>1. /\ link' = link /\ arrays' = arrays /\ status' \in [ok : BOOLEAN, moved : BOOLEAN]
      /\ link \in 0 .. Len(arrays) /\ Len(arrays) \in Nat /\ DOMAIN arrays = 1..Len(arrays)
  <2>1. arrays \in Seq(ToSet(arrays)) /\ link \in 0 .. Len(arrays)
    BY DEF IInv, TypeOK
  <2>2. CASE OpenNone(h)
    <3>1. link' = link /\ arrays' = arrays /\ status' = [ok |-> FALSE, moved |-> FALSE]
      BY <2>2 DEF OpenNone
    <3>. QED BY <2>1, <3>1
  <2>3. CASE Destroy(h)
    <3>1. link' = link /\ arrays' = arrays /\ status' = [ok |-> TRUE, moved |-> FALSE]
      BY <2>3 DEF Destroy
    <3>. QED BY <2>1, <3>1
  <2>. QED BY <2>2, <2>3
<1>2. Object = [id : Ids, extent : Sizes, sel : Sets, shape : Sizes, slabs : Nat]
      /\ Object' = Object /\ handle \in [Handles -> Object]
  BY <1>1 DEF Object, IInv, TypeOK
<1>3. None \in Ids /\ Gone \in Ids /\ None \notin DOMAIN arrays /\ Gone \notin DOMAIN arrays
  BY <1>1 DEF None, Gone
<1>4. << >> \in Sizes /\ All \in Sets
  BY DEF Sizes, All
<1>. HIDE DEF Ids, Sets
<1>5. PICK object \in Object : /\ handle' = [handle EXCEPT ![h] = object]
                               /\ object.id \notin DOMAIN arrays
  <2>1. CASE OpenNone(h)
    <3>. DEFINE object == [handle[h] EXCEPT !.id = None]
    <3>1. object \in Object /\ object.id = None
      BY <1>2, <1>3
    <3>2. handle' = [handle EXCEPT ![h] = object]
      BY <1>2, <2>1 DEF OpenNone
    <3>. QED BY <1>3, <3>1, <3>2
  <2>2. CASE Destroy(h)
    <3>. DEFINE object == [Fresh EXCEPT !.id = Gone]
    <3>1. object = [id |-> Gone, extent |-> << >>, sel |-> All, shape |-> << >>, slabs |-> 0]
      BY DEF Fresh
    <3>2. object \in Object /\ object.id = Gone
      BY <1>2, <1>3, <1>4, <3>1
    <3>3. handle' = [handle EXCEPT ![h] = object]
      BY <2>2 DEF Destroy
    <3>. QED BY <1>3, <3>2, <3>3
  <2>. QED BY <2>1, <2>2
<1>6. Behind(object, arrays')
  BY <1>1, <1>5 DEF Behind
<1>7. IInv'
  BY <1>1, <1>2, <1>5, <1>6, GrownNot, OneMoves
<1>. QED BY <1>1, <1>7

-----------------------------------------------------------------------------
(* Every step.                                                                  *)

LEMMA StepKeeps ==
    ASSUME EndsFit, IInv, [Next]_vars PROVE IInv' /\ [Array!Create \/ Array!Put]_arrays
<1>1. ASSUME NEW h \in Handles, NEW flags, NEW shape \in Shapes, NEW chunks,
             Open(h, flags, shape, chunks)
      PROVE  IInv' /\ [Array!Create \/ Array!Put]_arrays
  <2>1. CASE CaseOf(flags) = "open" /\ OpenExisting(h)
    <3>1. link # None
      BY <2>1 DEF CaseOf
    <3>. QED BY <2>1, <3>1, OpenExistingKeeps
  <2>2. CASE CreateNew(h, shape, chunks)
    BY <2>2, CreateNewKeeps
  <2>3. CASE OpenNone(h)
    BY <2>3, LetGoKeeps
  <2>. QED BY <1>1, <2>1, <2>2, <2>3 DEF Open
<1>2. ASSUME NEW h \in Handles, NEW arg \in Slabs,
             SetHyperslab(h, arg) \/ ReadData(h, arg) \/ \E v \in Values : WriteData(h, arg, v)
      PROVE  IInv' /\ [Array!Create \/ Array!Put]_arrays
  <2>1. handle[h].id \in DOMAIN arrays
    BY <1>2 DEF SetHyperslab, ReadData, WriteData, OnOpen
  <2>2. PICK v \in Values : \E new, object : Touches(h, new, object, v)
    BY <1>2, SlabTouches
  <2>. QED BY <2>1, <2>2, TouchKeeps
<1>3. ASSUME NEW h \in Handles, OpenByName(h)
      PROVE  IInv' /\ [Array!Create \/ Array!Put]_arrays
  <2>1. CASE link # None /\ OpenExisting(h)
    BY <2>1, OpenExistingKeeps
  <2>2. CASE UNCHANGED << link, arrays, handle >> /\ status' = [ok |-> FALSE, moved |-> FALSE]
    BY <2>2 DEF IInv, TypeOK, KnowsLess, SelInv
  <2>. QED BY <1>3, <2>1, <2>2 DEF OpenByName
<1>4. ASSUME NEW h \in Handles, Destroy(h) PROVE IInv' /\ [Array!Create \/ Array!Put]_arrays
  BY <1>4, LetGoKeeps
<1>5. ASSUME NEW h \in Handles, OnNothing(h) PROVE IInv' /\ [Array!Create \/ Array!Put]_arrays
  <2>1. UNCHANGED << link, arrays, handle >> /\ status' = [ok |-> TRUE, moved |-> FALSE]
    BY <1>5 DEF OnNothing
  <2>. QED BY <2>1 DEF IInv, TypeOK, KnowsLess, SelInv
<1>6. CASE UNCHANGED vars
  BY <1>6 DEF IInv, TypeOK, KnowsLess, SelInv, vars
<1>. QED BY <1>1, <1>2, <1>3, <1>4, <1>5, <1>6 DEF Next

LEMMA InitInv == Init => IInv
<1>. SUFFICES ASSUME Init PROVE IInv
  OBVIOUS
<1>1. /\ link = None /\ arrays = << >> /\ handle = [h \in Handles |-> Fresh]
      /\ status = [ok |-> TRUE, moved |-> FALSE]
  BY DEF Init
<1>2. arrays \in Seq(ToSet(arrays)) /\ DOMAIN arrays = {} /\ Len(arrays) = 0
  BY <1>1
<1>3. Fresh \in Object
  <2>. DEFINE Sets == SUBSET Seq(Nat)
  <2>1. << >> \in Sizes /\ All \in Sets /\ None \in Gone .. Len(arrays)
    BY <1>2 DEF Sizes, All, None, Gone
  <2>. HIDE DEF Sets
  <2>2. Object = [id : Gone .. Len(arrays), extent : Sizes, sel : Sets, shape : Sizes, slabs : Nat]
    BY DEF Object, Sets
  <2>. QED BY <2>1, <2>2 DEF Fresh
<1>4. TypeOK
  BY <1>1, <1>2, <1>3 DEF TypeOK, Object, None
<1>5. KnowsLess /\ SelInv
  BY <1>2 DEF KnowsLess, SelInv
<1>. QED BY <1>4, <1>5 DEF IInv

\* The inductive invariant: types, KnowsLess, and selections of the dataset's rank.
THEOREM InductiveInvariant == ASSUME EndsFit PROVE Spec => []IInv
  BY InitInv, StepKeeps, PTL DEF Spec

\* A write puts values into elements that exist, and nothing else gets into a dataset.
THEOREM TypeCorrect == ASSUME EndsFit PROVE Spec => []TypeOK
<1>1. IInv => TypeOK
  BY DEF IInv
<1>. QED BY <1>1, InductiveInvariant, PTL

\* An object, and the dataspace it selects in, may be behind the dataset and is never
\* ahead of it, whatever the other objects do.
THEOREM NeverAhead == ASSUME EndsFit PROVE Spec => []KnowsLess
<1>1. IInv => KnowsLess
  BY DEF IInv
<1>. QED BY <1>1, InductiveInvariant, PTL

\* The datasets are arrays that only grow, and keep what was written.
THEOREM Refinement == ASSUME EndsFit PROVE Spec => ImplementsArray
<1>1. Init => Array!Init
  BY DEF Init, Array!Init
<1>2. IInv /\ [Next]_vars => [Array!Create \/ Array!Put]_arrays
  BY StepKeeps
<1>. QED BY <1>1, <1>2, InductiveInvariant, PTL DEF Spec, ImplementsArray, Array!Spec

-----------------------------------------------------------------------------
(* How many elements a hyperslab has.                                           *)

\* A product is what its factors make one after the other.
LEMMA ProdIs ==
    ASSUME NEW k \in Nat, NEW v, Len(v) = k,
           NEW f, f[0] = 1, \A n \in 1..k : f[n] = f[n - 1] * v[n]
    PROVE  Prod(v) = f[k]
<1>. DEFINE Rest(g) == [n \in 0..k |-> IF n = 0 THEN 1 ELSE g[n - 1] * v[n]]
            all == [n \in 0..k |-> f[n]]
            upto == CHOOSE g : g = Rest(g)
<1>1. 0 \in 0..k /\ k \in 0..k /\ \A n \in 1..k : n \in 0..k /\ n # 0 /\ n - 1 \in 0..k
  OBVIOUS
<1>2. all[0] = 1 /\ \A n \in 1..k : all[n] = all[n - 1] * v[n]
  BY <1>1
<1>3. all = Rest(all)
  <2>. DEFINE rest == Rest(all)
  <2>1. \A n \in 0..k : all[n] = rest[n]
    <3>. HIDE DEF all
    <3>. TAKE n \in 0..k
    <3>1. n # 0 => n \in 1..k
      OBVIOUS
    <3>. QED BY <1>2, <3>1
  <2>2. all = [n \in 0..k |-> all[n]] /\ rest = [n \in 0..k |-> rest[n]]
    OBVIOUS
  <2>3. all = rest
    <3>. HIDE DEF all, rest
    <3>. QED BY <2>1, <2>2, Zenon
  <2>. QED BY <2>3
<1>4. upto = Rest(upto)
  <2>. HIDE DEF all, Rest
  <2>. QED BY <1>3
<1>5. upto[0] = 1 /\ \A n \in 1..k : upto[n] = upto[n - 1] * v[n]
  <2>. HIDE DEF upto
  <2>1. upto = [n \in 0..k |-> IF n = 0 THEN 1 ELSE upto[n - 1] * v[n]]
    BY <1>4
  <2>. HIDE DEF Rest
  <2>. QED BY <1>1, <2>1
<1>. HIDE DEF upto, all
<1>. DEFINE T == {n \in 0..k : upto[n] = f[n]}
<1>6. 0 \in T /\ \A n \in 1..k : n - 1 \in T => n \in T
  BY <1>1, <1>5
<1>7. 0..k \subseteq T
  <2>. HIDE DEF T
  <2>. QED BY <1>6, Reaches
<1>8. Prod(v) = upto[k]
  BY DEF Prod, upto
<1>. QED BY <1>1, <1>7, <1>8

\* Blocks that do not overlap: a place tells the block and the place in the block.
LEMMA BlocksApart ==
    ASSUME NEW s \in Nat, NEW b \in Nat, b <= s, NEW i \in Nat, NEW i2 \in Nat, i < i2,
           NEW j \in 0..b - 1, NEW j2 \in 0..b - 1
    PROVE  i * s + j < i2 * s + j2
<1>1. PICK d \in Nat : i2 = i + 1 + d
  <2>1. i2 - i - 1 \in Nat /\ i2 = i + 1 + (i2 - i - 1)
    OBVIOUS
  <2>. QED BY <2>1
<1>2. i2 * s = i * s + s + d * s
  BY <1>1
<1>3. d * s \in Nat /\ i * s \in Nat
  OBVIOUS
<1>. QED BY <1>2, <1>3

\* Along an axis a hyperslab has its blocks.
LEMMA AlongCount ==
    ASSUME NEW arg \in Slabs, Selectable(Slab(arg)), NEW n \in Axes(arg.start)
    PROVE  LET slab == Slab(arg)
           IN  /\ IsFiniteSet(Along(slab, n))
               /\ Cardinality(Along(slab, n)) = Count(slab)[n] * slab.block[n]
<1>. DEFINE slab == Slab(arg)
            a == arg.start[n]
            s == Stride(slab)[n]
            c == Count(slab)[n]
            b == slab.block[n]
            Pairs == (0..c - 1) \X (0..b - 1)
            f == [x \in Pairs |-> a + x[1] * s + x[2]]
            A == Along(slab, n)
<1>1. a \in Nat /\ s \in Nat /\ c \in Nat /\ b \in Nat /\ slab.start = arg.start
  BY SlabType
<1>2. c > 1 => b <= s
  BY <1>1 DEF Selectable
<1>3. A = {a + i * s + j : i \in 0..c - 1, j \in 0..b - 1}
  BY <1>1 DEF Along
<1>. HIDE DEF slab, a, s, c, b, A
<1>4. \A x \in Pairs : x[1] \in 0..c - 1 /\ x[2] \in 0..b - 1 /\ x = <<x[1], x[2]>>
                        /\ f[x] = a + x[1] * s + x[2] /\ x[1] * s \in Nat
  BY <1>1
<1>. HIDE DEF f
<1>5. ASSUME NEW x \in Pairs, NEW y \in Pairs, f[x] = f[y] PROVE x = y
  <2>. DEFINE i == x[1]
              j == x[2]
              i2 == y[1]
              j2 == y[2]
  <2>1. /\ i \in 0..c - 1 /\ i2 \in 0..c - 1 /\ j \in 0..b - 1 /\ j2 \in 0..b - 1
        /\ f[x] = a + i * s + j /\ f[y] = a + i2 * s + j2
        /\ i * s \in Nat /\ i2 * s \in Nat
    BY <1>4
  <2>2. x = <<i, j>> /\ y = <<i2, j2>>
    BY <1>4
  <2>. HIDE DEF i, j, i2, j2
  <2>0. i * s + j = i2 * s + j2
    <3>. DEFINE u == i * s
                w == i2 * s
    <3>1. u \in Nat /\ w \in Nat /\ j \in Nat /\ j2 \in Nat
      BY <1>1, <2>1
    <3>2. f[x] = a + u + j /\ f[y] = a + w + j2
      BY <2>1
    <3>. HIDE DEF u, w
    <3>3. a + u + j = a + w + j2
      BY <1>5, <3>2
    <3>4. u + j = w + j2
      BY <1>1, <3>1, <3>3
    <3>. QED BY <3>4 DEF u, w
  <2>n. i * s + j \in Nat /\ i2 * s + j2 \in Nat
    <3>. DEFINE u == i * s
                w == i2 * s
    <3>1. u \in Nat /\ w \in Nat /\ j \in Nat /\ j2 \in Nat
      BY <1>1, <2>1
    <3>. HIDE DEF u, w
    <3>2. u + j \in Nat /\ w + j2 \in Nat
      BY <3>1
    <3>. QED BY <3>2 DEF u, w
  <2>3. ~(i < i2)
    <3>1. SUFFICES ASSUME i < i2 PROVE FALSE
      OBVIOUS
    <3>2. c > 1 /\ i \in Nat /\ i2 \in Nat
      BY <1>1, <2>1, <3>1
    <3>3. i * s + j < i2 * s + j2
      BY <1>1, <1>2, <2>1, <3>1, <3>2, BlocksApart
    <3>. QED BY <2>0, <2>n, <3>3
  <2>4. ~(i2 < i)
    <3>1. SUFFICES ASSUME i2 < i PROVE FALSE
      OBVIOUS
    <3>2. c > 1 /\ i \in Nat /\ i2 \in Nat
      BY <1>1, <2>1, <3>1
    <3>3. i2 * s + j2 < i * s + j
      BY <1>1, <1>2, <2>1, <3>1, <3>2, BlocksApart
    <3>. QED BY <2>0, <2>n, <3>3
  <2>5. i = i2
    BY <1>1, <2>1, <2>3, <2>4
  <2>6. j = j2
    <3>. DEFINE u == i * s
    <3>1. u + j = u + j2 /\ u \in Nat /\ j \in Nat /\ j2 \in Nat
      BY <1>1, <2>0, <2>1, <2>5
    <3>. HIDE DEF u
    <3>. QED BY <3>1
  <2>. QED BY <2>2, <2>5, <2>6
<1>6. \A t \in A : \E x \in Pairs : f[x] = t
  <2>. TAKE t \in A
  <2>1. PICK i \in 0..c - 1, j \in 0..b - 1 : t = a + i * s + j
    BY <1>3
  <2>2. <<i, j>> \in Pairs /\ f[<<i, j>>] = a + i * s + j
    BY <2>1 DEF f
  <2>. QED BY <2>1, <2>2
<1>7. \A x \in Pairs : f[x] \in A
  BY <1>3, <1>4
<1>8. f \in Bijection(Pairs, A)
  <2>1. f \in [Pairs -> A]
    BY <1>7 DEF f
  <2>2. f \in Injection(Pairs, A)
    BY <1>5, <2>1 DEF Injection, IsInjective
  <2>3. f \in Surjection(Pairs, A)
    BY <1>6, <2>1 DEF Surjection
  <2>. QED BY <2>2, <2>3 DEF Bijection
<1>9. IsFiniteSet(Pairs) /\ Cardinality(Pairs) = c * b
  <2>1. /\ IsFiniteSet(0..c - 1) /\ Cardinality(0..c - 1) = c
        /\ IsFiniteSet(0..b - 1) /\ Cardinality(0..b - 1) = b
    <3>1. 0 \in Int /\ c - 1 \in Int /\ b - 1 \in Int
      BY <1>1
    <3>2. /\ IsFiniteSet(0..c - 1) /\ Cardinality(0..c - 1) = IF 0 > c - 1 THEN 0 ELSE c - 1 - 0 + 1
          /\ IsFiniteSet(0..b - 1) /\ Cardinality(0..b - 1) = IF 0 > b - 1 THEN 0 ELSE b - 1 - 0 + 1
      BY <3>1, FS_Interval
    <3>. QED BY <1>1, <3>2
  <2>. DEFINE cs == 0..c - 1
              bs == 0..b - 1
  <2>2. IsFiniteSet(cs) /\ IsFiniteSet(bs) /\ Cardinality(cs) = c /\ Cardinality(bs) = b
    BY <2>1
  <2>. HIDE DEF cs, bs
  <2>3. IsFiniteSet(cs \X bs) /\ Cardinality(cs \X bs) = Cardinality(cs) * Cardinality(bs)
    BY <2>2, FS_Product
  <2>4. IsFiniteSet(cs \X bs) /\ Cardinality(cs \X bs) = c * b
    BY <2>2, <2>3
  <2>. QED BY <2>4 DEF cs, bs
<1>10. IsFiniteSet(A) /\ Cardinality(A) = c * b
  <2>1. ExistsBijection(Pairs, A)
    BY <1>8 DEF ExistsBijection
  <2>. HIDE DEF Pairs
  <2>. QED BY <1>9, <2>1, FS_Bijection
<1>. QED BY <1>10 DEF A, c, b, slab

\* The points with a coordinate out of a set along each of m axes.
Box(sets, all, m) == {p \in [1..m -> all] : \A n \in 1..m : p[n] \in sets[n]}

\* An axis more: each point of the box before, with each coordinate along the new axis.
LEMMA BoxNext ==
    ASSUME NEW m \in Nat \ {0}, NEW all, NEW sets, \A n \in 1..m : sets[n] \in SUBSET all,
           IsFiniteSet(sets[m]), IsFiniteSet(Box(sets, all, m - 1))
    PROVE  /\ IsFiniteSet(Box(sets, all, m))
           /\ Cardinality(Box(sets, all, m))
                = Cardinality(Box(sets, all, m - 1)) * Cardinality(sets[m])
<1>. DEFINE Old == Box(sets, all, m - 1)
            New == Box(sets, all, m)
            S == sets[m]
            f == [x \in Old \X S |-> [n \in 1..m |-> IF n = m THEN x[2] ELSE x[1][n]]]
<1>1. \A n \in 1..m : n = m \/ n \in 1..m - 1
  OBVIOUS
<1>2. m \in 1..m /\ m \notin 1..m - 1 /\ \A n \in 1..m - 1 : n \in 1..m /\ n # m
  OBVIOUS
<1>3. ASSUME NEW q \in Old, NEW d \in S
      PROVE  /\ f[<<q, d>>] \in New /\ f[<<q, d>>][m] = d
             /\ \A n \in 1..m - 1 : f[<<q, d>>][n] = q[n]
  <2>. DEFINE p == [n \in 1..m |-> IF n = m THEN d ELSE q[n]]
  <2>1. f[<<q, d>>] = p
    OBVIOUS
  <2>2. p[m] = d /\ \A n \in 1..m - 1 : p[n] = q[n]
    BY <1>2
  <2>3. \A n \in 1..m : p[n] \in sets[n] /\ p[n] \in all
    <3>1. \A n \in 1..m - 1 : q[n] \in sets[n] /\ q[n] \in all
      BY DEF Box
    <3>2. d \in sets[m] /\ d \in all
      BY <1>2
    <3>. HIDE DEF p
    <3>. QED BY <1>1, <2>2, <3>1, <3>2
  <2>4. p \in New
    BY <2>3 DEF Box
  <2>. QED BY <2>1, <2>2, <2>4
<1>. HIDE DEF f
<1>4. \A x \in Old \X S : x[1] \in Old /\ x[2] \in S /\ x = <<x[1], x[2]>>
  OBVIOUS
<1>5. ASSUME NEW x \in Old \X S, NEW y \in Old \X S, f[x] = f[y] PROVE x = y
  <2>1. PICK q \in Old, d \in S : x = <<q, d>>
    BY <1>4
  <2>2. PICK q2 \in Old, d2 \in S : y = <<q2, d2>>
    BY <1>4
  <2>3. d = d2 /\ \A n \in 1..m - 1 : q[n] = q2[n]
    BY <1>3, <1>5, <2>1, <2>2
  <2>4. q \in [1..m - 1 -> all] /\ q2 \in [1..m - 1 -> all]
    BY DEF Box
  <2>5. q = q2
    BY <2>3, <2>4
  <2>. QED BY <2>1, <2>2, <2>3, <2>5
<1>6. ASSUME NEW p \in New PROVE \E x \in Old \X S : f[x] = p
  <2>. DEFINE q == [n \in 1..m - 1 |-> p[n]]
  <2>1. p \in [1..m -> all] /\ \A n \in 1..m : p[n] \in sets[n]
    BY DEF Box
  <2>2. q \in Old /\ p[m] \in S /\ \A n \in 1..m - 1 : q[n] = p[n]
    BY <1>2, <2>1 DEF Box
  <2>. HIDE DEF q
  <2>. DEFINE d == p[m]
              x == <<q, d>>
              r == f[x]
  <2>3. r \in New /\ r[m] = p[m] /\ \A n \in 1..m - 1 : r[n] = p[n]
    BY <1>3, <2>2
  <2>4. x \in Old \X S
    BY <2>2
  <2>. HIDE DEF x, r
  <2>5. r \in [1..m -> all] /\ \A n \in 1..m : r[n] = p[n]
    BY <1>1, <2>3 DEF Box
  <2>6. r = p
    BY <2>1, <2>5
  <2>. QED BY <2>4, <2>6 DEF r
<1>7. f \in Bijection(Old \X S, New)
  <2>1. f \in [Old \X S -> New]
    <3>1. \A x \in Old \X S : f[x] \in New
      BY <1>3, <1>4
    <3>. HIDE DEF New, Old
    <3>. QED BY <3>1 DEF f
  <2>2. f \in Injection(Old \X S, New)
    BY <1>5, <2>1 DEF Injection, IsInjective
  <2>3. f \in Surjection(Old \X S, New)
    BY <1>6, <2>1 DEF Surjection
  <2>. QED BY <2>2, <2>3 DEF Bijection
<1>. HIDE DEF Old, New, S
<1>8. IsFiniteSet(Old) /\ IsFiniteSet(S)
  BY DEF Old, S
<1>9. IsFiniteSet(Old \X S) /\ Cardinality(Old \X S) = Cardinality(Old) * Cardinality(S)
  BY <1>8, FS_Product
<1>10. ExistsBijection(Old \X S, New)
  BY <1>7 DEF ExistsBijection
<1>11. IsFiniteSet(New) /\ Cardinality(New) = Cardinality(Old \X S)
  BY <1>9, <1>10, FS_Bijection
<1>. QED BY <1>9, <1>11 DEF Old, New, S

\* A box has as many points as its axes have coordinates, multiplied.
LEMMA BoxCount ==
    ASSUME NEW k \in Nat, NEW all, NEW sets,
           \A n \in 1..k : sets[n] \in SUBSET all /\ IsFiniteSet(sets[n]),
           NEW v, Len(v) = k, \A n \in 1..k : v[n] = Cardinality(sets[n])
    PROVE  Cardinality(Box(sets, all, k)) = Prod(v)
<1>. DEFINE f == [n \in 0..k |-> Cardinality(Box(sets, all, n))]
            T == {n \in 0..k : IsFiniteSet(Box(sets, all, n))}
<1>1. IsFiniteSet(Box(sets, all, 0)) /\ Cardinality(Box(sets, all, 0)) = 1
  <2>1. Box(sets, all, 0) = {<< >>}
    <3>1. 1..0 = {}
      OBVIOUS
    <3>2. \A p \in [{} -> all] : p = << >>
      OBVIOUS
    <3>3. << >> \in [{} -> all]
      OBVIOUS
    <3>. QED BY <3>1, <3>2, <3>3 DEF Box
  <2>. QED BY <2>1, FS_Singleton
<1>2. ASSUME NEW m \in 1..k, IsFiniteSet(Box(sets, all, m - 1))
      PROVE  /\ IsFiniteSet(Box(sets, all, m))
             /\ Cardinality(Box(sets, all, m)) = Cardinality(Box(sets, all, m - 1)) * v[m]
  <2>1. m \in Nat \ {0} /\ \A n \in 1..m : n \in 1..k
    OBVIOUS
  <2>2. \A n \in 1..m : sets[n] \in SUBSET all
    BY <2>1
  <2>3. IsFiniteSet(sets[m]) /\ v[m] = Cardinality(sets[m])
    BY <2>1
  <2>. QED BY <1>2, <2>1, <2>2, <2>3, BoxNext
<1>3. 0..k \subseteq T
  <2>1. 0 \in T /\ \A n \in 1..k : n - 1 \in T => n \in T
    BY <1>1, <1>2
  <2>. HIDE DEF T
  <2>. QED BY <2>1, Reaches
<1>4. f[0] = 1 /\ \A n \in 1..k : f[n] = f[n - 1] * v[n]
  <2>1. 0 \in 0..k /\ \A n \in 1..k : n \in 0..k /\ n - 1 \in 0..k
    OBVIOUS
  <2>. QED BY <1>1, <1>2, <1>3, <2>1
<1>5. f[k] = Cardinality(Box(sets, all, k))
  OBVIOUS
<1>. HIDE DEF f
<1>. QED BY <1>4, <1>5, ProdIs

\* The library selects as many elements as writeData hands over.
LEMMA ElementsCount ==
    ASSUME NEW arg \in Slabs, Selectable(Slab(arg))
    PROVE  Cardinality(Elements(Slab(arg))) = NofDatapoints(Slab(arg))
<1>. DEFINE slab == Slab(arg)
            k == Len(arg.start)
            sets == [n \in 1..k |-> Along(slab, n)]
            all == UNION {Along(slab, n) : n \in 1..k}
            v == [n \in 1..k |-> Count(slab)[n] * slab.block[n]]
<1>1. k \in Nat /\ Axes(arg.start) = 1..k /\ slab.start = arg.start
  BY SlabType
<1>2. Axes(slab.block) = 1..k
  <2>1. CASE arg.block = << >>
    BY <2>1 DEF Slab, Axes
  <2>2. CASE arg.block # << >>
    <3>1. arg.block \in Seq(Nat) /\ Len(arg.block) = k
      BY <2>2, SizesAssumption
    <3>. QED BY <2>2, <3>1 DEF Slab, Axes
  <2>. QED BY <2>1, <2>2
<1>3. \A n \in 1..k : /\ IsFiniteSet(Along(slab, n))
                      /\ Cardinality(Along(slab, n)) = Count(slab)[n] * slab.block[n]
  BY <1>1, AlongCount
<1>. HIDE DEF slab, k
<1>4. NofDatapoints(slab) = Prod(v)
  BY <1>2 DEF NofDatapoints
<1>5. Elements(slab) = Box(sets, all, k)
  BY <1>1 DEF Elements, Box
<1>6. Len(v) = k
  BY <1>1
<1>7. \A n \in 1..k : /\ sets[n] \in SUBSET all /\ IsFiniteSet(sets[n])
                      /\ v[n] = Cardinality(sets[n])
  BY <1>3
<1>. HIDE DEF sets, all, v
<1>8. Cardinality(Box(sets, all, k)) = Prod(v)
  BY <1>1, <1>6, <1>7, BoxCount
<1>. QED BY <1>4, <1>5, <1>8 DEF slab

-----------------------------------------------------------------------------
(* Where a write goes.                                                          *)

\* The elements H5Dwrite writes are those of a hyperslab that was selected anew.
LEMMA WriteLands ==
    ASSUME IInv, EndsFit, NEW h \in Handles, NEW arg \in Slabs, NEW v \in Values,
           arg.op = "SET", WriteData(h, arg, v), status'.moved
    PROVE  Landed(h, arg, v)
<1>. DEFINE o == handle[h].id
            old == arrays[o]
            out == Applied(h, Slab(arg), TRUE)
            shape == out.array.shape
            where == IF out.object.sel = All
                     THEN {p \in [Axes(shape) -> 0 .. MaxSize] : Inside(p, shape)}
                     ELSE out.object.sel
            new == Put(out.array, out.object.sel, v)
<1>1. o \in DOMAIN arrays /\ out.ok /\ arrays' = [arrays EXCEPT ![o] = new]
  BY DEF WriteData, OnOpen
<1>2. IsArray(out.array) /\ SameContent(old, out.array) /\ Array!Within(old.shape, shape)
  BY <1>1, AppliedType
<1>3. Len(arg.start) = Len(old.shape) /\ out.object.sel = Elements(Slab(arg))
  <2>1. /\ out.ok => Len(arg.start) = Len(old.shape)
        /\ out.ok => \E before : out.object.sel = Combine(before, Slab(arg))
    <3>1. handle[h] \in Object
      BY DEF IInv, TypeOK, Object
    <3>. QED BY <3>1, SlabType DEF Applied, Object
  <2>2. \A before : Combine(before, Slab(arg)) = Elements(Slab(arg))
    BY SlabType DEF Combine
  <2>. QED BY <1>1, <2>1, <2>2
<1>4. new.written = [p \in where \cup DOMAIN out.array.written |->
                       IF p \in where THEN v ELSE out.array.written[p]]
  BY <1>2 DEF Put, IsArray
<1>5. where = Elements(Slab(arg))
  <2>1. CASE Elements(Slab(arg)) = All
    <3>1. << >> \in [Axes(arg.start) -> Nat]
      BY <2>1, ElementsType DEF All
    <3>2. Axes(arg.start) = {}
      BY <3>1
    <3>3. Axes(shape) = {}
      <4>1. Axes(old.shape) = Axes(arg.start)
        BY <1>1, <1>3, ShapeType, SlabType DEF IInv, TypeOK, IsArray
      <4>. QED BY <1>2, <3>2, <4>1 DEF Array!Within, Axes
    <3>4. {p \in [Axes(shape) -> 0 .. MaxSize] : Inside(p, shape)} = {<< >>}
      <4>1. \A p \in [{} -> 0 .. MaxSize] : p = << >>
        OBVIOUS
      <4>2. << >> \in [{} -> 0 .. MaxSize]
        OBVIOUS
      <4>3. \A p : Inside(p, shape)
        BY <3>3 DEF Inside
      <4>. QED BY <3>3, <4>1, <4>2, <4>3
    <3>. QED BY <1>3, <2>1, <3>4 DEF All
  <2>2. CASE Elements(Slab(arg)) # All
    BY <1>3, <2>2
  <2>. QED BY <2>1, <2>2
<1>. HIDE DEF where, out
<1>6. arrays'[o] = new
  BY <1>1 DEF IInv, TypeOK
<1>. HIDE DEF new
<1>. QED BY <1>2, <1>4, <1>5, <1>6 DEF Landed, SameContent

\* A write that succeeds and selects anew moves its data: the library has selected as
\* many elements as writeData counts.
LEMMA WriteMoves ==
    ASSUME IInv, EndsFit, NEW h \in Handles, NEW arg \in Slabs, NEW v \in Values,
           arg.op = "SET", WriteData(h, arg, v), status'.ok
    PROVE  status'.moved
<1>. DEFINE o == handle[h].id
            out == Applied(h, Slab(arg), TRUE)
            els == Elements(Slab(arg))
            extent == out.object.extent
            moved == out.ok /\ out.points = NofDatapoints(Slab(arg))
<1>1. o \in DOMAIN arrays /\ out.ok /\ status'.moved = moved
  BY DEF WriteData, OnOpen
<1>2. Array!Within(extent, out.array.shape) /\ Array!Within(arrays[o].shape, out.array.shape)
  BY <1>1, AppliedType
<1>3. /\ Len(arg.start) = Len(arrays[o].shape) /\ Selectable(Slab(arg))
      /\ out.object.sel = els /\ out.points = Selected(els, extent)
  <2>1. /\ out.ok => Len(arg.start) = Len(arrays[o].shape) /\ Selectable(Slab(arg))
        /\ out.ok => \E before : out.object.sel = Combine(before, Slab(arg))
        /\ out.points = Selected(out.object.sel, extent)
    <3>1. handle[h] \in Object
      BY DEF IInv, TypeOK, Object
    <3>. QED BY <3>1, SlabType DEF Applied, Object
  <2>2. \A before : Combine(before, Slab(arg)) = els
    BY SlabType DEF Combine
  <2>. QED BY <1>1, <2>1, <2>2
<1>4. Cardinality(els) = NofDatapoints(Slab(arg))
  BY <1>3, ElementsCount
<1>5. CASE els = All
  <2>1. Axes(arg.start) = {}
    <3>1. << >> \in [Axes(arg.start) -> Nat]
      BY <1>5, ElementsType DEF All
    <3>. QED BY <3>1
  <2>2. Axes(arrays[o].shape) = Axes(arg.start) /\ arrays[o].shape \in Sizes
    BY <1>1, <1>3, ShapeType, SlabType DEF IInv, TypeOK, IsArray
  <2>3. DOMAIN extent = {}
    BY <1>2, <2>1, <2>2 DEF Array!Within, Axes
  <2>4. extent \in Sizes
    <3>1. out.object \in Object
      BY <1>1, AppliedType
    <3>. QED BY <3>1 DEF Object
  <2>5. Len(extent) = 0
    <3>. HIDE DEF extent
    <3>1. Len(extent) \in Nat /\ Axes(extent) = {}
      BY <2>3, <2>4, ShapeType
    <3>2. 1 \notin 1..Len(extent)
      BY <3>1 DEF Axes
    <3>. QED BY <3>1, <3>2
  <2>6. Prod(extent) = 1
    <3>. DEFINE one == [n \in 0..0 |-> 1]
    <3>1. one[0] = 1 /\ \A n \in 1..0 : one[n] = one[n - 1] * extent[n]
      OBVIOUS
    <3>. HIDE DEF one, extent
    <3>. QED BY <2>5, <3>1, ProdIs
  <2>7. Cardinality(els) = 1
    BY <1>5, FS_Singleton DEF All
  <2>. QED BY <1>1, <1>3, <1>4, <1>5, <2>6, <2>7 DEF Selected
<1>6. CASE els # All
  BY <1>1, <1>3, <1>4, <1>6 DEF Selected
<1>. QED BY <1>5, <1>6

\* A write that succeeds and selects anew puts its data into the elements of its
\* hyperslab and nowhere else, whatever was selected before and by whom the dataset was
\* extended.
THEOREM SuccessLands == ASSUME EndsFit PROVE Spec => WritesLand
<1>1. IInv /\ [Next]_vars =>
        [\A h \in Handles, arg \in Slabs, v \in Values :
           status'.ok /\ arg.op = "SET" /\ WriteData(h, arg, v) => Landed(h, arg, v)]_vars
  BY WriteLands, WriteMoves
<1>. QED BY <1>1, InductiveInvariant, PTL DEF Spec, WritesLand
=============================================================================
