--------------------------- MODULE ExtendibleArray ---------------------------
(* What HDF5Dataset promises its callers: arrays that are created filled with *)
(* a fill value, that only grow, and whose elements are lost or changed by    *)
(* nothing but a write of one value to elements inside the array.  How a      *)
(* handle finds the elements, and what it remembers of the array, is left to  *)
(* the implementation (HDF5Dataset.tla).                                      *)
EXTENDS Naturals, Sequences

CONSTANTS Values,     \* what one write puts into every selected element
          Shapes      \* the shapes an array may be created with

VARIABLE arrays       \* in the order of creation: the shape of each, and the
                      \* elements that were written (the others hold the fill)

Within(small, large) ==
  /\ DOMAIN small = DOMAIN large
  /\ \A n \in DOMAIN small : small[n] <= large[n]

Inside(p, shape) == \A n \in DOMAIN shape : p[n] < shape[n]

New(shape) == [shape |-> shape, written |-> << >>]

(* "new" is "old", grown or not, after v was written to some of its elements. *)
Written(old, new, v) ==
  /\ Within(old.shape, new.shape)
  /\ DOMAIN old.written \subseteq DOMAIN new.written
  /\ \A p \in DOMAIN new.written :
       /\ Inside(p, new.shape)
       /\ \/ new.written[p] = v
          \/ p \in DOMAIN old.written /\ new.written[p] = old.written[p]

Init == arrays = << >>

Create == \E shape \in Shapes : arrays' = Append(arrays, New(shape))

Put == \E o \in DOMAIN arrays, v \in Values :
         /\ DOMAIN arrays' = DOMAIN arrays
         /\ \A other \in DOMAIN arrays \ {o} : arrays'[other] = arrays[other]
         /\ Written(arrays[o], arrays'[o], v)

Spec == Init /\ [][Create \/ Put]_arrays
==============================================================================
