------------------------------ MODULE VetoMask ------------------------------
(***************************************************************************)
(* From the veto settings clients put to the masks the board and Kafka     *)
(* get: array_to_mask (utils.py) as handle_vetoes_change uses it.  A mask  *)
(* is the set of its bit positions.  array[::-1] is packed with its first  *)
(* element in the highest bit; np.packbits fills the last byte of the      *)
(* reversed array with zeros, below the bit of element 0.                  *)
(***************************************************************************)
EXTENDS Integers, Sequences

CONSTANT ByteBits       \* the bits np.packbits packs into one byte

ASSUME ByteBitsAssumption == ByteBits \in Nat \ {0}

DISABLED_VETO_VALUE == 0
SOFT_VETO_VALUE     == 1
HARD_VETO_VALUE     == 2
VetoValue == {DISABLED_VETO_VALUE, SOFT_VETO_VALUE, HARD_VETO_VALUE}

\* How far packing moves the elements up.
Padding(length) == (ByteBits - (length % ByteBits)) % ByteBits

\* Mutant of array_to_mask: the array is not reversed.
array_to_mask_forwards(array, values) ==
    {Padding(Len(array)) + Len(array) - n : n \in {i \in 1..Len(array) : array[i] \in values}}

\* The mask of the elements of array that are in values; element n of the
\* numpy array is array[n + 1].
array_to_mask(array, values) ==
    {Padding(Len(array)) + n - 1 : n \in {i \in 1..Len(array) : array[i] \in values}}

HardMask(array) == array_to_mask(array, {HARD_VETO_VALUE})
AllMask(array)  == array_to_mask(array, {SOFT_VETO_VALUE, HARD_VETO_VALUE})

\* What the docstring of array_to_mask promises: element N is bit 1 << N.
Positions(array, values) == {n \in 0..(Len(array) - 1) : array[n + 1] \in values}
=============================================================================
