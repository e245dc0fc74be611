--------------------------- MODULE MCConstString ---------------------------
(* Model-checking instance of ConstString. *)
EXTENDS ConstString, TLC

(* the targets on which the tag byte is the low byte of the pointer *)
SharedTag == {[endian |-> "little", word |-> 4], [endian |-> "little", word |-> 8],
              [endian |-> "big", word |-> 8]}

Symmetry == Permutations(Names) \cup Permutations(Texts)
=============================================================================
