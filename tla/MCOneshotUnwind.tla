-------------------------- MODULE MCOneshotUnwind --------------------------
(* Model-checking instance of OneshotUnwind. *)
EXTENDS OneshotUnwind, TLC

(* The sharing threads are interchangeable, and so are the wakers. *)
Symmetry == Permutations(Receivers) \cup Permutations(Wakers)
=============================================================================
