----------------------------- MODULE MCOneshot -----------------------------
(* Model-checking instance of Oneshot. *)
EXTENDS Oneshot
=============================================================================
