------------------------------ MODULE MCWorker ------------------------------
(* Model-checking instance of Worker. *)
EXTENDS Worker
=============================================================================
