---------------------------- MODULE MCIoSession ----------------------------
(* Model-checking instance of IoSession. *)
EXTENDS IoSession
=============================================================================
