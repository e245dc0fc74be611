---------------------------- MODULE MCRpcManager ----------------------------
(* RpcManager for TLC; the constants are in the configuration. *)
EXTENDS RpcManager
=============================================================================
