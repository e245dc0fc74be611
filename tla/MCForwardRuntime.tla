-------------------------- MODULE MCForwardRuntime --------------------------
(* Model-checking instances of ForwardRuntime. *)
EXTENDS ForwardRuntime

CONSTANTS c1, c2, c3, c4, io, async, alpha

Rpc(s) == [kind |-> "Rpc", name |-> s]
Thread(t) == [kind |-> "Thread", name |-> t]

(* scores of three bits: LowestScore .. 3 *)
LowestScore == -4

(* a plan through both executors, one through its second half with steps   *)
(* it can skip, and one that fails on an executor                          *)
OrderedPlan == (c1 :> <<Thread(io), Thread(async), Rpc(alpha)>>)
            @@ (c2 :> <<Rpc(alpha), Rpc(alpha), Thread(async), Thread(async)>>)
            @@ (c3 :> <<Thread(io), Rpc("unknown")>>)

(* a plan that comes back to an executor, two that enter both in opposite  *)
(* orders, and one that runs its handler in the caller's own task          *)
CircularPlan == (c1 :> <<Thread(io), Rpc(alpha), Thread(io)>>)
             @@ (c2 :> <<Thread(async), Thread(io)>>)
             @@ (c3 :> <<Rpc(alpha), Thread(io), Thread(async)>>)
             @@ (c4 :> <<Rpc(alpha)>>)

Deltas == (c1 :> 2) @@ (c2 :> 2) @@ (c3 :> 1) @@ (c4 :> -1)
=============================================================================
