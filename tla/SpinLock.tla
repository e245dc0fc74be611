------------------------------ MODULE SpinLock ------------------------------
(***************************************************************************)
(* The spin lock of examples/rpc/lock/spin.rs, which guards the clients of *)
(* the RpcManager.                                                         *)
(*                                                                         *)
(* A failing compare_exchange_weak changes nothing and is a stuttering     *)
(* step.  `seen` and `published` track happens-before for the protected    *)
(* data: the threads that its latest access happens before, and whether an *)
(* Acquire load of the lock would learn of that access.                    *)
(***************************************************************************)
CONSTANT Threads

VARIABLES lock,  \* the AtomicBool
          pc,    \* pc[t]: "idle", "spin" in lock(), "guard" while it owns a LockGuard
          seen, published

vars == <<lock, pc, seen, published>>

TypeOK ==
  /\ lock \in BOOLEAN /\ published \in BOOLEAN
  /\ pc \in [Threads -> {"idle", "spin", "guard"}]
  /\ seen \subseteq Threads

(* SpinLock::new, before the lock is shared *)
Init ==
  /\ lock = FALSE /\ published = TRUE
  /\ pc = [t \in Threads |-> "idle"]
  /\ seen = Threads

Lock(t) ==
  /\ pc[t] = "idle"
  /\ pc' = [pc EXCEPT ![t] = "spin"]
  /\ UNCHANGED <<lock, seen, published>>

(* Fault: the winning exchange is not an acquire. *)
Acquire_relaxed(t) ==
  /\ pc[t] = "spin" /\ ~lock
  /\ lock' = TRUE
  /\ pc' = [pc EXCEPT ![t] = "guard"]
  /\ UNCHANGED <<seen, published>>

(* compare_exchange_weak(false, true, Acquire, Relaxed) succeeds *)
Acquire(t) ==
  /\ pc[t] = "spin" /\ ~lock
  /\ lock' = TRUE
  /\ pc' = [pc EXCEPT ![t] = "guard"]
  /\ seen' = IF published THEN seen \cup {t} ELSE seen
  /\ UNCHANGED published

(* Deref::deref, DerefMut::deref_mut: an access through the guard *)
Deref(t) ==
  /\ pc[t] = "guard"
  /\ seen' = {t} /\ published' = FALSE
  /\ UNCHANGED <<lock, pc>>

(* Fault: the guard is forgotten, not dropped. *)
Unlock_forgets(t) ==
  /\ pc[t] = "guard"
  /\ pc' = [pc EXCEPT ![t] = "idle"]
  /\ UNCHANGED <<lock, seen, published>>

(* Drop for LockGuard: a Release store publishes what its thread knows *)
Unlock(t) ==
  /\ pc[t] = "guard"
  /\ lock' = FALSE
  /\ pc' = [pc EXCEPT ![t] = "idle"]
  /\ published' = (t \in seen)
  /\ UNCHANGED seen

Next == \E t \in Threads : Lock(t) \/ Acquire(t) \/ Deref(t) \/ Unlock(t)

Spec == Init /\ [][Next]_vars
-----------------------------------------------------------------------------
(* A thread that can reach the data through a LockGuard is the only one,   *)
(* and every earlier access through another guard happens before its own.  *)
GuardedAccess ==
  \A t \in Threads : pc[t] = "guard" =>
    t \in seen /\ \A u \in Threads \ {t} : pc[u] # "guard"
=============================================================================
