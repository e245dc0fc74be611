---------------------------- MODULE RpcManager ----------------------------
(***************************************************************************)
(* The RpcManager of examples/rpc/net.rs, which shares the clients of the  *)
(* connections between callers: one entry of its HashMap, guarded by the   *)
(* spin lock, together with the connection of RpcServer whose client is    *)
(* inserted there.  The user Connector has connected to the server and     *)
(* inserts its client, Replacer inserts the client of another connection   *)
(* under the same id, and a call gets a clone and sends with it.           *)
(***************************************************************************)
EXTENDS RpcServer

CONSTANTS Connector, Replacer

ASSUME ManagerAssumption == Connector # Replacer /\ {Connector, Replacer} \cap Calls = {}

Inserters == {Connector, Replacer}
Users == Calls \cup Inserters

VARIABLES
  lock, pc, seen, published,  \* RpcManager::clients, the SpinLock
  cached,   \* the client in the map: "none", "this" connection's or an "other" one
  handles,  \* the users that own a client of this connection
  op        \* op[u]: progress of u's insert or get

SL == INSTANCE SpinLock WITH Threads <- Users

mgr == <<lock, pc, seen, published, cached, handles, op>>
mvars == <<svars, mgr>>

(* instance(), and an RpcClient::connect that succeeded *)
ManagerInit ==
  /\ ServerInit /\ SL!Init
  /\ cached = "none" /\ handles = {Connector}
  /\ op = [u \in Users |-> "new"]

Goto(u, o) == op' = [op EXCEPT ![u] = o]

(* self.clients.lock() *)
LockStart(u) ==
  /\ op[u] = "new" /\ SL!Lock(u)
  /\ Goto(u, "locked")
  /\ UNCHANGED <<svars, cached, handles>>

LockAcquire(u) == SL!Acquire(u) /\ UNCHANGED <<svars, cached, handles, op>>

(* Fault: the guard goes before the client is cloned. *)
GetLook_unlocks(c) ==
  /\ op[c] = "locked" /\ SL!Unlock(c)
  /\ Goto(c, IF cached = "this" THEN "found" ELSE "missed")
  /\ UNCHANGED <<svars, cached, handles>>

(* get: the map yields a reference to the client of this connection, or    *)
(* None, or a client that is not this connection's                         *)
GetLook(c) ==
  /\ op[c] = "locked" /\ SL!Deref(c)
  /\ Goto(c, IF cached = "this" THEN "found" ELSE "missed")
  /\ UNCHANGED <<svars, cached, handles>>

(* .cloned() reads the client through the reference *)
GetClone(c) ==
  /\ op[c] = "found" /\ SL!Deref(c)
  /\ handles' = handles \cup {c}
  /\ Goto(c, "got")
  /\ UNCHANGED <<svars, cached>>

(* insert: the map returns the client that was there *)
InsertPut(u) ==
  /\ op[u] = "locked" /\ SL!Deref(u)
  /\ cached' = IF u = Connector THEN "this" ELSE "other"
  /\ handles' = (handles \ {u}) \cup (IF cached = "this" THEN {u} ELSE {})
  /\ Goto(u, IF cached = "this" THEN "replaced" ELSE "inserted")
  /\ UNCHANGED svars

(* a user's client is dropped, and with the last one the queue's senders *)
DropClient(u) ==
  /\ u \in handles
  /\ handles' = handles \ {u}
  /\ IF handles = {u} /\ cached # "this" THEN DropClients ELSE UNCHANGED ivars
  /\ UNCHANGED <<lock, pc, seen, published, cached, srv>>

(* Fault: the client that insert returns is forgotten. *)
DropReplaced_forgets(u) ==
  /\ op[u] = "replaced" /\ Goto(u, "inserted")
  /\ UNCHANGED <<svars, lock, pc, seen, published, cached, handles>>

(* insert ignores it, and it is dropped before the guard *)
DropReplaced(u) == op[u] = "replaced" /\ Goto(u, "inserted") /\ DropClient(u)

(* the guard is dropped at the end of the statement *)
LockRelease(u) ==
  /\ op[u] \in {"got", "missed", "inserted"} /\ SL!Unlock(u)
  /\ UNCHANGED <<svars, cached, handles, op>>

UserNext(u) ==
  \/ LockAcquire(u) \/ LockRelease(u)
  \/ u \in Calls /\ (GetLook(u) \/ GetClone(u))
  \/ u \in Inserters /\ (InsertPut(u) \/ DropReplaced(u))

(* send on the client that get returned *)
CallNext(c) ==
  /\ c \in handles /\ pc[c] = "idle"
  /\ Call(c)
  /\ UNCHANGED <<srv, mgr>>

(* a caller drops its client, which send borrows; Connector may drop its   *)
(* client instead of inserting it                                          *)
DropHandle(u) ==
  /\ IF u \in Calls THEN op[u] = "got" /\ pc[u] = "idle" ELSE op[u] = "new"
  /\ u \in Calls => call[u] \notin {"sending", "waiting"}
  /\ DropClient(u)
  /\ Goto(u, "dropped")

SendNext(c) == Enqueue(c) \/ SendError(c) \/ Return(c)

ConnectionNext ==
  \/ ServerNext \/ Vanish
  \/ (RunSend \/ RunRecv \/ Reset \/ \E c \in Calls : SendNext(c) \/ Cancel(c)) /\ UNCHANGED srv

ManagerNext ==
  \/ \E u \in Users : LockStart(u) \/ UserNext(u) \/ DropHandle(u)
  \/ \E c \in Calls : CallNext(c)
  \/ ConnectionNext /\ UNCHANGED mgr

(* A thread goes on with an insert or a get it has begun, and a spinning   *)
(* one wins the lock when nobody else is left to race it for it; the tasks *)
(* are polled as in RpcServer.                                             *)
ManagerFairness ==
  /\ \A u \in Users : WF_mvars(UserNext(u))
  /\ \A c \in Calls : WF_mvars(SendNext(c) /\ UNCHANGED <<srv, mgr>>)
  /\ WF_mvars(RunSend /\ UNCHANGED <<srv, mgr>>)
  /\ WF_mvars(RunRecv /\ UNCHANGED <<srv, mgr>>)
  /\ WF_mvars(ServerNext /\ UNCHANGED mgr)

ManagerSpec == ManagerInit /\ [][ManagerNext]_mvars /\ ManagerFairness
-----------------------------------------------------------------------------
(* Properties *)

(* The map is touched by one thread at a time, and what earlier guards     *)
(* wrote to it happens before.                                             *)
GuardedAccess == SL!GuardedAccess

(* The reference that `get` clones from is still good when it is cloned:   *)
(* no insert has replaced and dropped the client in between, and the       *)
(* connection's queue has not lost its last sender.                        *)
FoundIsLive == \A c \in Calls : op[c] = "found" => cached = "this" /\ clients

(* Every insert and get that has started is over some time, as long as the *)
(* threads that contend for the lock are finitely many and each comes once.*)
LockReturns == \A u \in Users : pc[u] = "spin" ~> pc[u] = "idle"

(* A client that insert replaced does not keep its connection: when no     *)
(* caller owns a clone either, the connection ends, unless the server has  *)
(* vanished without closing it.                                            *)
Retired ==
  cached = "other" /\ handles \subseteq {Replacer}
    ~> session = "ended" \/ srv = "vanished"
=============================================================================
