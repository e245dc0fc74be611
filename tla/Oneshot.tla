------------------------------ MODULE Oneshot ------------------------------
(***************************************************************************)
(* The one-shot, single-value channel of conlock/src/oneshot.rs.           *)
(*                                                                         *)
(* One action is one shared-memory access of the code (an atomic operation *)
(* on Inner::state, an access to Inner::data or Inner::waker, a futex call *)
(* or the deallocation) together with the local branching around it.       *)
(* Tx is the owner of the Sender; Receivers are the threads that share the *)
(* Receiver: they may run `recv` concurrently (&self), while `poll` and    *)
(* `drop` need every other thread to be out of the channel (&mut self).    *)
(*                                                                         *)
(* The atomic word is the set of its flags.  Loads read its latest value:  *)
(* a relaxed load that returns an older one is the behaviour in which the  *)
(* thread loaded earlier, as no shared access of that thread precedes the  *)
(* load within a call.  What the orderings buy is tracked by `seen`.       *)
(***************************************************************************)
EXTENDS FiniteSets

CONSTANTS Tx,         \* the thread that owns the Sender
          Receivers,  \* the threads that share the Receiver
          Wakers,     \* the wakers a poll may carry in its Context
          NoWaker,    \* the content of an uninitialised waker field
          Features    \* the cargo features of the build

Actors == {Tx} \cup Receivers

ASSUME ActorsAssumption ==
  /\ Receivers # {}
  /\ Tx \notin Receivers
  /\ Actors \cap {"msg", "data", "waker"} = {}
  /\ NoWaker \notin Wakers

(* conlock/Cargo.toml: `wait` implies `sync`; lib.rs compiles the module   *)
(* only with `sync` or `async`.                                            *)
ASSUME FeaturesAssumption ==
  /\ Features \subseteq {"sync", "wait", "async"}
  /\ "wait" \in Features => "sync" \in Features
  /\ Features # {}

BitStatus == {"READY", "CLOSE", "WAITING", "FIELDLESS", "PENDING"}

VARIABLES
  state,   \* Inner::state, the set of flags that are 1
  cur,     \* cur[t]: Status::current, thread t's copy of the word
  pc,      \* pc[t]: the access thread t performs next
  val,     \* where the value T is
  waker,   \* content of Inner::waker
  cx,      \* the waker of the Context of the latest poll
  parked,  \* that poll returned Pending and its task has not been woken
  live,    \* the Inner<T> is allocated
  result,  \* result[t]: what the latest call of t returned
  seen     \* who the latest access to each cell happens before

vars == <<state, cur, pc, val, waker, cx, parked, live, result, seen>>

(* A cell of `seen` is a non-atomic field, or a thread, which stands for   *)
(* all that thread's accesses to the Inner.  seen[x] holds the threads     *)
(* that the latest access to x happens before, and "msg" once that access  *)
(* is published by the release sequence that `state` carries.              *)
Cells == {"data", "waker"} \cup Actors

TxLabels == {"tx_idle", "send_write", "send_cas", "send_acquire", "send_wake",
             "send_notify", "send_readback", "txdrop_new", "txdrop",
             "txdrop_wake", "txdrop_notify", "txdrop_mark", "txdrop_dealloc",
             "tx_gone"}
RecvLabels == {"recv", "recv_read", "recv_unwake", "wait", "blocked", "reload"}
PollLabels == {"poll", "poll_init", "poll_update", "poll_unset",
               "poll_discard", "poll_read"}
RxDropLabels == {"rxdrop", "rxdrop_read", "rxdrop_waker", "rxdrop_mark",
                 "rxdrop_dealloc", "rx_gone"}
RxLabels == {"rx_idle"} \cup RecvLabels \cup PollLabels \cup RxDropLabels

TypeOK ==
  /\ state \in SUBSET BitStatus
  /\ cur \in [Actors -> SUBSET BitStatus]
  /\ pc \in [Actors -> TxLabels \cup RxLabels]
  /\ pc[Tx] \in TxLabels
  /\ \A r \in Receivers : pc[r] \in RxLabels
  /\ val \in {"sender", "data", "receiver", "returned", "cleared"}
  /\ waker \in Wakers \cup {NoWaker}
  /\ cx \in Wakers \cup {NoWaker}
  /\ parked \in BOOLEAN
  /\ live \in BOOLEAN
  /\ result \in [Actors -> {"-", "Ok", "Err", "Some", "None", "Pending"}]
  /\ seen \in [Cells -> SUBSET (Actors \cup {"msg"})]

-----------------------------------------------------------------------------
(* Status queries, on a copy c of the word *)

is_ready(c) == "READY" \in c
is_closed(c) == "CLOSE" \in c
is_waiting(c) == "WAITING" \in c
is_fieldless(c) == "FIELDLESS" \in c  \* is_dataless, is_dropping, is_wakeless
is_pending(c) == "async" \in Features /\ "PENDING" \in c

-----------------------------------------------------------------------------
(* The CAS methods of Status: the new word, the ordering of a success, and *)
(* whether a success also updates the copy (`=` form of cas!) or keeps the *)
(* word it replaced (`:` form).                                            *)

Method(order, sync, new) == [order |-> order, sync |-> sync, new |-> new]

(* Fault: the value is published without a release. *)
ready_unordered(c) == Method("Relaxed", FALSE, (c \cup {"READY"}) \ {"WAITING", "FIELDLESS", "PENDING"})
try_setup_ready_release(c) ==
  Method("Release", FALSE,
    (c \cup {"READY"}) \ (IF "async" \in Features
                          THEN {"WAITING", "FIELDLESS", "PENDING"}
                          ELSE {"WAITING"}))
try_setup_dataless_acquire(c) ==
  Method("Acquire", FALSE, (c \ {"READY"}) \cup {"FIELDLESS"})
try_sync_unset_ready_acquire(c) ==
  Method("Acquire", TRUE, c \ {"READY"})
(* Fault: FIELDLESS is cleared like the other flags of a waiting receiver. *)
closed_cleared(c) == Method("Release", FALSE, (c \cup {"CLOSE"}) \ {"WAITING", "PENDING", "FIELDLESS"})
try_setup_closed_dropping_release(c) ==
  Method("Release", FALSE, (c \cup {"CLOSE"}) \ {"WAITING", "PENDING"})
try_sync_setup_closed_wake(c) ==
  Method("Relaxed", TRUE, (c \cup {"CLOSE"}) \ {"WAITING"})
try_sync_setup_closed_acquire(c) ==
  Method("Acquire", TRUE, (c \cup {"CLOSE"}) \ {"WAITING", "PENDING"})
try_set_closed_dropping_release(c) ==
  Method("Release", FALSE, c \cup {"CLOSE", "FIELDLESS"})
try_set_dropping_release(c) ==
  Method("Release", FALSE, c \cup {"FIELDLESS"})
try_set_waiting(c) ==
  Method("Relaxed", TRUE, c \cup {"WAITING"})
try_sync_set_waiting_pending_wakeless(c) ==
  Method("Relaxed", TRUE, c \cup {"WAITING", "PENDING", "FIELDLESS"})
try_unset_pending_acquire(c) ==
  Method("Acquire", FALSE, c \ {"PENDING"})
try_sync_set_wakeless_acquire(c) ==
  Method("Acquire", TRUE, c \cup {"FIELDLESS"})
unset_wakeless_release(c) ==
  Method("Release", FALSE, c \ {"FIELDLESS"})

-----------------------------------------------------------------------------
(* Happens-before.  Every change of `state` is a read-modify-write, so all *)
(* of them continue one release sequence: a release adds what its thread   *)
(* knows to "msg", an acquire takes everything in "msg".                   *)

Touch(h, t) == [h EXCEPT ![t] = {t}]
AcquireBy(h, t) == [x \in Cells |-> IF "msg" \in h[x] THEN h[x] \cup {t} ELSE h[x]]
ReleaseBy(h, t) == [x \in Cells |-> IF t \in h[x] THEN h[x] \cup {"msg"} ELSE h[x]]

Ordered(order, t) ==
  CASE order = "Release" -> ReleaseBy(Touch(seen, t), t)
    [] order = "Acquire" -> AcquireBy(Touch(seen, t), t)
    [] OTHER             -> Touch(seen, t)

(* A non-atomic access to a field (write, move out, drop or update). *)
Access(t, field) == [Touch(seen, t) EXCEPT ![field] = {t}]

(* An exclusive borrow of the Receiver starts after every earlier borrow   *)
(* has ended, and a shared one after the last exclusive one has: the       *)
(* hand-over (join, Arc, executor) synchronises the threads.               *)
Join(h, r) == [x \in Cells |-> IF h[x] \cap Receivers # {} THEN h[x] \cup {r} ELSE h[x]]
Share(h, r) == [x \in Cells |-> IF r \in h[x] THEN h[x] \cup Receivers ELSE h[x]]

-----------------------------------------------------------------------------
Goto(t, label) == pc' = [pc EXCEPT ![t] = label]

(* Status::new and the reload of wait_ready *)
Load(t) == cur' = [cur EXCEPT ![t] = state]

(* cas!: a success installs m.new if the word still equals the copy. *)
CasOk(t, m, label) ==
  /\ state = cur[t]
  /\ state' = m.new
  /\ cur' = [cur EXCEPT ![t] = IF m.sync THEN m.new ELSE @]
  /\ seen' = Ordered(m.order, t)
  /\ Goto(t, label)

(* Fault: a failure leaves the copy as it was. *)
CasFail_stale(t, label) ==
  /\ seen' = Touch(seen, t)
  /\ Goto(t, label)
  /\ UNCHANGED <<state, cur>>

(* A failure, spurious for a weak CAS, refreshes the copy. *)
CasFail(t, label) ==
  /\ Load(t)
  /\ seen' = Touch(seen, t)
  /\ Goto(t, label)
  /\ UNCHANGED state

fields == <<val, waker, cx, parked, live, result>>

Return(t, outcome) == result' = [result EXCEPT ![t] = outcome]

(* The waker is moved out of its field and woken: the task of the latest   *)
(* poll runs again if that waker is its own.                               *)
WakeWaker ==
  /\ waker' = NoWaker
  /\ parked' = (parked /\ waker # cx)
  /\ seen' = Access(Tx, "waker")

(* Fault: wake_one instead of wake_all. *)
WakeWaiting_one(label) ==
  /\ LET asleep == {r \in Receivers : pc[r] = "blocked"}
     IN  IF asleep = {} THEN Goto(Tx, label)
         ELSE \E r \in asleep : pc' = [pc EXCEPT ![Tx] = label, ![r] = "reload"]
  /\ seen' = Touch(seen, Tx)

(* atomic_wait::wake_all: every thread in the futex queue of `state` leaves it *)
WakeWaiting(label) ==
  /\ pc' = [t \in Actors |-> IF t = Tx THEN label
                             ELSE IF pc[t] = "blocked" THEN "reload" ELSE pc[t]]
  /\ seen' = Touch(seen, Tx)

-----------------------------------------------------------------------------
(* Inner::send, then the drop of the Sender that `send` consumed *)

SendNew ==
  /\ pc[Tx] = "tx_idle"
  /\ Load(Tx)
  /\ seen' = Touch(seen, Tx)
  /\ \/ /\ is_closed(state)
        /\ val' = "returned"
        /\ Return(Tx, "Err")
        /\ Goto(Tx, "txdrop_new")
     \/ /\ ~is_closed(state)
        /\ Goto(Tx, "send_write")
        /\ UNCHANGED <<val, result>>
  /\ UNCHANGED <<state, waker, cx, parked, live>>

SendWrite ==
  /\ pc[Tx] = "send_write"
  /\ val' = "data"
  /\ seen' = Access(Tx, "data")
  /\ Goto(Tx, "send_cas")
  /\ UNCHANGED <<state, cur, waker, cx, parked, live, result>>

(* Fault: the waker is used although a poll is still writing it. *)
wake_while_polling(c) ==
  CASE is_pending(c)                         -> "send_acquire"
    [] "wait" \in Features /\ is_waiting(c) -> "send_notify"
    [] OTHER                                 -> "txdrop_new"

(* Fault: only blocked threads are woken, not a pending task. *)
wake_threads_only(c) ==
  IF "wait" \in Features /\ is_waiting(c) THEN "send_notify" ELSE "txdrop_new"

(* Inner::try_wake_after_ready, decided on the word the CAS replaced *)
try_wake_after_ready(c) ==
  CASE is_pending(c) /\ ~is_fieldless(c)                   -> "send_acquire"
    [] ~is_pending(c) /\ "wait" \in Features /\ is_waiting(c) -> "send_notify"
    [] OTHER                                               -> "txdrop_new"

SendCas ==
  /\ pc[Tx] = "send_cas"
  /\ \/ /\ CasOk(Tx, try_setup_ready_release(cur[Tx]), try_wake_after_ready(cur[Tx]))
        /\ Return(Tx, "Ok")
     \/ /\ CasFail(Tx, IF is_closed(state) THEN "send_readback" ELSE "send_cas")
        /\ UNCHANGED result
  /\ UNCHANGED <<val, waker, cx, parked, live>>

(* Status::acquire before the waker is read *)
SendAcquire ==
  /\ pc[Tx] = "send_acquire"
  /\ seen' = Ordered("Acquire", Tx)
  /\ Goto(Tx, "send_wake")
  /\ UNCHANGED <<state, cur, fields>>

SendWake ==
  /\ pc[Tx] = "send_wake"
  /\ WakeWaker
  /\ Goto(Tx, "txdrop_new")
  /\ UNCHANGED <<state, cur, val, cx, live, result>>

SendNotify ==
  /\ pc[Tx] = "send_notify"
  /\ WakeWaiting("txdrop_new")
  /\ UNCHANGED <<state, cur, fields>>

(* Fault: Err is returned while the value stays in the channel. *)
SendReadback_forgotten ==
  /\ pc[Tx] = "send_readback"
  /\ Return(Tx, "Err")
  /\ Goto(Tx, "txdrop_new")
  /\ UNCHANGED <<state, cur, val, waker, cx, parked, live, seen>>
SendReadback ==
  /\ pc[Tx] = "send_readback"
  /\ val' = "returned"
  /\ seen' = Access(Tx, "data")
  /\ Return(Tx, "Err")
  /\ Goto(Tx, "txdrop_new")
  /\ UNCHANGED <<state, cur, waker, cx, parked, live>>

-----------------------------------------------------------------------------
(* Inner::drop_sender *)

TxDropNew ==
  /\ pc[Tx] \in {"tx_idle", "txdrop_new"}
  /\ Load(Tx)
  /\ seen' = Touch(seen, Tx)
  /\ Goto(Tx, "txdrop")
  /\ UNCHANGED <<state, fields>>

(* Fault: the memory is freed without the acquire load. *)
TxDropAcquire_relaxed ==
  /\ pc[Tx] = "txdrop"
  /\ is_closed(cur[Tx]) /\ is_fieldless(cur[Tx])
  /\ seen' = Ordered("Relaxed", Tx)
  /\ Goto(Tx, "txdrop_dealloc")
  /\ UNCHANGED <<state, cur, fields>>
TxDropAcquire ==
  /\ pc[Tx] = "txdrop"
  /\ is_closed(cur[Tx]) /\ is_fieldless(cur[Tx])
  /\ seen' = Ordered("Acquire", Tx)
  /\ Goto(Tx, "txdrop_dealloc")
  /\ UNCHANGED <<state, cur, fields>>

TxDropClosed ==
  /\ pc[Tx] = "txdrop"
  /\ is_closed(cur[Tx]) /\ ~is_fieldless(cur[Tx])
  /\ \/ CasOk(Tx, try_set_dropping_release(cur[Tx]), "tx_gone")
     \/ CasFail(Tx, "txdrop")
  /\ UNCHANGED fields

TxDropPolling ==
  /\ pc[Tx] = "txdrop"
  /\ ~is_closed(cur[Tx]) /\ is_pending(cur[Tx]) /\ is_fieldless(cur[Tx])
  /\ \/ CasOk(Tx, try_setup_closed_dropping_release(cur[Tx]), "tx_gone")
     \/ CasFail(Tx, "txdrop")
  /\ UNCHANGED fields

TxDropPending ==
  /\ pc[Tx] = "txdrop"
  /\ ~is_closed(cur[Tx]) /\ is_pending(cur[Tx]) /\ ~is_fieldless(cur[Tx])
  /\ \/ CasOk(Tx, try_sync_setup_closed_acquire(cur[Tx]), "txdrop_wake")
     \/ CasFail(Tx, "txdrop")
  /\ UNCHANGED fields

TxDropWake ==
  /\ pc[Tx] = "txdrop_wake"
  /\ WakeWaker
  /\ Goto(Tx, "txdrop_mark")
  /\ UNCHANGED <<state, cur, val, cx, live, result>>

TxDropWaiting ==
  /\ pc[Tx] = "txdrop"
  /\ ~is_closed(cur[Tx]) /\ ~is_pending(cur[Tx]) /\ is_waiting(cur[Tx])
  /\ \/ CasOk(Tx, try_sync_setup_closed_wake(cur[Tx]),
              IF "wait" \in Features THEN "txdrop_notify" ELSE "txdrop_mark")
     \/ CasFail(Tx, "txdrop")
  /\ UNCHANGED fields

TxDropNotify ==
  /\ pc[Tx] = "txdrop_notify"
  /\ WakeWaiting("txdrop_mark")
  /\ UNCHANGED <<state, cur, fields>>

TxDropMark ==
  /\ pc[Tx] = "txdrop_mark"
  /\ \/ CasOk(Tx, try_set_dropping_release(cur[Tx]), "tx_gone")
     \/ CasFail(Tx, "txdrop")
  /\ UNCHANGED fields

TxDropOpen ==
  /\ pc[Tx] = "txdrop"
  /\ ~is_closed(cur[Tx]) /\ ~is_pending(cur[Tx]) /\ ~is_waiting(cur[Tx])
  /\ \/ CasOk(Tx, try_set_closed_dropping_release(cur[Tx]), "tx_gone")
     \/ CasFail(Tx, "txdrop")
  /\ UNCHANGED fields

Dealloc(t, label) ==
  /\ live' = FALSE
  /\ seen' = Touch(seen, t)
  /\ Goto(t, label)
  /\ UNCHANGED <<state, cur, val, waker, cx, parked, result>>

TxDealloc == pc[Tx] = "txdrop_dealloc" /\ Dealloc(Tx, "tx_gone")

SendNext ==
  \/ SendNew \/ SendWrite \/ SendCas \/ SendAcquire \/ SendWake \/ SendNotify
  \/ SendReadback

TxDropNext ==
  \/ TxDropNew \/ TxDropAcquire \/ TxDropClosed \/ TxDropPolling
  \/ TxDropPending \/ TxDropWake \/ TxDropWaiting \/ TxDropNotify
  \/ TxDropMark \/ TxDropOpen \/ TxDealloc

-----------------------------------------------------------------------------
(* Inner::recv, by any thread that shares the Receiver *)

Shared == \A q \in Receivers : pc[q] \in {"rx_idle"} \cup RecvLabels
Exclusive == \A q \in Receivers : pc[q] = "rx_idle"

RecvNew(r) ==
  /\ "sync" \in Features
  /\ pc[r] = "rx_idle" /\ Shared
  /\ Load(r)
  /\ parked' = FALSE
  /\ seen' = Touch(seen, r)
  /\ Goto(r, "recv")
  /\ UNCHANGED <<state, val, waker, cx, live, result>>

RecvReady(r) ==
  /\ pc[r] = "recv"
  /\ is_ready(cur[r])
  /\ \/ CasOk(r, try_setup_dataless_acquire(cur[r]), "recv_read")
     \/ CasFail(r, "recv")
  /\ UNCHANGED fields

RecvRead(r) ==
  /\ pc[r] = "recv_read"
  /\ val' = "receiver"
  /\ seen' = Access(r, "data")
  /\ Return(r, "Some")
  /\ Goto(r, "rx_idle")
  /\ UNCHANGED <<state, cur, waker, cx, parked, live>>

(* the channel is closed without a value, or the value was read already *)
RecvNone(r) ==
  /\ pc[r] = "recv"
  /\ ~is_ready(cur[r])
  /\ is_closed(cur[r]) \/ (~is_waiting(cur[r]) /\ is_fieldless(cur[r]))
  /\ Return(r, "None")
  /\ Goto(r, "rx_idle")
  /\ UNCHANGED <<state, cur, val, waker, cx, parked, live, seen>>

(* a receiver that was polled before turns to blocking: drop its waker *)
RecvUnpend(r) ==
  /\ pc[r] = "recv"
  /\ ~is_ready(cur[r]) /\ ~is_closed(cur[r])
  /\ is_waiting(cur[r]) /\ is_pending(cur[r])
  /\ \/ CasOk(r, try_unset_pending_acquire(cur[r]), "recv_unwake")
     \/ CasFail(r, "recv")
  /\ UNCHANGED fields

DropWaker(t, label) ==
  /\ waker' = NoWaker
  /\ seen' = Access(t, "waker")
  /\ Goto(t, label)
  /\ UNCHANGED <<state, cur, val, cx, parked, live, result>>

RecvUnwake(r) == pc[r] = "recv_unwake" /\ DropWaker(r, "wait")

RecvRewait(r) ==
  /\ pc[r] = "recv"
  /\ ~is_ready(cur[r]) /\ ~is_closed(cur[r])
  /\ is_waiting(cur[r]) /\ ~is_pending(cur[r])
  /\ Goto(r, "wait")
  /\ UNCHANGED <<state, cur, fields, seen>>

RecvWait(r) ==
  /\ pc[r] = "recv"
  /\ ~is_ready(cur[r]) /\ ~is_closed(cur[r])
  /\ ~is_waiting(cur[r]) /\ ~is_fieldless(cur[r])
  /\ \/ CasOk(r, try_set_waiting(cur[r]), "wait")
     \/ CasFail(r, "recv")
  /\ UNCHANGED fields

(* wait_ready: atomic_wait::wait sleeps only while the word equals the     *)
(* copy, and may return for no reason; the word is loaded again afterwards *)
FutexWait(r) ==
  /\ pc[r] = "wait" /\ "wait" \in Features
  /\ \/ state = cur[r] /\ Goto(r, "blocked")
     \/ Goto(r, "reload")
  /\ seen' = Touch(seen, r)
  /\ UNCHANGED <<state, cur, fields>>

FutexSpurious(r) ==
  /\ pc[r] = "blocked"
  /\ Goto(r, "reload")
  /\ UNCHANGED <<state, cur, fields, seen>>

Reload(r) ==
  /\ pc[r] = "reload"
  /\ Load(r)
  /\ seen' = Touch(seen, r)
  /\ Goto(r, "recv")
  /\ UNCHANGED <<state, fields>>

(* Fault: the loop spins until READY, not until the word changes. *)
SpinWait_ready(r) ==
  /\ pc[r] = "wait" /\ "wait" \notin Features
  /\ is_ready(state)
  /\ Load(r)
  /\ seen' = Touch(seen, r)
  /\ Goto(r, "recv")
  /\ UNCHANGED <<state, fields>>

(* wait_ready without the `wait` feature: spin until the word changes *)
SpinWait(r) ==
  /\ pc[r] = "wait" /\ "wait" \notin Features
  /\ state # cur[r]
  /\ Load(r)
  /\ seen' = Touch(seen, r)
  /\ Goto(r, "recv")
  /\ UNCHANGED <<state, fields>>

-----------------------------------------------------------------------------
(* Inner::poll_recv, under the exclusive borrow of Future::poll *)

PollNew(r) ==
  /\ "async" \in Features
  /\ Exclusive
  /\ \E w \in Wakers : cx' = w
  /\ Load(r)
  /\ parked' = FALSE
  /\ seen' = Touch(Join(seen, r), r)
  /\ Goto(r, "poll")
  /\ UNCHANGED <<state, val, waker, live, result>>

PollReady(r) ==
  /\ pc[r] = "poll"
  /\ is_ready(cur[r])
  /\ \/ CasOk(r, try_setup_dataless_acquire(cur[r]), "poll_read")
     \/ CasFail(r, "poll")
  /\ UNCHANGED fields

PollRead(r) ==
  /\ pc[r] = "poll_read"
  /\ val' = "receiver"
  /\ seen' = Share(Access(r, "data"), r)
  /\ Return(r, "Some")
  /\ Goto(r, "rx_idle")
  /\ UNCHANGED <<state, cur, waker, cx, parked, live>>

PollNone(r) ==
  /\ pc[r] = "poll"
  /\ ~is_ready(cur[r])
  /\ is_closed(cur[r]) \/ (~is_waiting(cur[r]) /\ is_fieldless(cur[r]))
  /\ seen' = Share(seen, r)
  /\ Return(r, "None")
  /\ Goto(r, "rx_idle")
  /\ UNCHANGED <<state, cur, val, waker, cx, parked, live>>

(* polled again while pending: shut the sender out of the waker field *)
PollAgain(r) ==
  /\ pc[r] = "poll"
  /\ ~is_ready(cur[r]) /\ ~is_closed(cur[r]) /\ is_waiting(cur[r])
  /\ \/ CasOk(r, try_sync_set_wakeless_acquire(cur[r]), "poll_update")
     \/ CasFail(r, "poll")
  /\ UNCHANGED fields

(* Fault: the waker of an earlier poll is never replaced. *)
PollUpdate_keep(r) ==
  /\ pc[r] = "poll_update"
  /\ seen' = Access(r, "waker")
  /\ Goto(r, "poll_unset")
  /\ UNCHANGED <<state, cur, val, waker, cx, parked, live, result>>

(* keep the stored waker if it wakes the same task, else replace it *)
PollUpdate(r) ==
  /\ pc[r] = "poll_update"
  /\ waker' = cx
  /\ seen' = Access(r, "waker")
  /\ Goto(r, "poll_unset")
  /\ UNCHANGED <<state, cur, val, cx, parked, live, result>>

PollFirst(r) ==
  /\ pc[r] = "poll"
  /\ ~is_ready(cur[r]) /\ ~is_closed(cur[r])
  /\ ~is_waiting(cur[r]) /\ ~is_fieldless(cur[r])
  /\ \/ CasOk(r, try_sync_set_waiting_pending_wakeless(cur[r]), "poll_init")
     \/ CasFail(r, "poll")
  /\ UNCHANGED fields

PollInit(r) ==
  /\ pc[r] = "poll_init"
  /\ waker' = cx
  /\ seen' = Access(r, "waker")
  /\ Goto(r, "poll_unset")
  /\ UNCHANGED <<state, cur, val, cx, parked, live, result>>

(* the strong CAS that hands the waker to the sender and returns Pending *)
PollPending(r) ==
  /\ pc[r] = "poll_unset"
  /\ LET m == unset_wakeless_release(cur[r])
     IN  /\ state = cur[r]
         /\ state' = m.new
         /\ seen' = Share(Ordered(m.order, r), r)
  /\ parked' = TRUE
  /\ Return(r, "Pending")
  /\ Goto(r, "rx_idle")
  /\ UNCHANGED <<cur, val, waker, cx, live>>

PollOvertaken(r) ==
  /\ pc[r] = "poll_unset"
  /\ state # cur[r]
  /\ CasFail(r, "poll_discard")
  /\ UNCHANGED fields

(* Fault: the waker that the sender will not take is not dropped. *)
PollDiscard_leak(r) ==
  /\ pc[r] = "poll_discard"
  /\ Goto(r, "poll")
  /\ UNCHANGED <<state, cur, fields, seen>>
PollDiscard(r) == pc[r] = "poll_discard" /\ DropWaker(r, "poll")

-----------------------------------------------------------------------------
(* Inner::drop_receiver, by the thread that owns the Receiver last *)

RxDropNew(r) ==
  /\ Exclusive
  /\ Load(r)
  /\ parked' = FALSE
  /\ seen' = Touch(Join(seen, r), r)
  /\ Goto(r, "rxdrop")
  /\ UNCHANGED <<state, val, waker, cx, live, result>>

RxDropReady(r) ==
  /\ pc[r] = "rxdrop"
  /\ is_ready(cur[r])
  /\ \/ CasOk(r, try_sync_unset_ready_acquire(cur[r]), "rxdrop_read")
     \/ CasFail(r, "rxdrop")
  /\ UNCHANGED fields

(* the value is dropped here; the copy is up to date, so the code goes on  *)
(* to the branches below                                                   *)
RxDropRead(r) ==
  /\ pc[r] = "rxdrop_read"
  /\ val' = "cleared"
  /\ seen' = Access(r, "data")
  /\ Goto(r, "rxdrop")
  /\ UNCHANGED <<state, cur, waker, cx, parked, live, result>>

RxDropAcquire(r) ==
  /\ pc[r] = "rxdrop"
  /\ ~is_ready(cur[r]) /\ is_closed(cur[r]) /\ is_fieldless(cur[r])
  /\ seen' = Ordered("Acquire", r)
  /\ Goto(r, "rxdrop_dealloc")
  /\ UNCHANGED <<state, cur, fields>>

RxDropClosed(r) ==
  /\ pc[r] = "rxdrop"
  /\ ~is_ready(cur[r]) /\ is_closed(cur[r]) /\ ~is_fieldless(cur[r])
  /\ \/ CasOk(r, try_set_dropping_release(cur[r]), "rx_gone")
     \/ CasFail(r, "rxdrop")
  /\ UNCHANGED fields

RxDropPending(r) ==
  /\ pc[r] = "rxdrop"
  /\ ~is_ready(cur[r]) /\ ~is_closed(cur[r]) /\ is_pending(cur[r])
  /\ \/ CasOk(r, try_sync_setup_closed_acquire(cur[r]), "rxdrop_waker")
     \/ CasFail(r, "rxdrop")
  /\ UNCHANGED fields

RxDropWaker(r) == pc[r] = "rxdrop_waker" /\ DropWaker(r, "rxdrop_mark")

RxDropMark(r) ==
  /\ pc[r] = "rxdrop_mark"
  /\ \/ CasOk(r, try_set_dropping_release(cur[r]), "rx_gone")
     \/ CasFail(r, "rxdrop")
  /\ UNCHANGED fields

RxDropOpen(r) ==
  /\ pc[r] = "rxdrop"
  /\ ~is_ready(cur[r]) /\ ~is_closed(cur[r]) /\ ~is_pending(cur[r])
  /\ \/ CasOk(r, try_set_closed_dropping_release(cur[r]), "rx_gone")
     \/ CasFail(r, "rxdrop")
  /\ UNCHANGED fields

RxDealloc(r) == pc[r] = "rxdrop_dealloc" /\ Dealloc(r, "rx_gone")

RecvNext(r) ==
  \/ RecvNew(r) \/ RecvReady(r) \/ RecvRead(r) \/ RecvNone(r)
  \/ RecvUnpend(r) \/ RecvUnwake(r) \/ RecvRewait(r) \/ RecvWait(r)
  \/ FutexWait(r) \/ FutexSpurious(r) \/ Reload(r) \/ SpinWait(r)

PollNext(r) ==
  \/ PollNew(r) \/ PollReady(r) \/ PollRead(r) \/ PollNone(r)
  \/ PollAgain(r) \/ PollUpdate(r) \/ PollFirst(r) \/ PollInit(r)
  \/ PollPending(r) \/ PollOvertaken(r) \/ PollDiscard(r)

RxDropNext(r) ==
  \/ RxDropNew(r) \/ RxDropReady(r) \/ RxDropRead(r) \/ RxDropAcquire(r)
  \/ RxDropClosed(r) \/ RxDropPending(r) \/ RxDropWaker(r) \/ RxDropMark(r)
  \/ RxDropOpen(r) \/ RxDealloc(r)

-----------------------------------------------------------------------------
(* channel(): both ends are created before any thread can use them *)
Init ==
  /\ state = {}
  /\ cur = [t \in Actors |-> {}]
  /\ pc = [t \in Actors |-> IF t = Tx THEN "tx_idle" ELSE "rx_idle"]
  /\ val = "sender"
  /\ waker = NoWaker
  /\ cx = NoWaker
  /\ parked = FALSE
  /\ live = TRUE
  /\ result = [t \in Actors |-> "-"]
  /\ seen = [x \in Cells |-> Actors \cup {"msg"}]

Next ==
  \/ SendNext \/ TxDropNext
  \/ \E r \in Receivers : RecvNext(r) \/ PollNext(r) \/ RxDropNext(r)

Spec == Init /\ [][Next]_vars
-----------------------------------------------------------------------------
(* Properties *)

DataLabels == {"recv_read", "poll_read", "rxdrop_read", "send_readback"}
WakerLabels == {"send_wake", "txdrop_wake", "recv_unwake", "poll_update",
                "poll_discard", "rxdrop_waker"}
DeallocLabels == {"txdrop_dealloc", "rxdrop_dealloc"}
IdleLabels == {"tx_idle", "tx_gone", "rx_idle", "rx_gone"}

SenderGone == pc[Tx] = "tx_gone"
ReceiverGone == \E r \in Receivers : pc[r] = "rx_gone"

(* Whoever is about to move the value out of Inner::data (recv, poll_recv, *)
(* drop_receiver, or send taking back a refused value) finds it there,     *)
(* written before in happens-before order, and is alone: no double read,   *)
(* no read of uninitialised memory, no data race on the field.             *)
DataAccess ==
  /\ \A t \in Actors : pc[t] \in DataLabels => val = "data" /\ t \in seen["data"]
  /\ pc[Tx] = "send_write" => val = "sender" /\ Tx \in seen["data"]
  /\ \A t, u \in Actors : pc[t] \in DataLabels /\ pc[u] \in DataLabels => t = u

(* Whoever is about to take, update or drop the stored Waker (the sender   *)
(* waking it, recv and poll_recv replacing it, drop_receiver) finds one    *)
(* that it has synchronised with and that nobody else is about to touch;   *)
(* poll_recv initialises the field only when it holds none.                *)
WakerAccess ==
  /\ \A t \in Actors : pc[t] \in WakerLabels => waker # NoWaker /\ t \in seen["waker"]
  /\ \A t \in Actors : pc[t] = "poll_init" => waker = NoWaker /\ t \in seen["waker"]
  /\ \A t, u \in Actors :
       pc[t] \in WakerLabels /\ pc[u] \in WakerLabels \cup {"poll_init"} => t = u

(* Inner::dealloc runs once, after every access of the other threads has   *)
(* happened before it, and nobody is left to use the memory it frees.      *)
DeallocSafe ==
  /\ \A t \in Actors : pc[t] \in DeallocLabels =>
       live /\ \A u \in Actors \ {t} : pc[u] \in IdleLabels /\ t \in seen[u]
  /\ ~live => SenderGone /\ ReceiverGone

(* When both handles have been dropped the allocation is freed, and no     *)
(* value and no waker was left undropped in it.                            *)
NoLeak == SenderGone /\ ReceiverGone => ~live /\ val # "data" /\ waker = NoWaker

(* A task whose last poll returned Pending is still reachable by the       *)
(* sender: its own waker is stored and announced, or the sender is already *)
(* on its way to wake it.  A thread in the futex queue sleeps on the       *)
(* current word, or the sender is on its way to wake_all.                  *)
NoLostWakeup ==
  /\ parked => /\ waker = cx
               /\ \/ state = {"WAITING", "PENDING"}
                  \/ pc[Tx] \in {"send_acquire", "send_wake", "txdrop_wake"}
  /\ \A r \in Receivers : pc[r] = "blocked" =>
       state = {"WAITING"} \/ pc[Tx] \in {"send_notify", "txdrop_notify"}

(* `send` returns Ok only for a value that the receiving side owns, and    *)
(* Err only together with the value; None means that no value is or will   *)
(* be on offer, so `recv` and `poll` report it forever.                    *)
Outcomes ==
  /\ result[Tx] = "Ok" => val \in {"data", "receiver", "cleared"}
  /\ result[Tx] = "Err" => val = "returned"
  /\ \A r \in Receivers : result[r] = "None" =>
       ~is_ready(state) /\ (is_closed(state) \/ result[Tx] = "Ok")

(* The rows of the state table of oneshot.rs and conlock/README.md *)
new == {}
ready == {"READY"}
waiting == {"WAITING"}
pending == {"WAITING", "PENDING"}
polling == {"WAITING", "FIELDLESS", "PENDING"}
dataless == {"FIELDLESS"}
closed == {"CLOSE"}
dropped == {"CLOSE", "FIELDLESS"}
droppable == {"READY", "CLOSE", "FIELDLESS"}

(* Whatever CAS of whichever thread wins, the word is a row of the table   *)
(* the source documents: WAITING excludes READY and CLOSE, PENDING comes   *)
(* with WAITING, and the meaning of FIELDLESS is never ambiguous.          *)
StateTable ==
  state \in {new, ready, waiting, pending, polling, dataless, closed, dropped, droppable}

(* The edges of the state diagram of conlock/README.md.                    *)
DiagramEdges ==
  ({new} \X {dropped, ready, waiting, polling})
  \cup ({ready} \X {dataless, droppable, closed})
  \cup ({waiting} \X {ready, closed})
  \cup ({pending} \X {waiting, ready, closed, polling})
  \cup ({polling} \X {ready, pending, dropped})
  \cup ({dataless, droppable, closed} \X {dropped})

(* Every change of the word is an edge of the diagram, except that         *)
(* drop_receiver takes an unread value out by going from ready back to new *)
(* and then to dropped, as its comment announces.                          *)
Transitions == [][(<<state, state'>> \in DiagramEdges \cup {<<ready, new>>})]_state

(* A thread that was told None is never handed the value by a later call.  *)
NoneIsFinal ==
  [][\A r \in Receivers : result[r] = "None" => result'[r] # "Some"]_vars
-----------------------------------------------------------------------------
(* Liveness.  A thread inside a call is scheduled again and again, and a   *)
(* weak CAS does not fail spuriously for ever; a sleeping thread runs only *)
(* when it is woken, and no caller is obliged to start a call.             *)
SenderStep == pc[Tx] # "tx_idle" /\ (SendNext \/ TxDropNext)
ReceiverStep(r) ==
  /\ pc[r] \notin {"rx_idle", "blocked"}
  /\ RecvNext(r) \/ PollNext(r) \/ RxDropNext(r)

Fairness == WF_vars(SenderStep) /\ \A r \in Receivers : WF_vars(ReceiverStep(r))
LiveSpec == Spec /\ Fairness

(* Once the Sender is being used or dropped, every thread blocked in recv  *)
(* returns, however many threads wait on the same futex.                   *)
RecvReturns ==
  \A r \in Receivers :
    pc[Tx] # "tx_idle" /\ pc[r] \in RecvLabels ~> pc[r] = "rx_idle"

(* send and the drop of the Sender end, unless the task that owns the      *)
(* Receiver is polled again for ever: each poll changes the word the       *)
(* sender's CAS expects.                                                   *)
SenderFinishes ==
  <>[][\A r \in Receivers : ~PollNew(r)]_vars
    => (pc[Tx] # "tx_idle" ~> pc[Tx] = "tx_gone")

(* A parked task is woken (or polled again) once the Sender is in use.     *)
TaskWoken == parked /\ pc[Tx] # "tx_idle" ~> ~parked

-----------------------------------------------------------------------------
(* Refinement: the value is on offer while READY is set, a thread has it   *)
(* from its winning CAS on, and an end is gone when its drop is over.      *)
Channel == INSTANCE OneshotChannel WITH
  slot   <- IF is_ready(state) THEN "full"
            ELSE IF result[Tx] = "Ok" THEN "drained" ELSE "empty",
  closed <- is_closed(state),
  result <- [t \in Actors |-> IF pc[t] \in {"recv_read", "poll_read"}
                              THEN "Some" ELSE result[t]],
  gone   <- (IF SenderGone THEN {"sender"} ELSE {}) \cup
            (IF ReceiverGone THEN {"receiver"} ELSE {})

(* The flags, the CAS loops and the drop protocol implement the channel.   *)
ImplementsChannel == Channel!ChannelSpec
=============================================================================
