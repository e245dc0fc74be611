--------------------------- MODULE OneshotUnwind ---------------------------
(***************************************************************************)
(* Oneshot with panics of the code the channel calls but does not own: the *)
(* destructor of the value, and clone, wake and drop of a Waker.  None of  *)
(* the calls is guarded, so a panic unwinds out of recv, poll_recv,        *)
(* drop_sender or drop_receiver at that point and leaves the word and the  *)
(* fields as they are.  A Waker::wake that panics in `send` needs no       *)
(* action of its own: unwinding drops the Sender, as returning does.       *)
(***************************************************************************)
EXTENDS Oneshot

VARIABLE unwound  \* unwound[t]: the access the drop by t panicked in, or "none"

uvars == <<vars, unwound>>

UnwindInit == Init /\ unwound = [t \in Actors |-> "none"]

(* Thread t leaves a drop before it has marked its end. *)
Unwind(t) == unwound' = [unwound EXCEPT ![t] = pc[t]]

(* Fault: READY is cleared and the value forgotten. *)
RxDropReadUnwind_forgets(r) ==
  /\ pc[r] = "rxdrop_read"
  /\ Goto(r, "rx_gone")
  /\ Unwind(r)
  /\ UNCHANGED <<state, cur, val, waker, cx, parked, live, result, seen>>

(* the destructor of the value panics inside drop_receiver *)
RxDropReadUnwind(r) ==
  /\ pc[r] = "rxdrop_read"
  /\ val' = "cleared"
  /\ seen' = Access(r, "data")
  /\ Goto(r, "rx_gone")
  /\ Unwind(r)
  /\ UNCHANGED <<state, cur, waker, cx, parked, live, result>>

(* the destructor of a Waker panics; the waker is dropped all the same *)
PollDiscardUnwind(r) ==
  /\ pc[r] = "poll_discard"
  /\ waker' = NoWaker
  /\ seen' = Share(Access(r, "waker"), r)
  /\ Goto(r, "rx_idle")
  /\ UNCHANGED <<state, cur, val, cx, parked, live, result, unwound>>

RxDropWakerUnwind(r) ==
  /\ pc[r] = "rxdrop_waker"
  /\ DropWaker(r, "rx_gone")
  /\ Unwind(r)

(* Waker::wake panics in drop_sender, after it has woken the task *)
TxDropWakeUnwind ==
  /\ pc[Tx] = "txdrop_wake"
  /\ WakeWaker
  /\ Goto(Tx, "tx_gone")
  /\ Unwind(Tx)
  /\ UNCHANGED <<state, cur, val, cx, live, result>>

UnwindNext ==
  \/ Next /\ UNCHANGED unwound
  \/ TxDropWakeUnwind
  \/ \E r \in Receivers :
       RxDropReadUnwind(r) \/ PollDiscardUnwind(r) \/ RxDropWakerUnwind(r)

UnwindSpec == UnwindInit /\ [][UnwindNext]_uvars

-----------------------------------------------------------------------------
(* The panics that leave a word that says WAITING *)

(* recv has cleared PENDING and drops the waker, whose destructor panics *)
RecvUnwakeUnwind(r) ==
  /\ pc[r] = "recv_unwake"
  /\ DropWaker(r, "rx_idle")
  /\ UNCHANGED unwound

(* poll_recv keeps FIELDLESS set when cx.waker().clone() panics before a   *)
(* waker is stored, or the destructor of the waker that is replaced does   *)
PollUnwind(r) ==
  /\ \/ /\ pc[r] = "poll_init" \/ (pc[r] = "poll_update" /\ waker # cx)
        /\ seen' = Share(Touch(seen, r), r)
        /\ UNCHANGED waker
     \/ /\ pc[r] = "poll_update" /\ waker # cx
        /\ waker' = cx
        /\ seen' = Share(Access(r, "waker"), r)
  /\ Goto(r, "rx_idle")
  /\ UNCHANGED <<state, cur, val, cx, parked, live, result, unwound>>

AnyUnwindNext ==
  \/ UnwindNext
  \/ \E r \in Receivers : RecvUnwakeUnwind(r) \/ PollUnwind(r)

AnyUnwindSpec == UnwindInit /\ [][AnyUnwindNext]_uvars
-----------------------------------------------------------------------------
(* Properties *)

(* When both handles are gone, the value and the waker have been dropped,  *)
(* and the memory is freed unless a destructor or Waker::wake unwound out  *)
(* of a drop: then neither end frees it, and it is lost but never used.    *)
LeakOnlyByUnwinding ==
  SenderGone /\ ReceiverGone =>
    /\ val # "data" /\ waker = NoWaker
    /\ live => \E t \in Actors : unwound[t] # "none"

(* oneshot.rs, SAFETY comments of drop_receiver and poll_recv: a receiver  *)
(* that sees WAITING or PENDING and shuts the sender out of the waker      *)
(* field finds an initialised waker there.                                 *)
PendingHasWaker ==
  \A r \in Receivers : pc[r] \in {"poll_update", "rxdrop_waker"} => waker # NoWaker
=============================================================================
