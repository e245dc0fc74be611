------------------------ MODULE OneshotUnwindProofs ------------------------
(***************************************************************************)
(* Proofs about OneshotUnwind, from those about Oneshot.  To the word and  *)
(* the fields a drop that unwound is a drop that never took its next step: *)
(* with every such thread put back in front of that step, each step of     *)
(* UnwindNext is a step of Oneshot, or the one poll that LeaveStep covers. *)
(***************************************************************************)
EXTENDS OneshotUnwind, TLAPS

GoneLabels == {"tx_gone", "rx_gone"}

(* The access a thread would have gone on to. *)
Resumed(t) ==
  CASE unwound[t] = "rxdrop_read"  -> "rxdrop"
    [] unwound[t] = "rxdrop_waker" -> "rxdrop_mark"
    [] unwound[t] = "txdrop_wake"  -> "txdrop_mark"
    [] OTHER                       -> pc[t]

resumed == [t \in Actors |-> Resumed(t)]

S == INSTANCE OneshotProofs WITH pc <- resumed

(* The channel as if every panic were still ahead, and what the panics     *)
(* themselves leave behind.                                                *)
UnwoundInv ==
  /\ pc \in [Actors -> TxLabels \cup RxLabels]
  /\ pc[Tx] \in TxLabels
  /\ \A r \in Receivers : pc[r] \in RxLabels
  /\ unwound \in [Actors -> {"none", "rxdrop_read", "rxdrop_waker", "txdrop_wake"}]
  /\ unwound[Tx] \in {"none", "txdrop_wake"}
  /\ unwound[Tx] # "none" => pc[Tx] = "tx_gone"
  /\ \A r \in Receivers :
       /\ unwound[r] \in {"none", "rxdrop_read", "rxdrop_waker"}
       /\ unwound[r] # "none" => pc[r] = "rx_gone"
       /\ unwound[r] = "rxdrop_read" => result[Tx] = "Ok" /\ "READY" \notin state

UInv == S!IInv /\ UnwoundInv

-----------------------------------------------------------------------------
USE ActorsAssumption, FeaturesAssumption
    DEF Actors, S!Actors, S!ActorsAssumption, S!FeaturesAssumption

(* A thread that has not unwound is where the resumed one is. *)
LEMMA SameLabel ==
  ASSUME UnwoundInv, NEW t \in Actors
  PROVE  /\ resumed[t] = Resumed(t)
         /\ unwound[t] = "none" => resumed[t] = pc[t]
         /\ pc[t] \notin GoneLabels => unwound[t] = "none" /\ resumed[t] = pc[t]
         /\ unwound[t] # "none" => resumed[t] \in {"rxdrop", "rxdrop_mark", "txdrop_mark"}
BY DEF UnwoundInv, resumed, Resumed, GoneLabels

(* A thread that has not unwound moves the same way in both. *)
LEMMA SameMove ==
  ASSUME UnwoundInv, NEW t \in Actors, unwound[t] = "none", UNCHANGED unwound,
         NEW l, Goto(t, l)
  PROVE  S!Goto(t, l)
BY DEF UnwoundInv, Goto, S!Goto, resumed, Resumed

(* wake_all finds the same threads asleep. *)
LEMMA SameWake ==
  ASSUME UnwoundInv, unwound[Tx] = "none", UNCHANGED unwound, NEW l, WakeWaiting(l)
  PROVE  S!WakeWaiting(l)
BY DEF UnwoundInv, WakeWaiting, S!WakeWaiting, resumed, Resumed, Touch, S!Touch

(* What the two channels share: everything but the labels. *)
USE DEF Load, S!Load, CasOk, S!CasOk, CasFail, S!CasFail, Return, S!Return,
    fields, S!fields, WakeWaker, S!WakeWaker, DropWaker, S!DropWaker, Dealloc,
    S!Dealloc, is_ready, S!is_ready, is_closed, S!is_closed, is_waiting,
    S!is_waiting, is_fieldless, S!is_fieldless, is_pending, S!is_pending,
    try_wake_after_ready, S!try_wake_after_ready, Method, S!Method
USE DEF try_setup_ready_release, S!try_setup_ready_release,
    try_setup_dataless_acquire, S!try_setup_dataless_acquire,
    try_sync_unset_ready_acquire, S!try_sync_unset_ready_acquire,
    try_setup_closed_dropping_release, S!try_setup_closed_dropping_release,
    try_sync_setup_closed_wake, S!try_sync_setup_closed_wake,
    try_sync_setup_closed_acquire, S!try_sync_setup_closed_acquire,
    try_set_closed_dropping_release, S!try_set_closed_dropping_release,
    try_set_dropping_release, S!try_set_dropping_release, try_set_waiting,
    S!try_set_waiting, try_sync_set_waiting_pending_wakeless,
    S!try_sync_set_waiting_pending_wakeless, try_unset_pending_acquire,
    S!try_unset_pending_acquire, try_sync_set_wakeless_acquire,
    S!try_sync_set_wakeless_acquire, unset_wakeless_release,
    S!unset_wakeless_release
USE DEF Touch, S!Touch, AcquireBy, S!AcquireBy, ReleaseBy, S!ReleaseBy, Ordered,
    S!Ordered, Access, S!Access, Join, S!Join, Share, S!Share, Cells, S!Cells

(* send is the same in both. *)
LEMMA SameSendNext ==
  ASSUME UnwoundInv, UNCHANGED unwound, SendNext
  PROVE  S!SendNext
<1>0. /\ pc[Tx] \notin GoneLabels => unwound[Tx] = "none" /\ resumed[Tx] = pc[Tx]
      /\ \A l : unwound[Tx] = "none" /\ Goto(Tx, l) => S!Goto(Tx, l)
      /\ \A l : unwound[Tx] = "none" /\ WakeWaiting(l) => S!WakeWaiting(l)
  BY SameLabel, SameMove, SameWake
<1>1. CASE SendNew
  BY <1>0, <1>1 DEF SendNew, S!SendNew, GoneLabels, S!SendNext
<1>2. CASE SendWrite
  BY <1>0, <1>2 DEF SendWrite, S!SendWrite, GoneLabels, S!SendNext
<1>3. CASE SendCas
  BY <1>0, <1>3 DEF SendCas, S!SendCas, GoneLabels, S!SendNext
<1>4. CASE SendAcquire
  BY <1>0, <1>4 DEF SendAcquire, S!SendAcquire, GoneLabels, S!SendNext
<1>5. CASE SendWake
  BY <1>0, <1>5 DEF SendWake, S!SendWake, GoneLabels, S!SendNext
<1>6. CASE SendNotify
  BY <1>0, <1>6 DEF SendNotify, S!SendNotify, GoneLabels, S!SendNext
<1>7. CASE SendReadback
  BY <1>0, <1>7 DEF SendReadback, S!SendReadback, GoneLabels, S!SendNext
<1> QED BY <1>1, <1>2, <1>3, <1>4, <1>5, <1>6, <1>7 DEF SendNext

(* drop_sender is the same in both. *)
LEMMA SameTxDropNext ==
  ASSUME UnwoundInv, UNCHANGED unwound, TxDropNext
  PROVE  S!TxDropNext
<1>0. /\ pc[Tx] \notin GoneLabels => unwound[Tx] = "none" /\ resumed[Tx] = pc[Tx]
      /\ \A l : unwound[Tx] = "none" /\ Goto(Tx, l) => S!Goto(Tx, l)
      /\ \A l : unwound[Tx] = "none" /\ WakeWaiting(l) => S!WakeWaiting(l)
  BY SameLabel, SameMove, SameWake
<1>1. CASE TxDropNew
  BY <1>0, <1>1 DEF TxDropNew, S!TxDropNew, GoneLabels, S!TxDropNext
<1>2. CASE TxDropAcquire
  BY <1>0, <1>2 DEF TxDropAcquire, S!TxDropAcquire, GoneLabels, S!TxDropNext
<1>3. CASE TxDropClosed
  BY <1>0, <1>3 DEF TxDropClosed, S!TxDropClosed, GoneLabels, S!TxDropNext
<1>4. CASE TxDropPolling
  BY <1>0, <1>4 DEF TxDropPolling, S!TxDropPolling, GoneLabels, S!TxDropNext
<1>5. CASE TxDropPending
  BY <1>0, <1>5 DEF TxDropPending, S!TxDropPending, GoneLabels, S!TxDropNext
<1>6. CASE TxDropWake
  BY <1>0, <1>6 DEF TxDropWake, S!TxDropWake, GoneLabels, S!TxDropNext
<1>7. CASE TxDropWaiting
  BY <1>0, <1>7 DEF TxDropWaiting, S!TxDropWaiting, GoneLabels, S!TxDropNext
<1>8. CASE TxDropNotify
  BY <1>0, <1>8 DEF TxDropNotify, S!TxDropNotify, GoneLabels, S!TxDropNext
<1>9. CASE TxDropMark
  BY <1>0, <1>9 DEF TxDropMark, S!TxDropMark, GoneLabels, S!TxDropNext
<1>10. CASE TxDropOpen
  BY <1>0, <1>10 DEF TxDropOpen, S!TxDropOpen, GoneLabels, S!TxDropNext
<1>11. CASE TxDealloc
  BY <1>0, <1>11 DEF TxDealloc, S!TxDealloc, GoneLabels, S!TxDropNext
<1> QED BY <1>1, <1>2, <1>3, <1>4, <1>5, <1>6, <1>7, <1>8, <1>9, <1>10, <1>11 DEF TxDropNext

(* recv is the same in both. *)
LEMMA SameRecvNext ==
  ASSUME UnwoundInv, UNCHANGED unwound, NEW r \in Receivers, RecvNext(r)
  PROVE  S!RecvNext(r)
<1>0. /\ pc[r] \notin GoneLabels => unwound[r] = "none" /\ resumed[r] = pc[r]
      /\ \A l : unwound[r] = "none" /\ Goto(r, l) => S!Goto(r, l)
      /\ Shared => S!Shared
      /\ Exclusive => S!Exclusive /\ pc[r] = "rx_idle"
  BY SameLabel, SameMove DEF Shared, S!Shared, Exclusive, S!Exclusive, RecvLabels,
     S!RecvLabels, GoneLabels
<1>1. CASE RecvNew(r)
  BY <1>0, <1>1 DEF RecvNew, S!RecvNew, GoneLabels, S!RecvNext
<1>2. CASE RecvReady(r)
  BY <1>0, <1>2 DEF RecvReady, S!RecvReady, GoneLabels, S!RecvNext
<1>3. CASE RecvRead(r)
  BY <1>0, <1>3 DEF RecvRead, S!RecvRead, GoneLabels, S!RecvNext
<1>4. CASE RecvNone(r)
  BY <1>0, <1>4 DEF RecvNone, S!RecvNone, GoneLabels, S!RecvNext
<1>5. CASE RecvUnpend(r)
  BY <1>0, <1>5 DEF RecvUnpend, S!RecvUnpend, GoneLabels, S!RecvNext
<1>6. CASE RecvUnwake(r)
  BY <1>0, <1>6 DEF RecvUnwake, S!RecvUnwake, GoneLabels, S!RecvNext
<1>7. CASE RecvRewait(r)
  BY <1>0, <1>7 DEF RecvRewait, S!RecvRewait, GoneLabels, S!RecvNext
<1>8. CASE RecvWait(r)
  BY <1>0, <1>8 DEF RecvWait, S!RecvWait, GoneLabels, S!RecvNext
<1>9. CASE FutexWait(r)
  BY <1>0, <1>9 DEF FutexWait, S!FutexWait, GoneLabels, S!RecvNext
<1>10. CASE FutexSpurious(r)
  BY <1>0, <1>10 DEF FutexSpurious, S!FutexSpurious, GoneLabels, S!RecvNext
<1>11. CASE Reload(r)
  BY <1>0, <1>11 DEF Reload, S!Reload, GoneLabels, S!RecvNext
<1>12. CASE SpinWait(r)
  BY <1>0, <1>12 DEF SpinWait, S!SpinWait, GoneLabels, S!RecvNext
<1> QED BY <1>1, <1>2, <1>3, <1>4, <1>5, <1>6, <1>7, <1>8, <1>9, <1>10, <1>11,
          <1>12 DEF RecvNext

(* poll_recv is the same in both. *)
LEMMA SamePollNext ==
  ASSUME UnwoundInv, UNCHANGED unwound, NEW r \in Receivers, PollNext(r)
  PROVE  S!PollNext(r)
<1>0. /\ pc[r] \notin GoneLabels => unwound[r] = "none" /\ resumed[r] = pc[r]
      /\ \A l : unwound[r] = "none" /\ Goto(r, l) => S!Goto(r, l)
      /\ Shared => S!Shared
      /\ Exclusive => S!Exclusive /\ pc[r] = "rx_idle"
  BY SameLabel, SameMove DEF Shared, S!Shared, Exclusive, S!Exclusive, RecvLabels,
     S!RecvLabels, GoneLabels
<1>1. CASE PollNew(r)
  BY <1>0, <1>1 DEF PollNew, S!PollNew, GoneLabels, S!PollNext
<1>2. CASE PollReady(r)
  BY <1>0, <1>2 DEF PollReady, S!PollReady, GoneLabels, S!PollNext
<1>3. CASE PollRead(r)
  BY <1>0, <1>3 DEF PollRead, S!PollRead, GoneLabels, S!PollNext
<1>4. CASE PollNone(r)
  BY <1>0, <1>4 DEF PollNone, S!PollNone, GoneLabels, S!PollNext
<1>5. CASE PollAgain(r)
  BY <1>0, <1>5 DEF PollAgain, S!PollAgain, GoneLabels, S!PollNext
<1>6. CASE PollUpdate(r)
  BY <1>0, <1>6 DEF PollUpdate, S!PollUpdate, GoneLabels, S!PollNext
<1>7. CASE PollFirst(r)
  BY <1>0, <1>7 DEF PollFirst, S!PollFirst, GoneLabels, S!PollNext
<1>8. CASE PollInit(r)
  BY <1>0, <1>8 DEF PollInit, S!PollInit, GoneLabels, S!PollNext
<1>9. CASE PollPending(r)
  BY <1>0, <1>9 DEF PollPending, S!PollPending, GoneLabels, S!PollNext
<1>10. CASE PollOvertaken(r)
  BY <1>0, <1>10 DEF PollOvertaken, S!PollOvertaken, GoneLabels, S!PollNext
<1>11. CASE PollDiscard(r)
  BY <1>0, <1>11 DEF PollDiscard, S!PollDiscard, GoneLabels, S!PollNext
<1> QED BY <1>1, <1>2, <1>3, <1>4, <1>5, <1>6, <1>7, <1>8, <1>9, <1>10, <1>11 DEF PollNext

(* drop_receiver is the same in both. *)
LEMMA SameRxDropNext ==
  ASSUME UnwoundInv, UNCHANGED unwound, NEW r \in Receivers, RxDropNext(r)
  PROVE  S!RxDropNext(r)
<1>0. /\ pc[r] \notin GoneLabels => unwound[r] = "none" /\ resumed[r] = pc[r]
      /\ \A l : unwound[r] = "none" /\ Goto(r, l) => S!Goto(r, l)
      /\ Shared => S!Shared
      /\ Exclusive => S!Exclusive /\ pc[r] = "rx_idle"
  BY SameLabel, SameMove DEF Shared, S!Shared, Exclusive, S!Exclusive, RecvLabels,
     S!RecvLabels, GoneLabels
<1>1. CASE RxDropNew(r)
  BY <1>0, <1>1 DEF RxDropNew, S!RxDropNew, GoneLabels, S!RxDropNext
<1>2. CASE RxDropReady(r)
  BY <1>0, <1>2 DEF RxDropReady, S!RxDropReady, GoneLabels, S!RxDropNext
<1>3. CASE RxDropRead(r)
  BY <1>0, <1>3 DEF RxDropRead, S!RxDropRead, GoneLabels, S!RxDropNext
<1>4. CASE RxDropAcquire(r)
  BY <1>0, <1>4 DEF RxDropAcquire, S!RxDropAcquire, GoneLabels, S!RxDropNext
<1>5. CASE RxDropClosed(r)
  BY <1>0, <1>5 DEF RxDropClosed, S!RxDropClosed, GoneLabels, S!RxDropNext
<1>6. CASE RxDropPending(r)
  BY <1>0, <1>6 DEF RxDropPending, S!RxDropPending, GoneLabels, S!RxDropNext
<1>7. CASE RxDropWaker(r)
  BY <1>0, <1>7 DEF RxDropWaker, S!RxDropWaker, GoneLabels, S!RxDropNext
<1>8. CASE RxDropMark(r)
  BY <1>0, <1>8 DEF RxDropMark, S!RxDropMark, GoneLabels, S!RxDropNext
<1>9. CASE RxDropOpen(r)
  BY <1>0, <1>9 DEF RxDropOpen, S!RxDropOpen, GoneLabels, S!RxDropNext
<1>10. CASE RxDealloc(r)
  BY <1>0, <1>10 DEF RxDealloc, S!RxDealloc, GoneLabels, S!RxDropNext
<1> QED BY <1>1, <1>2, <1>3, <1>4, <1>5, <1>6, <1>7, <1>8, <1>9, <1>10 DEF RxDropNext
(* A step of Oneshot is a step of the resumed channel. *)
LEMMA SameNext ==
  ASSUME UnwoundInv, UNCHANGED unwound, Next
  PROVE  S!Next
BY SameSendNext, SameTxDropNext, SameRecvNext, SamePollNext, SameRxDropNext
   DEF Next, S!Next

(* A thread that unwinds moves to where the resumed one goes on. *)
LEMMA UnwindMove ==
  ASSUME UnwoundInv, NEW t \in Actors, unwound[t] = "none", Unwind(t), NEW l, Goto(t, l)
  PROVE  /\ pc[t] = "rxdrop_read" => S!Goto(t, "rxdrop")
         /\ pc[t] = "rxdrop_waker" => S!Goto(t, "rxdrop_mark")
         /\ pc[t] = "txdrop_wake" => S!Goto(t, "txdrop_mark")
BY DEF UnwoundInv, Unwind, Goto, S!Goto, resumed, Resumed

(* So a panic is the step it interrupts, or a poll that ends early. *)
LEMMA UnwindStep ==
  ASSUME UnwoundInv
  PROVE  /\ TxDropWakeUnwind => S!TxDropWake
         /\ \A r \in Receivers :
              /\ RxDropReadUnwind(r) => S!RxDropRead(r)
              /\ RxDropWakerUnwind(r) => S!RxDropWaker(r)
              /\ PollDiscardUnwind(r) => S!PollLeaves(r)
<1>0. \A t \in Actors :
        /\ pc[t] \notin GoneLabels => unwound[t] = "none" /\ resumed[t] = pc[t]
        /\ \A l : unwound[t] = "none" /\ UNCHANGED unwound /\ Goto(t, l) => S!Goto(t, l)
        /\ \A l : unwound[t] = "none" /\ Unwind(t) /\ Goto(t, l) =>
             /\ pc[t] = "rxdrop_read" => S!Goto(t, "rxdrop")
             /\ pc[t] = "rxdrop_waker" => S!Goto(t, "rxdrop_mark")
             /\ pc[t] = "txdrop_wake" => S!Goto(t, "txdrop_mark")
  BY SameLabel, SameMove, UnwindMove
<1>1. TxDropWakeUnwind => S!TxDropWake
  BY <1>0 DEF TxDropWakeUnwind, S!TxDropWake, GoneLabels
<1>2. ASSUME NEW r \in Receivers, RxDropReadUnwind(r)
      PROVE  S!RxDropRead(r)
  BY <1>0, <1>2 DEF RxDropReadUnwind, S!RxDropRead, GoneLabels
<1>3. ASSUME NEW r \in Receivers, RxDropWakerUnwind(r)
      PROVE  S!RxDropWaker(r)
  BY <1>0, <1>3 DEF RxDropWakerUnwind, S!RxDropWaker, GoneLabels
<1>4. ASSUME NEW r \in Receivers, PollDiscardUnwind(r)
      PROVE  S!PollLeaves(r)
  BY <1>0, <1>4 DEF PollDiscardUnwind, S!PollLeaves, GoneLabels
<1> QED BY <1>1, <1>2, <1>3, <1>4

(* Threads keep to their labels, and a gone handle takes no step. *)
LabelsKept ==
  /\ pc' \in [Actors -> TxLabels \cup RxLabels]
  /\ pc'[Tx] \in TxLabels
  /\ \A r \in Receivers : pc'[r] \in RxLabels
  /\ \A t \in Actors : pc[t] \in GoneLabels => pc'[t] = pc[t]

LEMMA LabelStep ==
  ASSUME UnwoundInv, Next
  PROVE  LabelsKept
<1> USE DEF UnwoundInv, LabelsKept, GoneLabels, TxLabels, RxLabels, RecvLabels,
        PollLabels, RxDropLabels, Goto, WakeWaiting, Shared, Exclusive
<1>1. CASE SendNext
  BY <1>1 DEF SendNext, SendNew, SendWrite, SendCas, SendAcquire, SendWake,
              SendNotify, SendReadback
<1>2. CASE TxDropNext
  BY <1>2 DEF TxDropNext, TxDropNew, TxDropAcquire, TxDropClosed,
              TxDropPolling, TxDropPending, TxDropWake, TxDropWaiting,
              TxDropNotify, TxDropMark, TxDropOpen, TxDealloc
<1>3. ASSUME NEW r \in Receivers, RecvNext(r) \/ PollNext(r) \/ RxDropNext(r)
      PROVE  LabelsKept
  <2>1. CASE RecvNext(r)
    BY <2>1 DEF RecvNext, RecvNew, RecvReady, RecvRead, RecvNone, RecvUnpend,
                RecvUnwake, RecvRewait, RecvWait, FutexWait, FutexSpurious,
                Reload, SpinWait
  <2>2. CASE PollNext(r)
    BY <2>2 DEF PollNext, PollNew, PollReady, PollRead, PollNone, PollAgain,
                PollUpdate, PollFirst, PollInit, PollPending, PollOvertaken,
                PollDiscard
  <2>3. CASE RxDropNext(r)
    BY <2>3 DEF RxDropNext, RxDropNew, RxDropReady, RxDropRead, RxDropAcquire,
                RxDropClosed, RxDropPending, RxDropWaker, RxDropMark,
                RxDropOpen, RxDealloc
  <2> QED BY <1>3, <2>1, <2>2, <2>3
<1> QED BY <1>1, <1>2, <1>3 DEF Next

-----------------------------------------------------------------------------
(* UInv is an inductive invariant of UnwindSpec. *)
LEMMA UnwindInitInv == UnwindInit => UInv
<1> SUFFICES ASSUME UnwindInit PROVE UInv
  OBVIOUS
<1>1. UnwoundInv
  BY DEF UnwindInit, Init, UnwoundInv, TxLabels, RxLabels
<1>2. resumed = pc
  BY <1>1 DEF UnwindInit, Init, resumed, Resumed
<1>3. S!Init
  BY <1>2 DEF UnwindInit, Init, S!Init
<1> QED BY <1>1, <1>3, S!InitInv DEF UInv

LEMMA UnwindInductive ==
  ASSUME UInv, UnwindNext
  PROVE  UInv'
<1>0. S!IInv /\ UnwoundInv
  BY DEF UInv
<1>1. CASE Next /\ UNCHANGED unwound
  <2>1. S!Next /\ LabelsKept
    BY <1>0, <1>1, SameNext, LabelStep
  <2>2. S!IInv'
    BY <1>0, <2>1, S!Inductive
  <2>3. result[Tx] = "Ok" /\ "READY" \notin state =>
          result'[Tx] = "Ok" /\ "READY" \notin state'
    BY <1>0, <2>1, S!OkStays
  <2>4. UnwoundInv'
    BY <1>0, <1>1, <2>1, <2>3 DEF UnwoundInv, LabelsKept, GoneLabels
  <2> QED BY <2>2, <2>4 DEF UInv
<1>2. CASE TxDropWakeUnwind
  <2>1. S!Next
    BY <1>0, <1>2, UnwindStep DEF S!Next, S!TxDropNext
  <2>2. UnwoundInv'
    BY <1>0, <1>2 DEF TxDropWakeUnwind, UnwoundInv, Unwind, Goto, TxLabels
  <2> QED BY <1>0, <2>1, <2>2, S!Inductive DEF UInv
<1>3. ASSUME NEW r \in Receivers, RxDropReadUnwind(r)
      PROVE  UInv'
  <2>1. S!Next
    BY <1>0, <1>3, UnwindStep DEF S!Next, S!RxDropNext
  <2>2. result[Tx] = "Ok" /\ "READY" \notin state
    <3>1. resumed[r] = "rxdrop_read"
      BY <1>0, <1>3, SameLabel DEF RxDropReadUnwind, GoneLabels
    <3> QED BY <1>0, <3>1 DEF S!IInv, S!ValInv, S!ReadLabels
  <2>3. UnwoundInv'
    BY <1>0, <1>3, <2>2 DEF RxDropReadUnwind, UnwoundInv, Unwind, Goto,
       RxLabels, RxDropLabels
  <2> QED BY <1>0, <2>1, <2>3, S!Inductive DEF UInv
<1>4. ASSUME NEW r \in Receivers, RxDropWakerUnwind(r)
      PROVE  UInv'
  <2>1. S!Next
    BY <1>0, <1>4, UnwindStep DEF S!Next, S!RxDropNext
  <2>2. UnwoundInv'
    BY <1>0, <1>4 DEF RxDropWakerUnwind, UnwoundInv, Unwind, Goto, RxLabels,
       RxDropLabels
  <2> QED BY <1>0, <2>1, <2>2, S!Inductive DEF UInv
<1>5. ASSUME NEW r \in Receivers, PollDiscardUnwind(r)
      PROVE  UInv'
  <2>1. S!IInv'
    BY <1>0, <1>5, UnwindStep, S!LeaveStep
  <2>2. UnwoundInv'
    BY <1>0, <1>5 DEF PollDiscardUnwind, UnwoundInv, Goto, RxLabels
  <2> QED BY <2>1, <2>2 DEF UInv
<1> QED BY <1>1, <1>2, <1>3, <1>4, <1>5 DEF UnwindNext

(* The channel keeps UInv whatever panics. *)
THEOREM UnwindInvariance == UnwindSpec => []UInv
<1>1. UInv /\ UNCHANGED uvars => UInv'
  <2> SUFFICES ASSUME UInv, UNCHANGED uvars PROVE UInv'
    OBVIOUS
  <2>1. UNCHANGED resumed /\ UNCHANGED <<state, cur, val, waker, cx, parked, live, result, seen>>
    BY DEF uvars, vars, resumed, Resumed
  <2>2. S!IInv'
    BY <2>1, S!Inductive DEF UInv, S!vars
  <2>3. UnwoundInv'
    BY DEF UInv, UnwoundInv, uvars, vars
  <2> QED BY <2>2, <2>3 DEF UInv
<1> QED BY <1>1, UnwindInitInv, UnwindInductive, PTL DEF UnwindSpec

-----------------------------------------------------------------------------
(* What the invariant says of the threads as they are, panics included. *)

HIDE DEF is_ready, S!is_ready, is_closed, S!is_closed, is_waiting, S!is_waiting,
    is_fieldless, S!is_fieldless, is_pending, S!is_pending

(* Only a thread that is gone can be elsewhere in the resumed channel. *)
LEMMA Labels ==
  ASSUME UInv, NEW t \in Actors
  PROVE  /\ pc[t] \notin GoneLabels => resumed[t] = pc[t]
         /\ resumed[t] \in GoneLabels => pc[t] = resumed[t]
         /\ resumed[t] = pc[t] \/ (pc[t] \in GoneLabels
              /\ resumed[t] \in {"rxdrop", "rxdrop_mark", "txdrop_mark"})
BY SameLabel DEF UInv, UnwoundInv, GoneLabels

(* No panic of foreign code lets a thread read a value that is not there,  *)
(* or race for it.                                                         *)
THEOREM UnwindDataCorrect == UnwindSpec => []DataAccess
<1>1. UInv => DataAccess
  <2> SUFFICES ASSUME UInv PROVE DataAccess
    OBVIOUS
  <2>1. S!DataAccess
    BY S!DataFact DEF UInv
  <2> QED BY <2>1, Labels DEF DataAccess, S!DataAccess, DataLabels, S!DataLabels, GoneLabels
<1> QED BY <1>1, UnwindInvariance, PTL

(* Nor a waker. *)
THEOREM UnwindWakerCorrect == UnwindSpec => []WakerAccess
<1>1. UInv => WakerAccess
  <2> SUFFICES ASSUME UInv PROVE WakerAccess
    OBVIOUS
  <2>1. S!WakerAccess
    BY S!WakerFact DEF UInv
  <2> QED BY <2>1, Labels DEF WakerAccess, S!WakerAccess, WakerLabels, S!WakerLabels,
             GoneLabels
<1> QED BY <1>1, UnwindInvariance, PTL

(* The memory is freed once, by the last thread out, or never: an end that *)
(* unwound out of its drop keeps the other from freeing it.                *)
THEOREM UnwindDeallocCorrect == UnwindSpec => []DeallocSafe
<1>1. UInv => DeallocSafe
  <2> SUFFICES ASSUME UInv PROVE DeallocSafe
    OBVIOUS
  <2>1. S!DeallocSafe
    BY S!DeallocFact DEF UInv
  <2>2. \A t \in Actors : pc[t] \in DeallocLabels => resumed[t] = pc[t]
    BY Labels DEF DeallocLabels, GoneLabels
  <2>3. \A u \in Actors : resumed[u] \in IdleLabels => pc[u] \in IdleLabels
    BY Labels DEF IdleLabels, GoneLabels
  <2>4. S!SenderGone => SenderGone
    BY Labels DEF SenderGone, S!SenderGone, GoneLabels
  <2>5. S!ReceiverGone => ReceiverGone
    BY Labels DEF ReceiverGone, S!ReceiverGone, GoneLabels
  <2> QED BY <2>1, <2>2, <2>3, <2>4, <2>5
          DEF DeallocSafe, S!DeallocSafe, DeallocLabels, S!DeallocLabels, IdleLabels, S!IdleLabels
<1> QED BY <1>1, UnwindInvariance, PTL

(* Whoever waits will be woken, also when a Waker::wake panics. *)
THEOREM UnwindWakeupCorrect == UnwindSpec => []NoLostWakeup
<1>1. UInv => NoLostWakeup
  <2> SUFFICES ASSUME UInv PROVE NoLostWakeup
    OBVIOUS
  <2>1. S!NoLostWakeup
    BY S!WakeupFact DEF UInv
  <2> QED BY <2>1, Labels DEF NoLostWakeup, S!NoLostWakeup, GoneLabels
<1> QED BY <1>1, UnwindInvariance, PTL

(* A caller is told the truth about the value. *)
THEOREM UnwindOutcomesCorrect == UnwindSpec => []Outcomes
<1>1. UInv => Outcomes
  BY S!OutcomesFact DEF UInv, Outcomes, S!Outcomes, is_ready, S!is_ready, is_closed, S!is_closed
<1> QED BY <1>1, UnwindInvariance, PTL

(* When both handles are gone the value and the waker are gone too, and    *)
(* the memory is freed unless a drop unwound.                              *)
THEOREM UnwindLeak == UnwindSpec => []LeakOnlyByUnwinding
<1>1. UInv => LeakOnlyByUnwinding
  <2> SUFFICES ASSUME UInv, SenderGone, NEW r \in Receivers, pc[r] = "rx_gone"
               PROVE  /\ val # "data" /\ waker = NoWaker
                      /\ live => \E t \in Actors : unwound[t] # "none"
    BY DEF LeakOnlyByUnwinding, ReceiverGone
  <2>0. S!IInv /\ UnwoundInv
    BY DEF UInv
  <2>1. resumed[Tx] \in {"tx_gone", "txdrop_mark"}
    BY <2>0, SameLabel DEF SenderGone, UnwoundInv, Resumed
  <2>2. resumed[r] \in {"rx_gone", "rxdrop", "rxdrop_mark"}
    BY <2>0, SameLabel DEF UnwoundInv, Resumed
  <2>3. \A q \in Receivers : q # r => resumed[q] = "rx_idle"
    BY <2>0, <2>2 DEF S!IInv, S!ExclInv, S!RxDropLabels
  <2>4. "READY" \notin state
    <3>1. CASE unwound[r] = "none"
      BY <2>0, <3>1, SameLabel DEF S!IInv, S!GoneInv, S!ReceiverGone
    <3>2. CASE unwound[r] = "rxdrop_read"
      BY <2>0, <3>2 DEF UnwoundInv
    <3>3. CASE unwound[r] = "rxdrop_waker"
      BY <2>0, <3>3, SameLabel DEF Resumed, S!IInv, S!GoneInv, S!CopyInv
    <3> QED BY <2>0, <3>1, <3>2, <3>3 DEF UnwoundInv
  <2>5. val # "data"
    BY <2>0, <2>1, <2>2, <2>3, <2>4 DEF S!IInv, S!ValInv, S!ReadLabels
  <2>6. "PENDING" \notin state
    BY <2>0, <2>1 DEF S!IInv, S!WordInv, S!OpenInv
  <2>7. waker = NoWaker
    BY <2>0, <2>1, <2>2, <2>3, <2>6 DEF S!IInv, S!WakerInv, S!HoldLabels
  <2>8. ASSUME live
        PROVE  \E t \in Actors : unwound[t] # "none"
    <3>1. ~(S!SenderGone /\ S!ReceiverGone)
      BY <2>0, <2>8 DEF S!IInv, S!GoneInv
    <3> QED BY <2>0, <3>1, SameLabel DEF SenderGone, S!SenderGone, S!ReceiverGone
  <2> QED BY <2>5, <2>7, <2>8
<1> QED BY <1>1, UnwindInvariance, PTL

(* A panic adds no edge to the state diagram. *)
THEOREM UnwindDiagram == UnwindSpec => Transitions
<1>1. UInv /\ [UnwindNext]_uvars =>
        [(<<state, state'>> \in DiagramEdges \cup {<<ready, new>>})]_state
  <2> SUFFICES ASSUME UInv, UnwindNext, state' # state
               PROVE  <<state, state'>> \in DiagramEdges \cup {<<ready, new>>}
    BY DEF uvars, vars
  <2>1. Next /\ UNCHANGED unwound
    BY DEF UnwindNext, TxDropWakeUnwind, RxDropReadUnwind, PollDiscardUnwind, RxDropWakerUnwind
  <2>2. S!Next /\ S!IInv
    BY <2>1, SameNext DEF UInv
  <2>3. <<state, state'>> \in S!DiagramEdges \cup {<<S!ready, S!new>>}
    BY <2>2, S!EdgeStep
  <2> QED BY <2>3 DEF DiagramEdges, S!DiagramEdges, new, S!new, ready, S!ready,
             waiting, S!waiting, pending, S!pending, polling, S!polling, dataless,
             S!dataless, closed, S!closed, dropped, S!dropped, droppable, S!droppable
<1> QED BY <1>1, UnwindInvariance, PTL DEF UnwindSpec, Transitions

=============================================================================
