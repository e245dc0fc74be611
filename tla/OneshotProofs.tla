--------------------------- MODULE OneshotProofs ---------------------------
(***************************************************************************)
(* Proofs about Oneshot, for every number of receiving threads and wakers  *)
(* and every set of cargo features.                                        *)
(***************************************************************************)
EXTENDS Oneshot, TLAPS

ReadLabels == {"recv_read", "poll_read", "rxdrop_read"}

(* The labels at which a thread owns the waker that is in the field. *)
HoldLabels == {"send_acquire", "send_wake", "txdrop_wake", "recv_unwake",
               "poll_update", "poll_unset", "poll_discard", "rxdrop_waker"}

(* The state table, flag by flag. *)
WordInv ==
  /\ "WAITING" \in state => "READY" \notin state /\ "CLOSE" \notin state
  /\ "PENDING" \in state => "WAITING" \in state /\ "async" \in Features
  /\ "FIELDLESS" \in state /\ "WAITING" \in state => "PENDING" \in state
  /\ "READY" \in state => ("CLOSE" \in state <=> "FIELDLESS" \in state)

(* What a copy tells about the word for good. *)
CopyInv ==
  \A t \in Actors :
    /\ "CLOSE" \in cur[t] => "CLOSE" \in state
    /\ "CLOSE" \in cur[t] /\ "READY" \notin cur[t] => "READY" \notin state
    /\ "CLOSE" \in cur[t] /\ "FIELDLESS" \in cur[t] => "FIELDLESS" \in state
    /\ "FIELDLESS" \in cur[t] /\ "READY" \notin cur[t] /\ "WAITING" \notin cur[t]
         => "READY" \notin state /\ "FIELDLESS" \in state /\ "WAITING" \notin state

(* poll and drop have the Receiver to themselves. *)
ExclInv ==
  /\ \A r, q \in Receivers :
       pc[r] \in PollLabels \cup RxDropLabels /\ q # r => pc[q] = "rx_idle"
  /\ \A r \in Receivers : pc[r] \in PollLabels => "async" \in Features

(* How far the sender is. *)
SendInv ==
  /\ result[Tx] \in {"-", "Ok", "Err"}
  /\ pc[Tx] \in {"tx_idle", "send_write", "send_cas", "send_readback"} => result[Tx] = "-"
  /\ pc[Tx] \in {"send_write", "send_cas"} => "CLOSE" \notin cur[Tx]
  /\ pc[Tx] \in {"send_acquire", "send_wake", "send_notify"} => result[Tx] = "Ok"
  /\ pc[Tx] = "txdrop_new" => result[Tx] # "-"
  /\ pc[Tx] = "send_readback" => "CLOSE" \in state
  /\ result[Tx] = "Err" => "CLOSE" \in state
  /\ pc[Tx] \in {"txdrop_wake", "txdrop_notify", "txdrop_mark"} =>
       "CLOSE" \in cur[Tx] /\ "FIELDLESS" \notin cur[Tx]

(* No call has changed the word yet, except a read that a drop undid. *)
Untouched ==
  /\ "READY" \notin state /\ "CLOSE" \notin state
  /\ "WAITING" \notin state /\ "FIELDLESS" \notin state
  /\ \A r \in Receivers : pc[r] \notin RxDropLabels

(* A word that invites a send was not preceded by one. *)
OpenInv ==
  /\ "WAITING" \in state \/ Untouched
     => /\ result[Tx] = "-"
        /\ pc[Tx] \in {"tx_idle", "send_write", "send_cas", "txdrop"}
  /\ "FIELDLESS" \in state /\ "CLOSE" \notin state /\ "WAITING" \notin state
     => result[Tx] = "Ok"
  /\ "READY" \in state => result[Tx] = "Ok"

(* The value has exactly one owner. *)
ValInv ==
  /\ val = "sender" <=> result[Tx] = "-" /\ pc[Tx] \notin {"send_cas", "send_readback"}
  /\ val = "returned" <=> result[Tx] = "Err"
  /\ val = "data" <=> \/ "READY" \in state
                      \/ pc[Tx] \in {"send_cas", "send_readback"}
                      \/ \E r \in Receivers : pc[r] \in ReadLabels
  /\ \A r \in Receivers : pc[r] \in ReadLabels =>
       /\ result[Tx] = "Ok" /\ "READY" \notin state
       /\ \A q \in Receivers : pc[q] \in ReadLabels => q = r

(* Who made the word say that a receiver waits. *)
WaitInv ==
  /\ "WAITING" \in state /\ "PENDING" \notin state
     => \E q \in Receivers : pc[q] \in RecvLabels
  /\ "WAITING" \in state /\ "FIELDLESS" \in state
     => \E q \in Receivers : pc[q] \in {"poll_init", "poll_update", "poll_unset"}
  /\ \A r \in Receivers :
       /\ pc[r] \in {"poll_init", "poll_update", "poll_unset"} =>
            /\ "WAITING" \in cur[r] /\ "PENDING" \in cur[r] /\ "FIELDLESS" \in cur[r]
            /\ "WAITING" \in state => state = cur[r]
       /\ pc[r] \in RecvLabels /\ "PENDING" \in state => "PENDING" \in cur[r]
       /\ pc[r] \in {"recv_unwake", "wait", "blocked"} =>
            "WAITING" \in cur[r] /\ "PENDING" \notin state
       /\ pc[r] = "poll_discard" => "PENDING" \notin state
       /\ pc[r] \in HoldLabels \cup {"poll_init"} => ~Untouched

(* The waker has at most one owner: the word, or one thread. *)
WakerInv ==
  /\ "PENDING" \in state /\ "FIELDLESS" \notin state
     => waker # NoWaker /\ \A t \in Actors : pc[t] \notin HoldLabels
  /\ \A t \in Actors : pc[t] \in HoldLabels =>
       /\ waker # NoWaker
       /\ \A u \in Actors : pc[u] \in HoldLabels \cup {"poll_init"} => u = t
  /\ \A r \in Receivers : pc[r] = "poll_init" => waker = NoWaker
  /\ \A r \in Receivers : pc[r] \in PollLabels => cx # NoWaker
  /\ \A r \in Receivers : pc[r] = "poll_unset" => waker = cx
  /\ waker # NoWaker => \/ "PENDING" \in state /\ "FIELDLESS" \notin state
                        \/ \E t \in Actors : pc[t] \in HoldLabels

(* The drop protocol: FIELDLESS on a closed channel says that an end left. *)
GoneInv ==
  /\ "CLOSE" \in state /\ "FIELDLESS" \in state <=> SenderGone \/ ReceiverGone
  /\ "CLOSE" \in state /\ "READY" \in state => SenderGone
  /\ ReceiverGone => "READY" \notin state
  /\ live <=> ~(SenderGone /\ ReceiverGone)
  /\ pc[Tx] = "txdrop_dealloc" => ReceiverGone
  /\ \A r \in Receivers :
       /\ pc[r] = "rxdrop_dealloc" => SenderGone /\ "READY" \notin state
       /\ pc[r] \in {"rxdrop_waker", "rxdrop_mark"} =>
            "CLOSE" \in cur[r] /\ "READY" \notin cur[r] /\ "FIELDLESS" \notin cur[r]

(* Accesses to the data field are ordered by the word that announces them. *)
SeenData ==
  /\ pc[Tx] \in {"tx_idle", "send_write", "send_cas", "send_readback"} => Tx \in seen["data"]
  /\ "READY" \in state => "msg" \in seen["data"]
  /\ \A r \in Receivers : pc[r] \in ReadLabels => r \in seen["data"]

(* So are the accesses to the waker field. *)
SeenWaker ==
  /\ "PENDING" \in state /\ "FIELDLESS" \notin state => "msg" \in seen["waker"]
  /\ pc[Tx] = "send_acquire" => "msg" \in seen["waker"]
  /\ \A t \in Actors : pc[t] \in HoldLabels \ {"send_acquire"} => t \in seen["waker"]
  /\ \A r \in Receivers : pc[r] = "poll_init" => r \in seen["waker"]
  /\ Untouched => Receivers \subseteq seen["waker"]

(* The accesses of an end that left are published before the memory goes. *)
SeenDrop ==
  /\ \A t \in Actors : t \in seen[t]
  /\ \A r \in Receivers : pc[r] \in RxDropLabels \ {"rx_gone"} =>
       \A u \in Receivers : r \in seen[u]
  /\ ReceiverGone /\ live => \A u \in Receivers : "msg" \in seen[u]
  /\ SenderGone /\ live => "msg" \in seen[Tx]
  /\ \A t \in Actors : pc[t] \in DeallocLabels => \A u \in Actors : t \in seen[u]

(* Whoever waits will be woken. *)
WakeInv ==
  /\ parked => /\ waker = cx
               /\ \A r \in Receivers : pc[r] = "rx_idle"
               /\ \/ "PENDING" \in state /\ "FIELDLESS" \notin state
                  \/ pc[Tx] \in {"send_acquire", "send_wake", "txdrop_wake"}
  /\ \A r \in Receivers : pc[r] = "blocked" =>
       /\ "wait" \in Features
       /\ \/ "WAITING" \in state
          \/ pc[Tx] \in {"send_notify", "txdrop_notify"}

(* A thread that was told None. *)
NoneInv ==
  \A r \in Receivers : result[r] = "None" =>
    /\ "READY" \notin state
    /\ "CLOSE" \in state \/ result[Tx] = "Ok"
    /\ pc[r] \notin {"recv_read", "poll_read"}

IInv ==
  /\ TypeOK /\ WordInv /\ CopyInv /\ ExclInv /\ SendInv /\ OpenInv /\ ValInv
  /\ WaitInv /\ WakerInv /\ GoneInv /\ WakeInv /\ NoneInv
  /\ SeenData /\ SeenWaker /\ SeenDrop

-----------------------------------------------------------------------------
(* The vocabulary every step below is written in: labels, queries, the CAS *)
(* methods and the shared parts of the actions.                            *)
USE ActorsAssumption DEF CasOk, CasFail, Load, Goto, Return, WakeWaker,
    WakeWaiting, DropWaker, Dealloc, fields, BitStatus, TxLabels, RxLabels,
    RecvLabels, PollLabels, RxDropLabels, ReadLabels, HoldLabels,
    DeallocLabels, SenderGone, ReceiverGone, Untouched, Actors,
    try_wake_after_ready, Shared, Exclusive, is_ready, is_closed, is_waiting,
    is_fieldless, is_pending
USE DEF Method, try_setup_ready_release, try_setup_dataless_acquire,
    try_sync_unset_ready_acquire, try_setup_closed_dropping_release,
    try_sync_setup_closed_wake, try_sync_setup_closed_acquire,
    try_set_closed_dropping_release, try_set_dropping_release, try_set_waiting,
    try_sync_set_waiting_pending_wakeless, try_unset_pending_acquire,
    try_sync_set_wakeless_acquire, unset_wakeless_release

(* Every step keeps every variable in its type. *)
LEMMA TypeStep ==
  ASSUME TypeOK, Next
  PROVE  TypeOK'
<1> USE DEF TypeOK, Cells
<1> HIDE DEF Shared, Exclusive
<1>1. CASE SendNext
  <2>1. CASE SendNew BY <2>1 DEF SendNew, Touch
  <2>2. CASE SendWrite BY <2>2 DEF SendWrite, Touch, Access
  <2>3. CASE SendCas BY <2>3 DEF SendCas, Ordered, Touch, AcquireBy, ReleaseBy
  <2>4. CASE SendAcquire BY <2>4 DEF SendAcquire, Ordered, Touch, AcquireBy,
         ReleaseBy
  <2>5. CASE SendWake BY <2>5 DEF SendWake, Touch, Access
  <2>6. CASE SendNotify BY <2>6 DEF SendNotify, Touch
  <2>7. CASE SendReadback BY <2>7 DEF SendReadback, Touch, Access
  <2> QED BY <1>1, <2>1, <2>2, <2>3, <2>4, <2>5, <2>6, <2>7 DEF SendNext
<1>2. CASE TxDropNext
  <2>1. CASE TxDropNew BY <2>1 DEF TxDropNew, Touch
  <2>2. CASE TxDropAcquire BY <2>2 DEF TxDropAcquire, Ordered, Touch,
         AcquireBy, ReleaseBy
  <2>3. CASE TxDropClosed BY <2>3 DEF TxDropClosed, Ordered, Touch, AcquireBy,
         ReleaseBy
  <2>4. CASE TxDropPolling BY <2>4 DEF TxDropPolling, Ordered, Touch,
         AcquireBy, ReleaseBy
  <2>5. CASE TxDropPending BY <2>5 DEF TxDropPending, Ordered, Touch,
         AcquireBy, ReleaseBy
  <2>6. CASE TxDropWake BY <2>6 DEF TxDropWake, Touch, Access
  <2>7. CASE TxDropWaiting BY <2>7 DEF TxDropWaiting, Ordered, Touch,
         AcquireBy, ReleaseBy
  <2>8. CASE TxDropNotify BY <2>8 DEF TxDropNotify, Touch
  <2>9. CASE TxDropMark BY <2>9 DEF TxDropMark, Ordered, Touch, AcquireBy,
         ReleaseBy
  <2>10. CASE TxDropOpen BY <2>10 DEF TxDropOpen, Ordered, Touch, AcquireBy,
         ReleaseBy
  <2>11. CASE TxDealloc BY <2>11 DEF TxDealloc, Touch
  <2> QED BY <1>2, <2>1, <2>2, <2>3, <2>4, <2>5, <2>6, <2>7, <2>8, <2>9, <2>10,
             <2>11 DEF TxDropNext
<1>3. ASSUME NEW r \in Receivers, RecvNext(r)
      PROVE  TypeOK'
  <2>1. CASE RecvNew(r) BY <2>1 DEF RecvNew, Touch, Share
  <2>2. CASE RecvReady(r) BY <2>2 DEF RecvReady, Ordered, Touch, AcquireBy,
         ReleaseBy
  <2>3. CASE RecvRead(r) BY <2>3 DEF RecvRead, Touch, Access
  <2>4. CASE RecvNone(r) BY <2>4 DEF RecvNone
  <2>5. CASE RecvUnpend(r) BY <2>5 DEF RecvUnpend, Ordered, Touch, AcquireBy,
         ReleaseBy
  <2>6. CASE RecvUnwake(r) BY <2>6 DEF RecvUnwake, Touch, Access
  <2>7. CASE RecvRewait(r) BY <2>7 DEF RecvRewait
  <2>8. CASE RecvWait(r) BY <2>8 DEF RecvWait, Ordered, Touch, AcquireBy,
         ReleaseBy
  <2>9. CASE FutexWait(r) BY <2>9 DEF FutexWait, Touch
  <2>10. CASE FutexSpurious(r) BY <2>10 DEF FutexSpurious
  <2>11. CASE Reload(r) BY <2>11 DEF Reload, Touch
  <2>12. CASE SpinWait(r) BY <2>12 DEF SpinWait, Touch
  <2> QED BY <1>3, <2>1, <2>2, <2>3, <2>4, <2>5, <2>6, <2>7, <2>8, <2>9, <2>10,
             <2>11, <2>12 DEF RecvNext
<1>4. ASSUME NEW r \in Receivers, PollNext(r)
      PROVE  TypeOK'
  <2>1. CASE PollNew(r) BY <2>1 DEF PollNew, Touch, Join
  <2>2. CASE PollReady(r) BY <2>2 DEF PollReady, Ordered, Touch, AcquireBy,
         ReleaseBy
  <2>3. CASE PollRead(r)
    <3>1. Access(r, "data") \in [Cells -> SUBSET (Actors \cup {"msg"})]
      BY DEF Access, Touch
    <3>2. seen' \in [Cells -> SUBSET (Actors \cup {"msg"})]
      BY <2>3, <3>1 DEF PollRead, Share
    <3> QED BY <2>3, <3>2 DEF PollRead
  <2>4. CASE PollNone(r) BY <2>4 DEF PollNone, Share
  <2>5. CASE PollAgain(r) BY <2>5 DEF PollAgain, Ordered, Touch, AcquireBy,
         ReleaseBy
  <2>6. CASE PollUpdate(r) BY <2>6 DEF PollUpdate, Touch, Access
  <2>7. CASE PollFirst(r) BY <2>7 DEF PollFirst, Ordered, Touch, AcquireBy,
         ReleaseBy
  <2>8. CASE PollInit(r) BY <2>8 DEF PollInit, Touch, Access
  <2>9. CASE PollPending(r) BY <2>9 DEF PollPending, Ordered, Touch, AcquireBy,
         ReleaseBy, Share
  <2>10. CASE PollOvertaken(r) BY <2>10 DEF PollOvertaken, Touch
  <2>11. CASE PollDiscard(r) BY <2>11 DEF PollDiscard, Touch, Access
  <2> QED BY <1>4, <2>1, <2>2, <2>3, <2>4, <2>5, <2>6, <2>7, <2>8, <2>9, <2>10,
             <2>11 DEF PollNext
<1>5. ASSUME NEW r \in Receivers, RxDropNext(r)
      PROVE  TypeOK'
  <2>1. CASE RxDropNew(r) BY <2>1 DEF RxDropNew, Touch, Join
  <2>2. CASE RxDropReady(r) BY <2>2 DEF RxDropReady, Ordered, Touch, AcquireBy,
         ReleaseBy
  <2>3. CASE RxDropRead(r) BY <2>3 DEF RxDropRead, Touch, Access
  <2>4. CASE RxDropAcquire(r) BY <2>4 DEF RxDropAcquire, Ordered, Touch,
         AcquireBy, ReleaseBy
  <2>5. CASE RxDropClosed(r) BY <2>5 DEF RxDropClosed, Ordered, Touch,
         AcquireBy, ReleaseBy
  <2>6. CASE RxDropPending(r) BY <2>6 DEF RxDropPending, Ordered, Touch,
         AcquireBy, ReleaseBy
  <2>7. CASE RxDropWaker(r) BY <2>7 DEF RxDropWaker, Touch, Access
  <2>8. CASE RxDropMark(r) BY <2>8 DEF RxDropMark, Ordered, Touch, AcquireBy,
         ReleaseBy
  <2>9. CASE RxDropOpen(r) BY <2>9 DEF RxDropOpen, Ordered, Touch, AcquireBy,
         ReleaseBy
  <2>10. CASE RxDealloc(r) BY <2>10 DEF RxDealloc, Touch
  <2> QED BY <1>5, <2>1, <2>2, <2>3, <2>4, <2>5, <2>6, <2>7, <2>8, <2>9, <2>10 DEF RxDropNext
<1>6. QED BY <1>1, <1>2, <1>3, <1>4, <1>5 DEF Next

(* No CAS, of whichever end, leaves the state table. *)
LEMMA WordStep ==
  ASSUME TypeOK, WordInv, ExclInv, SendInv, OpenInv, WaitInv, GoneInv, Next
  PROVE  WordInv'
<1> USE DEF TypeOK, WordInv, ExclInv, SendInv, OpenInv, WaitInv, GoneInv
<1>1. CASE SendNext
  BY <1>1 DEF SendNext, SendNew, SendWrite, SendCas, SendAcquire, SendWake,
              SendNotify, SendReadback
<1>2. CASE TxDropNext
  BY <1>2 DEF TxDropNext, TxDropNew, TxDropAcquire, TxDropClosed,
              TxDropPolling, TxDropPending, TxDropWake, TxDropWaiting,
              TxDropNotify, TxDropMark, TxDropOpen, TxDealloc
<1>3. ASSUME NEW r \in Receivers, RecvNext(r)
      PROVE  WordInv'
  BY <1>3 DEF RecvNext, RecvNew, RecvReady, RecvRead, RecvNone, RecvUnpend,
              RecvUnwake, RecvRewait, RecvWait, FutexWait, FutexSpurious,
              Reload, SpinWait
<1>4. ASSUME NEW r \in Receivers, PollNext(r)
      PROVE  WordInv'
  BY <1>4 DEF PollNext, PollNew, PollReady, PollRead, PollNone, PollAgain,
              PollUpdate, PollFirst, PollInit, PollPending, PollOvertaken,
              PollDiscard
<1>5. ASSUME NEW r \in Receivers, RxDropNext(r)
      PROVE  WordInv'
  BY <1>5 DEF RxDropNext, RxDropNew, RxDropReady, RxDropRead, RxDropAcquire,
              RxDropClosed, RxDropPending, RxDropWaker, RxDropMark, RxDropOpen,
              RxDealloc
<1>6. QED BY <1>1, <1>2, <1>3, <1>4, <1>5 DEF Next

(* A stale copy still tells the truth about what cannot be undone. *)
LEMMA CopyStep ==
  ASSUME TypeOK, CopyInv, ExclInv, SendInv, OpenInv, WaitInv, GoneInv, Next
  PROVE  CopyInv'
<1> USE DEF TypeOK, CopyInv, ExclInv, SendInv, OpenInv, WaitInv, GoneInv
<1>1. CASE SendNext
  BY <1>1 DEF SendNext, SendNew, SendWrite, SendCas, SendAcquire, SendWake,
              SendNotify, SendReadback
<1>2. CASE TxDropNext
  BY <1>2 DEF TxDropNext, TxDropNew, TxDropAcquire, TxDropClosed,
              TxDropPolling, TxDropPending, TxDropWake, TxDropWaiting,
              TxDropNotify, TxDropMark, TxDropOpen, TxDealloc
<1>3. ASSUME NEW r \in Receivers, RecvNext(r)
      PROVE  CopyInv'
  BY <1>3 DEF RecvNext, RecvNew, RecvReady, RecvRead, RecvNone, RecvUnpend,
              RecvUnwake, RecvRewait, RecvWait, FutexWait, FutexSpurious,
              Reload, SpinWait
<1>4. ASSUME NEW r \in Receivers, PollNext(r)
      PROVE  CopyInv'
  BY <1>4 DEF PollNext, PollNew, PollReady, PollRead, PollNone, PollAgain,
              PollUpdate, PollFirst, PollInit, PollPending, PollOvertaken,
              PollDiscard
<1>5. ASSUME NEW r \in Receivers, RxDropNext(r)
      PROVE  CopyInv'
  BY <1>5 DEF RxDropNext, RxDropNew, RxDropReady, RxDropRead, RxDropAcquire,
              RxDropClosed, RxDropPending, RxDropWaker, RxDropMark, RxDropOpen,
              RxDealloc
<1>6. QED BY <1>1, <1>2, <1>3, <1>4, <1>5 DEF Next

(* The borrow rules: poll and drop exclude recv and each other. *)
LEMMA ExclStep ==
  ASSUME TypeOK, ExclInv, Next
  PROVE  ExclInv'
<1> USE DEF TypeOK, ExclInv
<1>1. CASE SendNext
  BY <1>1 DEF SendNext, SendNew, SendWrite, SendCas, SendAcquire, SendWake,
              SendNotify, SendReadback
<1>2. CASE TxDropNext
  BY <1>2 DEF TxDropNext, TxDropNew, TxDropAcquire, TxDropClosed,
              TxDropPolling, TxDropPending, TxDropWake, TxDropWaiting,
              TxDropNotify, TxDropMark, TxDropOpen, TxDealloc
<1>3. ASSUME NEW r \in Receivers, RecvNext(r)
      PROVE  ExclInv'
  BY <1>3 DEF RecvNext, RecvNew, RecvReady, RecvRead, RecvNone, RecvUnpend,
              RecvUnwake, RecvRewait, RecvWait, FutexWait, FutexSpurious,
              Reload, SpinWait
<1>4. ASSUME NEW r \in Receivers, PollNext(r)
      PROVE  ExclInv'
  BY <1>4 DEF PollNext, PollNew, PollReady, PollRead, PollNone, PollAgain,
              PollUpdate, PollFirst, PollInit, PollPending, PollOvertaken,
              PollDiscard
<1>5. ASSUME NEW r \in Receivers, RxDropNext(r)
      PROVE  ExclInv'
  BY <1>5 DEF RxDropNext, RxDropNew, RxDropReady, RxDropRead, RxDropAcquire,
              RxDropClosed, RxDropPending, RxDropWaker, RxDropMark, RxDropOpen,
              RxDealloc
<1>6. QED BY <1>1, <1>2, <1>3, <1>4, <1>5 DEF Next

(* The phases of the sender. *)
LEMMA SendStep ==
  ASSUME TypeOK, ExclInv, SendInv, WaitInv, Next
  PROVE  SendInv'
<1> USE DEF TypeOK, ExclInv, SendInv, WaitInv
<1>1. CASE SendNext
  BY <1>1 DEF SendNext, SendNew, SendWrite, SendCas, SendAcquire, SendWake,
              SendNotify, SendReadback
<1>2. CASE TxDropNext
  BY <1>2 DEF TxDropNext, TxDropNew, TxDropAcquire, TxDropClosed,
              TxDropPolling, TxDropPending, TxDropWake, TxDropWaiting,
              TxDropNotify, TxDropMark, TxDropOpen, TxDealloc
<1>3. ASSUME NEW r \in Receivers, RecvNext(r)
      PROVE  SendInv'
  BY <1>3 DEF RecvNext, RecvNew, RecvReady, RecvRead, RecvNone, RecvUnpend,
              RecvUnwake, RecvRewait, RecvWait, FutexWait, FutexSpurious,
              Reload, SpinWait
<1>4. ASSUME NEW r \in Receivers, PollNext(r)
      PROVE  SendInv'
  BY <1>4 DEF PollNext, PollNew, PollReady, PollRead, PollNone, PollAgain,
              PollUpdate, PollFirst, PollInit, PollPending, PollOvertaken,
              PollDiscard
<1>5. ASSUME NEW r \in Receivers, RxDropNext(r)
      PROVE  SendInv'
  BY <1>5 DEF RxDropNext, RxDropNew, RxDropReady, RxDropRead, RxDropAcquire,
              RxDropClosed, RxDropPending, RxDropWaker, RxDropMark, RxDropOpen,
              RxDealloc
<1>6. QED BY <1>1, <1>2, <1>3, <1>4, <1>5 DEF Next

(* Words that invite a send belong to a sender that has not sent. *)
LEMMA OpenStep ==
  ASSUME TypeOK, WordInv, CopyInv, ExclInv, SendInv, OpenInv, WaitInv, GoneInv,
         Next
  PROVE  OpenInv'
<1> USE DEF TypeOK, WordInv, CopyInv, ExclInv, SendInv, OpenInv, WaitInv,
        GoneInv
<1>1. CASE SendNext
  BY <1>1 DEF SendNext, SendNew, SendWrite, SendCas, SendAcquire, SendWake,
              SendNotify, SendReadback
<1>2. CASE TxDropNext
  BY <1>2 DEF TxDropNext, TxDropNew, TxDropAcquire, TxDropClosed,
              TxDropPolling, TxDropPending, TxDropWake, TxDropWaiting,
              TxDropNotify, TxDropMark, TxDropOpen, TxDealloc
<1>3. ASSUME NEW r \in Receivers, RecvNext(r)
      PROVE  OpenInv'
  BY <1>3 DEF RecvNext, RecvNew, RecvReady, RecvRead, RecvNone, RecvUnpend,
              RecvUnwake, RecvRewait, RecvWait, FutexWait, FutexSpurious,
              Reload, SpinWait
<1>4. ASSUME NEW r \in Receivers, PollNext(r)
      PROVE  OpenInv'
  BY <1>4 DEF PollNext, PollNew, PollReady, PollRead, PollNone, PollAgain,
              PollUpdate, PollFirst, PollInit, PollPending, PollOvertaken,
              PollDiscard
<1>5. ASSUME NEW r \in Receivers, RxDropNext(r)
      PROVE  OpenInv'
  BY <1>5 DEF RxDropNext, RxDropNew, RxDropReady, RxDropRead, RxDropAcquire,
              RxDropClosed, RxDropPending, RxDropWaker, RxDropMark, RxDropOpen,
              RxDealloc
<1>6. QED BY <1>1, <1>2, <1>3, <1>4, <1>5 DEF Next

(* The value has one owner at a time. *)
LEMMA ValStep ==
  ASSUME TypeOK, SendInv, OpenInv, ValInv, Next
  PROVE  ValInv'
<1> USE DEF TypeOK, SendInv, OpenInv, ValInv
<1>1. CASE SendNext
  BY <1>1 DEF SendNext, SendNew, SendWrite, SendCas, SendAcquire, SendWake,
              SendNotify, SendReadback
<1>2. CASE TxDropNext
  BY <1>2 DEF TxDropNext, TxDropNew, TxDropAcquire, TxDropClosed,
              TxDropPolling, TxDropPending, TxDropWake, TxDropWaiting,
              TxDropNotify, TxDropMark, TxDropOpen, TxDealloc
<1>3. ASSUME NEW r \in Receivers, RecvNext(r)
      PROVE  ValInv'
  BY <1>3 DEF RecvNext, RecvNew, RecvReady, RecvRead, RecvNone, RecvUnpend,
              RecvUnwake, RecvRewait, RecvWait, FutexWait, FutexSpurious,
              Reload, SpinWait
<1>4. ASSUME NEW r \in Receivers, PollNext(r)
      PROVE  ValInv'
  BY <1>4 DEF PollNext, PollNew, PollReady, PollRead, PollNone, PollAgain,
              PollUpdate, PollFirst, PollInit, PollPending, PollOvertaken,
              PollDiscard
<1>5. ASSUME NEW r \in Receivers, RxDropNext(r)
      PROVE  ValInv'
  BY <1>5 DEF RxDropNext, RxDropNew, RxDropReady, RxDropRead, RxDropAcquire,
              RxDropClosed, RxDropPending, RxDropWaker, RxDropMark, RxDropOpen,
              RxDealloc
<1>6. QED BY <1>1, <1>2, <1>3, <1>4, <1>5 DEF Next

(* WAITING and PENDING are set by a receiver that is still there. *)
LEMMA WaitStep ==
  ASSUME TypeOK, WordInv, CopyInv, ExclInv, OpenInv, ValInv, WaitInv, GoneInv,
         Next
  PROVE  WaitInv'
<1> USE DEF TypeOK, WordInv, CopyInv, ExclInv, OpenInv, ValInv, WaitInv,
        GoneInv
<1>1. CASE SendNext
  BY <1>1 DEF SendNext, SendNew, SendWrite, SendCas, SendAcquire, SendWake,
              SendNotify, SendReadback
<1>2. CASE TxDropNext
  BY <1>2 DEF TxDropNext, TxDropNew, TxDropAcquire, TxDropClosed,
              TxDropPolling, TxDropPending, TxDropWake, TxDropWaiting,
              TxDropNotify, TxDropMark, TxDropOpen, TxDealloc
<1>3. ASSUME NEW r \in Receivers, RecvNext(r)
      PROVE  WaitInv'
  BY <1>3 DEF RecvNext, RecvNew, RecvReady, RecvRead, RecvNone, RecvUnpend,
              RecvUnwake, RecvRewait, RecvWait, FutexWait, FutexSpurious,
              Reload, SpinWait
<1>4. ASSUME NEW r \in Receivers, PollNext(r)
      PROVE  WaitInv'
  <2> USE DEF PollNext
  <2>1. CASE PollAgain(r)
    <3>1. CASE CasFail(r, "poll")
      BY <2>1, <3>1 DEF PollAgain
    <3>2. CASE CasOk(r, try_sync_set_wakeless_acquire(cur[r]), "poll_update")
      <4>1. pc[r] = "poll" /\ "WAITING" \in state /\ state = cur[r]
        BY <2>1, <3>2 DEF PollAgain
      <4>2. \A q \in Receivers : q # r => pc[q] = "rx_idle" /\ pc'[q] = "rx_idle"
        BY <4>1, <3>2
      <4>3. "PENDING" \in state
        BY <4>1, <4>2
      <4>4. pc'[r] = "poll_update" /\ state' = cur'[r] /\ state' = state \cup {"FIELDLESS"}
        BY <4>1, <3>2
      <4> QED BY <4>1, <4>2, <4>3, <4>4
    <3> QED BY <2>1, <3>1, <3>2 DEF PollAgain
  <2>2. CASE PollFirst(r)
    <3>1. CASE CasFail(r, "poll")
      BY <2>2, <3>1 DEF PollFirst
    <3>2. CASE CasOk(r, try_sync_set_waiting_pending_wakeless(cur[r]), "poll_init")
      <4>1. pc[r] = "poll" /\ state = cur[r]
        BY <2>2, <3>2 DEF PollFirst
      <4>2. \A q \in Receivers : q # r => pc[q] = "rx_idle" /\ pc'[q] = "rx_idle"
        BY <4>1, <3>2
      <4>3. /\ pc'[r] = "poll_init" /\ state' = cur'[r]
            /\ state' = state \cup {"WAITING", "PENDING", "FIELDLESS"}
        BY <4>1, <3>2
      <4> QED BY <4>1, <4>2, <4>3
    <3> QED BY <2>2, <3>1, <3>2 DEF PollFirst
  <2>3. CASE ~PollAgain(r) /\ ~PollFirst(r)
    BY <1>4, <2>3 DEF PollNew, PollReady, PollRead, PollNone, PollUpdate,
                      PollInit, PollPending, PollOvertaken, PollDiscard
  <2> QED BY <2>1, <2>2, <2>3
<1>5. ASSUME NEW r \in Receivers, RxDropNext(r)
      PROVE  WaitInv'
  BY <1>5 DEF RxDropNext, RxDropNew, RxDropReady, RxDropRead, RxDropAcquire,
              RxDropClosed, RxDropPending, RxDropWaker, RxDropMark, RxDropOpen,
              RxDealloc
<1>6. QED BY <1>1, <1>2, <1>3, <1>4, <1>5 DEF Next

(* The waker has one owner at a time. *)
LEMMA WakerStep ==
  ASSUME TypeOK, WordInv, ExclInv, OpenInv, WaitInv, WakerInv, GoneInv, Next
  PROVE  WakerInv'
<1> USE DEF TypeOK, WordInv, ExclInv, OpenInv, WaitInv, WakerInv, GoneInv
<1>1. CASE SendNext
  BY <1>1 DEF SendNext, SendNew, SendWrite, SendCas, SendAcquire, SendWake,
              SendNotify, SendReadback
<1>2. CASE TxDropNext
  BY <1>2 DEF TxDropNext, TxDropNew, TxDropAcquire, TxDropClosed,
              TxDropPolling, TxDropPending, TxDropWake, TxDropWaiting,
              TxDropNotify, TxDropMark, TxDropOpen, TxDealloc
<1>3. ASSUME NEW r \in Receivers, RecvNext(r)
      PROVE  WakerInv'
  BY <1>3 DEF RecvNext, RecvNew, RecvReady, RecvRead, RecvNone, RecvUnpend,
              RecvUnwake, RecvRewait, RecvWait, FutexWait, FutexSpurious,
              Reload, SpinWait
<1>4. ASSUME NEW r \in Receivers, PollNext(r)
      PROVE  WakerInv'
  BY <1>4 DEF PollNext, PollNew, PollReady, PollRead, PollNone, PollAgain,
              PollUpdate, PollFirst, PollInit, PollPending, PollOvertaken,
              PollDiscard
<1>5. ASSUME NEW r \in Receivers, RxDropNext(r)
      PROVE  WakerInv'
  BY <1>5 DEF RxDropNext, RxDropNew, RxDropReady, RxDropRead, RxDropAcquire,
              RxDropClosed, RxDropPending, RxDropWaker, RxDropMark, RxDropOpen,
              RxDealloc
<1>6. QED BY <1>1, <1>2, <1>3, <1>4, <1>5 DEF Next

(* The drop protocol: the first end to leave marks, the second frees. *)
LEMMA GoneStep ==
  ASSUME TypeOK, WordInv, CopyInv, ExclInv, SendInv, WaitInv, GoneInv, Next
  PROVE  GoneInv'
<1> USE DEF TypeOK, WordInv, CopyInv, ExclInv, SendInv, WaitInv, GoneInv
<1>1. CASE SendNext
  BY <1>1 DEF SendNext, SendNew, SendWrite, SendCas, SendAcquire, SendWake,
              SendNotify, SendReadback
<1>2. CASE TxDropNext
  BY <1>2 DEF TxDropNext, TxDropNew, TxDropAcquire, TxDropClosed,
              TxDropPolling, TxDropPending, TxDropWake, TxDropWaiting,
              TxDropNotify, TxDropMark, TxDropOpen, TxDealloc
<1>3. ASSUME NEW r \in Receivers, RecvNext(r)
      PROVE  GoneInv'
  BY <1>3 DEF RecvNext, RecvNew, RecvReady, RecvRead, RecvNone, RecvUnpend,
              RecvUnwake, RecvRewait, RecvWait, FutexWait, FutexSpurious,
              Reload, SpinWait
<1>4. ASSUME NEW r \in Receivers, PollNext(r)
      PROVE  GoneInv'
  BY <1>4 DEF PollNext, PollNew, PollReady, PollRead, PollNone, PollAgain,
              PollUpdate, PollFirst, PollInit, PollPending, PollOvertaken,
              PollDiscard
<1>5. ASSUME NEW r \in Receivers, RxDropNext(r)
      PROVE  GoneInv'
  BY <1>5 DEF RxDropNext, RxDropNew, RxDropReady, RxDropRead, RxDropAcquire,
              RxDropClosed, RxDropPending, RxDropWaker, RxDropMark, RxDropOpen,
              RxDealloc
<1>6. QED BY <1>1, <1>2, <1>3, <1>4, <1>5 DEF Next

(* The sender always knows whom it has to wake. *)
LEMMA WakeStep ==
  ASSUME TypeOK, WordInv, CopyInv, ExclInv, SendInv, OpenInv, WaitInv,
         WakerInv, WakeInv, Next
  PROVE  WakeInv'
<1> USE DEF TypeOK, WordInv, CopyInv, ExclInv, SendInv, OpenInv, WaitInv,
        WakerInv, WakeInv
<1>1. CASE SendNext
  <2>1. CASE SendWake
    <3>1. ~parked'
      BY <2>1, Zenon DEF SendWake, WakeWaker, WakeInv
    <3> QED BY <2>1, <3>1 DEF SendWake
  <2>2. CASE ~SendWake
    BY <1>1, <2>2 DEF SendNext, SendNew, SendWrite, SendCas, SendAcquire,
                     SendNotify, SendReadback
  <2> QED BY <2>1, <2>2
<1>2. CASE TxDropNext
  <2>1. CASE TxDropWake
    <3>1. ~parked'
      BY <2>1, Zenon DEF TxDropWake, WakeWaker, WakeInv
    <3> QED BY <2>1, <3>1 DEF TxDropWake
  <2>2. CASE ~TxDropWake
    BY <1>2, <2>2 DEF TxDropNext, TxDropNew, TxDropAcquire, TxDropClosed,
                     TxDropPolling, TxDropPending, TxDropWaiting, TxDropNotify,
                     TxDropMark, TxDropOpen, TxDealloc
  <2> QED BY <2>1, <2>2
<1>3. ASSUME NEW r \in Receivers, RecvNext(r)
      PROVE  WakeInv'
  BY <1>3 DEF RecvNext, RecvNew, RecvReady, RecvRead, RecvNone, RecvUnpend,
              RecvUnwake, RecvRewait, RecvWait, FutexWait, FutexSpurious,
              Reload, SpinWait
<1>4. ASSUME NEW r \in Receivers, PollNext(r)
      PROVE  WakeInv'
  BY <1>4 DEF PollNext, PollNew, PollReady, PollRead, PollNone, PollAgain,
              PollUpdate, PollFirst, PollInit, PollPending, PollOvertaken,
              PollDiscard
<1>5. ASSUME NEW r \in Receivers, RxDropNext(r)
      PROVE  WakeInv'
  BY <1>5 DEF RxDropNext, RxDropNew, RxDropReady, RxDropRead, RxDropAcquire,
              RxDropClosed, RxDropPending, RxDropWaker, RxDropMark, RxDropOpen,
              RxDealloc
<1>6. QED BY <1>1, <1>2, <1>3, <1>4, <1>5 DEF Next

(* After None there is no value left to take. *)
LEMMA NoneStep ==
  ASSUME TypeOK, WordInv, CopyInv, SendInv, OpenInv, NoneInv, Next
  PROVE  NoneInv'
<1> USE DEF TypeOK, WordInv, CopyInv, SendInv, OpenInv, NoneInv
<1>1. CASE SendNext
  BY <1>1 DEF SendNext, SendNew, SendWrite, SendCas, SendAcquire, SendWake,
              SendNotify, SendReadback
<1>2. CASE TxDropNext
  BY <1>2 DEF TxDropNext, TxDropNew, TxDropAcquire, TxDropClosed,
              TxDropPolling, TxDropPending, TxDropWake, TxDropWaiting,
              TxDropNotify, TxDropMark, TxDropOpen, TxDealloc
<1>3. ASSUME NEW r \in Receivers, RecvNext(r)
      PROVE  NoneInv'
  BY <1>3 DEF RecvNext, RecvNew, RecvReady, RecvRead, RecvNone, RecvUnpend,
              RecvUnwake, RecvRewait, RecvWait, FutexWait, FutexSpurious,
              Reload, SpinWait
<1>4. ASSUME NEW r \in Receivers, PollNext(r)
      PROVE  NoneInv'
  BY <1>4 DEF PollNext, PollNew, PollReady, PollRead, PollNone, PollAgain,
              PollUpdate, PollFirst, PollInit, PollPending, PollOvertaken,
              PollDiscard
<1>5. ASSUME NEW r \in Receivers, RxDropNext(r)
      PROVE  NoneInv'
  BY <1>5 DEF RxDropNext, RxDropNew, RxDropReady, RxDropRead, RxDropAcquire,
              RxDropClosed, RxDropPending, RxDropWaker, RxDropMark, RxDropOpen,
              RxDealloc
<1>6. QED BY <1>1, <1>2, <1>3, <1>4, <1>5 DEF Next

(* The effect of a field access, cell by cell. *)
LEMMA AccessFact ==
  ASSUME TypeOK, NEW t \in Actors, NEW f \in {"data", "waker"},
         seen' = Access(t, f)
  PROVE  /\ seen'[f] = {t} /\ seen'[t] = {t}
         /\ \A u \in Actors : u # t => seen'[u] = seen[u]
BY DEF TypeOK, Access, Touch, Cells

(* The effect of a read by an exclusive borrow that ends with it. *)
LEMMA ReadFact ==
  ASSUME TypeOK, NEW r \in Receivers, seen' = Share(Access(r, "data"), r)
  PROVE  /\ r \in seen'[r]
         /\ \A u \in Actors : u # r => seen[u] \subseteq seen'[u]
         /\ \A u \in Actors : u # r /\ r \in seen[u] => Receivers \subseteq seen'[u]
<1>1. /\ Access(r, "data")[r] = {r}
      /\ \A u \in Actors : u # r => Access(r, "data")[u] = seen[u]
  BY DEF TypeOK, Access, Touch, Cells
<1> QED BY <1>1 DEF Share, Cells

(* The effect of the hand-over to an exclusive borrow, cell by cell. *)
LEMMA JoinFact ==
  ASSUME TypeOK, NEW r \in Receivers, seen' = Touch(Join(seen, r), r)
  PROVE  /\ seen'[r] = {r}
         /\ \A u \in Actors \ {r} : seen[u] \subseteq seen'[u]
         /\ \A u \in Receivers : u \in seen[u] => r \in seen'[u]
BY DEF TypeOK, Join, Touch, Cells

(* Release on READY, acquire by the reader. *)
LEMMA SeenDataStep ==
  ASSUME TypeOK, SendInv, ValInv, GoneInv, SeenData, Next
  PROVE  SeenData'
<1> USE DEF TypeOK, SendInv, ValInv, GoneInv, SeenData, Cells
<1>1. CASE SendNext
  <2>1. CASE SendNew BY <2>1 DEF SendNew, Touch
  <2>2. CASE SendWrite BY <2>2 DEF SendWrite, Touch, Access
  <2>3. CASE SendCas BY <2>3 DEF SendCas, Ordered, Touch, AcquireBy, ReleaseBy
  <2>4. CASE SendAcquire BY <2>4 DEF SendAcquire, Ordered, Touch, AcquireBy,
         ReleaseBy
  <2>5. CASE SendWake BY <2>5 DEF SendWake, Touch, Access
  <2>6. CASE SendNotify BY <2>6 DEF SendNotify, Touch
  <2>7. CASE SendReadback BY <2>7 DEF SendReadback, Touch, Access
  <2> QED BY <1>1, <2>1, <2>2, <2>3, <2>4, <2>5, <2>6, <2>7 DEF SendNext
<1>2. CASE TxDropNext
  <2>1. CASE TxDropNew BY <2>1 DEF TxDropNew, Touch
  <2>2. CASE TxDropAcquire BY <2>2 DEF TxDropAcquire, Ordered, Touch,
         AcquireBy, ReleaseBy
  <2>3. CASE TxDropClosed BY <2>3 DEF TxDropClosed, Ordered, Touch, AcquireBy,
         ReleaseBy
  <2>4. CASE TxDropPolling BY <2>4 DEF TxDropPolling, Ordered, Touch,
         AcquireBy, ReleaseBy
  <2>5. CASE TxDropPending BY <2>5 DEF TxDropPending, Ordered, Touch,
         AcquireBy, ReleaseBy
  <2>6. CASE TxDropWake BY <2>6 DEF TxDropWake, Touch, Access
  <2>7. CASE TxDropWaiting BY <2>7 DEF TxDropWaiting, Ordered, Touch,
         AcquireBy, ReleaseBy
  <2>8. CASE TxDropNotify BY <2>8 DEF TxDropNotify, Touch
  <2>9. CASE TxDropMark BY <2>9 DEF TxDropMark, Ordered, Touch, AcquireBy,
         ReleaseBy
  <2>10. CASE TxDropOpen BY <2>10 DEF TxDropOpen, Ordered, Touch, AcquireBy,
         ReleaseBy
  <2>11. CASE TxDealloc BY <2>11 DEF TxDealloc, Touch
  <2> QED BY <1>2, <2>1, <2>2, <2>3, <2>4, <2>5, <2>6, <2>7, <2>8, <2>9, <2>10,
             <2>11 DEF TxDropNext
<1>3. ASSUME NEW r \in Receivers, RecvNext(r)
      PROVE  SeenData'
  <2>1. CASE RecvNew(r) BY <2>1 DEF RecvNew, Touch, Share
  <2>2. CASE RecvReady(r) BY <2>2 DEF RecvReady, Ordered, Touch, AcquireBy,
         ReleaseBy
  <2>3. CASE RecvRead(r) BY <2>3 DEF RecvRead, Touch, Access
  <2>4. CASE RecvNone(r) BY <2>4 DEF RecvNone
  <2>5. CASE RecvUnpend(r) BY <2>5 DEF RecvUnpend, Ordered, Touch, AcquireBy,
         ReleaseBy
  <2>6. CASE RecvUnwake(r) BY <2>6 DEF RecvUnwake, Touch, Access
  <2>7. CASE RecvRewait(r) BY <2>7 DEF RecvRewait
  <2>8. CASE RecvWait(r) BY <2>8 DEF RecvWait, Ordered, Touch, AcquireBy,
         ReleaseBy
  <2>9. CASE FutexWait(r) BY <2>9 DEF FutexWait, Touch
  <2>10. CASE FutexSpurious(r) BY <2>10 DEF FutexSpurious
  <2>11. CASE Reload(r) BY <2>11 DEF Reload, Touch
  <2>12. CASE SpinWait(r) BY <2>12 DEF SpinWait, Touch
  <2> QED BY <1>3, <2>1, <2>2, <2>3, <2>4, <2>5, <2>6, <2>7, <2>8, <2>9, <2>10,
             <2>11, <2>12 DEF RecvNext
<1>4. ASSUME NEW r \in Receivers, PollNext(r)
      PROVE  SeenData'
  <2>1. CASE PollNew(r) BY <2>1 DEF PollNew, Touch, Join
  <2>2. CASE PollReady(r) BY <2>2 DEF PollReady, Ordered, Touch, AcquireBy,
         ReleaseBy
  <2>3. CASE PollRead(r) BY <2>3 DEF PollRead, Touch, Access, Share
  <2>4. CASE PollNone(r) BY <2>4 DEF PollNone, Share
  <2>5. CASE PollAgain(r) BY <2>5 DEF PollAgain, Ordered, Touch, AcquireBy,
         ReleaseBy
  <2>6. CASE PollUpdate(r) BY <2>6 DEF PollUpdate, Touch, Access
  <2>7. CASE PollFirst(r) BY <2>7 DEF PollFirst, Ordered, Touch, AcquireBy,
         ReleaseBy
  <2>8. CASE PollInit(r) BY <2>8 DEF PollInit, Touch, Access
  <2>9. CASE PollPending(r) BY <2>9 DEF PollPending, Ordered, Touch, AcquireBy,
         ReleaseBy, Share
  <2>10. CASE PollOvertaken(r) BY <2>10 DEF PollOvertaken, Touch
  <2>11. CASE PollDiscard(r) BY <2>11 DEF PollDiscard, Touch, Access
  <2> QED BY <1>4, <2>1, <2>2, <2>3, <2>4, <2>5, <2>6, <2>7, <2>8, <2>9, <2>10,
             <2>11 DEF PollNext
<1>5. ASSUME NEW r \in Receivers, RxDropNext(r)
      PROVE  SeenData'
  <2>1. CASE RxDropNew(r) BY <2>1 DEF RxDropNew, Touch, Join
  <2>2. CASE RxDropReady(r) BY <2>2 DEF RxDropReady, Ordered, Touch, AcquireBy,
         ReleaseBy
  <2>3. CASE RxDropRead(r) BY <2>3 DEF RxDropRead, Touch, Access
  <2>4. CASE RxDropAcquire(r) BY <2>4 DEF RxDropAcquire, Ordered, Touch,
         AcquireBy, ReleaseBy
  <2>5. CASE RxDropClosed(r) BY <2>5 DEF RxDropClosed, Ordered, Touch,
         AcquireBy, ReleaseBy
  <2>6. CASE RxDropPending(r) BY <2>6 DEF RxDropPending, Ordered, Touch,
         AcquireBy, ReleaseBy
  <2>7. CASE RxDropWaker(r) BY <2>7 DEF RxDropWaker, Touch, Access
  <2>8. CASE RxDropMark(r) BY <2>8 DEF RxDropMark, Ordered, Touch, AcquireBy,
         ReleaseBy
  <2>9. CASE RxDropOpen(r) BY <2>9 DEF RxDropOpen, Ordered, Touch, AcquireBy,
         ReleaseBy
  <2>10. CASE RxDealloc(r) BY <2>10 DEF RxDealloc, Touch
  <2> QED BY <1>5, <2>1, <2>2, <2>3, <2>4, <2>5, <2>6, <2>7, <2>8, <2>9, <2>10 DEF RxDropNext
<1>6. QED BY <1>1, <1>2, <1>3, <1>4, <1>5 DEF Next

(* Release on handing the waker over, acquire by who takes it. *)
LEMMA SeenWakerStep ==
  ASSUME TypeOK, WordInv, ExclInv, OpenInv, WaitInv, WakerInv, SeenWaker, Next
  PROVE  SeenWaker'
<1> USE DEF TypeOK, WordInv, ExclInv, OpenInv, WaitInv, WakerInv, SeenWaker,
        Cells
<1>1. CASE SendNext
  <2>1. CASE SendNew BY <2>1 DEF SendNew, Touch
  <2>2. CASE SendWrite BY <2>2 DEF SendWrite, Touch, Access
  <2>3. CASE SendCas BY <2>3 DEF SendCas, Ordered, Touch, AcquireBy, ReleaseBy
  <2>4. CASE SendAcquire BY <2>4 DEF SendAcquire, Ordered, Touch, AcquireBy,
         ReleaseBy
  <2>5. CASE SendWake BY <2>5 DEF SendWake, Touch, Access
  <2>6. CASE SendNotify BY <2>6 DEF SendNotify, Touch
  <2>7. CASE SendReadback BY <2>7 DEF SendReadback, Touch, Access
  <2> QED BY <1>1, <2>1, <2>2, <2>3, <2>4, <2>5, <2>6, <2>7 DEF SendNext
<1>2. CASE TxDropNext
  <2>1. CASE TxDropNew BY <2>1 DEF TxDropNew, Touch
  <2>2. CASE TxDropAcquire BY <2>2 DEF TxDropAcquire, Ordered, Touch,
         AcquireBy, ReleaseBy
  <2>3. CASE TxDropClosed BY <2>3 DEF TxDropClosed, Ordered, Touch, AcquireBy,
         ReleaseBy
  <2>4. CASE TxDropPolling BY <2>4 DEF TxDropPolling, Ordered, Touch,
         AcquireBy, ReleaseBy
  <2>5. CASE TxDropPending BY <2>5 DEF TxDropPending, Ordered, Touch,
         AcquireBy, ReleaseBy
  <2>6. CASE TxDropWake BY <2>6 DEF TxDropWake, Touch, Access
  <2>7. CASE TxDropWaiting BY <2>7 DEF TxDropWaiting, Ordered, Touch,
         AcquireBy, ReleaseBy
  <2>8. CASE TxDropNotify BY <2>8 DEF TxDropNotify, Touch
  <2>9. CASE TxDropMark BY <2>9 DEF TxDropMark, Ordered, Touch, AcquireBy,
         ReleaseBy
  <2>10. CASE TxDropOpen BY <2>10 DEF TxDropOpen, Ordered, Touch, AcquireBy,
         ReleaseBy
  <2>11. CASE TxDealloc BY <2>11 DEF TxDealloc, Touch
  <2> QED BY <1>2, <2>1, <2>2, <2>3, <2>4, <2>5, <2>6, <2>7, <2>8, <2>9, <2>10,
             <2>11 DEF TxDropNext
<1>3. ASSUME NEW r \in Receivers, RecvNext(r)
      PROVE  SeenWaker'
  <2>1. CASE RecvNew(r) BY <2>1 DEF RecvNew, Touch, Share
  <2>2. CASE RecvReady(r) BY <2>2 DEF RecvReady, Ordered, Touch, AcquireBy,
         ReleaseBy
  <2>3. CASE RecvRead(r) BY <2>3 DEF RecvRead, Touch, Access
  <2>4. CASE RecvNone(r) BY <2>4 DEF RecvNone
  <2>5. CASE RecvUnpend(r) BY <2>5 DEF RecvUnpend, Ordered, Touch, AcquireBy,
         ReleaseBy
  <2>6. CASE RecvUnwake(r) BY <2>6, AccessFact DEF RecvUnwake
  <2>7. CASE RecvRewait(r) BY <2>7 DEF RecvRewait
  <2>8. CASE RecvWait(r) BY <2>8 DEF RecvWait, Ordered, Touch, AcquireBy,
         ReleaseBy
  <2>9. CASE FutexWait(r) BY <2>9 DEF FutexWait, Touch
  <2>10. CASE FutexSpurious(r) BY <2>10 DEF FutexSpurious
  <2>11. CASE Reload(r) BY <2>11 DEF Reload, Touch
  <2>12. CASE SpinWait(r) BY <2>12 DEF SpinWait, Touch
  <2> QED BY <1>3, <2>1, <2>2, <2>3, <2>4, <2>5, <2>6, <2>7, <2>8, <2>9, <2>10,
             <2>11, <2>12 DEF RecvNext
<1>4. ASSUME NEW r \in Receivers, PollNext(r)
      PROVE  SeenWaker'
  <2>1. CASE PollNew(r) BY <2>1 DEF PollNew, Touch, Join
  <2>2. CASE PollReady(r) BY <2>2 DEF PollReady, Ordered, Touch, AcquireBy,
         ReleaseBy
  <2>3. CASE PollRead(r) BY <2>3 DEF PollRead, Touch, Access, Share
  <2>4. CASE PollNone(r) BY <2>4 DEF PollNone, Share
  <2>5. CASE PollAgain(r) BY <2>5 DEF PollAgain, Ordered, Touch, AcquireBy,
         ReleaseBy
  <2>6. CASE PollUpdate(r) BY <2>6, AccessFact DEF PollUpdate
  <2>7. CASE PollFirst(r) BY <2>7 DEF PollFirst, Ordered, Touch, AcquireBy,
         ReleaseBy
  <2>8. CASE PollInit(r) BY <2>8, AccessFact DEF PollInit
  <2>9. CASE PollPending(r) BY <2>9 DEF PollPending, Ordered, Touch, AcquireBy,
         ReleaseBy, Share
  <2>10. CASE PollOvertaken(r) BY <2>10 DEF PollOvertaken, Touch
  <2>11. CASE PollDiscard(r) BY <2>11, AccessFact DEF PollDiscard
  <2> QED BY <1>4, <2>1, <2>2, <2>3, <2>4, <2>5, <2>6, <2>7, <2>8, <2>9, <2>10,
             <2>11 DEF PollNext
<1>5. ASSUME NEW r \in Receivers, RxDropNext(r)
      PROVE  SeenWaker'
  <2>1. CASE RxDropNew(r) BY <2>1 DEF RxDropNew, Touch, Join
  <2>2. CASE RxDropReady(r) BY <2>2 DEF RxDropReady, Ordered, Touch, AcquireBy,
         ReleaseBy
  <2>3. CASE RxDropRead(r) BY <2>3 DEF RxDropRead, Touch, Access
  <2>4. CASE RxDropAcquire(r) BY <2>4 DEF RxDropAcquire, Ordered, Touch,
         AcquireBy, ReleaseBy
  <2>5. CASE RxDropClosed(r) BY <2>5 DEF RxDropClosed, Ordered, Touch,
         AcquireBy, ReleaseBy
  <2>6. CASE RxDropPending(r) BY <2>6 DEF RxDropPending, Ordered, Touch,
         AcquireBy, ReleaseBy
  <2>7. CASE RxDropWaker(r) BY <2>7 DEF RxDropWaker, Touch, Access
  <2>8. CASE RxDropMark(r) BY <2>8 DEF RxDropMark, Ordered, Touch, AcquireBy,
         ReleaseBy
  <2>9. CASE RxDropOpen(r) BY <2>9 DEF RxDropOpen, Ordered, Touch, AcquireBy,
         ReleaseBy
  <2>10. CASE RxDealloc(r) BY <2>10 DEF RxDealloc, Touch
  <2> QED BY <1>5, <2>1, <2>2, <2>3, <2>4, <2>5, <2>6, <2>7, <2>8, <2>9, <2>10 DEF RxDropNext
<1>6. QED BY <1>1, <1>2, <1>3, <1>4, <1>5 DEF Next

(* Release on the drop mark, acquire by the end that frees. *)
LEMMA SeenDropStep ==
  ASSUME TypeOK, CopyInv, ExclInv, GoneInv, SeenDrop, Next
  PROVE  SeenDrop'
<1> USE DEF TypeOK, CopyInv, ExclInv, GoneInv, SeenDrop, Cells
<1>1. CASE SendNext
  <2>1. CASE SendNew BY <2>1 DEF SendNew, Touch
  <2>2. CASE SendWrite BY <2>2, AccessFact DEF SendWrite
  <2>3. CASE SendCas BY <2>3 DEF SendCas, Ordered, Touch, AcquireBy, ReleaseBy
  <2>4. CASE SendAcquire BY <2>4 DEF SendAcquire, Ordered, Touch, AcquireBy,
         ReleaseBy
  <2>5. CASE SendWake BY <2>5, AccessFact DEF SendWake
  <2>6. CASE SendNotify BY <2>6 DEF SendNotify, Touch
  <2>7. CASE SendReadback BY <2>7, AccessFact DEF SendReadback
  <2> QED BY <1>1, <2>1, <2>2, <2>3, <2>4, <2>5, <2>6, <2>7 DEF SendNext
<1>2. CASE TxDropNext
  <2>1. CASE TxDropNew BY <2>1 DEF TxDropNew, Touch
  <2>2. CASE TxDropAcquire BY <2>2 DEF TxDropAcquire, Ordered, Touch,
         AcquireBy, ReleaseBy
  <2>3. CASE TxDropClosed BY <2>3 DEF TxDropClosed, Ordered, Touch, AcquireBy,
         ReleaseBy
  <2>4. CASE TxDropPolling BY <2>4 DEF TxDropPolling, Ordered, Touch,
         AcquireBy, ReleaseBy
  <2>5. CASE TxDropPending BY <2>5 DEF TxDropPending, Ordered, Touch,
         AcquireBy, ReleaseBy
  <2>6. CASE TxDropWake BY <2>6, AccessFact DEF TxDropWake
  <2>7. CASE TxDropWaiting BY <2>7 DEF TxDropWaiting, Ordered, Touch,
         AcquireBy, ReleaseBy
  <2>8. CASE TxDropNotify BY <2>8 DEF TxDropNotify, Touch
  <2>9. CASE TxDropMark BY <2>9 DEF TxDropMark, Ordered, Touch, AcquireBy,
         ReleaseBy
  <2>10. CASE TxDropOpen BY <2>10 DEF TxDropOpen, Ordered, Touch, AcquireBy,
         ReleaseBy
  <2>11. CASE TxDealloc BY <2>11 DEF TxDealloc, Touch
  <2> QED BY <1>2, <2>1, <2>2, <2>3, <2>4, <2>5, <2>6, <2>7, <2>8, <2>9, <2>10,
             <2>11 DEF TxDropNext
<1>3. ASSUME NEW r \in Receivers, RecvNext(r)
      PROVE  SeenDrop'
  <2>1. CASE RecvNew(r) BY <2>1 DEF RecvNew, Touch, Share
  <2>2. CASE RecvReady(r) BY <2>2 DEF RecvReady, Ordered, Touch, AcquireBy,
         ReleaseBy
  <2>3. CASE RecvRead(r) BY <2>3, AccessFact DEF RecvRead
  <2>4. CASE RecvNone(r) BY <2>4 DEF RecvNone
  <2>5. CASE RecvUnpend(r) BY <2>5 DEF RecvUnpend, Ordered, Touch, AcquireBy,
         ReleaseBy
  <2>6. CASE RecvUnwake(r) BY <2>6, AccessFact DEF RecvUnwake
  <2>7. CASE RecvRewait(r) BY <2>7 DEF RecvRewait
  <2>8. CASE RecvWait(r) BY <2>8 DEF RecvWait, Ordered, Touch, AcquireBy,
         ReleaseBy
  <2>9. CASE FutexWait(r) BY <2>9 DEF FutexWait, Touch
  <2>10. CASE FutexSpurious(r) BY <2>10 DEF FutexSpurious
  <2>11. CASE Reload(r) BY <2>11 DEF Reload, Touch
  <2>12. CASE SpinWait(r) BY <2>12 DEF SpinWait, Touch
  <2> QED BY <1>3, <2>1, <2>2, <2>3, <2>4, <2>5, <2>6, <2>7, <2>8, <2>9, <2>10,
             <2>11, <2>12 DEF RecvNext
<1>4. ASSUME NEW r \in Receivers, PollNext(r)
      PROVE  SeenDrop'
  <2>1. CASE PollNew(r) BY <2>1 DEF PollNew, Touch, Join
  <2>2. CASE PollReady(r) BY <2>2 DEF PollReady, Ordered, Touch, AcquireBy,
         ReleaseBy
  <2>3. CASE PollRead(r) BY <2>3, ReadFact DEF PollRead
  <2>4. CASE PollNone(r) BY <2>4 DEF PollNone, Share
  <2>5. CASE PollAgain(r) BY <2>5 DEF PollAgain, Ordered, Touch, AcquireBy,
         ReleaseBy
  <2>6. CASE PollUpdate(r) BY <2>6, AccessFact DEF PollUpdate
  <2>7. CASE PollFirst(r) BY <2>7 DEF PollFirst, Ordered, Touch, AcquireBy,
         ReleaseBy
  <2>8. CASE PollInit(r) BY <2>8, AccessFact DEF PollInit
  <2>9. CASE PollPending(r) BY <2>9 DEF PollPending, Ordered, Touch, AcquireBy,
         ReleaseBy, Share
  <2>10. CASE PollOvertaken(r) BY <2>10 DEF PollOvertaken, Touch
  <2>11. CASE PollDiscard(r) BY <2>11, AccessFact DEF PollDiscard
  <2> QED BY <1>4, <2>1, <2>2, <2>3, <2>4, <2>5, <2>6, <2>7, <2>8, <2>9, <2>10,
             <2>11 DEF PollNext
<1>5. ASSUME NEW r \in Receivers, RxDropNext(r)
      PROVE  SeenDrop'
  <2>1. CASE RxDropNew(r) BY <2>1, JoinFact DEF RxDropNew
  <2>2. CASE RxDropReady(r) BY <2>2 DEF RxDropReady, Ordered, Touch, AcquireBy,
         ReleaseBy
  <2>3. CASE RxDropRead(r) BY <2>3, AccessFact DEF RxDropRead
  <2>4. CASE RxDropAcquire(r) BY <2>4 DEF RxDropAcquire, Ordered, Touch,
         AcquireBy, ReleaseBy
  <2>5. CASE RxDropClosed(r) BY <2>5 DEF RxDropClosed, Ordered, Touch,
         AcquireBy, ReleaseBy
  <2>6. CASE RxDropPending(r) BY <2>6 DEF RxDropPending, Ordered, Touch,
         AcquireBy, ReleaseBy
  <2>7. CASE RxDropWaker(r) BY <2>7, AccessFact DEF RxDropWaker
  <2>8. CASE RxDropMark(r) BY <2>8 DEF RxDropMark, Ordered, Touch, AcquireBy,
         ReleaseBy
  <2>9. CASE RxDropOpen(r) BY <2>9 DEF RxDropOpen, Ordered, Touch, AcquireBy,
         ReleaseBy
  <2>10. CASE RxDealloc(r) BY <2>10 DEF RxDealloc, Touch
  <2> QED BY <1>5, <2>1, <2>2, <2>3, <2>4, <2>5, <2>6, <2>7, <2>8, <2>9, <2>10 DEF RxDropNext
<1>6. QED BY <1>1, <1>2, <1>3, <1>4, <1>5 DEF Next

-----------------------------------------------------------------------------
(* A new channel satisfies the invariant. *)
LEMMA InitInv == Init => IInv
<1> SUFFICES ASSUME Init PROVE IInv
  OBVIOUS
<1> USE DEF Init, Cells
<1>1. TypeOK /\ WordInv /\ CopyInv /\ ExclInv /\ SendInv /\ OpenInv
  BY DEF TypeOK, WordInv, CopyInv, ExclInv, SendInv, OpenInv
<1>2. ValInv /\ WaitInv /\ WakerInv /\ GoneInv /\ WakeInv /\ NoneInv
  BY DEF ValInv, WaitInv, WakerInv, GoneInv, WakeInv, NoneInv
<1>3. SeenData /\ SeenWaker /\ SeenDrop
  BY DEF SeenData, SeenWaker, SeenDrop
<1> QED BY <1>1, <1>2, <1>3 DEF IInv

(* Every step of the sender and of the receivers preserves it. *)
LEMMA Inductive == IInv /\ [Next]_vars => IInv'
<1> SUFFICES ASSUME IInv, [Next]_vars PROVE IInv'
  OBVIOUS
<1>1. CASE Next
  <2> USE <1>1 DEF IInv
  <2>1. TypeOK' /\ WordInv' /\ CopyInv' /\ ExclInv' /\ SendInv'
    BY TypeStep, WordStep, CopyStep, ExclStep, SendStep
  <2>2. OpenInv' /\ ValInv' /\ WaitInv' /\ WakerInv' /\ GoneInv'
    BY OpenStep, ValStep, WaitStep, WakerStep, GoneStep
  <2>3. WakeInv' /\ NoneInv' /\ SeenData' /\ SeenWaker' /\ SeenDrop'
    BY WakeStep, NoneStep, SeenDataStep, SeenWakerStep, SeenDropStep
  <2> QED BY <2>1, <2>2, <2>3
<1>2. CASE UNCHANGED vars
  BY <1>2 DEF vars, IInv, TypeOK, WordInv, CopyInv, ExclInv, SendInv, OpenInv,
              ValInv, WaitInv, WakerInv, GoneInv, WakeInv, NoneInv, SeenData,
              SeenWaker, SeenDrop
<1> QED BY <1>1, <1>2

(* The parts of the invariant hold together in every reachable state of    *)
(* the channel, whatever the number of receiving threads, the wakers and   *)
(* the cargo features.                                                     *)
THEOREM Invariance == Spec => []IInv
<1>1. Init => IInv
  BY InitInv
<1>2. IInv /\ [Next]_vars => IInv'
  BY Inductive
<1> QED BY <1>1, <1>2, PTL DEF Spec

(* Every variable of the channel keeps its type. *)
THEOREM TypeCorrect == Spec => []TypeOK
<1>1. IInv => TypeOK
  BY DEF IInv
<1> QED BY <1>1, Invariance, PTL

(* The invariant spells out the rows of the table. *)
LEMMA TableFact == IInv => StateTable
<1> SUFFICES ASSUME state \subseteq BitStatus, WordInv PROVE StateTable
  BY DEF IInv, TypeOK
<1>1. CASE "WAITING" \in state
  <2>1. "READY" \notin state /\ "CLOSE" \notin state
    BY <1>1 DEF WordInv
  <2>2. CASE "PENDING" \notin state
    <3>1. "FIELDLESS" \notin state
      BY <1>1, <2>2 DEF WordInv
    <3> QED BY <1>1, <2>1, <2>2, <3>1 DEF StateTable, waiting
  <2>3. CASE "PENDING" \in state /\ "FIELDLESS" \notin state
    BY <1>1, <2>1, <2>3 DEF StateTable, pending
  <2>4. CASE "PENDING" \in state /\ "FIELDLESS" \in state
    BY <1>1, <2>1, <2>4 DEF StateTable, polling
  <2> QED BY <2>2, <2>3, <2>4
<1>2. CASE "WAITING" \notin state /\ "READY" \in state
  <2>1. "PENDING" \notin state /\ ("CLOSE" \in state <=> "FIELDLESS" \in state)
    BY <1>2 DEF WordInv
  <2> QED BY <1>2, <2>1 DEF StateTable, ready, droppable
<1>3. CASE "WAITING" \notin state /\ "READY" \notin state
  <2>1. "PENDING" \notin state
    BY <1>3 DEF WordInv
  <2> QED BY <1>3, <2>1 DEF StateTable, new, closed, dataless, dropped
<1> QED BY <1>1, <1>2, <1>3

(* The atomic word never leaves the documented state table. *)
THEOREM TableCorrect == Spec => []StateTable
BY TableFact, Invariance, PTL

(* The owner of the value is alone with it. *)
LEMMA DataFact == IInv => DataAccess
BY DEF IInv, TypeOK, ValInv, SendInv, SeenData, DataAccess, DataLabels

(* The value is moved out of Inner::data exactly once, by a thread that    *)
(* the write happens before and while nobody else touches the field.       *)
THEOREM DataCorrect == Spec => []DataAccess
BY DataFact, Invariance, PTL

(* The owner of the waker is alone with it. *)
LEMMA WakerFact == IInv => WakerAccess
BY DEF IInv, TypeOK, WakerInv, SeenWaker, WakerAccess, WakerLabels

(* The waker field is read, replaced and dropped without a race, and only  *)
(* while it holds a waker.                                                 *)
THEOREM WakerCorrect == Spec => []WakerAccess
BY WakerFact, Invariance, PTL

(* Who frees the memory is the last to use it. *)
LEMMA DeallocFact == IInv => DeallocSafe
<1> SUFFICES ASSUME IInv PROVE DeallocSafe
  OBVIOUS
<1> USE DEF IInv, TypeOK, ExclInv, GoneInv, SeenDrop, IdleLabels
<1>1. ASSUME NEW t \in Actors, pc[t] \in DeallocLabels
      PROVE  live /\ \A u \in Actors \ {t} : pc[u] \in IdleLabels /\ t \in seen[u]
  <2>1. CASE t = Tx
    BY <1>1, <2>1
  <2>2. CASE t \in Receivers
    BY <1>1, <2>2
  <2> QED BY <2>1, <2>2
<1>2. ~live => SenderGone /\ ReceiverGone
  OBVIOUS
<1> QED BY <1>1, <1>2 DEF DeallocSafe

(* The memory is freed once, after the last access of every thread.        *)
THEOREM DeallocCorrect == Spec => []DeallocSafe
BY DeallocFact, Invariance, PTL

(* When both ends are gone nothing is left. *)
LEMMA LeakFact == IInv => NoLeak
<1> SUFFICES ASSUME IInv, SenderGone, ReceiverGone
             PROVE  ~live /\ val # "data" /\ waker = NoWaker
  BY DEF NoLeak
<1> USE DEF IInv, TypeOK, ExclInv, GoneInv
<1>1. ~live /\ "READY" \notin state /\ "CLOSE" \in state
  OBVIOUS
<1>2. \A r \in Receivers : pc[r] \in {"rx_idle", "rx_gone"}
  OBVIOUS
<1>3. val # "data"
  BY <1>1, <1>2 DEF ValInv
<1>4. waker = NoWaker
  BY <1>1, <1>2 DEF WakerInv, WordInv
<1> QED BY <1>1, <1>3, <1>4

(* Dropping both ends frees the memory, the value and the waker.           *)
THEOREM LeakFree == Spec => []NoLeak
BY LeakFact, Invariance, PTL

(* Who sleeps is announced. *)
LEMMA WakeupFact == IInv => NoLostWakeup
<1> SUFFICES ASSUME IInv PROVE NoLostWakeup
  OBVIOUS
<1>0. state \subseteq BitStatus /\ WordInv
  BY DEF IInv, TypeOK
<1>1. ASSUME "PENDING" \in state, "FIELDLESS" \notin state
      PROVE  state = {"WAITING", "PENDING"}
  <2>1. "WAITING" \in state /\ "READY" \notin state /\ "CLOSE" \notin state
    BY <1>0, <1>1 DEF WordInv
  <2> QED BY <1>0, <1>1, <2>1
<1>2. ASSUME NEW r \in Receivers, pc[r] = "blocked", "WAITING" \in state
      PROVE  state = {"WAITING"}
  <2>1. "PENDING" \notin state
    BY <1>2 DEF IInv, TypeOK, WaitInv
  <2>2. "READY" \notin state /\ "CLOSE" \notin state /\ "FIELDLESS" \notin state
    BY <1>0, <1>2, <2>1 DEF WordInv
  <2> QED BY <1>0, <1>2, <2>1, <2>2
<1> QED BY <1>1, <1>2 DEF IInv, TypeOK, WakeInv, NoLostWakeup

(* No parked task and no sleeping thread is forgotten by the sender.       *)
THEOREM WakeupCorrect == Spec => []NoLostWakeup
BY WakeupFact, Invariance, PTL

(* What was reported is true. *)
LEMMA OutcomesFact == IInv => Outcomes
BY DEF IInv, TypeOK, ValInv, SendInv, NoneInv, Outcomes

(* What send, recv and poll report is true of the value.                   *)
THEOREM OutcomesCorrect == Spec => []Outcomes
BY OutcomesFact, Invariance, PTL

(* None is final for the thread that got it.                               *)
THEOREM NoneFinal == Spec => NoneIsFinal
<1>1. IInv /\ [Next]_vars =>
        [\A r \in Receivers : result[r] = "None" => result'[r] # "Some"]_vars
  <2> SUFFICES ASSUME IInv, Next, NEW r \in Receivers, result[r] = "None"
               PROVE  result'[r] # "Some"
    OBVIOUS
  <2> USE DEF IInv, TypeOK, NoneInv
  <2>1. CASE SendNext
    BY <2>1 DEF SendNext, SendNew, SendWrite, SendCas, SendAcquire, SendWake,
                SendNotify, SendReadback
  <2>2. CASE TxDropNext
    BY <2>2 DEF TxDropNext, TxDropNew, TxDropAcquire, TxDropClosed,
                TxDropPolling, TxDropPending, TxDropWake, TxDropWaiting,
                TxDropNotify, TxDropMark, TxDropOpen, TxDealloc
  <2>3. ASSUME NEW q \in Receivers, RecvNext(q)
        PROVE  result'[r] # "Some"
    BY <2>3 DEF RecvNext, RecvNew, RecvReady, RecvRead, RecvNone, RecvUnpend,
                RecvUnwake, RecvRewait, RecvWait, FutexWait, FutexSpurious,
                Reload, SpinWait
  <2>4. ASSUME NEW q \in Receivers, PollNext(q)
        PROVE  result'[r] # "Some"
    BY <2>4 DEF PollNext, PollNew, PollReady, PollRead, PollNone, PollAgain,
                PollUpdate, PollFirst, PollInit, PollPending, PollOvertaken,
                PollDiscard
  <2>5. ASSUME NEW q \in Receivers, RxDropNext(q)
        PROVE  result'[r] # "Some"
    BY <2>5 DEF RxDropNext, RxDropNew, RxDropReady, RxDropRead, RxDropAcquire,
                RxDropClosed, RxDropPending, RxDropWaker, RxDropMark,
                RxDropOpen, RxDealloc
  <2> QED BY <2>1, <2>2, <2>3, <2>4, <2>5 DEF Next
<1> QED BY <1>1, Invariance, PTL DEF Spec, NoneIsFinal
(* A word and a row of the table have the same flags. *)
Row(a, s) == \A f \in BitStatus : f \in a <=> f \in s

(* The diagram, flag by flag. *)
EdgeFlags(a, b) ==
  \/ Row(a, new) /\ (Row(b, dropped) \/ Row(b, ready) \/ Row(b, waiting) \/ Row(b, polling))
  \/ Row(a, ready) /\ (Row(b, dataless) \/ Row(b, droppable) \/ Row(b, closed) \/ Row(b, new))
  \/ Row(a, waiting) /\ (Row(b, ready) \/ Row(b, closed))
  \/ Row(a, pending) /\ (Row(b, waiting) \/ Row(b, ready) \/ Row(b, closed) \/ Row(b, polling))
  \/ Row(a, polling) /\ (Row(b, ready) \/ Row(b, pending) \/ Row(b, dropped))
  \/ (Row(a, dataless) \/ Row(a, droppable) \/ Row(a, closed)) /\ Row(b, dropped)

(* Words with the flags of an edge are an edge. *)
LEMMA RowFact ==
  ASSUME NEW a \in SUBSET BitStatus, NEW b \in SUBSET BitStatus, EdgeFlags(a, b)
  PROVE  <<a, b>> \in DiagramEdges \cup {<<ready, new>>}
<1> DEFINE Rows == {new, ready, waiting, pending, polling, dataless, closed, dropped, droppable}
<1>1. \A s \in Rows : s \subseteq BitStatus
  BY DEF new, ready, waiting, pending, polling, dataless, closed, dropped, droppable
<1> HIDE DEF BitStatus, Rows
<1>2. \A x, s \in SUBSET BitStatus : Row(x, s) => x = s
  BY DEF Row
<1>3. \A s \in Rows : (Row(a, s) => a = s) /\ (Row(b, s) => b = s)
  BY <1>1, <1>2
<1> QED BY <1>3 DEF EdgeFlags, DiagramEdges, Rows

(* Every change of the word is an edge of the diagram that the README of   *)
(* conlock draws, or the detour of drop_receiver that its comment names.   *)
LEMMA EdgeStep ==
  IInv /\ Next => UNCHANGED state \/ <<state, state'>> \in DiagramEdges \cup {<<ready, new>>}
<1> SUFFICES ASSUME IInv, Next, state' # state
             PROVE  <<state, state'>> \in DiagramEdges \cup {<<ready, new>>}
  OBVIOUS
<1>0. TypeOK /\ TypeOK'
  BY TypeStep DEF IInv
<1> SUFFICES EdgeFlags(state, state')
  <2>1. state \in SUBSET BitStatus /\ state' \in SUBSET BitStatus
    BY <1>0 DEF TypeOK
  <2> QED BY <2>1, RowFact
<1> USE DEF EdgeFlags, Row, new, ready, waiting, pending, polling, dataless, closed, dropped,
        droppable
<1> USE DEF IInv, TypeOK, WordInv, ExclInv, SendInv, OpenInv, WaitInv, GoneInv
<1>1. CASE SendNext \/ TxDropNext
  <2>1. CASE SendCas BY <2>1 DEF SendCas
  <2>2. CASE TxDropClosed BY <2>2 DEF TxDropClosed
  <2>3. CASE TxDropPolling BY <2>3 DEF TxDropPolling
  <2>4. CASE TxDropPending BY <2>4 DEF TxDropPending
  <2>5. CASE TxDropWaiting BY <2>5 DEF TxDropWaiting
  <2>6. CASE TxDropMark BY <2>6 DEF TxDropMark
  <2>7. CASE TxDropOpen BY <2>7 DEF TxDropOpen
  <2> QED BY <1>1, <2>1, <2>2, <2>3, <2>4, <2>5, <2>6, <2>7
       DEF SendNext, TxDropNext, SendNew, SendWrite, SendAcquire, SendWake,
           SendNotify, SendReadback, TxDropNew, TxDropAcquire, TxDropWake,
           TxDropNotify, TxDealloc
<1>2. ASSUME NEW r \in Receivers, RecvNext(r) \/ PollNext(r) \/ RxDropNext(r)
      PROVE  EdgeFlags(state, state')
  <2>1. CASE RecvReady(r) BY <2>1 DEF RecvReady
  <2>2. CASE RecvUnpend(r) BY <2>2 DEF RecvUnpend
  <2>3. CASE RecvWait(r) BY <2>3 DEF RecvWait
  <2>4. CASE PollReady(r) BY <2>4 DEF PollReady
  <2>5. CASE PollAgain(r) BY <2>5 DEF PollAgain
  <2>6. CASE PollFirst(r) BY <2>6 DEF PollFirst
  <2>7. CASE PollPending(r) BY <2>7 DEF PollPending
  <2>8. CASE RxDropReady(r) BY <2>8 DEF RxDropReady
  <2>9. CASE RxDropClosed(r) BY <2>9 DEF RxDropClosed
  <2>10. CASE RxDropPending(r) BY <2>10 DEF RxDropPending
  <2>11. CASE RxDropMark(r) BY <2>11 DEF RxDropMark
  <2>12. CASE RxDropOpen(r) BY <2>12 DEF RxDropOpen
  <2> QED BY <1>2, <2>1, <2>2, <2>3, <2>4, <2>5, <2>6, <2>7, <2>8, <2>9, <2>10,
             <2>11, <2>12
       DEF RecvNext, PollNext, RxDropNext, RecvNew, RecvRead, RecvNone,
           RecvUnwake, RecvRewait, FutexWait, FutexSpurious, Reload, SpinWait,
           PollNew, PollRead, PollNone, PollUpdate, PollInit, PollOvertaken,
           PollDiscard, RxDropNew, RxDropRead, RxDropAcquire, RxDropWaker,
           RxDealloc
<1> QED BY <1>1, <1>2 DEF Next

(* The word follows the state diagram of conlock/README.md. *)
THEOREM DiagramCorrect == Spec => Transitions
<1>1. IInv /\ [Next]_vars => [(<<state, state'>> \in DiagramEdges \cup {<<ready, new>>})]_state
  BY EdgeStep DEF vars
<1> QED BY <1>1, Invariance, PTL DEF Spec, Transitions

(* Nobody offers a second value. *)
LEMMA OkStays ==
  ASSUME IInv, Next, result[Tx] = "Ok", "READY" \notin state
  PROVE  result'[Tx] = "Ok" /\ "READY" \notin state'
<1> USE DEF IInv, TypeOK, SendInv
<1>1. CASE SendNext
  BY <1>1 DEF SendNext, SendNew, SendWrite, SendCas, SendAcquire, SendWake,
              SendNotify, SendReadback
<1>2. CASE TxDropNext
  BY <1>2 DEF TxDropNext, TxDropNew, TxDropAcquire, TxDropClosed,
              TxDropPolling, TxDropPending, TxDropWake, TxDropWaiting,
              TxDropNotify, TxDropMark, TxDropOpen, TxDealloc, CopyInv
<1>3. ASSUME NEW r \in Receivers, RecvNext(r) \/ PollNext(r) \/ RxDropNext(r)
      PROVE  result'[Tx] = "Ok" /\ "READY" \notin state'
  <2>1. CASE RecvNext(r)
    BY <2>1 DEF RecvNext, RecvNew, RecvReady, RecvRead, RecvNone, RecvUnpend,
                RecvUnwake, RecvRewait, RecvWait, FutexWait, FutexSpurious,
                Reload, SpinWait
  <2>2. CASE PollNext(r)
    BY <2>2 DEF PollNext, PollNew, PollReady, PollRead, PollNone, PollAgain,
                PollUpdate, PollFirst, PollInit, PollPending, PollOvertaken,
                PollDiscard
  <2>3. CASE RxDropNext(r)
    BY <2>3 DEF RxDropNext, RxDropNew, RxDropReady, RxDropRead, RxDropAcquire,
                RxDropClosed, RxDropPending, RxDropWaker, RxDropMark,
                RxDropOpen, RxDealloc
  <2> QED BY <1>3, <2>1, <2>2, <2>3
<1> QED BY <1>1, <1>2, <1>3 DEF Next

(* poll_recv is left right after it has dropped the waker that the sender  *)
(* will not take: the destructor of that waker has panicked.               *)
PollLeaves(r) ==
  /\ pc[r] = "poll_discard"
  /\ waker' = NoWaker
  /\ seen' = Share(Access(r, "waker"), r)
  /\ Goto(r, "rx_idle")
  /\ UNCHANGED <<state, cur, val, cx, parked, live, result>>

(* The receiver it leaves behind is as good as one that was never polled. *)
LEMMA LeaveStep ==
  ASSUME NEW r \in Receivers, IInv, PollLeaves(r)
  PROVE  IInv'
<1> USE DEF PollLeaves
<1>1. /\ r \in Actors
      /\ Access(r, "waker") \in [Cells -> SUBSET (Actors \cup {"msg"})]
      /\ Access(r, "waker")[r] = {r} /\ Access(r, "waker")["waker"] = {r}
      /\ \A x \in Cells : x # r /\ x # "waker" => Access(r, "waker")[x] = seen[x]
  BY DEF IInv, TypeOK, Access, Touch, Cells
<1>2. \A x \in Cells :
        seen'[x] = IF r \in Access(r, "waker")[x]
                   THEN Access(r, "waker")[x] \cup Receivers
                   ELSE Access(r, "waker")[x]
  BY DEF Share
<1>3. seen' \in [Cells -> SUBSET (Actors \cup {"msg"})]
  BY <1>1 DEF Share
<1>4. \A x \in Cells : x # r /\ x # "waker" => seen[x] \subseteq seen'[x]
  BY <1>1, <1>2
<1>5. Receivers \subseteq seen'["waker"] /\ Receivers \subseteq seen'[r]
  BY <1>1, <1>2 DEF Cells
<1>6. /\ pc'[r] = "rx_idle" /\ \A t \in Actors : t # r => pc'[t] = pc[t]
      /\ pc' \in [Actors -> TxLabels \cup RxLabels]
      /\ UNCHANGED <<state, cur, val, cx, parked, live, result>>
  BY DEF IInv, TypeOK
<1>7. TypeOK' /\ WordInv' /\ CopyInv' /\ ExclInv' /\ SendInv'
  BY <1>3, <1>6 DEF IInv, TypeOK, WordInv, CopyInv, ExclInv, SendInv
<1>8. OpenInv' /\ ValInv' /\ NoneInv'
  BY <1>6 DEF IInv, TypeOK, OpenInv, ValInv, NoneInv
<1>9. WaitInv' /\ WakeInv'
  BY <1>6 DEF IInv, TypeOK, ExclInv, WaitInv, WakeInv
<1>10. WakerInv'
  BY <1>6 DEF IInv, TypeOK, WaitInv, WakerInv
<1>11. GoneInv'
  BY <1>6 DEF IInv, TypeOK, GoneInv
<1>12. SeenData'
  BY <1>4, <1>6 DEF IInv, TypeOK, SeenData, Cells
<1>13. SeenWaker'
  BY <1>5, <1>6 DEF IInv, TypeOK, WaitInv, WakerInv, SeenWaker, Cells
<1>14. SeenDrop'
  <2>1. ~ReceiverGone /\ \A q \in Receivers : pc'[q] = "rx_idle"
    BY <1>6 DEF IInv, TypeOK, ExclInv
  <2>2. pc'[Tx] # "txdrop_dealloc"
    BY <1>6, <2>1 DEF IInv, GoneInv
  <2>3. \A t \in Actors : t \in seen'[t]
    BY <1>4, <1>5 DEF IInv, SeenDrop, Cells
  <2>4. SenderGone' /\ live' => "msg" \in seen'[Tx]
    <3>1. Tx \in Cells /\ Tx # r /\ Tx # "waker" /\ pc'[Tx] = pc[Tx] /\ live' = live
      BY <1>6 DEF Cells
    <3> QED BY <1>4, <3>1 DEF IInv, SeenDrop
  <2> QED BY <1>6, <2>1, <2>2, <2>3, <2>4 DEF IInv, TypeOK, SeenDrop
<1> QED BY <1>7, <1>8, <1>9, <1>10, <1>11, <1>12, <1>13, <1>14 DEF IInv
-----------------------------------------------------------------------------
(* Refinement: every step of Oneshot is one step of OneshotChannel, or none *)

(* The outcome of thread t as the abstract channel sees it: a thread has   *)
(* the value from the CAS that wins it.                                    *)
Outcome(t) == IF pc[t] \in {"recv_read", "poll_read"} THEN "Some" ELSE result[t]
Answered == [t \in Actors |-> Outcome(t)]

(* The steps of the abstract channel. *)
Step == [Channel!ChannelNext]_(Channel!cvars)

(* send: its CAS accepts the value, and a refusal hands it back. *)
LEMMA SendRefines ==
  ASSUME IInv, SendNext
  PROVE  Step
<1> USE DEF Step, IInv, TypeOK, WordInv, CopyInv, ExclInv, SendInv, OpenInv,
        ValInv, WaitInv, GoneInv, NoneInv
<1> USE DEF Channel!ChannelNext, Channel!cvars, Channel!Answer
<1>1. CASE SendNew
  <2>1. CASE ~is_closed(state)
    BY <1>1, <2>1 DEF SendNew
  <2>2. CASE is_closed(state)
    <3>1. /\ ~is_ready(state) /\ state' = state /\ live' = live
          /\ result[Tx] = "-" /\ result' = [result EXCEPT ![Tx] = "Err"]
      BY <1>1, <2>2 DEF SendNew
    <3>2. pc[Tx] = "tx_idle" /\ pc' = [pc EXCEPT ![Tx] = "txdrop_new"]
      BY <1>1, <2>2 DEF SendNew
    <3>3. ~SenderGone /\ ~SenderGone' /\ (ReceiverGone' <=> ReceiverGone)
      BY <3>2
    <3>4. Answered' = [Answered EXCEPT ![Tx] = "Err"]
      BY <3>1, <3>2 DEF Answered, Outcome
    <3>5. Channel!Refuse
      BY <2>2, <3>1, <3>3, <3>4 DEF Channel!Refuse, Answered, Outcome
    <3> QED BY <3>5
  <2> QED BY <2>1, <2>2
<1>2. CASE SendWrite
  BY <1>2 DEF SendWrite
<1>3. CASE SendCas
  <2>1. CASE CasFail(Tx, IF is_closed(state) THEN "send_readback" ELSE "send_cas")
             /\ UNCHANGED result
    BY <1>3, <2>1 DEF SendCas
  <2>2. CASE /\ CasOk(Tx, try_setup_ready_release(cur[Tx]), try_wake_after_ready(cur[Tx]))
             /\ Return(Tx, "Ok")
    <3>1. /\ ~is_ready(state) /\ ~is_closed(state) /\ result[Tx] = "-"
          /\ is_ready(state') /\ ~is_closed(state')
      BY <1>3, <2>2 DEF SendCas
    <3>2. live' = live /\ result' = [result EXCEPT ![Tx] = "Ok"]
      BY <1>3, <2>2 DEF SendCas
    <3>3. /\ pc[Tx] = "send_cas"
          /\ pc' = [pc EXCEPT ![Tx] = try_wake_after_ready(cur[Tx])]
          /\ try_wake_after_ready(cur[Tx]) \in {"send_acquire", "send_notify", "txdrop_new"}
      BY <1>3, <2>2 DEF SendCas
    <3> HIDE DEF try_wake_after_ready
    <3>4. ~SenderGone /\ ~SenderGone' /\ (ReceiverGone' <=> ReceiverGone)
      BY <3>3
    <3>5. Answered' = [Answered EXCEPT ![Tx] = "Ok"]
      BY <3>2, <3>3 DEF Answered, Outcome
    <3>6. Channel!Accept
      BY <3>1, <3>2, <3>4, <3>5 DEF Channel!Accept, Answered, Outcome
    <3> QED BY <3>6
  <2> QED BY <1>3, <2>1, <2>2 DEF SendCas
<1>4. CASE SendAcquire
  BY <1>4 DEF SendAcquire
<1>5. CASE SendWake
  BY <1>5 DEF SendWake
<1>6. CASE SendNotify
  BY <1>6 DEF SendNotify
<1>7. CASE SendReadback
  <2>1. /\ is_closed(state) /\ ~is_ready(state) /\ state' = state /\ live' = live
        /\ result[Tx] = "-" /\ result' = [result EXCEPT ![Tx] = "Err"]
    BY <1>7 DEF SendReadback
  <2>2. pc[Tx] = "send_readback" /\ pc' = [pc EXCEPT ![Tx] = "txdrop_new"]
    BY <1>7 DEF SendReadback
  <2>3. ~SenderGone /\ ~SenderGone' /\ (ReceiverGone' <=> ReceiverGone)
    BY <2>2
  <2>4. Answered' = [Answered EXCEPT ![Tx] = "Err"]
    BY <2>1, <2>2 DEF Answered, Outcome
  <2>5. Channel!Refuse
    BY <2>1, <2>3, <2>4 DEF Channel!Refuse, Answered, Outcome
  <2> QED BY <2>5
<1> QED BY <1>1, <1>2, <1>3, <1>4, <1>5, <1>6, <1>7 DEF SendNext

(* drop_sender: it closes the channel and leaves, as the first or the last. *)
LEMMA TxDropRefines ==
  ASSUME IInv, TxDropNext
  PROVE  Step
<1> USE DEF Step, IInv, TypeOK, WordInv, CopyInv, ExclInv, SendInv, OpenInv,
        ValInv, WaitInv, GoneInv, NoneInv
<1> USE DEF Channel!ChannelNext, Channel!cvars, Channel!Answer
<1>1. CASE TxDropNew
  BY <1>1 DEF TxDropNew
<1>2. CASE TxDropAcquire
  BY <1>2 DEF TxDropAcquire
<1>3. CASE TxDropClosed
  BY <1>3 DEF TxDropClosed, Channel!Leave
<1>4. CASE TxDropPolling
  BY <1>4 DEF TxDropPolling, Channel!Leave
<1>5. CASE TxDropPending
  BY <1>5 DEF TxDropPending, Channel!Close
<1>6. CASE TxDropWake
  BY <1>6 DEF TxDropWake
<1>7. CASE TxDropWaiting
  BY <1>7 DEF TxDropWaiting, Channel!Close
<1>8. CASE TxDropNotify
  BY <1>8 DEF TxDropNotify
<1>9. CASE TxDropMark
  BY <1>9 DEF TxDropMark, Channel!Leave
<1>10. CASE TxDropOpen
  BY <1>10 DEF TxDropOpen, Channel!Leave
<1>11. CASE TxDealloc
  <2>1. /\ pc[Tx] = "txdrop_dealloc" /\ pc' = [pc EXCEPT ![Tx] = "tx_gone"]
        /\ state' = state /\ result' = result /\ live' = FALSE
    BY <1>11 DEF TxDealloc
  <2>2. ~SenderGone /\ SenderGone' /\ ReceiverGone /\ ReceiverGone' /\ live
    BY <2>1
  <2>3. is_closed(state)
    BY <2>2
  <2>4. Answered' = Answered
    BY <2>1 DEF Answered, Outcome
  <2>5. Channel!Leave("sender")
    BY <2>1, <2>2, <2>3, <2>4 DEF Channel!Leave, Answered, Outcome
  <2> QED BY <2>5
<1> QED BY <1>1, <1>2, <1>3, <1>4, <1>5, <1>6, <1>7, <1>8, <1>9, <1>10, <1>11 DEF TxDropNext

(* recv: the winning CAS takes the value; None is true when it is reported. *)
LEMMA RecvRefines ==
  ASSUME IInv, NEW r \in Receivers, RecvNext(r)
  PROVE  Step
<1> USE DEF Step, IInv, TypeOK, WordInv, CopyInv, ExclInv, SendInv, OpenInv,
        ValInv, WaitInv, GoneInv, NoneInv
<1> USE DEF Channel!ChannelNext, Channel!cvars, Channel!Answer
<1>1. CASE RecvNew(r)
  BY <1>1 DEF RecvNew
<1>2. CASE RecvReady(r)
  <2>1. CASE CasOk(r, try_setup_dataless_acquire(cur[r]), "recv_read")
    <3>1. is_ready(state) /\ ~is_ready(state') /\ (is_closed(state') <=> is_closed(state))
      BY <1>2, <2>1 DEF RecvReady
    <3>2. result' = result /\ result[Tx] = "Ok" /\ live' = live
      BY <1>2, <3>1 DEF RecvReady
    <3>3. pc[r] = "recv" /\ pc' = [pc EXCEPT ![r] = "recv_read"]
      BY <1>2, <2>1 DEF RecvReady
    <3>4. (SenderGone' <=> SenderGone) /\ (ReceiverGone' <=> ReceiverGone) /\ ~ReceiverGone
      BY <3>3
    <3>5. Answered' = [Answered EXCEPT ![r] = "Some"]
      BY <3>2, <3>3 DEF Answered, Outcome
    <3>6. Channel!Take(r)
      BY <3>1, <3>2, <3>4, <3>5 DEF Channel!Take, Answered, Outcome
    <3> QED BY <3>6
  <2>2. CASE CasFail(r, "recv")
    BY <1>2, <2>2 DEF RecvReady
  <2> QED BY <1>2, <2>1, <2>2 DEF RecvReady
<1>3. CASE RecvRead(r)
  BY <1>3 DEF RecvRead
<1>4. CASE RecvNone(r)
  <2>1. ~is_ready(state) /\ (is_closed(state) \/ result[Tx] = "Ok")
    BY <1>4 DEF RecvNone
  <2>2. /\ state' = state /\ live' = live
        /\ result' = [result EXCEPT ![r] = "None"] /\ result'[Tx] = result[Tx]
    BY <1>4 DEF RecvNone
  <2>3. pc[r] = "recv" /\ pc' = [pc EXCEPT ![r] = "rx_idle"]
    BY <1>4 DEF RecvNone
  <2>4. (SenderGone' <=> SenderGone) /\ (ReceiverGone' <=> ReceiverGone) /\ ~ReceiverGone
    BY <2>3
  <2>5. Answered' = [Answered EXCEPT ![r] = "None"]
    BY <2>2, <2>3 DEF Answered, Outcome
  <2>6. Channel!Nothing(r)
    BY <2>1, <2>2, <2>4, <2>5 DEF Channel!Nothing, Answered, Outcome
  <2> QED BY <2>6
<1>5. CASE RecvUnpend(r)
  BY <1>5 DEF RecvUnpend
<1>6. CASE RecvUnwake(r)
  BY <1>6 DEF RecvUnwake
<1>7. CASE RecvRewait(r)
  BY <1>7 DEF RecvRewait
<1>8. CASE RecvWait(r)
  BY <1>8 DEF RecvWait
<1>9. CASE FutexWait(r)
  BY <1>9 DEF FutexWait
<1>10. CASE FutexSpurious(r)
  BY <1>10 DEF FutexSpurious
<1>11. CASE Reload(r)
  BY <1>11 DEF Reload
<1>12. CASE SpinWait(r)
  BY <1>12 DEF SpinWait
<1> QED BY <1>1, <1>2, <1>3, <1>4, <1>5, <1>6, <1>7, <1>8, <1>9, <1>10, <1>11,
          <1>12 DEF RecvNext

(* poll_recv: as recv, and Pending only while a value may still come. *)
LEMMA PollRefines ==
  ASSUME IInv, NEW r \in Receivers, PollNext(r)
  PROVE  Step
<1> USE DEF Step, IInv, TypeOK, WordInv, CopyInv, ExclInv, SendInv, OpenInv,
        ValInv, WaitInv, GoneInv, NoneInv
<1> USE DEF Channel!ChannelNext, Channel!cvars, Channel!Answer
<1>1. CASE PollNew(r)
  BY <1>1 DEF PollNew
<1>2. CASE PollReady(r)
  <2>1. CASE CasOk(r, try_setup_dataless_acquire(cur[r]), "poll_read")
    <3>1. is_ready(state) /\ ~is_ready(state') /\ (is_closed(state') <=> is_closed(state))
      BY <1>2, <2>1 DEF PollReady
    <3>2. result' = result /\ result[Tx] = "Ok" /\ live' = live
      BY <1>2, <3>1 DEF PollReady
    <3>3. pc[r] = "poll" /\ pc' = [pc EXCEPT ![r] = "poll_read"]
      BY <1>2, <2>1 DEF PollReady
    <3>4. (SenderGone' <=> SenderGone) /\ (ReceiverGone' <=> ReceiverGone) /\ ~ReceiverGone
      BY <3>3
    <3>5. Answered' = [Answered EXCEPT ![r] = "Some"]
      BY <3>2, <3>3 DEF Answered, Outcome
    <3>6. Channel!Take(r)
      BY <3>1, <3>2, <3>4, <3>5 DEF Channel!Take, Answered, Outcome
    <3> QED BY <3>6
  <2>2. CASE CasFail(r, "poll")
    BY <1>2, <2>2 DEF PollReady
  <2> QED BY <1>2, <2>1, <2>2 DEF PollReady
<1>3. CASE PollRead(r)
  BY <1>3 DEF PollRead
<1>4. CASE PollNone(r)
  <2>1. ~is_ready(state) /\ (is_closed(state) \/ result[Tx] = "Ok")
    BY <1>4 DEF PollNone
  <2>2. /\ state' = state /\ live' = live
        /\ result' = [result EXCEPT ![r] = "None"] /\ result'[Tx] = result[Tx]
    BY <1>4 DEF PollNone
  <2>3. pc[r] = "poll" /\ pc' = [pc EXCEPT ![r] = "rx_idle"]
    BY <1>4 DEF PollNone
  <2>4. (SenderGone' <=> SenderGone) /\ (ReceiverGone' <=> ReceiverGone) /\ ~ReceiverGone
    BY <2>3
  <2>5. Answered' = [Answered EXCEPT ![r] = "None"]
    BY <2>2, <2>3 DEF Answered, Outcome
  <2>6. Channel!Nothing(r)
    BY <2>1, <2>2, <2>4, <2>5 DEF Channel!Nothing, Answered, Outcome
  <2> QED BY <2>6
<1>5. CASE PollAgain(r)
  BY <1>5 DEF PollAgain
<1>6. CASE PollUpdate(r)
  BY <1>6 DEF PollUpdate
<1>7. CASE PollFirst(r)
  BY <1>7 DEF PollFirst
<1>8. CASE PollInit(r)
  BY <1>8 DEF PollInit
<1>9. CASE PollPending(r)
  <2>1. /\ ~is_ready(state) /\ ~is_closed(state) /\ result[Tx] = "-"
        /\ ~is_ready(state') /\ ~is_closed(state')
    BY <1>9 DEF PollPending
  <2>2. /\ live' = live
        /\ result' = [result EXCEPT ![r] = "Pending"] /\ result'[Tx] = result[Tx]
    BY <1>9 DEF PollPending
  <2>3. pc[r] = "poll_unset" /\ pc' = [pc EXCEPT ![r] = "rx_idle"]
    BY <1>9 DEF PollPending
  <2>4. (SenderGone' <=> SenderGone) /\ (ReceiverGone' <=> ReceiverGone) /\ ~ReceiverGone
    BY <2>3
  <2>5. Answered' = [Answered EXCEPT ![r] = "Pending"]
    BY <2>2, <2>3 DEF Answered, Outcome
  <2>6. Channel!NotYet(r)
    BY <2>1, <2>2, <2>4, <2>5 DEF Channel!NotYet, Answered, Outcome
  <2> QED BY <2>6
<1>10. CASE PollOvertaken(r)
  BY <1>10 DEF PollOvertaken
<1>11. CASE PollDiscard(r)
  BY <1>11 DEF PollDiscard
<1> QED BY <1>1, <1>2, <1>3, <1>4, <1>5, <1>6, <1>7, <1>8, <1>9, <1>10, <1>11 DEF PollNext

(* drop_receiver: an unread value is discarded before the receiver leaves. *)
LEMMA RxDropRefines ==
  ASSUME IInv, NEW r \in Receivers, RxDropNext(r)
  PROVE  Step
<1> USE DEF Step, IInv, TypeOK, WordInv, CopyInv, ExclInv, SendInv, OpenInv,
        ValInv, WaitInv, GoneInv, NoneInv
<1> USE DEF Channel!ChannelNext, Channel!cvars, Channel!Answer
<1>1. CASE RxDropNew(r)
  BY <1>1 DEF RxDropNew
<1>2. CASE RxDropReady(r)
  BY <1>2 DEF RxDropReady, Channel!Discard
<1>3. CASE RxDropRead(r)
  BY <1>3 DEF RxDropRead
<1>4. CASE RxDropAcquire(r)
  BY <1>4 DEF RxDropAcquire
<1>5. CASE RxDropClosed(r)
  BY <1>5 DEF RxDropClosed, Channel!Leave
<1>6. CASE RxDropPending(r)
  BY <1>6 DEF RxDropPending, Channel!Close
<1>7. CASE RxDropWaker(r)
  BY <1>7 DEF RxDropWaker
<1>8. CASE RxDropMark(r)
  BY <1>8 DEF RxDropMark, Channel!Leave
<1>9. CASE RxDropOpen(r)
  BY <1>9 DEF RxDropOpen, Channel!Leave
<1>10. CASE RxDealloc(r)
  BY <1>10 DEF RxDealloc, Channel!Leave
<1> QED BY <1>1, <1>2, <1>3, <1>4, <1>5, <1>6, <1>7, <1>8, <1>9, <1>10 DEF RxDropNext

(* The channel of oneshot.rs is a one-shot channel: at most one value goes *)
(* from send to one recv or poll, None and Err are reported only when      *)
(* nothing can follow, and the end that leaves last frees the memory.      *)
THEOREM Refinement == Spec => ImplementsChannel
<1>1. Init => Channel!ChannelInit
  BY DEF Init, Channel!ChannelInit
<1>2. IInv /\ [Next]_vars => [Channel!ChannelNext]_(Channel!cvars)
  <2> SUFFICES ASSUME IInv, [Next]_vars PROVE Step
    BY DEF Step
  <2>1. CASE Next
    BY <2>1, SendRefines, TxDropRefines, RecvRefines, PollRefines, RxDropRefines
       DEF Next
  <2>2. CASE UNCHANGED vars
    BY <2>2 DEF vars, Step, Channel!cvars
  <2> QED BY <2>1, <2>2
<1> QED BY <1>1, <1>2, Invariance, PTL
       DEF Spec, ImplementsChannel, Channel!ChannelSpec
=============================================================================
