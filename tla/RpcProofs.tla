----------------------------- MODULE RpcProofs -----------------------------
(***************************************************************************)
(* The RPC stack.  Safety of the session for every number of calls, every  *)
(* queue and socket capacity and every width of the message ids, against   *)
(* every peer.  The server of the example is one of these peers, so that   *)
(* this holds of its connections, also when the manager hands their        *)
(* clients out; it answers one call per connection; the spin lock          *)
(* excludes, and orders, any number of threads; and what `get` finds in    *)
(* the map is alive.                                                       *)
(***************************************************************************)
EXTENDS RpcManager, SequenceFacts, TLAPS

-----------------------------------------------------------------------------
(* The session: its inductive invariant *)

(* A call's Sender exists from the call on, and the session holds it only  *)
(* after it went through the queue.                                        *)
CallInv ==
  \A c \in Calls :
    /\ call[c] = "new" <=> slot[c] = "none"
    /\ call[c] = "sending" => slot[c] = "empty"
    /\ c \in ToSet(queue) => call[c] \in {"waiting", "cancelled"}
    /\ \A i \in Ids : map[i] = c => call[c] \in {"waiting", "cancelled"}

(* The task that has ended holds nothing. *)
TaskInv ==
  session = "ended" => queue = <<>> /\ \A i \in Ids : map[i] = NoCall

(* Only requests that were made are on the way, and an answer carries the  *)
(* id of the request it answers.                                           *)
WireInv ==
  /\ writing # NoCall => call[writing] # "new"
  /\ \A c \in ToSet(toPeer) \cup taken : call[c] # "new"
  /\ \A f \in ToSet(fromPeer) : f.of # "bad" => call[f.of] # "new" /\ f.id = id[f.of]
  /\ \A c \in Calls : slot[c] \in Calls => call[c] # "new" /\ call[slot[c]] # "new"

IoInv ==
  /\ TypeOK /\ CallInv /\ TaskInv /\ SenderHeldOnce /\ NoOrphan
  /\ WireInv /\ Routing

-----------------------------------------------------------------------------
(* The markers of a slot and of a frame are no calls. *)
LEMMA MarkerFact ==
  /\ "none" \notin Calls /\ "empty" \notin Calls /\ "closed" \notin Calls
  /\ "bad" \notin Calls /\ NoCall \notin Calls
BY IoAssumption

(* get_mid hands out an id, whatever the width. *)
LEMMA NextIdFact == ASSUME NEW m \in Ids PROVE NextId(m) \in Ids
BY IoAssumption DEF Ids, NextId

(* A new session satisfies the invariant. *)
LEMMA InitIo == Init => IoInv
<1> SUFFICES ASSUME Init PROVE IoInv
  OBVIOUS
<1> USE IoAssumption, EmptyFact DEF Init
<1>1. TypeOK
  BY DEF TypeOK, Ids, Frames
<1>2. CallInv /\ TaskInv /\ SenderHeldOnce /\ NoOrphan
  BY DEF CallInv, TaskInv, SenderHeldOnce, NoOrphan
<1>3. WireInv /\ Routing
  BY DEF WireInv, Routing
<1> QED BY <1>1, <1>2, <1>3 DEF IoInv

(* A call gets its id and its channel. *)
LEMMA CallStep ==
  ASSUME IoInv, NEW c \in Calls, Call(c)
  PROVE  IoInv'
<1> USE MarkerFact DEF IoInv, TypeOK, Call, callVars, wire
<1>1. TypeOK'
  BY NextIdFact DEF Ids, Frames, Outcomes
<1>2. CallInv'
  BY DEF CallInv
<1>3. TaskInv'
  BY DEF TaskInv
<1>4. SenderHeldOnce'
  BY DEF SenderHeldOnce, CallInv
<1>5. NoOrphan'
  BY DEF NoOrphan, CallInv, SenderHeldOnce, TaskInv
<1>6. WireInv'
  BY DEF WireInv, CallInv
<1>7. Routing'
  BY DEF Routing, WireInv, CallInv
<1> QED BY <1>1, <1>2, <1>3, <1>4, <1>5, <1>6, <1>7

(* The message and its Sender enter the queue. *)
LEMMA EnqueueStep ==
  ASSUME IoInv, NEW c \in Calls, Enqueue(c)
  PROVE  IoInv'
<1> USE MarkerFact DEF IoInv, TypeOK, Enqueue, callVars, wire
<1>a. /\ queue' \in Seq(Calls) /\ Len(queue') <= QueueCap
      /\ ToSet(queue') = ToSet(queue) \cup {c}
      /\ c \notin ToSet(queue) /\ (\A i \in Ids : map[i] # c)
      /\ IsInjective(queue) => IsInjective(queue')
  BY AppendFact, IoAssumption DEF CallInv
<1>1. TypeOK'
  BY <1>a DEF Ids, Frames, Outcomes
<1>2. CallInv'
  BY <1>a DEF CallInv
<1>3. TaskInv'
  BY <1>a DEF TaskInv
<1>4. SenderHeldOnce'
  BY <1>a DEF SenderHeldOnce, CallInv
<1>5. NoOrphan'
  BY <1>a DEF NoOrphan, CallInv, SenderHeldOnce, TaskInv
<1>6. WireInv'
  BY <1>a DEF WireInv, CallInv
<1>7. Routing'
  BY <1>a DEF Routing, WireInv, CallInv
<1> QED BY <1>1, <1>2, <1>3, <1>4, <1>5, <1>6, <1>7

(* A message that finds the task gone takes its Sender with it. *)
LEMMA SendErrorStep ==
  ASSUME IoInv, NEW c \in Calls, SendError(c)
  PROVE  IoInv'
<1> USE MarkerFact DEF IoInv, TypeOK, SendError, callVars, wire
<1>a. /\ \A d \in Calls : slot'[d] = IF d = c THEN "closed" ELSE slot[d]
      /\ \A d \in Calls : call'[d] = IF d = c THEN "send_error" ELSE call[d]
      /\ slot' \in [Calls -> {"none", "empty", "closed"} \cup Calls]
      /\ call' \in [Calls -> {"new", "sending", "waiting"} \cup Outcomes]
      /\ call[c] = "sending" /\ session = "ended"
  BY DEF Outcomes
<1>b. UNCHANGED <<mid, id, clients, queue, map, writing, session,
                  toPeer, taken, fromPeer, conn>>
  OBVIOUS
<1>w. ToSet(toPeer) \subseteq Calls /\ ToSet(fromPeer) \subseteq Frames
  BY ElementFact
<1> HIDE DEF SendError, callVars, wire
<1>1. TypeOK'
  BY <1>a, <1>b DEF Ids, Frames, Outcomes
<1>2. CallInv'
  BY <1>a, <1>b DEF CallInv
<1>3. TaskInv'
  BY <1>a, <1>b DEF TaskInv
<1>4. SenderHeldOnce'
  BY <1>a, <1>b, EmptyFact DEF SenderHeldOnce, TaskInv
<1>5. NoOrphan'
  BY <1>a, <1>b DEF NoOrphan, TaskInv
<1>6. WireInv'
  BY <1>a, <1>b, <1>w DEF WireInv, CallInv, Frames
<1>7. Routing'
  BY <1>a, <1>b DEF Routing, WireInv, CallInv
<1> QED BY <1>1, <1>2, <1>3, <1>4, <1>5, <1>6, <1>7

(* The caller takes its answer. *)
LEMMA ReturnStep ==
  ASSUME IoInv, NEW c \in Calls, Return(c)
  PROVE  IoInv'
<1> USE MarkerFact DEF IoInv, TypeOK, Return, callVars, wire
<1>a. /\ call[c] = "waiting" /\ slot[c] # "empty"
      /\ \A d \in Calls : d # c => call'[d] = call[d]
      /\ call'[c] \in {"remote_error", "Ok"}
      /\ call' \in [Calls -> {"new", "sending", "waiting"} \cup Outcomes]
  BY DEF Outcomes
<1>b. UNCHANGED <<mid, id, slot, clients, queue, map, writing, session,
                  toPeer, taken, fromPeer, conn>>
  OBVIOUS
<1>w. ToSet(toPeer) \subseteq Calls /\ ToSet(fromPeer) \subseteq Frames
  BY ElementFact
<1> HIDE DEF Return, callVars, wire
<1>1. TypeOK'
  BY <1>a, <1>b DEF Ids, Frames, Outcomes
<1>2. CallInv'
  BY <1>a, <1>b DEF CallInv, SenderHeldOnce
<1>3. TaskInv'
  BY <1>a, <1>b DEF TaskInv
<1>4. SenderHeldOnce'
  BY <1>a, <1>b DEF SenderHeldOnce, CallInv
<1>5. NoOrphan'
  BY <1>a, <1>b DEF NoOrphan
<1>6. WireInv'
  BY <1>a, <1>b, <1>w DEF WireInv, CallInv, Frames
<1>7. Routing'
  BY <1>a, <1>b DEF Routing, WireInv, CallInv
<1> QED BY <1>1, <1>2, <1>3, <1>4, <1>5, <1>6, <1>7

(* The caller gives up. *)
LEMMA CancelStep ==
  ASSUME IoInv, NEW c \in Calls, Cancel(c)
  PROVE  IoInv'
<1> USE MarkerFact DEF IoInv, TypeOK, Cancel, callVars, wire
<1>1. TypeOK'
  BY DEF Ids, Frames, Outcomes
<1>2. CallInv'
  BY DEF CallInv
<1>3. TaskInv'
  BY DEF TaskInv
<1>4. SenderHeldOnce'
  BY DEF SenderHeldOnce, CallInv
<1>5. NoOrphan'
  BY DEF NoOrphan, CallInv, SenderHeldOnce, TaskInv
<1>6. WireInv'
  BY DEF WireInv, CallInv
<1>7. Routing'
  BY DEF Routing, WireInv, CallInv
<1> QED BY <1>1, <1>2, <1>3, <1>4, <1>5, <1>6, <1>7

(* The last client goes. *)
LEMMA DropClientsStep ==
  ASSUME IoInv, DropClients
  PROVE  IoInv'
<1> USE MarkerFact DEF IoInv, TypeOK, DropClients, callVars, wire
<1>1. TypeOK'
  BY DEF Ids, Frames, Outcomes
<1>2. CallInv'
  BY DEF CallInv
<1>3. TaskInv'
  BY DEF TaskInv
<1>4. SenderHeldOnce'
  BY DEF SenderHeldOnce, CallInv
<1>5. NoOrphan'
  BY DEF NoOrphan, CallInv, SenderHeldOnce, TaskInv
<1>6. WireInv'
  BY DEF WireInv, CallInv
<1>7. Routing'
  BY DEF Routing, WireInv, CallInv
<1> QED BY <1>1, <1>2, <1>3, <1>4, <1>5, <1>6, <1>7

(* The task ends and drops what it holds. *)
LEMMA EndStep ==
  ASSUME IoInv, End
  PROVE  IoInv'
<1> USE MarkerFact DEF IoInv, TypeOK, End, callVars, wire
<1>a. /\ queue' = <<>> /\ queue' \in Seq(Calls) /\ Len(queue') <= QueueCap
      /\ ToSet(queue') = {} /\ IsInjective(queue')
  BY EmptyFact, IoAssumption
<1>b. ToSet(queue) \subseteq Calls
  BY ElementFact
<1>c. ASSUME NEW c \in Calls
      PROVE  \/ slot'[c] = slot[c] /\ c \notin ToSet(queue) /\ \A i \in Ids : map[i] # c
             \/ slot'[c] = "closed" /\ call[c] \in {"waiting", "cancelled"}
  <2>1. CASE c \in Registered \cup ToSet(queue)
    <3>1. call[c] \in {"waiting", "cancelled"}
      BY <2>1 DEF Registered, CallInv
    <3> QED BY <2>1, <3>1 DEF Closed
  <2>2. CASE c \notin Registered \cup ToSet(queue)
    BY <2>2 DEF Closed, Registered
  <2> QED BY <2>1, <2>2
<1>d. slot' \in [Calls -> {"none", "empty", "closed"} \cup Calls]
  BY DEF Closed
<1>e. /\ map' = [i \in Ids |-> NoCall] /\ map' \in [Ids -> Calls \cup {NoCall}]
      /\ writing' = NoCall /\ session' = "ended"
      /\ conn' \subseteq {"out_shut", "peer_closed", "reset"}
      /\ UNCHANGED <<mid, call, id, clients, toPeer, taken, fromPeer>>
  OBVIOUS
<1> HIDE DEF End, callVars, wire
<1>1. TypeOK'
  BY <1>a, <1>b, <1>c, <1>d, <1>e DEF Ids, Frames, Outcomes
<1>2. CallInv'
  BY <1>a, <1>b, <1>c, <1>d, <1>e DEF CallInv
<1>3. TaskInv'
  BY <1>a, <1>b, <1>c, <1>d, <1>e DEF TaskInv
<1>4. SenderHeldOnce'
  BY <1>a, <1>b, <1>c, <1>d, <1>e DEF SenderHeldOnce, CallInv
<1>5. NoOrphan'
  BY <1>a, <1>b, <1>c, <1>d, <1>e DEF NoOrphan
<1>6. WireInv'
  BY <1>a, <1>b, <1>c, <1>d, <1>e DEF WireInv, CallInv
<1>7. Routing'
  BY <1>a, <1>b, <1>c, <1>d, <1>e DEF Routing, WireInv, CallInv
<1> QED BY <1>1, <1>2, <1>3, <1>4, <1>5, <1>6, <1>7

(* A message leaves the queue and its Sender enters the map. *)
LEMMA RegisterStep ==
  ASSUME IoInv, Register
  PROVE  IoInv'
<1> USE MarkerFact DEF IoInv, TypeOK, Register, callVars, wire
<1> DEFINE c == Head(queue)
<1>a. /\ c \in Calls /\ c \in ToSet(queue) /\ queue' \in Seq(Calls)
      /\ Len(queue') <= QueueCap
      /\ ToSet(queue) = ToSet(queue') \cup {c}
      /\ IsInjective(queue) => IsInjective(queue') /\ c \notin ToSet(queue')
  BY TailFact, IoAssumption
<1>b. /\ id[c] \in Ids /\ writing' = c /\ session = "running"
      /\ \A i \in Ids : map'[i] = IF i = id[c] THEN c ELSE map[i]
      /\ map' \in [Ids -> Calls \cup {NoCall}]
  BY <1>a
<1>c. \A d \in Calls : slot'[d] = IF d = map[id[c]] THEN "closed" ELSE slot[d]
  BY <1>a, <1>b DEF Closed
<1>d. slot' \in [Calls -> {"none", "empty", "closed"} \cup Calls]
  BY DEF Closed
<1>e. UNCHANGED <<mid, call, id, clients, session,
                  toPeer, taken, fromPeer, conn>>
  OBVIOUS
<1> HIDE DEF c
<1> HIDE DEF Register, callVars, wire
<1>1. TypeOK'
  BY <1>a, <1>b, <1>c, <1>d, <1>e DEF Ids, Frames, Outcomes
<1>2. CallInv'
  BY <1>a, <1>b, <1>c, <1>d, <1>e DEF CallInv, SenderHeldOnce
<1>3. TaskInv'
  BY <1>a, <1>b, <1>c, <1>d, <1>e DEF TaskInv
<1>4. SenderHeldOnce'
  <2> USE <1>a, <1>b, <1>e DEF SenderHeldOnce
  <2>1. ToSet(queue) \subseteq Calls /\ \A e \in ToSet(queue) : e # map[id[c]]
    BY ElementFact
  <2>2. \A e \in ToSet(queue) : slot'[e] = "empty"
    BY <1>c, <2>1
  <2>3. ASSUME NEW i \in Ids, i # id[c], map[i] # NoCall
        PROVE  slot'[map[i]] = "empty"
    <3>1. map[i] \in Calls /\ id[map[i]] = i /\ slot[map[i]] = "empty"
      BY <2>3
    <3>2. map[i] # map[id[c]]
      BY <2>3, <3>1
    <3> QED BY <1>c, <3>1, <3>2
  <2>4. ASSUME NEW i \in Ids, map'[i] # NoCall
        PROVE  id[map'[i]] = i /\ slot'[map'[i]] = "empty" /\ map'[i] \notin ToSet(queue')
    <3>1. CASE i = id[c]
      BY <2>2, <3>1
    <3>2. CASE i # id[c]
      BY <2>3, <2>4, <3>2
    <3> QED BY <3>1, <3>2
  <2> QED BY <2>2, <2>4
<1>5. NoOrphan'
  BY <1>a, <1>b, <1>c, <1>d, <1>e DEF NoOrphan, SenderHeldOnce, CallInv
<1>6. WireInv'
  BY <1>a, <1>b, <1>c, <1>d, <1>e DEF WireInv, CallInv
<1>7. Routing'
  BY <1>c, <1>e DEF Routing
<1> QED BY <1>1, <1>2, <1>3, <1>4, <1>5, <1>6, <1>7

(* A request is on its way to the peer. *)
LEMMA WriteStep ==
  ASSUME IoInv, Write
  PROVE  IoInv'
<1> USE MarkerFact DEF IoInv, TypeOK, Write, callVars, wire
<1>a. /\ toPeer' \in Seq(Calls)
      /\ ToSet(toPeer') \subseteq ToSet(toPeer) \cup {writing}
  <2>1. CASE toPeer' = Append(toPeer, writing)
    BY <2>1, AppendFact
  <2>2. CASE UNCHANGED toPeer
    BY <2>2
  <2> QED BY <2>1, <2>2
<1>1. TypeOK'
  BY <1>a DEF Ids, Frames, Outcomes
<1>2. CallInv'
  BY <1>a DEF CallInv
<1>3. TaskInv'
  BY <1>a DEF TaskInv
<1>4. SenderHeldOnce'
  BY <1>a DEF SenderHeldOnce, CallInv
<1>5. NoOrphan'
  BY <1>a DEF NoOrphan, CallInv, SenderHeldOnce, TaskInv
<1>6. WireInv'
  BY <1>a DEF WireInv, CallInv
<1>7. Routing'
  BY <1>a DEF Routing, WireInv, CallInv
<1> QED BY <1>1, <1>2, <1>3, <1>4, <1>5, <1>6, <1>7

(* run_send is through. *)
LEMMA SendDoneStep ==
  ASSUME IoInv, SendDone
  PROVE  IoInv'
<1> USE MarkerFact DEF IoInv, TypeOK, SendDone, callVars, wire
<1>1. TypeOK'
  BY DEF Ids, Frames, Outcomes
<1>2. CallInv'
  BY DEF CallInv
<1>3. TaskInv'
  BY DEF TaskInv
<1>4. SenderHeldOnce'
  BY DEF SenderHeldOnce, CallInv
<1>5. NoOrphan'
  BY DEF NoOrphan, CallInv, SenderHeldOnce, TaskInv
<1>6. WireInv'
  BY DEF WireInv, CallInv
<1>7. Routing'
  BY DEF Routing, WireInv, CallInv
<1> QED BY <1>1, <1>2, <1>3, <1>4, <1>5, <1>6, <1>7

(* An answer is handed to the Sender under its id. *)
LEMMA ReceiveStep ==
  ASSUME IoInv, Receive
  PROVE  IoInv'
<1> USE MarkerFact DEF IoInv, TypeOK, Receive, callVars, wire
<1> DEFINE f == Head(fromPeer)
<1>a. /\ f \in Frames /\ f \in ToSet(fromPeer) /\ fromPeer' \in Seq(Frames)
      /\ ToSet(fromPeer') \subseteq ToSet(fromPeer)
  BY TailFact
<1>b. /\ f.id \in Ids /\ f.of \in Calls
      /\ \A i \in Ids : map'[i] = IF i = f.id THEN NoCall ELSE map[i]
      /\ map' \in [Ids -> Calls \cup {NoCall}]
  BY <1>a DEF Frames
<1>c. \A d \in Calls : slot'[d] = IF d = map[f.id]
                                  THEN IF call[d] = "cancelled" THEN "closed" ELSE f.of
                                  ELSE slot[d]
  BY <1>a, <1>b DEF Deliver
<1>d. slot' \in [Calls -> {"none", "empty", "closed"} \cup Calls]
  BY <1>a, <1>b DEF Deliver
<1>e. UNCHANGED <<mid, call, id, clients, queue, writing, session, toPeer, taken, conn>>
  OBVIOUS
<1> HIDE DEF f
<1> HIDE DEF Receive, callVars, wire
<1>1. TypeOK'
  BY <1>a, <1>b, <1>c, <1>d, <1>e DEF Ids, Frames, Outcomes
<1>2. CallInv'
  BY <1>a, <1>b, <1>c, <1>d, <1>e DEF CallInv, SenderHeldOnce
<1>3. TaskInv'
  BY <1>a, <1>b, <1>c, <1>d, <1>e DEF TaskInv
<1>4. SenderHeldOnce'
  <2> USE <1>b, <1>e DEF SenderHeldOnce
  <2>1. ToSet(queue) \subseteq Calls /\ \A e \in ToSet(queue) : e # map[f.id]
    BY ElementFact
  <2>2. \A e \in ToSet(queue) : slot'[e] = "empty"
    BY <1>c, <2>1
  <2>3. ASSUME NEW i \in Ids, map'[i] # NoCall
        PROVE  /\ map'[i] = map[i] /\ id[map[i]] = i /\ slot'[map[i]] = "empty"
               /\ map[i] \notin ToSet(queue)
    <3>1. /\ i # f.id /\ map'[i] = map[i] /\ map[i] \in Calls /\ id[map[i]] = i
          /\ slot[map[i]] = "empty" /\ map[i] \notin ToSet(queue)
      BY <2>3
    <3>2. map[i] # map[f.id]
      BY <3>1
    <3> QED BY <1>c, <3>1, <3>2
  <2> QED BY <2>2, <2>3
<1>5. NoOrphan'
  BY <1>a, <1>b, <1>c, <1>d, <1>e DEF NoOrphan
<1>6. WireInv'
  BY <1>a, <1>b, <1>c, <1>d, <1>e DEF WireInv, CallInv
<1>7. Routing'
  BY <1>a, <1>b, <1>c, <1>e DEF Routing, WireInv, SenderHeldOnce
<1> QED BY <1>1, <1>2, <1>3, <1>4, <1>5, <1>6, <1>7

(* The peer reads a request. *)
LEMMA PeerTakeStep ==
  ASSUME IoInv, PeerTake
  PROVE  IoInv'
<1> USE MarkerFact DEF IoInv, TypeOK, PeerTake, callVars, wire, peerFrame
<1>a. /\ Head(toPeer) \in Calls /\ toPeer' \in Seq(Calls)
      /\ ToSet(toPeer) = ToSet(toPeer') \cup {Head(toPeer)}
  BY TailFact
<1>1. TypeOK'
  BY <1>a DEF Ids, Frames, Outcomes
<1>2. CallInv'
  BY <1>a DEF CallInv
<1>3. TaskInv'
  BY <1>a DEF TaskInv
<1>4. SenderHeldOnce'
  BY <1>a DEF SenderHeldOnce, CallInv
<1>5. NoOrphan'
  BY <1>a DEF NoOrphan, CallInv, SenderHeldOnce, TaskInv
<1>6. WireInv'
  BY <1>a DEF WireInv, CallInv
<1>7. Routing'
  BY <1>a DEF Routing, WireInv, CallInv
<1> QED BY <1>1, <1>2, <1>3, <1>4, <1>5, <1>6, <1>7

(* The peer sends garbage, or an answer to a request it has read. *)
LEMMA PeerSendStep ==
  ASSUME IoInv, NEW f \in Frames, PeerSend(f),
         f.of # "bad" => call[f.of] # "new" /\ f.id = id[f.of]
  PROVE  IoInv'
<1>1. fromPeer' \in Seq(Frames) /\ ToSet(fromPeer') = ToSet(fromPeer) \cup {f}
  BY AppendFact DEF PeerSend, IoInv, TypeOK
<1>2. UNCHANGED <<mid, call, id, slot, clients, queue, map, writing, session,
                  toPeer, taken, conn>>
  BY DEF PeerSend, peerFrame, callVars
<1>3. TypeOK' /\ CallInv' /\ TaskInv' /\ SenderHeldOnce' /\ NoOrphan' /\ Routing'
  BY <1>1, <1>2 DEF IoInv, TypeOK, CallInv, TaskInv, SenderHeldOnce, NoOrphan, Routing
<1>4. WireInv'
  BY <1>1, <1>2 DEF IoInv, WireInv
<1> QED BY <1>3, <1>4 DEF IoInv

(* A socket that is closed or breaks changes nothing else. *)
LEMMA SocketStep ==
  ASSUME IoInv, PeerClose \/ Reset
  PROVE  IoInv'
<1>1. UNCHANGED <<mid, call, id, slot, clients, queue, map, writing, session,
                  toPeer, taken, fromPeer>>
  BY DEF PeerClose, Reset, peerFrame, callVars, wire
<1>2. conn' \subseteq {"out_shut", "peer_closed", "reset"}
  BY DEF PeerClose, Reset, IoInv, TypeOK
<1> QED BY <1>1, <1>2 DEF IoInv, TypeOK, CallInv, TaskInv, SenderHeldOnce,
                          NoOrphan, WireInv, Routing

(* Every step of the callers, the task, the peer and the network preserves *)
(* the invariant.                                                          *)
LEMMA InductiveIo == IoInv /\ [Next]_ivars => IoInv'
<1> SUFFICES ASSUME IoInv, [Next]_ivars PROVE IoInv'
  OBVIOUS
<1>1. ASSUME NEW c \in Calls, CallerNext(c) PROVE IoInv'
  BY <1>1, CallStep, EnqueueStep, SendErrorStep, ReturnStep, CancelStep DEF CallerNext
<1>2. CASE DropClients \/ RunSend \/ RunRecv
  BY <1>2, DropClientsStep, RegisterStep, WriteStep, SendDoneStep, ReceiveStep,
     EndStep DEF RunSend, RunRecv, WriteError, ReceiveError
<1>3. CASE PeerNext \/ Reset
  <2>1. CASE PeerAnswer
    <3>1. PICK c \in taken : PeerSend([id |-> id[c], of |-> c])
      BY <2>1 DEF PeerAnswer
    <3>2. c \in Calls /\ id[c] \in Ids /\ call[c] # "new"
      BY DEF IoInv, TypeOK, WireInv
    <3>3. [id |-> id[c], of |-> c] \in Frames
      BY <3>2 DEF Frames
    <3> QED BY <3>1, <3>2, <3>3, PeerSendStep
  <2>2. CASE PeerGarbage
    <3>1. [id |-> 0, of |-> "bad"] \in Frames
      BY IoAssumption DEF Frames, Ids
    <3> QED BY <2>2, <3>1, PeerSendStep DEF PeerGarbage
  <2> QED BY <1>3, <2>1, <2>2, PeerTakeStep, SocketStep DEF PeerNext
<1>4. CASE UNCHANGED ivars
  BY <1>4 DEF ivars, IoInv, TypeOK, CallInv, TaskInv, SenderHeldOnce, NoOrphan,
              WireInv, Routing
<1> QED BY <1>1, <1>2, <1>3, <1>4 DEF Next

(* The session keeps its invariant against every peer. *)
THEOREM SessionInvariant == Spec => []IoInv
BY InitIo, InductiveIo, PTL DEF Spec

(* Every variable of RpcClient::send and IoSession keeps its type; the     *)
(* queue never exceeds its capacity and ids stay in their width.           *)
THEOREM SessionTypes == Spec => []TypeOK
<1>1. IoInv => TypeOK
  BY DEF IoInv
<1> QED BY <1>1, SessionInvariant, PTL

(* No caller of RpcClient::send waits for an answer that nobody can give:  *)
(* its Sender is with the running task.                                    *)
THEOREM NobodyOrphaned == Spec => []NoOrphan
<1>1. IoInv => NoOrphan
  BY DEF IoInv
<1> QED BY <1>1, SessionInvariant, PTL

(* A Sender is in the queue or in the map, not in both and not twice, and  *)
(* only until it is used.                                                  *)
THEOREM SendersHeldOnce == Spec => []SenderHeldOnce
<1>1. IoInv => SenderHeldOnce
  BY DEF IoInv
<1> QED BY <1>1, SessionInvariant, PTL

(* run_recv hands an answer to a call with the id of the request it        *)
(* answers, whatever the peer repeats or reorders.                         *)
THEOREM AnswersRouted == Spec => []Routing
<1>1. IoInv => Routing
  BY DEF IoInv
<1> QED BY <1>1, SessionInvariant, PTL

(* An answer or an error that a caller was given is never replaced, by a   *)
(* repeated answer or by the end of the task.                              *)
THEOREM AnswersFinal == Spec => AnswerIsFinal
<1> DEFINE Final == \A c \in Calls : slot[c] \notin {"none", "empty"} => slot'[c] = slot[c]
<1>1. ASSUME IoInv, [Next]_ivars PROVE Final
  <2> USE <1>1, MarkerFact DEF IoInv, TypeOK
  <2>1. ASSUME NEW c \in Calls, CallerNext(c) PROVE Final
    BY <2>1 DEF CallerNext, Call, Enqueue, SendError, Return, Cancel, CallInv
  <2>2. ASSUME End PROVE Final
    <3>1. \A c \in Registered \cup ToSet(queue) : slot[c] = "empty"
      BY DEF Registered, SenderHeldOnce
    <3> QED BY <2>2, <3>1 DEF End, Closed
  <2>3. CASE Register
    <3>1. /\ Head(queue) \in Calls
          /\ slot' = Closed({map[id[Head(queue)]]} \ {NoCall})
      BY <2>3, TailFact DEF Register
    <3>2. \A i \in Ids : map[i] # NoCall => slot[map[i]] = "empty"
      BY DEF SenderHeldOnce
    <3> QED BY <3>1, <3>2 DEF Closed
  <2>4. CASE Receive
    <3>1. Head(fromPeer) \in Frames
      BY <2>4, TailFact DEF Receive
    <3>2. \A i \in Ids : map[i] # NoCall => map[i] \in Calls /\ slot[map[i]] = "empty"
      BY DEF SenderHeldOnce
    <3> QED BY <2>4, <3>1, <3>2 DEF Receive, Deliver, Frames
  <2>5. CASE Write \/ SendDone \/ DropClients \/ PeerNext \/ Reset \/ UNCHANGED ivars
    BY <2>5 DEF Write, SendDone, DropClients, PeerNext, PeerTake, PeerAnswer,
                PeerGarbage, PeerSend, PeerClose, Reset, peerFrame, ivars
  <2> QED BY <2>1, <2>2, <2>3, <2>4, <2>5
          DEF Next, RunSend, RunRecv, WriteError, ReceiveError
<1>2. IoInv /\ [Next]_ivars => [Final]_ivars
  BY <1>1
<1> QED BY <1>2, SessionInvariant, PTL DEF Spec, AnswerIsFinal
-----------------------------------------------------------------------------
(* The server *)

(* What the server handles it has read.  Until it answers there is no      *)
(* answer anywhere, and the only one is on the wire or with its caller.    *)
NoneAnswered == \A c \in Calls : slot[c] \notin Calls
ServerInv ==
  /\ srv \in {"reading", "closing", "ended", "vanished"} \cup Calls
  /\ srv \in Calls => srv \in taken
  /\ srv \notin {"closing", "ended", "vanished"} => fromPeer = <<>> /\ NoneAnswered
  /\ fromPeer # <<>> => NoneAnswered /\ Len(fromPeer) = 1
  /\ OneAnswer

(* The states of the server are no calls. *)
LEMMA StateFact ==
  /\ "reading" \notin Calls /\ "closing" \notin Calls
  /\ "ended" \notin Calls /\ "vanished" \notin Calls
BY ServerAssumption

(* A connection that was just accepted. *)
LEMMA InitServer == ServerInit => IoInv /\ ServerInv
<1> SUFFICES ASSUME ServerInit PROVE ServerInv
  BY InitIo DEF ServerInit
<1> QED BY StateFact, MarkerFact DEF ServerInit, Init, ServerInv, NoneAnswered, OneAnswer

(* A step of the connection is a step of the session with its peer.        *)
LEMMA ServerRefines ==
  ASSUME ServerInv, [RpcNext]_svars
  PROVE  [Next]_ivars
<1>1. CASE ClientNext
  BY <1>1 DEF ClientNext, Next
<1>2. CASE ServerReceive \/ ServerClose
  BY <1>2 DEF ServerReceive, ServerClose, PeerNext, Next
<1>3. CASE ServerAnswer
  BY <1>3 DEF ServerAnswer, ServerInv, PeerAnswer, PeerNext, Next
<1>4. CASE ServerReceiveError \/ ServerAnswerError \/ Vanish \/ UNCHANGED svars
  BY <1>4 DEF ServerReceiveError, ServerAnswerError, Vanish, svars
<1> QED BY <1>1, <1>2, <1>3, <1>4 DEF RpcNext, ServerNext

(* A step that makes no answer, on the wire or for a caller, creates none. *)
LEMMA QuietStep ==
  ASSUME ServerInv, UNCHANGED <<srv, fromPeer>>, taken \subseteq taken',
         \A c \in Calls : slot'[c] \in Calls => slot'[c] = slot[c]
  PROVE  ServerInv'
BY DEF ServerInv, NoneAnswered, OneAnswer

(* Every step of the client and of the server preserves the invariant. *)
LEMMA ServerStep ==
  ASSUME IoInv, ServerInv, [RpcNext]_svars
  PROVE  ServerInv'
<1> USE MarkerFact, StateFact DEF IoInv, TypeOK
<1>1. CASE (\E c \in Calls : CallerNext(c)) /\ UNCHANGED srv
  <2>1. PICK c \in Calls : CallerNext(c)
    BY <1>1
  <2>2. /\ UNCHANGED <<fromPeer, taken>>
        /\ \A d \in Calls : slot'[d] = slot[d] \/ slot'[d] \in {"empty", "closed"}
    BY <2>1 DEF CallerNext, Call, Enqueue, SendError, Return, Cancel, wire
  <2> QED BY <1>1, <2>2, QuietStep
<1>2. CASE End /\ UNCHANGED srv
  <2>1. /\ UNCHANGED <<fromPeer, taken>>
        /\ \A d \in Calls : slot'[d] = slot[d] \/ slot'[d] = "closed"
    BY <1>2 DEF End, Closed, wire
  <2> QED BY <1>2, <2>1, QuietStep
<1>3. CASE Register /\ UNCHANGED srv
  <2>1. /\ UNCHANGED <<fromPeer, taken>>
        /\ \A d \in Calls : slot'[d] = slot[d] \/ slot'[d] = "closed"
    BY <1>3 DEF Register, Closed, wire
  <2> QED BY <1>3, <2>1, QuietStep
<1>4. CASE Receive /\ UNCHANGED srv
  <2>1. /\ fromPeer # <<>> /\ Len(fromPeer) = 1 /\ fromPeer' = <<>>
        /\ NoneAnswered /\ srv \in {"closing", "ended", "vanished"}
    BY <1>4 DEF Receive, ServerInv
  <2>2. \A c, d \in Calls : slot'[c] # slot[c] /\ slot'[d] # slot[d] => c = d
    BY <1>4 DEF Receive, Deliver
  <2>3. OneAnswer'
    BY <2>1, <2>2 DEF NoneAnswered, OneAnswer
  <2> QED BY <1>4, <2>1, <2>3 DEF ServerInv
<1>5. CASE (Write \/ SendDone \/ DropClients \/ Reset) /\ UNCHANGED srv
  BY <1>5, QuietStep DEF Write, SendDone, DropClients, Reset, peerFrame, wire
<1>6. CASE ServerReceive
  BY <1>6 DEF ServerReceive, PeerTake, peerFrame, ServerInv, NoneAnswered, OneAnswer
<1>7. CASE ServerAnswer
  <2>1. /\ fromPeer = <<>> /\ fromPeer' = Append(fromPeer, [id |-> id[srv], of |-> srv])
        /\ NoneAnswered /\ UNCHANGED slot /\ srv' = "closing"
    BY <1>7 DEF ServerAnswer, PeerSend, peerFrame, ServerInv
  <2>2. Len(fromPeer') = 1
    BY <2>1
  <2> QED BY <2>1, <2>2 DEF ServerInv, NoneAnswered, OneAnswer
<1>8. CASE ServerReceiveError \/ ServerAnswerError \/ ServerClose \/ Vanish
  BY <1>8 DEF ServerReceiveError, ServerAnswerError, ServerClose, Vanish, PeerClose,
              peerFrame, wire, ivars, ServerInv, NoneAnswered, OneAnswer
<1>9. CASE UNCHANGED svars
  BY <1>9 DEF svars, ivars, ServerInv, NoneAnswered, OneAnswer
<1> QED BY <1>1, <1>2, <1>3, <1>4, <1>5, <1>6, <1>7, <1>8, <1>9
        DEF RpcNext, ClientNext, ServerNext, RunSend, RunRecv, WriteError, ReceiveError

(* Both invariants hold of every connection to the example's server. *)
THEOREM ServerInvariant == RpcSpec => [](IoInv /\ ServerInv)
<1>1. IoInv /\ ServerInv /\ [RpcNext]_svars => (IoInv /\ ServerInv)'
  BY ServerStep, ServerRefines, InductiveIo
<1> QED BY <1>1, InitServer, PTL DEF RpcSpec

(* The task that RpcServer::new spawns is a peer in the sense of           *)
(* IoSession: whatever holds of the session against every peer holds here. *)
THEOREM ServerIsPeer == RpcSpec => ImplementsPeer
<1>1. ServerInit => Init
  BY DEF ServerInit
<1>2. IoInv /\ ServerInv /\ [RpcNext]_svars => [Next]_ivars
  BY ServerRefines
<1> QED BY <1>1, <1>2, ServerInvariant, PTL DEF RpcSpec, ImplementsPeer, Spec

(* Of all calls on one connection at most one gets an answer. *)
THEOREM AnswersOnce == RpcSpec => []OneAnswer
<1>1. ServerInv => OneAnswer
  BY DEF ServerInv
<1> QED BY <1>1, ServerInvariant, PTL
-----------------------------------------------------------------------------
(* The spin lock *)

(* The flag is set exactly while a guard exists, a free lock publishes     *)
(* every access made under it, and the holder has seen them all.           *)
LockInv ==
  /\ SL!TypeOK
  /\ lock <=> \E t \in Users : pc[t] = "guard"
  /\ ~lock => published
  /\ GuardedAccess

(* A new lock satisfies the invariant. *)
LEMMA InitLock == SL!Init => LockInv
BY DEF SL!Init, LockInv, SL!TypeOK, SL!GuardedAccess, GuardedAccess

(* Every step of every thread preserves it. *)
LEMMA LockStep == LockInv /\ [SL!Next]_SL!vars => LockInv'
<1> SUFFICES ASSUME LockInv, [SL!Next]_SL!vars PROVE LockInv'
  OBVIOUS
<1> USE DEF LockInv, SL!TypeOK, SL!GuardedAccess, GuardedAccess
<1>1. ASSUME NEW t \in Users, SL!Lock(t) PROVE LockInv'
  BY <1>1 DEF SL!Lock
<1>2. ASSUME NEW t \in Users, SL!Acquire(t) PROVE LockInv'
  BY <1>2 DEF SL!Acquire
<1>3. ASSUME NEW t \in Users, SL!Deref(t) PROVE LockInv'
  BY <1>3 DEF SL!Deref
<1>4. ASSUME NEW t \in Users, SL!Unlock(t) PROVE LockInv'
  BY <1>4 DEF SL!Unlock
<1>5. CASE UNCHANGED SL!vars
  BY <1>5 DEF SL!vars
<1> QED BY <1>1, <1>2, <1>3, <1>4, <1>5 DEF SL!Next

(* For every set of threads: at most one LockGuard exists, and accesses    *)
(* through successive guards are ordered by the Release store in its drop  *)
(* and the Acquire exchange in lock().                                     *)
THEOREM LockCorrect == SL!Spec => []SL!GuardedAccess
<1>1. LockInv => SL!GuardedAccess
  BY DEF LockInv, GuardedAccess
<1> QED BY <1>1, InitLock, LockStep, PTL DEF SL!Spec
-----------------------------------------------------------------------------
(* The manager *)

(* A user that holds a reference into the map, or a client that the map    *)
(* has given up, holds the guard; Connector has its client until the map   *)
(* takes it; and the queue keeps its sender while anyone has a client.     *)
HandleInv ==
  /\ op \in [Users -> {"new", "locked", "found", "missed", "got", "replaced", "inserted",
                       "dropped"}]
  /\ handles \subseteq Users
  /\ \A u \in Users : op[u] \in {"found", "replaced"} => pc[u] = "guard"
  /\ \A u \in Users : op[u] = "found" => cached = "this"
  /\ op[Connector] \in {"new", "locked"} => Connector \in handles
  /\ handles # {} \/ cached = "this" => clients

ManagerInv == IoInv /\ ServerInv /\ LockInv /\ HandleInv

(* A new manager, and a client that has just connected. *)
LEMMA InitManager == ManagerInit => ManagerInv
<1> SUFFICES ASSUME ManagerInit PROVE ManagerInv
  OBVIOUS
<1>1. IoInv /\ ServerInv /\ LockInv
  BY InitServer, InitLock DEF ManagerInit
<1>2. clients
  BY DEF ManagerInit, ServerInit, Init
<1>3. HandleInv
  BY <1>2 DEF ManagerInit, HandleInv, Users, Inserters
<1> QED BY <1>1, <1>3 DEF ManagerInv

(* What a user does with the manager, as the lock sees it. *)
LEMMA ManagerLocks ==
  ASSUME [ManagerNext]_mvars
  PROVE  [SL!Next]_SL!vars
<1>1. ASSUME NEW u \in Users, LockStart(u) \/ UserNext(u) \/ DropHandle(u)
      PROVE  [SL!Next]_SL!vars
  <2>1. CASE LockStart(u) \/ LockAcquire(u) \/ LockRelease(u)
    BY <2>1 DEF LockStart, LockAcquire, LockRelease, SL!Next
  <2>2. CASE GetLook(u) \/ GetClone(u) \/ InsertPut(u)
    BY <2>2 DEF GetLook, GetClone, InsertPut, SL!Next
  <2>3. CASE DropReplaced(u) \/ DropHandle(u)
    BY <2>3 DEF DropReplaced, DropHandle, DropClient, SL!vars
  <2> QED BY <1>1, <2>1, <2>2, <2>3 DEF UserNext
<1>2. CASE UNCHANGED mgr
  BY <1>2 DEF mgr, SL!vars
<1> QED BY <1>1, <1>2 DEF ManagerNext, CallNext, mvars

(* A client that a user gives up is one of the session's clients. *)
LEMMA DropRefines ==
  ASSUME NEW u \in Users, DropClient(u)
  PROVE  [RpcNext]_svars
<1>1. CASE handles = {u} /\ cached # "this"
  BY <1>1 DEF DropClient, ClientNext, RpcNext
<1>2. CASE ~(handles = {u} /\ cached # "this")
  BY <1>2 DEF DropClient, svars
<1> QED BY <1>1, <1>2

(* A step of the manager is a step of the connection, or none. *)
LEMMA ManagerRefines ==
  ASSUME [ManagerNext]_mvars
  PROVE  [RpcNext]_svars
<1>1. ASSUME NEW u \in Users, LockStart(u) \/ UserNext(u) \/ DropHandle(u)
      PROVE  [RpcNext]_svars
  <2>1. CASE \/ LockStart(u) \/ LockAcquire(u) \/ LockRelease(u)
             \/ GetLook(u) \/ GetClone(u) \/ InsertPut(u)
    BY <2>1 DEF LockStart, LockAcquire, LockRelease, GetLook, GetClone, InsertPut
  <2>2. CASE DropReplaced(u) \/ DropHandle(u)
    BY <2>2, DropRefines DEF DropReplaced, DropHandle
  <2> QED BY <1>1, <2>1, <2>2 DEF UserNext
<1>2. ASSUME NEW c \in Calls, CallNext(c) PROVE [RpcNext]_svars
  BY <1>2 DEF CallNext, CallerNext, ClientNext, RpcNext
<1>3. CASE ConnectionNext
  BY <1>3 DEF ConnectionNext, SendNext, CallerNext, ClientNext, RpcNext
<1>4. CASE UNCHANGED mvars
  BY <1>4 DEF mvars
<1> QED BY <1>1, <1>2, <1>3, <1>4 DEF ManagerNext

(* The connection keeps its last client as long as the manager does not    *)
(* drop it.                                                                *)
LEMMA ClientsKept ==
  /\ \A c \in Calls : CallNext(c) => clients' = clients
  /\ ConnectionNext => clients' = clients
<1> USE DEF callVars, wire, peerFrame, ivars
<1>1. \A c \in Calls : CallNext(c) => clients' = clients
  BY DEF CallNext, Call
<1>2. CASE ServerNext \/ Vanish
  BY <1>2 DEF ServerNext, Vanish, ServerReceive, ServerReceiveError, ServerAnswer,
       ServerAnswerError, ServerClose, PeerTake, PeerSend, PeerClose
<1>3. CASE RunSend \/ RunRecv \/ Reset
  BY <1>3 DEF RunSend, RunRecv, Reset, Register, Write, WriteError, SendDone, Receive,
       ReceiveError, End
<1>4. CASE \E c \in Calls : SendNext(c) \/ Cancel(c)
  BY <1>4 DEF SendNext, Cancel, Enqueue, SendError, Return
<1> QED BY <1>1, <1>2, <1>3, <1>4 DEF ConnectionNext

(* A user gives up a client: the senders go with the last one. *)
LEMMA DropStep ==
  ASSUME ManagerInv, NEW u \in Users, NEW o \in {"inserted", "dropped"},
         DropClient(u), Goto(u, o)
  PROVE  HandleInv'
<1>1. /\ handles' = handles \ {u} /\ UNCHANGED <<pc, cached>>
      /\ op' = [op EXCEPT ![u] = o]
      /\ handles' # {} \/ cached' = "this" => clients'
  BY DEF DropClient, Goto, ManagerInv, HandleInv, ivars
<1> QED BY <1>1, ManagerAssumption DEF ManagerInv, HandleInv, Users, Inserters

(* Every step of a user or of the connection preserves the invariant. *)
LEMMA HandleStep ==
  ASSUME ManagerInv, [ManagerNext]_mvars
  PROVE  HandleInv'
<1>1. Connector \in Users /\ Connector \notin Calls
  BY ManagerAssumption DEF Users, Inserters
<1>2. ASSUME NEW u \in Users, LockStart(u) PROVE HandleInv'
  BY <1>1, <1>2 DEF LockStart, Goto, SL!Lock, svars, ivars, ManagerInv, HandleInv
<1>3. ASSUME NEW u \in Users, LockAcquire(u) \/ LockRelease(u) PROVE HandleInv'
  BY <1>1, <1>3 DEF LockAcquire, LockRelease, SL!Acquire, SL!Unlock, svars, ivars,
                    ManagerInv, HandleInv, LockInv, SL!TypeOK
<1>4. ASSUME NEW c \in Calls, GetLook(c) \/ GetClone(c) PROVE HandleInv'
  <2>1. c \in Users /\ c # Connector
    BY <1>1 DEF Users
  <2> QED BY <1>1, <1>4, <2>1 DEF GetLook, GetClone, Goto, SL!Deref, svars, ivars,
                                  ManagerInv, HandleInv
<1>5. ASSUME NEW u \in Inserters, InsertPut(u) PROVE HandleInv'
  <2>1. u \in Users /\ pc[u] = "guard" /\ op[u] = "locked" /\ UNCHANGED <<pc, clients>>
    BY <1>5 DEF InsertPut, SL!Deref, Users, svars, ivars
  <2>2. \A v \in Users : v # u => op[v] \notin {"found", "replaced"}
    BY <2>1 DEF ManagerInv, HandleInv, LockInv, GuardedAccess, SL!GuardedAccess
  <2>3. /\ cached' = IF u = Connector THEN "this" ELSE "other"
        /\ handles' = (handles \ {u}) \cup (IF cached = "this" THEN {u} ELSE {})
        /\ op' = [op EXCEPT ![u] = IF cached = "this" THEN "replaced" ELSE "inserted"]
    BY <1>5 DEF InsertPut, Goto
  <2>4. clients \/ (handles = {} /\ cached # "this" /\ u # Connector)
    BY <2>1 DEF ManagerInv, HandleInv
  <2> QED BY <1>1, <2>1, <2>2, <2>3, <2>4 DEF ManagerInv, HandleInv
<1>6. ASSUME NEW u \in Users, DropReplaced(u) \/ DropHandle(u) PROVE HandleInv'
  BY <1>6, DropStep DEF DropReplaced, DropHandle
<1>7. ASSUME NEW c \in Calls, CallNext(c) PROVE HandleInv'
  BY <1>7, ClientsKept DEF CallNext, mgr, ManagerInv, HandleInv
<1>8. CASE ConnectionNext /\ UNCHANGED mgr
  BY <1>8, ClientsKept DEF mgr, ManagerInv, HandleInv
<1>9. CASE UNCHANGED mvars
  BY <1>9 DEF mvars, svars, ivars, mgr, ManagerInv, HandleInv
<1> QED BY <1>2, <1>3, <1>4, <1>5, <1>6, <1>7, <1>8, <1>9 DEF ManagerNext, UserNext

(* The manager, the lock, the connection and the server keep their         *)
(* invariants together.                                                    *)
THEOREM ManagerInvariant == ManagerSpec => []ManagerInv
<1>1. ManagerInv /\ [ManagerNext]_mvars => ManagerInv'
  <2> SUFFICES ASSUME ManagerInv, [ManagerNext]_mvars PROVE ManagerInv'
    OBVIOUS
  <2>1. [RpcNext]_svars /\ [SL!Next]_SL!vars
    BY ManagerRefines, ManagerLocks
  <2>2. IoInv' /\ ServerInv'
    BY <2>1, ServerStep, ServerRefines, InductiveIo DEF ManagerInv
  <2>3. LockInv'
    BY <2>1, LockStep DEF ManagerInv
  <2> QED BY <2>2, <2>3, HandleStep DEF ManagerInv
<1> QED BY <1>1, InitManager, PTL DEF ManagerSpec

(* RpcManager::insert and get: the map is touched by one thread at a time, *)
(* after everything the guards before it wrote.                            *)
THEOREM MapIsGuarded == ManagerSpec => []GuardedAccess
<1>1. ManagerInv => GuardedAccess
  BY DEF ManagerInv, LockInv
<1> QED BY <1>1, ManagerInvariant, PTL

(* RpcManager::get: the client it clones is the map's, and its queue has   *)
(* a sender, whatever inserts and drops the other threads do.              *)
THEOREM CloneIsLive == ManagerSpec => []FoundIsLive
<1>1. ManagerInv => FoundIsLive
  BY DEF ManagerInv, HandleInv, FoundIsLive, Users
<1> QED BY <1>1, ManagerInvariant, PTL

(* A connection whose clients the manager shares is still a session        *)
(* against a peer of IoSession: what is proved of those holds of it.       *)
THEOREM ManagerIsPeer == ManagerSpec => ImplementsPeer
<1>1. ManagerInit => Init
  BY DEF ManagerInit, ServerInit
<1>2. ManagerInv /\ [ManagerNext]_mvars => [Next]_ivars
  BY ManagerRefines, ServerRefines DEF ManagerInv
<1> QED BY <1>1, <1>2, ManagerInvariant, PTL DEF ManagerSpec, ImplementsPeer, Spec

(* Of the callers that share a connection through the manager at most one  *)
(* gets an answer.                                                         *)
THEOREM SharedAnswersOnce == ManagerSpec => []OneAnswer
<1>1. ManagerInv => OneAnswer
  BY DEF ManagerInv, ServerInv
<1> QED BY <1>1, ManagerInvariant, PTL
=============================================================================
