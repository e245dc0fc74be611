----------------------------- MODULE IoSession -----------------------------
(***************************************************************************)
(* One RPC connection of examples/rpc: the callers of RpcClient::send      *)
(* (net.rs), the task that IoSession::run spawns (net/async_impl.rs) with  *)
(* its two halves run_send and run_recv, and the socket to the peer.       *)
(*                                                                         *)
(* Both halves run in one task (try_join!), so what happens between two    *)
(* awaits is one step.  The answer travels to the caller through a         *)
(* conlock one-shot channel, used here at the level of OneshotChannel: a   *)
(* Sender either delivers a value or is dropped, and then the channel is   *)
(* closed.  The peer is anything that speaks the protocol: it may answer   *)
(* late, out of order, twice, with a message that does not decode, or not  *)
(* at all; module RpcServer replaces it by the server of the example.      *)
(***************************************************************************)
EXTENDS Naturals, Sequences, SequencesExt, FiniteSets

CONSTANTS Calls,      \* the calls of RpcClient::send on this connection
          Oversized,  \* the calls whose payload does not fit a u32 length
          NoCall,     \* no call
          IdModulus,  \* 2^32: message ids are u32 and wrap
          QueueCap,   \* 1024, the capacity of the mpsc queue
          WireCap     \* messages the socket buffers of one direction hold

ASSUME IoAssumption ==
  /\ Oversized \subseteq Calls
  /\ NoCall \notin Calls
  /\ Calls \cap {"none", "empty", "closed", "bad"} = {}
  /\ {IdModulus, QueueCap, WireCap} \subseteq Nat \ {0}

Ids == 0 .. IdModulus - 1

VARIABLES
  mid,       \* MESSAGE_ID, the next id get_mid hands out
  call,      \* call[c]: progress or outcome of RpcClient::send
  id,        \* id[c]: the id of c's message
  slot,      \* slot[c]: c's one-shot channel; once answered, the call the answer is for
  clients,   \* an RpcClient handle is left
  queue,     \* the mpsc queue from the clients to run_send
  map,       \* IoSession::map: the call whose Sender is registered under an id
  writing,   \* the call whose message run_send is writing
  session,   \* the spawned task
  toPeer,    \* requests on their way to the peer
  taken,     \* the requests the peer has read
  fromPeer,  \* messages on their way back
  conn       \* what has happened to the socket

callVars == <<mid, call, id, clients>>
wire == <<toPeer, taken, fromPeer>>
ivars == <<mid, call, id, slot, clients, queue, map, writing, session, toPeer,
           taken, fromPeer, conn>>

Outcomes == {"Ok", "send_error", "remote_error", "cancelled"}
Frames == [id : Ids, of : Calls \cup {"bad"}]

TypeOK ==
  /\ mid \in Ids
  /\ call \in [Calls -> {"new", "sending", "waiting"} \cup Outcomes]
  /\ id \in [Calls -> Ids]
  /\ slot \in [Calls -> {"none", "empty", "closed"} \cup Calls]
  /\ clients \in BOOLEAN
  /\ queue \in Seq(Calls) /\ Len(queue) <= QueueCap
  /\ map \in [Ids -> Calls \cup {NoCall}]
  /\ writing \in Calls \cup {NoCall}
  /\ session \in {"running", "ended"}
  /\ toPeer \in Seq(Calls) /\ taken \subseteq Calls
  /\ fromPeer \in Seq(Frames)
  /\ conn \subseteq {"out_shut", "peer_closed", "reset"}

Init ==
  /\ mid = 1 % IdModulus
  /\ call = [c \in Calls |-> "new"]
  /\ id = [c \in Calls |-> 0]
  /\ slot = [c \in Calls |-> "none"]
  /\ clients = TRUE
  /\ queue = <<>>
  /\ map = [i \in Ids |-> NoCall]
  /\ writing = NoCall
  /\ session = "running"
  /\ toPeer = <<>> /\ taken = {} /\ fromPeer = <<>>
  /\ conn = {}

-----------------------------------------------------------------------------
(* RpcClient::send *)

(* get_mid: fetch_add on an AtomicU32 *)
NextId(m) == (m + 1) % IdModulus

(* the message gets its id and the one-shot channel is created *)
Call(c) ==
  /\ clients /\ call[c] = "new"
  /\ call' = [call EXCEPT ![c] = "sending"]
  /\ id' = [id EXCEPT ![c] = mid]
  /\ mid' = NextId(mid)
  /\ slot' = [slot EXCEPT ![c] = "empty"]
  /\ UNCHANGED <<clients, queue, map, writing, session, wire, conn>>

(* self.tx.send waits for room in the queue ... *)
Enqueue(c) ==
  /\ call[c] = "sending" /\ session = "running"
  /\ Len(queue) < QueueCap
  /\ queue' = Append(queue, c)
  /\ call' = [call EXCEPT ![c] = "waiting"]
  /\ UNCHANGED <<mid, id, slot, clients, map, writing, session, wire, conn>>

(* ... and fails once the task has dropped the receiving half *)
SendError(c) ==
  /\ call[c] = "sending" /\ session = "ended"
  /\ call' = [call EXCEPT ![c] = "send_error"]
  /\ slot' = [slot EXCEPT ![c] = "closed"]
  /\ UNCHANGED <<mid, id, clients, queue, map, writing, session, wire, conn>>

(* rx.await yields the answer, or None when the Sender was dropped *)
Return(c) ==
  /\ call[c] = "waiting" /\ slot[c] # "empty"
  /\ call' = [call EXCEPT ![c] = IF slot[c] = "closed" THEN "remote_error" ELSE "Ok"]
  /\ UNCHANGED <<mid, id, slot, clients, queue, map, writing, session, wire, conn>>

(* the caller drops the future of `send`, in a timeout or a select *)
Cancel(c) ==
  /\ call[c] \in {"sending", "waiting"}
  /\ call' = [call EXCEPT ![c] = "cancelled"]
  /\ slot' = [slot EXCEPT ![c] = IF call[c] = "sending" THEN "closed" ELSE @]
  /\ UNCHANGED <<mid, id, clients, queue, map, writing, session, wire, conn>>

(* the last handle is dropped; `send` borrows its client until it ends *)
DropClients ==
  /\ clients
  /\ \A c \in Calls : call[c] \notin {"sending", "waiting"}
  /\ clients' = FALSE
  /\ UNCHANGED <<mid, call, id, slot, queue, map, writing, session, wire, conn>>

-----------------------------------------------------------------------------
(* The spawned task *)

Registered == {c \in Calls : \E i \in Ids : map[i] = c}

(* dropping the Senders of a set of calls *)
Closed(S) == [c \in Calls |-> IF c \in S THEN "closed" ELSE slot[c]]

(* Fault: the messages that are still queued survive the task. *)
End_keepsQueue ==
  /\ session' = "ended"
  /\ map' = [i \in Ids |-> NoCall]
  /\ slot' = Closed(Registered)
  /\ writing' = NoCall
  /\ conn' = conn \cup {"out_shut"}
  /\ UNCHANGED <<callVars, queue, wire>>

(* An Err of either half makes try_join! drop both: the queue, the map and *)
(* the socket go, and with them every Sender they hold.                    *)
End ==
  /\ session' = "ended"
  /\ queue' = <<>>
  /\ map' = [i \in Ids |-> NoCall]
  /\ slot' = Closed(Registered \cup ToSet(queue))
  /\ writing' = NoCall
  /\ conn' = conn \cup {"out_shut"}
  /\ UNCHANGED <<callVars, wire>>

(* run_send: register the Sender, then start to write the message.  The    *)
(* HashMap drops a Sender that is registered under the same id.            *)
Register ==
  /\ session = "running" /\ writing = NoCall /\ queue # <<>>
  /\ LET c == Head(queue)
     IN  /\ writing' = c
         /\ map' = [map EXCEPT ![id[c]] = c]
         /\ slot' = Closed({map[id[c]]} \ {NoCall})
  /\ queue' = Tail(queue)
  /\ UNCHANGED <<callVars, session, wire, conn>>

(* send_mesage is through; what a closed peer is sent is lost *)
Write ==
  /\ session = "running" /\ writing \in Calls \ Oversized
  /\ "reset" \notin conn
  /\ \/ /\ "peer_closed" \notin conn /\ Len(toPeer) < WireCap
        /\ toPeer' = Append(toPeer, writing)
     \/ /\ "peer_closed" \in conn
        /\ UNCHANGED toPeer
  /\ writing' = NoCall
  /\ UNCHANGED <<callVars, slot, queue, map, session, taken, fromPeer, conn>>

(* send_mesage fails: the id is unregistered and run_send returns Err *)
WriteError ==
  /\ session = "running" /\ writing # NoCall
  /\ writing \in Oversized \/ conn \cap {"peer_closed", "reset"} # {}
  /\ End

(* run_send returns Ok when no client and no message is left; its half of  *)
(* the socket is shut, and run_recv goes on.                               *)
SendDone ==
  /\ session = "running" /\ ~clients
  /\ queue = <<>> /\ writing = NoCall /\ "out_shut" \notin conn
  /\ conn' = conn \cup {"out_shut"}
  /\ UNCHANGED <<callVars, slot, queue, map, writing, session, wire>>

(* handing the answer over fails when the caller is gone *)
Deliver(c, f) ==
  slot' = [slot EXCEPT ![c] = IF call[c] = "cancelled" THEN "closed" ELSE f.of]

(* Fault: the answer goes to whoever has been registered. *)
Receive_anyone ==
  /\ session = "running" /\ fromPeer # <<>> /\ Head(fromPeer).of # "bad"
  /\ \E i \in Ids :
       /\ map[i] # NoCall
       /\ map' = [map EXCEPT ![i] = NoCall]
       /\ Deliver(map[i], Head(fromPeer))
  /\ fromPeer' = Tail(fromPeer)
  /\ UNCHANGED <<callVars, queue, writing, session, toPeer, taken, conn>>

(* Fault: the Sender is looked up and left in the map. *)
Receive_keeps ==
  /\ session = "running" /\ fromPeer # <<>> /\ Head(fromPeer).of # "bad"
  /\ IF map[Head(fromPeer).id] = NoCall THEN UNCHANGED slot
     ELSE Deliver(map[Head(fromPeer).id], Head(fromPeer))
  /\ fromPeer' = Tail(fromPeer)
  /\ UNCHANGED <<callVars, queue, map, writing, session, toPeer, taken, conn>>

(* run_recv: the Sender under the id, if any, is taken out and used *)
Receive ==
  /\ session = "running" /\ fromPeer # <<>> /\ Head(fromPeer).of # "bad"
  /\ LET f == Head(fromPeer)
     IN  /\ map' = [map EXCEPT ![f.id] = NoCall]
         /\ IF map[f.id] = NoCall THEN UNCHANGED slot ELSE Deliver(map[f.id], f)
  /\ fromPeer' = Tail(fromPeer)
  /\ UNCHANGED <<callVars, queue, writing, session, toPeer, taken, conn>>

(* recv_message fails on a bad message type, at the end of the stream and  *)
(* on a broken connection, which may lose messages that had arrived        *)
ReceiveError ==
  /\ session = "running"
  /\ \/ fromPeer # <<>> /\ Head(fromPeer).of = "bad"
     \/ fromPeer = <<>> /\ "peer_closed" \in conn
     \/ "reset" \in conn
  /\ End

-----------------------------------------------------------------------------
(* The peer and the network *)

peerFrame == <<callVars, slot, queue, map, writing, session>>

PeerTake ==
  /\ toPeer # <<>> /\ "peer_closed" \notin conn
  /\ taken' = taken \cup {Head(toPeer)}
  /\ toPeer' = Tail(toPeer)
  /\ UNCHANGED <<peerFrame, fromPeer, conn>>

PeerSend(f) ==
  /\ conn \cap {"peer_closed", "reset"} = {}
  /\ Len(fromPeer) < WireCap
  /\ fromPeer' = Append(fromPeer, f)
  /\ UNCHANGED <<peerFrame, toPeer, taken, conn>>

PeerAnswer == \E c \in taken : PeerSend([id |-> id[c], of |-> c])
PeerGarbage == PeerSend([id |-> 0, of |-> "bad"])

PeerClose ==
  /\ "peer_closed" \notin conn
  /\ conn' = conn \cup {"peer_closed"}
  /\ UNCHANGED <<peerFrame, wire>>

Reset ==
  /\ "reset" \notin conn
  /\ conn' = conn \cup {"reset"}
  /\ UNCHANGED <<peerFrame, wire>>

CallerNext(c) == Call(c) \/ Enqueue(c) \/ SendError(c) \/ Return(c) \/ Cancel(c)
RunSend == Register \/ Write \/ WriteError \/ SendDone
RunRecv == Receive \/ ReceiveError
PeerNext == PeerTake \/ PeerAnswer \/ PeerGarbage \/ PeerClose

Next ==
  \/ \E c \in Calls : CallerNext(c)
  \/ DropClients \/ RunSend \/ RunRecv \/ PeerNext \/ Reset

Spec == Init /\ [][Next]_ivars
-----------------------------------------------------------------------------
(* Properties *)

(* A caller that still waits for its answer can get one or be told that    *)
(* there is none: its Sender is queued or registered under its own id, and *)
(* the task that holds it is running.                                      *)
NoOrphan ==
  \A c \in Calls : call[c] = "waiting" /\ slot[c] = "empty" =>
    session = "running" /\ (c \in ToSet(queue) \/ map[id[c]] = c)

(* A Sender is held in one place, and only while it is unused: a           *)
(* registered call is out of the queue, under its own id, and unanswered,  *)
(* so run_recv never uses a Sender twice.                                  *)
SenderHeldOnce ==
  /\ \A i \in Ids : map[i] # NoCall =>
       id[map[i]] = i /\ slot[map[i]] = "empty" /\ map[i] \notin ToSet(queue)
  /\ \A c \in ToSet(queue) : slot[c] = "empty"
  /\ IsInjective(queue)

(* However the peer orders or repeats its answers, the answer a caller     *)
(* receives is the peer's answer to a request with the caller's own id:    *)
(* to its own request, unless the ids wrapped and another call was given   *)
(* the same one.                                                           *)
Routing == \A c \in Calls : slot[c] \in Calls => id[slot[c]] = id[c]

(* What a caller is told is final: no late or repeated answer and no end   *)
(* of the task replaces an answer or an error.                             *)
AnswerIsFinal ==
  [][\A c \in Calls : slot[c] \notin {"none", "empty"} => slot'[c] = slot[c]]_ivars
=============================================================================
