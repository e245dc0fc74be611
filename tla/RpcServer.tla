----------------------------- MODULE RpcServer -----------------------------
(***************************************************************************)
(* A connection between the RpcClient and the RpcServer of examples/rpc:   *)
(* IoSession with the peer replaced by the task that RpcServer::new spawns *)
(* for every connection it accepts.  That task reads one message, answers  *)
(* it and returns, which closes the connection.                            *)
(***************************************************************************)
EXTENDS IoSession

ASSUME ServerAssumption == Calls \cap {"reading", "closing", "ended", "vanished"} = {}

VARIABLE srv  \* "reading", the request being handled, "closing", "ended" or "vanished"

svars == <<ivars, srv>>

ServerInit == Init /\ srv = "reading"

(* recv_message yields the first request *)
ServerReceive ==
  /\ srv = "reading"
  /\ PeerTake
  /\ srv' = Head(toPeer)

(* recv_message fails at the end of the stream or on a broken connection   *)
(* and `?` ends the task                                                   *)
ServerReceiveError ==
  /\ srv = "reading"
  /\ (toPeer = <<>> /\ "out_shut" \in conn) \/ "reset" \in conn
  /\ srv' = "closing"
  /\ UNCHANGED ivars

(* Fault: the task goes back to reading after its answer. *)
ServerAnswer_loop ==
  /\ srv \in Calls
  /\ PeerSend([id |-> id[srv], of |-> srv])
  /\ srv' = "reading"

(* Fault: the answer carries an id of its own. *)
ServerAnswer_newId ==
  /\ srv \in Calls
  /\ PeerSend([id |-> mid, of |-> srv])
  /\ srv' = "closing"

(* handle_message, then send_mesage with the id of the request *)
ServerAnswer ==
  /\ srv \in Calls
  /\ PeerSend([id |-> id[srv], of |-> srv])
  /\ srv' = "closing"

(* send_mesage fails on a broken connection or when the client has closed *)
ServerAnswerError ==
  /\ srv \in Calls
  /\ "reset" \in conn \/ session = "ended"
  /\ srv' = "closing"
  /\ UNCHANGED ivars

(* Fault: the halves of the socket outlive the task. *)
ServerClose_leak ==
  /\ srv = "closing"
  /\ srv' = "ended"
  /\ UNCHANGED ivars

(* the task is over, both halves of the socket are dropped *)
ServerClose ==
  /\ srv = "closing"
  /\ PeerClose
  /\ srv' = "ended"

(* The server's host disappears without a word: nothing arrives from it any *)
(* more, and neither side has a timeout or a heartbeat that would notice.  *)
Vanish ==
  /\ srv # "ended" /\ srv # "vanished"
  /\ srv' = "vanished"
  /\ UNCHANGED ivars

ServerNext ==
  \/ ServerReceive \/ ServerReceiveError \/ ServerAnswer \/ ServerAnswerError
  \/ ServerClose

ClientNext ==
  \/ \E c \in Calls : CallerNext(c)
  \/ DropClients \/ RunSend \/ RunRecv \/ Reset

RpcNext == (ClientNext /\ UNCHANGED srv) \/ ServerNext \/ Vanish

(* Both tasks are polled whenever they can go on, and so is a caller; a    *)
(* caller need not call, cancel or drop its client, nor the network fail.  *)
Fairness ==
  /\ WF_svars(RunSend /\ UNCHANGED srv)
  /\ WF_svars(RunRecv /\ UNCHANGED srv)
  /\ WF_svars(ServerNext)
  /\ \A c \in Calls : WF_svars((Enqueue(c) \/ SendError(c) \/ Return(c)) /\ UNCHANGED srv)

RpcSpec == ServerInit /\ [][RpcNext]_svars /\ Fairness
-----------------------------------------------------------------------------
(* Properties *)

(* RpcServer is one of the peers that IoSession is checked against, so     *)
(* what holds of IoSession holds of the connection.                        *)
ImplementsPeer == Spec

(* The server answers once per connection: of the calls that share it at   *)
(* most one succeeds, whichever request reaches the server first.          *)
OneAnswer == \A c, d \in Calls : slot[c] \in Calls /\ slot[d] \in Calls => c = d

(* Every call of RpcClient::send returns: with the answer, or with an      *)
(* error when the connection ended first, also when another call is the    *)
(* one the server answered or when the queue was full.  Only a server that *)
(* vanishes silently can keep a call waiting.                              *)
EveryCallReturns ==
  \A c \in Calls : call[c] \in {"sending", "waiting"}
                      ~> call[c] \in Outcomes \/ srv = "vanished"
=============================================================================
