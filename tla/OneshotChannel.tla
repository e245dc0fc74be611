--------------------------- MODULE OneshotChannel ---------------------------
(***************************************************************************)
(* What conlock's one-shot channel promises its users, without flags,      *)
(* wakers or memory orderings: at most one value goes from the Sender to   *)
(* one of the threads that share the Receiver, nothing passes once the     *)
(* channel is closed, and the end that leaves last frees the channel.      *)
(***************************************************************************)
CONSTANTS Tx,        \* the thread that owns the Sender
          Receivers  \* the threads that share the Receiver

VARIABLES
  slot,    \* "empty", "full" (a value is on offer) or "drained"
  closed,  \* one of the ends has started to leave
  result,  \* result[t]: what the latest call of thread t returned
  gone,    \* the ends ("sender", "receiver") that have left
  live     \* the channel's memory is allocated

cvars == <<slot, closed, result, gone, live>>

Answer(t, outcome) == result' = [result EXCEPT ![t] = outcome]

ChannelInit ==
  /\ slot = "empty"
  /\ closed = FALSE
  /\ result = [t \in {Tx} \cup Receivers |-> "-"]
  /\ gone = {}
  /\ live = TRUE

(* Sender::send succeeds at most once, and only on an open channel. *)
Accept ==
  /\ slot = "empty" /\ ~closed /\ "sender" \notin gone
  /\ slot' = "full"
  /\ Answer(Tx, "Ok")
  /\ UNCHANGED <<closed, gone, live>>

(* It hands the value back once the receiver is leaving. *)
Refuse ==
  /\ slot = "empty" /\ closed /\ "sender" \notin gone
  /\ Answer(Tx, "Err")
  /\ UNCHANGED <<slot, closed, gone, live>>

(* One thread takes the value, on an open channel or a closed one. *)
Take(r) ==
  /\ slot = "full" /\ "receiver" \notin gone
  /\ slot' = "drained"
  /\ Answer(r, "Some")
  /\ UNCHANGED <<closed, gone, live>>

(* None: no value is on offer and none will ever be. *)
Nothing(r) ==
  /\ slot = "drained" \/ (slot = "empty" /\ closed)
  /\ "receiver" \notin gone
  /\ Answer(r, "None")
  /\ UNCHANGED <<slot, closed, gone, live>>

(* Poll::Pending: there may still be a value. *)
NotYet(r) ==
  /\ slot = "empty" /\ ~closed /\ "receiver" \notin gone
  /\ Answer(r, "Pending")
  /\ UNCHANGED <<slot, closed, gone, live>>

(* A leaving receiver destroys a value that nobody took. *)
Discard ==
  /\ slot = "full" /\ "receiver" \notin gone
  /\ slot' = "drained"
  /\ UNCHANGED <<closed, result, gone, live>>

Close ==
  /\ ~closed
  /\ closed' = TRUE
  /\ UNCHANGED <<slot, result, gone, live>>

(* An end leaves a closed channel, or closes it on leaving; the last one   *)
(* frees the memory, and a receiver leaves no value behind.                *)
Leave(end) ==
  /\ live /\ end \notin gone
  /\ end = "receiver" => slot # "full"
  /\ gone' = gone \cup {end}
  /\ closed' = TRUE
  /\ live' <=> gone = {}
  /\ UNCHANGED <<slot, result>>

ChannelNext ==
  \/ Accept \/ Refuse \/ Discard \/ Close
  \/ \E r \in Receivers : Take(r) \/ Nothing(r) \/ NotYet(r)
  \/ \E end \in {"sender", "receiver"} : Leave(end)

ChannelSpec == ChannelInit /\ [][ChannelNext]_cvars
=============================================================================
