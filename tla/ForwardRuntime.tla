--------------------------- MODULE ForwardRuntime ---------------------------
(***************************************************************************)
(* The forwarding runtime of examples/rpc/practice.rs: a call walks the    *)
(* steps of its ForwardPlan, changing its location at an Rpc step and      *)
(* hopping to the thread of a LocalExecutor at a Thread step, and runs its *)
(* handler at the end of the plan.  The thread that hops waits until the   *)
(* result comes back, so a call holds every executor it has entered.       *)
(*                                                                         *)
(* A panic (of `expect`, of an unknown target or of the handler) unwinds   *)
(* the call: nothing catches it on an executor, so that thread ends, and   *)
(* dropping its queue makes the calls waiting there panic in turn.         *)
(***************************************************************************)
EXTENDS Integers, Sequences, SequencesExt, FiniteSets, FiniteSetsExt

CONSTANTS Calls,         \* the calls made through a PlayerProxy
          AsyncCalls,    \* those made with execute_async, as update_score
          Threads,       \* Registry::threads
          Sites,         \* Registry::rpc_sites
          Plan,          \* Plan[c]: the steps of c's ForwardPlan
          Delta,         \* Delta[c]: what c's handler adds to the score; fetch_profile adds 0
          NoCall, Stop,  \* no call; ThreadCommand::Shutdown
          InitialScore, MinScore, MaxScore,  \* the player's score and the range of i32
          Overflow       \* "panic" (debug build) or "wrap" (release build)

Locations == {[kind |-> "Client", name |-> "-"]}
  \cup [kind : {"Rpc"}, name : Sites] \cup [kind : {"Thread"}, name : Threads]

(* enum Step: the names are free, and need not be registered *)
StepNames == UNION {{Plan[c][i].name : i \in DOMAIN Plan[c]} : c \in Calls}
PlanSteps == [kind : {"Rpc", "Thread"}, name : StepNames]

ASSUME ForwardAssumption ==
  /\ IsFiniteSet(Calls) /\ AsyncCalls \subseteq Calls
  /\ NoCall \notin Calls /\ Stop \notin Calls
  /\ \A c \in Calls : Plan[c] \in Seq(PlanSteps) /\ Delta[c] \in Int
  /\ {InitialScore, MinScore, MaxScore} \subseteq Int
  /\ MinScore <= InitialScore /\ InitialScore <= MaxScore
  /\ Overflow \in {"panic", "wrap"}

VARIABLES
  phase,      \* phase[c]: what the call is doing
  idx,        \* idx[c]: the plan index of exec_sync_cursor / exec_async_cursor
  loc,        \* loc[c]: ForwardRuntime::location of the innermost runtime
  stack,      \* stack[c]: the executors c has entered, innermost last
  abandoned,  \* the async calls whose future was dropped
  queue,      \* queue[t]: the mpsc channel of executor t
  running,    \* running[t]: the call whose job occupies thread t
  alive,      \* the executors whose thread has not ended
  called,     \* Registry::shutdown has been called (once, a bound)
  stopping,   \* the executors it has yet to send Shutdown
  score,      \* PlayerOpsImpl::store, one player's score
  poisoned,   \* the Mutex of the store is poisoned
  ran         \* ran[c]: how often c's handler took effect

walk == <<idx, loc, stack>>
pool == <<queue, running, alive>>
halt == <<called, stopping>>
service == <<score, poisoned, ran>>
vars == <<phase, walk, abandoned, pool, halt, service>>

Finals == {"Ok", "panic", "cancelled"}

TypeOK ==
  /\ phase \in [Calls -> {"new", "cursor", "queued", "handler", "returning", "unwinding"} \cup Finals]
  /\ idx \in [Calls -> Nat] /\ \A c \in Calls : idx[c] \in 1 .. Len(Plan[c]) + 1
  /\ loc \in [Calls -> Locations]
  /\ stack \in [Calls -> Seq(Threads)]
  /\ abandoned \subseteq AsyncCalls
  /\ queue \in [Threads -> Seq(Calls \cup {Stop})]
  /\ running \in [Threads -> Calls \cup {NoCall}]
  /\ alive \subseteq Threads
  /\ called \in BOOLEAN
  /\ stopping \subseteq Threads
  /\ score \in MinScore .. MaxScore
  /\ poisoned \in BOOLEAN
  /\ ran \in [Calls -> Nat]

Client == [kind |-> "Client", name |-> "-"]

Init ==
  /\ phase = [c \in Calls |-> "new"]
  /\ idx = [c \in Calls |-> 1]
  /\ loc = [c \in Calls |-> Client]
  /\ stack = [c \in Calls |-> <<>>]
  /\ abandoned = {}
  /\ queue = [t \in Threads |-> <<>>]
  /\ running = [t \in Threads |-> NoCall]
  /\ alive = Threads
  /\ called = FALSE
  /\ stopping = {}
  /\ score = InitialScore
  /\ poisoned = FALSE
  /\ ran = [c \in Calls |-> 0]

-----------------------------------------------------------------------------
Enter(c, p) == phase' = [phase EXCEPT ![c] = p]

(* execute_sync, execute_async: the cursor starts at the client *)
Start(c) ==
  /\ phase[c] = "new"
  /\ Enter(c, "cursor")
  /\ UNCHANGED <<walk, abandoned, pool, halt, service>>

AtStep(c, kind) ==
  /\ phase[c] = "cursor" /\ idx[c] <= Len(Plan[c])
  /\ Plan[c][idx[c]].kind = kind

Forward(c) == idx' = [idx EXCEPT ![c] = @ + 1]

(* Fault: a thread is recognised from everywhere inside its job. *)
Here_nested(c) ==
  \/ loc[c] = Plan[c][idx[c]]
  \/ Plan[c][idx[c]].kind = "Thread" /\ Plan[c][idx[c]].name \in ToSet(stack[c])
(* the step is where the runtime already is *)
Here(c) == loc[c] = Plan[c][idx[c]]

StepHere(c) ==
  /\ AtStep(c, "Rpc") \/ AtStep(c, "Thread")
  /\ Here(c)
  /\ Forward(c)
  /\ UNCHANGED <<phase, loc, stack, abandoned, pool, halt, service>>

(* clone_for_rpc: a runtime located at a known site; panics on another *)
StepRpc(c) ==
  /\ AtStep(c, "Rpc") /\ ~Here(c)
  /\ \/ /\ Plan[c][idx[c]].name \in Sites
        /\ loc' = [loc EXCEPT ![c] = Plan[c][idx[c]]]
        /\ Forward(c)
        /\ UNCHANGED phase
     \/ /\ Plan[c][idx[c]].name \notin Sites
        /\ Enter(c, "unwinding")
        /\ UNCHANGED <<idx, loc>>
  /\ UNCHANGED <<stack, abandoned, pool, halt, service>>

(* LocalExecutor::execute_sync / execute_async: send the job and wait; an  *)
(* unregistered executor or one whose thread has ended makes `expect` panic *)
StepThread(c) ==
  /\ AtStep(c, "Thread") /\ ~Here(c)
  /\ LET t == Plan[c][idx[c]].name
     IN  \/ /\ t \in alive
            /\ queue' = [queue EXCEPT ![t] = Append(@, c)]
            /\ Forward(c)
            /\ Enter(c, "queued")
         \/ /\ t \notin alive
            /\ Enter(c, "unwinding")
            /\ UNCHANGED <<queue, idx>>
  /\ UNCHANGED <<loc, stack, abandoned, running, alive, halt, service>>

-----------------------------------------------------------------------------
(* The executor thread *)

(* Fault: the job gets a thread of its own. *)
TakeJob_spawn(t) ==
  /\ t \in alive
  /\ queue[t] # <<>> /\ Head(queue[t]) # Stop
  /\ LET c == Head(queue[t])
     IN  /\ running' = [running EXCEPT ![t] = c]
         /\ stack' = [stack EXCEPT ![c] = Append(@, t)]
         /\ loc' = [loc EXCEPT ![c] = [kind |-> "Thread", name |-> t]]
         /\ Enter(c, "cursor")
  /\ queue' = [queue EXCEPT ![t] = Tail(@)]
  /\ UNCHANGED <<idx, abandoned, alive, halt, service>>
(* the loop of the thread takes the next command when its job is done *)
TakeJob(t) ==
  /\ t \in alive /\ running[t] = NoCall
  /\ queue[t] # <<>> /\ Head(queue[t]) # Stop
  /\ LET c == Head(queue[t])
     IN  /\ running' = [running EXCEPT ![t] = c]
         /\ stack' = [stack EXCEPT ![c] = Append(@, t)]
         /\ loc' = [loc EXCEPT ![c] = [kind |-> "Thread", name |-> t]]
         /\ Enter(c, "cursor")
  /\ queue' = [queue EXCEPT ![t] = Tail(@)]
  /\ UNCHANGED <<idx, abandoned, alive, halt, service>>

(* Fault: the queued jobs are kept, and their callers told nothing. *)
Ends_keepsQueue(t, p) ==
  /\ alive' = alive \ {t}
  /\ running' = [running EXCEPT ![t] = NoCall]
  /\ phase' = p
  /\ UNCHANGED queue

(* The thread ends and drops its queue: whoever waits for a job in it gets *)
(* no result, and panics.  p is the phase of every call otherwise.         *)
Ends(t, p) ==
  /\ alive' = alive \ {t}
  /\ running' = [running EXCEPT ![t] = NoCall]
  /\ phase' = [c \in Calls |-> IF c \in ToSet(queue[t]) THEN "unwinding" ELSE p[c]]
  /\ queue' = [queue EXCEPT ![t] = <<>>]

TakeStop(t) ==
  /\ t \in alive /\ running[t] = NoCall
  /\ queue[t] # <<>> /\ Head(queue[t]) = Stop
  /\ Ends(t, phase)
  /\ UNCHANGED <<walk, abandoned, halt, service>>

(* Registry::shutdown, one executor after the other in any order *)
Shutdown ==
  /\ ~called
  /\ called' = TRUE
  /\ stopping' = Threads
  /\ UNCHANGED <<phase, walk, abandoned, pool, service>>

ShutdownSend(t) ==
  /\ t \in stopping
  /\ stopping' = stopping \ {t}
  /\ queue' = IF t \in alive THEN [queue EXCEPT ![t] = Append(@, Stop)] ELSE queue
  /\ UNCHANGED <<phase, walk, abandoned, running, alive, called, service>>

-----------------------------------------------------------------------------
(* The end of the plan *)

(* Fault: the handler runs when the last step is reached, not passed. *)
Execute_early(c) ==
  /\ phase[c] = "cursor" /\ idx[c] >= Len(Plan[c])
  /\ Enter(c, "handler")
  /\ UNCHANGED <<walk, abandoned, pool, halt, service>>
(* the handler starts; update_score_async sleeps before it takes the lock *)
Execute(c) ==
  /\ phase[c] = "cursor" /\ idx[c] > Len(Plan[c])
  /\ Enter(c, "handler")
  /\ UNCHANGED <<walk, abandoned, pool, halt, service>>

Wrapped(x) == MinScore + ((x - MinScore) % (MaxScore - MinScore + 1))

(* Fault: the score is written from a value read before the sleep. *)
Apply_stale(c) ==
  /\ phase[c] = "handler" /\ ~poisoned
  /\ score' = Wrapped(InitialScore + Delta[c])
  /\ ran' = [ran EXCEPT ![c] = @ + 1]
  /\ Enter(c, "returning")
  /\ UNCHANGED <<walk, abandoned, pool, halt, poisoned>>
(* fetch_profile reads and update_score_async updates the store under its  *)
(* Mutex                                                                   *)
Apply(c) ==
  /\ phase[c] = "handler" /\ ~poisoned
  /\ \/ score + Delta[c] \in MinScore .. MaxScore
     \/ Overflow = "wrap"
  /\ score' = Wrapped(score + Delta[c])
  /\ ran' = [ran EXCEPT ![c] = @ + 1]
  /\ Enter(c, "returning")
  /\ UNCHANGED <<walk, abandoned, pool, halt, poisoned>>

(* the lock is poisoned already, or the checked addition overflows under it *)
ApplyPanic(c) ==
  /\ phase[c] = "handler"
  /\ \/ poisoned
     \/ Overflow = "panic" /\ score + Delta[c] \notin MinScore .. MaxScore
  /\ poisoned' = TRUE
  /\ Enter(c, "unwinding")
  /\ UNCHANGED <<walk, abandoned, pool, halt, score, ran>>

(* Fault: the job drops the result channel instead of using it. *)
Leave_silent(c) ==
  /\ phase[c] = "returning"
  /\ stack[c] # <<>>
  /\ running' = [running EXCEPT ![Last(stack[c])] = NoCall]
  /\ stack' = [stack EXCEPT ![c] = Front(@)]
  /\ Enter(c, "unwinding")
  /\ UNCHANGED <<idx, loc, abandoned, queue, alive, halt, service>>
(* a job sends its outcome to the thread waiting for it and is done *)
Leave(c) ==
  /\ phase[c] = "returning"
  /\ stack[c] # <<>>
  /\ running' = [running EXCEPT ![Last(stack[c])] = NoCall]
  /\ stack' = [stack EXCEPT ![c] = Front(@)]
  /\ UNCHANGED <<phase, idx, loc, abandoned, queue, alive, halt, service>>

(* a panic ends the thread it unwinds, and goes on where the result is awaited *)
Unwind(c) ==
  /\ phase[c] = "unwinding"
  /\ stack[c] # <<>>
  /\ Ends(Last(stack[c]), phase)
  /\ stack' = [stack EXCEPT ![c] = Front(@)]
  /\ UNCHANGED <<idx, loc, abandoned, halt, service>>

(* the outcome reaches the caller, if it still waits *)
Finish(c) ==
  /\ phase[c] \in {"returning", "unwinding"} /\ stack[c] = <<>>
  /\ Enter(c, IF c \in abandoned THEN "cancelled"
              ELSE IF phase[c] = "returning" THEN "Ok" ELSE "panic")
  /\ UNCHANGED <<walk, abandoned, pool, halt, service>>

(* The caller drops the future of an async call while it waits: a job that *)
(* was sent is carried out all the same, a handler of its own is not.      *)
Cancel(c) ==
  /\ c \in AsyncCalls \ abandoned
  /\ \/ /\ phase[c] \in {"queued", "cursor", "handler", "returning", "unwinding"}
        /\ stack[c] # <<>> \/ phase[c] = "queued"
        /\ UNCHANGED phase
     \/ /\ phase[c] = "handler" /\ stack[c] = <<>>
        /\ Enter(c, "cancelled")
  /\ abandoned' = abandoned \cup {c}
  /\ UNCHANGED <<walk, pool, halt, service>>

Cursor(c) == Start(c) \/ StepHere(c) \/ StepRpc(c) \/ StepThread(c)
Outcome(c) == Execute(c) \/ Apply(c) \/ ApplyPanic(c) \/ Leave(c) \/ Unwind(c) \/ Finish(c)
Executor(t) == TakeJob(t) \/ TakeStop(t)

Next ==
  \/ \E c \in Calls : Cursor(c) \/ Outcome(c) \/ Cancel(c)
  \/ \E t \in Threads : Executor(t) \/ ShutdownSend(t)
  \/ Shutdown

(* Every thread goes on while it can; nobody has to call, to cancel or to  *)
(* shut the runtime down, but a shutdown that has begun is completed.      *)
Fairness ==
  /\ \A c \in Calls : WF_vars(phase[c] # "new" /\ (Cursor(c) \/ Outcome(c)))
  /\ \A t \in Threads : WF_vars(Executor(t)) /\ WF_vars(ShutdownSend(t))

Spec == Init /\ [][Next]_vars /\ Fairness
-----------------------------------------------------------------------------
(* Properties *)

ThreadSteps(c) == {i \in 1 .. Len(Plan[c]) : Plan[c][i].kind = "Thread"}

(* The handler runs where the plan leads: at the location of its last      *)
(* step, on the thread of its last Thread step (the caller's own if there  *)
(* is none), and only after every step has been walked.                    *)
AtDestination ==
  \A c \in Calls : phase[c] = "handler" =>
    /\ Plan[c] # <<>> => loc[c] = Last(Plan[c])
    /\ IF ThreadSteps(c) = {} THEN stack[c] = <<>>
       ELSE /\ stack[c] # <<>>
            /\ Last(stack[c]) = Plan[c][Max(ThreadSteps(c))].name

(* A thread carries out one job at a time, of a call that knows it is      *)
(* there: two calls never hold the same executor, nor one call twice.      *)
OneJobPerThread ==
  /\ \A t \in Threads, c \in Calls : running[t] = c <=> t \in ToSet(stack[c])
  /\ \A c \in Calls : IsInjective(stack[c])

(* A call that waits for a job is in the queue of one living executor, so  *)
(* that it is either carried out or dropped with the queue.                *)
NoLostJob ==
  \A c \in Calls : phase[c] = "queued" <=>
    \E t \in alive : c \in ToSet(queue[t])

(* A handler takes effect once if its call succeeds, and not at all if the *)
(* call panics, whichever executor died or was shut down on the way: a     *)
(* caller may repeat a call that panicked.                                 *)
ExactlyOnce ==
  \A c \in Calls :
    /\ ran[c] <= 1
    /\ phase[c] = "Ok" => ran[c] = 1
    /\ phase[c] = "panic" => ran[c] = 0

(* practice.rs, concurrent_forwarding_updates_are_serialized: the score is *)
(* the first one plus what the handlers that ran have added.               *)
Serialized ==
  score = Wrapped(InitialScore + MapThenSumSet(LAMBDA c : ran[c] * Delta[c], Calls))

(* Every call that was made ends, by a result or a panic, also when the    *)
(* runtime is shut down or an executor dies meanwhile.                     *)
EveryCallEnds == \A c \in Calls : phase[c] = "cursor" ~> phase[c] \in Finals

(* A plan that comes back to an executor it has left by way of an Rpc step *)
(* or another executor waits for itself: its handler never runs.           *)
Revisits(c) ==
  \E i, j \in ThreadSteps(c) : /\ i + 1 < j
                               /\ Plan[c][i] = Plan[c][j]
                               /\ \E k \in i .. j : Plan[c][k] # Plan[c][i]
RevisitNeverRuns == \A c \in Calls : Revisits(c) => ran[c] = 0

(* c is in, or waits behind, a circular wait: every call of the set waits  *)
(* for an executor that a call of the set occupies.                        *)
Blocked(c) ==
  \E S \in SUBSET Calls :
    /\ c \in S
    /\ \A d \in S : \E t \in alive : d \in ToSet(queue[t]) /\ running[t] \in S

(* Whatever the order in which plans enter the executors, the only reason  *)
(* for a call not to end is a circular wait: of a plan for itself, or of   *)
(* plans that enter two executors in opposite orders.                      *)
EndsOrCircular ==
  \A c \in Calls : phase[c] = "cursor" ~> phase[c] \in Finals \/ Blocked(c)
=============================================================================
