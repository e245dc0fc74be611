------------------------------- MODULE Worker -------------------------------
(***************************************************************************)
(* A task worker of examples/rpc/worker.rs: the tokio task that            *)
(* Worker::new spawns, its bounded mpsc queue, the WorkerGuards through    *)
(* which users send it tasks, and the WorkerManager whose Vec owns it.     *)
(* The workers of a manager share nothing, so one of them is modelled.     *)
(*                                                                         *)
(* A task is polled under catch_unwind, but its future is dropped at the   *)
(* end of the loop body, outside of it: a panic of the destructor ends the *)
(* worker.                                                                 *)
(***************************************************************************)
EXTENDS Naturals, Sequences, SequencesExt

CONSTANTS Users,    \* the holders of a WorkerGuard
          Tasks,    \* the futures they send
          NoTask,   \* no task
          QueueCap  \* 1024, the capacity of the queue

ASSUME WorkerAssumption == NoTask \notin Tasks /\ QueueCap \in Nat \ {0}

VARIABLES
  owned,     \* the worker is in WorkerManager::workers
  user,      \* user[u]: what u does with the worker
  sending,   \* sending[u]: the task whose send_task u awaits
  task,      \* task[t]: progress or outcome of a task
  queue,     \* the mpsc queue
  current,   \* the task the worker polls
  worker,    \* the spawned task: "running", or why it ended
  aborting,  \* JoinHandle::abort was called
  accepted,  \* history: the tasks in the order the queue took them
  started,   \* history: the tasks in the order they were first polled
  reported   \* the tasks for which `task panic` was printed

wvars == <<owned, user, sending, task, queue, current, worker, aborting,
           accepted, started, reported>>

Finished == {"completed", "panicked"}

TypeOK ==
  /\ owned \in BOOLEAN /\ aborting \in BOOLEAN
  /\ user \in [Users -> {"new", "indexed", "guard", "gone", "panic"}]
  /\ sending \in [Users -> Tasks \cup {NoTask}]
  /\ task \in [Tasks -> {"new", "sending", "queued", "polled", "refused", "dropped"} \cup Finished]
  /\ queue \in Seq(Tasks) /\ Len(queue) <= QueueCap
  /\ current \in Tasks \cup {NoTask}
  /\ worker \in {"running", "idle_end", "aborted", "died"}
  /\ accepted \in Seq(Tasks) /\ started \in Seq(Tasks)
  /\ reported \subseteq Tasks

(* WorkerManager::new; each user asks for the worker once *)
Init ==
  /\ owned = TRUE
  /\ user = [u \in Users |-> "new"]
  /\ sending = [u \in Users |-> NoTask]
  /\ task = [t \in Tasks |-> "new"]
  /\ queue = <<>> /\ accepted = <<>> /\ started = <<>>
  /\ current = NoTask
  /\ worker = "running"
  /\ aborting = FALSE
  /\ reported = {}

queueVars == <<queue, current, worker, accepted, started, reported>>
-----------------------------------------------------------------------------
(* WorkerManager and WorkerGuard *)

(* WorkerManager::get: indexing panics once the Vec was cleared ... *)
Get(u) ==
  /\ user[u] = "new"
  /\ user' = [user EXCEPT ![u] = IF owned THEN "indexed" ELSE "panic"]
  /\ UNCHANGED <<owned, sending, task, queueVars, aborting>>

(* ... and Worker::shared clones the Sender through the reference *)
Shared(u) ==
  /\ user[u] = "indexed"
  /\ user' = [user EXCEPT ![u] = "guard"]
  /\ UNCHANGED <<owned, sending, task, queueVars, aborting>>

(* WorkerGuard::send_task waits for room in the queue ... *)
SendTask(u, t) ==
  /\ user[u] = "guard" /\ sending[u] = NoTask
  /\ task[t] = "new"
  /\ sending' = [sending EXCEPT ![u] = t]
  /\ task' = [task EXCEPT ![t] = "sending"]
  /\ UNCHANGED <<owned, user, queueVars, aborting>>

Accept(u) ==
  /\ sending[u] # NoTask
  /\ worker = "running" /\ Len(queue) < QueueCap
  /\ queue' = Append(queue, sending[u])
  /\ accepted' = Append(accepted, sending[u])
  /\ task' = [task EXCEPT ![sending[u]] = "queued"]
  /\ sending' = [sending EXCEPT ![u] = NoTask]
  /\ UNCHANGED <<owned, user, current, worker, started, reported, aborting>>

(* ... and hands the task back once the worker has ended *)
Refuse(u) ==
  /\ sending[u] # NoTask /\ worker # "running"
  /\ task' = [task EXCEPT ![sending[u]] = "refused"]
  /\ sending' = [sending EXCEPT ![u] = NoTask]
  /\ UNCHANGED <<owned, user, queueVars, aborting>>

(* the user drops the future of send_task, and the task with it *)
Cancel(u) ==
  /\ sending[u] # NoTask
  /\ task' = [task EXCEPT ![sending[u]] = "dropped"]
  /\ sending' = [sending EXCEPT ![u] = NoTask]
  /\ UNCHANGED <<owned, user, queueVars, aborting>>

DropGuard(u) ==
  /\ user[u] = "guard" /\ sending[u] = NoTask
  /\ user' = [user EXCEPT ![u] = "gone"]
  /\ UNCHANGED <<owned, sending, task, queueVars, aborting>>

(* Worker::abort *)
Abort ==
  /\ owned /\ ~aborting
  /\ aborting' = TRUE
  /\ UNCHANGED <<owned, user, sending, task, queueVars>>

(* WorkerManager::terminate drops the Worker: its Sender, and a JoinHandle, *)
(* which detaches the task.  Its caller guarantees (`unsafe`) that nobody  *)
(* holds a reference into the Vec.                                         *)
Terminate ==
  /\ owned /\ \A u \in Users : user[u] # "indexed"
  /\ owned' = FALSE
  /\ UNCHANGED <<user, sending, task, queueVars, aborting>>

-----------------------------------------------------------------------------
(* The spawned task *)

NoSender == ~owned /\ \A u \in Users : user[u] \notin {"indexed", "guard"}

(* Fault: the newest task first. *)
Take_last ==
  /\ worker = "running" /\ current = NoTask /\ queue # <<>>
  /\ current' = Last(queue)
  /\ queue' = Front(queue)
  /\ started' = Append(started, Last(queue))
  /\ task' = [task EXCEPT ![Last(queue)] = "polled"]
  /\ UNCHANGED <<owned, user, sending, worker, accepted, reported, aborting>>

(* receiver.recv() yields the next task *)
Take ==
  /\ worker = "running" /\ current = NoTask /\ queue # <<>>
  /\ current' = Head(queue)
  /\ queue' = Tail(queue)
  /\ started' = Append(started, Head(queue))
  /\ task' = [task EXCEPT ![Head(queue)] = "polled"]
  /\ UNCHANGED <<owned, user, sending, worker, accepted, reported, aborting>>

(* The poll is over, with Ready or with a panic that catch_unwind returns; *)
(* `if let Ok(err)` reports the task.                                      *)
Reports(outcome) == outcome = "completed"

(* Fault: the queued tasks are kept, though nobody will take them. *)
End_keepsQueue(why, outcome) ==
  /\ worker' = why
  /\ task' = [t \in Tasks |-> IF t = current THEN outcome ELSE task[t]]
  /\ current' = NoTask
  /\ UNCHANGED queue

(* the worker stops and drops its queue *)
End(why, outcome) ==
  /\ worker' = why
  /\ task' = [t \in Tasks |-> IF t = current THEN outcome
                              ELSE IF t \in ToSet(queue) THEN "dropped" ELSE task[t]]
  /\ queue' = <<>>
  /\ current' = NoTask

(* Fault: the poll is not under catch_unwind. *)
Finish_uncaught(outcome) ==
  /\ current # NoTask
  /\ IF outcome = "panicked" THEN End("idle_end", outcome)
     ELSE /\ task' = [task EXCEPT ![current] = outcome]
          /\ current' = NoTask
          /\ UNCHANGED <<queue, worker>>
  /\ UNCHANGED <<owned, user, sending, accepted, started, reported, aborting>>

Finish(outcome) ==
  /\ current # NoTask
  /\ reported' = IF Reports(outcome) THEN reported \cup {current} ELSE reported
  /\ task' = [task EXCEPT ![current] = outcome]
  /\ current' = NoTask
  /\ UNCHANGED <<owned, user, sending, queue, worker, accepted, started, aborting>>

(* the future's destructor panics at the end of the loop body *)
FinishDies(outcome) ==
  /\ current # NoTask
  /\ reported' = IF Reports(outcome) THEN reported \cup {current} ELSE reported
  /\ End("died", outcome)
  /\ UNCHANGED <<owned, user, sending, accepted, started, aborting>>

(* an aborted task is dropped at one of its next suspension points *)
Aborted ==
  /\ aborting /\ worker = "running"
  /\ End("aborted", "dropped")
  /\ UNCHANGED <<owned, user, sending, accepted, started, reported, aborting>>

(* Fault: the task holds a Sender of its own queue. *)
Disconnect_selfHeld == FALSE /\ UNCHANGED wvars

(* recv() yields None when every Sender is gone and the queue is empty *)
Disconnect ==
  /\ worker = "running" /\ current = NoTask /\ queue = <<>> /\ NoSender
  /\ End("idle_end", "dropped")
  /\ UNCHANGED <<owned, user, sending, accepted, started, reported, aborting>>

Run == Take \/ (\E o \in Finished : Finish(o) \/ FinishDies(o)) \/ Aborted \/ Disconnect
Send(u) == Accept(u) \/ Refuse(u)

Next ==
  \/ \E u \in Users : Get(u) \/ Shared(u) \/ Send(u) \/ Cancel(u) \/ DropGuard(u)
  \/ \E u \in Users, t \in Tasks : SendTask(u, t)
  \/ Abort \/ Terminate \/ Run

(* The runtime polls the worker while it can go on, every task ends, and a *)
(* send_task that can return does; no user has to send, drop or terminate. *)
Fairness == WF_wvars(Run) /\ \A u \in Users : WF_wvars(Send(u))

Spec == Init /\ [][Next]_wvars /\ Fairness
-----------------------------------------------------------------------------
(* Properties *)

(* Tasks run one at a time, each once, in the order the queue took them,   *)
(* whoever sent them and however earlier ones ended.                       *)
InOrder ==
  /\ IsPrefix(started, accepted) /\ IsInjective(accepted)
  /\ \A i \in 1 .. Len(started) - 1 : task[started[i]] \in Finished

(* terminate is graceful and a panicking task is contained: unless the     *)
(* worker was aborted or a destructor panicked, it ends only when nobody   *)
(* can send any more and every task it accepted has been run to its end.   *)
GracefulEnd ==
  worker = "idle_end" =>
    NoSender /\ \A i \in DOMAIN accepted : task[accepted[i]] \in Finished

(* A task that send_task accepted is run to its end or dropped with the    *)
(* queue, and a send_task in progress returns, also if the worker ends     *)
(* while the queue is full.                                                *)
TasksSettle ==
  \A t \in Tasks : task[t] \in {"sending", "queued", "polled"}
                     ~> task[t] \in {"refused", "dropped"} \cup Finished

(* After terminate, the detached task ends once the last guard is dropped. *)
WorkerEnds == NoSender ~> worker # "running"

(* worker.rs: a task that is reported with `task panic` has panicked.      *)
ReportedPanicked == \A t \in reported : task[t] = "panicked"
=============================================================================
