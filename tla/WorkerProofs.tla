---------------------------- MODULE WorkerProofs ----------------------------
(***************************************************************************)
(* Order and orderly end of a task worker, for every set of users and      *)
(* tasks and every capacity of the queue.                                  *)
(***************************************************************************)
EXTENDS Worker, SequenceFacts, TLAPS

-----------------------------------------------------------------------------
(* The inductive invariant *)

(* The queue has not seen a task that is being sent, and no two users send *)
(* the same one.                                                           *)
SendingInv ==
  /\ \A u \in Users : sending[u] # NoTask => task[sending[u]] = "sending"
  /\ \A u, v \in Users : sending[u] = sending[v] /\ sending[u] # NoTask => u = v
  /\ \A i \in DOMAIN accepted : task[accepted[i]] \notin {"new", "sending"}

(* What the worker has started and what waits in its queue are, in this    *)
(* order, what the queue has taken.                                        *)
OrderInv ==
  /\ IsInjective(accepted)
  /\ Len(started) <= Len(accepted)
  /\ \A i \in DOMAIN started : started[i] = accepted[i]
  /\ worker = "running" =>
       /\ Len(accepted) = Len(started) + Len(queue)
       /\ \A i \in DOMAIN queue : queue[i] = accepted[Len(started) + i]
  /\ \A i \in DOMAIN queue : task[queue[i]] = "queued"

(* The task that is polled was started last; those before it have ended. *)
PollInv ==
  /\ worker # "running" => queue = <<>> /\ current = NoTask
  /\ current # NoTask => /\ started # <<>> /\ current = started[Len(started)]
                         /\ task[current] = "polled"
  /\ \A i \in DOMAIN started :
       i < Len(started) \/ (worker = "running" /\ current = NoTask) =>
         task[started[i]] \in Finished

WInv == TypeOK /\ SendingInv /\ OrderInv /\ PollInv /\ GracefulEnd
-----------------------------------------------------------------------------
(* Facts about the state *)

(* A sequence that agrees with a longer one is a prefix of it. *)
LEMMA PrefixFact ==
  ASSUME NEW S, NEW s \in Seq(S), NEW t \in Seq(S),
         Len(s) <= Len(t), \A i \in DOMAIN s : s[i] = t[i]
  PROVE  IsPrefix(s, t)
<1>1. SubSeq(s, 1, Len(s)) = SubSeq(t, 1, Len(s))
  OBVIOUS
<1> QED BY <1>1 DEF IsPrefix

(* The histories and the queue are sequences of tasks. *)
LEMMA Shapes ==
  ASSUME TypeOK
  PROVE  /\ \A i \in DOMAIN accepted : accepted[i] \in Tasks
         /\ \A i \in DOMAIN started : started[i] \in Tasks
         /\ \A i \in DOMAIN queue : queue[i] \in Tasks
         /\ DOMAIN accepted = 1 .. Len(accepted) /\ DOMAIN started = 1 .. Len(started)
         /\ DOMAIN queue = 1 .. Len(queue)
         /\ Len(accepted) \in Nat /\ Len(started) \in Nat /\ Len(queue) \in Nat
BY DEF TypeOK

(* What was started was accepted. *)
LEMMA StartedAccepted ==
  ASSUME WInv
  PROVE  \A i \in DOMAIN started : i \in DOMAIN accepted /\ started[i] = accepted[i]
<1>1. Len(started) <= Len(accepted) /\ \A i \in DOMAIN started : started[i] = accepted[i]
  BY DEF WInv, OrderInv
<1>2. /\ DOMAIN accepted = 1 .. Len(accepted) /\ DOMAIN started = 1 .. Len(started)
      /\ Len(accepted) \in Nat /\ Len(started) \in Nat
  BY Shapes DEF WInv
<1> QED BY <1>1, <1>2

(* A task that is not yet in the queue's hands changes its state: nothing  *)
(* that was accepted is concerned.                                         *)
LEMMA OutsideStep ==
  ASSUME WInv, TypeOK', UNCHANGED queueVars,
         NEW x \in Tasks, task[x] \in {"new", "sending"},
         \A t \in Tasks : t # x => task'[t] = task[t],
         \A u \in Users : sending'[u] # NoTask => task'[sending'[u]] = "sending",
         \A u, v \in Users : sending'[u] = sending'[v] /\ sending'[u] # NoTask => u = v,
         NoSender => NoSender'
  PROVE  WInv'
<1>1. \A i \in DOMAIN accepted : task'[accepted[i]] = task[accepted[i]]
  BY Shapes DEF WInv, SendingInv
<1>2. \A i \in DOMAIN started : task'[started[i]] = task[started[i]]
  BY <1>1, StartedAccepted
<1>3. \A i \in DOMAIN queue : task'[queue[i]] = task[queue[i]]
  BY Shapes DEF WInv, OrderInv
<1>4. current # NoTask => task'[current] = task[current]
  BY DEF WInv, PollInv, TypeOK
<1>5. SendingInv' /\ OrderInv' /\ PollInv' /\ GracefulEnd'
  BY <1>1, <1>2, <1>3, <1>4
  DEF WInv, SendingInv, OrderInv, PollInv, GracefulEnd, queueVars
<1> QED BY <1>5 DEF WInv

(* A step that touches no task. *)
LEMMA HandleStep ==
  ASSUME WInv, TypeOK', UNCHANGED <<queueVars, task, sending>>, NoSender => NoSender'
  PROVE  WInv'
BY DEF WInv, SendingInv, OrderInv, PollInv, GracefulEnd, queueVars

(* The worker starts empty. *)
LEMMA InitWorker == Init => WInv
<1> SUFFICES ASSUME Init PROVE WInv
  OBVIOUS
<1>1. TypeOK
  <2>1. <<>> \in Seq(Tasks) /\ Len(<<>>) = 0 /\ 0 <= QueueCap
    BY WorkerAssumption
  <2> QED BY <2>1 DEF Init, TypeOK
<1>2. SendingInv /\ OrderInv /\ PollInv /\ GracefulEnd
  BY EmptyFact DEF Init, SendingInv, OrderInv, PollInv, GracefulEnd
<1> QED BY <1>1, <1>2 DEF WInv
-----------------------------------------------------------------------------
(* The steps *)

(* The queue takes a task. *)
LEMMA AcceptStep ==
  ASSUME WInv, NEW u \in Users, Accept(u)
  PROVE  WInv'
<1>0. PICK x : x = sending[u]
  OBVIOUS
<1>1. /\ x \in Tasks /\ task[x] = "sending" /\ sending[u] = x
      /\ worker = "running" /\ Len(queue) < QueueCap
      /\ queue' = Append(queue, x) /\ accepted' = Append(accepted, x)
      /\ task' = [task EXCEPT ![x] = "queued"]
      /\ sending' = [sending EXCEPT ![u] = NoTask]
      /\ UNCHANGED <<owned, user, current, worker, started, reported, aborting>>
  BY <1>0 DEF Accept, WInv, TypeOK, SendingInv
<1>2. /\ task'[x] = "queued" /\ \A t \in Tasks : t # x => task'[t] = task[t]
      /\ sending'[u] = NoTask /\ \A v \in Users : v # u => sending'[v] = sending[v]
      /\ accepted \in Seq(Tasks) /\ queue \in Seq(Tasks)
  BY <1>1 DEF WInv, TypeOK
<1>3. TypeOK'
  BY <1>1, <1>2, AppendFact, WorkerAssumption DEF WInv, TypeOK
<1>4. /\ Len(accepted') = Len(accepted) + 1 /\ Len(queue') = Len(queue) + 1
      /\ DOMAIN accepted' = 1 .. Len(accepted) + 1 /\ DOMAIN queue' = 1 .. Len(queue) + 1
      /\ \A i \in DOMAIN accepted : accepted'[i] = accepted[i]
      /\ accepted'[Len(accepted) + 1] = x
      /\ \A i \in DOMAIN queue : queue'[i] = queue[i]
      /\ queue'[Len(queue) + 1] = x
  BY <1>1, <1>2
<1>5. \A i \in DOMAIN accepted : accepted[i] # x
  BY <1>1 DEF WInv, SendingInv
<1>6. \A i \in DOMAIN queue : queue[i] # x
  BY <1>1 DEF WInv, OrderInv
<1>7. \A i \in DOMAIN started : i \in DOMAIN accepted /\ started[i] = accepted[i]
  BY StartedAccepted
<1>8. \A i \in DOMAIN accepted' : i \in DOMAIN accepted \/ i = Len(accepted) + 1
  BY <1>4, Shapes DEF WInv
<1>9. SendingInv'
  <2>1. \A v \in Users : sending'[v] # NoTask => task'[sending'[v]] = "sending"
    <3>1. \A v \in Users : v # u => sending[v] # x
      BY <1>1, WorkerAssumption DEF WInv, SendingInv
    <3> QED BY <1>2, <3>1 DEF WInv, SendingInv, TypeOK
  <2>2. \A v, w \in Users : sending'[v] = sending'[w] /\ sending'[v] # NoTask => v = w
    BY <1>2 DEF WInv, SendingInv
  <2>3. \A i \in DOMAIN accepted' : task'[accepted'[i]] \notin {"new", "sending"}
    BY <1>2, <1>4, <1>5, <1>8, Shapes DEF WInv, SendingInv
  <2> QED BY <2>1, <2>2, <2>3 DEF SendingInv
<1>10. OrderInv'
  <2>1. IsInjective(accepted')
    <3>1. x \notin ToSet(accepted)
      BY <1>5 DEF ToSet
    <3> QED BY <1>1, <1>2, <3>1, AppendFact DEF WInv, OrderInv
  <2>2. Len(started') <= Len(accepted')
    BY <1>1, <1>4, Shapes DEF WInv, OrderInv
  <2>3. \A i \in DOMAIN started' : started'[i] = accepted'[i]
    BY <1>1, <1>4, <1>7
  <2>4. /\ Len(accepted') = Len(started') + Len(queue')
        /\ \A i \in DOMAIN queue' : queue'[i] = accepted'[Len(started') + i]
    <3>1. Len(accepted) = Len(started) + Len(queue)
      BY <1>1 DEF WInv, OrderInv
    <3>2. ASSUME NEW i \in DOMAIN queue
          PROVE  queue'[i] = accepted'[Len(started) + i]
      <4>1. Len(started) + i \in DOMAIN accepted /\ queue[i] = accepted[Len(started) + i]
        BY <1>1, <3>1, <3>2, Shapes DEF WInv, OrderInv
      <4> QED BY <4>1, <1>4
    <3>3. Len(accepted) + 1 = Len(started) + (Len(queue) + 1)
      BY <3>1, Shapes DEF WInv
    <3>4. \A i \in DOMAIN queue' : i \in DOMAIN queue \/ i = Len(queue) + 1
      BY <1>4, Shapes DEF WInv
    <3> QED BY <1>1, <1>4, <3>2, <3>3, <3>4
  <2>5. \A i \in DOMAIN queue' : task'[queue'[i]] = "queued"
    <3>1. \A i \in DOMAIN queue' : i \in DOMAIN queue \/ i = Len(queue) + 1
      BY <1>4, Shapes DEF WInv
    <3>2. \A i \in DOMAIN queue : queue[i] \in Tasks /\ task[queue[i]] = "queued"
      BY Shapes DEF WInv, OrderInv
    <3> QED BY <1>2, <1>4, <1>6, <3>1, <3>2
  <2> QED BY <2>1, <2>2, <2>3, <2>4, <2>5 DEF OrderInv
<1>11. PollInv'
  <2>1. \A i \in DOMAIN started : task'[started[i]] = task[started[i]]
    BY <1>2, <1>5, <1>7, Shapes DEF WInv
  <2>2. current # NoTask => task'[current] = task[current]
    BY <1>1, <1>2 DEF WInv, PollInv, TypeOK
  <2> QED BY <1>1, <2>1, <2>2 DEF WInv, PollInv
<1>12. GracefulEnd'
  BY <1>1 DEF GracefulEnd
<1> QED BY <1>3, <1>9, <1>10, <1>11, <1>12 DEF WInv

(* The worker takes the oldest task of its queue. *)
LEMMA TakeStep == WInv /\ Take => WInv'
<1> SUFFICES ASSUME WInv, Take PROVE WInv'
  OBVIOUS
<1>0. PICK x : x = Head(queue)
  OBVIOUS
<1>1. /\ worker = "running" /\ current = NoTask /\ queue # <<>>
      /\ queue \in Seq(Tasks) /\ accepted \in Seq(Tasks) /\ started \in Seq(Tasks)
      /\ current' = x /\ queue' = Tail(queue) /\ started' = Append(started, x)
      /\ task' = [task EXCEPT ![x] = "polled"]
      /\ UNCHANGED <<owned, user, sending, worker, accepted, reported, aborting>>
  BY <1>0 DEF Take, WInv, TypeOK
<1>2. /\ x \in Tasks /\ x = queue[1] /\ 1 \in DOMAIN queue
      /\ Len(queue') = Len(queue) - 1 /\ DOMAIN queue' = 1 .. Len(queue) - 1
      /\ \A i \in DOMAIN queue' : i + 1 \in DOMAIN queue /\ queue'[i] = queue[i + 1]
      /\ Len(started') = Len(started) + 1 /\ DOMAIN started' = 1 .. Len(started) + 1
      /\ \A i \in DOMAIN started : started'[i] = started[i]
      /\ started'[Len(started) + 1] = x
      /\ queue' \in Seq(Tasks) /\ started' \in Seq(Tasks)
  BY <1>0, <1>1
<1>3. /\ task'[x] = "polled" /\ \A t \in Tasks : t # x => task'[t] = task[t]
      /\ task[x] = "queued"
  BY <1>1, <1>2 DEF WInv, TypeOK, OrderInv
<1>4. TypeOK'
  <2>1. Len(queue') <= QueueCap
    BY <1>2, Shapes, WorkerAssumption DEF WInv, TypeOK
  <2> QED BY <1>1, <1>2, <2>1 DEF WInv, TypeOK
<1>5. \A i \in DOMAIN started : started[i] # x /\ started[i] \in Tasks /\ task[started[i]] \in Finished
  BY <1>1, <1>3, Shapes DEF WInv, PollInv, Finished
<1>6. /\ Len(accepted) = Len(started) + Len(queue)
      /\ \A i \in DOMAIN queue : queue[i] = accepted[Len(started) + i]
  BY <1>1 DEF WInv, OrderInv
<1>7. \A i \in DOMAIN started' : i \in DOMAIN started \/ i = Len(started) + 1
  BY <1>2, Shapes DEF WInv
<1>8. SendingInv'
  <2>1. \A v \in Users : sending[v] # x
    BY <1>2, <1>3, WorkerAssumption DEF WInv, SendingInv
  <2>2. \A v \in Users : sending'[v] # NoTask => task'[sending'[v]] = "sending"
    BY <1>1, <1>3, <2>1 DEF WInv, SendingInv, TypeOK
  <2>3. \A i \in DOMAIN accepted' : task'[accepted'[i]] \notin {"new", "sending"}
    BY <1>1, <1>3, Shapes DEF WInv, SendingInv
  <2> QED BY <1>1, <2>2, <2>3 DEF WInv, SendingInv
<1>9. OrderInv'
  <2>1. Len(started') <= Len(accepted')
    BY <1>1, <1>2, <1>6, Shapes DEF WInv
  <2>2. \A i \in DOMAIN started' : started'[i] = accepted'[i]
    BY <1>1, <1>2, <1>6, <1>7 DEF WInv, OrderInv
  <2>3. Len(accepted') = Len(started') + Len(queue')
    BY <1>1, <1>2, <1>6, Shapes DEF WInv
  <2>4. ASSUME NEW i \in DOMAIN queue'
        PROVE  queue'[i] = accepted'[Len(started') + i]
    <3>1. i + 1 \in DOMAIN queue /\ queue'[i] = queue[i + 1]
      BY <1>2
    <3>2. queue[i + 1] = accepted[Len(started) + (i + 1)]
      BY <1>6, <3>1
    <3>3. Len(started') + i = Len(started) + (i + 1)
      BY <1>2, Shapes DEF WInv
    <3> QED BY <1>1, <3>1, <3>2, <3>3
  <2>5. ASSUME NEW i \in DOMAIN queue'
        PROVE  task'[queue'[i]] = "queued"
    <3>1. i + 1 \in DOMAIN queue /\ queue'[i] = queue[i + 1] /\ i + 1 # 1
      BY <1>2
    <3>2. /\ Len(started) + (i + 1) \in DOMAIN accepted /\ Len(started) + 1 \in DOMAIN accepted
          /\ Len(started) + (i + 1) # Len(started) + 1
      BY <1>2, <1>6, <3>1, Shapes DEF WInv
    <3>3. queue[i + 1] # x
      BY <1>2, <1>6, <3>1, <3>2 DEF WInv, OrderInv, IsInjective
    <3> QED BY <1>3, <3>1, <3>3, Shapes DEF WInv, OrderInv
  <2> QED BY <1>1, <2>1, <2>2, <2>3, <2>4, <2>5 DEF WInv, OrderInv
<1>10. PollInv'
  <2>1. \A i \in DOMAIN started' : i < Len(started') => task'[started'[i]] \in Finished
    <3>1. \A i \in DOMAIN started' : i < Len(started') => i \in DOMAIN started
      BY <1>2, Shapes DEF WInv
    <3> QED BY <1>2, <1>3, <1>5, <3>1
  <2>2. current' # NoTask /\ started' # <<>> /\ current' = started'[Len(started')]
        /\ task'[current'] = "polled"
    <3>1. started' # <<>>
      BY <1>2, Shapes DEF WInv
    <3> QED BY <1>1, <1>2, <1>3, <3>1, WorkerAssumption
  <2> QED BY <1>1, <2>1, <2>2 DEF PollInv
<1>11. GracefulEnd'
  BY <1>1 DEF GracefulEnd
<1> QED BY <1>4, <1>8, <1>9, <1>10, <1>11 DEF WInv

(* The task that is polled ends, and the worker goes on. *)
LEMMA FinishStep ==
  ASSUME WInv, NEW o \in Finished, Finish(o)
  PROVE  WInv'
<1>1. /\ current \in Tasks /\ task[current] = "polled" /\ worker = "running"
      /\ started # <<>> /\ current = started[Len(started)]
      /\ task'[current] = o /\ \A t \in Tasks : t # current => task'[t] = task[t]
      /\ current' = NoTask
      /\ UNCHANGED <<owned, user, sending, queue, worker, accepted, started, aborting>>
  BY DEF Finish, WInv, TypeOK, PollInv
<1>2. TypeOK'
  BY <1>1 DEF Finish, WInv, TypeOK
<1>3. SendingInv'
  <2>1. \A v \in Users : sending[v] # current
    BY <1>1, WorkerAssumption DEF WInv, SendingInv
  <2> QED BY <1>1, <2>1, Shapes DEF WInv, SendingInv, TypeOK, Finished
<1>4. OrderInv'
  <2>1. \A i \in DOMAIN queue : queue[i] # current
    BY <1>1 DEF WInv, OrderInv
  <2> QED BY <1>1, <2>1, Shapes DEF WInv, OrderInv
<1>5. PollInv'
  <2>1. \A i \in DOMAIN started : task'[started[i]] \in Finished
    <3>1. \A i \in DOMAIN started : i < Len(started) \/ i = Len(started)
      BY Shapes DEF WInv
    <3> QED BY <1>1, <3>1, Shapes DEF WInv, PollInv
  <2> QED BY <1>1, <2>1 DEF PollInv
<1>6. GracefulEnd'
  BY <1>1 DEF GracefulEnd
<1> QED BY <1>2, <1>3, <1>4, <1>5, <1>6 DEF WInv

(* The worker ends with the task it polls and drops its queue. *)
LEMMA EndStep ==
  ASSUME WInv, NEW why \in {"idle_end", "aborted", "died"}, NEW o \in Finished \cup {"dropped"},
         End(why, o), worker = "running",
         reported' \subseteq Tasks,
         UNCHANGED <<owned, user, sending, accepted, started, aborting>>,
         why = "idle_end" => NoSender /\ current = NoTask /\ queue = <<>>
  PROVE  WInv'
<1>1. /\ worker' = why /\ queue' = <<>> /\ current' = NoTask
      /\ \A t \in Tasks : \/ task'[t] = task[t]
                          \/ t = current /\ task'[t] = o
                          \/ t \in ToSet(queue) /\ task'[t] = "dropped"
      /\ \A t \in Tasks : t # current /\ t \notin ToSet(queue) => task'[t] = task[t]
  BY DEF End
<1>2. TypeOK'
  BY <1>1, WorkerAssumption DEF End, WInv, TypeOK, Finished
<1>3. \A t \in Tasks : task[t] \in {"new", "sending"} \cup Finished => task'[t] = task[t]
  <2>1. \A t \in ToSet(queue) : task[t] = "queued"
    BY DEF WInv, OrderInv, ToSet
  <2>2. \A t \in Tasks : t = current => task[t] = "polled"
    BY WorkerAssumption DEF WInv, PollInv
  <2> QED BY <1>1, <2>1, <2>2 DEF Finished
<1>4. SendingInv'
  <2>1. \A t \in Tasks : task[t] \notin {"new", "sending"} => task'[t] \notin {"new", "sending"}
    BY <1>1 DEF Finished
  <2>2. \A v \in Users : sending[v] # NoTask => task'[sending[v]] = "sending"
    BY <1>3 DEF WInv, SendingInv, TypeOK
  <2> QED BY <2>1, <2>2, Shapes DEF WInv, SendingInv
<1>5. OrderInv'
  BY <1>1 DEF WInv, OrderInv
<1>6. PollInv'
  <2>1. \A i \in DOMAIN started : i < Len(started) => task'[started[i]] \in Finished
    BY <1>3, Shapes DEF WInv, PollInv
  <2> QED BY <1>1, <2>1 DEF PollInv
<1>7. GracefulEnd'
  <2> SUFFICES ASSUME why = "idle_end"
               PROVE  NoSender' /\ \A i \in DOMAIN accepted' : task'[accepted'[i]] \in Finished
    BY <1>1 DEF GracefulEnd
  <2>1. Len(queue) = 0 /\ Len(accepted) = Len(started)
    BY Shapes DEF WInv, OrderInv
  <2>2. \A i \in DOMAIN accepted : i \in DOMAIN started /\ started[i] = accepted[i]
    BY <2>1, Shapes DEF WInv, OrderInv
  <2>3. \A i \in DOMAIN accepted : task[accepted[i]] \in Finished
    BY <2>2 DEF WInv, PollInv
  <2> QED BY <1>3, <2>3, Shapes DEF WInv, NoSender
<1> QED BY <1>2, <1>4, <1>5, <1>6, <1>7 DEF WInv
-----------------------------------------------------------------------------
(* The theorems *)

(* Every step preserves the invariant. *)
LEMMA WorkerStep == WInv /\ [Next]_wvars => WInv'
<1> SUFFICES ASSUME WInv, [Next]_wvars PROVE WInv'
  OBVIOUS
<1>1. ASSUME NEW u \in Users, Get(u) \/ Shared(u) \/ DropGuard(u) PROVE WInv'
  <2>1. TypeOK' /\ UNCHANGED <<queueVars, task, sending>>
    BY <1>1 DEF Get, Shared, DropGuard, WInv, TypeOK, queueVars
  <2>2. NoSender => NoSender'
    BY <1>1 DEF Get, Shared, DropGuard, NoSender, WInv, TypeOK
  <2> QED BY <2>1, <2>2, HandleStep
<1>2. ASSUME Abort \/ Terminate PROVE WInv'
  <2>1. /\ TypeOK' /\ UNCHANGED <<queueVars, task, sending>>
        /\ NoSender => NoSender'
    BY <1>2 DEF Abort, Terminate, NoSender, WInv, TypeOK, queueVars
  <2> QED BY <2>1, HandleStep
<1>3. ASSUME NEW u \in Users, NEW t \in Tasks, SendTask(u, t) PROVE WInv'
  <2>1. TypeOK' /\ UNCHANGED queueVars /\ (NoSender => NoSender') /\ task[t] = "new"
    BY <1>3 DEF SendTask, WInv, TypeOK, queueVars, NoSender
  <2>2. /\ \A x \in Tasks : task'[x] = IF x = t THEN "sending" ELSE task[x]
        /\ \A v \in Users : sending'[v] = IF v = u THEN t ELSE sending[v]
        /\ \A v \in Users : sending[v] # t /\ sending[v] \in Tasks \cup {NoTask}
    BY <1>3, <2>1, WorkerAssumption DEF SendTask, WInv, TypeOK, SendingInv
  <2>3. \A v \in Users : sending'[v] # NoTask => task'[sending'[v]] = "sending"
    BY <2>2 DEF WInv, SendingInv
  <2>4. \A v, w \in Users : sending'[v] = sending'[w] /\ sending'[v] # NoTask => v = w
    BY <2>2 DEF WInv, SendingInv
  <2> QED BY <2>1, <2>2, <2>3, <2>4, OutsideStep
<1>4. ASSUME NEW u \in Users, Refuse(u) \/ Cancel(u) PROVE WInv'
  <2>0. PICK t : t = sending[u]
    OBVIOUS
  <2>1. /\ t \in Tasks /\ task[t] = "sending"
        /\ \A x \in Tasks : x # t => task'[x] = task[x]
        /\ \A v \in Users : sending'[v] = IF v = u THEN NoTask ELSE sending[v]
    BY <1>4, <2>0 DEF Refuse, Cancel, WInv, TypeOK, SendingInv
  <2>2. TypeOK' /\ UNCHANGED queueVars /\ (NoSender => NoSender')
    BY <1>4, <2>0, <2>1 DEF Refuse, Cancel, WInv, TypeOK, queueVars, NoSender
  <2>3. \A v \in Users : sending'[v] # NoTask => task'[sending'[v]] = "sending"
    <3>1. \A v \in Users : v # u => sending[v] # t
      BY <2>0, <2>1, WorkerAssumption DEF WInv, SendingInv
    <3> QED BY <2>1, <3>1 DEF WInv, SendingInv, TypeOK
  <2>4. \A v, w \in Users : sending'[v] = sending'[w] /\ sending'[v] # NoTask => v = w
    BY <2>1 DEF WInv, SendingInv
  <2> QED BY <2>1, <2>2, <2>3, <2>4, OutsideStep
<1>5. ASSUME NEW o \in Finished, FinishDies(o) PROVE WInv'
  <2>1. worker = "running" /\ current \in Tasks
    BY <1>5 DEF FinishDies, WInv, PollInv, TypeOK
  <2>2. reported' \subseteq Tasks
    BY <1>5, <2>1 DEF FinishDies, WInv, TypeOK
  <2> QED BY <1>5, <2>1, <2>2, EndStep DEF FinishDies
<1>6. ASSUME Aborted \/ Disconnect PROVE WInv'
  <2>1. reported' \subseteq Tasks
    BY <1>6 DEF Aborted, Disconnect, WInv, TypeOK
  <2> QED BY <1>6, <2>1, EndStep DEF Aborted, Disconnect
<1>7. CASE UNCHANGED wvars
  BY <1>7, HandleStep DEF wvars, queueVars, WInv, TypeOK, NoSender
<1> QED BY <1>1, <1>2, <1>3, <1>4, <1>5, <1>6, <1>7, AcceptStep, TakeStep, FinishStep
        DEF Next, Send, Run

-----------------------------------------------------------------------------
(* What becomes of a task *)

Settled == {"refused", "dropped"} \cup Finished

(* A task that is not settled is in the hands of somebody who will settle  *)
(* it: of the user who sends it, of the queue or of the poll of a worker   *)
(* that has not ended.                                                     *)
TaskHeld ==
  \A t \in Tasks :
    /\ task[t] = "sending" => \E u \in Users : sending[u] = t
    /\ task[t] = "queued" => worker = "running" /\ t \in ToSet(queue)
    /\ task[t] = "polled" => worker = "running" /\ current = t

(* What the queue holds has been accepted and not started, and what is     *)
(* polled has been started.                                                *)
LEMMA HandsFact ==
  ASSUME WInv
  PROVE  /\ \A t \in ToSet(queue) : t \in Tasks /\ task[t] = "queued"
         /\ current # NoTask => current \in Tasks /\ task[current] = "polled" /\ worker = "running"
         /\ \A u \in Users : sending[u] # NoTask =>
              sending[u] \in Tasks /\ task[sending[u]] = "sending"
         /\ queue \in Seq(Tasks)
         /\ task \in [Tasks -> {"new", "sending", "queued", "polled"} \cup Settled]
         /\ sending \in [Users -> Tasks \cup {NoTask}]
<1>1. queue \in Seq(Tasks) /\ ToSet(queue) \subseteq Tasks
  BY ElementFact DEF WInv, TypeOK
<1>2. \A t \in ToSet(queue) : task[t] = "queued"
  BY DEF WInv, OrderInv, ToSet
<1> QED BY <1>1, <1>2 DEF WInv, TypeOK, PollInv, SendingInv, Settled

(* A step takes a task on by its own stages only, and leaves it in         *)
(* somebody's hands.                                                       *)
LEMMA HeldStep ==
  ASSUME WInv, TaskHeld, [Next]_wvars
  PROVE  TaskHeld' /\ \A t \in Tasks : task[t] \in Settled => task'[t] = task[t]
<1> DEFINE Goal == TaskHeld' /\ \A t \in Tasks : task[t] \in Settled => task'[t] = task[t]
<1>0. /\ \A t \in ToSet(queue) : t \in Tasks /\ task[t] = "queued"
      /\ current # NoTask => current \in Tasks /\ task[current] = "polled" /\ worker = "running"
      /\ \A u \in Users : sending[u] # NoTask => sending[u] \in Tasks /\ task[sending[u]] = "sending"
      /\ queue \in Seq(Tasks)
      /\ task \in [Tasks -> {"new", "sending", "queued", "polled"} \cup Settled]
      /\ sending \in [Users -> Tasks \cup {NoTask}]
  BY HandsFact
<1>1. CASE UNCHANGED <<task, sending, queue, current, worker>>
  BY <1>1 DEF TaskHeld
<1>2. ASSUME NEW u \in Users, NEW x \in Tasks, SendTask(u, x) PROVE Goal
  <2>1. /\ task[x] = "new" /\ task' = [task EXCEPT ![x] = "sending"] /\ sending[u] = NoTask
        /\ sending' = [sending EXCEPT ![u] = x] /\ UNCHANGED <<queue, current, worker>>
    BY <1>2 DEF SendTask, queueVars
  <2>2. /\ task'[x] = "sending" /\ \A t \in Tasks : t # x => task'[t] = task[t]
        /\ sending'[u] = x /\ \A v \in Users : v # u => sending'[v] = sending[v]
    BY <1>0, <2>1
  <2>3. TaskHeld'
    BY <2>1, <2>2, WorkerAssumption DEF TaskHeld
  <2> QED BY <2>1, <2>2, <2>3 DEF Settled, Finished
<1>3. ASSUME NEW u \in Users, Accept(u) \/ Refuse(u) \/ Cancel(u) PROVE Goal
  <2>0. PICK x : x = sending[u]
    OBVIOUS
  <2>1. /\ x \in Tasks /\ task[x] = "sending" /\ sending' = [sending EXCEPT ![u] = NoTask]
        /\ UNCHANGED <<current, worker>>
        /\ \/ /\ queue' = Append(queue, x) /\ worker = "running"
              /\ task' = [task EXCEPT ![x] = "queued"]
           \/ queue' = queue /\ task' = [task EXCEPT ![x] = "refused"]
           \/ queue' = queue /\ task' = [task EXCEPT ![x] = "dropped"]
    BY <1>0, <1>3, <2>0 DEF Accept, Refuse, Cancel, queueVars
  <2>2. /\ task'[x] \in {"queued", "refused", "dropped"}
        /\ task'[x] = "queued" => queue' = Append(queue, x) /\ worker = "running"
        /\ \A t \in Tasks : t # x => task'[t] = task[t]
        /\ \A v \in Users : v # u => sending'[v] = sending[v]
    BY <1>0, <2>1
  <2>3. ToSet(Append(queue, x)) = ToSet(queue) \cup {x}
    BY <1>0, <2>1, AppendFact
  <2>4. \A t \in Tasks : t # x /\ t \in ToSet(queue) => t \in ToSet(queue')
    BY <2>1, <2>3
  <2>5. \A t \in Tasks : t # x => \A v \in Users : sending[v] = t => sending'[v] = t
    BY <2>0, <2>2
  <2>6. task'[x] = "queued" => x \in ToSet(queue')
    BY <2>2, <2>3
  <2>7. TaskHeld'
    BY <2>1, <2>2, <2>4, <2>5, <2>6 DEF TaskHeld
  <2> QED BY <2>1, <2>2, <2>7 DEF Settled, Finished
<1>4. ASSUME Take PROVE Goal
  <2>0. PICK x : x = Head(queue)
    OBVIOUS
  <2>1. /\ current = NoTask /\ worker = "running" /\ queue # <<>> /\ current' = x
        /\ queue' = Tail(queue) /\ task' = [task EXCEPT ![x] = "polled"]
        /\ UNCHANGED <<sending, worker>>
    BY <1>4, <2>0 DEF Take
  <2>2. x \in ToSet(queue) /\ ToSet(queue) = ToSet(Tail(queue)) \cup {x}
    BY <1>0, <2>0, <2>1, TailFact
  <2>3. /\ x \in Tasks /\ task[x] = "queued" /\ task'[x] = "polled"
        /\ \A t \in Tasks : t # x => task'[t] = task[t]
    BY <1>0, <2>1, <2>2
  <2>4. \A t \in Tasks : task[t] # "polled"
    BY <2>1, WorkerAssumption DEF TaskHeld
  <2>5. TaskHeld'
    BY <2>1, <2>2, <2>3, <2>4 DEF TaskHeld
  <2> QED BY <2>3, <2>5 DEF Settled, Finished
<1>5. ASSUME NEW o \in Finished, Finish(o) PROVE Goal
  <2>1. /\ current \in Tasks /\ task[current] = "polled" /\ task' = [task EXCEPT ![current] = o]
        /\ UNCHANGED <<sending, queue, worker>>
    BY <1>0, <1>5 DEF Finish
  <2>2. task'[current] = o /\ \A t \in Tasks : t # current => task'[t] = task[t]
    BY <1>0, <2>1
  <2>3. TaskHeld'
    BY <2>1, <2>2 DEF TaskHeld, Finished
  <2> QED BY <2>1, <2>2, <2>3 DEF Settled, Finished
<1>6. ASSUME NEW why, NEW o \in Finished \cup {"dropped"}, End(why, o), UNCHANGED sending PROVE Goal
  <2>1. \A t \in Tasks : task'[t] = IF t = current THEN o
                                    ELSE IF t \in ToSet(queue) THEN "dropped" ELSE task[t]
    BY <1>6 DEF End
  <2>2. \A t \in Tasks : task'[t] = task[t] \/ task'[t] \in Settled
    BY <2>1 DEF Settled
  <2>3. \A t \in Tasks : task'[t] \notin {"queued", "polled"}
    BY <2>1 DEF TaskHeld, Finished
  <2>4. \A t \in Tasks : task'[t] = "sending" => task[t] = "sending"
    BY <2>2 DEF Settled, Finished
  <2>5. TaskHeld'
    BY <1>6, <2>3, <2>4 DEF TaskHeld
  <2>6. \A t \in Tasks : task[t] \in Settled => t # current /\ t \notin ToSet(queue)
    BY <1>0, WorkerAssumption DEF Settled, Finished
  <2> QED BY <2>1, <2>5, <2>6
<1>7. \/ UNCHANGED <<task, sending, queue, current, worker>>
      \/ \E u \in Users, x \in Tasks : SendTask(u, x)
      \/ \E u \in Users : Accept(u) \/ Refuse(u) \/ Cancel(u)
      \/ Take \/ \E o \in Finished : Finish(o)
      \/ \E o \in Finished \cup {"dropped"}, why \in {"died", "aborted", "idle_end"} :
           End(why, o) /\ UNCHANGED sending
  BY DEF Next, Get, Shared, DropGuard, Abort, Terminate, Send, Run, FinishDies, Aborted, Disconnect,
     queueVars, wvars
<1> HIDE DEF Goal
<1>8. Goal
  BY <1>1, <1>2, <1>3, <1>4, <1>5, <1>6, <1>7 DEF Goal
<1> QED BY <1>8 DEF Goal

-----------------------------------------------------------------------------
(* The theorems *)

(* A worker keeps its invariant. *)
THEOREM WorkerInvariant == Spec => []WInv
<1>1. Init => WInv
  BY InitWorker
<1>2. WInv /\ [Next]_wvars => WInv'
  BY WorkerStep
<1> QED BY <1>1, <1>2, PTL DEF Spec

(* Worker::new: the tasks run one at a time, each once and in the order    *)
(* the queue took them, for every number of users and every capacity.      *)
THEOREM TasksInOrder == Spec => []InOrder
<1>1. WInv => InOrder
  <2> SUFFICES ASSUME WInv PROVE InOrder
    OBVIOUS
  <2>1. accepted \in Seq(Tasks) /\ started \in Seq(Tasks)
    BY DEF WInv, TypeOK
  <2>2. IsPrefix(started, accepted)
    BY <2>1, PrefixFact DEF WInv, OrderInv
  <2>3. \A i \in 1 .. Len(started) - 1 : i \in DOMAIN started /\ i < Len(started)
    BY <2>1
  <2>4. \A i \in 1 .. Len(started) - 1 : task[started[i]] \in Finished
    BY <2>3 DEF WInv, PollInv
  <2> QED BY <2>2, <2>4 DEF WInv, OrderInv, InOrder
<1> QED BY <1>1, WorkerInvariant, PTL

(* WorkerManager::terminate: a worker that was neither aborted nor killed  *)
(* by a destructor ends only when nobody can send to it and everything it  *)
(* accepted has been run.                                                  *)
THEOREM EndIsGraceful == Spec => []GracefulEnd
<1>1. WInv => GracefulEnd
  BY DEF WInv
<1> QED BY <1>1, WorkerInvariant, PTL

(* WorkerGuard::send_task: no task is forgotten.  Until it is refused,     *)
(* dropped or run to its end it is with its sender, in the queue or polled *)
(* by a worker that has not ended, also when the worker is aborted or dies *)
(* of a destructor.                                                        *)
THEOREM TasksHeld == Spec => []TaskHeld
<1>1. Init => TaskHeld
  BY DEF Init, TaskHeld
<1>2. WInv /\ TaskHeld /\ [Next]_wvars => TaskHeld'
  BY HeldStep
<1> QED BY <1>1, <1>2, WorkerInvariant, PTL DEF Spec

(* What became of a task never changes: a task that was refused or dropped *)
(* is not run, and one that ran is not run again.                          *)
THEOREM TasksFinal ==
  Spec => [][\A t \in Tasks : task[t] \in Settled => task'[t] = task[t]]_wvars
<1>1. WInv /\ TaskHeld /\ [Next]_wvars => \A t \in Tasks : task[t] \in Settled => task'[t] = task[t]
  BY HeldStep
<1> QED BY <1>1, WorkerInvariant, TasksHeld, PTL DEF Spec
=============================================================================
