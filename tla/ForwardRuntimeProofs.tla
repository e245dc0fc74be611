------------------------ MODULE ForwardRuntimeProofs ------------------------
(***************************************************************************)
(* Safety of the forwarding runtime for every set of calls, executors and  *)
(* sites and for every plan, those that deadlock included.                 *)
(***************************************************************************)
EXTENDS ForwardRuntime, SequenceFacts, TLAPS

-----------------------------------------------------------------------------
(* The inductive invariant *)

(* A cursor at step n of c's plan is at location l and has entered the     *)
(* executors s: those of the Thread steps before n, and the last of them   *)
(* innermost.  It has come back to none of them except by staying there.   *)
Reached(c, n, l, s) ==
  /\ n \in 1 .. Len(Plan[c]) + 1
  /\ l = IF n = 1 THEN Client ELSE Plan[c][n - 1]
  /\ ToSet(s) = {Plan[c][i].name : i \in {j \in ThreadSteps(c) : j < n}}
  /\ s # <<>> => \E i \in ThreadSteps(c) :
       /\ i < n /\ Last(s) = Plan[c][i].name
       /\ \A j \in ThreadSteps(c) : j < n => j <= i
  /\ \A i, j \in ThreadSteps(c) :
       i < j /\ j < n /\ Plan[c][i] = Plan[c][j] =>
         \A k \in i .. j : Plan[c][k] = Plan[c][i]

(* A call that waits has been sent to the executor of the step it has just *)
(* passed, and has not entered it.                                         *)
Sent(c) ==
  LET n == idx[c] - 1
  IN  /\ Reached(c, n, loc[c], stack[c])
      /\ Plan[c][n].kind = "Thread" /\ Plan[c][n].name \in Threads
      /\ n <= Len(Plan[c])
      /\ c \in ToSet(queue[Plan[c][n].name])

OnPlan(c) ==
  /\ phase[c] \in {"new", "cursor", "handler"} => Reached(c, idx[c], loc[c], stack[c])
  /\ phase[c] = "handler" => idx[c] = Len(Plan[c]) + 1
  /\ phase[c] = "queued" => Sent(c)
WalkInv == \A c \in Calls : OnPlan(c)

(* A call is in one queue, once, and a thread that has ended has neither   *)
(* queue nor job; the one Shutdown of an executor is yet to be sent, in    *)
(* its queue or past.                                                      *)
QueueInv ==
  /\ \A t \in Threads : IsInjective(queue[t])
  /\ \A t \in Threads \ alive : queue[t] = <<>> /\ running[t] = NoCall
  /\ \A t, u \in Threads, c \in Calls :
       c \in ToSet(queue[t]) /\ c \in ToSet(queue[u]) => t = u
  /\ ~called => stopping = {}
  /\ \A t \in Threads : ~called \/ t \in stopping => Stop \notin ToSet(queue[t])

(* A handler has taken effect exactly if its call is past it. *)
RanInv ==
  \A c \in Calls :
    /\ ran[c] \in {0, 1}
    /\ phase[c] \in {"returning", "Ok"} => ran[c] = 1
    /\ phase[c] \in {"new", "cursor", "queued", "handler", "unwinding", "panic"} => ran[c] = 0

FwdInv ==
  /\ TypeOK /\ OneJobPerThread /\ QueueInv /\ NoLostJob
  /\ RanInv /\ WalkInv /\ RevisitNeverRuns
-----------------------------------------------------------------------------
(* The walk along a plan *)

(* A plan is a sequence of steps. *)
LEMMA PlanFact ==
  ASSUME NEW c \in Calls
  PROVE  /\ Len(Plan[c]) \in Nat /\ Plan[c] \in Seq(PlanSteps)
         /\ \A i \in 1 .. Len(Plan[c]) :
              /\ Plan[c][i].kind \in {"Rpc", "Thread"}
              /\ Plan[c][i] = [kind |-> Plan[c][i].kind, name |-> Plan[c][i].name]
         /\ ThreadSteps(c) \subseteq 1 .. Len(Plan[c])
<1>1. Plan[c] \in Seq(PlanSteps)
  BY ForwardAssumption
<1>2. Len(Plan[c]) \in Nat /\ \A i \in 1 .. Len(Plan[c]) : Plan[c][i] \in PlanSteps
  BY <1>1
<1>3. ASSUME NEW p \in PlanSteps
      PROVE  p.kind \in {"Rpc", "Thread"} /\ p = [kind |-> p.kind, name |-> p.name]
  BY DEF PlanSteps
<1> QED BY <1>1, <1>2, <1>3 DEF ThreadSteps

(* A cursor starts at the client, in no executor. *)
LEMMA ReachedStart ==
  ASSUME NEW c \in Calls
  PROVE  Reached(c, 1, Client, <<>>)
BY PlanFact, EmptyFact DEF Reached, ThreadSteps

(* A step that names where the runtime is changes nothing. *)
LEMMA ReachedHere ==
  ASSUME NEW c \in Calls, NEW n, NEW l, NEW s,
         Reached(c, n, l, s), n <= Len(Plan[c]), l = Plan[c][n]
  PROVE  Reached(c, n + 1, l, s)
<1> DEFINE P == Plan[c]
<1> DEFINE T == ThreadSteps(c)
<1>a. /\ n \in 1 .. Len(P) + 1 /\ n <= Len(P) /\ Len(P) \in Nat /\ n \in 1 .. Len(P)
      /\ T \subseteq 1 .. Len(P)
      /\ n \in T <=> P[n].kind = "Thread"
      /\ \A i \in 1 .. Len(P) : i \in T <=> P[i].kind = "Thread"
  BY PlanFact DEF Reached, ThreadSteps
<1>1. CASE n = 1
  <2>1. l = Client /\ l.kind = "Client" /\ l.kind \in {"Rpc", "Thread"}
    BY <1>1, <1>a, PlanFact DEF Reached, Client
  <2> QED BY <2>1
<1>2. CASE n # 1
  <2>1. l = P[n - 1] /\ P[n] = P[n - 1] /\ n - 1 \in 1 .. Len(P)
    BY <1>2, <1>a DEF Reached
  <2>2. n \in T <=> n - 1 \in T
    BY <2>1, <1>a
  <2>3. n + 1 \in 1 .. Len(P) + 1 /\ n + 1 # 1 /\ (n + 1) - 1 = n
    BY <1>a
  <2>4. ToSet(s) = {P[i].name : i \in {j \in T : j < n + 1}}
    <3>1. \A i \in T : i < n + 1 => \E j \in T : j < n /\ P[j] = P[i]
      BY <2>1, <2>2, <1>a
    <3>2. \A i \in T : i < n => i < n + 1
      BY <1>a
    <3>3. ToSet(s) = {P[i].name : i \in {j \in T : j < n}}
      BY DEF Reached
    <3> QED BY <3>1, <3>2, <3>3
  <2>5. s # <<>> => \E i \in T : /\ i < n + 1 /\ Last(s) = P[i].name
                                 /\ \A j \in T : j < n + 1 => j <= i
    <3> SUFFICES ASSUME s # <<>>
                 PROVE  \E i \in T : /\ i < n + 1 /\ Last(s) = P[i].name
                                     /\ \A j \in T : j < n + 1 => j <= i
      OBVIOUS
    <3>1. PICK i \in T : i < n /\ Last(s) = P[i].name /\ \A j \in T : j < n => j <= i
      BY DEF Reached
    <3>2. CASE n \in T
      <4>1. n - 1 <= i /\ i = n - 1
        BY <2>1, <2>2, <1>a, <3>1, <3>2
      <4>2. P[n].name = Last(s) /\ n < n + 1 /\ \A j \in T : j < n + 1 => j <= n
        BY <4>1, <3>1, <2>1, <1>a
      <4> QED BY <4>2, <3>2
    <3>3. CASE n \notin T
      <4>1. \A j \in T : j < n + 1 => j <= i
        BY <3>1, <3>3, <1>a
      <4>2. i < n + 1
        BY <3>1, <1>a
      <4> QED BY <4>1, <4>2, <3>1
    <3> QED BY <3>2, <3>3
  <2>6. ASSUME NEW i \in T, NEW j \in T, i < j, j < n + 1, P[i] = P[j], NEW k \in i .. j
        PROVE  P[k] = P[i]
    <3>1. CASE j < n
      BY <2>6, <3>1 DEF Reached
    <3>2. CASE j = n
      <4>1. CASE k = n \/ i = n - 1
        BY <2>1, <2>6, <3>2, <4>1, <1>a
      <4>2. CASE k # n /\ i # n - 1
        <5>1. n - 1 \in T /\ i < n - 1 /\ n - 1 < n /\ P[i] = P[n - 1] /\ k \in i .. n - 1
          BY <2>1, <2>2, <2>6, <3>2, <4>2, <1>a
        <5> QED BY <5>1 DEF Reached
      <4> QED BY <4>1, <4>2
    <3> QED BY <3>1, <3>2, <2>6, <1>a
  <2> QED BY <2>1, <2>3, <2>4, <2>5, <2>6 DEF Reached
<1> QED BY <1>1, <1>2

(* An Rpc step changes the location only. *)
LEMMA ReachedRpc ==
  ASSUME NEW c \in Calls, NEW n, NEW l, NEW s,
         Reached(c, n, l, s), n <= Len(Plan[c]), Plan[c][n].kind = "Rpc"
  PROVE  Reached(c, n + 1, Plan[c][n], s)
<1> DEFINE T == ThreadSteps(c)
<1>1. /\ n \in 1 .. Len(Plan[c]) /\ Len(Plan[c]) \in Nat /\ T \subseteq 1 .. Len(Plan[c])
      /\ n \notin T
  BY PlanFact DEF Reached, ThreadSteps
<1>2. \A j \in T : j < n + 1 <=> j < n
  BY <1>1
<1>3. n + 1 \in 1 .. Len(Plan[c]) + 1 /\ n + 1 # 1 /\ (n + 1) - 1 = n
  BY <1>1
<1> HIDE DEF T
<1>4. {j \in T : j < n + 1} = {j \in T : j < n}
  BY <1>2
<1> QED BY <1>2, <1>3, <1>4 DEF Reached, T

(* A job that is taken enters an executor that the call did not hold. *)
LEMMA ReachedHop ==
  ASSUME NEW c \in Calls, NEW n, NEW l, NEW s \in Seq(Threads),
         Reached(c, n, l, s), n <= Len(Plan[c]),
         Plan[c][n].kind = "Thread", Plan[c][n].name \in Threads,
         Plan[c][n].name \notin ToSet(s)
  PROVE  Reached(c, n + 1, [kind |-> "Thread", name |-> Plan[c][n].name],
                 Append(s, Plan[c][n].name))
<1> DEFINE P == Plan[c]
<1> DEFINE T == ThreadSteps(c)
<1> DEFINE e == Append(s, P[n].name)
<1>1. /\ n \in 1 .. Len(P) /\ Len(P) \in Nat /\ T \subseteq 1 .. Len(P) /\ n \in T
      /\ P[n] = [kind |-> "Thread", name |-> P[n].name]
  BY PlanFact DEF Reached, ThreadSteps
<1>2. n + 1 \in 1 .. Len(P) + 1 /\ n + 1 # 1 /\ (n + 1) - 1 = n
  BY <1>1
<1>3. \A j \in T : j < n + 1 <=> j < n \/ j = n
  BY <1>1
<1>4. ToSet(e) = ToSet(s) \cup {P[n].name}
  BY AppendFact
<1>5. ToSet(e) = {P[i].name : i \in {j \in T : j < n + 1}}
  <2>1. ToSet(s) = {P[i].name : i \in {j \in T : j < n}}
    BY DEF Reached
  <2> QED BY <1>1, <1>3, <1>4, <2>1
<1>6. /\ n < n + 1 /\ Last(e) = P[n].name
      /\ \A j \in T : j < n + 1 => j <= n
  <2>1. Last(e) = P[n].name
    BY DEF Last
  <2> QED BY <2>1, <1>1
<1>7. ASSUME NEW i \in T, NEW j \in T, i < j, j < n + 1, P[i] = P[j], NEW k \in i .. j
      PROVE  P[k] = P[i]
  <2>1. CASE j < n
    BY <1>7, <2>1 DEF Reached
  <2>2. CASE j = n
    <3>1. i < n /\ P[i].name = P[n].name
      BY <1>7, <2>2
    <3>2. P[i].name \in ToSet(s)
      BY <3>1, <1>7 DEF Reached
    <3> QED BY <3>1, <3>2
  <2> QED BY <1>3, <1>7, <2>1, <2>2
<1> QED BY <1>1, <1>2, <1>5, <1>6, <1>7 DEF Reached

(* At the end of the plan the call is where the plan leads, and the plan   *)
(* does not come back to an executor.                                      *)
LEMMA ReachedEnd ==
  ASSUME NEW c \in Calls, NEW l, NEW s \in Seq(Threads),
         Reached(c, Len(Plan[c]) + 1, l, s)
  PROVE  /\ Plan[c] # <<>> => l = Last(Plan[c])
         /\ IF ThreadSteps(c) = {} THEN s = <<>>
            ELSE s # <<>> /\ Last(s) = Plan[c][Max(ThreadSteps(c))].name
         /\ ~Revisits(c)
<1> DEFINE n == Len(Plan[c]) + 1
<1> DEFINE T == ThreadSteps(c)
<1>1. n \in Nat /\ T \subseteq 1 .. Len(Plan[c]) /\ \A j \in T : j < n /\ j \in Nat
  BY PlanFact
<1>2. Plan[c] # <<>> => l = Last(Plan[c])
  BY PlanFact DEF Reached, Last
<1>3. CASE T = {}
  <2>1. ToSet(s) = {}
    BY <1>3 DEF Reached
  <2>2. s = <<>>
    BY <2>1, FrontFact
  <2> QED BY <1>2, <1>3, <2>2 DEF Revisits
<1>4. CASE T # {}
  <2>1. s # <<>>
    <3>1. PICK i \in T : TRUE
      BY <1>4
    <3>2. Plan[c][i].name \in ToSet(s)
      BY <1>1 DEF Reached
    <3> QED BY <3>2, EmptyFact
  <2>2. PICK i \in T : Last(s) = Plan[c][i].name /\ \A j \in T : j < n => j <= i
    BY <2>1 DEF Reached
  <2>3. \A j \in T : i >= j
    BY <1>1, <2>2
  <2>4. Max(T) \in T /\ \A j \in T : Max(T) >= j
    BY <2>3 DEF Max
  <2>5. Max(T) = i
    BY <1>1, <2>3, <2>4
  <2>6. ~Revisits(c)
    <3> SUFFICES ASSUME Revisits(c) PROVE FALSE
      OBVIOUS
    <3>1. PICK p \in T, q \in T : /\ p + 1 < q /\ Plan[c][p] = Plan[c][q]
                                  /\ \E k \in p .. q : Plan[c][k] # Plan[c][p]
      BY DEF Revisits
    <3>2. p < q /\ q < n
      BY <3>1, <1>1
    <3> QED BY <3>1, <3>2 DEF Reached
  <2> QED BY <1>2, <1>4, <2>1, <2>2, <2>5, <2>6
<1> QED BY <1>3, <1>4
-----------------------------------------------------------------------------
(* The steps *)

(* A call that a step leaves alone stays on its plan. *)
LEMMA OnPlanKept ==
  ASSUME NEW d \in Calls, OnPlan(d),
         phase'[d] = phase[d], idx'[d] = idx[d], loc'[d] = loc[d], stack'[d] = stack[d],
         phase[d] = "queued" =>
           \A t \in Threads : d \in ToSet(queue[t]) => d \in ToSet(queue'[t])
  PROVE  OnPlan(d)'
BY DEF OnPlan, Sent

(* A call that unwinds, returns or has ended is done with its plan. *)
LEMMA OnPlanLeft ==
  ASSUME NEW d \in Calls,
         phase'[d] \in {"returning", "unwinding"} \cup Finals
  PROVE  OnPlan(d)'
BY DEF OnPlan, Finals

(* Wrapping yields a score. *)
LEMMA WrappedFact ==
  ASSUME NEW x \in Int
  PROVE  Wrapped(x) \in MinScore .. MaxScore
<1>1. MinScore \in Int /\ MaxScore \in Int /\ MaxScore - MinScore + 1 > 0
  BY ForwardAssumption
<1>2. \A a, m \in Int : m > 0 => a % m \in Int /\ 0 <= a % m /\ a % m < m
  OBVIOUS
<1>3. (x - MinScore) % (MaxScore - MinScore + 1) \in 0 .. MaxScore - MinScore
  BY <1>1, <1>2
<1> QED BY <1>1, <1>3 DEF Wrapped

(* The runtime starts with idle executors. *)
LEMMA InitFwd == Init => FwdInv
<1> SUFFICES ASSUME Init PROVE FwdInv
  OBVIOUS
<1> USE ForwardAssumption, EmptyFact DEF Init
<1>1. TypeOK
  <2>1. \A c \in Calls : idx[c] \in 1 .. Len(Plan[c]) + 1
    BY PlanFact
  <2>2. score \in MinScore .. MaxScore
    OBVIOUS
  <2>3. Client \in Locations
    BY DEF Locations, Client
  <2>4. queue \in [Threads -> Seq(Calls \cup {Stop})] /\ stack \in [Calls -> Seq(Threads)]
    OBVIOUS
  <2> HIDE ForwardAssumption
  <2> QED BY <2>1, <2>2, <2>3, <2>4 DEF TypeOK
<1>2. OneJobPerThread /\ QueueInv /\ NoLostJob /\ RanInv /\ RevisitNeverRuns
  BY DEF OneJobPerThread, QueueInv, NoLostJob, RanInv, RevisitNeverRuns
<1>3. WalkInv
  BY ReachedStart DEF WalkInv, OnPlan
<1> QED BY <1>1, <1>2, <1>3 DEF FwdInv

(* A call changes its own phase and nothing else, and neither waits for a  *)
(* job before nor after.                                                   *)
LEMMA PhaseStep ==
  ASSUME FwdInv, NEW c \in Calls, NEW p, Enter(c, p),
         p \in {"cursor", "handler", "returning", "unwinding"} \cup Finals,
         phase[c] # "queued", UNCHANGED <<walk, pool, halt>>,
         abandoned' \subseteq AsyncCalls,
         score' \in MinScore .. MaxScore, poisoned' \in BOOLEAN,
         \A d \in Calls : d # c => ran'[d] = ran[d],
         ran' \in [Calls -> Nat],
         OnPlan(c)', RanInv', RevisitNeverRuns'
  PROVE  FwdInv'
<1>a. /\ \A d \in Calls : phase'[d] = IF d = c THEN p ELSE phase[d]
      /\ p # "queued" /\ UNCHANGED <<idx, loc, stack, queue, running, alive, called, stopping>>
  BY DEF FwdInv, TypeOK, Enter, walk, pool, halt, Finals
<1>1. TypeOK'
  BY <1>a DEF FwdInv, TypeOK, Enter
<1>2. OneJobPerThread' /\ QueueInv'
  BY <1>a DEF FwdInv, OneJobPerThread, QueueInv
<1>3. NoLostJob'
  BY <1>a DEF FwdInv, NoLostJob
<1>4. WalkInv'
  BY <1>a, OnPlanKept DEF FwdInv, WalkInv
<1> QED BY <1>1, <1>2, <1>3, <1>4 DEF FwdInv

(* The cursor starts, or is past the last step. *)
LEMMA StartStep ==
  ASSUME FwdInv, NEW c \in Calls, Start(c) \/ Execute(c)
  PROVE  FwdInv'
<1>1. PICK p \in {"cursor", "handler"} :
        /\ Enter(c, p) /\ phase[c] \in {"new", "cursor"}
        /\ p = "handler" => idx[c] > Len(Plan[c])
        /\ UNCHANGED <<walk, abandoned, pool, halt, service>>
  BY DEF Start, Execute
<1>2. /\ phase'[c] = p /\ \A d \in Calls : d # c => phase'[d] = phase[d]
      /\ UNCHANGED <<idx, loc, stack, ran, score, poisoned>>
  BY <1>1 DEF FwdInv, TypeOK, Enter, walk, service
<1>3. OnPlan(c)'
  <2>1. p = "handler" => idx[c] = Len(Plan[c]) + 1
    BY <1>1, PlanFact DEF FwdInv, TypeOK
  <2> QED BY <1>1, <1>2, <2>1 DEF FwdInv, WalkInv, OnPlan
<1>4. RanInv' /\ RevisitNeverRuns'
  BY <1>1, <1>2 DEF FwdInv, RanInv, RevisitNeverRuns
<1> QED BY <1>1, <1>2, <1>3, <1>4, PhaseStep DEF FwdInv, TypeOK

(* The handler takes effect. *)
LEMMA ApplyStep ==
  ASSUME FwdInv, NEW c \in Calls, Apply(c)
  PROVE  FwdInv'
<1>1. /\ phase[c] = "handler" /\ Enter(c, "returning")
      /\ score' = Wrapped(score + Delta[c])
      /\ ran' = [ran EXCEPT ![c] = @ + 1]
      /\ UNCHANGED <<walk, abandoned, pool, halt, poisoned>>
  BY DEF Apply
<1>2. /\ phase'[c] = "returning" /\ \A d \in Calls : d # c => phase'[d] = phase[d]
      /\ ran[c] = 0 /\ ran'[c] = 1 /\ \A d \in Calls : d # c => ran'[d] = ran[d]
      /\ ran' \in [Calls -> Nat]
  BY <1>1 DEF FwdInv, TypeOK, RanInv, Enter
<1>3. score' \in MinScore .. MaxScore
  <2>1. score \in Int /\ Delta[c] \in Int
    BY ForwardAssumption DEF FwdInv, TypeOK
  <2>2. score + Delta[c] \in Int
    BY <2>1
  <2> QED BY <1>1, <2>2, WrappedFact
<1>4. RanInv'
  BY <1>2 DEF FwdInv, RanInv
<1>5. RevisitNeverRuns'
  <2>1. ~Revisits(c)
    BY <1>1, ReachedEnd DEF FwdInv, TypeOK, WalkInv, OnPlan
  <2> QED BY <1>2, <2>1 DEF FwdInv, RevisitNeverRuns
<1>6. OnPlan(c)'
  BY <1>2, OnPlanLeft
<1> QED BY <1>1, <1>2, <1>3, <1>4, <1>5, <1>6, PhaseStep DEF FwdInv, TypeOK

(* The handler panics, the outcome reaches the caller, or the future of a  *)
(* handler that runs in the caller's task is dropped.                      *)
LEMMA OutcomeStep ==
  ASSUME FwdInv, NEW c \in Calls, ApplyPanic(c) \/ Finish(c) \/ Cancel(c)
  PROVE  FwdInv'
<1>1. CASE Cancel(c) /\ UNCHANGED phase
  <2>1. /\ UNCHANGED <<phase, idx, loc, stack, queue, running, alive, called, stopping, score,
                       poisoned, ran>>
        /\ abandoned' \subseteq AsyncCalls
    BY <1>1 DEF Cancel, walk, pool, halt, service, FwdInv, TypeOK
  <2>2. TypeOK' /\ OneJobPerThread' /\ QueueInv' /\ NoLostJob' /\ RanInv' /\ RevisitNeverRuns'
    BY <2>1 DEF FwdInv, TypeOK, OneJobPerThread, QueueInv, NoLostJob, RanInv, RevisitNeverRuns
  <2>3. WalkInv'
    BY <2>1, OnPlanKept DEF FwdInv, WalkInv
  <2> QED BY <2>2, <2>3 DEF FwdInv
<1>2. CASE ~(Cancel(c) /\ UNCHANGED phase)
  <2>1. PICK p \in {"unwinding"} \cup Finals :
          /\ Enter(c, p) /\ UNCHANGED <<walk, pool, halt, score, ran>>
          /\ phase[c] \in {"handler", "returning", "unwinding"}
          /\ p \in {"unwinding", "panic"} => phase[c] # "returning"
          /\ p = "Ok" => phase[c] = "returning"
          /\ abandoned' \subseteq AsyncCalls /\ poisoned' \in BOOLEAN
    <3>1. CASE ApplyPanic(c)
      BY <3>1 DEF ApplyPanic, FwdInv, TypeOK
    <3>2. CASE Finish(c)
      BY <3>2 DEF Finish, Finals, FwdInv, TypeOK, service
    <3>3. CASE Cancel(c)
      BY <1>2, <3>3 DEF Cancel, Finals, FwdInv, TypeOK, service
    <3> QED BY <3>1, <3>2, <3>3
  <2>2. phase'[c] = p /\ \A d \in Calls : d # c => phase'[d] = phase[d]
    BY <2>1 DEF FwdInv, TypeOK, Enter
  <2>3. RanInv' /\ RevisitNeverRuns'
    BY <2>1, <2>2 DEF FwdInv, RanInv, RevisitNeverRuns, Finals
  <2>4. OnPlan(c)'
    BY <2>1, <2>2, OnPlanLeft
  <2> QED BY <2>1, <2>3, <2>4, PhaseStep DEF FwdInv, TypeOK
<1> QED BY <1>1, <1>2

(* The cursor passes a step: it stays where it is, or changes its location *)
(* to a site that exists.                                                  *)
LEMMA CursorStep ==
  ASSUME FwdInv, NEW c \in Calls, StepHere(c) \/ StepRpc(c)
  PROVE  FwdInv'
<1> DEFINE P == Plan[c]
<1>a. phase[c] = "cursor" /\ idx[c] \in 1 .. Len(P) /\ Reached(c, idx[c], loc[c], stack[c])
  BY PlanFact DEF FwdInv, TypeOK, WalkInv, OnPlan, StepHere, StepRpc, AtStep
<1>1. CASE StepRpc(c) /\ P[idx[c]].name \notin Sites
  <2>1. Enter(c, "unwinding") /\ UNCHANGED <<walk, abandoned, pool, halt, service>>
    BY <1>1 DEF StepRpc, walk
  <2>2. phase'[c] = "unwinding" /\ \A d \in Calls : d # c => phase'[d] = phase[d]
    BY <2>1 DEF FwdInv, TypeOK, Enter
  <2>3. RanInv' /\ RevisitNeverRuns'
    BY <2>1, <2>2, <1>a DEF FwdInv, RanInv, RevisitNeverRuns, service
  <2>4. OnPlan(c)'
    BY <2>2, OnPlanLeft
  <2> QED BY <2>1, <2>3, <2>4, <1>a, PhaseStep DEF FwdInv, TypeOK, service
<1>2. CASE ~(StepRpc(c) /\ P[idx[c]].name \notin Sites)
  <2>1. /\ Forward(c) /\ UNCHANGED <<phase, stack, abandoned, pool, halt, service>>
        /\ \/ P[idx[c]].kind = "Rpc" /\ P[idx[c]].name \in Sites
              /\ loc' = [loc EXCEPT ![c] = P[idx[c]]]
           \/ loc[c] = P[idx[c]] /\ UNCHANGED loc
    BY <1>2 DEF StepHere, StepRpc, AtStep, Here
  <2>2. /\ UNCHANGED <<phase, stack, abandoned, queue, running, alive, called, stopping, score,
                       poisoned, ran>>
        /\ idx'[c] = idx[c] + 1 /\ \A d \in Calls : d # c => idx'[d] = idx[d] /\ loc'[d] = loc[d]
        /\ loc'[c] = P[idx[c]]
        /\ idx' \in [Calls -> Nat]
    BY <2>1, <1>a, PlanFact DEF Forward, pool, halt, service, FwdInv, TypeOK
  <2>3. loc' \in [Calls -> Locations]
    <3>1. P[idx[c]].kind = "Rpc" /\ P[idx[c]].name \in Sites => P[idx[c]] \in Locations
      <4>1. P[idx[c]].kind = "Rpc" => P[idx[c]] = [kind |-> "Rpc", name |-> P[idx[c]].name]
        BY <1>a, PlanFact
      <4> QED BY <4>1 DEF Locations
    <3> QED BY <2>1, <3>1 DEF FwdInv, TypeOK
  <2>4. TypeOK'
    <3>1. \A d \in Calls : idx'[d] \in 1 .. Len(Plan[d]) + 1
      <4>1. idx[c] + 1 \in 1 .. Len(P) + 1
        BY <1>a, PlanFact
      <4>2. \A d \in Calls : idx[d] \in 1 .. Len(Plan[d]) + 1
        BY DEF FwdInv, TypeOK
      <4> QED BY <2>2, <4>1, <4>2
    <3> QED BY <2>2, <2>3, <3>1 DEF FwdInv, TypeOK
  <2>5. OneJobPerThread' /\ QueueInv' /\ NoLostJob' /\ RanInv' /\ RevisitNeverRuns'
    BY <2>2 DEF FwdInv, OneJobPerThread, QueueInv, NoLostJob, RanInv, RevisitNeverRuns
  <2>6. OnPlan(c)'
    <3>1. idx[c] <= Len(P)
      BY <1>a
    <3>2. Reached(c, idx[c] + 1, P[idx[c]], stack[c])
      BY <1>a, <2>1, <3>1, ReachedHere, ReachedRpc
    <3> QED BY <1>a, <2>2, <3>2 DEF OnPlan
  <2>7. WalkInv'
    BY <2>2, <2>6, OnPlanKept DEF FwdInv, WalkInv
  <2> QED BY <2>4, <2>5, <2>7 DEF FwdInv
<1> QED BY <1>1, <1>2

(* The cursor sends its call to an executor. *)
LEMMA ThreadStep ==
  ASSUME FwdInv, NEW c \in Calls, StepThread(c)
  PROVE  FwdInv'
<1> DEFINE P == Plan[c]
<1> DEFINE t == P[idx[c]].name
<1>a. /\ phase[c] = "cursor" /\ idx[c] \in 1 .. Len(P) /\ Reached(c, idx[c], loc[c], stack[c])
      /\ P[idx[c]].kind = "Thread"
  BY PlanFact DEF FwdInv, TypeOK, WalkInv, OnPlan, StepThread, AtStep
<1>1. CASE t \notin alive
  <2>1. Enter(c, "unwinding") /\ UNCHANGED <<walk, abandoned, pool, halt, service>>
    BY <1>1 DEF StepThread, walk, pool
  <2>2. phase'[c] = "unwinding" /\ \A d \in Calls : d # c => phase'[d] = phase[d]
    BY <2>1 DEF FwdInv, TypeOK, Enter
  <2>3. RanInv' /\ RevisitNeverRuns'
    BY <2>1, <2>2, <1>a DEF FwdInv, RanInv, RevisitNeverRuns, service
  <2>4. OnPlan(c)'
    BY <2>2, OnPlanLeft
  <2> QED BY <2>1, <2>3, <2>4, <1>a, PhaseStep DEF FwdInv, TypeOK, service
<1>2. CASE t \in alive
  <2>1. /\ t \in Threads /\ queue[t] \in Seq(Calls \cup {Stop})
        /\ queue'[t] = Append(queue[t], c)
        /\ \A u \in Threads : u # t => queue'[u] = queue[u]
        /\ queue' \in [Threads -> Seq(Calls \cup {Stop})]
    <3>1. t \in Threads /\ queue[t] \in Seq(Calls \cup {Stop})
      BY <1>2 DEF FwdInv, TypeOK
    <3>2. queue' = [queue EXCEPT ![t] = Append(queue[t], c)]
      BY <1>2 DEF StepThread
    <3>3. Append(queue[t], c) \in Seq(Calls \cup {Stop})
      BY <3>1, AppendFact
    <3> QED BY <3>1, <3>2, <3>3 DEF FwdInv, TypeOK
  <2>2. /\ phase'[c] = "queued" /\ \A d \in Calls : d # c => phase'[d] = phase[d] /\ idx'[d] = idx[d]
        /\ phase' \in [Calls -> {"new", "cursor", "queued", "handler", "returning",
                                 "unwinding"} \cup Finals]
        /\ idx'[c] = idx[c] + 1 /\ idx' \in [Calls -> Nat]
        /\ UNCHANGED <<loc, stack, abandoned, running, alive, called, stopping, score, poisoned, ran>>
    <3>1. /\ phase' = [phase EXCEPT ![c] = "queued"] /\ idx' = [idx EXCEPT ![c] = idx[c] + 1]
          /\ UNCHANGED <<loc, stack, abandoned, running, alive, halt, service>>
      BY <1>2 DEF StepThread, Enter, Forward
    <3>2. idx[c] + 1 \in Nat
      BY <1>a, PlanFact
    <3> QED BY <3>1, <3>2 DEF FwdInv, TypeOK, halt, service
  <2>3. /\ ToSet(queue'[t]) = ToSet(queue[t]) \cup {c}
        /\ IsInjective(queue[t]) /\ c \notin ToSet(queue[t]) => IsInjective(queue'[t])
    BY <2>1, AppendFact
  <2>4. \A u \in Threads : c \notin ToSet(queue[u])
    BY <1>a, EmptyFact DEF FwdInv, NoLostJob, QueueInv
  <2>5. TypeOK'
    <3>1. \A d \in Calls : idx'[d] \in 1 .. Len(Plan[d]) + 1
      <4>1. idx[c] + 1 \in 1 .. Len(P) + 1
        BY <1>a, PlanFact
      <4>2. \A d \in Calls : idx[d] \in 1 .. Len(Plan[d]) + 1
        BY DEF FwdInv, TypeOK
      <4> QED BY <2>2, <4>1, <4>2
    <3> QED BY <2>1, <2>2, <3>1 DEF FwdInv, TypeOK
  <2>6. OneJobPerThread' /\ RanInv' /\ RevisitNeverRuns'
    BY <1>a, <2>2 DEF FwdInv, OneJobPerThread, RanInv, RevisitNeverRuns
  <2>7. QueueInv'
    <3>1. \A u \in Threads : IsInjective(queue'[u])
      BY <2>1, <2>3, <2>4 DEF FwdInv, QueueInv
    <3>2. \A u \in Threads \ alive : queue'[u] = <<>> /\ running'[u] = NoCall
      BY <1>2, <2>1, <2>2 DEF FwdInv, QueueInv
    <3>3. \A u, v \in Threads, d \in Calls :
            d \in ToSet(queue'[u]) /\ d \in ToSet(queue'[v]) => u = v
      <4>1. \A u \in Threads, d \in Calls :
              d \in ToSet(queue'[u]) <=> d \in ToSet(queue[u]) \/ (u = t /\ d = c)
        BY <2>1, <2>3
      <4> HIDE DEF t
      <4> QED BY <2>4, <4>1 DEF FwdInv, QueueInv
    <3>4. \A u \in Threads : ~called \/ u \in stopping => Stop \notin ToSet(queue'[u])
      BY <2>1, <2>3, ForwardAssumption DEF FwdInv, QueueInv
    <3> QED BY <2>2, <3>1, <3>2, <3>3, <3>4 DEF FwdInv, QueueInv
  <2>8. NoLostJob'
    BY <1>2, <2>1, <2>2, <2>3, <2>4 DEF FwdInv, TypeOK, NoLostJob
  <2>9. OnPlan(c)'
    <3>1. idx'[c] - 1 = idx[c] /\ idx[c] <= Len(P)
      BY <1>a, <2>2
    <3>2. Sent(c)'
      BY <1>a, <2>1, <2>2, <2>3, <3>1 DEF Sent
    <3> QED BY <2>2, <3>2 DEF OnPlan
  <2>10. WalkInv'
    BY <2>1, <2>2, <2>3, <2>9, OnPlanKept DEF FwdInv, WalkInv
  <2> QED BY <2>5, <2>6, <2>7, <2>8, <2>10 DEF FwdInv
<1> QED BY <1>1, <1>2

(* A thread takes a job from its queue. *)
LEMMA TakeJobStep ==
  ASSUME FwdInv, NEW t \in Threads, TakeJob(t)
  PROVE  FwdInv'
<1>0. PICK c : c = Head(queue[t])
  OBVIOUS
<1>1. /\ t \in alive /\ running[t] = NoCall /\ queue[t] # <<>> /\ c # Stop
      /\ queue[t] \in Seq(Calls \cup {Stop})
  BY <1>0 DEF TakeJob, FwdInv, TypeOK
<1>2. /\ c \in Calls /\ c \in ToSet(queue[t])
      /\ Tail(queue[t]) \in Seq(Calls \cup {Stop})
      /\ ToSet(queue[t]) = ToSet(Tail(queue[t])) \cup {c}
      /\ IsInjective(Tail(queue[t])) /\ c \notin ToSet(Tail(queue[t]))
  BY <1>0, <1>1, TailFact DEF FwdInv, QueueInv
<1>3. /\ queue'[t] = Tail(queue[t]) /\ \A u \in Threads : u # t => queue'[u] = queue[u]
      /\ queue' \in [Threads -> Seq(Calls \cup {Stop})]
  BY <1>2 DEF TakeJob, FwdInv, TypeOK
<1>4. /\ running'[t] = c /\ \A u \in Threads : u # t => running'[u] = running[u]
      /\ running' \in [Threads -> Calls \cup {NoCall}]
  BY <1>0, <1>2 DEF TakeJob, FwdInv, TypeOK
<1>5. /\ phase'[c] = "cursor" /\ stack'[c] = Append(stack[c], t)
      /\ loc'[c] = [kind |-> "Thread", name |-> t]
      /\ \A d \in Calls : d # c => phase'[d] = phase[d] /\ stack'[d] = stack[d] /\ loc'[d] = loc[d]
      /\ UNCHANGED <<idx, abandoned, alive, called, stopping, score, poisoned, ran>>
  BY <1>0, <1>2 DEF TakeJob, Enter, FwdInv, TypeOK, halt, service
<1>6. /\ stack' \in [Calls -> Seq(Threads)]
      /\ phase' \in [Calls -> {"new", "cursor", "queued", "handler", "returning",
                               "unwinding"} \cup Finals]
  BY <1>0, <1>2 DEF TakeJob, Enter, FwdInv, TypeOK
<1>7. loc' \in [Calls -> Locations]
  <2>1. [kind |-> "Thread", name |-> t] \in Locations
    BY DEF Locations
  <2> QED BY <1>0, <1>2, <2>1 DEF TakeJob, FwdInv, TypeOK
<1>8. phase[c] = "queued" /\ Sent(c) /\ stack[c] \in Seq(Threads)
  BY <1>1, <1>2 DEF FwdInv, TypeOK, NoLostJob, WalkInv, OnPlan
<1>9. \A d \in Calls : t \notin ToSet(stack[d])
  BY <1>1, ForwardAssumption DEF FwdInv, OneJobPerThread
<1>10. /\ ToSet(stack'[c]) = ToSet(stack[c]) \cup {t}
       /\ IsInjective(stack[c]) => IsInjective(stack'[c])
  BY <1>2, <1>5, <1>8, <1>9, AppendFact
<1>11. TypeOK'
  BY <1>3, <1>4, <1>5, <1>6, <1>7 DEF FwdInv, TypeOK
<1>12. OneJobPerThread'
  <2>1. ASSUME NEW u \in Threads, NEW d \in Calls
        PROVE  running'[u] = d <=> u \in ToSet(stack'[d])
    <3>1. running[u] = d <=> u \in ToSet(stack[d])
      BY DEF FwdInv, OneJobPerThread
    <3>2. CASE u = t
      BY <1>4, <1>5, <1>9, <1>10, <3>2
    <3>3. CASE u # t
      BY <1>4, <1>5, <1>10, <3>1, <3>3
    <3> QED BY <3>2, <3>3
  <2>2. \A d \in Calls : IsInjective(stack'[d])
    BY <1>5, <1>10 DEF FwdInv, OneJobPerThread
  <2> QED BY <2>1, <2>2 DEF OneJobPerThread
<1>13. QueueInv'
  <2>1. \A u \in Threads : ToSet(queue'[u]) \subseteq ToSet(queue[u])
    BY <1>2, <1>3
  <2>2. \A u \in Threads : IsInjective(queue'[u])
    BY <1>2, <1>3 DEF FwdInv, QueueInv
  <2>3. \A u \in Threads \ alive' : queue'[u] = <<>> /\ running'[u] = NoCall
    BY <1>1, <1>3, <1>4, <1>5 DEF FwdInv, QueueInv
  <2>4. \A u, v \in Threads, d \in Calls :
          d \in ToSet(queue'[u]) /\ d \in ToSet(queue'[v]) => u = v
    BY <2>1 DEF FwdInv, QueueInv
  <2>5. /\ ~called' => stopping' = {}
        /\ \A u \in Threads : ~called' \/ u \in stopping' => Stop \notin ToSet(queue'[u])
    BY <2>1, <1>5 DEF FwdInv, QueueInv
  <2> QED BY <2>2, <2>3, <2>4, <2>5 DEF QueueInv
<1>14. NoLostJob'
  <2>1. \A u \in Threads : c \notin ToSet(queue'[u])
    BY <1>2, <1>3 DEF FwdInv, QueueInv
  <2>2. \A d \in Calls, u \in Threads : d # c => (d \in ToSet(queue'[u]) <=> d \in ToSet(queue[u]))
    BY <1>2, <1>3
  <2>3. alive \subseteq Threads /\ alive' = alive
    BY <1>5 DEF FwdInv, TypeOK
  <2>4. ASSUME NEW d \in Calls
        PROVE  phase'[d] = "queued" <=> \E u \in alive : d \in ToSet(queue'[u])
    <3>1. CASE d = c
      BY <1>5, <2>1, <2>3, <3>1
    <3>2. CASE d # c
      BY <1>5, <2>2, <2>3, <3>2 DEF FwdInv, NoLostJob
    <3> QED BY <3>1, <3>2
  <2> QED BY <2>3, <2>4 DEF NoLostJob
<1>15. RanInv' /\ RevisitNeverRuns'
  BY <1>2, <1>5, <1>8 DEF FwdInv, RanInv, RevisitNeverRuns
<1>16. OnPlan(c)'
  <2> DEFINE n == idx[c] - 1
  <2>1. /\ Plan[c][n].name = t /\ n <= Len(Plan[c]) /\ Plan[c][n].kind = "Thread"
        /\ Reached(c, n, loc[c], stack[c]) /\ n + 1 = idx[c]
    BY <1>2, <1>8 DEF FwdInv, TypeOK, QueueInv, Sent
  <2> HIDE DEF n
  <2>2. Reached(c, n + 1, [kind |-> "Thread", name |-> t], Append(stack[c], t))
    BY <1>2, <1>8, <1>9, <2>1, ReachedHop
  <2> QED BY <1>5, <2>1, <2>2 DEF OnPlan
<1>17. WalkInv'
  BY <1>2, <1>3, <1>5, <1>16, OnPlanKept DEF FwdInv, WalkInv
<1> QED BY <1>11, <1>12, <1>13, <1>14, <1>15, <1>17 DEF FwdInv

(* The thread of an executor ends: on Shutdown when it is idle, or because *)
(* a panic unwinds the job it carries out.                                 *)
LEMMA EndsStep ==
  ASSUME FwdInv, NEW t \in Threads, t \in alive, Ends(t, phase),
         UNCHANGED <<idx, loc, abandoned, halt, service>>,
         stack' \in [Calls -> Seq(Threads)],
         \A c \in Calls : /\ stack'[c] = stack[c] \/ phase[c] = "unwinding"
                          /\ ToSet(stack'[c]) = ToSet(stack[c]) \ {t}
                          /\ IsInjective(stack'[c])
  PROVE  FwdInv'
<1>1. /\ queue'[t] = <<>> /\ \A u \in Threads : u # t => queue'[u] = queue[u]
      /\ queue' \in [Threads -> Seq(Calls \cup {Stop})]
      /\ alive' = alive \ {t}
      /\ running'[t] = NoCall /\ \A u \in Threads : u # t => running'[u] = running[u]
      /\ running' \in [Threads -> Calls \cup {NoCall}]
      /\ \A c \in Calls : phase'[c] = IF c \in ToSet(queue[t]) THEN "unwinding" ELSE phase[c]
      /\ phase' \in [Calls -> {"new", "cursor", "queued", "handler", "returning",
                               "unwinding"} \cup Finals]
      /\ UNCHANGED <<idx, loc, abandoned, called, stopping, score, poisoned, ran>>
  BY DEF Ends, FwdInv, TypeOK, halt, service
<1>2. \A c \in Calls : c \in ToSet(queue[t]) => phase[c] = "queued"
  BY DEF FwdInv, NoLostJob
<1>3. TypeOK'
  BY <1>1 DEF FwdInv, TypeOK
<1>4. OneJobPerThread'
  <2>1. ASSUME NEW u \in Threads, NEW c \in Calls
        PROVE  running'[u] = c <=> u \in ToSet(stack'[c])
    <3>1. running[u] = c <=> u \in ToSet(stack[c])
      BY DEF FwdInv, OneJobPerThread
    <3>2. CASE u = t
      BY <1>1, <3>2, ForwardAssumption
    <3>3. CASE u # t
      BY <1>1, <3>1, <3>3
    <3> QED BY <3>2, <3>3
  <2> QED BY <2>1 DEF OneJobPerThread
<1>5. QueueInv'
  BY <1>1, EmptyFact DEF FwdInv, QueueInv
<1>6. NoLostJob'
  BY <1>1, EmptyFact DEF FwdInv, TypeOK, QueueInv, NoLostJob
<1>7. RanInv' /\ RevisitNeverRuns'
  BY <1>1, <1>2 DEF FwdInv, RanInv, RevisitNeverRuns
<1>8. WalkInv'
  <2> SUFFICES ASSUME NEW d \in Calls PROVE OnPlan(d)'
    BY DEF WalkInv
  <2>1. CASE phase'[d] = "unwinding"
    BY <2>1, OnPlanLeft
  <2>2. CASE phase'[d] # "unwinding"
    BY <1>1, <2>2, OnPlanKept DEF FwdInv, WalkInv
  <2> QED BY <2>1, <2>2
<1> QED BY <1>3, <1>4, <1>5, <1>6, <1>7, <1>8 DEF FwdInv

LEMMA TakeStopStep ==
  ASSUME FwdInv, NEW t \in Threads, TakeStop(t)
  PROVE  FwdInv'
<1>1. \A c \in Calls : t \notin ToSet(stack[c])
  BY ForwardAssumption DEF TakeStop, FwdInv, OneJobPerThread
<1>2. /\ t \in alive /\ Ends(t, phase)
      /\ UNCHANGED <<idx, loc, stack, abandoned, halt, service>>
  BY DEF TakeStop, walk
<1>3. stack' \in [Calls -> Seq(Threads)]
  BY <1>2 DEF FwdInv, TypeOK
<1>4. \A c \in Calls : /\ stack'[c] = stack[c] \/ phase[c] = "unwinding"
                       /\ ToSet(stack'[c]) = ToSet(stack[c]) \ {t}
                       /\ IsInjective(stack'[c])
  BY <1>1, <1>2 DEF FwdInv, OneJobPerThread
<1> QED BY <1>2, <1>3, <1>4, EndsStep

(* The innermost executor of a call, whose job the call occupies. *)
LEMMA InnermostFact ==
  ASSUME FwdInv, NEW c \in Calls, stack[c] # <<>>
  PROVE  LET t == Last(stack[c])
         IN  /\ t \in alive /\ t \in Threads /\ running[t] = c
             /\ Front(stack[c]) \in Seq(Threads) /\ IsInjective(Front(stack[c]))
             /\ ToSet(Front(stack[c])) = ToSet(stack[c]) \ {t}
             /\ \A d \in Calls : d # c => t \notin ToSet(stack[d])
<1>1. stack[c] \in Seq(Threads) /\ IsInjective(stack[c])
  BY DEF FwdInv, TypeOK, OneJobPerThread
<1>2. /\ Last(stack[c]) \in Threads /\ Last(stack[c]) \in ToSet(stack[c])
      /\ Front(stack[c]) \in Seq(Threads) /\ IsInjective(Front(stack[c]))
      /\ ToSet(stack[c]) = ToSet(Front(stack[c])) \cup {Last(stack[c])}
      /\ Last(stack[c]) \notin ToSet(Front(stack[c]))
  BY <1>1, FrontFact
<1>3. /\ running[Last(stack[c])] = c
      /\ \A d \in Calls : d # c => Last(stack[c]) \notin ToSet(stack[d])
  BY <1>2 DEF FwdInv, OneJobPerThread
<1>4. Last(stack[c]) \in alive
  BY <1>2, <1>3, ForwardAssumption DEF FwdInv, QueueInv
<1> QED BY <1>2, <1>3, <1>4

LEMMA UnwindStep ==
  ASSUME FwdInv, NEW c \in Calls, Unwind(c)
  PROVE  FwdInv'
<1>0. PICK t : t = Last(stack[c])
  OBVIOUS
<1>1. /\ phase[c] = "unwinding" /\ stack[c] # <<>> /\ Ends(t, phase)
      /\ stack' = [stack EXCEPT ![c] = Front(@)]
      /\ UNCHANGED <<idx, loc, abandoned, halt, service>>
  BY <1>0 DEF Unwind
<1>2. /\ t \in Threads /\ running[t] = c
      /\ Front(stack[c]) \in Seq(Threads) /\ IsInjective(Front(stack[c]))
      /\ ToSet(Front(stack[c])) = ToSet(stack[c]) \ {t}
      /\ \A d \in Calls : d # c => t \notin ToSet(stack[d])
      /\ t \in alive
  BY <1>0, <1>1, InnermostFact
<1>3. stack'[c] = Front(stack[c]) /\ \A d \in Calls : d # c => stack'[d] = stack[d]
  BY <1>1 DEF FwdInv, TypeOK
<1>4. stack' \in [Calls -> Seq(Threads)]
  BY <1>1, <1>2 DEF FwdInv, TypeOK
<1>5. \A d \in Calls : /\ stack'[d] = stack[d] \/ phase[d] = "unwinding"
                       /\ ToSet(stack'[d]) = ToSet(stack[d]) \ {t}
                       /\ IsInjective(stack'[d])
  BY <1>1, <1>2, <1>3 DEF FwdInv, OneJobPerThread
<1> QED BY <1>1, <1>2, <1>4, <1>5, EndsStep

(* A job sends its outcome back and is done. *)
LEMMA LeaveStep ==
  ASSUME FwdInv, NEW c \in Calls, Leave(c)
  PROVE  FwdInv'
<1>0. PICK t : t = Last(stack[c])
  OBVIOUS
<1>1. /\ phase[c] = "returning" /\ stack[c] # <<>>
      /\ running' = [running EXCEPT ![t] = NoCall]
      /\ stack' = [stack EXCEPT ![c] = Front(@)]
      /\ UNCHANGED <<phase, idx, loc, abandoned, queue, alive, called, stopping, score, poisoned, ran>>
  BY <1>0 DEF Leave, halt, service
<1>2. /\ t \in Threads /\ running[t] = c
      /\ Front(stack[c]) \in Seq(Threads) /\ IsInjective(Front(stack[c]))
      /\ ToSet(Front(stack[c])) = ToSet(stack[c]) \ {t}
      /\ \A d \in Calls : d # c => t \notin ToSet(stack[d])
      /\ t \in alive
  BY <1>0, <1>1, InnermostFact
<1>3. /\ stack'[c] = Front(stack[c]) /\ \A d \in Calls : d # c => stack'[d] = stack[d]
      /\ running'[t] = NoCall /\ \A u \in Threads : u # t => running'[u] = running[u]
  BY <1>1, <1>2 DEF FwdInv, TypeOK
<1>4. TypeOK'
  BY <1>1, <1>2 DEF FwdInv, TypeOK
<1>5. OneJobPerThread'
  BY <1>2, <1>3, ForwardAssumption DEF FwdInv, OneJobPerThread
<1>6. QueueInv' /\ NoLostJob' /\ RanInv' /\ RevisitNeverRuns'
  BY <1>1 DEF FwdInv, QueueInv, NoLostJob, RanInv, RevisitNeverRuns
<1>7. WalkInv'
  <2>1. OnPlan(c)'
    BY <1>1, OnPlanLeft
  <2> QED BY <1>1, <1>3, <2>1, OnPlanKept DEF FwdInv, WalkInv
<1> QED BY <1>4, <1>5, <1>6, <1>7 DEF FwdInv

(* Registry::shutdown begins, or sends its command to one executor. *)
LEMMA ShutdownStep ==
  ASSUME FwdInv, Shutdown \/ \E t \in Threads : ShutdownSend(t)
  PROVE  FwdInv'
<1>1. CASE Shutdown
  <2>1. /\ ~called /\ called' = TRUE /\ stopping' = Threads
        /\ UNCHANGED <<phase, idx, loc, stack, abandoned, queue, running, alive, score, poisoned, ran>>
    BY <1>1 DEF Shutdown, walk, pool, service
  <2>2. TypeOK' /\ OneJobPerThread' /\ QueueInv' /\ NoLostJob' /\ RanInv' /\ RevisitNeverRuns'
    BY <2>1 DEF FwdInv, TypeOK, OneJobPerThread, QueueInv, NoLostJob, RanInv, RevisitNeverRuns
  <2>3. WalkInv'
    BY <2>1, OnPlanKept DEF FwdInv, WalkInv
  <2> QED BY <2>2, <2>3 DEF FwdInv
<1>2. ASSUME NEW t \in Threads, ShutdownSend(t) PROVE FwdInv'
  <2>1. /\ t \in stopping /\ stopping' = stopping \ {t}
        /\ UNCHANGED <<phase, idx, loc, stack, abandoned, running, alive, called, score, poisoned, ran>>
        /\ \A u \in Threads : u # t \/ t \notin alive => queue'[u] = queue[u]
        /\ t \in alive => queue'[t] = Append(queue[t], Stop)
        /\ queue[t] \in Seq(Calls \cup {Stop})
    BY <1>2 DEF ShutdownSend, FwdInv, TypeOK, walk, service
  <2>2. /\ t \in alive => ToSet(queue'[t]) = ToSet(queue[t]) \cup {Stop}
        /\ IsInjective(queue'[t])
    <3>1. Stop \notin ToSet(queue[t]) /\ IsInjective(queue[t])
      BY <2>1 DEF FwdInv, QueueInv
    <3>2. /\ ToSet(Append(queue[t], Stop)) = ToSet(queue[t]) \cup {Stop}
          /\ IsInjective(Append(queue[t], Stop))
      BY <2>1, <3>1, AppendFact
    <3> QED BY <2>1, <3>1, <3>2
  <2>3. \A u \in Threads, d \in Calls : d \in ToSet(queue'[u]) <=> d \in ToSet(queue[u])
    BY <2>1, <2>2, ForwardAssumption
  <2>4. TypeOK'
    <3>1. queue' \in [Threads -> Seq(Calls \cup {Stop})]
      BY <1>2 DEF ShutdownSend, FwdInv, TypeOK
    <3> QED BY <2>1, <3>1 DEF FwdInv, TypeOK
  <2>5. OneJobPerThread' /\ RanInv' /\ RevisitNeverRuns'
    BY <2>1 DEF FwdInv, OneJobPerThread, RanInv, RevisitNeverRuns
  <2>6. QueueInv'
    <3>1. \A u \in Threads : IsInjective(queue'[u])
      BY <2>1, <2>2 DEF FwdInv, QueueInv
    <3>2. \A u \in Threads \ alive : queue'[u] = <<>> /\ running'[u] = NoCall
      BY <2>1 DEF FwdInv, QueueInv
    <3>3. \A u \in Threads : ~called \/ u \in stopping' => Stop \notin ToSet(queue'[u])
      <4>1. t \notin stopping' /\ \A u \in Threads : u # t => (u \in stopping' <=> u \in stopping)
        BY <2>1
      <4>2. called
        BY <2>1 DEF FwdInv, QueueInv
      <4> QED BY <2>1, <4>1, <4>2 DEF FwdInv, QueueInv
    <3> QED BY <2>1, <2>3, <3>1, <3>2, <3>3 DEF FwdInv, QueueInv
  <2>7. NoLostJob'
    BY <2>1, <2>3 DEF FwdInv, TypeOK, NoLostJob
  <2>8. WalkInv'
    BY <2>1, <2>3, OnPlanKept DEF FwdInv, WalkInv
  <2> QED BY <2>4, <2>5, <2>6, <2>7, <2>8 DEF FwdInv
<1> QED BY <1>1, <1>2

(* Every step preserves the invariant. *)
LEMMA FwdStep == FwdInv /\ [Next]_vars => FwdInv'
<1> SUFFICES ASSUME FwdInv, [Next]_vars PROVE FwdInv'
  OBVIOUS
<1>1. ASSUME NEW c \in Calls, Cursor(c) PROVE FwdInv'
  BY <1>1, StartStep, CursorStep, ThreadStep DEF Cursor
<1>2. ASSUME NEW c \in Calls, Outcome(c) PROVE FwdInv'
  BY <1>2, StartStep, ApplyStep, OutcomeStep, LeaveStep, UnwindStep DEF Outcome
<1>3. ASSUME NEW c \in Calls, Cancel(c) PROVE FwdInv'
  BY <1>3, OutcomeStep
<1>4. ASSUME NEW t \in Threads, Executor(t) PROVE FwdInv'
  BY <1>4, TakeJobStep, TakeStopStep DEF Executor
<1>5. CASE Shutdown \/ \E t \in Threads : ShutdownSend(t)
  BY <1>5, ShutdownStep
<1>6. CASE UNCHANGED vars
  <2>1. UNCHANGED <<phase, idx, loc, stack, abandoned, queue, running, alive, called, stopping, score,
                    poisoned, ran>>
    BY <1>6 DEF vars, walk, pool, halt, service
  <2>2. TypeOK' /\ OneJobPerThread' /\ QueueInv' /\ NoLostJob' /\ RanInv' /\ RevisitNeverRuns'
    BY <2>1 DEF FwdInv, TypeOK, OneJobPerThread, QueueInv, NoLostJob, RanInv, RevisitNeverRuns
  <2>3. WalkInv'
    BY <2>1, OnPlanKept DEF FwdInv, WalkInv
  <2> QED BY <2>2, <2>3 DEF FwdInv
<1> QED BY <1>1, <1>2, <1>3, <1>4, <1>5, <1>6 DEF Next

-----------------------------------------------------------------------------
(* What the handlers have added together *)

(* The recursion of MapThenSumSet over the calls: how a sum t of every set *)
(* of calls, when call c has run r[c] times, follows from smaller ones.    *)
Picked(s) == CHOOSE c \in s : TRUE
Sums(r, D, t) ==
  [s \in D |-> IF s = {} THEN 0
               ELSE r[Picked(s)] * Delta[Picked(s)] + t[s \ {Picked(s)}]]

(* A set with a member is chosen from, and is larger than what is left. *)
LEMMA PickedFact ==
  ASSUME NEW s \in SUBSET Calls, s # {}
  PROVE  /\ Picked(s) \in s /\ Picked(s) \in Calls /\ s \ {Picked(s)} \in SUBSET Calls
         /\ IsFiniteSet(s) /\ Cardinality(s) \in Nat
         /\ Cardinality(s \ {Picked(s)}) = Cardinality(s) - 1
<1>1. Picked(s) \in s
  BY DEF Picked
<1>2. IsFiniteSet(s) /\ Cardinality(s) \in Nat
  BY ForwardAssumption, FS_Subset, FS_CardinalityType
<1> QED BY <1>1, <1>2, FS_RemoveElement

(* The sums exist: those of the sets of n calls determine those of n + 1. *)
LEMMA SumsExist ==
  ASSUME NEW r
  PROVE  \E t : t = Sums(r, SUBSET Calls, t)
<1> DEFINE UpTo(n) == {s \in SUBSET Calls : Cardinality(s) <= n}
           P == {n \in Nat : \E t : t = Sums(r, UpTo(n), t)}
<1>1. 0 \in P
  <2>1. \A s \in UpTo(0) : s = {}
    <3>1. \A k \in Nat : k <= 0 => k = 0
      OBVIOUS
    <3> QED BY <3>1, ForwardAssumption, FS_Subset, FS_CardinalityType, FS_EmptySet
  <2>2. [s \in UpTo(0) |-> 0] = Sums(r, UpTo(0), [s \in UpTo(0) |-> 0])
    <3> HIDE DEF UpTo
    <3> QED BY <2>1 DEF Sums
  <2> QED BY <2>2
<1>2. ASSUME NEW n \in Nat, n \in P PROVE n + 1 \in P
  <2>1. PICK t : t = Sums(r, UpTo(n), t)
    BY <1>2
  <2>2. n + 1 \in Nat /\ n <= n + 1 /\ \A k \in Nat : k <= n + 1 => k - 1 <= n
    OBVIOUS
  <2>3. \A s \in UpTo(n + 1) : s # {} => s \ {Picked(s)} \in UpTo(n)
    BY <2>2, PickedFact
  <2>4. UpTo(n) \subseteq UpTo(n + 1)
    <3>1. \A k \in Nat : k <= n => k <= n + 1
      OBVIOUS
    <3> QED BY <3>1, ForwardAssumption, FS_Subset, FS_CardinalityType
  <2> DEFINE u == Sums(r, UpTo(n + 1), t)
  <2> HIDE DEF UpTo
  <2>5. \A s \in UpTo(n) : u[s] = t[s]
    BY <2>1, <2>4 DEF Sums
  <2>6. u = Sums(r, UpTo(n + 1), u)
    BY <2>3, <2>5 DEF Sums
  <2> QED BY <2>2, <2>6
<1>3. Nat \subseteq P
  <2> HIDE DEF P
  <2> QED BY <1>1, <1>2, NatSetInduction
<1>4. Cardinality(Calls) \in Nat /\ UpTo(Cardinality(Calls)) = SUBSET Calls
  BY ForwardAssumption, FS_Subset, FS_CardinalityType
<1> HIDE DEF UpTo
<1>5. \E t : t = Sums(r, UpTo(Cardinality(Calls)), t)
  BY <1>3, <1>4
<1> QED BY <1>4, <1>5

Total(r) == CHOOSE t : t = Sums(r, SUBSET Calls, t)

(* The sum satisfies its recursion. *)
LEMMA TotalFact ==
  ASSUME NEW r, NEW s \in SUBSET Calls
  PROVE  Total(r)[s] = IF s = {} THEN 0
                       ELSE r[Picked(s)] * Delta[Picked(s)] + Total(r)[s \ {Picked(s)}]
<1>1. Total(r) = Sums(r, SUBSET Calls, Total(r))
  BY SumsExist DEF Total
<1>2. Sums(r, SUBSET Calls, Total(r))[s] =
        IF s = {} THEN 0
        ELSE r[Picked(s)] * Delta[Picked(s)] + Total(r)[s \ {Picked(s)}]
  BY DEF Sums
<1> QED BY <1>1, <1>2

(* The sum is a number, and 0 before a handler has run. *)
LEMMA TotalType ==
  ASSUME NEW r \in [Calls -> Nat], NEW s \in SUBSET Calls
  PROVE  Total(r)[s] \in Int /\ ((\A c \in Calls : r[c] = 0) => Total(r)[s] = 0)
<1> DEFINE P == {u \in SUBSET Calls : /\ Total(r)[u] \in Int
                                      /\ (\A c \in Calls : r[c] = 0) => Total(r)[u] = 0}
<1>1. {} \in P
  BY TotalFact
<1>2. ASSUME NEW u \in SUBSET Calls, u # {}, \A x \in u : u \ {x} \in P
      PROVE  u \in P
  <2>1. Picked(u) \in u /\ Picked(u) \in Calls
    BY <1>2, PickedFact
  <2>2. r[Picked(u)] \in Int /\ Delta[Picked(u)] \in Int
    BY <2>1, ForwardAssumption
  <2>3. Total(r)[u] = r[Picked(u)] * Delta[Picked(u)] + Total(r)[u \ {Picked(u)}]
    BY <1>2, TotalFact
  <2>4. u \ {Picked(u)} \in P
    BY <1>2, <2>1
  <2>5. \A a, b, d \in Int : a * b + d \in Int /\ (a = 0 /\ d = 0 => a * b + d = 0)
    OBVIOUS
  <2> QED BY <2>1, <2>2, <2>3, <2>4, <2>5
<1>3. SUBSET Calls \subseteq P
  <2> HIDE DEF P
  <2> QED BY <1>1, <1>2, SubsetInduction, ForwardAssumption
<1> QED BY <1>3

(* A handler that takes effect adds its own part. *)
LEMMA TotalStep ==
  ASSUME NEW r \in [Calls -> Nat], NEW c \in Calls,
         NEW q \in [Calls -> Nat], q = [r EXCEPT ![c] = @ + 1]
  PROVE  Total(q)[Calls] = Total(r)[Calls] + Delta[c]
<1> DEFINE P == {u \in SUBSET Calls :
                   Total(q)[u] = Total(r)[u] + (IF c \in u THEN Delta[c] ELSE 0)}
<1>1. {} \in P
  <2>1. Total(q)[{}] = 0 /\ Total(r)[{}] = 0
    BY TotalFact
  <2> QED BY <2>1
<1>2. ASSUME NEW u \in SUBSET Calls, u # {}, \A x \in u : u \ {x} \in P
      PROVE  u \in P
  <2> DEFINE x == Picked(u)
             v == u \ {x}
  <2>1. x \in u /\ x \in Calls /\ v \in SUBSET Calls
    BY <1>2, PickedFact
  <2>2. r[x] \in Int /\ Delta[x] \in Int /\ Delta[c] \in Int /\ Total(r)[v] \in Int
    BY <2>1, ForwardAssumption, TotalType
  <2>3. /\ Total(r)[u] = r[x] * Delta[x] + Total(r)[v]
        /\ Total(q)[u] = q[x] * Delta[x] + Total(q)[v]
    BY <1>2, TotalFact
  <2>4. Total(q)[v] = Total(r)[v] + (IF c \in v THEN Delta[c] ELSE 0)
    BY <1>2, <2>1
  <2>5. CASE x = c
    <3>1. q[x] = r[x] + 1 /\ c \in u /\ c \notin v
      BY <2>1, <2>5
    <3>2. \A a, b, d \in Int : (a + 1) * b + d = (a * b + d) + b
      OBVIOUS
    <3>3. Total(q)[v] = Total(r)[v] /\ Delta[x] = Delta[c]
      BY <2>2, <2>4, <2>5, <3>1
    <3>4. Total(q)[u] = Total(r)[u] + Delta[c]
      BY <2>2, <2>3, <3>1, <3>2, <3>3
    <3> QED BY <3>1, <3>4
  <2>6. CASE x # c
    <3>1. q[x] = r[x] /\ (c \in u <=> c \in v)
      BY <2>1, <2>6
    <3>2. \A a, b, d, e \in Int : a * b + (d + e) = (a * b + d) + e
      OBVIOUS
    <3> HIDE DEF x, v
    <3> QED BY <2>2, <2>3, <2>4, <3>1, <3>2
  <2> QED BY <2>5, <2>6
<1>3. SUBSET Calls \subseteq P
  <2> HIDE DEF P
  <2> QED BY <1>1, <1>2, SubsetInduction, ForwardAssumption
<1> QED BY <1>3

(* A number is a multiple and a rest. *)
LEMMA DivFact ==
  ASSUME NEW a \in Int, NEW m \in Int, m > 0
  PROVE  /\ a = m * (a \div m) + (a % m) /\ a \div m \in Int
         /\ a % m \in Int /\ 0 <= a % m /\ a % m < m
OBVIOUS

(* The rest is determined. *)
LEMMA ModUnique ==
  ASSUME NEW m \in Int, m > 0, NEW p \in Int, NEW q \in Int, NEW r \in Int, NEW s \in Int,
         0 <= r, r < m, 0 <= s, s < m, m * p + r = m * q + s
  PROVE  r = s
<1>1. m * (p - q) = s - r
  OBVIOUS
<1>2. CASE p - q >= 1
  <2>1. m * (p - q) >= m * 1
    BY <1>2
  <2> QED BY <1>1, <2>1
<1>3. CASE q - p >= 1
  <2>1. m * (q - p) >= m * 1
    BY <1>3
  <2>2. m * (q - p) = r - s
    OBVIOUS
  <2> QED BY <2>1, <2>2
<1>4. CASE p = q
  BY <1>4
<1> QED BY <1>2, <1>3, <1>4

(* Adding to the rest or to the number is the same. *)
LEMMA ModAdd ==
  ASSUME NEW m \in Int, m > 0, NEW a \in Int, NEW b \in Int
  PROVE  ((a % m) + b) % m = (a + b) % m
<1> DEFINE p == (a + b) \div m
           q == ((a % m) + b) \div m
           k == a \div m
<1>1. a = m * k + (a % m) /\ k \in Int /\ a % m \in Int
  BY DivFact
<1>2. /\ a + b = m * p + ((a + b) % m) /\ p \in Int
      /\ (a + b) % m \in Int /\ 0 <= (a + b) % m /\ (a + b) % m < m
  BY DivFact, a + b \in Int
<1>3. /\ (a % m) + b = m * q + (((a % m) + b) % m) /\ q \in Int
      /\ ((a % m) + b) % m \in Int /\ 0 <= ((a % m) + b) % m /\ ((a % m) + b) % m < m
  BY <1>1, DivFact, (a % m) + b \in Int
<1>4. \A x, y, z \in Int : m * x + (m * y + z) = m * (x + y) + z
  OBVIOUS
<1> HIDE DEF p, q, k
<1>5. PICK u \in Int, v \in Int, w \in Int : u = a % m /\ v = (u + b) % m /\ w = (a + b) % m
  BY <1>1, <1>2, <1>3
<1>6. a = m * k + u /\ a + b = m * p + w /\ u + b = m * q + v
  BY <1>1, <1>2, <1>3, <1>5
<1>7. m * p + w = m * (k + q) + v
  <2>1. m * k \in Int /\ m * q \in Int /\ m * p \in Int
    BY <1>1, <1>2, <1>3
  <2>2. m * p + w = m * k + (m * q + v)
    BY <1>6, <2>1
  <2> QED BY <1>1, <1>2, <1>3, <1>4, <1>5, <2>2
<1>8. k + q \in Int
  BY <1>1, <1>3
<1> QED BY <1>2, <1>3, <1>5, <1>7, <1>8, ModUnique

(* Scores that differ by the size of the range are the same. *)
LEMMA WrappedAdd ==
  ASSUME NEW x \in Int, NEW d \in Int
  PROVE  Wrapped(Wrapped(x) + d) = Wrapped(x + d)
<1>1. PICK m \in Int : m = MaxScore - MinScore + 1 /\ m > 0
  BY ForwardAssumption
<1>2. MinScore \in Int
  BY ForwardAssumption
<1>3. (((x - MinScore) % m) + d) % m = ((x - MinScore) + d) % m
  <2>1. x - MinScore \in Int
    BY <1>2
  <2> QED BY <1>1, <2>1, ModAdd
<1>4. (x - MinScore) % m \in Int
  BY <1>1, <1>2
<1>5. /\ Wrapped(x) + d - MinScore = ((x - MinScore) % m) + d
      /\ (x - MinScore) + d = x + d - MinScore
  BY <1>1, <1>2, <1>4 DEF Wrapped
<1> QED BY <1>1, <1>2, <1>3, <1>5 DEF Wrapped

(* The score, by the sum of the handlers that ran. *)
LEMMA SerializedFact ==
  /\ Serialized <=> score = Wrapped(InitialScore + Total(ran)[Calls])
  /\ Serialized' <=> score' = Wrapped(InitialScore + Total(ran')[Calls])
BY DEF Serialized, Total, Sums, Picked, MapThenSumSet, MapThenFoldSet, Wrapped

(* The score is changed by a handler that takes effect, and by nothing else. *)
LEMMA SerializedStep ==
  ASSUME FwdInv, Serialized, [Next]_vars
  PROVE  Serialized'
<1>1. CASE UNCHANGED <<score, ran>>
  <2>1. score' = score /\ Total(ran') = Total(ran)
    BY <1>1
  <2> QED BY <2>1, SerializedFact
<1>2. CASE \E c \in Calls : Apply(c)
  <2>1. PICK c \in Calls : Apply(c)
    BY <1>2
  <2>2. /\ score' = Wrapped(score + Delta[c]) /\ ran' = [ran EXCEPT ![c] = @ + 1]
        /\ ran \in [Calls -> Nat]
    BY <2>1 DEF Apply, FwdInv, TypeOK
  <2>3. ran' \in [Calls -> Nat]
    BY <2>2
  <2>4. Total(ran')[Calls] = Total(ran)[Calls] + Delta[c] /\ Total(ran)[Calls] \in Int
    BY <2>2, <2>3, TotalStep, TotalType
  <2>5. InitialScore \in Int /\ Delta[c] \in Int
    BY ForwardAssumption
  <2>6. score' = Wrapped((InitialScore + Total(ran)[Calls]) + Delta[c])
    <3>1. InitialScore + Total(ran)[Calls] \in Int
      BY <2>4, <2>5
    <3>2. score = Wrapped(InitialScore + Total(ran)[Calls])
      BY SerializedFact
    <3> QED BY <2>2, <2>5, <3>1, <3>2, WrappedAdd
  <2>7. (InitialScore + Total(ran)[Calls]) + Delta[c] = InitialScore + Total(ran')[Calls]
    BY <2>4, <2>5
  <2>8. score' = Wrapped(InitialScore + Total(ran')[Calls])
    BY <2>6, <2>7
  <2> QED BY <2>8, SerializedFact
<1>3. UNCHANGED <<score, ran>> \/ \E c \in Calls : Apply(c)
  BY DEF Next, Cursor, Outcome, Executor, Start, StepHere, StepRpc, StepThread, Execute, ApplyPanic,
     Leave, Unwind, Finish, Cancel, TakeJob, TakeStop, ShutdownSend, Shutdown, service, vars
<1> QED BY <1>1, <1>2, <1>3

-----------------------------------------------------------------------------
(* Circular waits *)

(* A call that has not begun or has ended occupies no executor. *)
Outside == \A c \in Calls : phase[c] \in {"new"} \cup Finals => stack[c] = <<>>

(* No call and no executor can go on: what has begun and not ended waits,  *)
(* and an executor without a job has nothing to take.                      *)
Standstill ==
  /\ \A c \in Calls : phase[c] \in {"new", "queued"} \cup Finals
  /\ \A t \in alive : running[t] = NoCall => queue[t] = <<>>

(* An executor is entered by a call on its way, and left before it ends. *)
LEMMA OutsideStep ==
  ASSUME FwdInv, Outside, [Next]_vars
  PROVE  Outside'
<1> SUFFICES ASSUME NEW d \in Calls, phase'[d] \in {"new"} \cup Finals PROVE stack'[d] = <<>>
  BY DEF Outside
<1>0. phase \in [Calls -> {"new", "cursor", "queued", "handler", "returning", "unwinding"}
                          \cup Finals]
  BY DEF FwdInv, TypeOK
<1>1. stack \in [Calls -> Seq(Threads)]
  BY DEF FwdInv, TypeOK
<1>2. (phase[d] \in {"new"} \cup Finals => stack[d] = <<>>)
  BY DEF Outside
<1>3. ASSUME NEW c \in Calls,
             \/ Start(c) \/ StepHere(c) \/ StepRpc(c)
             \/ Execute(c) \/ Apply(c) \/ ApplyPanic(c)
      PROVE  stack'[d] = <<>>
  BY <1>0, <1>2, <1>3 DEF Start, StepHere, StepRpc, Execute, Apply, ApplyPanic, Enter, walk, Finals
<1>4. ASSUME NEW c \in Calls, StepThread(c)
      PROVE  stack'[d] = <<>>
  BY <1>0, <1>2, <1>4 DEF StepThread, Enter, Finals
<1>5. ASSUME NEW c \in Calls, Finish(c) \/ Cancel(c)
      PROVE  stack'[d] = <<>>
  BY <1>0, <1>2, <1>5 DEF Finish, Cancel, Enter, walk, Finals
<1>6. ASSUME NEW c \in Calls, Leave(c)
      PROVE  stack'[d] = <<>>
  BY <1>0, <1>1, <1>2, <1>6 DEF Leave, Finals
<1>7. ASSUME NEW c \in Calls, Unwind(c)
      PROVE  stack'[d] = <<>>
  <2>1. d \notin ToSet(queue[Last(stack[c])]) /\ phase'[d] = phase[d]
    BY <1>7 DEF Unwind, Ends, Finals
  <2>2. d # c
    BY <1>7, <2>1 DEF Unwind, Finals
  <2> QED BY <1>1, <1>2, <1>7, <2>1, <2>2 DEF Unwind
<1>8. ASSUME NEW t \in Threads, TakeJob(t)
      PROVE  stack'[d] = <<>>
  <2>1. d # Head(queue[t])
    BY <1>0, <1>8 DEF TakeJob, Enter, Finals
  <2> QED BY <1>0, <1>1, <1>2, <1>8, <2>1 DEF TakeJob, Enter
<1>9. ASSUME NEW t \in Threads, TakeStop(t)
      PROVE  stack'[d] = <<>>
  <2>1. phase'[d] = phase[d]
    BY <1>9 DEF TakeStop, Ends, Finals
  <2> QED BY <1>2, <1>9, <2>1 DEF TakeStop, walk
<1>10. CASE Shutdown \/ \E t \in Threads : ShutdownSend(t)
  BY <1>2, <1>10 DEF Shutdown, ShutdownSend, walk
<1>11. CASE UNCHANGED vars
  BY <1>2, <1>11 DEF vars, walk
<1> QED BY <1>3, <1>4, <1>5, <1>6, <1>7, <1>8, <1>9, <1>10, <1>11 DEF Next, Cursor, Outcome, Executor

(* An executor whose job waits for another one stays as it is, and so does *)
(* what is in its queue: Shutdown is queued behind.                        *)
LEMMA HeldStep ==
  ASSUME FwdInv, [Next]_vars, NEW t \in alive, NEW e \in Calls, running[t] = e, phase[e] = "queued",
         NEW d \in Calls, d \in ToSet(queue[t])
  PROVE  t \in alive' /\ running'[t] = e /\ d \in ToSet(queue'[t])
<1>0. /\ t \in Threads /\ running \in [Threads -> Calls \cup {NoCall}] /\ e # NoCall
      /\ queue \in [Threads -> Seq(Calls \cup {Stop})] /\ alive \subseteq Threads
  BY ForwardAssumption DEF FwdInv, TypeOK
<1>1. ASSUME NEW x \in Calls \cup {Stop} PROVE d \in ToSet(Append(queue[t], x))
  <2>1. queue[t] \in Seq(Calls \cup {Stop})
    BY <1>0
  <2> QED BY <2>1, AppendFact
<1>2. ASSUME UNCHANGED <<queue, running, alive>>
      PROVE  t \in alive' /\ running'[t] = e /\ d \in ToSet(queue'[t])
  BY <1>2
<1>3. ASSUME NEW c \in Calls, StepThread(c)
      PROVE  t \in alive' /\ running'[t] = e /\ d \in ToSet(queue'[t])
  <2>1. UNCHANGED <<running, alive>>
    BY <1>3 DEF StepThread
  <2>2. queue'[t] = queue[t] \/ queue'[t] = Append(queue[t], c)
    BY <1>0, <1>3 DEF StepThread
  <2> QED BY <1>1, <2>1, <2>2
<1>4. ASSUME NEW u \in Threads, ShutdownSend(u)
      PROVE  t \in alive' /\ running'[t] = e /\ d \in ToSet(queue'[t])
  <2>1. UNCHANGED <<running, alive>>
    BY <1>4 DEF ShutdownSend
  <2>2. queue'[t] = queue[t] \/ queue'[t] = Append(queue[t], Stop)
    BY <1>0, <1>4 DEF ShutdownSend
  <2> QED BY <1>1, <2>1, <2>2
<1>5. ASSUME NEW u \in Threads, Executor(u)
      PROVE  t \in alive' /\ running'[t] = e /\ d \in ToSet(queue'[t])
  <2>1. u # t
    BY <1>0, <1>5 DEF Executor, TakeJob, TakeStop
  <2> QED BY <1>0, <1>5, <2>1 DEF Executor, TakeJob, TakeStop, Ends
<1>6. ASSUME NEW c \in Calls, Leave(c) \/ Unwind(c)
      PROVE  t \in alive' /\ running'[t] = e /\ d \in ToSet(queue'[t])
  <2>0. PICK u : u = Last(stack[c])
    OBVIOUS
  <2>1. u \in Threads /\ running[u] = c
    BY <1>6, <2>0, InnermostFact DEF Leave, Unwind
  <2>2. u # t
    BY <1>6, <2>1 DEF Leave, Unwind
  <2>3. \/ running' = [running EXCEPT ![u] = NoCall] /\ UNCHANGED <<queue, alive>>
        \/ Ends(u, phase)
    BY <1>6, <2>0 DEF Leave, Unwind
  <2> QED BY <1>0, <2>1, <2>2, <2>3 DEF Ends
<1>7. \/ UNCHANGED <<queue, running, alive>>
      \/ \E c \in Calls : StepThread(c) \/ Leave(c) \/ Unwind(c)
      \/ \E u \in Threads : ShutdownSend(u) \/ Executor(u)
  BY DEF Next, Cursor, Outcome, Start, StepHere, StepRpc, Execute, Apply, ApplyPanic, Finish, Cancel,
     Shutdown, pool, vars
<1> QED BY <1>2, <1>3, <1>4, <1>5, <1>6, <1>7

(* A call that waits for an executor which is not free to take it. *)
LEMMA StandstillFact ==
  ASSUME FwdInv, Outside, Standstill, NEW c \in Calls, phase[c] = "queued"
  PROVE  Blocked(c)
<1> DEFINE S == {d \in Calls : phase[d] = "queued"}
<1>1. ASSUME NEW d \in S PROVE \E t \in alive : d \in ToSet(queue[t]) /\ running[t] \in S
  <2>1. PICK t \in alive : d \in ToSet(queue[t])
    BY DEF FwdInv, NoLostJob
  <2>2. t \in Threads /\ running[t] \in Calls \cup {NoCall}
    BY DEF FwdInv, TypeOK
  <2>3. running[t] # NoCall
    BY <2>1, EmptyFact DEF Standstill
  <2>4. PICK e \in Calls : e = running[t]
    BY <2>2, <2>3
  <2>5. t \in ToSet(stack[e])
    BY <2>2, <2>4 DEF FwdInv, OneJobPerThread
  <2>6. stack[e] # <<>>
    BY <2>5, EmptyFact
  <2>7. phase[e] = "queued"
    BY <2>6 DEF Outside, Standstill
  <2> QED BY <2>1, <2>4, <2>7
<1> QED BY <1>1 DEF Blocked

-----------------------------------------------------------------------------
(* The theorems *)

(* The invariant holds for any calls, plans, executors and scores, with    *)
(* shutdown, panics and abandoned futures at any moment.                   *)
THEOREM ForwardInvariant == Spec => []FwdInv
BY InitFwd, FwdStep, PTL DEF Spec

(* Every variable of the runtime keeps its type; the score stays in the    *)
(* range of its integer type.                                              *)
THEOREM ForwardTypes == Spec => []TypeOK
<1>1. FwdInv => TypeOK
  BY DEF FwdInv
<1> QED BY <1>1, ForwardInvariant, PTL

(* LocalExecutor: a thread carries out one job at a time, and a call holds *)
(* an executor at most once.                                               *)
THEOREM OneJob == Spec => []OneJobPerThread
<1>1. FwdInv => OneJobPerThread
  BY DEF FwdInv
<1> QED BY <1>1, ForwardInvariant, PTL

(* LocalExecutor::execute_sync and execute_async: a call that waits for    *)
(* its result is in the queue of a thread that has not ended.              *)
THEOREM JobsKept == Spec => []NoLostJob
<1>1. FwdInv => NoLostJob
  BY DEF FwdInv
<1> QED BY <1>1, ForwardInvariant, PTL

(* A handler takes effect once if its call succeeds and not at all if it   *)
(* panics.                                                                 *)
THEOREM HandlerOnce == Spec => []ExactlyOnce
<1>1. FwdInv => ExactlyOnce
  BY DEF FwdInv, RanInv, ExactlyOnce
<1> QED BY <1>1, ForwardInvariant, PTL

(* exec_sync_cursor and exec_async_cursor: whatever steps were skipped,    *)
(* the handler runs at the location and on the thread that the plan names  *)
(* last.                                                                   *)
THEOREM HandlerPlaced == Spec => []AtDestination
<1>1. FwdInv => AtDestination
  <2> SUFFICES ASSUME FwdInv, NEW c \in Calls, phase[c] = "handler"
               PROVE  /\ Plan[c] # <<>> => loc[c] = Last(Plan[c])
                      /\ IF ThreadSteps(c) = {} THEN stack[c] = <<>>
                         ELSE /\ stack[c] # <<>>
                              /\ Last(stack[c]) = Plan[c][Max(ThreadSteps(c))].name
    BY DEF AtDestination
  <2>1. Reached(c, Len(Plan[c]) + 1, loc[c], stack[c]) /\ stack[c] \in Seq(Threads)
    BY DEF FwdInv, TypeOK, WalkInv, OnPlan
  <2> QED BY <2>1, ReachedEnd
<1> QED BY <1>1, ForwardInvariant, PTL

(* The handler of a plan that comes back to an executor never runs: the    *)
(* call waits for the thread that it occupies itself.                      *)
THEOREM RevisitsWait == Spec => []RevisitNeverRuns
<1>1. FwdInv => RevisitNeverRuns
  BY DEF FwdInv
<1> QED BY <1>1, ForwardInvariant, PTL

(* update_score and its test concurrent_forwarding_updates_are_serialized: *)
(* whatever the order of the handlers, the score is the first one plus     *)
(* what those that ran have added, wrapped to the range of its type.       *)
THEOREM ScoreSerialized == Spec => []Serialized
<1>1. Init => Serialized
  <2> SUFFICES ASSUME Init PROVE Serialized
    OBVIOUS
  <2>1. score = InitialScore /\ ran \in [Calls -> Nat] /\ \A c \in Calls : ran[c] = 0
    BY DEF Init
  <2>2. Total(ran)[Calls] = 0
    BY <2>1, TotalType
  <2>3. Wrapped(InitialScore + 0) = InitialScore
    <3>1. PICK m \in Int : m = MaxScore - MinScore + 1
      BY ForwardAssumption
    <3>2. PICK i \in Int : i = InitialScore - MinScore /\ 0 <= i /\ i < m
      BY <3>1, ForwardAssumption
    <3>3. i % m = i
      BY <3>1, <3>2
    <3> QED BY <3>1, <3>2, <3>3, ForwardAssumption DEF Wrapped
  <2> QED BY <2>1, <2>2, <2>3, SerializedFact
<1> QED BY <1>1, ForwardInvariant, SerializedStep, PTL DEF Spec

(* LocalExecutor: where nothing can go on, every call that still waits is  *)
(* in a circular wait or behind one.  There is no other deadlock: not      *)
(* after a panic, a shutdown or an abandoned future either.                *)
THEOREM DeadlockIsCircular ==
  Spec => [](Standstill => \A c \in Calls : phase[c] = "queued" => Blocked(c))
<1>1. Init => Outside
  BY DEF Init, Outside
<1>2. FwdInv /\ Outside => (Standstill => \A c \in Calls : phase[c] = "queued" => Blocked(c))
  BY StandstillFact
<1> QED BY <1>1, <1>2, ForwardInvariant, OutsideStep, PTL DEF Spec

(* Registry::shutdown: a circular wait is for good.  No panic, abandoned   *)
(* future or shutdown gets a call out of it, since the command to shut     *)
(* down is queued behind the jobs.                                         *)
THEOREM CircularStays == Spec => [][\A c \in Calls : Blocked(c) => Blocked(c)']_vars
<1>1. FwdInv /\ [Next]_vars => \A c \in Calls : Blocked(c) => Blocked(c)'
  <2> SUFFICES ASSUME FwdInv, [Next]_vars, NEW c \in Calls, Blocked(c) PROVE Blocked(c)'
    OBVIOUS
  <2>1. PICK S \in SUBSET Calls :
          /\ c \in S
          /\ \A d \in S : \E t \in alive : d \in ToSet(queue[t]) /\ running[t] \in S
    BY DEF Blocked
  <2>2. \A d \in S : phase[d] = "queued"
    BY <2>1 DEF FwdInv, NoLostJob
  <2>3. \A d \in S : \E t \in alive' : d \in ToSet(queue'[t]) /\ running'[t] \in S
    BY <2>1, <2>2, HeldStep
  <2> QED BY <2>1, <2>3 DEF Blocked
<1> QED BY <1>1, ForwardInvariant, PTL DEF Spec
=============================================================================
