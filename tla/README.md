# Verification of forwardr

TLA+ models of `forwardr`: the lock-free one-shot channel of `conlock`; the
spin lock, RPC session, server and manager, workers and forwarding runtime of
`examples/rpc`; the dispatch of `forward` with the attribute macro that feeds it;
and the string of `const_string`. TLC checks every module on small instances;
TLAPS proves the safety of every component for every number of threads, calls,
tasks, plans and strings. `PROJECT.json` maps each definition to the
lines it models, and lists runs, mutants, hazards, findings and theorems.

## 1. Inventory

| Component | State | Operations | What is hard | What makes it correct |
|---|---|---|---|---|
| One-shot channel (`conlock/src/oneshot.rs`, `bit.rs`) | one atomic byte of five flags, two non-atomic fields (`data`, `waker`), the allocation | `Sender::send`, `Receiver::recv` (shared), `poll`, drop of either end | three kinds of thread race on one word; weak CAS; stale copies; relaxed orderings; a flag with three meanings; who frees the memory; lost wakeups | no race, double read, use after free, leak or lost wakeup; `send` and `recv` tell the truth; waiting threads return |
| Spin lock (`examples/rpc/lock/spin.rs`) | an `AtomicBool`, the data | `lock`, access, drop of the guard | orderings of two accesses carry the data | exclusion and happens-before |
| RPC client and session (`examples/rpc/net.rs`, `net/async_impl.rs`, `message.rs`) | bounded queue, map from id to one-shot `Sender`, socket halves, id counter | `RpcClient::send`, `run_send`, `run_recv`, end of the task | answers out of order, repeated or late; cancelled calls; failure of one half; full queue; ids that wrap | every caller is answered or told; an answer goes to its call |
| RPC server (`net.rs`) | one task per connection | receive, handle, answer, close | closes after one answer while the client has more calls | calls return; tasks end |
| RPC manager (`net.rs`) | map from server id to client behind the spin lock | `insert`, `get` and its clone, drop of the last clone | a replaced client is dropped while others clone or use it; dead clients stay cached; an unfair lock | a clone is taken from a live client; calls return; a replaced connection ends |
| Forwarding runtime (`examples/rpc/practice.rs`) | plan cursor and location per call, executor threads with queues, the player store | cursor steps, hop, handler, shutdown | nested blocking waits, panics that kill executors, shutdown behind queued jobs, dropped futures | the handler runs in the right place, once; every call ends |
| Workers (`examples/rpc/worker.rs`) | one task per worker, its bounded queue, the Vec of workers | `get`, `shared`, `send_task`, `abort`, `terminate` | the task is detached by `terminate`; abort and panicking destructors with senders waiting for room | tasks run once and in order; terminate is graceful; every `send_task` returns |
| Forward dispatch (`forward/src/lib.rs`, `examples/test.rs`) | the call's position and the receivers it waits on | `call_rpc`, `call_local`, `call_raw`, `into_sync`, `into_async` | what runs depends on user-defined handles; a dropped Sender or future on the way | the method runs where the attribute says; every call ends |
| `forward` macro (`forward_macro/`) | position in the tokens, config | parse of named and elided options, defaults, generated call | backtracking from a name to a value | accepts exactly its grammar and reads what was written, with two exceptions (section 5) |
| `ConstString` (`const_string/`) | tagged union of stack and heap text | `new`, `clone`, `as_mut_str`, `drop`, conversions | length and tag boundaries; both halves are `Copy` | reads as written; each block owned once |
| Blocking session (`net/sync_impl.rs`), registry (`src/forward/mod.rs`) | | | not compiled | not modelled |

Interactions: `RpcClient::send` puts a message and the `Sender` of a fresh
one-shot channel into the session's queue and awaits the `Receiver`; the
session stores the `Sender` in a map behind the spin lock. `IoSession.tla`
therefore uses the channel at the level of `OneshotChannel.tla` (a Sender
delivers once or is dropped, which closes the channel), the level that the
refinement theorem justifies. `RpcManager.tla` puts callers, the map and its spin
lock on top of a connection, and `ForwardDispatch.tla` runs the code that the
parsed attribute of `ForwardMacro.tla` generates. The executors of the runtime use tokio's one-shot
and std's mpsc channels, modelled by their contract.

## 2. Modules

| Module | Models |
|---|---|
| `OneshotChannel` | what the channel promises: accept or refuse a value, take it once, close, leave |
| `Oneshot` | `Inner::{send, recv, poll_recv, drop_sender, drop_receiver}`, one action per shared access; properties; refinement mapping to `OneshotChannel` |
| `OneshotUnwind` | `Oneshot` with panics of the code the channel calls: destructors, `Waker` methods |
| `OneshotProofs` | the inductive invariant of `Oneshot`, the safety theorems, the state diagram, and the theorem that `Oneshot` implements `OneshotChannel` |
| `OneshotUnwindProofs` | the same safety with panics, from `OneshotProofs` instantiated |
| `SpinLock` | the lock |
| `IoSession` | callers, session task, socket, and an arbitrary peer |
| `RpcServer` | extends `IoSession`, with the peer replaced by the task of `RpcServer::new` |
| `RpcManager` | extends `RpcServer` with the manager's map, composed with `SpinLock` |
| `RpcProofs` | the inductive invariants of session, server, spin lock and manager, each used by the next, and their theorems |
| `ForwardRuntime`, `ForwardRuntimeProofs` | calls, plans, executors, shutdown, panics, the store; its theorems |
| `Worker`, `WorkerProofs` | a worker, its guards, and the manager that owns it; its theorems |
| `ForwardMacro` | the option parser that `named_attrs_config!` generates, with its grammar |
| `ForwardDispatch`, `ForwardDispatchProofs` | extends `ForwardMacro`: generated code, dispatch of a call, its result; its theorems |
| `ConstString`, `ConstStringProofs` | the string, its allocator and its targets; its theorems |
| `SequenceFacts` | lemmas about sequences that the proofs share |
| `MC*` | the instances that TLC checks |

Operators introduced by a comment "Fault:" are deliberate defects. No
specification uses them; `PROJECT.json` pairs each with the definition it
replaces and the property that must then fail.

### Oneshot

`state` is the set of flags that are 1, `cur[t]` is `Status::current`, `pc[t]`
names the next shared access of thread `t` (`send_cas`, `poll_init`, ...).
The other variables stand for memory: `val` is where the value is, `waker` the
content of the field, `live` the allocation. `parked` and `result` record what
the caller observes. A CAS method of `Status` is a record (new word, ordering,
whether the copy is updated), and `CasOk`/`CasFail` are the two outcomes of the
`cas!` macro; the failure branch is always possible, as the exchange is weak.

*Who may call.* `recv` takes `&self`, so any number of receiving threads may be
in it at once; `poll` and the drop take `&mut self` and need every other
receiving thread to be idle. The Sender has one owner.

*Features.* `wait` selects the futex (`FutexWait`) or the spin loop
(`SpinWait`); `async` selects the waker flags. `Features` is a constant; the
assumption on it is the one of `Cargo.toml` and `lib.rs`.

*Memory orderings.* `seen[x]` is the set of threads that the latest access to
`x` happens before, where `x` is a non-atomic field or a thread (all its
accesses), plus `"msg"` when that access is published by the release sequence
that the atomic word carries. Every change of the word is a read-modify-write,
so all of them continue one release sequence: a release adds what its thread
knows to `"msg"`, an acquire takes all of it. A race-freedom property says that
a thread about to use a field is in `seen` of that field. Loads read the latest
value of the word: a relaxed load that returns an older value is the behaviour
in which the thread loaded earlier, because no other shared access of that
thread in the call precedes it, and an exchange always reads the latest value.

*Wakers.* `Waker::wake` and the futex are external: waking clears `parked`, and
the futex wakes every sleeper. Spurious futex returns are possible.

### OneshotUnwind

The value's destructor and `Waker::{clone, wake, drop}` are user code called
without a guard; a panic there unwinds out of the operation and leaves the word
and the fields as they are. `UnwindSpec` has the panics after which everything
but the memory is still in order: out of a drop of either end (`unwound[t]` is
the access it happened in), and out of the drop of a withdrawn waker in `poll_recv`. `AnyUnwindSpec` adds the two
after which the word still says WAITING: a panicking drop of the waker in `recv`,
and of `clone` or of the replaced waker in `poll_recv`. Only the violation run uses it.

### SpinLock

`lock` is the `AtomicBool`; `seen` holds the threads that the latest access to
the data happens before, and `published` says whether an Acquire load of the
lock would learn of it. The unlock is a plain Release store, so it starts a new
release sequence: it publishes the access only if the unlocking thread knows of
it. A failed exchange changes nothing.

### IoSession and RpcServer

`run_send` and `run_recv` are two halves of one tokio task joined by
`try_join!`, so the code between two awaits is one action; `Register` and
`Write` are two actions because the write awaits. `End` is what `try_join!`
does when a half fails: queue, map and socket are dropped, and with them every
Sender. Dropping the future of `send` (`Cancel`) is possible at both awaits.
`slot[c]` is the state of the call's one-shot channel; an answered slot holds
the request the peer answered, so that misrouting is visible.

A message is one unit on the wire. A frame that breaks off, an end of stream
and a reset are `ReceiveError`/`WriteError`, an unknown message type is the
frame `"bad"`, and a payload longer than a `u32` is a call in `Oversized`. A
reset may lose messages that have arrived, and what is written to a closed peer
is lost. Message ids are assumed to come from `get_mid`, whose only purpose
this is (the repository has no caller of it yet).

The peer of `IoSession` answers any request it has read, any number of times,
in any order. `RpcServer` is one such peer (`ImplementsPeer`), so the invariants
carry over. `Vanish` is a server that disappears without closing the
connection, which this code never notices, as it has no timeout; the liveness
properties name it as their one exception.

### RpcManager

One entry of the map and one connection: `Connector` inserts the client of that
connection, `Replacer` inserts another client under the same id, and a call gets
a clone and sends with it. `op[u]` is the progress of an `insert` or a `get`
inside the guard of the lock: the look-up and the clone are two steps, as are the
replacement of a client and its drop. `handles` and `cached` are the owners of
the connection's client, which nobody counts in the code; when the last is gone
the queue has no sender, which `run_send` observes. `RpcManager` starts after an
`RpcClient::connect` that succeeded.

### ForwardRuntime

`idx[c]`, `loc[c]` and `stack[c]` are the arguments of the recursion
`exec_sync_cursor` / `exec_async_cursor`: the plan index, the location of the
innermost runtime, and the executors whose threads wait for the call. The two
cursors differ in how a hop waits, not in what it does; only async calls can be
abandoned. `Ends` is the end of an executor's thread, by `Shutdown` or by a
panic that unwinds it: the queue is dropped, so the result channels close and
the waiting callers panic. The store is reduced to one player's score; the
Mutex poisons when the checked addition overflows in a debug build.
`Blocked` is the fixed point of the calls that wait for each other in a circle.

### Worker

The workers of a manager share nothing, so one is modelled. A task is polled
under `catch_unwind`, but its future is dropped at the end of the loop body,
outside of it: `FinishDies` is a destructor that panics there. `End` drops the
queue. `terminate` is `unsafe`; that nobody indexes the Vec meanwhile is a guard
of `Terminate`, and no code of the repository calls it. `accepted` and `started`
are histories.

### ForwardMacro and ForwardDispatch

An attribute is a sequence of items and a way of joining them; `Tokens` is what
the parser sees. `pos`, `conf`, `index` and `named` are the locals of the
generated `Parse::parse`; `Parsed` stands for `syn`, which is external. The
grammar (`WellFormed`, `Settings`) is what `config/mod.rs` declares, and `timeout=None`, which
the macro's sample shows; it is stated on the items, not on the tokens, and without
backtracking. `Refused` is where the parser departs from it (section 5). `TypeChecks` is what rustc checks of the generated body:
that the kinds exist, the bounds that relate a kind's index to its selector, a
receiver, and no arguments. `KindTable` holds the kinds of `examples/test.rs`, one that is its own
target and one that posts the call to another thread.

### ConstString

A string is its length and its text. The two halves of the union are fields of
one record, and a half that was not written reads as `Junk`. Where the tag byte
and the low byte of the pointer coincide a heap string's tag is its address; a
target on which they do not coincide leaves the tag uninitialised, any byte.
Allocation yields any free address with the requested alignment.

## 3. Runs

| Run | Instance | Checks |
|---|---|---|
| `oneshot` | 3 receiving threads, 2 wakers, all features, panics | `DataAccess`, `WakerAccess`, `DeallocSafe`, `LeakOnlyByUnwinding`, `NoLostWakeup`, `Outcomes`, `Transitions` |
| `oneshot_live` | 2 threads, 2 wakers, all features, fairness | `NoLeak`, `ImplementsChannel`, `RecvReturns`, `SenderFinishes`, `TaskWoken` |
| `oneshot_spin` | 3 threads, `sync` only, fairness | `RecvReturns` in the spin loop |
| `oneshot_unwind` | 1 thread, 1 waker, every panic | violation: `PendingHasWaker` |
| `io_session` | 3 calls, one oversized, 2 ids, any peer | `NoOrphan`, `SenderHeldOnce`, `Routing` |
| `rpc_manager` | 2 calls, 2 inserts, the example's server, fairness | `GuardedAccess`, `FoundIsLive`, `OneAnswer`, `ImplementsPeer`, `EveryCallReturns`, `LockReturns`, `Retired` |
| `forward_runtime` | plans that enter executors in one order; debug arithmetic | `AtDestination`, `OneJobPerThread`, `NoLostJob`, `ExactlyOnce`, `EveryCallEnds` |
| `forward_deadlock` | 4 plans, three of them circular; release arithmetic | `RevisitNeverRuns`, `Serialized`, `EndsOrCircular` |
| `worker` | 2 users, 3 tasks, fairness | `InOrder`, `GracefulEnd`, `TasksSettle`, `WorkerEnds` |
| `worker_report` | 1 user, 1 task | violation: `ReportedPanicked` |
| `const_string` | 3 names, lengths around 15, three targets | `Faithful`, `OwnedOnce` |
| `forward_dispatch` | attributes of at most 3 items and the documentation's samples, 4 signatures, fairness | `ParsesGrammar`, `Placement`, `CallEnds` |

Deadlock is not checked where the system may stop: callers need not call, a
thread may block in `recv` while the Sender is kept, a plan may wait for
itself, a call ends. The program of `const_string` never stops and is checked
for deadlock.

Bounds and why they are enough to show the interesting cases:

- *Receiving threads* (2 or 3): two can race for the value or the waker, three
  leave one asleep when another is served. The proofs cover any number.
- *Wakers* (2): a task that moves between executors stores a second waker.
- *`QueueCap` 1* (1024 in the code), *`WireCap` 1*: a second call waits for
  room, a third while the writer waits for the socket.
- *`IdModulus`* (2^32 in the code): 2 for `io_session`, so that three calls wrap
  and an id is handed out while its first call is outstanding; 3 in
  `rpc_manager`, where ids are unique.
- *Calls of the manager* (2): one uses the connection while the other gets,
  clones or drops, and the server answers only one.
- *Scores* of three bits: one update overflows at either end.
- *Plans* (3 or 4): a plan that returns to its own executor, two in opposite
  order, and one that needs no executor and must not be held up by them.
- *Worker*: with `QueueCap` 2 (1024 in the code) and 3 tasks, one is polled while
  the queue holds the others; two users wait for room at once.
- *ConstString*: lengths 0, 15, 16 and 17 are those at which the code branches;
  addresses include odd ones, and 254 to 256, where the low byte wraps.
- *Attributes*: three items exceed the two settings that may be given by
  position; `MaxDepth` 4 is more than any route passes and is reached only by
  recursion without end.
- *`Shutdown`* is called once; a second call only adds commands behind the first.

Fairness, and why the code justifies it:

- `Oneshot!Fairness`: a thread inside a call is scheduled again and again, and
  a weak exchange does not fail spuriously for ever. Nobody is obliged to start
  a call, and a thread in the futex runs only when woken. `SenderFinishes` also
  needs that the task is polled finitely often: each poll changes the word, so
  endless polling can starve the sender's loop. That condition is part of the
  property.
- `RpcManager!ManagerFairness`: tokio polls a task that can go on, and a thread
  goes on inside an `insert` or a `get`. The spin lock is not fair: weak fairness
  of a spinning thread is enough for `LockReturns` only because each user comes
  once, so that the contention ends. A failure of the network that happens is
  reported to both ends, except after `Vanish`.
- `Worker!Fairness`: the runtime polls the worker while it can go on, tasks end,
  and a `send_task` that can return does. Nobody has to send, drop or terminate.
- `ForwardDispatch!DispatchSpec`: threads go on with a call, take or drop what was
  posted to them, and methods return or panic.
- `ForwardRuntime!Fairness`: a thread goes on while it can, and a shutdown that
  has begun visits every executor.

## 4. Proofs

The assumptions are those of the modules. For the channel: the receiving threads
are a nonempty set without the sender, `NoWaker` is not a waker, `Features` is a
legal set of features. For the RPC stack: a call is none of the strings that mark
a slot, a frame or the state of the server; the id modulus and the capacities are
positive. For the runtime: the calls are finitely many, a plan is a finite sequence
of `Rpc` and `Thread` steps, and the first score is in the range of its type. For
workers and strings: the marks `NoTask` and `Junk` are no tasks and no contents.
For the attributes (`InputAssumption`): their items are a finite sequence, each with
a path or a literal (not the mark of an unset setting) and perhaps parentheses for
its value, and a style is only
told of an attribute with enough items to show it. For the dispatch: a handle goes
on, or posts. TLC checked every inductive invariant below on the
instances of section 3 before it was proved.

**Induction (`SequenceFacts`).** The induction rules of the library take an operator
as a parameter, which the provers cannot instantiate. `NatSetInduction` and
`SubsetInduction` take a set instead, the one of the numbers or of the subsets
that a claim is true of, and follow from the existence of minimal elements
(`WFMin`). With them, `FlattenFact` shows how the sequences of a sequence lie one
behind the other in their concatenation, and `TotalStep` of `ForwardRuntimeProofs`
that a sum over a finite set grows by what one summand grows by.

**The channel (`OneshotProofs`).** `Spec => []IInv`. The properties are not
inductive: that a reader finds the value depends on the copy another thread
holds, and on who made the word say what it says. `IInv` conjoins

- `WordInv`: the state table, flag by flag;
- `CopyInv`: what an old copy still says about the word (closed and dataless
  are for ever);
- `ExclInv`: `poll` and drop have the Receiver to themselves;
- `SendInv`, `OpenInv`, `ValInv`: how far the sender is, and that the value has
  one owner, the word included;
- `WaitInv`, `WakerInv`: who announced a waiting receiver, and that the waker
  has one owner;
- `GoneInv`: FIELDLESS on a closed channel means that one end has left;
- `SeenData`, `SeenWaker`, `SeenDrop`: each hand-over is ordered by the word
  that announces it;
- `WakeInv`, `NoneInv`: a waiter is reachable; what None rules out.

One lemma per conjunct (`WordStep`, ...) shows that every action preserves it;
`Inductive` combines them. `TypeCorrect`, `TableCorrect`, `DataCorrect`,
`WakerCorrect`, `DeallocCorrect`, `LeakFree`, `WakeupCorrect`,
`OutcomesCorrect` and `NoneFinal` follow. `DiagramCorrect` is the action property
`Transitions`: `EdgeStep` finds the edge of every CAS, flag by flag. `Refinement`
shows, operation by operation, that each step maps to a step of `OneshotChannel`
or to a stutter.

**The channel with panics (`OneshotUnwindProofs`).** A thread that unwinds out of
a drop looks to the others like one that is never scheduled again. `resumed` puts
each such thread back in front of the access it would have made next, and
`OneshotProofs` is instantiated with `pc <- resumed`. Then every step of
`UnwindNext` is a step of the instance (`SameNext`, `UnwindStep`), except a poll
that ends right after it dropped a waker, which `LeaveStep` of `OneshotProofs`
shows to preserve `IInv`. `UInv` is `IInv` of the instance together with what
`unwound` records; in addition a value that was dropped by a panicking destructor
is the only one there ever was. Every safety property of the `oneshot` run
follows, because a label at which a thread may touch a field is the same in both.

**The RPC stack (`RpcProofs`).** *Session*, against every peer: `NoOrphan` alone is
not inductive: that `End` tells every waiting caller needs that a held Sender is
unused and held once (`SenderHeldOnce`), that a call being sent is held nowhere
(`CallInv`) and that an ended task holds nothing (`TaskInv`); `Routing` needs
that frames carry the id of a request that was made (`WireInv`). `AnswersFinal`
is the action property that follows: a slot changes only while it is unused.
*Server*: a connection to the example's server is a behaviour of the session
(`ServerIsPeer`), as the server answers only what it has read, and at most one
call is answered. *Lock*: `LockInv` says that the lock is taken exactly when some
thread has a guard, at most one has, and while it is free the latest access is
published. *Manager*: each step is a step of the lock or none (`ManagerLocks`),
and a step of the connection or none (`ManagerRefines`), so that both invariants
carry over; `HandleInv` adds that whoever holds a reference into the map has the
guard, which is why no insert can drop the client that a get is cloning
(`CloneIsLive`).

**The forwarding runtime (`ForwardRuntimeProofs`).** `FwdInv` says of a cursor where
it is (`Reached`): the location is the step before it, the executors it has
entered are exactly those of the Thread steps before it, and it has come back to
none of them. With `QueueInv` (a call is in one queue, once; a thread that ended
has no queue and no job) and `RanInv` this gives `OneJob`, `JobsKept`,
`HandlerOnce` and `HandlerPlaced`. For `RevisitsWait`: a job cannot be taken by a
thread that the same call occupies, so a cursor never passes the step that would
return there.

`ScoreSerialized` unfolds the sum of `Serialized` to a function on the subsets of
the calls (`Sums`, which exists by induction): a handler that takes effect adds
its summand once (`TotalStep`), and wrapping at the end or at every step is the
same (`WrappedAdd`, from `ModAdd`). Two theorems carry what is safety in
`EndsOrCircular`. `DeadlockIsCircular`: in a state in which no call and no thread
can go on (`Standstill`, spelled out, since ENABLED is out of reach), every call
that still waits is in a circular wait or behind one; it needs in addition that a
call which has not begun or has ended occupies no executor (`Outside`).
`CircularStays`: no step gets a call out of a circular wait, neither a panic nor
an abandoned future nor the shutdown, whose command is queued behind the jobs.

**Workers (`WorkerProofs`).** `OrderInv` relates the histories to the queue: what
was started and what is queued make up, in this order, what was accepted, and
what was accepted is accepted once (`SendingInv`); `PollInv` says that only the
task started last may be unfinished. `TasksInOrder` and `EndIsGraceful` follow.
`TasksHeld` is what is safety in `TasksSettle`: a task that is not settled is with
the user who sends it, in the queue or polled, of a worker that has not ended; by
`TasksFinal` what became of a task is never revised.

**ConstString (`ConstStringProofs`).** `CInv`: every live string has the bytes its
constructor writes, with an odd tag for a short one and an even address for a
long one, long strings own different blocks, and every block is owned. The
arithmetic of tag and length is done once (`ShortFact`, `LongFact`). The theorems
have the hypothesis `TagIsShared`, that the build is not for a big-endian target
of 32 bits; section 5 says what happens there.

**Attributes and dispatch (`ForwardDispatchProofs`).** The parser goes over tokens and
the grammar over items, so `ParsesGrammar` is not inductive. `MacroInv` says where
the parser is: at the first token of item k (`Begin`) or right behind it (`Past`),
with the k - 1 or k items before accepted (`Accepted`), exactly their settings set
(`Read`), and names required exactly if one was given or none may be missing any
more (`Counted`). Otherwise it is on a token that it will refuse, in an attribute
that is not `Readable`: not in the grammar, or one of the two exceptions that
`ParsesGrammar` makes. `LaidFact` says where the items lie in the tokens,
`NameFact` and `AfterFact` that one token of lookahead tells a name from a value
and that nothing is mistaken for its parentheses, `ParsedFact` that a value is
read to its end if and only if it fits. One lemma per action (`AttributeStep`,
`NamedItemStep`, `ElidedItemStep`, `BadItemStep`, `SeparatorStep`) gives
`AttributesParsed`, for attributes with any number of items. `DInv` relates the
handles that were asked to the parsed settings; with `AttributesParsed` this is
`CallsPlaced`, about the attribute as it was written, and `OverflowLoops`, what is
safety in `CallEnds`: only a handle that goes on with `call_local` itself is asked
without end.

The type invariants, `StateTable`, `NoneIsFinal` and `AnswerIsFinal` are proved and
no longer checked by a run: `Outcomes`, `ImplementsChannel` and `Routing` say
more.

Only model-checked:

- all liveness properties: `RecvReturns`, `SenderFinishes`, `TaskWoken`,
  `EveryCallReturns`, `LockReturns`, `Retired`, `EveryCallEnds`, `EndsOrCircular`,
  `TasksSettle`, `WorkerEnds`, `CallEnds`; fairness is out of the prover's reach.
  Of most of them the safety part is proved: `NoLostWakeup`, `NoOrphan`,
  `NoLostJob`, `DeadlockIsCircular`, `TasksHeld`, `OverflowLoops`;
- `PendingHasWaker` and `ReportedPanicked`, which are violated.

## 5. Findings

1. `oneshot_unwind`: when `cx.waker().clone()` panics in `poll_recv`, the word
   keeps saying that a waker is there. The SAFETY comments of `drop_receiver` and
   `poll_recv` say that the waker is initialised when they see that word; the run
   reaches them without one. A panicking destructor of a waker does the same.
2. `worker_report`: the worker prints `task panic` when `catch_unwind` returns Ok,
   so it reports the tasks that completed and is silent about those that panicked.

Observations that the models make precise, without a run of their own:

- `drop_receiver` takes an unread value out by clearing READY alone, so the word
  goes from ready to new and then to dropped; the diagram of `conlock/README.md`
  (line 64) has an edge from ready to closed instead. `Transitions` shows that
  this is the only difference, and no other property depends on it.
- `loom_oneshot.rs` (line 719) asserts that a send racing with the drop of the
  Receiver fails. It may also succeed, when its exchange comes first; the value
  is then destroyed by `drop_receiver`, once.
- A plan that returns to an executor it still holds waits for itself
  (`RevisitNeverRuns`), and so do plans that enter executors in opposite order;
  nothing else waits for ever (`EndsOrCircular`). A shutdown does not end such a
  wait (`CircularStays`).
- The example's server answers at most one call per connection (`OneAnswer`), and
  the manager goes on handing out the client of a connection that has ended.
- On a 32-bit big-endian target the tag byte of `ConstString` is the last of 16
  while the pointer ends at the eighth, so `is_stack` reads an uninitialised byte
  of a heap string. `Faithful` fails when `Targets` includes that target; the run
  uses the targets on which the bytes coincide.
- The conversion of a `ConstString` to a `String` is documented as needing no new
  allocation (`const_string/src/lib.rs:27`); it copies the text into one, as
  `String::from` does (`impls.rs:88`).
- The body that the macro generates names `self` and drops the arguments
  (`forward_macro/src/lib.rs:213`), so methods without a receiver or with
  arguments do not compile, those of the macro's own sample included; `timeout` is
  parsed and unused.
- The parser of the attributes refuses two things that the repository announces.
  `config/mod.rs:34` declares `@name = LitStr`, so that the name of a proxy may be
  given by position, but `NamedAttr::parse` (`macros.rs:162`) reads a path before the
  value is tried, and `#[forward_proxy("X")]` is an error. The macro's sample
  (`forward_macro/src/lib.rs:45`) writes `timeout=None`, but a `LitInt` is parsed
  (`config/mod.rs:42`); the model reads the full-width comma of that sample as an
  ASCII one. `ParsesGrammar` counts both as part of the grammar and names them as
  exceptions: without either it is violated, with them the parser accepts all
  the rest and nothing else.
- The default `forward_sync` goes on with `call_raw`, which leaves the choice of a
  thread out, and a handle of a thread that goes on with `call_local` is asked
  again without end; `Placement` and `CallEnds` state both as their exceptions.

## 6. Not modelled

- `sync_impl.rs` and `src/forward/mod.rs` are not compiled.
- `RpcClient::connect` and the accept loop of the server: they open sockets and
  create the tasks that the models start from.
- Text: error messages, formatting, payload contents; comparison, order and hash
  of `ConstString`, which are those of the text it reads as.
- The macro's token output beyond what decides whether and where a call runs, and
  `export_to_file`.
- A terminate that races a get: excluded by the contract of an `unsafe` function.

## 7. Plan

Done: the channel with its abstract specification and the panics of user code; the
spin lock; session, server and manager; workers; the forwarding runtime; macro,
dispatch and `ConstString`; and the theorems of section 4, which state every
safety property that a run shows to hold. What could be added is a session over
the detailed channel: the refinement theorem of `Oneshot` used in a proof about
`IoSession`, instead of in its informal justification.
