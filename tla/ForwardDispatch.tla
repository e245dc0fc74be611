-------------------------- MODULE ForwardDispatch --------------------------
(***************************************************************************)
(* From an attribute to a call: the code forward_macro generates for a     *)
(* parsed attribute, and the dispatch of a call of that code in forward.   *)
(* A call asks the handle of its server, then the one of its thread, until *)
(* the method runs, here or on another thread that sends the result back   *)
(* through a one-shot channel (ForwardReturn::Forward).                    *)
(*                                                                         *)
(* What a handle does with a call is up to the implementation of Forward:  *)
(* it goes on with call_raw, as by default and LocalForward of             *)
(* examples/test.rs, with call_local, as RpcForward there, or it posts the *)
(* call to another thread and returns the receiver.                        *)
(***************************************************************************)
EXTENDS ForwardMacro

CONSTANTS Kinds,     \* Kinds[path]: [index, own, hop] of a ForwardKind and its handle
          SelectorOutput,  \* SelectorOutput[sel]: the type of Selector::Output
          Signatures,  \* of the methods: [receiver, args, async]
          MaxDepth     \* handles a call passes before its stack overflows

ASSUME DispatchAssumption ==
  /\ \A k \in DOMAIN Kinds : Kinds[k].hop \in {"raw", "local", "post"} /\ Kinds[k].own \in BOOLEAN
  /\ MaxDepth \in Nat /\ MaxDepth > 2

VARIABLES
  sig,     \* the signature of the method
  call,    \* what the call is doing, or why there is none
  trail,   \* the handles that were given the call
  waits,   \* how many receivers are waited on, one inside the other
  ran,     \* how often the method has completed
  dropped  \* the future of the call was dropped

cvars == <<call, trail, waits, ran, dropped>>
dvars == <<mvars, sig, cvars>>

Results == {"value", "panic", "cancelled"}

DispatchInit ==
  /\ MacroInit
  /\ sig \in Signatures
  /\ call = "none" /\ trail = <<>> /\ waits = 0 /\ ran = 0 /\ dropped = FALSE

-----------------------------------------------------------------------------
(* Generated code *)

(* get_default_name needs a trait when no name is set *)
NameProxy ==
  /\ src.of = "ProxyConfig" /\ res = "ok" /\ call = "none"
  /\ call' = IF conf.name = None /\ ~src.trait THEN "missing_name" ELSE "named"
  /\ UNCHANGED <<mvars, sig, trail, waits, ran, dropped>>

(* a setting that is not given is the kind () with the selector () *)
Unit == [index |-> "()", own |-> TRUE, hop |-> "raw"]
KindOf(v) == IF v = None THEN Unit ELSE Kinds[v.path]

(* Selector: the type of index that a selector yields *)
Selected(v) == IF v.sel = "" THEN "()" ELSE SelectorOutput[v.sel]

(* the paths of the kinds, the bounds on A, B, C and D, and the body,      *)
(* which names the receiver and passes no argument on                      *)
TypeChecks ==
  /\ sig.receiver /\ ~sig.args
  /\ \A a \in {"server", "thread"} :
       /\ conf[a] = None \/ conf[a].path \in DOMAIN Kinds
       /\ KindOf(conf[a]).index = Selected(conf[a])

(* parse puts a body together for every method, which rustc then checks; a *)
(* call of it begins with call_rpc                                         *)
Generate ==
  /\ src.of = "ForwardConfig" /\ res = "ok" /\ call = "none"
  /\ call' = IF TypeChecks THEN "rpc" ELSE "compile_error"
  /\ UNCHANGED <<mvars, sig, trail, waits, ran, dropped>>

-----------------------------------------------------------------------------
(* Dispatch *)

Goto(c) == call' = c /\ UNCHANGED <<mvars, sig, trail, waits, ran, dropped>>

(* handle.forward_sync, handle.forward_async *)
Forward(a) ==
  /\ trail' = Append(trail, a)
  /\ LET hop == KindOf(conf[a]).hop
     IN  /\ call' = IF Len(trail) = MaxDepth THEN "overflow"
                    ELSE IF hop # "post" THEN hop
                    ELSE IF a = "server" THEN "posted_local" ELSE "posted_raw"
         /\ waits' = IF hop = "post" THEN waits + 1 ELSE waits
  /\ UNCHANGED <<mvars, sig, ran, dropped>>

(* Fault: a call that stays on this server does not ask for its thread. *)
CallRpc_raw ==
  /\ call = "rpc"
  /\ IF KindOf(conf.server).own THEN Goto("raw") ELSE Forward("server")

CallRpc ==
  /\ call = "rpc"
  /\ IF KindOf(conf.server).own THEN Goto("local") ELSE Forward("server")

CallLocal ==
  /\ call = "local"
  /\ IF KindOf(conf.thread).own THEN Goto("raw") ELSE Forward("thread")

(* the other thread takes the job, or drops it with its queue *)
TakePosted ==
  \/ call = "posted_local" /\ Goto("local")
  \/ call = "posted_raw" /\ Goto("raw")

DropPosted == call \in {"posted_local", "posted_raw"} /\ Goto("unwinding")

CallRaw == call = "raw" /\ Goto("running")

(* the method returns, to be wrapped as ForwardReturn::Raw, or panics *)
MethodReturns ==
  /\ call = "running"
  /\ call' = "returning" /\ ran' = ran + 1
  /\ UNCHANGED <<mvars, sig, trail, waits, dropped>>

MethodPanics == call = "running" /\ Goto("unwinding")

(* Fault: into_sync waits on when the Sender is gone. *)
IntoResult_waits ==
  \/ /\ call = "returning" /\ waits > 0
     /\ waits' = waits - 1
     /\ UNCHANGED <<mvars, sig, call, trail, ran, dropped>>
  \/ call = "returning" /\ waits = 0 /\ Goto("value")
  \/ call = "unwinding" /\ waits = 0 /\ Goto("panic")

(* into_sync, into_async: a Forward waits for its receiver and panics when *)
(* the Sender was dropped; a Raw is the value                              *)
IntoResult ==
  \/ /\ call \in {"returning", "unwinding"} /\ waits > 0
     /\ waits' = waits - 1
     /\ UNCHANGED <<mvars, sig, call, trail, ran, dropped>>
  \/ /\ call \in {"returning", "unwinding"} /\ waits = 0
     /\ Goto(IF dropped THEN "cancelled" ELSE IF call = "returning" THEN "value" ELSE "panic")

(* The caller of an async method drops its future at an await: its own     *)
(* part of the call stops, what was posted goes on.                        *)
Cancel ==
  /\ sig.async /\ ~dropped
  /\ \/ call = "running" /\ waits = 0 /\ call' = "cancelled"
     \/ waits > 0 /\ UNCHANGED call
  /\ dropped' = TRUE
  /\ UNCHANGED <<mvars, sig, trail, waits, ran>>

CallNext ==
  \/ CallRpc \/ CallLocal \/ CallRaw \/ TakePosted \/ DropPosted
  \/ MethodReturns \/ MethodPanics \/ IntoResult

DispatchNext ==
  \/ MacroNext /\ UNCHANGED <<sig, cvars>>
  \/ NameProxy \/ Generate \/ CallNext \/ Cancel

(* Every thread goes on with a call it has, and takes or drops a job that  *)
(* was posted to it; methods return or panic.                              *)
DispatchSpec == DispatchInit /\ [][DispatchNext]_dvars /\ WF_dvars(CallNext)
-----------------------------------------------------------------------------
(* Properties *)

(* what the attribute of the method asks for *)
Wanted(a) == KindOf(Settings[a])

(* The handles a call should pass.  A server that does not go on with      *)
(* call_local, such as one that does not override forward_sync, leaves the *)
(* choice of a thread out.                                                 *)
Route ==
  (IF Wanted("server").own THEN <<>> ELSE <<"server">>) \o
  (IF Wanted("thread").own \/ (~Wanted("server").own /\ Wanted("server").hop = "raw")
   THEN <<>> ELSE <<"thread">>)

(* The method runs where its attribute, as it was written, says, having    *)
(* asked each handle once; it completes once if the caller gets a value,   *)
(* and has not completed if the caller's `expect` panics.                  *)
Placement ==
  /\ call \in {"running", "returning", "value"} => trail = Route
  /\ call = "value" => ran = 1
  /\ call = "panic" => ran = 0

(* Every call ends, also when the job is dropped on the way or the caller  *)
(* is gone; except with a handle for the thread that goes on with          *)
(* call_local, which asks the same handle again until the stack overflows. *)
CallEnds ==
  call = "rpc" ~> \/ call \in Results
                  \/ call = "overflow" /\ ~Wanted("thread").own /\ Wanted("thread").hop = "local"
=============================================================================
