----------------------------- MODULE Invocation -----------------------------
(***************************************************************************)
(* The call trees that load grows over all workers: Invoke and Next of     *)
(* worker/unit.go, the Call handler of worker/worker.go and the generator  *)
(* ticks that start a trace.                                               *)
(*                                                                         *)
(* An invocation is one execution of a unit and, except for those that a   *)
(* generator starts, also the call that asked for it.  What the model      *)
(* follows through the services is the Go context: a remote call runs in   *)
(* the context of the gRPC server that received it.  gRPC cancels this     *)
(* context when the handler returns and when the caller's context is       *)
(* cancelled; calls made with a cancelled context fail.  Local successors  *)
(* inherit the context and with it the trace metadata of the request.      *)
(***************************************************************************)
EXTENDS Integers, Sequences, FiniteSets

CONSTANTS
  Units,           \* the units of all services
  ServiceOf,       \* the service of each unit
  Successors,      \* for each unit, the sequence of its successors, each a
                   \* record [unit |-> ..., sync |-> ...]
  Follows,         \* the units of relationship type FOLLOWS
  Roots,           \* the units that have a generator
  None,            \* no unit
  MaxTraces,       \* bound: ticks of all generators
  MaxInvocations   \* bound: invocations of all traces

Invocations == 1 .. MaxInvocations

ASSUME InvocationAssumption ==
  /\ ServiceOf \in [Units -> Nat]
  /\ Successors \in [Units -> Seq([unit : Units, sync : BOOLEAN])]
  /\ Follows \subseteq Units /\ Roots \subseteq Units /\ None \notin Units
  /\ MaxTraces \in Nat /\ MaxInvocations \in Nat

VARIABLES
  at,        \* where each invocation is
  unit,      \* its unit
  caller,    \* the invocation that called it, 0 for a generator
  index,     \* which successor of its caller it is
  step,      \* the next successor in its own loop
  ctx,       \* the remote call in whose server context it runs, 0 for none
  cancelled, \* the remote calls whose server context is cancelled
  parent,    \* the call whose client span is the parent of its span, 0 for none
  traces     \* the number of traces generators have started

links == <<unit, caller, index, ctx, parent>>
vars == <<at, links, step, cancelled, traces>>

\* "free"   not used          "work"   emulates its work
\* "sent"   call on its way   "next"   in the loop over its successors
\* "failed" call cancelled    "wait"   waits for a synchronous successor
\* "lost"   server not there  "closed" span and result done, Invoke returned

Init ==
  /\ at = [i \in Invocations |-> "free"]
  /\ unit = [i \in Invocations |-> None]
  /\ caller = [i \in Invocations |-> 0]
  /\ index = [i \in Invocations |-> 0]
  /\ step = [i \in Invocations |-> 1]
  /\ ctx = [i \in Invocations |-> 0]
  /\ cancelled = {}
  /\ parent = [i \in Invocations |-> 0]
  /\ traces = 0

-----------------------------------------------------------------------------
\* Who calls whom, and how.

Remote(u, v) == ServiceOf[u] # ServiceOf[v]

IsRemote(j) == caller[j] # 0 /\ Remote(unit[caller[j]], unit[j])

IsSync(j) == caller[j] # 0 /\ Successors[unit[caller[j]]][index[j]].sync

Cancelled(i) == ctx[i] \in cancelled

Ended(j) == at[j] \in {"closed", "failed", "lost"}

NextFree(j) ==
  /\ at[j] = "free"
  /\ \A k \in 1 .. j - 1 : at[k] # "free"

(***************************************************************************)
(* The parent of an invocation's span.  Invoke passes the trace metadata   *)
(* of the request, found in its context, as the first reference, with the  *)
(* relationship type of the unit; StartSpanFromContextWithTracer adds a    *)
(* ChildOf reference to the span in the context, the client span of a      *)
(* local call.  The tracer makes the first ChildOf reference the parent    *)
(* and, if there is none, the first one.  A call with client span j is     *)
(* named by j, the request of server context r by the call r.              *)
(***************************************************************************)
\* Mutant: the client span is not injected into the metadata of a remote call.
ParentSpan_NotInjected(u, remote, j, r) ==
  IF remote THEN 0 ELSE IF r = 0 \/ u \in Follows THEN j ELSE r

ParentSpan(u, remote, j, r) ==
  IF remote \/ r = 0 \/ u \in Follows THEN j ELSE r

-----------------------------------------------------------------------------

\* A generator's tick: go gen.Unit.Invoke(context.Background(), ...).
Generate(u, i) ==
  /\ traces < MaxTraces
  /\ NextFree(i)
  /\ traces' = traces + 1
  /\ at' = [at EXCEPT ![i] = "work"]
  /\ unit' = [unit EXCEPT ![i] = u]
  /\ UNCHANGED <<caller, index, step, ctx, cancelled, parent>>

\* EmulateWork: the timer has fired.
EmulateWork(i) ==
  /\ at[i] = "work"
  /\ at' = [at EXCEPT ![i] = "next"]
  /\ UNCHANGED <<links, step, cancelled, traces>>

\* Mutant: the successors are counted from 0.
Position_FromZero(i) == step[i] - 1

Position(i) == step[i]

\* Mutant: every successor is called in a goroutine of its own.
AfterCall_Next(s) == "next"

AfterCall(s) == IF s.sync THEN "wait" ELSE "next"

\* One round of the loop in Next: a remote successor is a Call to its service,
\* a local one an Invoke; a synchronous one is waited for, for the others a
\* goroutine is started.
Next_Successor(i, j) ==
  LET s == Successors[unit[i]][step[i]]
      remote == Remote(unit[i], s.unit)
      context == IF remote THEN j ELSE ctx[i]
  IN
  /\ at[i] = "next"
  /\ step[i] \in DOMAIN Successors[unit[i]]
  /\ NextFree(j)
  /\ at' = [at EXCEPT ![i] = AfterCall(s),
                      ![j] = IF remote THEN "sent" ELSE "work"]
  /\ unit' = [unit EXCEPT ![j] = s.unit]
  /\ caller' = [caller EXCEPT ![j] = i]
  /\ index' = [index EXCEPT ![j] = Position(i)]
  /\ step' = [step EXCEPT ![i] = @ + 1]
  /\ ctx' = [ctx EXCEPT ![j] = context]
  /\ parent' = [parent EXCEPT ![j] = ParentSpan(s.unit, remote, j, ctx[i])]
  /\ UNCHANGED <<cancelled, traces>>

\* The server of the callee starts the Call handler.
Call(j) ==
  /\ at[j] = "sent"
  /\ at' = [at EXCEPT ![j] = "work"]
  /\ UNCHANGED <<links, step, cancelled, traces>>

\* The call fails before its server has it: the context it is made with is
\* cancelled.  Its error is ignored.
CallFails(j) ==
  /\ at[j] = "sent"
  /\ Cancelled(caller[j])
  /\ at' = [at EXCEPT ![j] = "failed"]
  /\ UNCHANGED <<links, step, cancelled, traces>>

\* The call fails because its server cannot be reached.  Its error is ignored.
CallLost(j) ==
  /\ at[j] = "sent"
  /\ at' = [at EXCEPT ![j] = "lost"]
  /\ UNCHANGED <<links, step, cancelled, traces>>

\* A call is under way and the context it was made with is cancelled: so is the
\* context of its handler, which goes on.
CancelHandler(j) ==
  /\ IsRemote(j)
  /\ at[j] \in {"work", "next", "wait"}
  /\ Cancelled(caller[j])
  /\ j \notin cancelled
  /\ cancelled' = cancelled \cup {j}
  /\ UNCHANGED <<at, links, step, traces>>

\* Mutant: a failed call is waited for all the same.
Returned_Executed(j) == at[j] = "closed"

Returned(j) == Ended(j) \/ (IsRemote(j) /\ Cancelled(caller[j]))

\* The synchronous successor has returned; a remote call also returns, with an
\* error that is ignored, when it failed or its context is cancelled.
Resume(i) ==
  /\ at[i] = "wait"
  /\ \E j \in Invocations : caller[j] = i /\ index[j] = step[i] - 1 /\ Returned(j)
  /\ at' = [at EXCEPT ![i] = "next"]
  /\ UNCHANGED <<links, step, cancelled, traces>>

\* Invoke closes the span, starts Collect and returns.  When it was a Call, the
\* handler returns with it and its context ends.
Close(i) ==
  /\ at[i] = "next"
  /\ step[i] > Len(Successors[unit[i]])
  /\ at' = [at EXCEPT ![i] = "closed"]
  /\ cancelled' = IF IsRemote(i) THEN cancelled \cup {i} ELSE cancelled
  /\ UNCHANGED <<links, step, traces>>

Progress(i) ==
  \/ EmulateWork(i)
  \/ \E j \in Invocations : Next_Successor(i, j)
  \/ Call(i)
  \/ Resume(i)
  \/ Close(i)

Next ==
  \/ \E u \in Roots, i \in Invocations : Generate(u, i)
  \/ \E i \in Invocations : Progress(i) \/ CallFails(i) \/ CallLost(i) \/ CancelHandler(i)

Spec == Init /\ [][Next]_vars

\* Timers fire, goroutines run, and a call either arrives or fails.
FairSpec == Spec /\ \A i \in Invocations : WF_vars(Progress(i) \/ CallFails(i) \/ CallLost(i))

-----------------------------------------------------------------------------
\* Properties.

\* Every variable has a value of its type.
TypeOK ==
  /\ at \in [Invocations ->
              {"free", "sent", "failed", "lost", "work", "next", "wait", "closed"}]
  /\ unit \in [Invocations -> Units \cup {None}]
  /\ caller \in [Invocations -> Invocations \cup {0}]
  /\ \A j \in Invocations :
       caller[j] # 0 => index[j] \in DOMAIN Successors[unit[caller[j]]]
  /\ step \in [Invocations -> Nat \ {0}]
  /\ ctx \in [Invocations -> Invocations \cup {0}]
  /\ cancelled \subseteq Invocations
  /\ parent \in [Invocations -> Invocations \cup {0}]
  /\ traces \in 0 .. MaxTraces

\* A unit does not start its next successor, or return, while a synchronous
\* successor it called is still running, unless that is a remote call which the
\* end of the caller's own request cut off.
SyncOrder ==
  \A i, j \in Invocations :
    /\ caller[j] = i
    /\ i # 0
    /\ IsSync(j)
    /\ at[i] \in {"next", "closed"}
    => Ended(j) \/ (IsRemote(j) /\ Cancelled(i))

\* The calls from the root of its trace down to invocation i.
Path(i) ==
  LET up[n \in Nat] ==
        IF n = 0 THEN {i} ELSE up[n - 1] \cup ({caller[j] : j \in up[n - 1]} \ {0})
  IN  up[MaxInvocations]

\* A call that is synchronous, and so is every call above it, is never cancelled
\* before its server has it: its callers are all still waiting for it, so no
\* context on its path has ended, whatever other calls were lost.
SyncCallsArrive ==
  \A i \in Invocations :
    (\A j \in Path(i) : caller[j] = 0 \/ IsSync(j)) => at[i] # "failed"

\* The spans of a trace are connected: the parent of a called invocation's span
\* is the client span of a call on its own path, never a span of another trace
\* and never none.
SpansConnected ==
  \A i \in Invocations : caller[i] # 0 => parent[i] \in Path(i)

\* Every call tree ends: each invocation closes its span, or its call failed.
TracesEnd ==
  \A i \in Invocations : at[i] # "free" ~> Ended(i)

=============================================================================
