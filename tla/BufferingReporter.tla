------------------------- MODULE BufferingReporter -------------------------
(***************************************************************************)
(* worker/reporter.go at the granularity of its mutex.                     *)
(*                                                                         *)
(* Every finished invocation hands its result to a goroutine of its own    *)
(* (go executor.Worker.Reporter.Collect(...), worker/unit.go); the report  *)
(* loop of StartWorker and its final report call Report.  Collect holds    *)
(* the mutex when it calls Report for a full buffer, and Report locks the  *)
(* same sync.Mutex, which is not reentrant.                                *)
(***************************************************************************)
EXTENDS Sequences, Integers

CONSTANTS
  Results,     \* the results collected in one run; a result names its goroutine
  Reports,     \* the goroutines that call Report for StartWorker
  Handler,     \* the one of them that runs StartWorker itself
  NoOne,       \* the mutex is free
  bufferSize   \* the size NewBufferingReporter is called with

ASSUME ReporterAssumption ==
  /\ bufferSize \in Int
  /\ Results \cap Reports = {}
  /\ Handler \in Reports
  /\ NoOne \notin Results \cup Reports

VARIABLES
  lock,          \* BufferingReporter.lock: the goroutine holding it, or NoOne
  resultBuffer,  \* BufferingReporter.resultBuffer
  pc,            \* where each goroutine is in Collect or Report
  ticking,       \* the report loop of StartWorker runs
  streamUp,      \* Send on the target stream still succeeds
  accepted,      \* history: the results appended by Collect, in order
  delivered,     \* history: the results of all packages sent, in order
  dropped        \* history: the results of packages whose Send failed

vars == <<lock, resultBuffer, pc, ticking, streamUp, accepted, delivered, dropped>>

Goroutines == Results \cup Reports

\* NewBufferingReporter: a size that is not positive becomes 1000.
size == IF bufferSize <= 0 THEN 1000 ELSE bufferSize

Init ==
  /\ lock = NoOne
  /\ resultBuffer = << >>
  /\ pc = [g \in Goroutines |-> IF g \in Results THEN "collect" ELSE "idle"]
  /\ ticking = TRUE
  /\ streamUp = TRUE
  /\ accepted = << >>
  /\ delivered = << >>
  /\ dropped = << >>

-----------------------------------------------------------------------------
\* The mutex.

Goto(g, from, to) ==
  /\ pc[g] = from
  /\ pc' = [pc EXCEPT ![g] = to]

Lock(g) ==
  /\ lock = NoOne
  /\ lock' = g

Unlock(g) ==
  /\ lock = g
  /\ lock' = NoOne

-----------------------------------------------------------------------------
\* Collect(result)

\* Mutant: the mutex is not taken.
CollectLock_NoLock(r) ==
  /\ Goto(r, "collect", "append")
  /\ UNCHANGED <<lock, resultBuffer, ticking, streamUp, accepted, delivered, dropped>>

CollectLock(r) ==
  /\ Goto(r, "collect", "append")
  /\ Lock(r)
  /\ UNCHANGED <<resultBuffer, ticking, streamUp, accepted, delivered, dropped>>

\* Mutant: the mutex is released before the full buffer is reported.
CollectAppend_Released(r) ==
  /\ resultBuffer' = Append(resultBuffer, r)
  /\ accepted' = Append(accepted, r)
  /\ Goto(r, "append", IF Len(resultBuffer') > size THEN "report" ELSE "collected")
  /\ lock' = IF Len(resultBuffer') > size THEN NoOne ELSE lock
  /\ UNCHANGED <<ticking, streamUp, delivered, dropped>>

CollectAppend(r) ==
  /\ resultBuffer' = Append(resultBuffer, r)
  /\ accepted' = Append(accepted, r)
  /\ Goto(r, "append", IF Len(resultBuffer') > size THEN "report" ELSE "collected")
  /\ UNCHANGED <<lock, ticking, streamUp, delivered, dropped>>

CollectUnlock(r) ==
  /\ Goto(r, "collected", "done")
  /\ Unlock(r)
  /\ UNCHANGED <<resultBuffer, ticking, streamUp, accepted, delivered, dropped>>

-----------------------------------------------------------------------------
\* Report(), called by the report goroutines and, nested, by Collect.

\* Mutant: the mutex is not taken.
ReportLock_NoLock(g) ==
  /\ Goto(g, "report", "send")
  /\ UNCHANGED <<lock, resultBuffer, ticking, streamUp, accepted, delivered, dropped>>

ReportLock(g) ==
  /\ Goto(g, "report", "send")
  /\ Lock(g)
  /\ UNCHANGED <<resultBuffer, ticking, streamUp, accepted, delivered, dropped>>

\* The error of target.Send is ignored: a package that cannot be sent is lost.
Send(g) ==
  /\ Goto(g, "send", "reset")
  /\ IF streamUp
     THEN /\ delivered' = delivered \o resultBuffer
          /\ UNCHANGED dropped
     ELSE /\ dropped' = dropped \o resultBuffer
          /\ UNCHANGED delivered
  /\ UNCHANGED <<lock, resultBuffer, ticking, streamUp, accepted>>

\* Mutant: the new buffer is made with one nil entry.
Reset_Nil(g) ==
  /\ Goto(g, "reset", "reported")
  /\ resultBuffer' = <<NoOne>>
  /\ UNCHANGED <<lock, ticking, streamUp, accepted, delivered, dropped>>

\* Mutant: the buffer is kept.
Reset_Kept(g) ==
  /\ Goto(g, "reset", "reported")
  /\ UNCHANGED <<lock, resultBuffer, ticking, streamUp, accepted, delivered, dropped>>

Reset(g) ==
  /\ Goto(g, "reset", "reported")
  /\ resultBuffer' = << >>
  /\ UNCHANGED <<lock, ticking, streamUp, accepted, delivered, dropped>>

\* Where a goroutine goes on when Report returns: a collector in Collect, the
\* handler to the end of the run, a goroutine of the report loop ends.
After(g) ==
  CASE g \in Results -> "collected"
    [] g = Handler -> "done"
    [] OTHER -> "idle"

ReportUnlock(g) ==
  /\ Goto(g, "reported", After(g))
  /\ Unlock(g)
  /\ UNCHANGED <<resultBuffer, ticking, streamUp, accepted, delivered, dropped>>

\* The report ticker of StartWorker: go w.Reporter.Report().
Tick(g) ==
  /\ ticking
  /\ g \in Reports \ {Handler}
  /\ Goto(g, "idle", "report")
  /\ UNCHANGED <<lock, resultBuffer, ticking, streamUp, accepted, delivered, dropped>>

\* All generators have returned: the report loop breaks.  After the tolerance
\* the handler goes on without them, so this is before or after FinalReport.
LoopEnds ==
  /\ ticking
  /\ ticking' = FALSE
  /\ UNCHANGED <<lock, resultBuffer, pc, streamUp, accepted, delivered, dropped>>

\* Mutant: StartWorker returns without a last report.
FinalReport_Skipped ==
  /\ Goto(Handler, "idle", "done")
  /\ UNCHANGED <<lock, resultBuffer, ticking, streamUp, accepted, delivered, dropped>>

\* Five seconds after the load StartWorker reports once more.
FinalReport ==
  /\ Goto(Handler, "idle", "report")
  /\ UNCHANGED <<lock, resultBuffer, ticking, streamUp, accepted, delivered, dropped>>

\* The coordinator ends, its connection fails or StartWorker returns; a gRPC
\* stream never recovers.
StreamBreaks ==
  /\ streamUp
  /\ streamUp' = FALSE
  /\ UNCHANGED <<lock, resultBuffer, pc, ticking, accepted, delivered, dropped>>

-----------------------------------------------------------------------------

Collect(r) == CollectLock(r) \/ CollectAppend(r) \/ CollectUnlock(r)

Report(g) == ReportLock(g) \/ Send(g) \/ Reset(g) \/ ReportUnlock(g)

Next ==
  \/ \E r \in Results : Collect(r)
  \/ \E g \in Goroutines : Report(g)
  \/ \E g \in Reports : Tick(g)
  \/ LoopEnds
  \/ FinalReport
  \/ StreamBreaks

Spec == Init /\ [][Next]_vars

(***************************************************************************)
(* Fairness.  A runnable goroutine is scheduled, and Send returns because  *)
(* the coordinator keeps receiving or the stream breaks (weak fairness);   *)
(* since Go 1.9 a waiter of a sync.Mutex that is released again and again  *)
(* gets it (starvation mode), hence strong fairness of the two lock        *)
(* steps.  Every run comes to its final report (RunEnds of WorkerRun      *)
(* shows it).  Nothing is assumed of the ticker: the report loop may end   *)
(* before its first tick.  Nothing makes the stream break.                 *)
(***************************************************************************)
Fairness ==
  /\ \A r \in Results : SF_vars(CollectLock(r)) /\ WF_vars(Collect(r))
  /\ \A g \in Goroutines : SF_vars(ReportLock(g)) /\ WF_vars(Report(g))
  /\ WF_vars(FinalReport)

FairSpec == Spec /\ Fairness

-----------------------------------------------------------------------------
\* Properties.

PCs == {"idle", "collect", "append", "collected", "done",
        "report", "send", "reset", "reported"}

\* Every variable has a value of its type.
TypeOK ==
  /\ lock \in Goroutines \cup {NoOne}
  /\ resultBuffer \in Seq(Results)
  /\ pc \in [Goroutines -> PCs]
  /\ ticking \in BOOLEAN
  /\ streamUp \in BOOLEAN
  /\ accepted \in Seq(Results)
  /\ delivered \in Seq(Results)
  /\ dropped \in Seq(Results)

\* The part of the buffer that no package carries yet: between Send and the
\* reset of the buffer that is nothing.
Unsent == IF \E g \in Goroutines : pc[g] = "reset" THEN << >> ELSE resultBuffer

\* What Collect appended is, in this order, what was sent, what was lost with
\* a broken stream and what is still in the buffer: no interleaving of Collect
\* and Report loses a result, repeats it or reorders it.
OrderKept == accepted = delivered \o dropped \o Unsent

\* A gRPC stream must not be used by two goroutines at once, and nobody may
\* touch the buffer between its Send and its reset: while one goroutine is in
\* Send or Reset no other is there or about to append.
StreamExclusive ==
  \A g, h \in Goroutines :
    /\ pc[g] \in {"send", "reset"}
    /\ pc[h] \in {"append", "send", "reset"}
    => g = h

\* Collect waits for a mutex that it holds itself.
Wedged == \E r \in Results : pc[r] = "report"

\* A buffer above its size is the end of the reporter: Collect holds the mutex
\* and calls Report, which waits for it, so from then on no result is accepted,
\* sent or dropped and the mutex is never released.
OverflowIsFatal ==
  [][Len(resultBuffer) > size =>
       UNCHANGED <<lock, resultBuffer, accepted, delivered, dropped>>]_vars

\* "The master should report receiving result packages in regular intervals."
\* (README.md): a report that the ticker or the end of a run asks for is sent.
KeepsReporting ==
  \A g \in Reports : pc[g] = "report" ~> pc[g] = "reset"

HandedOver(r) ==
  \E i \in DOMAIN (delivered \o dropped) : (delivered \o dropped)[i] = r

\* What Collect accepted before the final report got the mutex is handed to the
\* stream in the end, unless the buffer overflowed: the final report alone is
\* enough, and no goroutine that waits for the mutex starves.  A result that is
\* accepted later stays in the buffer.
ResultsHandedOver ==
  \A r \in Results :
    (\E i \in DOMAIN accepted : accepted[i] = r) /\ pc[Handler] \in {"idle", "report"}
      ~> Wedged \/ HandedOver(r)

\* The reporter implements the log of ResultLog.tla.
Log == INSTANCE ResultLog WITH
         Results <- Results, accepted <- accepted, delivered <- delivered,
         dropped <- dropped, streamUp <- streamUp
ImplementsLog == Log!Spec

=============================================================================
