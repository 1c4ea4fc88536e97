---------------------------- MODULE Coordinator ----------------------------
(***************************************************************************)
(* A benchmark over time: StartBenchmark and WriteResults of               *)
(* benchmark/coordinator.go against the result streams of the workers.     *)
(*                                                                         *)
(* Time advances in seconds.  All timers and tickers of the code have      *)
(* periods of whole seconds; what the program does when one fires takes    *)
(* less than a second, so time only passes when nothing is left to do.     *)
(* Connecting to a worker, the set-up of its run and the halting of its    *)
(* generators take an arbitrary time within their bounds.                  *)
(*                                                                         *)
(* Of a worker the module keeps what the coordinator can tell: when the    *)
(* handler of WorkerRun.tla sends packages and when it returns.  Both are  *)
(* implementations of RunProtocol.tla.                                     *)
(***************************************************************************)
EXTENDS Integers, FiniteSets

CONSTANTS
  Workers,    \* the workers of the benchmark
  Runtime,    \* benchmark.Config.Runtime, in seconds
  MaxConnect, \* bound: seconds to connect to one worker
  MaxSetup    \* bound: seconds to set up the run of a worker

ASSUME CoordinatorAssumption ==
  /\ IsFiniteSet(Workers)
  /\ Runtime \in Nat \ {0}
  /\ MaxConnect \in Nat /\ MaxSetup \in Nat

VARIABLES
  now,        \* the time
  main,       \* where StartBenchmark is
  timer,      \* when the timer of StartBenchmark fires
  stage,      \* where the StartWorker handler of each worker is
  due,        \* when the timer of its stage fires
  reportLoop, \* its report loop is running
  reportAt,   \* when its report ticker fires next
  stuck,      \* its reporter stands still
  sent,       \* the number of packages it sent
  lost,       \* the number of them that never arrive
  final,      \* history: that number after its final report, 0 before
  writer,     \* where WriteResults for each worker is
  tickAt,     \* when the writer's ticker fires next
  tick,       \* the ticker's channel, of capacity 1, holds a tick
  finished,   \* the writer's finishedChannel, of capacity 1, holds a value
  received    \* the number of packages written to the worker's file

worker == <<stage, due, reportLoop, reportAt, stuck, sent, lost, final>>
writing == <<writer, tickAt, tick, finished, received>>
vars == <<now, main, timer, worker, writing>>

\* The periods of the code, in seconds.
ReportInterval == 5     \* the report ticker of a worker
WorkerTolerance == 8    \* a worker's wait for its generators
SettleTime == 5         \* a worker's wait before its final report
WriteInterval_Slow == 7 \* mutant: slower than the workers' tickers
WriteInterval == 5      \* the ticker of WriteResults
Tolerance_Short == 10   \* mutant: shorter than the workers' waits
Tolerance == 30         \* the coordinator's wait for final results
Linger == 1             \* its wait for the writers

Init ==
  /\ now = 0
  /\ main = "start"
  /\ timer = MaxConnect
  /\ stage = [w \in Workers |-> "idle"]
  /\ due = [w \in Workers |-> 0]
  /\ reportLoop = [w \in Workers |-> FALSE]
  /\ reportAt = [w \in Workers |-> 0]
  /\ stuck = [w \in Workers |-> FALSE]
  /\ sent = [w \in Workers |-> 0]
  /\ lost = [w \in Workers |-> 0]
  /\ final = [w \in Workers |-> 0]
  /\ writer = [w \in Workers |-> "none"]
  /\ tickAt = [w \in Workers |-> 0]
  /\ tick = [w \in Workers |-> FALSE]
  /\ finished = [w \in Workers |-> FALSE]
  /\ received = [w \in Workers |-> 0]

-----------------------------------------------------------------------------
\* StartBenchmark.

\* The call of StartWorker succeeds and WriteResults is started.  Setup made
\* the list of workers from a map, so they are started in any order; the runtime
\* is measured from the last one.
StartWorker(w) ==
  LET last == \A v \in Workers \ {w} : stage[v] # "idle"
  IN
  /\ main = "start"
  /\ stage[w] = "idle"
  /\ stage' = [stage EXCEPT ![w] = "setup"]
  /\ due' = [due EXCEPT ![w] = now + MaxSetup]
  /\ writer' = [writer EXCEPT ![w] = "select"]
  /\ tickAt' = [tickAt EXCEPT ![w] = now + WriteInterval]
  /\ main' = IF last THEN "runtime" ELSE "start"
  /\ timer' = now + IF last THEN Runtime ELSE MaxConnect
  /\ UNCHANGED <<now, reportLoop, reportAt, stuck, sent, lost, final, tick, finished,
                 received>>

\* One worker cannot be called: log.Fatalf.
StartFails ==
  /\ main = "start"
  /\ main' = "fatal"
  /\ UNCHANGED <<now, timer, worker, writing>>

RuntimeOver ==
  /\ main = "runtime"
  /\ now = timer
  /\ main' = "tolerance"
  /\ timer' = now + Tolerance
  /\ UNCHANGED <<now, worker, writing>>

\* Mutant: the finished channels are not buffered, so each writer has to be in
\* its select to be sent the value.
HasRoom_Unbuffered(w) == writer[w] = "select"

HasRoom(w) == ~ finished[w]

\* Every writer is sent a value; its channel has room for it.
ToleranceOver ==
  /\ main = "tolerance"
  /\ now = timer
  /\ \A w \in Workers : HasRoom(w)
  /\ main' = "linger"
  /\ timer' = now + Linger
  /\ finished' = [w \in Workers |-> TRUE]
  /\ UNCHANGED <<now, worker, writer, tickAt, tick, received>>

Exit ==
  /\ main = "linger"
  /\ now = timer
  /\ main' = "exited"
  /\ UNCHANGED <<now, timer, worker, writing>>

-----------------------------------------------------------------------------
\* The StartWorker handler of worker w.

SetupDone(w) ==
  /\ stage[w] = "setup"
  /\ stage' = [stage EXCEPT ![w] = "load"]
  /\ due' = [due EXCEPT ![w] = now + Runtime]
  /\ reportLoop' = [reportLoop EXCEPT ![w] = TRUE]
  /\ reportAt' = [reportAt EXCEPT ![w] = now + ReportInterval]
  /\ UNCHANGED <<now, main, timer, stuck, sent, lost, final, writing>>

\* A package is sent, with or without results in it.
Report(w) ==
  /\ reportLoop[w]
  /\ now = reportAt[w]
  /\ sent' = [sent EXCEPT ![w] = @ + 1]
  /\ reportAt' = [reportAt EXCEPT ![w] = now + ReportInterval]
  /\ UNCHANGED <<now, main, timer, stage, due, reportLoop, stuck, lost, final, writing>>

\* Mutant: the handler does not wait for its generators.
StopLoad_NoAwait(w) ==
  /\ stage[w] = "load"
  /\ now = due[w]
  /\ stage' = [stage EXCEPT ![w] = "settle"]
  /\ due' = [due EXCEPT ![w] = now + SettleTime]
  /\ UNCHANGED <<now, main, timer, reportLoop, reportAt, stuck, sent, lost, final, writing>>

StopLoad(w) ==
  /\ stage[w] = "load"
  /\ now = due[w]
  /\ stage' = [stage EXCEPT ![w] = "await"]
  /\ due' = [due EXCEPT ![w] = now + WorkerTolerance]
  /\ UNCHANGED <<now, main, timer, reportLoop, reportAt, stuck, sent, lost, final, writing>>

\* A timer or ticker that is not used any more is set to 0.
StopReportLoop(w) ==
  /\ reportLoop' = [reportLoop EXCEPT ![w] = FALSE]
  /\ reportAt' = [reportAt EXCEPT ![w] = 0]

\* The generators have ended, and the report loop ends; or the tolerance is over
\* and the loop goes on.
LoadEnds(w) ==
  /\ stage[w] = "await"
  /\ stage' = [stage EXCEPT ![w] = "settle"]
  /\ due' = [due EXCEPT ![w] = now + SettleTime]
  /\ StopReportLoop(w) \/ (now = due[w] /\ UNCHANGED <<reportLoop, reportAt>>)
  /\ UNCHANGED <<now, main, timer, stuck, sent, lost, final, writing>>

\* The buffer grows above its size (Wedged of BufferingReporter.tla): from now on
\* the report loop only starts goroutines that wait for the mutex.
StandsStill(w) ==
  /\ stage[w] \in {"load", "await", "settle", "drain"}
  /\ ~ stuck[w]
  /\ stuck' = [stuck EXCEPT ![w] = TRUE]
  /\ StopReportLoop(w)
  /\ UNCHANGED <<now, main, timer, stage, due, sent, lost, final, writing>>

\* A handler whose reporter stands still waits here for ever.
FinalReport(w) ==
  /\ stage[w] = "settle"
  /\ ~ stuck[w]
  /\ now = due[w]
  /\ sent' = [sent EXCEPT ![w] = @ + 1]
  /\ final' = [final EXCEPT ![w] = sent'[w]]
  /\ stage' = [stage EXCEPT ![w] = "drain"]
  /\ due' = [due EXCEPT ![w] = 0]
  /\ UNCHANGED <<now, main, timer, reportLoop, reportAt, stuck, lost, writing>>

\* GracefulStop is through and the stream ends; later reports are not sent.
Return(w) ==
  /\ stage[w] = "drain"
  /\ stage' = [stage EXCEPT ![w] = "returned"]
  /\ StopReportLoop(w)
  /\ UNCHANGED <<now, main, timer, due, stuck, sent, lost, final, writing>>

\* The process or its connection ends.  A Send only hands a package to gRPC: any
\* number of those not received yet are lost, the latest ones.
Dies(w) ==
  /\ stage[w] \in {"setup", "load", "await", "settle", "drain"}
  /\ stage' = [stage EXCEPT ![w] = "dead"]
  /\ due' = [due EXCEPT ![w] = 0]
  /\ StopReportLoop(w)
  /\ \E n \in 0 .. sent[w] - received[w] : lost' = [lost EXCEPT ![w] = n]
  /\ UNCHANGED <<now, main, timer, stuck, sent, final, writing>>

-----------------------------------------------------------------------------
\* WriteResults for worker w.

\* A tick that finds the channel full is dropped.
TickerFires(w) ==
  /\ writer[w] \in {"select", "recv"}
  /\ now = tickAt[w]
  /\ tick' = [tick EXCEPT ![w] = TRUE]
  /\ tickAt' = [tickAt EXCEPT ![w] = now + WriteInterval]
  /\ UNCHANGED <<now, main, timer, worker, writer, finished, received>>

TakeTick(w) ==
  /\ writer[w] = "select"
  /\ tick[w]
  /\ tick' = [tick EXCEPT ![w] = FALSE]
  /\ writer' = [writer EXCEPT ![w] = "recv"]
  /\ UNCHANGED <<now, main, timer, worker, tickAt, finished, received>>

WriterReturns(w) ==
  /\ writer' = [writer EXCEPT ![w] = "returned"]
  /\ tickAt' = [tickAt EXCEPT ![w] = 0]
  /\ tick' = [tick EXCEPT ![w] = FALSE]

TakeFinished(w) ==
  /\ writer[w] = "select"
  /\ finished[w]
  /\ finished' = [finished EXCEPT ![w] = FALSE]
  /\ WriterReturns(w)
  /\ UNCHANGED <<now, main, timer, worker, received>>

\* The packages that arrive, sooner or later.
Arriving(w) == sent[w] - lost[w]

\* Mutant: an error is taken for a package.
Available_Errors(w) == received[w] < Arriving(w) \/ stage[w] = "dead"

Available(w) == received[w] < Arriving(w)

RecvPackage(w) ==
  /\ writer[w] = "recv"
  /\ Available(w)
  /\ received' = [received EXCEPT ![w] = @ + 1]
  /\ writer' = [writer EXCEPT ![w] = "select"]
  /\ UNCHANGED <<now, main, timer, worker, tickAt, tick, finished>>

\* After the last package: io.EOF ends the writer, another error does not.
RecvEnd(w) ==
  /\ writer[w] = "recv"
  /\ received[w] = Arriving(w)
  /\ \/ stage[w] = "returned" /\ WriterReturns(w)
     \/ stage[w] = "dead" /\ writer' = [writer EXCEPT ![w] = "select"]
                          /\ UNCHANGED <<tickAt, tick>>
  /\ UNCHANGED <<now, main, timer, worker, finished, received>>

-----------------------------------------------------------------------------
\* Time.

Passes(running, t) == running => now < t

\* The handler waits for a timer.
Waits(w) ==
  stage[w] \in {"setup", "load", "await"} \/ (stage[w] = "settle" /\ ~ stuck[w])

Tick ==
  /\ Passes(main \notin {"fatal", "exited"}, timer)
  /\ \A w \in Workers :
       /\ Passes(Waits(w), due[w])
       /\ Passes(reportLoop[w], reportAt[w])
       /\ Passes(writer[w] \in {"select", "recv"}, tickAt[w])
       /\ ~ (writer[w] = "select" /\ (tick[w] \/ finished[w]))
       /\ ~ (writer[w] = "recv" /\ (Available(w) \/ stage[w] \in {"returned", "dead"}))
  /\ now' = now + 1
  /\ UNCHANGED <<main, timer, worker, writing>>

Next ==
  /\ main \notin {"fatal", "exited"}
  /\ \/ \E w \in Workers :
          \/ StartWorker(w)
          \/ SetupDone(w) \/ Report(w) \/ StopLoad(w) \/ LoadEnds(w)
          \/ StandsStill(w) \/ FinalReport(w) \/ Return(w) \/ Dies(w)
          \/ TickerFires(w) \/ TakeTick(w) \/ TakeFinished(w) \/ RecvPackage(w)
          \/ RecvEnd(w)
     \/ StartFails \/ RuntimeOver \/ ToleranceOver \/ Exit
     \/ Tick

Spec == Init /\ [][Next]_vars

\* Time goes on, and nobody stops the coordinator.
FairSpec == Spec /\ WF_vars(Next)

-----------------------------------------------------------------------------
\* Properties.

\* Every variable has a value of its type.
TypeOK ==
  /\ {now, timer} \subseteq Nat
  /\ main \in {"start", "runtime", "tolerance", "linger", "exited", "fatal"}
  /\ stage \in [Workers -> {"idle", "setup", "load", "await", "settle", "drain",
                            "returned", "dead"}]
  /\ {due, reportAt, sent, lost, final, tickAt, received} \subseteq [Workers -> Nat]
  /\ \A w \in Workers : received[w] <= Arriving(w)
  /\ {reportLoop, stuck, tick, finished} \subseteq [Workers -> BOOLEAN]
  /\ writer \in [Workers -> {"none", "select", "recv", "returned"}]

\* When the coordinator exits, the final package of every worker has been written
\* with all before it, unless the worker died or its reporter stands still: then
\* everything it sent is written that was not lost with process or connection.
AllPackagesWritten ==
  main = "exited" =>
    \A w \in Workers :
      \/ final[w] # 0 /\ received[w] >= final[w]
      \/ (stage[w] = "dead" \/ stuck[w]) /\ received[w] = Arriving(w)

\* Although a writer receives at most one package per tick, the stream never
\* holds more than two that are not written yet.
BacklogBounded == \A w \in Workers : Arriving(w) - received[w] <= 2

\* What a worker shows to the coordinator is a run as RunProtocol.tla promises it.
Protocol == INSTANCE RunProtocol WITH Runs <- Workers, phase <- stage, sent <- sent
ImplementsProtocol == Protocol!Spec

\* The benchmark ends, whatever the writers are waiting for.
BenchmarkEnds == <>(main \in {"exited", "fatal"})

=============================================================================
