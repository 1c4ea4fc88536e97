----------------------------- MODULE WorkerRun -----------------------------
(***************************************************************************)
(* One worker process over several benchmark runs: the StartWorker and     *)
(* Call handlers of worker/worker.go, the load generators of               *)
(* worker/generator.go, the invocations they start (worker/unit.go) and    *)
(* the shutdown of the process (worker/main.go, cmd/worker.go).            *)
(*                                                                         *)
(* All handlers work on one Worker object.  A second StartWorker call, of  *)
(* the next run or of a restarted coordinator, overwrites its fields while *)
(* generators, calls and invocations of an earlier run may still use them. *)
(*                                                                         *)
(* The reporter of a run is used here as ResultLog.tla promises it:        *)
(* Collect and Report are single steps, and a reporter whose buffer grew   *)
(* above its size stands still (OverflowIsFatal of BufferingReporter.tla). *)
(***************************************************************************)
EXTENDS Integers, Sequences, FiniteSets

CONSTANTS
  Units,        \* the units of the emulated service
  Roots,        \* the units with a throughput ratio: they get a generator
  Config,       \* the sequence of configurations the worker is started with:
                \* for each run, the sequence of its units
  Successor,    \* the local successor of a unit, or None
  SyncUnits,    \* the units whose successor is called synchronously
  None,
  Overlap,      \* a StartWorker call may come while another one is running
  Shutdown,     \* the process may be told to shut down
  StreamsBreak, \* a coordinator may end or lose its connection during a run
  ReporterSize, \* the size of the reporter's buffer (500 in the code)
  MaxInvocations \* bound: invocations over all runs; an invocation only starts
                 \* from outside when one is left for its local successor

Runs == DOMAIN Config
Invocations == 1 .. MaxInvocations
UnitsOf(h) == {Config[h][i] : i \in DOMAIN Config[h]}

ASSUME WorkerRunAssumption ==
  /\ Roots \subseteq Units /\ SyncUnits \subseteq Units /\ None \notin Units
  /\ Config \in Seq(Seq(Units))
  /\ Successor \in [Units -> Units \cup {None}]
  /\ \A u \in Units : Successor[u] # None => Successor[Successor[u]] = None
  /\ {Overlap, Shutdown, StreamsBreak} \subseteq BOOLEAN
  /\ ReporterSize \in Nat /\ MaxInvocations \in Nat

VARIABLES
  \* the process
  proc,        \* "up", or how it ended
  signalled,   \* SIGTERM or SIGINT was received
  benchServer, \* the gRPC server for StartWorker is running
  port,        \* the run whose listener has the service port, 0 if none
  \* fields of the shared Worker
  reporter,    \* Worker.Reporter: the run whose reporter it is, 0 for nil
  unitMap,     \* Worker.UnitExecutorMap: for each unit the run whose executor
               \* is registered, 0 if none
  \* the StartWorker handler of each run
  pc,          \* where the handler is
  serving,     \* its service server accepts calls
  registered,  \* the number of units its setup loop has been through
  regular,     \* it ended because all its generators had
  sigPending,  \* sigTermRecv holds a signal
  generators,  \* its running generators, by unit
  stopSignals, \* the stop channels with a value in them, by unit
  doneLoad,    \* doneChannelLoadGenerators and doneChannelReporters were sent to
  reportLoop,  \* its report loop is running
  streamUp,    \* the result stream to its coordinator still works
  \* reporters
  buffer,      \* for each run's reporter, the results in the buffer
  delivered,   \* for each run, the results sent to its coordinator
  \* invocations
  inv          \* for each invocation, where it is and whose it is

process == <<proc, signalled, benchServer, port>>
shared == <<reporter, unitMap>>
handler == <<pc, serving, registered, regular, sigPending, streamUp>>
load == <<generators, stopSignals, doneLoad, reportLoop>>
results == <<buffer, delivered>>
vars == <<process, shared, handler, load, results, inv>>

\* at: "free" before it starts, "work" while it emulates work, "wait" during a
\*   synchronous local call, "called" when it has started an asynchronous one,
\*   "finished" when its span is closed and a goroutine is about to Collect the
\*   result, "done" when it was collected
\* run, unit: the executor; server: the run whose server received the call, 0 if
\*   it is no call; child: the invocation it waits for; to: the reporter its
\*   Collect goroutine was started with
NoInvocation == [at |-> "free", run |-> 0, unit |-> None, server |-> 0,
                 child |-> 0, to |-> 0]

Init ==
  /\ proc = "up"
  /\ signalled = FALSE
  /\ benchServer = TRUE
  /\ port = 0
  /\ reporter = 0
  /\ unitMap = [u \in Units |-> 0]
  /\ pc = [h \in Runs |-> "absent"]
  /\ serving = [h \in Runs |-> FALSE]
  /\ registered = [h \in Runs |-> 0]
  /\ regular = [h \in Runs |-> FALSE]
  /\ sigPending = [h \in Runs |-> FALSE]
  /\ streamUp = [h \in Runs |-> FALSE]
  /\ generators = [h \in Runs |-> {}]
  /\ stopSignals = [h \in Runs |-> {}]
  /\ doneLoad = [h \in Runs |-> FALSE]
  /\ reportLoop = [h \in Runs |-> FALSE]
  /\ buffer = [h \in Runs |-> {}]
  /\ delivered = [h \in Runs |-> {}]
  /\ inv = [i \in Invocations |-> NoInvocation]

-----------------------------------------------------------------------------
\* The StartWorker handler of run h.

Goto(h, from, to) ==
  /\ pc[h] = from
  /\ pc' = [pc EXCEPT ![h] = to]

Dies(cause) ==
  /\ proc' = cause
  /\ UNCHANGED <<signalled, benchServer, port, shared, handler, load, results, inv>>

\* The coordinators of later runs come after those of earlier ones.
StartWorker(h) ==
  /\ benchServer
  /\ \A k \in Runs : k < h => pc[k] # "absent"
  /\ Overlap \/ \A k \in Runs : pc[k] \in {"absent", "returned"}
  /\ Goto(h, "absent", "tracer")
  /\ streamUp' = [streamUp EXCEPT ![h] = TRUE]
  /\ UNCHANGED <<process, shared, serving, registered, regular, sigPending, load,
                 results, inv>>

\* InitTracer fails: log.Fatalf.
TracerFails(h) ==
  /\ pc[h] = "tracer"
  /\ Dies("fatal")

\* Tracer, metrics (once per process), reporter and config of the Worker.
SetUpWorker(h) ==
  /\ Goto(h, "tracer", "listen")
  /\ reporter' = h
  /\ UNCHANGED <<process, unitMap, serving, registered, regular, sigPending,
                 streamUp, load, results, inv>>

\* Mutant: the service port can be shared (SO_REUSEPORT).
PortFree_Shared == TRUE

PortFree == port = 0

Listen(h) ==
  /\ PortFree
  /\ Goto(h, "listen", "serve")
  /\ port' = h
  /\ UNCHANGED <<proc, signalled, benchServer, shared, serving, registered, regular,
                 sigPending, streamUp, load, results, inv>>

\* The service port is taken: log.Fatalf.
ListenFails(h) ==
  /\ ~ PortFree
  /\ pc[h] = "listen"
  /\ Dies("portInUse")

Serve(h) ==
  /\ Goto(h, "serve", "map")
  /\ serving' = [serving EXCEPT ![h] = TRUE]
  /\ UNCHANGED <<process, shared, registered, regular, sigPending, streamUp, load,
                 results, inv>>

MakeMap(h) ==
  /\ Goto(h, "map", "units")
  /\ unitMap' = [u \in Units |-> 0]
  /\ UNCHANGED <<process, reporter, serving, registered, regular, sigPending,
                 streamUp, load, results, inv>>

\* Mutant: the loop over the units leaves out the last one.
AllRegistered_ButLast(h) == registered[h] >= Len(Config[h]) - 1

AllRegistered(h) == registered[h] = Len(Config[h])

\* CreateUnitExecutorFromConfig and the registration of the next unit.
RegisterUnit(h) ==
  /\ pc[h] = "units"
  /\ ~ AllRegistered(h)
  /\ registered' = [registered EXCEPT ![h] = @ + 1]
  /\ unitMap' = [unitMap EXCEPT ![Config[h][registered'[h]]] = h]
  /\ UNCHANGED <<process, reporter, pc, serving, regular, sigPending, streamUp, load,
                 results, inv>>

\* An unknown distribution or an invalid address: log.Fatalf.
ExecutorFails(h) ==
  /\ pc[h] = "units"
  /\ ~ AllRegistered(h)
  /\ Dies("fatal")

\* The generators of the root units and the report loop.
LaunchLoad(h) ==
  /\ AllRegistered(h)
  /\ Goto(h, "units", "loop")
  /\ generators' = [generators EXCEPT ![h] = UnitsOf(h) \cap Roots]
  /\ reportLoop' = [reportLoop EXCEPT ![h] = TRUE]
  /\ UNCHANGED <<process, shared, serving, registered, regular, sigPending, streamUp,
                 stopSignals, doneLoad, results, inv>>

\* Mutant: every unit is sent a stop signal, with or without a generator.
Stopped_All(h) == UnitsOf(h)

Stopped(h) == UnitsOf(h) \cap Roots

\* Mutant: the handler does not wait for the generators.
AfterLoop_NoAwait == "settle"

\* Mutant: a break without label only leaves the select.
AfterLoop_Again == "loop"

AfterLoop == "await"

\* The runtime is over, or a signal came: every generator is told to stop.
StopLoad(h, sig) ==
  /\ sig => sigPending[h]
  /\ Goto(h, "loop", AfterLoop)
  /\ stopSignals' = [stopSignals EXCEPT ![h] = Stopped(h)]
  /\ sigPending' = [sigPending EXCEPT ![h] = @ /\ ~ sig]
  /\ UNCHANGED <<process, shared, serving, registered, regular, streamUp, generators,
                 doneLoad, reportLoop, results, inv>>

\* Mutant: the generators are not added to generatorWG.
GeneratorsDone_Unknown(h) == TRUE

GeneratorsDone(h) == generators[h] = {}

\* The goroutine that waits for generatorWG tells handler and report loop.
LoadEnds(h) ==
  /\ pc[h] \notin {"absent", "tracer", "listen", "serve", "map", "units", "loop"}
  /\ GeneratorsDone(h)
  /\ ~ doneLoad[h]
  /\ doneLoad' = [doneLoad EXCEPT ![h] = TRUE]
  /\ UNCHANGED <<process, shared, handler, generators, stopSignals, reportLoop,
                 results, inv>>

\* Mutant: the channel is closed before anything was sent to it.
Told_AtOnce(h) == TRUE

Told(h) == doneLoad[h]

EndsRegularly(h) ==
  /\ Told(h)
  /\ Goto(h, "await", "settle")
  /\ regular' = [regular EXCEPT ![h] = TRUE]
  /\ UNCHANGED <<process, shared, serving, registered, sigPending, streamUp, load,
                 results, inv>>

\* The tolerance (8 s, or 5 s after a signal) is over.
EndsForcefully(h) ==
  /\ Goto(h, "await", "settle")
  /\ UNCHANGED <<process, shared, serving, registered, regular, sigPending, streamUp,
                 load, results, inv>>

Wedged(k) == Cardinality(buffer[k]) > ReporterSize

\* Mutant: the wait is too short for that.
Settled_AtOnce == TRUE

Settled == \A i \in Invocations : inv[i].at = "finished" => Wedged(inv[i].to)

\* The 5 s before the final report: enough for a goroutine that is ready to
\* Collect, so none that can is left when they are over.
Settle(h) ==
  /\ Settled
  /\ Goto(h, "settle", "final")
  /\ UNCHANGED <<process, shared, serving, registered, regular, sigPending, streamUp,
                 load, results, inv>>

Reached(k) == streamUp[k] /\ pc[k] # "returned"

\* Report of the reporter of run k; a package sent to a broken stream is lost.
Report(k) ==
  /\ ~ Wedged(k)
  /\ delivered' = [delivered EXCEPT ![k] = IF Reached(k) THEN @ \cup buffer[k] ELSE @]
  /\ buffer' = [buffer EXCEPT ![k] = {}]

FinalReport(h) ==
  /\ Goto(h, "final", "stop")
  /\ Report(reporter)
  /\ UNCHANGED <<process, shared, serving, registered, regular, sigPending, streamUp,
                 load, inv>>

\* GracefulStop closes the listener and accepts no more calls ...
GracefulStop(h) ==
  /\ Goto(h, "stop", "drain")
  /\ serving' = [serving EXCEPT ![h] = FALSE]
  /\ port' = 0
  /\ UNCHANGED <<proc, signalled, benchServer, shared, registered, regular, sigPending,
                 streamUp, load, results, inv>>

Running(i) == inv[i].at \in {"work", "wait", "called"}

\* ... and returns when the pending ones have ended; then the stream ends.
Return(h) ==
  /\ \A i \in Invocations : inv[i].server = h => ~ Running(i)
  /\ Goto(h, "drain", "returned")
  /\ UNCHANGED <<process, shared, serving, registered, regular, sigPending, streamUp,
                 load, results, inv>>

-----------------------------------------------------------------------------
\* The report loop of run h.  It reports to the reporter the Worker has now.

ReportTick(h) ==
  /\ reportLoop[h]
  /\ Report(reporter)
  /\ UNCHANGED <<process, shared, handler, load, inv>>

ReportLoopStops(h) ==
  /\ reportLoop[h]
  /\ doneLoad[h]
  /\ reportLoop' = [reportLoop EXCEPT ![h] = FALSE]
  /\ UNCHANGED <<process, shared, handler, generators, stopSignals, doneLoad, results,
                 inv>>

-----------------------------------------------------------------------------
\* Invocations.

NextFree(i) ==
  /\ inv[i].at = "free"
  /\ \A j \in 1 .. i - 1 : inv[j].at # "free"

Calling(i) == inv[i].at = "work" /\ Successor[inv[i].unit] # None

Room(i, u) ==
  LET own == IF Successor[u] = None THEN 0 ELSE 1
  IN  i + own + Cardinality({j \in Invocations : Calling(j)}) <= MaxInvocations

\* The next free invocation starts, of the executor that run k registered for u.
Invoke(i, k, u, server) ==
  /\ NextFree(i)
  /\ Room(i, u)
  /\ k # 0
  /\ inv' = [inv EXCEPT ![i] = [NoInvocation EXCEPT !.at = "work", !.run = k,
                                                    !.unit = u, !.server = server]]

\* GenerateUntilExitSignal: select takes the ticker or the stop channel.
GeneratorTick(h, u, i) ==
  /\ u \in generators[h]
  /\ Invoke(i, h, u, 0)
  /\ UNCHANGED <<process, shared, handler, load, results>>

GeneratorStops(h, u) ==
  /\ u \in generators[h] \cap stopSignals[h]
  /\ generators' = [generators EXCEPT ![h] = @ \ {u}]
  /\ stopSignals' = [stopSignals EXCEPT ![h] = @ \ {u}]
  /\ UNCHANGED <<process, shared, handler, doneLoad, reportLoop, results, inv>>

\* Call: another worker calls unit u at the server of run h.
Call(h, u, i) ==
  /\ serving[h]
  /\ Invoke(i, unitMap[u], u, h)
  /\ UNCHANGED <<process, shared, handler, load, results>>

\* The map is written without a lock: the runtime may stop a process that reads
\* it at the same time.
MapWritten == \E k \in Runs : pc[k] = "units" /\ ~ AllRegistered(k)

CallPanics(h, u) ==
  /\ serving[h]
  /\ unitMap[u] = 0 \/ MapWritten
  /\ Dies("panic")

\* Next: the local successor is looked up in the map the Worker has now.  It is
\* waited for, or runs in a goroutine of its own.
NextLocal(i, j) ==
  LET u == inv[i].unit
      s == Successor[u]
  IN
  /\ Calling(i)
  /\ NextFree(j)
  /\ unitMap[s] # 0
  /\ inv' = [inv EXCEPT
       ![i] = IF u \in SyncUnits
              THEN [@ EXCEPT !.at = "wait", !.child = j]
              ELSE [@ EXCEPT !.at = "called"],
       ![j] = [NoInvocation EXCEPT !.at = "work", !.run = unitMap[s], !.unit = s]]
  /\ UNCHANGED <<process, shared, handler, load, results>>

NextPanics(i) ==
  /\ Calling(i)
  /\ unitMap[Successor[inv[i].unit]] = 0 \/ MapWritten
  /\ Dies("panic")

\* The span is closed, and Collect is started for the reporter the Worker has now.
Finish(i) ==
  /\ \/ inv[i].at = "work" /\ Successor[inv[i].unit] = None
     \/ inv[i].at = "called"
     \/ inv[i].at = "wait" /\ inv[inv[i].child].at \in {"finished", "done"}
  /\ inv' = [inv EXCEPT ![i].at = "finished", ![i].to = reporter]
  /\ UNCHANGED <<process, shared, handler, load, results>>

Collect(i) ==
  LET k == inv[i].to
  IN
  /\ inv[i].at = "finished"
  /\ ~ Wedged(k)
  /\ buffer' = [buffer EXCEPT ![k] = @ \cup {i}]
  /\ inv' = [inv EXCEPT ![i].at = "done"]
  /\ UNCHANGED <<process, shared, handler, load, delivered>>

-----------------------------------------------------------------------------
\* The environment and the end of the process.

\* The coordinator of run h ends or loses its connection.
CoordinatorGone(h) ==
  /\ StreamsBreak
  /\ pc[h] \notin {"absent", "returned"}
  /\ streamUp[h]
  /\ streamUp' = [streamUp EXCEPT ![h] = FALSE]
  /\ UNCHANGED <<process, shared, pc, serving, registered, regular, sigPending, load,
                 results, inv>>

\* SIGTERM or SIGINT: the command and every handler have asked for it.
Signal ==
  /\ Shutdown
  /\ ~ signalled
  /\ signalled' = TRUE
  /\ sigPending' = [h \in Runs |-> pc[h] # "absent"]
  /\ UNCHANGED <<proc, benchServer, port, shared, pc, serving, registered, regular,
                 streamUp, load, results, inv>>

\* waitForShutdown: server.Stop() breaks the result streams.
WaitForShutdown ==
  /\ signalled
  /\ benchServer
  /\ benchServer' = FALSE
  /\ streamUp' = [h \in Runs |-> FALSE]
  /\ UNCHANGED <<proc, signalled, port, shared, pc, serving, registered, regular,
                 sigPending, load, results, inv>>

\* The command exits 2 s after the signal.
Exit ==
  /\ signalled
  /\ Dies("exit")

-----------------------------------------------------------------------------

HandlerStep(h) ==
  \/ SetUpWorker(h) \/ Listen(h) \/ ListenFails(h) \/ Serve(h) \/ MakeMap(h)
  \/ RegisterUnit(h) \/ LaunchLoad(h) \/ StopLoad(h, FALSE) \/ StopLoad(h, TRUE)
  \/ EndsRegularly(h) \/ EndsForcefully(h) \/ Settle(h) \/ FinalReport(h)
  \/ GracefulStop(h) \/ Return(h)

LoadStep(h) ==
  \/ LoadEnds(h) \/ ReportLoopStops(h)
  \/ \E u \in Units : GeneratorStops(h, u)

InvocationStep(i) ==
  \/ \E j \in Invocations : NextLocal(i, j)
  \/ NextPanics(i) \/ Finish(i) \/ Collect(i)

Next ==
  /\ proc = "up"
  /\ \/ \E h \in Runs :
          \/ StartWorker(h) \/ TracerFails(h) \/ ExecutorFails(h) \/ CoordinatorGone(h)
          \/ HandlerStep(h) \/ LoadStep(h) \/ ReportTick(h)
          \/ \E u \in Units, i \in Invocations : GeneratorTick(h, u, i) \/ Call(h, u, i)
          \/ \E u \in Units : CallPanics(h, u)
     \/ \E i \in Invocations : InvocationStep(i)
     \/ Signal \/ WaitForShutdown \/ Exit

Spec == Init /\ [][Next]_vars

(***************************************************************************)
(* Fairness: goroutines that can run are scheduled, timers fire, and work  *)
(* that is emulated ends.  Nobody has to start a run, call a unit, send a  *)
(* signal or lose a connection; a select takes the stop channel in the end *)
(* although the ticker is ready as well.                                   *)
(***************************************************************************)
FairSpec ==
  /\ Spec
  /\ \A h \in Runs : /\ WF_vars(proc = "up" /\ HandlerStep(h))
                     /\ WF_vars(proc = "up" /\ LoadEnds(h))
                     /\ WF_vars(proc = "up" /\ ReportLoopStops(h))
                     /\ \A u \in Units : WF_vars(proc = "up" /\ GeneratorStops(h, u))
  /\ \A i \in Invocations : WF_vars(proc = "up" /\ InvocationStep(i))

-----------------------------------------------------------------------------
\* Properties.

Stages == {"absent", "tracer", "listen", "serve", "map", "units", "loop", "await",
           "settle", "final", "stop", "drain", "returned"}

InvocationRecords ==
  [at : {"free", "work", "wait", "called", "finished", "done"}, run : Runs \cup {0},
   unit : Units \cup {None}, server : Runs \cup {0}, child : Invocations \cup {0},
   to : Runs \cup {0}]

\* Every variable has a value of its type.
TypeOK ==
  /\ proc \in {"up", "exit", "fatal", "portInUse", "panic"}
  /\ {signalled, benchServer} \subseteq BOOLEAN
  /\ {port, reporter} \subseteq Runs \cup {0}
  /\ unitMap \in [Units -> Runs \cup {0}]
  /\ pc \in [Runs -> Stages]
  /\ registered \in [Runs -> Nat]
  /\ \A h \in Runs : registered[h] <= Len(Config[h])
  /\ {serving, regular, sigPending, streamUp, doneLoad, reportLoop}
       \subseteq [Runs -> BOOLEAN]
  /\ {generators, stopSignals} \subseteq [Runs -> SUBSET Roots]
  /\ {buffer, delivered} \subseteq [Runs -> SUBSET Invocations]
  /\ inv \in [Invocations -> InvocationRecords]

\* While a run produces load and until its final report is sent, every unit of
\* its configuration is registered with an executor of this run: a later
\* StartWorker call never replaces the map under a running benchmark, because
\* it fails to listen first.
MapBelongsToRun ==
  \A h \in Runs :
    pc[h] \in {"loop", "await", "settle", "final", "stop"} =>
      \A u \in UnitsOf(h) : unitMap[u] = h

\* Two runs generate load at once only if one of them was cut off by the tolerance
\* timer with generators still running, and then it has closed its server.
OneLoadAtATime ==
  \A h, k \in Runs :
    h < k /\ generators[h] # {} /\ generators[k] # {}
      => \E x \in {h, k} : pc[x] \in {"drain", "returned"} /\ ~ regular[x]

\* A run that ends regularly makes its final report, stops its server and
\* returns with all its generators halted and no stop signal left unread.
GeneratorsHalted ==
  \A h \in Runs : regular[h] => generators[h] = {} /\ stopSignals[h] = {}

\* When every unit a call or a successor names is configured, the process dies
\* of a nil Unit or of a concurrent map access only while some run is between
\* Serve and the registration of its last unit.
CrashOnlyDuringSetup ==
  proc = "panic" => \E h \in Runs : pc[h] \in {"map", "units"}

\* Every invocation reports to the reporter the Worker has when it ends, so its
\* result may reach the coordinator of another run; but only while one of the two
\* runs has not listened yet or has stopped its server: of two runs that serve
\* calls at the same time neither sends results of the other.
StrayResults ==
  [][\A h, k \in Runs : \A i \in delivered'[h] \ delivered[h] :
       inv[i].run = k /\ k # h
         => pc[h] \in {"listen", "drain"} \/ pc[k] \in {"drain", "returned"}]_vars

\* The phase of a run for its coordinator.
Phase(h) ==
  CASE pc[h] = "absent" -> "idle"
    [] pc[h] = "returned" -> "returned"
    [] proc # "up" /\ pc[h] \notin {"absent", "returned"} -> "dead"
    [] OTHER -> CASE pc[h] \in {"tracer", "listen", "serve", "map", "units"} -> "setup"
                  [] pc[h] = "loop" -> "load"
                  [] pc[h] = "await" -> "await"
                  [] pc[h] \in {"settle", "final"} -> "settle"
                  [] pc[h] \in {"stop", "drain"} -> "drain"

\* Every run, also one that overlaps with another and shares its fields, is for
\* its coordinator a run of RunProtocol.tla.
Protocol == INSTANCE RunProtocol WITH
              Runs <- Runs, phase <- [h \in Runs |-> Phase(h)],
              sent <- [h \in Runs |-> Cardinality(delivered[h])]
ImplementsProtocol == Protocol!Spec

\* With runs one after the other: a result that was waiting for its Collect
\* while the handler was still in its 5 s wait has been sent when the handler
\* returns, unless the stream broke or the buffer overflowed.
SettledResultsReported ==
  \A h \in Runs, i \in Invocations :
    [](inv[i].at = "finished" /\ inv[i].to = h
         /\ pc[h] \in {"loop", "await", "settle"}
       => [](pc[h] = "returned" /\ streamUp[h] /\ ~ Wedged(h) => i \in delivered[h]))

\* A StartWorker call returns in the end, unless a reporter stands still or the
\* process ends.
RunEnds ==
  \A h \in Runs :
    pc[h] = "tracer" ~> \/ pc[h] = "returned"
                        \/ proc # "up"
                        \/ \E k \in Runs : Wedged(k)

-----------------------------------------------------------------------------
\* What documentation and comments say, and the code does not keep.

\* "We give 5 seconds tolerance to make sure all results are reported."
\* (worker/worker.go): when a run has ended regularly, every invocation its
\* generators started has been reported.
AllResultsReported ==
  \A h \in Runs, i \in Invocations :
    pc[h] = "returned" /\ regular[h] /\ streamUp[h] /\ ~ Wedged(h) /\ inv[i].run = h
      => i \in delivered[h]

=============================================================================
