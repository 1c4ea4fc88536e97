--------------------------- MODULE WorkerCommand ---------------------------
(***************************************************************************)
(* The life of a process that runs "t-race worker" or "t-race workers":    *)
(* its settings, the start of its worker servers (StartWorkerProcess of    *)
(* worker/main.go), signals, and the time it then takes to exit, against   *)
(* the time a run takes to end (StartWorker of worker/worker.go).          *)
(*                                                                         *)
(* Seconds are counted from the moment the command takes the signal; how   *)
(* much is left by then of the waits of each run is arbitrary.  Whatever   *)
(* is ready to run does so within a second.                                *)
(***************************************************************************)
EXTENDS Settings

CONSTANT MaxWorkers   \* bound: the workers "workers" may be asked for

ASSUME WorkerCommandAssumption == MaxWorkers \in Nat \ {0}

VARIABLES
  main,       \* where the command is, or how the process ended
  count,      \* the number of workers to start
  export,     \* exportMetrics
  servers,    \* the servers started so far: TRUE while one runs
  hooks,      \* the shutdown hooks, of capacity 1, that hold a value
  signalled,  \* history: a signal was sent
  sigTerm,    \* sigTermRecv of the command, of capacity 1, holds it
  clock,      \* seconds since the command took it
  run,        \* the run of each worker
  due,        \* when the wait it is in is over
  settling    \* history: the runs in their last wait, or past it, at that moment

command == <<main, count, export, sigTerm>>
runs == <<run, due, settling>>
vars == <<settingsVars, command, servers, hooks, signalled, clock, runs>>

Slots == 1 .. MaxWorkers

CommandInit ==
  /\ Init
  /\ main = "settings"
  /\ count = 0
  /\ export = FALSE
  /\ servers = << >>
  /\ hooks = {}
  /\ signalled = FALSE
  /\ sigTerm = FALSE
  /\ clock = 0
  /\ run = [i \in Slots |-> "idle"]
  /\ due = [i \in Slots |-> 0]
  /\ settling = {}

\* The periods of the code, in seconds.
SettleTime == 5    \* a run's wait before its final report
LoadLimit == 5     \* its wait for its generators after a signal
Tolerance == 8     \* its wait for them when its time is over
ExitDelay_Long(c) == 10  \* mutant: the exit waits as long as a run may take
ExitDelay(c) == IF c = "worker" THEN 2 ELSE 3

-----------------------------------------------------------------------------
ReadConfiguration ==
  /\ main = "settings"
  /\ Start
  /\ UNCHANGED <<command, servers, hooks, signalled, clock, runs>>

\* "zero" is FALSE and the default of the flag TRUE.
Execute ==
  /\ main = "settings"
  /\ Started
  /\ given.command # "bench"
  /\ main' = "start"
  /\ count' \in IF given.command = "worker" THEN {1} ELSE Slots
  /\ export' \in CASE setting["exportMetrics"] = "zero" -> {FALSE}
                   [] setting["exportMetrics"] = "default" -> {TRUE}
                   [] OTHER -> BOOLEAN
  /\ UNCHANGED <<settingsVars, sigTerm, servers, hooks, signalled, clock, runs>>

\* /metrics is registered in the handler table of the process.
MetricsHandled == export /\ Len(servers) > 0

\* StartWorkerProcess: the second registration panics, and a port may be taken,
\* log.Fatalf.
StartWorkerProcess ==
  /\ main = "start"
  /\ Len(servers) < count
  /\ \/ main' = "fatal" /\ UNCHANGED servers
     \/ MetricsHandled /\ main' = "panic" /\ UNCHANGED servers
     \/ ~ MetricsHandled /\ servers' = Append(servers, TRUE) /\ UNCHANGED main
  /\ UNCHANGED <<settingsVars, count, export, sigTerm, hooks, signalled, clock, runs>>

\* Mutant: the channel for the signal has no buffer, and Notify does not wait.
SignalHeld_Unbuffered == Len(servers) = count

SignalHeld == TRUE

\* Before signal.Notify the signal ends the process.  Later the command gets it, and
\* so does every run that produces load.
Signal ==
  /\ main \in {"settings", "start"}
  /\ given.command # "bench"
  /\ ~ signalled
  /\ signalled' = TRUE
  /\ IF main = "settings"
     THEN main' = "killed" /\ UNCHANGED <<sigTerm, run>>
     ELSE /\ sigTerm' = SignalHeld
          /\ run' = [i \in Slots |-> IF run[i] = "load" THEN "warned" ELSE run[i]]
          /\ UNCHANGED main
  /\ UNCHANGED <<settingsVars, count, export, servers, hooks, clock, due, settling>>

\* Mutant: as many workers are told as the flag may ask for.
Told_All == Slots

Told == DOMAIN servers

\* What may be left, in seconds, of the wait a run is in.
Left(i) == CASE run[i] = "await" -> 0 .. Tolerance
             [] run[i] = "settle" -> 0 .. SettleTime
             [] OTHER -> {0}

\* The command takes the signal, tells every worker and sets its timer.
Shutdown ==
  /\ main = "start"
  /\ Len(servers) = count
  /\ sigTerm
  /\ main' = "wait"
  /\ sigTerm' = FALSE
  /\ hooks' = Told
  /\ due' \in {d \in [Slots -> 0 .. Tolerance] : \A i \in Slots : d[i] \in Left(i)}
  /\ settling' = {i \in Slots : run[i] \in {"settle", "reported"}}
  /\ UNCHANGED <<settingsVars, count, export, servers, signalled, clock, run>>

\* waitForShutdown: the server of worker i stops, with its result streams.
WaitForShutdown(i) ==
  /\ i \in hooks
  /\ hooks' = hooks \ {i}
  /\ servers' = [servers EXCEPT ![i] = FALSE]
  /\ UNCHANGED <<settingsVars, command, signalled, clock, runs>>

Exit ==
  /\ main = "wait"
  /\ clock = ExitDelay(given.command)
  /\ main' = "exited"
  /\ UNCHANGED <<settingsVars, count, export, sigTerm, servers, hooks, signalled, clock,
                 runs>>

-----------------------------------------------------------------------------
\* StartWorker of worker i, as far as signals and its waits go.  A run that starts after
\* the signal asked for it too late and does not get it.

\* A wait of t seconds that begins now.
Wait(i, t) == due' = [due EXCEPT ![i] = IF main = "wait" THEN clock + t ELSE @]

StartRun(i) ==
  /\ i \in DOMAIN servers
  /\ servers[i]
  /\ run[i] = "idle"
  /\ run' = [run EXCEPT ![i] = "load"]
  /\ settling' = settling \ {i}
  /\ UNCHANGED <<settingsVars, command, servers, hooks, signalled, clock, due>>

\* Its time is over: it stops its generators.
TimeOver(i) ==
  /\ run[i] \in {"load", "warned"}
  /\ run' = [run EXCEPT ![i] = "await"]
  /\ Wait(i, Tolerance)
  /\ UNCHANGED <<settingsVars, command, servers, hooks, signalled, clock, settling>>

\* It takes the signal: the same, with less patience.
TakeSignal(i) ==
  /\ run[i] = "warned"
  /\ run' = [run EXCEPT ![i] = "await"]
  /\ Wait(i, LoadLimit)
  /\ UNCHANGED <<settingsVars, command, servers, hooks, signalled, clock, settling>>

\* Its generators have ended, or it has waited for them long enough.
LoadEnds(i) ==
  /\ run[i] = "await"
  /\ run' = [run EXCEPT ![i] = "settle"]
  /\ Wait(i, SettleTime)
  /\ UNCHANGED <<settingsVars, command, servers, hooks, signalled, clock, settling>>

FinalReport(i) ==
  /\ run[i] = "settle"
  /\ main = "wait" => clock = due[i]
  /\ run' = [run EXCEPT ![i] = "reported"]
  /\ UNCHANGED <<settingsVars, command, servers, hooks, signalled, clock, due, settling>>

\* The server of the run has stopped, and StartWorker returns.
RunReturns(i) ==
  /\ run[i] = "reported"
  /\ run' = [run EXCEPT ![i] = "idle"]
  /\ UNCHANGED <<settingsVars, command, servers, hooks, signalled, clock, due, settling>>

Tick ==
  /\ main = "wait"
  /\ clock < ExitDelay(given.command)
  /\ hooks = {}
  /\ \A i \in Slots : /\ run[i] # "warned"
                      /\ run[i] \in {"await", "settle"} => clock < due[i]
  /\ clock' = clock + 1
  /\ UNCHANGED <<settingsVars, command, servers, hooks, signalled, runs>>

-----------------------------------------------------------------------------
Running == main \in {"settings", "start", "wait"}

\* The command and its servers.
CommandStep ==
  /\ Running
  /\ \/ ReadConfiguration \/ Execute \/ StartWorkerProcess \/ Shutdown \/ Exit
     \/ \E i \in Slots : WaitForShutdown(i)

\* What a run does of itself.
RunStep(i) == Running /\ (TakeSignal(i) \/ LoadEnds(i) \/ FinalReport(i))

Next ==
  \/ CommandStep
  \/ Running /\ (Tick \/ Signal)
  \/ \E i \in Slots :
       RunStep(i) \/ (Running /\ (StartRun(i) \/ TimeOver(i) \/ RunReturns(i)))

Spec == CommandInit /\ [][Next]_vars

\* The command and each run make progress and time goes on; nobody has to signal or to
\* start a run, its time need not be over, and calls may keep its server from stopping.
FairSpec ==
  /\ Spec
  /\ WF_vars(CommandStep) /\ WF_vars(Running /\ Tick)
  /\ \A i \in Slots : WF_vars(RunStep(i))

-----------------------------------------------------------------------------
\* Properties.

\* Every variable has a value of its type.
TypeOK ==
  /\ SettingsTypeOK
  /\ main \in {"settings", "start", "wait", "exited", "fatal", "panic", "killed"}
  /\ count \in 0 .. MaxWorkers
  /\ {export, signalled, sigTerm} \subseteq BOOLEAN
  /\ servers \in Seq(BOOLEAN) /\ Len(servers) <= count
  /\ hooks \subseteq DOMAIN servers
  /\ clock \in 0 .. 3
  /\ run \in [Slots -> {"idle", "load", "warned", "await", "settle", "reported"}]
  /\ due \in [Slots -> 0 .. 3 + Tolerance]
  /\ settling \subseteq Slots

\* The command has taken a signal.
ShuttingDown == main \in {"wait", "exited"}

\* "We give 5 seconds tolerance to make sure all results are reported" (worker.go), but a
\* run that produces load when the command takes the signal, waits for its generators or
\* starts later never gets to its final report: the process exits two or three seconds
\* later.  Only a run that was in its last wait by then may report, or has done so.
NoReportAfterSignal ==
  ShuttingDown => \A i \in Slots : run[i] = "reported" => i \in settling

\* A signal ends the process, whenever it comes.
SignalEndsProcess == signalled ~> ~ Running

=============================================================================
