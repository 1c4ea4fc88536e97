# t-race in TLA+

Specifications of [t-race](../src/README.md), a benchmark for distributed tracing
systems: a coordinator reads a description of an emulated microservice architecture,
starts one worker per service, the workers call each other and emit spans, and each
worker streams packages of results back to the coordinator.

The modules are translated from the Go code. This file says what the system consists
of, which module models which part, what the model checker and the prover show, and
what is left out.

## 1. The system

### Parts, state, operations

| Part | Code | State | Operations |
|---|---|---|---|
| Result reporter of a worker | `worker/reporter.go` | a buffer, a mutex, the result stream | `Collect` (one goroutine per finished invocation), `Report` (ticker, final report, and from `Collect` when the buffer is full) |
| Worker run | `worker/worker.go`, `worker/generator.go` | one `Worker` object for all runs: `Reporter`, `UnitExecutorMap`, `Config`, `Tracer`; per handler its generators, channels and timers | `StartWorker` (a run from set-up to `GracefulStop`), `Call` (from other workers), generator ticks, report ticks, signals |
| Unit executor | `worker/unit.go`, `worker/util.go` | per invocation its Go context, its span, its position among its successors | `Invoke`, `Next`, `EmulateWork`, `ExtractIncomingMetadata`, `StartContext` |
| Coordinator | `benchmark/coordinator.go` | one result stream, ticker and finished channel per worker, the phase of `StartBenchmark` | `Setup`, `StartBenchmark`, `WriteResults` |
| Parser and mapper | `executionmodel/` | the architecture; the map from services to worker configurations | `ParseArchitectureDescription`, `MapArchitectureToWorkers` |
| Static provider | `provider/model.go` | three maps from names to addresses | `NewStaticProvider`, `AllocateServices`, `AllocateSinks` |
| Work distributions | `worker/distributions.go` | one sampler per distribution and one source of random numbers, per process | `LookupDistribution`, `SetParameters`, `GetNextValue`, `RandStringWithLength` |
| Commands | `cmd/`, `main.go` | flags, the one viper, the program's variables | `bench`, `worker`, `workers`, `version` |
| Worker process | `worker/main.go`, `cmd/worker.go`, `cmd/workers.go` | its servers, the metrics handler table, shutdown hooks, the exit timer | `StartWorkerProcess`, `waitForShutdown`, signals |
| gRPC interface | `api/` | none (generated) | `StartWorker`, `Call` |
| Analysis | `analysis.ipynb` | none | plots |

### How they interact

    description, deployment file
        |  parse, allocate, map                        (Deployment)
        v
    coordinator --StartWorker(config)--> worker --Call--> worker ...
        ^                                  |  generators -> invocations (Invocation)
        |                                  |  invocations -> Collect    (WorkerRun)
        +------ result packages -----------+  report ticker -> Report   (BufferingReporter)
     (Coordinator)

- The coordinator calls `StartWorker` on each worker. The handler returns when the run
  is over; meanwhile it streams result packages.
- A worker has **two** gRPC servers: one for `StartWorker`, as long as the process
  lives, and one for `Call`, as long as a run lives. Both use the same `Worker` object.
- Generators start invocations in goroutines of their own, invocations call successors
  (locally in the process, remotely by `Call`), and every invocation hands its result
  to a further goroutine that calls `Collect`. Nobody waits for these goroutines.

### What is hard, and what makes each part correct

- *Reporter.* `Collect` and `Report` share a mutex that is not reentrant, and `Collect`
  calls `Report`. No result may be lost, repeated or reordered, the stream must be used
  by one goroutine at a time, and waiting goroutines must get through.
- *Worker run.* Fields of the shared `Worker` are replaced without a lock by every
  `StartWorker` call, while generators, calls and invocations of an earlier run use them.
  A run must not lose its units, two runs must not produce load at once, generators must
  be halted when a run ends, and the run must end.
- *Unit executor.* A gRPC server context is cancelled when the handler returns, and
  asynchronous successors outlive it. Synchronous calls must run in order and must
  arrive, the spans of a trace must stay connected, and every tree of calls must end.
- *Coordinator.* There is no handshake at the end of a benchmark: five timers in two
  processes have to fit so that the final package is received before the exit.
- *Work distributions.* One `worker` process sets up its units one after the other, a `workers`
  process several runs at once, into the same samplers, while invocations read them. A unit
  must work as its configuration says, its metadata must not change, and its ticker must
  keep the target rate for every target.
- *Commands.* The `init` functions and initializers of all commands run for each of them and
  share one viper: the order decides which flag, variable or file a setting comes from.
- *Worker process.* Timers of one process race after a signal: that of the command, which
  exits, and those of the runs, each in a wait of its own, which still want to report.
- *Parser, provider and mapper.* Names and positions are matched in three maps in three
  packages, one of which is iterated in random order. Each configuration has to reach the
  worker whose address the others are given.

`PROJECT.json` lists each hazard at its line with the properties that cover it.

## 2. Modules

| Module | Models | Grain of an action |
|---|---|---|
| `ResultLog` | what a reporter promises (abstract) | one accept, hand-over or break |
| `BufferingReporter` | `worker/reporter.go` | one step between lock operations |
| `RunProtocol` | what a coordinator may rely on in a run (abstract) | one phase, or something sent |
| `WorkerRun` | one worker process over several runs | one statement of a handler that others can observe |
| `Coordinator` | `StartBenchmark` and `WriteResults` in time | one event; time passes in seconds |
| `Invocation` | the tree of calls over all workers | one step of an invocation or of its call |
| `UnitSetup` | `worker/distributions.go`, the set-up of executors in `worker/unit.go`, the rate of `worker/generator.go` | one assignment to a shared sampler, otherwise one function |
| `Settings` | the init functions and initializers of `cmd/` | one of these functions |
| `WorkerCommand` | `worker/main.go` and the commands `worker` and `workers`; extends `Settings` | one event; after a signal time passes in seconds |
| `GoMaps` | Go maps that a loop fills (operators only) | |
| `Deployment` | `ExecuteBenchmark` up to the start of the benchmark | one function, loops included |
| `...Proofs` | theorems about the module of that name | |
| `MC...` | instances for TLC | |

How they compose:

- `BufferingReporter` is refined into `ResultLog` (`Log == INSTANCE ResultLog WITH ...`; the
  history variables `accepted`, `delivered` and `dropped` are the mapping).
- `WorkerRun` uses the reporter as the log promises it, `Collect` and `Report` being
  single steps. That is justified by `ImplementsLog`; the one thing the log does not
  tell, a reporter that stands still above its buffer size, is `Wedged`, justified by
  `OverflowIsFatal`.
- `WorkerRun` and `Coordinator` see the same runs from the two ends of a stream: the first
  from inside, without time, the second from outside, in time. Both are refined into
  `RunProtocol`, `WorkerRun` by mapping the position of the handler to a phase (`Phase`) and
  the delivered results to a number, `Coordinator` by its stages and package counts. So what
  `Coordinator` assumes about the order of a worker's steps and about silence after its
  return is what the handler does.
- `Invocation` takes the architecture that `Deployment` distributes as given, with units
  of several services. In `WorkerRun` only calls within a service matter.
- `UnitSetup` refines the set-up that `WorkerRun` takes as one step per unit, for all the
  workers of a process, whose settings and number come from `WorkerCommand`.
- `Deployment` and `UnitSetup` share `GoMaps`.

### BufferingReporter

`pc[g]` is the position of a goroutine. Collectors: `collect`, `append`, `collected`,
`done`, and `report` when they call `Report` holding the mutex. Report goroutines, those of
the report loop and `Handler`, which runs `StartWorker` itself: `idle`, `report`, `send`,
`reset`, `reported`. The loop starts them while it is `ticking`; it ends (`LoopEnds`) when the
generators have, and the handler reports once more (`FinalReport`), before or after that. `lock` is the holder of the mutex and `resultBuffer`
the buffer. `streamUp` is the gRPC stream: it breaks at most once and does not recover. `Send`
ignores its error, so a package sent to a broken stream goes to `dropped`.

### WorkerRun

`pc[h]` follows the handler of run `h`: `tracer`, `listen`, `serve`, `map`, `units` (set-up),
`loop` (load), `await` (the tolerance), `settle` (five seconds), `final`, `stop`, `drain`,
`returned`. `reporter` and `unitMap` are the shared fields; `unitMap[u]` is the run whose
executor is registered for `u`, 0 for a missing entry. Where the code exits or panics
(`log.Fatalf`, a nil unit, concurrent map access) `proc` records the cause and the process
stops. Reading the map while another goroutine writes it is undefined in Go: the model lets
it succeed or kill the process. An invocation that has started an asynchronous local successor
is at `called` until it finishes, which is when it reads the reporter.

Time is abstracted: the tolerance timer may fire at any time in `await`, and the five
seconds of `settle` are taken to be enough for a goroutine that is ready to run `Collect`,
and not for an invocation that still works. The switches `Overlap`, `Shutdown` and
`StreamsBreak` say which events of the environment an instance has.

### Coordinator

Time passes (`Tick`) when nothing is left to do at the current second. Ticker channels
and the finished channels have capacity one, and a tick that finds its channel full is
dropped. `WriteResults` receives at most one package per tick. A worker may die at any
point, and a call to start one may fail. A `Send` only hands its package to gRPC, so with a
process that dies any of the packages not received yet may be `lost`, the latest first;
`Arriving` is what will come. Its reporter may stand still (`stuck`): then the report loop
sends nothing any more, and the handler waits for the mutex in its final report for ever,
without its stream ending. A timer that is no longer used is set to 0, so that states that
differ in nothing the program can tell are one.

### Invocation

Each invocation also stands for the call that asked for it. `ctx[i]` names the remote call
in whose server context it runs and `cancelled` holds the contexts that ended. A remote
call can arrive, fail because its context is cancelled (`CallFails`), or fail because its
server cannot be reached (`CallLost`); the code ignores both errors. `parent[i]` is the call
whose client span is the parent of the invocation's span, by the rules of `Invoke`,
`opentracing-go` and the tracer's choice among references (`ParentSpan`).

### UnitSetup

Each worker of a process runs the set-up loop of `StartWorker`: look up the distribution,
assign its fields one after the other to the sampler the process has for it
(`assigning` holds those still to come; `lambda` of the exponential sampler is calculated from
the mean it has by then, which may be another unit's), draw the metadata, and in the end
compute the ticker intervals. Invocations of units that are registered already run meanwhile:
they copy the executor's metadata and ask the sampler for a duration. `Units` are those of the
description; what the coordinator makes of their metadata on the way to the worker is
`toContext`, which leaves the logs out. The source of random numbers is a data race where two
goroutines use it; `SourceRace` is the outcome in which its index leaves its range and the
process panics, the others are as if one came after the other.

### Settings and WorkerCommand

A value is represented by its origin: a flag, a variable, one of the two files, a flag's
default, or the zero value that viper gives for a key nobody set. `Register` is an `init`
function, `ReadSettings` an initializer; cobra's parsing comes between them. After that
`WorkerCommand` starts as many servers as the settings say. A signal before
`signal.Notify` kills the process; later it is held for the command in a channel of capacity
one and reaches every run that has asked for it. A run is in its `load`, or knows of the signal
(`warned`), in `await` (for its generators), in `settle` (the last five seconds) or has
`reported`. From the moment the command takes the signal, the model counts seconds up to the
exit. What is left by then of the wait a run is in is arbitrary within its length (`Left`);
`settling` records which runs were in their last wait or past it.

### Deployment

The three maps of the provider, the map of configurations and the set of connected
workers. A loop that fills a Go map is `Filled`: of entries with the same key the last one
stays. The steps are those of `ExecuteBenchmark`; where the code reads behind the end of
the address list or reads the template of a unit without work it panics.

## 3. Model checking

All runs finish within about a minute and a half with two TLC workers.

| Run | Instance | Shows |
|---|---|---|
| `reporter` | 3 results, a goroutine of the report loop and the handler, a buffer of 2; 7.7k states | `TypeOK`, `OrderKept`, `StreamExclusive`, `OverflowIsFatal`, `ImplementsLog`, and with fairness `ResultsHandedOver` |
| `reporter_wedge` | the same | *violated*: `KeepsReporting` |
| `run_overlap` | 2 runs in every overlap, unit `a` calls unit `b` synchronously, 2 invocations; 568k states | `TypeOK`, `MapBelongsToRun`, `OneLoadAtATime`, `GeneratorsHalted`, `CrashOnlyDuringSetup`, `StrayResults`, `ImplementsProtocol` |
| `run_live` | 1 run, asynchronous successor, signal, breaking stream, buffer of 1; 36k states | `SettledResultsReported`, `RunEnds` |
| `run_lost_results` | 1 run | *violated*: `AllResultsReported` |
| `calls` | a trace through 4 services with 5 units, 8 invocations; 10.9k states | `TypeOK`, `SyncOrder`, `SyncCallsArrive`, `SpansConnected`, `TracesEnd` |
| `coordinator` | 2 workers, 11 s of runtime, up to 2 s to set up each; 1.2m states | `TypeOK`, `AllPackagesWritten`, `BacklogBounded`, `ImplementsProtocol`, `BenchmarkEnds` |
| `deployment` | all descriptions of up to 2 services drawn from a set, 1 or 2 addresses; 184k states | `TypeOK`, `CallsReachTheirUnit`, `UndefinedCallsMiss`, `EveryUnitDeployed` |
| `units` | 2 workers with 1 or 2 units each, 2 invocations, 5 throughputs; 148k states | `TypeOK`, `OwnWorkUnlessContended`, `MetadataConstant`, `RateMeetsTarget` |
| `units_work` | the same | *violated*: `WorkAsConfigured` |
| `commands` | 3 commands, all flags, 3 environments or 3 contents of each file, up to 2 workers; 405k states | `TypeOK`, `FlagsPrevail`, `OwnFileFirst`, `NoReportAfterSignal`, `SignalEndsProcess` |
| `commands_defaults` | the same | *violated*: `DefaultsApply` |

Deadlock is not checked. Each system may stop: a process dies or exits, a reporter waits
for itself, a benchmark is over, all traces have ended, the bound of invocations is reached.

### Bounds, and why they are enough

- *reporter.* Three results are one more than the buffer holds, the first moment at which
  `Collect` calls `Report`. A goroutine of the report loop and the handler are the least
  with a tick that overlaps the final report; two overlapping ticks differ from these only in
  that both go back to `idle`. For all other sizes there are proofs (section 5).
- *run_overlap.* Two runs are enough for one to replace the fields of the other. Two
  invocations are a call and its successor, each of whichever run. `StreamsBreak` is off in
  this run, as a broken stream only takes away from `delivered`, and of its properties
  only those about what is sent read that. `Shutdown` and `StreamsBreak` are on in `run_live`, which has one handler to
  keep liveness affordable; each action fires in one of the two.
- *calls.* The architecture has every kind of call (remote or local, synchronous or not), a
  chain below an asynchronous call and a chain of synchronous calls only. `MaxInvocations`
  is exactly the number of invocations of one trace, so the bound cuts nothing off. Traces
  share no state in this module, hence one of them.
- *coordinator.* The runtime of 11 s covers two report intervals and a part of a third, and
  it is no multiple of an interval, so that tickers and the end of the load fall on
  different seconds. The tickers of workers and writers are shifted against each other by
  the time that set-up (`MaxSetup`) takes. The workers are called in the same second
  (`MaxConnect` is 0): the runtime is measured from the last of them, so one that is called
  earlier only has more time; the theorems cover any time to connect. The margin of the 30 s
  tolerance depends on `MaxSetup`, so it is a bound on the environment: with a set-up slower
  than the tolerance leaves room for, packages would be missed (section 5 says from when on).
- *deployment.* Two services are the least with a remote successor, a position other than
  the first and a double name. Units name each other, themselves or a missing service.
  Theorems cover all descriptions.
- *units.* Two workers set up at the same time are the least that interleave their
  assignments. The configurations have every distribution, contended and not, every kind of
  metadata template, a name that no sampler has, and throughputs below, at, inside and above
  the range of the arithmetic. A random duration is cut to the mean and one deviation to
  each side: enough to tell one unit's parameters from another's.
- *commands.* One key stands for all that are treated alike (the head of `Settings` says
  which). Inputs have environment variables or files, not both; the theorems cover both. Two
  workers are the least of which the second can fail, and the least with runs in different
  waits when the signal comes.

### Fairness

- `BufferingReporter`: a goroutine that can run is scheduled (WF). A `sync.Mutex` hands
  itself over to a waiter that starves, since Go 1.9, so acquiring it is strongly fair (SF).
  The handler comes to its final report, which is what `RunEnds` of `WorkerRun` says. Nothing
  is assumed of the ticker, as the report loop may end before its first tick. The stream need
  not break.
- `WorkerRun`: handlers, goroutines that end, and invocations make progress and timers
  fire (WF). Go's `select` chooses at random among ready cases, so the stop channel is taken
  in the end. Nothing makes anyone start a run, call a unit, tick, signal or disconnect.
- `Invocation`: timers fire, goroutines run, and a call arrives or fails (WF).
- `Coordinator`: WF of the whole next-state relation: time goes on. It is not Zeno: the
  conditions of `Tick` become true after finitely many steps in each second.
- `WorkerCommand`: WF of the steps of the command and its servers (`CommandStep`), of time, and
  of what each run does of itself (`RunStep`): take the signal, end its waits, report. Nobody has
  to signal or start a run, its time need not be over, and calls may keep its server from
  stopping.
- `Deployment`, `UnitSetup`: safety only.

### Mutants

For each property of a passing run the module holds an operator `<Definition>_<Bug>`, a
version of a definition with a plausible bug, with which TLC finds the property violated.

## 4. What the code does not keep

Four runs have counterexamples that the code produces. Each states what a comment or the
repository's README says of the program.

1. `reporter_wedge`: one result above the buffer size between two reports makes `Collect`
   wait for the mutex it holds (`reporter.go:41`). From then on no package is sent. With
   500 results and five seconds this is a hundred results a second per worker.
   `OverflowIsFatal` shows that there is no recovery, and is proved for every size.
2. `run_lost_results`: the final report waits five seconds for invocations that nobody
   counts (`worker.go:175`). One that works longer is lost although the run ends regularly.
3. `units_work`: `LookupDistribution` changes the parameters of the sampler that all units of
   the process share (`distributions.go:112`): the unit that was set up last decides how long
   the others work. `OwnWorkUnlessContended` says which units this cannot happen to.
4. `commands_defaults`: `workers` reads keys under names that no flag is bound to
   (`workers.go:89-90`), so metrics are off although the default of the flag is on. TLC's trace
   is of `worker`, which executes the same initializer and has the same variable. `MetricsOnlyByFile`, a part of `FlagsPrevail`, says what turns them
   on.

Some passing properties describe behaviour that no document mentions but that a user
should know of:

- what protects the units of a running benchmark from a second `StartWorker` call is that
  the call fails to listen on the service port, which ends the process (`MapBelongsToRun`,
  `CrashOnlyDuringSetup`);
- a result may reach the coordinator of the next run, if its invocation outlives its own
  (`StrayResults` says when);
- an asynchronous remote call may be cancelled by the return of the handler that made it
  (`SyncCallsArrive` says which calls are safe);
- after a signal a run that was not yet in its last five seconds never gets to its final
  report, whatever its generators do; one that was may, if at most two or three seconds of
  them were left (`NoReportAfterSignal`);
- logs that a description gives a unit are never generated, although an executor would
  (`unit.go:73-75`): the mapper copies tags and baggage of a context only (`mapper.go:64-67`,
  `toContext`). `MetadataConstant` says that those arrive;
- a worker whose reporter stands still never ends its run: its handler waits for the mutex, and
  the coordinator, which has everything that was sent, leaves all the same
  (`AllPackagesWritten`, `BenchmarkEnds`);
- a `workers` process that exports metrics panics with its second worker, because each
  registers the same handler (`StartWorkerProcess`; a guard of the model, not a property).

## 5. Proofs

TLAPS checks seven modules. All theorems hold for every value of the constants that
satisfies the assumption of their module; three of them have a hypothesis besides, which
their statement and this section name (`CrashesInSetup`, `SettledAreReported`,
`EverythingIsWritten`). Every invariant and every action property of the
passing runs is a theorem; the runs show the same on a small instance.

### BufferingReporterProofs

Assumption: `ReporterAssumption` (the buffer size is an integer, results and report
goroutines are different goroutines, and the free mutex is none of them).

- `TypeCorrect`: `Spec => []TypeOK`.
- `Invariance`: `Spec => []IInv`.
- `OrderIsKept`, `StreamIsExclusive`: the two safety invariants of the run.
- `OverflowEndsReporting`: the action property `OverflowIsFatal`.
- `Implementation`: `Spec => ImplementsLog`.

`OrderKept` is not inductive: that the buffer can be reset after a `Send` without losing a
result needs that nobody appended in between, so the mutex. `IInv` therefore adds

- `LockInv`: a goroutine is inside the critical section iff it holds the mutex. A collector
  that called `Report` counts as inside, which is the point of the self-deadlock;
- `RoleInv`: only collectors collect, and one that called `Report` never gets past its lock;
- `DropInv`: results are dropped only after the stream broke, so that the sequence handed
  over splits into a delivered and a dropped part;
- `OverflowInv`: the buffer is above its size only while a collector waits for itself;
- `FreshInv`: a result that is to be appended is not among the accepted ones, which the
  log's `Accept` asks for.

There is one lemma per action, with a step per conjunct. The refinement maps a step that
appends to `Accept`, `Send` to `Deliver` or `Discard`, `StreamBreaks` to `Break`, and every
other step to a stutter.

### WorkerRunProofs

Assumption: `WorkerRunAssumption` (the configurations are sequences of units, and a local
successor has no local successor itself). Nothing bounds the number of runs or how their
StartWorker calls overlap.

- `TypeCorrect`: `Spec => []TypeOK`. With it goes `UnitInv`: only units are invoked.
- `Invariance`: `Spec => []IInv`.
- `MapIsOwn`, `OneLoad`, `GeneratorsAreHalted`: the safety invariants of `run_overlap`.
- `ResultsStray`: the action property `StrayResults`.
- `CrashesInSetup`: `CrashOnlyDuringSetup`, when every run is configured with all units
  (`AllUnits`).
- `SettledAreReported`: `SettledResultsReported`, when runs come one after the other
  (`Overlap = FALSE`), as the property says and the run `run_live` has it.
- `Implementation`: `Spec => ImplementsProtocol`.

None of the properties is inductive. What keeps overlapping runs apart is the service port
and nothing else, so `IInv` says

- `PortInv`: a run is between `Listen` and `GracefulStop` iff it has the port, hence at most
  one is;
- `MapInv`: the entries of the units a run has been through are its own. By `PortInv` no other
  run can write the map meanwhile;
- `LoadInv`: when generators run, which of them are sent a stop signal, and that the group
  of generators is only done when none is left;
- `StreamInv`: a run that was not asked for has no stream.

Three theorems need more.

- `ResultsStray` needs `OwnerInv`: the executors in the map, the executors of invocations and
  the reporter of the Worker belong to runs that got as far as making them. A result of run
  `k` sent to the coordinator of `h` then has `k` behind its setup and `h` behind
  `SetUpWorker`; if neither has ended or not listened yet both have the port.
- `CrashesInSetup` needs `CoverInv`: a run is in its setup loop, or no run has been and
  nothing was invoked, or the map is complete.
- `SettledAreReported` needs `SerialInv`: one run at most is in progress, and the reporter of
  the Worker is that run's. The property is of the form "always, if A then always, if B then
  C". `Secured` is what A establishes, every step keeps and B turns into C: the result waits
  for its Collect while the handler waits too, or is in the buffer before the final report,
  or is sent, or the stream broke, or the reporter stands still.

`Implementation` maps the stages of a handler to the phases of its run (`PhaseAt`); reports
only add to a finite set, so what was sent grows; and the end of the process is one `Die` of
all open runs.

### CoordinatorProofs

Assumption: `CoordinatorAssumption` (finitely many workers, a runtime of at least a second,
bounds that are natural numbers).

- `TypeCorrect`: `Spec => []TypeOK`, of which the part that is no type is that no writer has
  written more packages than arrive.
- `LoopInvariance`: a worker's report loop only runs while its run is open.
- `Implementation`: `Spec => ImplementsProtocol`, from the two. So the coordinator is checked
  against the protocol that `WorkerRunProofs` shows the real handlers implement.
- `StreamInvariance`: `Spec => [](TypeOK /\ LoopInv /\ StreamInv)`.
- `StreamsStayShort`: `Spec => []BacklogBounded`, for set-ups of any length.
- `TimelyInvariance` and `EverythingIsWritten`: `Spec => []AllPackagesWritten`, if
  `MaxSetup <= 16`. For a worker that died or whose reporter stands still the claim is the
  weaker one that all is written that it sent and did not lose.

`BacklogBounded` compares two clocks: a worker reports every five seconds, and with every
tick of five seconds its writer takes a package, but the two started at times that are not
related, and a tick that comes while the writer waits for a package may be lost. `StreamInv`
says where the timers are (`MainTimer`, `Timers`), which stages the packages sent tell
(`StagesInv`), and in `BacklogInv` the bound with what makes it inductive: the writer comes
to as many packages before the next report (`Takes`) as that leaves no more than one behind,
two once the final one is sent, and with the bound reached it takes one before time goes on.

For `AllPackagesWritten` the times of both processes have to be compared: the coordinator
leaves `Tolerance` seconds after its runtime is over (`End`). `TimelyInv` has, for each
worker,

- `DueInv`: when each stage ends at the latest, counted from `End`;
- `FirstTick`: the first tick of a writer comes five seconds after the start of its worker,
  unless it is behind it;
- `AheadInv`: a run was set up in four seconds at most, so that its stages end early, or the
  writer had its first tick before the set-up was done and stays ahead of the reports by one
  (`Surplus`);
- `UnreadInv`: what is sent and not written when the run is over is taken before time goes
  on (`Prompt`) or with the next tick, which comes in time (`Soon`);
- `DoneInv`: when the coordinator lingers or has exited, nothing is left.

The hypothesis is sharp: with `MaxSetup = 17` TLC finds packages that are not received, for
a runtime of 2 and of 7 seconds. That is the margin of the constants in `coordinator.go` and
`worker.go`: nothing in the code bounds the set-up of a worker, which is why it is a
constant of the model, but a run that takes 17 seconds or more from its start to its
generators may lose its last results.

### InvocationProofs

Assumption: `InvocationAssumption` (the successors of a unit are a sequence of references to
units; the bounds are natural numbers). The unit graph is arbitrary, cycles included.

- `Invariant`: `Spec => []Inv`.
- `TypeCorrect`, `SynchronousOrder`, `SpansOfTrace`, `SyncCallsAllArrive`: the four invariants
  of the run `calls`.

Three of the properties speak about `Path(i)`, the invocations from `i` up to its generator,
which the module computes with a recursive function. The first part of the module shows what
the proofs need of it: there is such a function (`LeastNumber`: a set of numbers that is not
empty has a least one, from the well-foundedness of `<`), and `Path(i)` holds `i` and with
each member its caller, and is the least such set. Callers have smaller numbers (`Forest`),
so a path ends, and a new invocation is on no path but its own (`TakenPaths`). `Inv` adds to
the properties

- `Numbered`: a caller calls each of its successors once;
- `Order`: as `SyncOrder`, and also for a caller that already waits for its next successor;
- `Contexts`: an invocation runs in the context of a call on its path;
- `Waiting`: above an invocation that has not ended and that synchronous calls alone lead to,
  everything waits. That is what `SyncCallsArrive` rests on: nothing on its path has returned,
  so by `ByReturn` nothing is cancelled.

There is one lemma per action. Those that only move one invocation on (`Move`) share
theirs, and the two that make an invocation share `Taken`.

### UnitSetupProofs

Assumption: `UnitSetupAssumption` (the configurations are well-typed; one of the deviations
is 0).

- `Invariance`: `Spec => []Inv`.
- `TypeCorrect`, `WorkIsItsOwn`, `MetadataStays`, `RatesMeetTargets`: the four invariants of
  the run `units`.

`OwnWorkUnlessContended` is about an invocation when it works, its cause an assignment long
before. `SamplersInv` is the bridge: the sampler holds, for each unit that was set up and each
field its distribution uses, the configured value, unless the work is contended. For `lambda`
that needs the mean to be right when it is calculated (`AssignedValue`). An
assignment for another unit keeps that, as either the types differ, or the values agree, or
both are contended. `Progress` says which assignments are still to come, `ExecutorsInv` and
`InvocationInv` that an invocation has the metadata of its executor, and `GeneratorsInv` that
intervals are those calculated. `RateMeetsTarget` is then arithmetic: `Quotient` bounds the
quotient that Go's integer division gives, for every throughput.

### WorkerCommandProofs

Assumptions: `SettingsAssumption` (the inputs are of their types) and
`WorkerCommandAssumption` (at least one slot for a worker).

- `CommandInvariant`: `Spec => []CommandInv`.
- `TypeCorrect`: `Spec => []TypeOK`.
- `FlagsHaveTheirEffect`, `OwnFileIsRead`: `FlagsPrevail` and `OwnFileFirst`, for every
  combination of flags, environment and files.
- `NoFinalReport`: `NoReportAfterSignal`, for any number of workers, each in any phase of its
  run and with anything left of its wait when the command takes the signal.

The properties of the settings look at the end of the start-up. The invariant says for each
of its steps what the ones before left: which command a key's flag is bound to (`Bindings`),
which file is loaded (`LoadedFile`), and where the variables that are already read come from
(`WorkerSettings`, `FlagSettings`, `FileSettings`). `NoReportAfterSignal` needs that a run
that was not in its last wait when the command took the signal, and is by now, has it until
five seconds after that at least (`RunInv`), and that the command exits earlier (`ExitSoon`).

### DeploymentProofs

Assumption: `DeploymentAssumption` (the instance's descriptions and deployment files are
well-typed and the empty string names nothing).

- `Invariance`: `Spec => []Inv`. `Inv` says what every finished step left in the maps.
- `CallsArrive`: `Spec => []CallsReachTheirUnit`.
- `CallsMiss`: `Spec => []UndefinedCallsMiss`.
- `UnitsDeployed`: `Spec => []EveryUnitDeployed`.
- `TypeCorrect`: `Spec => []TypeOK`, from the types of what the maps are filled with.

The argument: an entry of a map filled by a loop is the value at the last index of its key
(`FilledEntry`); such an index exists because a finite set of indices that is not empty has
a largest element (`LargestIndex`, by the pigeonhole principle).
All four maps are filled in the order of the services, so the entries for one
name come from one index: the connection, the configuration and the address given to callers
belong together (`WorkerOfService`), and there are no other workers (`WorkersOfServices`).
A successor that is not defined is missed because the units a worker is configured with are
those of its service in the description (`MappedUnits`), and because with addresses that are
all different a connection leads to no second service (`AddressOfService`, `MissesFollow`).

### Model-checked only

- The liveness properties `ResultsHandedOver`, `RunEnds`, `TracesEnd`, `BenchmarkEnds` and
  `SignalEndsProcess`: the prover has no support for fairness and `ENABLED`.
- What the code does not keep (section 4): a counterexample is a matter for TLC.

## 6. Not modelled

- Payloads: tags, logs and times of spans, values of results, the CSV format. Of metadata
  `UnitSetup` follows where it comes from and that it stays the same.
- The mapper's copies of inputs, relationship types and work parameters (`toKVTemplate`,
  `toWork` beyond its nil access); `toContext` is in `UnitSetup`.
- In `StartWorker`: the metrics registry. Of the tracer only that its creation may fail.
- A connection that breaks while a call is being handled: `CallLost` only covers calls that
  did not reach their server.
- Calls that gRPC may still accept while `GracefulStop` runs.
- A loop in the description's unit graph: the parser lets it through (`parser.go:119`), the
  tree of calls is then infinite, and what ends it is the memory of the process.
- Creating the result directory; the read errors of description and deployment file. The
  parser's grouping by environments and `CreateEnvironments`, whose results nothing uses.
- `benchmark/benchmark.go`, `api/marshal.go` and the weighted generator of
  `worker/generator.go`: nothing calls them.
- Generated gRPC code, the notebook, the command `version`.

## 7. Plan

Done: reporter with its abstract log, worker run and coordinator with their abstract
protocol, invocations, deployment, set-up of units, commands and process, and for each of
them the proofs of its safety properties. What follows, in this order:

1. `Coordinator`: how late a worker's final package can be, as a bound in terms of `MaxSetup`
   for set-ups of more than 16 seconds: which packages are still received.
2. `WorkerRun`: what remains of `SettledResultsReported` when runs overlap; the owner of the
   reporter then decides where a result goes.
3. The safety part of the liveness properties: for `RunEnds` and `BenchmarkEnds` a measure
   that each step of a handler decreases, leaving to TLC only that steps are taken.
4. `Invocation` on cyclic unit graphs: the theorems cover them; a run would show how far a
   chain of calls gets until the bound.
