--------------------------- MODULE WorkerRunProofs ---------------------------
(* Proofs about WorkerRun, for any units, configurations and runs, however   *)
(* they overlap.                                                             *)
EXTENDS WorkerRun, FiniteSetTheorems, TLAPS

\* Runs are numbered from 1, and each has a sequence of units.
LEMMA RunsAreNumbers == \A h \in Runs : h \in Nat \ {0} /\ Config[h] \in Seq(Units)
  BY WorkerRunAssumption DEF Runs

\* A run is configured with units of the service.
LEMMA UnitsOfRun == \A h \in Runs : UnitsOf(h) \subseteq Units
<1> TAKE h \in Runs
<1>1. Config[h] \in Seq(Units)
  BY RunsAreNumbers
<1>2. \A i \in DOMAIN Config[h] : Config[h][i] \in Units
  BY <1>1
<1>3. QED
  BY <1>2 DEF UnitsOf

\* The steps that concern nothing but invocations and results.
InvocationsOnly ==
  \/ \E h \in Runs, u \in Units, i \in Invocations : GeneratorTick(h, u, i) \/ Call(h, u, i)
  \/ \E i, j \in Invocations : NextLocal(i, j)
  \/ \E i \in Invocations : Finish(i) \/ Collect(i)

\* The process ends.
Ends ==
  \/ \E h \in Runs : TracerFails(h) \/ ExecutorFails(h) \/ ListenFails(h)
  \/ \E h \in Runs, u \in Units : CallPanics(h, u)
  \/ \E i \in Invocations : NextPanics(i)
  \/ Exit

\* The steps of run h.
RunStep(h) ==
  \/ StartWorker(h) \/ SetUpWorker(h) \/ Listen(h) \/ Serve(h) \/ MakeMap(h)
  \/ RegisterUnit(h) \/ LaunchLoad(h) \/ StopLoad(h, FALSE) \/ StopLoad(h, TRUE)
  \/ EndsRegularly(h) \/ EndsForcefully(h) \/ Settle(h) \/ FinalReport(h)
  \/ GracefulStop(h) \/ Return(h)
  \/ LoadEnds(h) \/ ReportLoopStops(h) \/ (\E u \in Units : GeneratorStops(h, u))

\* Every step is one of a run, of invocations, the end of the process or its shutdown.
LEMMA Steps ==
  ASSUME Next
  PROVE  \/ \E h \in Runs : RunStep(h) \/ ReportTick(h) \/ CoordinatorGone(h)
         \/ InvocationsOnly \/ Ends \/ Signal \/ WaitForShutdown
BY DEF Next, HandlerStep, LoadStep, InvocationStep, InvocationsOnly, Ends, RunStep

-----------------------------------------------------------------------------
(***************************************************************************)
(* Every variable keeps its type.                                          *)
(***************************************************************************)
Numbers == Runs \cup {0}

\* An invocation that has started is one of a unit.
UnitInv == \A i \in Invocations : inv[i].at # "free" => inv[i].unit \in Units

TypeInv == TypeOK /\ UnitInv

\* The end of the process only changes proc.
LEMMA EndsTypes ==
  ASSUME TypeInv, Ends
  PROVE  TypeInv'
<1>1. /\ proc' \in {"up", "exit", "fatal", "portInUse", "panic"}
      /\ UNCHANGED <<signalled, benchServer, port, shared, handler, load, results, inv>>
  BY DEF Ends, TracerFails, ExecutorFails, ListenFails, CallPanics, NextPanics, Exit, Dies
<1>2. QED
  BY <1>1 DEF TypeInv, UnitInv, TypeOK, shared, handler, load, results

\* Invocations keep the types, and only units are invoked.
LEMMA InvocationTypes ==
  ASSUME TypeInv, InvocationsOnly
  PROVE  TypeInv'
<1> DEFINE R == InvocationRecords
<1>0. NoInvocation \in R
  BY DEF NoInvocation, InvocationRecords
<1>a. \A i \in Invocations : i \in Nat \ {0}
  BY WorkerRunAssumption DEF Invocations
<1>1. UNCHANGED <<process, shared, handler, load, delivered>>
  BY DEF InvocationsOnly, GeneratorTick, Call, NextLocal, Finish, Collect, results
<1>2. inv' \in [Invocations -> R] /\ UnitInv'
  <2>1. ASSUME NEW i \in Invocations, NEW k \in Numbers, NEW u \in Units,
               NEW server \in Numbers, Invoke(i, k, u, server)
        PROVE  inv' \in [Invocations -> R] /\ UnitInv'
    <3> DEFINE r == [NoInvocation EXCEPT !.at = "work", !.run = k, !.unit = u,
                                         !.server = server]
    <3>1. r \in R /\ r.unit = u
      BY DEF NoInvocation, InvocationRecords, Numbers
    <3>2. inv' = [inv EXCEPT ![i] = r]
      BY <2>1 DEF Invoke
    <3> HIDE DEF r
    <3>3. QED
      BY <3>1, <3>2 DEF TypeInv, UnitInv, TypeOK
  <2>2. ASSUME NEW h \in Runs, NEW u \in Units, NEW i \in Invocations,
               GeneratorTick(h, u, i) \/ Call(h, u, i)
        PROVE  inv' \in [Invocations -> R] /\ UnitInv'
    <3>1. h \in Numbers /\ 0 \in Numbers /\ unitMap[u] \in Numbers
      BY DEF TypeInv, TypeOK, Numbers
    <3>2. QED
      BY <2>1, <2>2, <3>1 DEF GeneratorTick, Call
  <2>3. ASSUME NEW i \in Invocations, NEW j \in Invocations, NextLocal(i, j)
        PROVE  inv' \in [Invocations -> R] /\ UnitInv'
    <3> DEFINE s == Successor[inv[i].unit]
               waiting == [inv[i] EXCEPT !.at = "wait", !.child = j]
               called == [inv[i] EXCEPT !.at = "called"]
               callee == [NoInvocation EXCEPT !.at = "work", !.run = unitMap[s], !.unit = s]
    <3>1. /\ inv[i] \in R /\ reporter \in Numbers
          /\ inv[i].unit \in Units
      BY <2>3 DEF TypeInv, TypeOK, UnitInv, Numbers, NextLocal, Calling
    <3>2. s \in Units /\ unitMap[s] \in Numbers
      BY <2>3, <3>1, WorkerRunAssumption DEF NextLocal, Calling, TypeInv, TypeOK, Numbers
    <3>3. /\ waiting \in R /\ waiting.unit = inv[i].unit
          /\ called \in R /\ called.unit = inv[i].unit
      BY <3>1 DEF InvocationRecords, Numbers
    <3>4. callee \in R /\ callee.unit = s
      BY <3>2 DEF NoInvocation, InvocationRecords, Numbers
    <3>5. \/ inv' = [inv EXCEPT ![i] = waiting, ![j] = callee]
          \/ inv' = [inv EXCEPT ![i] = called, ![j] = callee]
      BY <2>3 DEF NextLocal, NoInvocation
    <3> HIDE DEF s, waiting, called, callee
    <3>6. QED
      BY <3>1, <3>2, <3>3, <3>4, <3>5 DEF TypeInv, UnitInv, TypeOK
  <2>4. ASSUME NEW i \in Invocations, Finish(i) \/ Collect(i)
        PROVE  inv' \in [Invocations -> R] /\ UnitInv'
    <3> DEFINE ended == [inv[i] EXCEPT !.at = "finished", !.to = reporter]
               done == [inv[i] EXCEPT !.at = "done"]
    <3>1. /\ inv[i].at # "free"
          /\ inv' = [inv EXCEPT ![i] = ended] \/ inv' = [inv EXCEPT ![i] = done]
      BY <2>4 DEF Finish, Collect, TypeInv, TypeOK
    <3>2. inv[i] \in R /\ reporter \in Numbers /\ inv[i].unit \in Units
      BY <3>1 DEF TypeInv, TypeOK, UnitInv, Numbers
    <3>3. /\ ended \in R /\ ended.unit = inv[i].unit
          /\ done \in R /\ done.unit = inv[i].unit
      BY <3>2 DEF InvocationRecords, Numbers
    <3> HIDE DEF ended, done
    <3>4. QED
      BY <3>1, <3>2, <3>3 DEF TypeInv, UnitInv, TypeOK
  <2>5. QED
    BY <2>2, <2>3, <2>4 DEF InvocationsOnly
<1>3. buffer' \in [Runs -> SUBSET Invocations]
  <2>1. ASSUME NEW i \in Invocations, Collect(i)
        PROVE  buffer' \in [Runs -> SUBSET Invocations]
    <3>1. buffer \in [Runs -> SUBSET Invocations]
      BY DEF TypeInv, TypeOK
    <3>2. buffer' = [buffer EXCEPT ![inv[i].to] = @ \cup {i}]
      BY <2>1 DEF Collect
    <3>3. QED
      BY <3>1, <3>2
  <2>2. CASE buffer' = buffer
    BY <2>2 DEF TypeInv, TypeOK
  <2>3. QED
    BY <2>1, <2>2 DEF InvocationsOnly, GeneratorTick, Call, NextLocal, Finish, results
<1>4. QED
  BY <1>1, <1>2, <1>3 DEF TypeInv, TypeOK, process, shared, handler, load

\* A report moves results from a buffer to the delivered ones.
LEMMA ReportTypes ==
  ASSUME TypeOK, NEW k, Report(k)
  PROVE  {buffer', delivered'} \subseteq [Runs -> SUBSET Invocations]
<1>1. buffer \in [Runs -> SUBSET Invocations] /\ delivered \in [Runs -> SUBSET Invocations]
  BY DEF TypeOK
<1>2. buffer' = [buffer EXCEPT ![k] = {}]
  BY DEF Report
<1>3. \/ delivered' = [delivered EXCEPT ![k] = @ \cup buffer[k]]
      \/ delivered' = [delivered EXCEPT ![k] = @]
  BY DEF Report
<1>4. buffer' \in [Runs -> SUBSET Invocations]
  BY <1>1, <1>2
<1>5. delivered' \in [Runs -> SUBSET Invocations]
  BY <1>1, <1>3
<1>6. QED
  BY <1>4, <1>5

\* The steps of a run keep the types.
LEMMA RunTypes ==
  ASSUME TypeInv, NEW h \in Runs, RunStep(h)
  PROVE  TypeInv'
<1> USE DEF TypeInv
<1>0. proc' = proc /\ signalled' = signalled /\ benchServer' = benchServer /\ inv' = inv
  BY DEF RunStep, StartWorker, SetUpWorker, Listen, Serve, MakeMap, RegisterUnit, LaunchLoad,
         StopLoad, EndsRegularly, EndsForcefully, Settle, FinalReport, GracefulStop, Return,
         LoadEnds, ReportLoopStops, GeneratorStops, process
<1>1. port' \in Runs \cup {0} /\ reporter' \in Runs \cup {0}
  BY DEF TypeOK, RunStep, StartWorker, SetUpWorker, Listen, Serve, MakeMap, RegisterUnit,
         LaunchLoad, StopLoad, EndsRegularly, EndsForcefully, Settle, FinalReport,
         GracefulStop, Return, LoadEnds, ReportLoopStops, GeneratorStops, process, shared
<1>2. pc' \in [Runs -> Stages]
  BY DEF TypeOK, Goto, Stages, RunStep, StartWorker, SetUpWorker, Listen, Serve, MakeMap,
         RegisterUnit, LaunchLoad, StopLoad, AfterLoop, EndsRegularly, EndsForcefully, Settle,
         FinalReport, GracefulStop, Return, LoadEnds, ReportLoopStops, GeneratorStops, handler
<1>3. /\ unitMap' \in [Units -> Runs \cup {0}]
      /\ registered' \in [Runs -> Nat]
      /\ \A k \in Runs : registered'[k] <= Len(Config[k])
  <2>1. CASE MakeMap(h)
    BY <2>1 DEF TypeOK, MakeMap
  <2>2. CASE RegisterUnit(h)
    <3>1. registered[h] \in Nat /\ registered[h] < Len(Config[h]) /\ Len(Config[h]) \in Nat
      BY <2>2, RunsAreNumbers DEF TypeOK, RegisterUnit, AllRegistered
    <3>2. registered'[h] = registered[h] + 1
      BY <2>2 DEF TypeOK, RegisterUnit
    <3>3. Config[h][registered'[h]] \in Units
      BY <3>1, <3>2, RunsAreNumbers
    <3>4. unitMap' \in [Units -> Runs \cup {0}]
      BY <2>2, <3>3 DEF TypeOK, RegisterUnit
    <3>5. QED
      BY <2>2, <3>1, <3>4 DEF TypeOK, RegisterUnit
  <2>3. CASE UNCHANGED <<unitMap, registered>>
    BY <2>3 DEF TypeOK
  <2>4. QED
    BY <2>1, <2>2, <2>3
       DEF RunStep, StartWorker, SetUpWorker, Listen, Serve, LaunchLoad, StopLoad,
           EndsRegularly, EndsForcefully, Settle, FinalReport, GracefulStop, Return, LoadEnds,
           ReportLoopStops, GeneratorStops, shared, handler
<1>b. ASSUME NEW f \in [Runs -> BOOLEAN], NEW g,
             g = f \/ \E x \in BOOLEAN : g = [f EXCEPT ![h] = x]
      PROVE  g \in [Runs -> BOOLEAN]
  BY <1>b
<1>4. /\ serving' \in [Runs -> BOOLEAN]
      /\ regular' \in [Runs -> BOOLEAN]
  <2>0. {serving, regular} \subseteq [Runs -> BOOLEAN]
    BY DEF TypeOK
  <2>1. serving' = serving \/ \E x \in BOOLEAN : serving' = [serving EXCEPT ![h] = x]
    BY <2>0 DEF RunStep, StartWorker, SetUpWorker, Listen, Serve, MakeMap, RegisterUnit,
         LaunchLoad, StopLoad, EndsRegularly, EndsForcefully, Settle, FinalReport,
         GracefulStop, Return, LoadEnds, ReportLoopStops, GeneratorStops, handler
  <2>2. regular' = regular \/ \E x \in BOOLEAN : regular' = [regular EXCEPT ![h] = x]
    BY <2>0 DEF RunStep, StartWorker, SetUpWorker, Listen, Serve, MakeMap, RegisterUnit,
         LaunchLoad, StopLoad, EndsRegularly, EndsForcefully, Settle, FinalReport,
         GracefulStop, Return, LoadEnds, ReportLoopStops, GeneratorStops, handler
  <2>3. QED
    BY <2>0, <2>1, <2>2, <1>b
<1>5. /\ sigPending' \in [Runs -> BOOLEAN]
      /\ streamUp' \in [Runs -> BOOLEAN]
  <2>0. {sigPending, streamUp} \subseteq [Runs -> BOOLEAN]
    BY DEF TypeOK
  <2>1. sigPending' = sigPending \/ \E x \in BOOLEAN : sigPending' = [sigPending EXCEPT ![h] = x]
    BY <2>0 DEF RunStep, StartWorker, SetUpWorker, Listen, Serve, MakeMap, RegisterUnit,
         LaunchLoad, StopLoad, EndsRegularly, EndsForcefully, Settle, FinalReport,
         GracefulStop, Return, LoadEnds, ReportLoopStops, GeneratorStops, handler
  <2>2. streamUp' = streamUp \/ \E x \in BOOLEAN : streamUp' = [streamUp EXCEPT ![h] = x]
    BY <2>0 DEF RunStep, StartWorker, SetUpWorker, Listen, Serve, MakeMap, RegisterUnit,
         LaunchLoad, StopLoad, EndsRegularly, EndsForcefully, Settle, FinalReport,
         GracefulStop, Return, LoadEnds, ReportLoopStops, GeneratorStops, handler
  <2>3. QED
    BY <2>0, <2>1, <2>2, <1>b
<1>6. /\ doneLoad' \in [Runs -> BOOLEAN]
      /\ reportLoop' \in [Runs -> BOOLEAN]
  <2>0. {doneLoad, reportLoop} \subseteq [Runs -> BOOLEAN]
    BY DEF TypeOK
  <2>1. doneLoad' = doneLoad \/ \E x \in BOOLEAN : doneLoad' = [doneLoad EXCEPT ![h] = x]
    BY <2>0 DEF RunStep, StartWorker, SetUpWorker, Listen, Serve, MakeMap, RegisterUnit,
         LaunchLoad, StopLoad, EndsRegularly, EndsForcefully, Settle, FinalReport,
         GracefulStop, Return, LoadEnds, ReportLoopStops, GeneratorStops, load
  <2>2. reportLoop' = reportLoop \/ \E x \in BOOLEAN : reportLoop' = [reportLoop EXCEPT ![h] = x]
    BY <2>0 DEF RunStep, StartWorker, SetUpWorker, Listen, Serve, MakeMap, RegisterUnit,
         LaunchLoad, StopLoad, EndsRegularly, EndsForcefully, Settle, FinalReport,
         GracefulStop, Return, LoadEnds, ReportLoopStops, GeneratorStops, load
  <2>3. QED
    BY <2>0, <2>1, <2>2, <1>b
<1>7. /\ generators' \in [Runs -> SUBSET Roots]
      /\ stopSignals' \in [Runs -> SUBSET Roots]
  <2>0. {generators, stopSignals} \subseteq [Runs -> SUBSET Roots]
    BY DEF TypeOK
  <2>1. CASE LaunchLoad(h) \/ StopLoad(h, FALSE) \/ StopLoad(h, TRUE)
    BY <2>0, <2>1 DEF LaunchLoad, StopLoad, Stopped
  <2>2. ASSUME NEW u \in Units, GeneratorStops(h, u)
        PROVE  {generators', stopSignals'} \subseteq [Runs -> SUBSET Roots]
    <3>1. generators' = [generators EXCEPT ![h] = @ \ {u}]
      BY <2>2 DEF GeneratorStops
    <3>2. stopSignals' = [stopSignals EXCEPT ![h] = @ \ {u}]
      BY <2>2 DEF GeneratorStops
    <3>3. QED
      BY <2>0, <3>1, <3>2
  <2>3. CASE UNCHANGED <<generators, stopSignals>>
    BY <2>0, <2>3
  <2>4. QED
    BY <2>1, <2>2, <2>3
       DEF RunStep, StartWorker, SetUpWorker, Listen, Serve, MakeMap, RegisterUnit,
           EndsRegularly, EndsForcefully, Settle, FinalReport, GracefulStop, Return, LoadEnds,
           ReportLoopStops, load
<1>8. {buffer', delivered'} \subseteq [Runs -> SUBSET Invocations]
  <2>1. CASE FinalReport(h)
    BY <2>1, ReportTypes DEF FinalReport
  <2>2. CASE UNCHANGED results
    BY <2>2 DEF results, TypeOK
  <2>3. QED
    BY <2>1, <2>2
       DEF RunStep, StartWorker, SetUpWorker, Listen, Serve, MakeMap, RegisterUnit, LaunchLoad,
           StopLoad, EndsRegularly, EndsForcefully, Settle, GracefulStop, Return, LoadEnds,
           ReportLoopStops, GeneratorStops
<1>9. TypeOK'
  BY <1>0, <1>1, <1>2, <1>3, <1>4, <1>5, <1>6, <1>7, <1>8 DEF TypeOK
<1>10. QED
  BY <1>0, <1>9 DEF UnitInv

\* Every step keeps the types.
LEMMA TypeStep == TypeInv /\ [Next]_vars => TypeInv'
<1> SUFFICES ASSUME TypeInv, [Next]_vars
             PROVE  TypeInv'
  OBVIOUS
<1>1. ASSUME NEW h \in Runs, ReportTick(h)
      PROVE  TypeInv'
  BY <1>1, ReportTypes DEF ReportTick, TypeInv, UnitInv, TypeOK, process, shared, handler, load
<1>2. ASSUME NEW h \in Runs, CoordinatorGone(h)
      PROVE  TypeInv'
  <2>1. streamUp' \in [Runs -> BOOLEAN]
    BY <1>2 DEF CoordinatorGone, TypeInv, TypeOK
  <2>2. QED
    BY <1>2, <2>1 DEF CoordinatorGone, TypeInv, UnitInv, TypeOK, process, shared, load, results
<1>3. CASE Signal
  BY <1>3 DEF Signal, TypeInv, UnitInv, TypeOK, shared, load, results
<1>4. CASE WaitForShutdown
  BY <1>4 DEF WaitForShutdown, TypeInv, UnitInv, TypeOK, shared, load, results
<1>5. CASE UNCHANGED vars
  BY <1>5 DEF vars, TypeInv, UnitInv, TypeOK, process, shared, handler, load, results
<1>6. QED
  BY <1>1, <1>2, <1>3, <1>4, <1>5, Steps, RunTypes, InvocationTypes, EndsTypes

\* Every variable of the worker keeps its type.
THEOREM TypeCorrect == Spec => []TypeOK
<1>1. Init => TypeInv
  <2> SUFFICES ASSUME Init
               PROVE  TypeInv
    OBVIOUS
  <2>1. NoInvocation \in InvocationRecords /\ NoInvocation.at = "free"
    BY DEF NoInvocation, InvocationRecords
  <2>2. inv \in [Invocations -> InvocationRecords] /\ UnitInv
    BY <2>1 DEF Init, UnitInv
  <2>3. \A h \in Runs : registered[h] <= Len(Config[h])
    BY RunsAreNumbers DEF Init
  <2>4. /\ {generators, stopSignals} \subseteq [Runs -> SUBSET Roots]
        /\ {buffer, delivered} \subseteq [Runs -> SUBSET Invocations]
        /\ {serving, regular, sigPending, streamUp, doneLoad, reportLoop}
             \subseteq [Runs -> BOOLEAN]
        /\ pc \in [Runs -> Stages]
        /\ unitMap \in [Units -> Runs \cup {0}]
        /\ registered \in [Runs -> Nat]
    BY DEF Init, Stages
  <2>5. QED
    BY <2>2, <2>3, <2>4 DEF Init, TypeInv, TypeOK
<1>2. TypeInv => TypeOK
  BY DEF TypeInv
<1>3. QED
  BY <1>1, <1>2, TypeStep, PTL DEF Spec

-----------------------------------------------------------------------------
(***************************************************************************)
(* The invariant.  What keeps overlapping runs apart is the service port:  *)
(* a run has it from Listen to GracefulStop, so at most one run is there.  *)
(***************************************************************************)
Fresh == {"absent", "tracer", "listen", "serve", "map"}
Producing == {"loop", "await", "settle", "final", "stop"}
Ended == {"drain", "returned"}

PortInv ==
  \A h \in Runs : pc[h] \in {"serve", "map", "units"} \cup Producing <=> port = h

\* The executors a run has registered are those of the map.
MapInv ==
  \A h \in Runs :
    /\ pc[h] \in Fresh => registered[h] = 0
    /\ pc[h] \in Producing => registered[h] = Len(Config[h])
    /\ pc[h] \in {"units"} \cup Producing =>
         \A n \in 1 .. registered[h] : unitMap[Config[h][n]] = h

\* Generators run from LaunchLoad on; only those are sent a stop signal, and once
\* the group of generators is done none is left.
LoadInv ==
  \A h \in Runs :
    /\ pc[h] \in Fresh \cup {"units"} => generators[h] = {}
    /\ pc[h] \in Fresh \cup {"units", "loop"} => stopSignals[h] = {} /\ ~ doneLoad[h]
    /\ pc[h] = "loop" => generators[h] = UnitsOf(h) \cap Roots
    /\ stopSignals[h] \subseteq generators[h]
    /\ doneLoad[h] => generators[h] = {}
    /\ regular[h] => doneLoad[h]

\* Runs that were not asked for have no stream.
StreamInv == \A h \in Runs : streamUp[h] => pc[h] # "absent"

IInv == TypeOK /\ PortInv /\ MapInv /\ LoadInv /\ StreamInv

\* What no step but those of a run changes.
state == <<pc, port, registered, unitMap, generators, stopSignals, doneLoad, regular>>

\* A step that is not one of a run leaves the state the invariant is about.
LEMMA Elsewhere ==
  ASSUME TypeOK, [Next]_vars, ~ \E h \in Runs : RunStep(h)
  PROVE  UNCHANGED state /\ \A h \in Runs : streamUp'[h] => streamUp[h]
<1> USE DEF state
<1>1. ASSUME NEW h \in Runs, ReportTick(h) \/ CoordinatorGone(h)
      PROVE  UNCHANGED state /\ \A k \in Runs : streamUp'[k] => streamUp[k]
  <2>1. UNCHANGED state
    BY <1>1 DEF ReportTick, CoordinatorGone, process, shared, handler, load
  <2>2. streamUp' = streamUp \/ streamUp' = [streamUp EXCEPT ![h] = FALSE]
    BY <1>1 DEF ReportTick, CoordinatorGone, handler
  <2>3. QED
    BY <2>1, <2>2 DEF TypeOK
<1>2. CASE InvocationsOnly
  BY <1>2 DEF InvocationsOnly, GeneratorTick, Call, NextLocal, Finish, Collect, process,
              shared, handler, load
<1>3. CASE Ends
  BY <1>3 DEF Ends, TracerFails, ExecutorFails, ListenFails, CallPanics, NextPanics, Exit, Dies,
              shared, handler, load
<1>4. CASE Signal
  BY <1>4 DEF Signal, shared, load
<1>5. CASE WaitForShutdown
  BY <1>5 DEF WaitForShutdown, shared, load
<1>6. CASE UNCHANGED vars
  BY <1>6 DEF vars, process, shared, handler, load
<1>7. QED
  BY <1>1, <1>2, <1>3, <1>4, <1>5, <1>6, Steps

\* What Goto does.
LEMMA Moves ==
  ASSUME TypeOK, NEW h \in Runs, NEW from, NEW to, Goto(h, from, to)
  PROVE  pc[h] = from /\ pc'[h] = to /\ \A k \in Runs : k # h => pc'[k] = pc[k]
BY DEF TypeOK, Goto

\* The step of run h that takes its handler on, or one that leaves it.
LEMMA RunMoves ==
  ASSUME TypeOK, NEW h \in Runs, RunStep(h)
  PROVE  \A k \in Runs : k # h => pc'[k] = pc[k]
BY Moves
   DEF RunStep, StartWorker, SetUpWorker, Listen, Serve, MakeMap, RegisterUnit, LaunchLoad,
       StopLoad, EndsRegularly, EndsForcefully, Settle, FinalReport, GracefulStop, Return,
       LoadEnds, ReportLoopStops, GeneratorStops, handler

\* The port changes hands only through Listen and GracefulStop.
LEMMA PortStep ==
  ASSUME TypeOK, PortInv, NEW h \in Runs, RunStep(h)
  PROVE  PortInv'
<1> USE DEF Producing
<1>0. h # 0
  BY RunsAreNumbers
<1>1. CASE Listen(h)
  <2>1. \A k \in Runs : k # 0 /\ port # k
    BY <1>1, RunsAreNumbers DEF Listen, PortFree
  <2>2. pc'[h] = "serve" /\ port' = h /\ \A k \in Runs : k # h => pc'[k] = pc[k]
    BY <1>1, Moves DEF Listen
  <2>3. QED
    BY <2>1, <2>2 DEF PortInv
<1>2. CASE GracefulStop(h)
  <2>1. pc[h] = "stop" /\ pc'[h] = "drain" /\ \A k \in Runs : k # h => pc'[k] = pc[k]
    BY <1>2, Moves DEF GracefulStop
  <2>2. port = h /\ port' = 0 /\ \A k \in Runs : k # 0
    BY <1>2, <2>1, RunsAreNumbers DEF GracefulStop, PortInv
  <2>3. QED
    BY <2>1, <2>2 DEF PortInv
<1>3. CASE ~ Listen(h) /\ ~ GracefulStop(h)
  <2>1. port' = port
    BY <1>3 DEF RunStep, StartWorker, SetUpWorker, Serve, MakeMap, RegisterUnit, LaunchLoad,
                StopLoad, EndsRegularly, EndsForcefully, Settle, FinalReport, Return, LoadEnds,
                ReportLoopStops, GeneratorStops, process
  <2>2. \/ pc' = pc
        \/ /\ pc[h] \in {"serve", "map", "units"} \cup Producing
           /\ pc'[h] \in {"serve", "map", "units"} \cup Producing
        \/ /\ pc[h] \notin {"serve", "map", "units"} \cup Producing
           /\ pc'[h] \notin {"serve", "map", "units"} \cup Producing
    BY <1>3, Moves
       DEF RunStep, StartWorker, SetUpWorker, Serve, MakeMap, RegisterUnit, LaunchLoad,
           StopLoad, AfterLoop, EndsRegularly, EndsForcefully, Settle, FinalReport, Return,
           LoadEnds, ReportLoopStops, GeneratorStops, handler
  <2>3. QED
    BY <2>1, <2>2, RunMoves DEF PortInv
<1>4. QED
  BY <1>1, <1>2, <1>3

\* The map is made and filled by the run that has the port.
LEMMA MapStep ==
  ASSUME TypeOK, PortInv, MapInv, NEW h \in Runs, RunStep(h)
  PROVE  MapInv'
<1> USE DEF Producing, Fresh
<1>1. CASE MakeMap(h)
  <2>1. pc[h] = "map" /\ pc'[h] = "units" /\ \A k \in Runs : k # h => pc'[k] = pc[k]
    BY <1>1, Moves DEF MakeMap
  <2>2. \A k \in Runs : k # h => pc[k] \notin {"units"} \cup Producing
    BY <2>1 DEF PortInv
  <2>3. registered' = registered /\ registered[h] = 0
    BY <1>1, <2>1 DEF MakeMap, MapInv
  <2>4. QED
    BY <2>1, <2>2, <2>3 DEF MapInv
<1>2. CASE RegisterUnit(h)
  <2>1. pc[h] = "units" /\ pc' = pc
    BY <1>2 DEF RegisterUnit
  <2>2. \A k \in Runs : k # h => pc[k] \notin {"units"} \cup Producing
    BY <2>1 DEF PortInv
  <2>3. /\ registered[h] \in Nat /\ registered'[h] = registered[h] + 1
        /\ \A k \in Runs : k # h => registered'[k] = registered[k]
    BY <1>2 DEF RegisterUnit, TypeOK
  <2>4. registered'[h] <= Len(Config[h])
    BY <1>2, <2>3, RunsAreNumbers DEF RegisterUnit, AllRegistered, TypeOK
  <2>5. Config[h][registered'[h]] \in Units
    BY <2>3, <2>4, RunsAreNumbers
  <2>6. unitMap' = [unitMap EXCEPT ![Config[h][registered'[h]]] = h]
    BY <1>2 DEF RegisterUnit
  <2>7. \A n \in 1 .. registered[h] : Config[h][n] \in Units /\ unitMap[Config[h][n]] = h
    BY <2>1, <2>3, <2>4, RunsAreNumbers DEF MapInv
  <2>8. \A n \in 1 .. registered'[h] : unitMap'[Config[h][n]] = h
    <3> TAKE n \in 1 .. registered'[h]
    <3>1. CASE n = registered'[h]
      BY <2>5, <2>6, <3>1 DEF TypeOK
    <3>2. CASE n # registered'[h]
      <4>1. n \in 1 .. registered[h]
        BY <2>3, <3>2
      <4>2. QED
        BY <2>6, <2>7, <4>1 DEF TypeOK
    <3>3. QED
      BY <3>1, <3>2
  <2>9. QED
    BY <2>1, <2>2, <2>3, <2>8 DEF MapInv
<1>3. CASE LaunchLoad(h)
  <2>1. pc[h] = "units" /\ pc'[h] = "loop" /\ \A k \in Runs : k # h => pc'[k] = pc[k]
    BY <1>3, Moves DEF LaunchLoad
  <2>2. UNCHANGED <<registered, unitMap>> /\ registered[h] = Len(Config[h])
    BY <1>3 DEF LaunchLoad, AllRegistered, shared
  <2>3. QED
    BY <2>1, <2>2 DEF MapInv
<1>4. CASE ~ MakeMap(h) /\ ~ RegisterUnit(h) /\ ~ LaunchLoad(h)
  <2>1. UNCHANGED <<registered, unitMap>>
    BY <1>4 DEF RunStep, StartWorker, SetUpWorker, Listen, Serve, StopLoad, EndsRegularly,
                EndsForcefully, Settle, FinalReport, GracefulStop, Return, LoadEnds,
                ReportLoopStops, GeneratorStops, shared, handler
  <2>2. \/ pc' = pc
        \/ pc[h] \in Fresh /\ pc'[h] \in Fresh
        \/ pc[h] \in Producing /\ pc'[h] \in Producing \cup Ended
        \/ pc[h] \in Ended /\ pc'[h] \in Ended
    BY <1>4, Moves
       DEF RunStep, StartWorker, SetUpWorker, Listen, Serve, StopLoad, AfterLoop,
           EndsRegularly, EndsForcefully, Settle, FinalReport, GracefulStop, Return, LoadEnds,
           ReportLoopStops, GeneratorStops, handler, Ended
  <2>3. QED
    BY <2>1, <2>2, RunMoves DEF MapInv, Ended
<1>5. QED
  BY <1>1, <1>2, <1>3, <1>4

\* Generators, stop signals and the group of generators stay in step.
LEMMA LoadStepKeeps ==
  ASSUME TypeOK, LoadInv, NEW h \in Runs, RunStep(h)
  PROVE  LoadInv'
<1> USE DEF Producing, Fresh
<1>1. CASE LaunchLoad(h)
  <2>1. pc[h] = "units" /\ pc'[h] = "loop" /\ \A k \in Runs : k # h => pc'[k] = pc[k]
    BY <1>1, Moves DEF LaunchLoad
  <2>2. /\ generators'[h] = UnitsOf(h) \cap Roots
        /\ \A k \in Runs : k # h => generators'[k] = generators[k]
        /\ UNCHANGED <<stopSignals, doneLoad, regular>>
    BY <1>1 DEF LaunchLoad, TypeOK, handler
  <2>3. QED
    BY <2>1, <2>2 DEF LoadInv
<1>2. CASE StopLoad(h, FALSE) \/ StopLoad(h, TRUE)
  <2>1. pc[h] = "loop" /\ pc'[h] = "await" /\ \A k \in Runs : k # h => pc'[k] = pc[k]
    BY <1>2, Moves DEF StopLoad, AfterLoop
  <2>2. /\ stopSignals'[h] = UnitsOf(h) \cap Roots
        /\ \A k \in Runs : k # h => stopSignals'[k] = stopSignals[k]
        /\ UNCHANGED <<generators, doneLoad, regular>>
    BY <1>2 DEF StopLoad, Stopped, TypeOK, handler
  <2>3. QED
    BY <2>1, <2>2 DEF LoadInv
<1>3. CASE LoadEnds(h)
  <2>1. /\ pc[h] \notin Fresh \cup {"units", "loop"} /\ generators[h] = {}
        /\ doneLoad'[h] /\ \A k \in Runs : k # h => doneLoad'[k] = doneLoad[k]
        /\ UNCHANGED <<pc, generators, stopSignals, regular>>
    BY <1>3 DEF LoadEnds, GeneratorsDone, TypeOK, handler
  <2>2. QED
    BY <2>1 DEF LoadInv
<1>4. CASE EndsRegularly(h)
  <2>1. /\ pc[h] = "await" /\ pc'[h] = "settle" /\ \A k \in Runs : k # h => pc'[k] = pc[k]
    BY <1>4, Moves DEF EndsRegularly
  <2>2. /\ doneLoad[h]
        /\ \A k \in Runs : k # h => regular'[k] = regular[k]
        /\ UNCHANGED <<generators, stopSignals, doneLoad>>
    BY <1>4 DEF EndsRegularly, Told, TypeOK, load
  <2>3. QED
    BY <2>1, <2>2 DEF LoadInv
<1>5. ASSUME NEW u \in Units, GeneratorStops(h, u)
      PROVE  LoadInv'
  <2>1. /\ u \in generators[h] \cap stopSignals[h]
        /\ generators'[h] = generators[h] \ {u}
        /\ stopSignals'[h] = stopSignals[h] \ {u}
        /\ \A k \in Runs : k # h => /\ generators'[k] = generators[k]
                                   /\ stopSignals'[k] = stopSignals[k]
        /\ UNCHANGED <<pc, doneLoad, regular>>
    BY <1>5 DEF GeneratorStops, TypeOK, handler
  <2>2. QED
    BY <2>1 DEF LoadInv
<1>6. CASE UNCHANGED <<generators, stopSignals, doneLoad, regular>> /\ ~ LaunchLoad(h)
            /\ ~ StopLoad(h, FALSE) /\ ~ StopLoad(h, TRUE)
  <2>1. \/ pc' = pc
        \/ pc[h] \in Fresh /\ pc'[h] \in Fresh \cup {"units"}
        \/ pc[h] \notin Fresh \cup {"units", "loop"} /\ pc'[h] \notin Fresh \cup {"units", "loop"}
    <3>1. CASE \/ StartWorker(h) \/ SetUpWorker(h) \/ Listen(h) \/ Serve(h) \/ MakeMap(h)
      BY <3>1, Moves DEF StartWorker, SetUpWorker, Listen, Serve, MakeMap
    <3>2. CASE \/ EndsRegularly(h) \/ EndsForcefully(h) \/ Settle(h) \/ FinalReport(h)
               \/ GracefulStop(h) \/ Return(h)
      BY <3>2, Moves
         DEF EndsRegularly, EndsForcefully, Settle, FinalReport, GracefulStop, Return
    <3>3. CASE pc' = pc
      BY <3>3
    <3>4. QED
      BY <1>6, <3>1, <3>2, <3>3
         DEF RunStep, RegisterUnit, LoadEnds, ReportLoopStops, GeneratorStops, handler
  <2>2. QED
    BY <1>6, <2>1, RunMoves DEF LoadInv
<1>7. QED
  BY <1>1, <1>2, <1>3, <1>4, <1>5, <1>6
     DEF RunStep, StartWorker, SetUpWorker, Listen, Serve, MakeMap, RegisterUnit,
         EndsForcefully, Settle, FinalReport, GracefulStop, Return, ReportLoopStops, handler,
         load

\* A run gets its stream when it is asked for.
LEMMA StreamStep ==
  ASSUME TypeOK, StreamInv, NEW h \in Runs, RunStep(h)
  PROVE  StreamInv'
<1>1. pc'[h] # "absent" \/ pc' = pc
  BY Moves
     DEF RunStep, StartWorker, SetUpWorker, Listen, Serve, MakeMap, RegisterUnit, LaunchLoad,
         StopLoad, AfterLoop, EndsRegularly, EndsForcefully, Settle, FinalReport, GracefulStop,
         Return, LoadEnds, ReportLoopStops, GeneratorStops, handler
<1>2. StartWorker(h) \/ streamUp' = streamUp
  BY DEF RunStep, SetUpWorker, Listen, Serve, MakeMap, RegisterUnit, LaunchLoad, StopLoad,
         EndsRegularly, EndsForcefully, Settle, FinalReport, GracefulStop, Return, LoadEnds,
         ReportLoopStops, GeneratorStops, handler
<1>3. StartWorker(h) => /\ pc'[h] = "tracer"
                        /\ \A k \in Runs : k # h => streamUp'[k] = streamUp[k]
  BY Moves DEF StartWorker, TypeOK
<1>4. QED
  BY <1>1, <1>2, <1>3, RunMoves DEF StreamInv

\* The invariant holds, however the StartWorker calls of a worker overlap.
THEOREM Invariance == Spec => []IInv
<1>1. Init => PortInv /\ MapInv /\ LoadInv /\ StreamInv
  BY RunsAreNumbers DEF Init, PortInv, MapInv, LoadInv, StreamInv, Producing, Fresh
<1>2. ASSUME IInv, [Next]_vars
      PROVE  (PortInv /\ MapInv /\ LoadInv /\ StreamInv)'
  <2>1. ASSUME NEW h \in Runs, RunStep(h)
        PROVE  (PortInv /\ MapInv /\ LoadInv /\ StreamInv)'
    BY <1>2, <2>1, PortStep, MapStep, LoadStepKeeps, StreamStep DEF IInv
  <2>2. CASE ~ \E h \in Runs : RunStep(h)
    <3>1. UNCHANGED state /\ \A h \in Runs : streamUp'[h] => streamUp[h]
      BY <1>2, <2>2, Elsewhere DEF IInv
    <3>2. QED
      BY <1>2, <3>1 DEF IInv, PortInv, MapInv, LoadInv, StreamInv, state
  <2>3. QED
    BY <2>1, <2>2
<1>3. QED
  BY <1>1, <1>2, TypeCorrect, PTL DEF Spec, IInv

-----------------------------------------------------------------------------
(***************************************************************************)
(* While a run produces load, the map has its executors.                   *)
(***************************************************************************)
THEOREM MapIsOwn == Spec => []MapBelongsToRun
<1>1. ASSUME IInv, NEW h \in Runs, pc[h] \in Producing, NEW u \in UnitsOf(h)
      PROVE  unitMap[u] = h
  <2>1. PICK n \in DOMAIN Config[h] : u = Config[h][n]
    BY DEF UnitsOf
  <2>2. n \in 1 .. registered[h]
    BY <1>1, RunsAreNumbers DEF IInv, MapInv
  <2>3. QED
    BY <1>1, <2>1, <2>2 DEF IInv, MapInv
<1>2. IInv => MapBelongsToRun
  BY <1>1 DEF MapBelongsToRun, Producing
<1>3. QED
  BY <1>2, Invariance, PTL

(***************************************************************************)
(* Two runs with generators: neither ended regularly, and they do not both *)
(* have the service port, so one has stopped its server.                   *)
(***************************************************************************)
THEOREM OneLoad == Spec => []OneLoadAtATime
<1>1. ASSUME IInv, NEW h \in Runs, generators[h] # {}
      PROVE  pc[h] \in Producing \cup Ended /\ ~ regular[h]
  BY <1>1 DEF IInv, TypeOK, LoadInv, Stages, Fresh, Producing, Ended
<1>2. ASSUME IInv, NEW h \in Runs, NEW k \in Runs, pc[h] \in Producing, pc[k] \in Producing
      PROVE  h = k
  BY <1>2 DEF IInv, PortInv
<1>3. IInv => OneLoadAtATime
  <2> SUFFICES ASSUME IInv, NEW h \in Runs, NEW k \in Runs, h < k, generators[h] # {},
                      generators[k] # {}
               PROVE  \E x \in {h, k} : pc[x] \in {"drain", "returned"} /\ ~ regular[x]
    BY DEF OneLoadAtATime
  <2>1. h # k
    BY RunsAreNumbers
  <2>2. QED
    BY <1>1, <1>2, <2>1 DEF Ended
<1>4. QED
  BY <1>3, Invariance, PTL

(***************************************************************************)
(* A run that ends regularly has halted its generators.                    *)
(***************************************************************************)
THEOREM GeneratorsAreHalted == Spec => []GeneratorsHalted
<1>1. IInv => GeneratorsHalted
  BY DEF IInv, LoadInv, GeneratorsHalted
<1>2. QED
  BY <1>1, Invariance, PTL

-----------------------------------------------------------------------------
(***************************************************************************)
(* Whose executors and reporters are in use: those of runs that got as far *)
(* as making them.                                                         *)
(***************************************************************************)
OwnerInv ==
  /\ \A u \in Units : unitMap[u] # 0 => pc[unitMap[u]] \notin Fresh
  /\ \A i \in Invocations : inv[i].run # 0 => pc[inv[i].run] \notin Fresh
  /\ reporter # 0 => pc[reporter] \notin {"absent", "tracer"}

\* Before its server is started.
Deaf == {"absent", "tracer", "listen", "serve"}

\* A handler does not go back.
LEMMA Forward ==
  ASSUME TypeOK, [Next]_vars, NEW k \in Runs
  PROVE  /\ pc[k] \notin Fresh => pc'[k] \notin Fresh
         /\ pc[k] \notin {"absent", "tracer"} => pc'[k] \notin {"absent", "tracer"}
         /\ pc[k] \notin Deaf => pc'[k] \notin Deaf
<1> USE DEF Fresh, Deaf
<1>1. ASSUME NEW h \in Runs, RunStep(h)
      PROVE  /\ pc[k] \notin Fresh => pc'[k] \notin Fresh
             /\ pc[k] \notin {"absent", "tracer"} => pc'[k] \notin {"absent", "tracer"}
             /\ pc[k] \notin Deaf => pc'[k] \notin Deaf
  <2>1. CASE \/ StartWorker(h) \/ SetUpWorker(h) \/ Listen(h) \/ Serve(h) \/ MakeMap(h)
             \/ LaunchLoad(h)
    BY <2>1, Moves DEF StartWorker, SetUpWorker, Listen, Serve, MakeMap, LaunchLoad
  <2>2. CASE \/ StopLoad(h, FALSE) \/ StopLoad(h, TRUE) \/ EndsRegularly(h)
             \/ EndsForcefully(h) \/ Settle(h) \/ FinalReport(h) \/ GracefulStop(h)
             \/ Return(h)
    BY <2>2, Moves
       DEF StopLoad, AfterLoop, EndsRegularly, EndsForcefully, Settle, FinalReport,
           GracefulStop, Return
  <2>3. CASE pc' = pc
    BY <2>3
  <2>4. QED
    BY <1>1, <2>1, <2>2, <2>3
       DEF RunStep, RegisterUnit, LoadEnds, ReportLoopStops, GeneratorStops, handler
<1>2. QED
  BY <1>1, Elsewhere DEF state

\* A run enters the map only while it sets up.
LEMMA MapOwners ==
  ASSUME IInv, [Next]_vars, NEW u \in Units
  PROVE  \/ unitMap'[u] \in {0, unitMap[u]}
         \/ pc[unitMap'[u]] = "units" /\ unitMap'[u] \in Runs
<1>1. ASSUME NEW h \in Runs, RunStep(h)
      PROVE  \/ unitMap'[u] \in {0, unitMap[u]}
             \/ pc[unitMap'[u]] = "units" /\ unitMap'[u] \in Runs
  <2>1. CASE MakeMap(h)
    BY <2>1 DEF MakeMap
  <2>2. CASE RegisterUnit(h)
    BY <2>2 DEF RegisterUnit, IInv, TypeOK
  <2>3. CASE unitMap' = unitMap
    BY <2>3
  <2>4. QED
    BY <1>1, <2>1, <2>2, <2>3
       DEF RunStep, StartWorker, SetUpWorker, Listen, Serve, LaunchLoad, StopLoad,
           EndsRegularly, EndsForcefully, Settle, FinalReport, GracefulStop, Return, LoadEnds,
           ReportLoopStops, GeneratorStops, shared
<1>2. QED
  BY <1>1, Elsewhere DEF state, IInv

\* An invocation keeps its run; a new one gets that of a generator or of the map.
LEMMA InvocationOwners ==
  ASSUME IInv, UnitInv, OwnerInv, [Next]_vars, NEW i \in Invocations
  PROVE  \/ inv'[i].run = inv[i].run
         \/ inv'[i].run \in Runs /\ pc[inv'[i].run] \notin Fresh
<1> DEFINE Kept == inv'[i].run = inv[i].run
           Owned == inv'[i].run \in Runs /\ pc[inv'[i].run] \notin Fresh
<1>0. inv \in [Invocations -> InvocationRecords]
  BY DEF IInv, TypeOK
<1>1. CASE inv' = inv
  BY <1>1
<1>2. ASSUME NEW h \in Runs, NEW u \in Units, NEW j \in Invocations,
             GeneratorTick(h, u, j) \/ Call(h, u, j)
      PROVE  Kept \/ Owned
  <2>1. PICK k \in Numbers, server \in Numbers :
          /\ k # 0
          /\ pc[k] \notin Fresh
          /\ inv' = [inv EXCEPT ![j] = [NoInvocation EXCEPT !.at = "work", !.run = k,
                                                            !.unit = u, !.server = server]]
    <3>1. CASE GeneratorTick(h, u, j)
      <4>1. pc[h] \notin Fresh /\ h # 0
        BY <3>1, RunsAreNumbers DEF GeneratorTick, IInv, LoadInv
      <4>2. QED
        BY <3>1, <4>1 DEF GeneratorTick, Invoke, Numbers
    <3>2. CASE Call(h, u, j)
      <4>1. unitMap[u] # 0 /\ unitMap[u] \in Numbers /\ pc[unitMap[u]] \notin Fresh
        BY <3>2 DEF Call, Invoke, IInv, TypeOK, OwnerInv, Numbers
      <4>2. QED
        BY <3>2, <4>1 DEF Call, Invoke, Numbers
    <3>3. QED
      BY <1>2, <3>1, <3>2
  <2>2. k \in Runs
    BY <2>1 DEF Numbers
  <2>3. CASE i = j
    <3>1. inv'[i].run = k
      BY <1>0, <2>1, <2>3 DEF NoInvocation
    <3>2. QED
      BY <2>1, <2>2, <3>1
  <2>4. CASE i # j
    BY <1>0, <2>1, <2>4
  <2>5. QED
    BY <2>3, <2>4
<1>3. ASSUME NEW m \in Invocations, NEW j \in Invocations, NextLocal(m, j)
      PROVE  Kept \/ Owned
  <2> DEFINE s == Successor[inv[m].unit]
             waiting == [inv[m] EXCEPT !.at = "wait", !.child = j]
             called == [inv[m] EXCEPT !.at = "called"]
             callee == [NoInvocation EXCEPT !.at = "work", !.run = unitMap[s], !.unit = s]
  <2>1. inv[m].at # "free" /\ unitMap[s] # 0 /\ s # None
    BY <1>3 DEF NextLocal, Calling
  <2>2. s \in Units
    BY <2>1, WorkerRunAssumption DEF UnitInv
  <2>3. unitMap[s] \in Runs /\ pc[unitMap[s]] \notin Fresh
    BY <2>1, <2>2 DEF IInv, TypeOK, OwnerInv
  <2>4. callee.run = unitMap[s]
    BY DEF NoInvocation
  <2>5. waiting.run = inv[m].run /\ called.run = inv[m].run
    BY <1>0 DEF InvocationRecords
  <2>6. \/ inv' = [inv EXCEPT ![m] = waiting, ![j] = callee]
        \/ inv' = [inv EXCEPT ![m] = called, ![j] = callee]
    BY <1>3 DEF NextLocal, NoInvocation
  <2> HIDE DEF s, waiting, called, callee
  <2>7. CASE i = j
    <3>1. inv'[i] = callee
      BY <1>0, <2>6, <2>7
    <3>2. QED
      BY <2>3, <2>4, <3>1
  <2>8. CASE i # j /\ i = m
    <3>1. inv'[i] = waiting \/ inv'[i] = called
      BY <1>0, <2>6, <2>8
    <3>2. QED
      BY <2>5, <2>8, <3>1
  <2>9. CASE i # j /\ i # m
    BY <1>0, <2>6, <2>9
  <2>10. QED
    BY <2>7, <2>8, <2>9
<1>4. ASSUME NEW j \in Invocations, Finish(j) \/ Collect(j)
      PROVE  Kept
  <2> DEFINE ended == [inv[j] EXCEPT !.at = "finished", !.to = reporter]
             done == [inv[j] EXCEPT !.at = "done"]
  <2>1. ended.run = inv[j].run /\ done.run = inv[j].run
    BY <1>0 DEF InvocationRecords
  <2>2. inv' = [inv EXCEPT ![j] = ended] \/ inv' = [inv EXCEPT ![j] = done]
    BY <1>0, <1>4 DEF Finish, Collect
  <2> HIDE DEF ended, done
  <2>3. QED
    BY <1>0, <2>1, <2>2
<1>5. CASE InvocationsOnly
  BY <1>2, <1>3, <1>4, <1>5 DEF InvocationsOnly
<1>6. ASSUME NEW h \in Runs, RunStep(h)
      PROVE  inv' = inv
  BY <1>6 DEF RunStep, StartWorker, SetUpWorker, Listen, Serve, MakeMap, RegisterUnit, LaunchLoad,
              StopLoad, EndsRegularly, EndsForcefully, Settle, FinalReport, GracefulStop, Return,
              LoadEnds, ReportLoopStops, GeneratorStops
<1>7. ASSUME NEW h \in Runs, ReportTick(h) \/ CoordinatorGone(h)
      PROVE  inv' = inv
  BY <1>7 DEF ReportTick, CoordinatorGone
<1>8. CASE Ends \/ Signal \/ WaitForShutdown \/ UNCHANGED vars
  BY <1>8 DEF Ends, TracerFails, ExecutorFails, ListenFails, CallPanics, NextPanics, Exit, Dies,
              Signal, WaitForShutdown, vars
<1>9. QED
  BY <1>1, <1>5, <1>6, <1>7, <1>8, Steps

\* The Worker gets the reporter of the run that is being set up.
LEMMA ReporterOwner ==
  ASSUME IInv, [Next]_vars
  PROVE  \/ reporter' = reporter
         \/ reporter' \in Runs /\ pc'[reporter'] = "listen"
<1>1. ASSUME NEW h \in Runs, SetUpWorker(h)
      PROVE  reporter' \in Runs /\ pc'[reporter'] = "listen"
  BY <1>1, Moves DEF SetUpWorker, IInv
<1>2. ASSUME NEW h \in Runs, RunStep(h), ~ SetUpWorker(h)
      PROVE  reporter' = reporter
  BY <1>2 DEF RunStep, StartWorker, Listen, Serve, MakeMap, RegisterUnit, LaunchLoad, StopLoad,
              EndsRegularly, EndsForcefully, Settle, FinalReport, GracefulStop, Return, LoadEnds,
              ReportLoopStops, GeneratorStops, shared
<1>3. ASSUME NEW h \in Runs, ReportTick(h) \/ CoordinatorGone(h)
      PROVE  reporter' = reporter
  BY <1>3 DEF ReportTick, CoordinatorGone, shared
<1>4. CASE InvocationsOnly
  BY <1>4 DEF InvocationsOnly, GeneratorTick, Call, NextLocal, Finish, Collect, shared
<1>5. CASE Ends \/ Signal \/ WaitForShutdown \/ UNCHANGED vars
  BY <1>5 DEF Ends, TracerFails, ExecutorFails, ListenFails, CallPanics, NextPanics, Exit, Dies,
              Signal, WaitForShutdown, vars, shared
<1>6. QED
  BY <1>1, <1>2, <1>3, <1>4, <1>5, Steps

\* Executors, invocations and the reporter stay those of runs that made them.
LEMMA OwnerStep ==
  ASSUME IInv, UnitInv, OwnerInv, [Next]_vars
  PROVE  OwnerInv'
<1>0. TypeOK /\ inv \in [Invocations -> InvocationRecords] /\ unitMap \in [Units -> Numbers]
        /\ reporter \in Numbers
  BY DEF IInv, TypeOK, Numbers
<1>1. ASSUME NEW u \in Units, unitMap'[u] # 0
      PROVE  pc'[unitMap'[u]] \notin Fresh
  <2>1. CASE unitMap'[u] = unitMap[u]
    BY <1>0, <1>1, <2>1, Forward DEF OwnerInv, Numbers
  <2>2. CASE pc[unitMap'[u]] = "units" /\ unitMap'[u] \in Runs
    BY <1>0, <2>2, Forward DEF Fresh
  <2>3. QED
    BY <1>1, <2>1, <2>2, MapOwners
<1>2. ASSUME NEW i \in Invocations, inv'[i].run # 0
      PROVE  pc'[inv'[i].run] \notin Fresh
  <2>1. inv[i].run \in Numbers
    BY <1>0 DEF InvocationRecords, Numbers
  <2>2. CASE inv'[i].run = inv[i].run
    BY <1>0, <1>2, <2>1, <2>2, Forward DEF OwnerInv, Numbers
  <2>3. CASE inv'[i].run \in Runs /\ pc[inv'[i].run] \notin Fresh
    BY <1>0, <2>3, Forward
  <2>4. QED
    BY <2>2, <2>3, InvocationOwners
<1>3. ASSUME reporter' # 0
      PROVE  pc'[reporter'] \notin {"absent", "tracer"}
  <2>1. CASE reporter' = reporter
    BY <1>0, <1>3, <2>1, Forward DEF OwnerInv, Numbers
  <2>2. QED
    BY <2>1, ReporterOwner
<1>4. QED
  BY <1>1, <1>2, <1>3 DEF OwnerInv

\* Results are sent by Report alone, and only by the reporter the Worker has.
LEMMA Deliveries ==
  ASSUME [Next]_vars
  PROVE  delivered' = delivered \/ Report(reporter)
<1>1. ASSUME NEW h \in Runs, RunStep(h)
      PROVE  delivered' = delivered \/ Report(reporter)
  BY <1>1 DEF RunStep, StartWorker, SetUpWorker, Listen, Serve, MakeMap, RegisterUnit, LaunchLoad,
              StopLoad, EndsRegularly, EndsForcefully, Settle, FinalReport, GracefulStop, Return,
              LoadEnds, ReportLoopStops, GeneratorStops, results
<1>2. ASSUME NEW h \in Runs, ReportTick(h) \/ CoordinatorGone(h)
      PROVE  delivered' = delivered \/ Report(reporter)
  BY <1>2 DEF ReportTick, CoordinatorGone, results
<1>3. CASE InvocationsOnly
  BY <1>3 DEF InvocationsOnly, GeneratorTick, Call, NextLocal, Finish, Collect, results
<1>4. CASE Ends \/ Signal \/ WaitForShutdown \/ UNCHANGED vars
  BY <1>4 DEF Ends, TracerFails, ExecutorFails, ListenFails, CallPanics, NextPanics, Exit, Dies,
              Signal, WaitForShutdown, vars, results
<1>5. QED
  BY <1>1, <1>2, <1>3, <1>4, Steps

\* What one report adds to what the coordinator of run h has.
LEMMA Delivery ==
  ASSUME TypeOK, [Next]_vars, NEW h \in Runs
  PROVE  \/ delivered'[h] = delivered[h]
         \/ /\ reporter = h /\ streamUp[h] /\ pc[h] # "returned"
            /\ delivered'[h] = delivered[h] \cup buffer[h]
<1>1. delivered \in [Runs -> SUBSET Invocations]
  BY DEF TypeOK
<1>2. CASE Report(reporter)
  BY <1>1, <1>2 DEF Report, Reached
<1>3. QED
  BY <1>2, Deliveries

\* The invariant with the owners of executors, invocations and reporter.
LEMMA OwnersInvariance == Spec => [](IInv /\ UnitInv /\ OwnerInv)
<1>1. Init => OwnerInv
  BY DEF Init, OwnerInv, NoInvocation
<1>2. Init => UnitInv
  BY DEF Init, UnitInv, NoInvocation
<1>3. TypeOK /\ UnitInv /\ [Next]_vars => UnitInv'
  BY TypeStep DEF TypeInv
<1>4. IInv => TypeOK
  BY DEF IInv
<1>5. IInv /\ UnitInv /\ OwnerInv /\ [Next]_vars => OwnerInv'
  BY OwnerStep
<1>6. QED
  BY <1>1, <1>2, <1>3, <1>4, <1>5, Invariance, PTL DEF Spec

(***************************************************************************)
(* The results of one run reach the coordinator of another only across the *)
(* setup or the end of one of them: a run that has executors and has not   *)
(* stopped its server has the port, so the other one, whose reporter the   *)
(* Worker has, has not listened yet or has stopped its server.             *)
(***************************************************************************)
THEOREM ResultsStray == Spec => StrayResults
<1> DEFINE Bound ==
      \A h, k \in Runs : \A i \in delivered'[h] \ delivered[h] :
        inv[i].run = k /\ k # h
          => pc[h] \in {"listen", "drain"} \/ pc[k] \in {"drain", "returned"}
<1>1. IInv /\ OwnerInv /\ [Next]_vars => Bound
  <2> SUFFICES ASSUME IInv, OwnerInv, [Next]_vars, NEW h \in Runs, NEW k \in Runs,
                      NEW i \in delivered'[h] \ delivered[h], inv[i].run = k, k # h
               PROVE  pc[h] \in {"listen", "drain"} \/ pc[k] \in {"drain", "returned"}
    OBVIOUS
  <2>1. reporter = h /\ pc[h] # "returned" /\ i \in buffer[h]
    BY Delivery DEF IInv
  <2>2. i \in Invocations /\ h # 0 /\ k # 0
    BY <2>1, RunsAreNumbers DEF IInv, TypeOK
  <2>3. pc[h] \notin {"absent", "tracer"} /\ pc[k] \notin Fresh
    BY <2>1, <2>2 DEF OwnerInv
  <2>4. pc[k] \in {"units"} \cup Producing => port = k
    BY DEF IInv, PortInv
  <2>5. pc[h] \in {"serve", "map", "units"} \cup Producing => port = h
    BY DEF IInv, PortInv
  <2>6. pc[h] \in Stages /\ pc[k] \in Stages
    BY DEF IInv, TypeOK
  <2>7. QED
    BY <2>1, <2>3, <2>4, <2>5, <2>6 DEF Stages, Fresh, Producing
<1>2. QED
  BY <1>1, OwnersInvariance, PTL DEF Spec, StrayResults

-----------------------------------------------------------------------------
(***************************************************************************)
(* When every run is configured with all units, the map lacks an executor  *)
(* only while a run sets up, or before the first one has done so.          *)
(***************************************************************************)
AllUnits == \A h \in Runs : UnitsOf(h) = Units

ServingInv == \A h \in Runs : serving[h] => pc[h] \notin Deaf

CoverInv ==
  \/ \E h \in Runs : pc[h] = "units"
  \/ (\A h \in Runs : pc[h] \in Fresh) /\ (\A i \in Invocations : inv[i].at = "free")
  \/ \A u \in Units : unitMap[u] # 0

CrashInv == ServingInv /\ CoverInv /\ CrashOnlyDuringSetup

\* A server that accepts calls was started.
LEMMA ServingStep ==
  ASSUME TypeOK, ServingInv, [Next]_vars
  PROVE  ServingInv'
<1> SUFFICES ASSUME NEW h \in Runs, serving'[h]
             PROVE  pc'[h] \notin Deaf
  BY DEF ServingInv
<1>0. serving \in [Runs -> BOOLEAN]
  BY DEF TypeOK
<1>1. CASE Serve(h)
  BY <1>1, Moves DEF Serve, Deaf
<1>2. CASE ~ Serve(h)
  <2>1. serving[h]
    <3>1. ASSUME NEW k \in Runs, RunStep(k)
          PROVE  serving[h]
      <4>1. CASE serving' = serving
        BY <4>1
      <4>2. CASE Serve(k) \/ GracefulStop(k)
        BY <1>0, <1>2, <4>2 DEF Serve, GracefulStop
      <4>3. QED
        BY <3>1, <4>1, <4>2
           DEF RunStep, StartWorker, SetUpWorker, Listen, MakeMap, RegisterUnit, LaunchLoad,
               StopLoad, EndsRegularly, EndsForcefully, Settle, FinalReport, Return, LoadEnds,
               ReportLoopStops, GeneratorStops, handler
    <3>2. ASSUME NEW k \in Runs, ReportTick(k) \/ CoordinatorGone(k)
          PROVE  serving[h]
      BY <3>2 DEF ReportTick, CoordinatorGone, handler
    <3>3. CASE InvocationsOnly
      BY <3>3 DEF InvocationsOnly, GeneratorTick, Call, NextLocal, Finish, Collect, handler
    <3>4. CASE Ends \/ Signal \/ WaitForShutdown \/ UNCHANGED vars
      BY <3>4 DEF Ends, TracerFails, ExecutorFails, ListenFails, CallPanics, NextPanics, Exit,
                  Dies, Signal, WaitForShutdown, vars, handler
    <3>5. QED
      BY <3>1, <3>2, <3>3, <3>4, Steps
  <2>2. QED
    BY <2>1, Forward DEF ServingInv
<1>3. QED
  BY <1>1, <1>2

\* The map is complete unless a run is setting up or none has done so yet.
LEMMA CoverStep ==
  ASSUME AllUnits, IInv, OwnerInv, CoverInv, [Next]_vars
  PROVE  CoverInv'
<1>0. TypeOK
  BY DEF IInv
<1>1. ASSUME NEW h \in Runs, RunStep(h)
      PROVE  CoverInv'
  <2>1. CASE MakeMap(h) \/ RegisterUnit(h)
    <3>1. pc'[h] = "units"
      BY <1>0, <2>1, Moves DEF MakeMap, RegisterUnit
    <3>2. QED
      BY <3>1 DEF CoverInv
  <2>2. CASE LaunchLoad(h)
    <3>1. unitMap' = unitMap /\ registered[h] = Len(Config[h]) /\ pc[h] = "units"
      BY <1>0, <2>2, Moves DEF LaunchLoad, AllRegistered, shared
    <3>2. ASSUME NEW u \in Units
          PROVE  unitMap'[u] # 0
      <4>1. PICK n \in DOMAIN Config[h] : u = Config[h][n]
        BY DEF AllUnits, UnitsOf
      <4>2. n \in 1 .. registered[h]
        BY <3>1, <4>1, RunsAreNumbers
      <4>3. QED
        BY <3>1, <4>1, <4>2, RunsAreNumbers DEF IInv, MapInv
    <3>3. QED
      BY <3>2 DEF CoverInv
  <2>3. CASE ~ MakeMap(h) /\ ~ RegisterUnit(h) /\ ~ LaunchLoad(h)
    <3>1. unitMap' = unitMap /\ inv' = inv
      BY <1>1, <2>3
         DEF RunStep, StartWorker, SetUpWorker, Listen, Serve, StopLoad, EndsRegularly,
             EndsForcefully, Settle, FinalReport, GracefulStop, Return, LoadEnds,
             ReportLoopStops, GeneratorStops, shared
    <3>2. \/ pc' = pc
          \/ pc[h] # "units" /\ (pc[h] \in Fresh => pc'[h] \in Fresh)
      BY <1>0, <1>1, <2>3, Moves
         DEF RunStep, StartWorker, SetUpWorker, Listen, Serve, StopLoad, EndsRegularly,
             EndsForcefully, Settle, FinalReport, GracefulStop, Return, LoadEnds,
             ReportLoopStops, GeneratorStops, handler, Fresh
    <3>3. \A k \in Runs : k # h => pc'[k] = pc[k]
      BY <1>0, <1>1, RunMoves
    <3>4. QED
      BY <3>1, <3>2, <3>3 DEF CoverInv
  <2>4. QED
    BY <2>1, <2>2, <2>3
<1>2. CASE InvocationsOnly
  <2>1. unitMap' = unitMap /\ pc' = pc
    BY <1>2 DEF InvocationsOnly, GeneratorTick, Call, NextLocal, Finish, Collect, shared, handler
  <2>2. ASSUME \A h \in Runs : pc[h] \in Fresh, \A i \in Invocations : inv[i].at = "free"
        PROVE  FALSE
    <3>1. ASSUME NEW h \in Runs, NEW u \in Units, NEW i \in Invocations, GeneratorTick(h, u, i)
          PROVE  FALSE
      BY <2>2, <3>1 DEF GeneratorTick, IInv, LoadInv
    <3>2. ASSUME NEW h \in Runs, NEW u \in Units, NEW i \in Invocations, Call(h, u, i)
          PROVE  FALSE
      <4>1. unitMap[u] # 0 /\ unitMap[u] \in Runs /\ pc[unitMap[u]] \notin Fresh
        BY <1>0, <3>2 DEF Call, Invoke, TypeOK, OwnerInv
      <4>2. QED
        BY <2>2, <4>1
    <3>3. ASSUME NEW i \in Invocations, NEW j \in Invocations,
                 NextLocal(i, j) \/ Finish(i) \/ Collect(i)
          PROVE  FALSE
      BY <2>2, <3>3 DEF NextLocal, Calling, Finish, Collect
    <3>4. QED
      BY <1>2, <3>1, <3>2, <3>3 DEF InvocationsOnly
  <2>3. QED
    BY <2>1, <2>2 DEF CoverInv
<1>3. ASSUME NEW h \in Runs, ReportTick(h) \/ CoordinatorGone(h)
      PROVE  CoverInv'
  BY <1>3 DEF ReportTick, CoordinatorGone, shared, handler, CoverInv
<1>4. CASE Ends \/ Signal \/ WaitForShutdown \/ UNCHANGED vars
  BY <1>4 DEF Ends, TracerFails, ExecutorFails, ListenFails, CallPanics, NextPanics, Exit, Dies,
              Signal, WaitForShutdown, vars, shared, handler, CoverInv
<1>5. QED
  BY <1>1, <1>2, <1>3, <1>4, Steps

\* Only the steps that end the process change proc.
LEMMA Endings ==
  ASSUME [Next]_vars
  PROVE  proc' = proc \/ Ends
<1>1. ASSUME NEW h \in Runs, RunStep(h) \/ ReportTick(h) \/ CoordinatorGone(h)
      PROVE  proc' = proc
  BY <1>1 DEF RunStep, StartWorker, SetUpWorker, Listen, Serve, MakeMap, RegisterUnit,
              LaunchLoad, StopLoad, EndsRegularly, EndsForcefully, Settle, FinalReport,
              GracefulStop, Return, LoadEnds, ReportLoopStops, GeneratorStops, ReportTick,
              CoordinatorGone, process
<1>2. CASE InvocationsOnly
  BY <1>2 DEF InvocationsOnly, GeneratorTick, Call, NextLocal, Finish, Collect, process
<1>3. CASE Signal \/ WaitForShutdown \/ UNCHANGED vars
  BY <1>3 DEF Signal, WaitForShutdown, vars, process
<1>4. QED
  BY <1>1, <1>2, <1>3, Steps

\* A panic finds a run that is setting up.
LEMMA CrashStep ==
  ASSUME IInv, UnitInv, OwnerInv, CrashInv, [Next]_vars
  PROVE  CrashOnlyDuringSetup'
<1> SUFFICES ASSUME proc' = "panic"
             PROVE  \E h \in Runs : pc'[h] \in {"map", "units"}
  BY DEF CrashOnlyDuringSetup
<1> DEFINE SettingUp == \E h \in Runs : pc[h] \in {"map", "units"}
<1>0. MapWritten => SettingUp
  BY DEF MapWritten
<1>1. ASSUME NEW h \in Runs, NEW u \in Units, CallPanics(h, u)
      PROVE  SettingUp
  <2>1. serving[h] /\ pc[h] \notin Deaf
    BY <1>1 DEF CallPanics, CrashInv, ServingInv
  <2>2. CASE unitMap[u] = 0
    BY <2>1, <2>2 DEF CrashInv, CoverInv, Fresh, Deaf
  <2>3. QED
    BY <1>0, <1>1, <2>2 DEF CallPanics
<1>2. ASSUME NEW i \in Invocations, NextPanics(i)
      PROVE  SettingUp
  <2>1. inv[i].at = "work" /\ Successor[inv[i].unit] \in Units
    BY <1>2, WorkerRunAssumption DEF NextPanics, Calling, UnitInv
  <2>2. CASE unitMap[Successor[inv[i].unit]] = 0
    BY <2>1, <2>2 DEF CrashInv, CoverInv
  <2>3. QED
    BY <1>0, <1>2, <2>2 DEF NextPanics
<1>3. ASSUME proc' # proc
      PROVE  SettingUp /\ pc' = pc
  <2>1. Ends
    BY <1>3, Endings
  <2>2. QED
    BY <1>1, <1>2, <2>1
       DEF Ends, TracerFails, ExecutorFails, ListenFails, CallPanics, NextPanics, Exit, Dies,
           handler
<1>4. CASE proc' = proc
  <2>1. UNCHANGED vars
    BY <1>4 DEF Next
  <2>2. QED
    BY <2>1 DEF vars, process, handler, CrashInv, CrashOnlyDuringSetup
<1>5. QED
  BY <1>3, <1>4

(***************************************************************************)
(* With all units configured in every run, the process panics only while a *)
(* run is between Serve and the registration of its last unit.             *)
(***************************************************************************)
THEOREM CrashesInSetup ==
  ASSUME AllUnits
  PROVE  Spec => []CrashOnlyDuringSetup
<1>1. Init => CrashInv
  BY DEF Init, CrashInv, ServingInv, CoverInv, CrashOnlyDuringSetup, Fresh, NoInvocation
<1>2. IInv /\ UnitInv /\ OwnerInv /\ CrashInv /\ [Next]_vars => CrashInv'
  BY ServingStep, CoverStep, CrashStep DEF CrashInv, IInv
<1>3. CrashInv => CrashOnlyDuringSetup
  BY DEF CrashInv
<1>4. QED
  BY <1>1, <1>2, <1>3, OwnersInvariance, PTL DEF Spec

-----------------------------------------------------------------------------
(***************************************************************************)
(* Every run is one of RunProtocol.tla: its handler's stages make up the   *)
(* phases, a report is a Send, and the end of the process lets the runs    *)
(* that are open die together.                                             *)
(***************************************************************************)
PhaseAt(p, s) ==
  CASE s = "absent" -> "idle"
    [] s = "returned" -> "returned"
    [] p # "up" /\ s \notin {"absent", "returned"} -> "dead"
    [] OTHER -> CASE s \in {"tracer", "listen", "serve", "map", "units"} -> "setup"
                  [] s = "loop" -> "load"
                  [] s = "await" -> "await"
                  [] s \in {"settle", "final"} -> "settle"
                  [] s \in {"stop", "drain"} -> "drain"

phase == [h \in Runs |-> PhaseAt(proc, pc[h])]
sent == [h \in Runs |-> Cardinality(delivered[h])]

\* The phase of each stage of a handler.
LEMMA Phases ==
  ASSUME NEW p, NEW s \in Stages
  PROVE  /\ s = "absent" => PhaseAt(p, s) = "idle"
         /\ s = "returned" => PhaseAt(p, s) = "returned"
         /\ p # "up" /\ s \notin {"absent", "returned"} => PhaseAt(p, s) = "dead"
         /\ p = "up" =>
              /\ s \in {"tracer", "listen", "serve", "map", "units"} => PhaseAt(p, s) = "setup"
              /\ s = "loop" => PhaseAt(p, s) = "load"
              /\ s = "await" => PhaseAt(p, s) = "await"
              /\ s \in {"settle", "final"} => PhaseAt(p, s) = "settle"
              /\ s \in {"stop", "drain"} => PhaseAt(p, s) = "drain"
BY DEF PhaseAt, Stages

\* A run that may send is open.
LEMMA OpenPhases ==
  ASSUME NEW s \in Stages, s \notin {"absent", "returned"}
  PROVE  PhaseAt("up", s) \in Protocol!Open
BY Phases DEF Stages, Protocol!Open

\* Nothing a coordinator has got is taken back.
LEMMA SentGrows ==
  ASSUME TypeOK, StreamInv, proc = "up", [Next]_vars, NEW h \in Runs
  PROVE  \/ sent'[h] = sent[h]
         \/ sent'[h] > sent[h] /\ phase[h] \in Protocol!Open
<1>1. IsFiniteSet(Invocations)
  BY FS_Interval, WorkerRunAssumption DEF Invocations
<1>2. buffer[h] \subseteq Invocations /\ delivered[h] \subseteq Invocations /\ pc[h] \in Stages
  BY DEF TypeOK
<1>3. CASE delivered'[h] = delivered[h]
  BY <1>3 DEF sent
<1>4. CASE delivered'[h] = delivered[h] \cup buffer[h] /\ streamUp[h] /\ pc[h] # "returned"
  <2>1. IsFiniteSet(delivered[h]) /\ IsFiniteSet(delivered'[h])
    BY <1>1, <1>2, <1>4, FS_Subset
  <2>2. Cardinality(delivered[h]) <= Cardinality(delivered'[h])
    BY <1>4, <2>1, FS_Subset
  <2>3. Cardinality(delivered[h]) \in Nat /\ Cardinality(delivered'[h]) \in Nat
    BY <2>1, FS_CardinalityType
  <2>4. phase[h] \in Protocol!Open
    BY <1>2, <1>4, OpenPhases DEF phase, StreamInv
  <2>5. QED
    BY <2>2, <2>3, <2>4 DEF sent
<1>5. QED
  BY <1>3, <1>4, Delivery

\* Every step of the worker is one of the protocol, or a stutter.
LEMMA ProtocolStep ==
  ASSUME TypeOK, StreamInv, [Next]_vars
  PROVE  [Protocol!Next]_(Protocol!vars)
<1> DEFINE Advances(h) ==
             /\ phase[h] \in DOMAIN Protocol!After
             /\ phase' = [phase EXCEPT ![h] = Protocol!After[phase[h]]]
<1>b. /\ [h \in Runs |-> Phase(h)] = phase
      /\ [h \in Runs |-> Phase(h)]' = phase'
      /\ [h \in Runs |-> Cardinality(delivered[h])] = sent
      /\ [h \in Runs |-> Cardinality(delivered[h])]' = sent'
  BY DEF Phase, PhaseAt, phase, sent
<1>0. SUFFICES ASSUME Next
               PROVE  [Protocol!Next]_(Protocol!vars)
  <2>1. UNCHANGED vars => UNCHANGED <<phase, sent>>
    BY DEF vars, process, handler, results, phase, sent
  <2>2. UNCHANGED vars => UNCHANGED Protocol!vars
    BY <1>b, <2>1 DEF Protocol!vars
  <2>3. QED
    BY <2>2
<1>a. proc = "up" /\ pc \in [Runs -> Stages]
  BY <1>0 DEF Next, TypeOK
<1>c. Protocol!Send
  BY <1>a, <1>b, SentGrows DEF Protocol!Send, sent
<1>d. ASSUME UNCHANGED phase
      PROVE  Protocol!Next
  BY <1>b, <1>c, <1>d DEF Protocol!Next
<1>e. ASSUME NEW h \in Runs, Advances(h), phase[h] # "settle" => UNCHANGED delivered
      PROVE  Protocol!Next
  <2>1. phase[h] # "settle" => UNCHANGED sent
    BY <1>e DEF sent
  <2>2. Protocol!Advance(h)
    BY <1>b, <1>c, <1>e, <2>1 DEF Protocol!Advance, Protocol!Proceed
  <2>3. QED
    BY <2>2 DEF Protocol!Next
<1>f. ASSUME NEW h \in Runs, proc' = proc, \A k \in Runs : k # h => pc'[k] = pc[k],
             PhaseAt("up", pc[h]) \in DOMAIN Protocol!After,
             PhaseAt("up", pc'[h]) = Protocol!After[PhaseAt("up", pc[h])]
      PROVE  Advances(h)
  BY <1>a, <1>f DEF phase
<1>g. ASSUME NEW h \in Runs, proc' = proc, \A k \in Runs : k # h => pc'[k] = pc[k],
             PhaseAt("up", pc'[h]) = PhaseAt("up", pc[h])
      PROVE  UNCHANGED phase
  BY <1>a, <1>g DEF phase
<1> HIDE DEF Advances
<1>1. ASSUME NEW h \in Runs, RunStep(h)
      PROVE  Protocol!Next
  <2>0. proc' = proc /\ \A k \in Runs : k # h => pc'[k] = pc[k]
    BY <1>1, RunMoves
       DEF RunStep, StartWorker, SetUpWorker, Listen, Serve, MakeMap, RegisterUnit, LaunchLoad,
           StopLoad, EndsRegularly, EndsForcefully, Settle, FinalReport, GracefulStop, Return,
           LoadEnds, ReportLoopStops, GeneratorStops, process
  <2>1. ASSUME NEW from \in Stages, NEW to \in Stages, Goto(h, from, to),
               PhaseAt("up", to) = PhaseAt("up", from)
        PROVE  Protocol!Next
    BY <1>d, <1>g, <2>0, <2>1, Moves
  <2>2. ASSUME NEW from \in Stages, NEW to \in Stages, Goto(h, from, to),
               PhaseAt("up", from) \in DOMAIN Protocol!After,
               PhaseAt("up", to) = Protocol!After[PhaseAt("up", from)],
               PhaseAt("up", from) # "settle" => UNCHANGED delivered
        PROVE  Protocol!Next
    <3>1. pc[h] = from /\ pc'[h] = to
      BY <2>2, Moves
    <3>2. Advances(h) /\ phase[h] = PhaseAt("up", from)
      BY <1>a, <1>f, <2>0, <2>2, <3>1 DEF phase
    <3>3. QED
      BY <1>e, <2>2, <3>2
  <2>3. CASE StartWorker(h) \/ LaunchLoad(h) \/ StopLoad(h, TRUE) \/ StopLoad(h, FALSE)
    BY <2>2, <2>3, Phases
       DEF StartWorker, LaunchLoad, StopLoad, AfterLoop, results, Stages, Protocol!After
  <2>4. CASE EndsRegularly(h) \/ EndsForcefully(h) \/ FinalReport(h) \/ Return(h)
    BY <2>2, <2>4, Phases
       DEF EndsRegularly, EndsForcefully, FinalReport, Return, results, Stages, Protocol!After
  <2>5. CASE SetUpWorker(h) \/ Listen(h) \/ Serve(h) \/ MakeMap(h) \/ Settle(h) \/ GracefulStop(h)
    BY <2>1, <2>5, Phases DEF SetUpWorker, Listen, Serve, MakeMap, Settle, GracefulStop, Stages
  <2>6. CASE pc' = pc
    BY <1>d, <1>g, <2>0, <2>6
  <2>7. QED
    BY <1>1, <2>3, <2>4, <2>5, <2>6
       DEF RunStep, RegisterUnit, LoadEnds, ReportLoopStops, GeneratorStops, handler
<1>2. CASE proc' = proc /\ pc' = pc
  BY <1>d, <1>2 DEF phase
<1>3. CASE Ends
  <2>1. pc' = pc /\ delivered' = delivered /\ proc' # "up"
    BY <1>3 DEF Ends, TracerFails, ExecutorFails, ListenFails, CallPanics, NextPanics, Exit,
                Dies, handler, results
  <2> DEFINE S == {r \in Runs : pc[r] \notin {"absent", "returned"}}
  <2>2. \A r \in S : phase[r] \in Protocol!Open
    BY <1>a, OpenPhases DEF phase
  <2>3. phase' = [r \in Runs |-> IF r \in S THEN "dead" ELSE phase[r]]
    BY <1>a, <2>1, Phases DEF phase, Stages
  <2>4. Protocol!Die(S)
    BY <1>b, <2>1, <2>2, <2>3 DEF Protocol!Die, sent
  <2>5. QED
    BY <2>4 DEF Protocol!Next
<1>4. ASSUME NEW h \in Runs, ReportTick(h) \/ CoordinatorGone(h)
      PROVE  proc' = proc /\ pc' = pc
  BY <1>4 DEF ReportTick, CoordinatorGone, process, handler
<1>5. CASE InvocationsOnly \/ Signal \/ WaitForShutdown
  BY <1>2, <1>5 DEF InvocationsOnly, GeneratorTick, Call, NextLocal, Finish, Collect, Signal,
              WaitForShutdown, process, handler
<1>6. QED
  BY <1>0, <1>1, <1>2, <1>3, <1>4, <1>5, Steps

(***************************************************************************)
(* The handlers of one worker, however its runs overlap, implement the     *)
(* protocol their coordinators rely on.                                    *)
(***************************************************************************)
THEOREM Implementation == Spec => ImplementsProtocol
<1>1. Init => Protocol!Init
  <2> SUFFICES ASSUME Init
               PROVE  Protocol!Init
    OBVIOUS
  <2>1. \A h \in Runs : Phase(h) = "idle" /\ Cardinality(delivered[h]) = 0
    BY FS_EmptySet DEF Init, Phase
  <2>2. QED
    BY <2>1 DEF Protocol!Init
<1>2. IInv /\ [Next]_vars => [Protocol!Next]_(Protocol!vars)
  BY ProtocolStep DEF IInv
<1>3. QED
  BY <1>1, <1>2, Invariance, PTL DEF Spec, ImplementsProtocol, Protocol!Spec

-----------------------------------------------------------------------------
(***************************************************************************)
(* Runs one after the other.  The reporter of the Worker is then that of   *)
(* the run in progress, so what was given to it goes to its coordinator.   *)
(***************************************************************************)
InProgress(h) == pc[h] \notin {"absent", "returned"}

SerialInv ==
  /\ \A h, k \in Runs : InProgress(h) /\ InProgress(k) => h = k
  /\ \A h \in Runs : InProgress(h) /\ pc[h] # "tracer" => reporter = h

BeforeReport == {"loop", "await", "settle", "final"}

\* A result of run h is sent, or will be in its final report, unless the stream
\* broke or the reporter stands still.
Secured(h, i) ==
  /\ pc[h] \in BeforeReport \cup {"stop", "drain", "returned"}
  /\ \/ ~ streamUp[h]
     \/ Wedged(h)
     \/ i \in delivered[h]
     \/ i \in buffer[h] /\ pc[h] \in BeforeReport
     \/ inv[i].at = "finished" /\ inv[i].to = h /\ pc[h] \in {"loop", "await", "settle"}

\* With runs one after the other, only one is in progress and has the reporter.
LEMMA SerialStep ==
  ASSUME Overlap = FALSE, TypeOK, SerialInv, [Next]_vars
  PROVE  SerialInv'
<1> USE DEF InProgress
<1>1. ASSUME NEW g \in Runs, StartWorker(g)
      PROVE  SerialInv'
  <2>1. \A k \in Runs : pc[k] \in {"absent", "returned"}
    BY <1>1 DEF StartWorker
  <2>2. pc'[g] = "tracer" /\ \A k \in Runs : k # g => pc'[k] = pc[k]
    BY <1>1, Moves DEF StartWorker
  <2>3. QED
    BY <2>1, <2>2 DEF SerialInv
<1>2. ASSUME NEW g \in Runs, SetUpWorker(g)
      PROVE  SerialInv'
  <2>1. pc[g] = "tracer" /\ pc'[g] = "listen" /\ \A k \in Runs : k # g => pc'[k] = pc[k]
    BY <1>2, Moves DEF SetUpWorker
  <2>2. reporter' = g
    BY <1>2 DEF SetUpWorker
  <2>3. QED
    BY <2>1, <2>2 DEF SerialInv
<1>3. ASSUME NEW g \in Runs, RunStep(g), ~ StartWorker(g), ~ SetUpWorker(g)
      PROVE  SerialInv'
  <2>1. reporter' = reporter
    BY <1>3 DEF RunStep, Listen, Serve, MakeMap, RegisterUnit, LaunchLoad, StopLoad,
                EndsRegularly, EndsForcefully, Settle, FinalReport, GracefulStop, Return,
                LoadEnds, ReportLoopStops, GeneratorStops, shared
  <2>2. pc'[g] = pc[g] \/ (pc[g] \notin {"absent", "tracer", "returned"})
    BY <1>3, Moves
       DEF RunStep, Listen, Serve, MakeMap, RegisterUnit, LaunchLoad, StopLoad,
           EndsRegularly, EndsForcefully, Settle, FinalReport, GracefulStop, Return,
           LoadEnds, ReportLoopStops, GeneratorStops, handler
  <2>3. \A k \in Runs : k # g => pc'[k] = pc[k]
    BY <1>3, RunMoves
  <2>4. QED
    BY <2>1, <2>2, <2>3 DEF SerialInv
<1>4. CASE ~ \E g \in Runs : RunStep(g)
  <2>1. pc' = pc
    BY <1>4, Elsewhere DEF state
  <2>2. reporter' = reporter
    <3>1. ASSUME NEW g \in Runs, ReportTick(g) \/ CoordinatorGone(g)
          PROVE  reporter' = reporter
      BY <3>1 DEF ReportTick, CoordinatorGone, shared
    <3>2. CASE InvocationsOnly
      BY <3>2 DEF InvocationsOnly, GeneratorTick, Call, NextLocal, Finish, Collect, shared
    <3>3. CASE Ends \/ Signal \/ WaitForShutdown \/ UNCHANGED vars
      BY <3>3 DEF Ends, TracerFails, ExecutorFails, ListenFails, CallPanics, NextPanics, Exit,
                  Dies, Signal, WaitForShutdown, vars, shared
    <3>4. QED
      BY <1>4, <3>1, <3>2, <3>3, Steps
  <2>3. QED
    BY <2>1, <2>2 DEF SerialInv
<1>5. QED
  BY <1>1, <1>2, <1>3, <1>4

\* The reporter of run h sends its buffer.
LEMMA SecuredByReport ==
  ASSUME TypeOK, SerialInv, NEW h \in Runs, NEW i \in Invocations, Secured(h, i),
         Report(reporter), inv' = inv, streamUp' = streamUp,
         \/ pc'[h] = pc[h]
         \/ pc[h] = "final" /\ pc'[h] = "stop" /\ reporter = h
  PROVE  Secured(h, i)'
<1>1. buffer \in [Runs -> SUBSET Invocations] /\ delivered \in [Runs -> SUBSET Invocations]
  BY DEF TypeOK
<1>2. CASE reporter = h
  <2>1. ~ Wedged(h)
    BY <1>2 DEF Report
  <2>2. delivered'[h] = IF streamUp[h] /\ pc[h] # "returned" THEN delivered[h] \cup buffer[h]
                        ELSE delivered[h]
    BY <1>1, <1>2 DEF Report, Reached
  <2>3. QED
    BY <2>1, <2>2 DEF Secured, BeforeReport
<1>3. CASE reporter # h
  <2>1. buffer'[h] = buffer[h] /\ delivered'[h] = delivered[h] /\ pc'[h] = pc[h]
    BY <1>1, <1>3 DEF Report
  <2>2. QED
    BY <2>1 DEF Secured, Wedged
<1>4. QED
  BY <1>2, <1>3

\* A result that is secured stays so.
LEMMA SecuredStep ==
  ASSUME TypeOK, SerialInv, [Next]_vars, NEW h \in Runs, NEW i \in Invocations, Secured(h, i)
  PROVE  Secured(h, i)'
<1>0. /\ buffer \in [Runs -> SUBSET Invocations] /\ inv \in [Invocations -> InvocationRecords]
      /\ streamUp \in [Runs -> BOOLEAN]
  BY DEF TypeOK
<1> DEFINE Same == buffer' = buffer /\ delivered' = delivered /\ inv'[i] = inv[i]
<1>1. ASSUME Same, pc'[h] = pc[h], streamUp'[h] => streamUp[h]
      PROVE  Secured(h, i)'
  BY <1>1 DEF Secured, Wedged
<1>2. ASSUME NEW g \in Runs, RunStep(g)
      PROVE  Secured(h, i)'
  <2>1. CASE FinalReport(g)
    <3>1. pc[g] = "final" /\ pc'[g] = "stop" /\ \A k \in Runs : k # g => pc'[k] = pc[k]
      BY <2>1, Moves DEF FinalReport
    <3>2. reporter = g
      BY <3>1 DEF SerialInv, InProgress
    <3>3. Report(reporter) /\ inv' = inv /\ streamUp' = streamUp
      BY <2>1 DEF FinalReport
    <3>4. QED
      BY <3>1, <3>2, <3>3, SecuredByReport
  <2>2. CASE Settle(g)
    <3>1. pc[g] = "settle" /\ pc'[g] = "final" /\ \A k \in Runs : k # g => pc'[k] = pc[k]
      BY <2>2, Moves DEF Settle
    <3>2. Same /\ streamUp' = streamUp
      BY <2>2 DEF Settle, results
    <3>3. inv[i].at = "finished" /\ inv[i].to = h => Wedged(h)
      BY <2>2 DEF Settle, Settled
    <3>4. QED
      BY <3>1, <3>2, <3>3 DEF Secured, Wedged, BeforeReport
  <2>3. CASE \/ StopLoad(g, FALSE) \/ StopLoad(g, TRUE) \/ EndsRegularly(g)
             \/ EndsForcefully(g) \/ GracefulStop(g) \/ Return(g)
    <3>1. Same /\ streamUp' = streamUp
      BY <2>3 DEF StopLoad, EndsRegularly, EndsForcefully, GracefulStop, Return, results
    <3>2. /\ \/ pc[g] \in {"loop", "await"} /\ pc'[g] \in {"await", "settle"}
             \/ pc[g] \in {"stop", "drain"} /\ pc'[g] \in {"drain", "returned"}
          /\ \A k \in Runs : k # g => pc'[k] = pc[k]
      BY <2>3, Moves DEF StopLoad, AfterLoop, EndsRegularly, EndsForcefully, GracefulStop, Return
    <3>3. QED
      BY <3>1, <3>2 DEF Secured, Wedged, BeforeReport
  <2>4. CASE \/ StartWorker(g) \/ SetUpWorker(g) \/ Listen(g) \/ Serve(g) \/ MakeMap(g)
             \/ LaunchLoad(g)
    <3>1. Same /\ \A k \in Runs : k # g => streamUp'[k] = streamUp[k]
      BY <1>0, <2>4 DEF StartWorker, SetUpWorker, Listen, Serve, MakeMap, LaunchLoad, results
    <3>2. /\ pc[g] \in Fresh \cup {"units"}
          /\ \A k \in Runs : k # g => pc'[k] = pc[k]
      BY <2>4, Moves DEF StartWorker, SetUpWorker, Listen, Serve, MakeMap, LaunchLoad, Fresh
    <3>3. g # h
      BY <3>2 DEF Secured, BeforeReport, Fresh
    <3>4. QED
      BY <1>1, <3>1, <3>2, <3>3
  <2>5. CASE \/ RegisterUnit(g) \/ LoadEnds(g) \/ ReportLoopStops(g)
             \/ \E u \in Units : GeneratorStops(g, u)
    BY <1>1, <2>5 DEF RegisterUnit, LoadEnds, ReportLoopStops, GeneratorStops, handler, results
  <2>6. QED
    BY <1>2, <2>1, <2>2, <2>3, <2>4, <2>5 DEF RunStep
<1>3. ASSUME NEW g \in Runs, ReportTick(g)
      PROVE  Secured(h, i)'
  BY <1>3, SecuredByReport DEF ReportTick, handler
<1>4. CASE ~ \E g \in Runs : RunStep(g) \/ ReportTick(g)
  <2>1. pc' = pc /\ (streamUp'[h] => streamUp[h])
    BY <1>4, Elsewhere DEF state
  <2>2. ASSUME NEW j \in Invocations, Collect(j)
        PROVE  Secured(h, i)'
    <3> DEFINE done == [inv[j] EXCEPT !.at = "done"]
    <3>1. inv[j].at = "finished" /\ ~ Wedged(inv[j].to) /\ delivered' = delivered
      BY <2>2 DEF Collect
    <3>2. buffer' = [buffer EXCEPT ![inv[j].to] = @ \cup {j}] /\ inv' = [inv EXCEPT ![j] = done]
      BY <2>2 DEF Collect
    <3> HIDE DEF done
    <3>3. buffer[h] \subseteq buffer'[h] /\ (Wedged(h) => buffer'[h] = buffer[h])
      BY <1>0, <3>1, <3>2
    <3>4. i # j => inv'[i] = inv[i]
      BY <1>0, <3>2
    <3>5. i = j /\ inv[i].to = h => i \in buffer'[h]
      BY <1>0, <3>2
    <3>6. QED
      BY <2>1, <3>1, <3>3, <3>4, <3>5 DEF Secured, Wedged, BeforeReport
  <2>3. CASE InvocationsOnly /\ ~ \E j \in Invocations : Collect(j)
    <3>1. buffer' = buffer /\ delivered' = delivered
      BY <2>3 DEF InvocationsOnly, GeneratorTick, Call, NextLocal, Finish, results
    <3>2. inv[i].at = "finished" => inv'[i] = inv[i]
      BY <1>0, <2>3
         DEF InvocationsOnly, GeneratorTick, Call, Invoke, NextFree, NextLocal, Calling, Finish
    <3>3. QED
      BY <2>1, <3>1, <3>2 DEF Secured, Wedged
  <2>4. ASSUME NEW g \in Runs, CoordinatorGone(g)
        PROVE  Same
    BY <2>4 DEF CoordinatorGone, results
  <2>5. CASE Ends \/ Signal \/ WaitForShutdown \/ UNCHANGED vars
    BY <1>1, <2>1, <2>5
       DEF Ends, TracerFails, ExecutorFails, ListenFails, CallPanics, NextPanics, Exit, Dies,
           Signal, WaitForShutdown, vars, results
  <2>6. QED
    BY <1>1, <1>4, <2>1, <2>2, <2>3, <2>4, <2>5, Steps DEF InvocationsOnly
<1>5. QED
  BY <1>2, <1>3, <1>4

\* With runs one after the other: a result that waits for its Collect while the
\* handler of its run has not ended its 5 s wait has been sent when the handler
\* returns, unless the stream broke or the reporter stands still.
THEOREM SettledAreReported ==
  ASSUME Overlap = FALSE
  PROVE  Spec => SettledResultsReported
<1>1. Init => SerialInv
  BY DEF Init, SerialInv, InProgress
<1>2. IInv /\ SerialInv /\ [Next]_vars => SerialInv'
  BY SerialStep DEF IInv
<1>3. Spec => [](IInv /\ SerialInv)
  BY <1>1, <1>2, Invariance, PTL DEF Spec
<1>4. SUFFICES ASSUME NEW h \in Runs, NEW i \in Invocations
               PROVE  Spec => [](inv[i].at = "finished" /\ inv[i].to = h
                                   /\ pc[h] \in {"loop", "await", "settle"}
                                 => [](pc[h] = "returned" /\ streamUp[h] /\ ~ Wedged(h)
                                       => i \in delivered[h]))
  BY DEF SettledResultsReported
<1>5. inv[i].at = "finished" /\ inv[i].to = h /\ pc[h] \in {"loop", "await", "settle"}
      => Secured(h, i)
  BY DEF Secured, BeforeReport
<1>6. IInv /\ SerialInv /\ [Next]_vars /\ Secured(h, i) => Secured(h, i)'
  BY SecuredStep DEF IInv
<1>7. Secured(h, i)
      => (pc[h] = "returned" /\ streamUp[h] /\ ~ Wedged(h) => i \in delivered[h])
  BY DEF Secured, BeforeReport
<1>8. QED
  BY <1>3, <1>5, <1>6, <1>7, PTL DEF Spec

=============================================================================
