-------------------------- MODULE CoordinatorProofs --------------------------
(* Proofs about Coordinator, for any workers, runtime and bounds.            *)
EXTENDS Coordinator, TLAPS

\* The steps of worker w, and those of its writer.
WorkerStep(w) ==
  SetupDone(w) \/ Report(w) \/ StopLoad(w) \/ LoadEnds(w) \/ StandsStill(w)
    \/ FinalReport(w) \/ Return(w) \/ Dies(w)

WriterStep(w) ==
  TickerFires(w) \/ TakeTick(w) \/ TakeFinished(w) \/ RecvPackage(w) \/ RecvEnd(w)

\* Next, by the component that moves.
LEMMA Steps ==
  ASSUME Next
  PROVE  \/ \E w \in Workers : StartWorker(w) \/ WorkerStep(w) \/ WriterStep(w)
         \/ StartFails \/ RuntimeOver \/ ToleranceOver \/ Exit \/ Tick
BY DEF Next, WorkerStep, WriterStep

-----------------------------------------------------------------------------
(***************************************************************************)
(* Every variable keeps its type.  The part that is not a type is that no  *)
(* writer has written more packages than its worker sent.                  *)
(***************************************************************************)
Stages == {"idle", "setup", "load", "await", "settle", "drain", "returned", "dead"}

\* The constants are natural numbers.
LEMMA Periods ==
  /\ {ReportInterval, WorkerTolerance, SettleTime, WriteInterval, Tolerance, Linger} \subseteq Nat
  /\ Runtime \in Nat /\ MaxConnect \in Nat /\ MaxSetup \in Nat
BY CoordinatorAssumption
   DEF ReportInterval, WorkerTolerance, SettleTime, WriteInterval, Tolerance, Linger

\* StartWorker keeps the types.
LEMMA StartTypes ==
  ASSUME TypeOK, NEW w \in Workers, StartWorker(w)
  PROVE  TypeOK'
<1>1. now' \in Nat /\ timer' \in Nat
  BY Periods DEF TypeOK, StartWorker
<1>2. /\ stage' \in [Workers -> Stages]
      /\ due' \in [Workers -> Nat]
      /\ tickAt' \in [Workers -> Nat]
      /\ writer' \in [Workers -> {"none", "select", "recv", "returned"}]
  BY Periods DEF TypeOK, StartWorker, Stages
<1>3. main' \in {"start", "runtime"}
  BY DEF StartWorker
<1>4. QED
  BY <1>1, <1>2, <1>3 DEF TypeOK, StartWorker, Stages, Arriving

\* The steps of a worker keep the types.
LEMMA WorkerTypes ==
  ASSUME TypeOK, NEW w \in Workers, WorkerStep(w)
  PROVE  TypeOK'
<1>1. UNCHANGED <<now, main, timer, writing>>
  BY DEF WorkerStep, SetupDone, Report, StopLoad, LoadEnds, StandsStill, FinalReport, Return, Dies
<1>2. stage' \in [Workers -> Stages]
  BY DEF TypeOK, Stages, WorkerStep, SetupDone, Report, StopLoad, LoadEnds, StandsStill,
         FinalReport,
         Return, Dies
<1>3. due' \in [Workers -> Nat]
  BY Periods DEF TypeOK, WorkerStep, SetupDone, Report, StopLoad, LoadEnds, StandsStill,
                 FinalReport,
                 Return, Dies
<1>4. /\ reportLoop' \in [Workers -> BOOLEAN]
      /\ reportAt' \in [Workers -> Nat]
  <2>1. CASE SetupDone(w) \/ Report(w)
    <3>1. /\ reportAt' = [reportAt EXCEPT ![w] = now + ReportInterval]
          /\ reportLoop' = [reportLoop EXCEPT ![w] = TRUE] \/ reportLoop' = reportLoop
      BY <2>1 DEF SetupDone, Report
    <3>2. now + ReportInterval \in Nat /\ reportAt \in [Workers -> Nat]
      BY Periods DEF TypeOK
    <3>3. reportLoop' \in [Workers -> BOOLEAN]
      BY <3>1 DEF TypeOK
    <3>4. QED
      BY <3>1, <3>2, <3>3
  <2>2. CASE StopReportLoop(w)
    BY <2>2 DEF TypeOK, StopReportLoop
  <2>3. CASE UNCHANGED <<reportLoop, reportAt>>
    BY <2>3 DEF TypeOK
  <2>4. QED
    BY <2>1, <2>2, <2>3
       DEF WorkerStep, StopLoad, LoadEnds, StandsStill, FinalReport, Return, Dies
<1>5. /\ sent' \in [Workers -> Nat]
      /\ \A v \in Workers : sent[v] <= sent'[v]
  BY DEF TypeOK, WorkerStep, SetupDone, Report, StopLoad, LoadEnds, StandsStill, FinalReport,
         Return, Dies
<1>6. final' \in [Workers -> Nat]
  BY <1>5 DEF TypeOK, WorkerStep, SetupDone, Report, StopLoad, LoadEnds, StandsStill, FinalReport,
              Return, Dies
<1>7. stuck' \in [Workers -> BOOLEAN]
  BY DEF TypeOK, WorkerStep, SetupDone, Report, StopLoad, LoadEnds, StandsStill, FinalReport,
         Return, Dies
<1>8. /\ lost' \in [Workers -> Nat]
      /\ \A v \in Workers : received'[v] <= Arriving(v)'
  <2>1. CASE Dies(w)
    <3>1. /\ \E n \in 0 .. sent[w] - received[w] : lost' = [lost EXCEPT ![w] = n]
          /\ sent' = sent /\ received' = received
      BY <2>1 DEF Dies, writing
    <3>2. PICK n \in 0 .. sent[w] - received[w] : lost' = [lost EXCEPT ![w] = n]
      BY <3>1
    <3>3. n \in Nat /\ n <= sent[w] - received[w]
      BY DEF TypeOK
    <3>4. lost \in [Workers -> Nat] /\ sent \in [Workers -> Nat] /\ received \in [Workers -> Nat]
      BY DEF TypeOK
    <3>5. lost' \in [Workers -> Nat]
      BY <3>2, <3>3, <3>4
    <3>6. ASSUME NEW v \in Workers
          PROVE  received'[v] <= sent'[v] - lost'[v]
      BY <3>1, <3>2, <3>3, <3>4 DEF TypeOK, Arriving
    <3>7. QED
      BY <3>5, <3>6 DEF Arriving
  <2>2. CASE ~ Dies(w)
    <3>1. lost' = lost /\ received' = received
      BY <1>1, <2>2 DEF WorkerStep, SetupDone, Report, StopLoad, LoadEnds, StandsStill,
         FinalReport, Return, writing
    <3>2. QED
      BY <1>5, <3>1 DEF TypeOK, Arriving
  <2>3. QED
    BY <2>1, <2>2
<1>9. QED
  BY <1>1, <1>2, <1>3, <1>4, <1>5, <1>6, <1>7, <1>8 DEF TypeOK, Stages, writing

\* The steps of a result writer keep the types.
LEMMA WriterTypes ==
  ASSUME TypeOK, NEW w \in Workers, WriterStep(w)
  PROVE  TypeOK'
<1>1. UNCHANGED <<now, main, timer, worker>>
  BY DEF WriterStep, TickerFires, TakeTick, TakeFinished, RecvPackage, RecvEnd
<1>2. writer' \in [Workers -> {"none", "select", "recv", "returned"}]
  BY DEF TypeOK, WriterStep, TickerFires, TakeTick, TakeFinished, RecvPackage, RecvEnd,
         WriterReturns
<1>3. /\ tickAt' \in [Workers -> Nat]
      /\ tick' \in [Workers -> BOOLEAN]
      /\ finished' \in [Workers -> BOOLEAN]
  <2>1. CASE TickerFires(w)
    <3>1. now + WriteInterval \in Nat /\ tickAt \in [Workers -> Nat]
      BY Periods DEF TypeOK
    <3>2. tickAt' \in [Workers -> Nat]
      BY <2>1, <3>1 DEF TickerFires
    <3>3. QED
      BY <2>1, <3>2 DEF TypeOK, TickerFires
  <2>2. CASE TakeTick(w) \/ RecvPackage(w)
    BY <2>2 DEF TypeOK, TakeTick, RecvPackage
  <2>3. CASE TakeFinished(w)
    BY <2>3 DEF TypeOK, TakeFinished, WriterReturns
  <2>4. CASE RecvEnd(w)
    <3>1. CASE WriterReturns(w)
      BY <2>4, <3>1 DEF TypeOK, RecvEnd, WriterReturns
    <3>2. CASE UNCHANGED <<tickAt, tick>>
      BY <2>4, <3>2 DEF TypeOK, RecvEnd
    <3>3. QED
      BY <2>4, <3>1, <3>2 DEF RecvEnd
  <2>5. QED
    BY <2>1, <2>2, <2>3, <2>4 DEF WriterStep
<1>4. /\ received' \in [Workers -> Nat]
      /\ \A v \in Workers : received'[v] <= Arriving(v)
  BY DEF TypeOK, WriterStep, TickerFires, TakeTick, TakeFinished, RecvPackage, RecvEnd,
         Available, Arriving
<1>5. QED
  BY <1>1, <1>2, <1>3, <1>4 DEF TypeOK, worker, Arriving

\* Every step keeps the types.
LEMMA TypeStep == TypeOK /\ [Next]_vars => TypeOK'
<1> SUFFICES ASSUME TypeOK, [Next]_vars
             PROVE  TypeOK'
  OBVIOUS
<1>1. CASE StartFails
  BY <1>1 DEF StartFails, TypeOK, Arriving, worker, writing
<1>2. CASE RuntimeOver
  BY <1>2, Periods DEF RuntimeOver, TypeOK, Arriving, worker, writing
<1>3. CASE ToleranceOver
  BY <1>3, Periods DEF ToleranceOver, TypeOK, Arriving, worker
<1>4. CASE Exit
  BY <1>4 DEF Exit, TypeOK, Arriving, worker, writing
<1>5. CASE Tick
  BY <1>5 DEF Tick, TypeOK, Arriving, worker, writing
<1>6. CASE UNCHANGED vars
  BY <1>6 DEF vars, TypeOK, Arriving, worker, writing
<1>7. QED
  BY <1>1, <1>2, <1>3, <1>4, <1>5, <1>6, Steps, StartTypes, WorkerTypes, WriterTypes

\* Every variable of the coordinator keeps its type, and no writer writes more than it got.
THEOREM TypeCorrect == Spec => []TypeOK
<1>1. Init => TypeOK
  BY Periods DEF Init, TypeOK, Arriving
<1>2. QED
  BY <1>1, TypeStep, PTL DEF Spec

-----------------------------------------------------------------------------
(***************************************************************************)
(* A report loop only runs while its run is open.                          *)
(***************************************************************************)
LoopInv == \A w \in Workers : reportLoop[w] => stage[w] \in Protocol!Open \ {"setup"}

\* Every step keeps LoopInv.
LEMMA LoopStep == TypeOK /\ LoopInv /\ [Next]_vars => LoopInv'
<1> SUFFICES ASSUME TypeOK, LoopInv, [Next]_vars, NEW v \in Workers, reportLoop'[v]
             PROVE  stage'[v] \in Protocol!Open \ {"setup"}
  BY DEF LoopInv
<1> USE DEF Protocol!Open
<1>1. ASSUME NEW w \in Workers, StartWorker(w)
      PROVE  stage'[v] \in Protocol!Open \ {"setup"}
  BY <1>1 DEF StartWorker, TypeOK, LoopInv
<1>2. ASSUME NEW w \in Workers, WorkerStep(w)
      PROVE  stage'[v] \in Protocol!Open \ {"setup"}
  BY <1>2 DEF WorkerStep, SetupDone, Report, StopLoad, LoadEnds, StandsStill, FinalReport,
              Return, Dies,
              StopReportLoop, TypeOK, LoopInv
<1>3. ASSUME NEW w \in Workers, WriterStep(w)
      PROVE  UNCHANGED worker
  BY <1>3 DEF WriterStep, TickerFires, TakeTick, TakeFinished, RecvPackage, RecvEnd
<1>4. CASE UNCHANGED worker
  BY <1>4 DEF worker, LoopInv
<1>5. QED
  BY <1>1, <1>2, <1>3, <1>4, Steps
     DEF StartFails, RuntimeOver, ToleranceOver, Exit, Tick, vars

\* The report loop of a worker runs only while its run is open.
THEOREM LoopInvariance == Spec => [](TypeOK /\ LoopInv)
<1>1. Init => LoopInv
  BY DEF Init, LoopInv
<1>2. QED
  BY <1>1, LoopStep, TypeCorrect, PTL DEF Spec

(***************************************************************************)
(* What a worker shows to the coordinator is a run of RunProtocol.tla:     *)
(* the handler's steps are phases, a report of its ticker is a Send, and   *)
(* whatever coordinator, writers and time do is invisible.                 *)
(***************************************************************************)
THEOREM Implementation == Spec => ImplementsProtocol
<1>1. Init => Protocol!Init
  BY DEF Init, Protocol!Init
<1>2. ASSUME TypeOK, LoopInv, [Next]_vars
      PROVE  [Protocol!Next]_(Protocol!vars)
  <2> USE DEF Protocol!vars
  <2>1. ASSUME NEW w \in Workers, stage' = [stage EXCEPT ![w] = Protocol!After[stage[w]]],
               stage[w] \in DOMAIN Protocol!After, stage[w] # "settle", sent' = sent
        PROVE  Protocol!Next
    BY <2>1 DEF Protocol!Next, Protocol!Advance, Protocol!Proceed
  <2>2. ASSUME NEW w \in Workers, StartWorker(w)
        PROVE  Protocol!Next
    <3>1. /\ stage[w] = "idle" /\ sent' = sent
          /\ stage' = [stage EXCEPT ![w] = "setup"]
      BY <2>2 DEF StartWorker
    <3>2. "idle" \in DOMAIN Protocol!After /\ Protocol!After["idle"] = "setup"
      BY DEF Protocol!After
    <3>3. QED
      BY <2>1, <3>1, <3>2
  <2>3. ASSUME NEW w \in Workers, SetupDone(w) \/ StopLoad(w) \/ LoadEnds(w) \/ Return(w)
        PROVE  Protocol!Next
    BY <2>1, <2>3 DEF SetupDone, StopLoad, LoadEnds, Return, Protocol!After
  <2>4. ASSUME NEW w \in Workers, sent' = [sent EXCEPT ![w] = @ + 1],
               stage[w] \in Protocol!Open
        PROVE  Protocol!Send
    BY <1>2, <2>4 DEF TypeOK, Protocol!Send
  <2>5. ASSUME NEW w \in Workers, Report(w)
        PROVE  Protocol!Next
    BY <1>2, <2>4, <2>5 DEF Report, LoopInv, Protocol!Next
  <2>6. ASSUME NEW w \in Workers, FinalReport(w)
        PROVE  Protocol!Next
    <3>1. Protocol!Send
      BY <2>4, <2>6 DEF FinalReport, Protocol!Open
    <3>2. stage[w] = "settle" /\ stage' = [stage EXCEPT ![w] = "drain"]
      BY <2>6 DEF FinalReport
    <3>3. "settle" \in DOMAIN Protocol!After /\ Protocol!After["settle"] = "drain"
      BY DEF Protocol!After
    <3>4. Protocol!Advance(w)
      BY <3>1, <3>2, <3>3 DEF Protocol!Advance, Protocol!Proceed
    <3>5. QED
      BY <3>4 DEF Protocol!Next
  <2>7. ASSUME NEW w \in Workers, Dies(w)
        PROVE  Protocol!Next
    <3>1. stage' = [r \in Workers |-> IF r \in {w} THEN "dead" ELSE stage[r]]
      BY <1>2, <2>7 DEF Dies, TypeOK
    <3>2. Protocol!Die({w})
      BY <2>7, <3>1 DEF Dies, Protocol!Die, Protocol!Open
    <3>3. QED
      BY <3>2 DEF Protocol!Next
  <2>8. ASSUME NEW w \in Workers, WriterStep(w) \/ StandsStill(w)
        PROVE  UNCHANGED <<stage, sent>>
    BY <2>8 DEF StandsStill, WriterStep, TickerFires, TakeTick, TakeFinished, RecvPackage,
                RecvEnd, worker
  <2>9. CASE StartFails \/ RuntimeOver \/ ToleranceOver \/ Exit \/ Tick \/ UNCHANGED vars
    BY <2>9 DEF StartFails, RuntimeOver, ToleranceOver, Exit, Tick, vars, worker
  <2>10. QED
    BY <1>2, <2>2, <2>3, <2>5, <2>6, <2>7, <2>8, <2>9, Steps DEF WorkerStep
<1>3. QED
  BY <1>1, <1>2, LoopInvariance, PTL DEF Spec, ImplementsProtocol, Protocol!Spec

-----------------------------------------------------------------------------
(***************************************************************************)
(* How much of a stream waits to be written.  A writer that is in Recv     *)
(* takes one package at once, and one for each tick; so what counts is how *)
(* many it can take before the worker's next report.                       *)
(***************************************************************************)
Alive(w) == writer[w] \in {"select", "recv"}

Backlog(w) == Arriving(w) - received[w]

One(p) == IF p THEN 1 ELSE 0

\* The number of packages the writer is able to take up to time t, of the next
\* seconds.
Takes(w, t) ==
  One(writer[w] = "recv") + One(tick[w] = TRUE) + One(tickAt[w] <= t)
    + One(tickAt[w] + WriteInterval <= t)

\* The packages that may wait: one, and after the final report two.
Limit(w) == IF final[w] = 0 THEN 1 ELSE 2

\* No timer is overdue, and none further away than its period.
Timers(w) ==
  /\ Alive(w) => now <= tickAt[w] /\ tickAt[w] <= now + WriteInterval
  /\ reportLoop[w] => now <= reportAt[w] /\ reportAt[w] <= now + ReportInterval
  /\ Waits(w) => now <= due[w]

\* The coordinator's own, and when it has told the writers to finish.
MainTimer ==
  /\ main \notin {"fatal", "exited"} => now <= timer
  /\ main = "linger" => timer <= now + Linger

\* What the stages of worker and writer have to do with each other.
StagesInv(w) ==
  /\ stage[w] = "idle" <=> writer[w] = "none"
  /\ stage[w] = "idle" => tick[w] = FALSE
  /\ stage[w] \in {"idle", "setup"} => sent[w] = 0 /\ received[w] = 0 /\ final[w] = 0
  /\ stage[w] \in {"drain", "returned"} => final[w] # 0
  /\ final[w] # 0 => stage[w] \in {"drain", "returned", "dead"}
  /\ final[w] <= sent[w]
  /\ lost[w] # 0 => stage[w] = "dead"
  /\ stuck[w] => stage[w] \notin {"idle", "setup"} /\ ~ reportLoop[w]
  /\ finished[w] = TRUE => main \in {"linger", "exited"}
  /\ writer[w] = "returned" =>
       main \in {"linger", "exited"} \/ (stage[w] = "returned" /\ received[w] = sent[w])

\* With the limit reached, the writer takes a package before time goes on.
BacklogInv(w) ==
  /\ Backlog(w) <= Limit(w)
  /\ Alive(w) /\ Backlog(w) = Limit(w) => Takes(w, now) >= 1
  /\ Alive(w) /\ reportLoop[w] =>
       /\ Backlog(w) = Limit(w) => reportAt[w] = now + ReportInterval
       /\ Backlog(w) + 2 - Limit(w) <= Takes(w, reportAt[w])
  /\ writer[w] = "select" /\ tick[w] = TRUE /\ final[w] = 0 =>
       \/ tickAt[w] = now + WriteInterval
       \/ Backlog(w) = 0 /\ (reportLoop[w] => reportAt[w] = now + ReportInterval)
  /\ writer[w] = "returned" /\ reportLoop[w] /\ Backlog(w) = Limit(w) => reportAt[w] > timer

StreamInv == MainTimer /\ \A w \in Workers : Timers(w) /\ StagesInv(w) /\ BacklogInv(w)

\* The numbers and words of one worker.
LEMMA LocalTypes ==
  ASSUME TypeOK, NEW w \in Workers
  PROVE  /\ now \in Nat /\ timer \in Nat /\ due[w] \in Nat /\ reportAt[w] \in Nat
         /\ sent[w] \in Nat /\ final[w] \in Nat /\ tickAt[w] \in Nat /\ received[w] \in Nat
         /\ lost[w] \in Nat /\ received[w] <= Arriving(w) /\ Arriving(w) = sent[w] - lost[w]
         /\ stuck[w] \in BOOLEAN /\ reportLoop[w] \in BOOLEAN /\ tick[w] \in BOOLEAN /\ finished[w] \in BOOLEAN
         /\ writer[w] \in {"none", "select", "recv", "returned"}
         /\ stage[w] \in Stages
BY DEF TypeOK, Stages, Arriving

Local(w) == Timers(w) /\ StagesInv(w) /\ BacklogInv(w)

\* What a step leaves of worker v and its writer.
SameWorker(v) ==
  /\ stage'[v] = stage[v] /\ due'[v] = due[v] /\ reportLoop'[v] = reportLoop[v]
  /\ reportAt'[v] = reportAt[v] /\ sent'[v] = sent[v] /\ final'[v] = final[v]
  /\ stuck'[v] = stuck[v] /\ lost'[v] = lost[v]

SameWriter(v) ==
  /\ writer'[v] = writer[v] /\ tickAt'[v] = tickAt[v] /\ tick'[v] = tick[v]
  /\ finished'[v] = finished[v] /\ received'[v] = received[v]

SameTime == now' = now /\ main' = main /\ timer' = timer

\* What is said of one worker holds after a step that changes neither it nor time.
LEMMA LocalSame ==
  ASSUME NEW v \in Workers, Local(v), SameWorker(v), SameWriter(v), SameTime
  PROVE  Local(v)'
BY DEF Local, SameWorker, SameWriter, SameTime, Timers, Waits, StagesInv, BacklogInv, Alive,
       Backlog, Arriving,
   Takes, Limit

\* A worker's step changes nothing of the writers, of the other workers and of time.
LEMMA WorkerFrame ==
  ASSUME TypeOK, NEW w \in Workers, WorkerStep(w)
  PROVE  /\ SameTime /\ \A v \in Workers : SameWriter(v)
         /\ \A v \in Workers \ {w} : SameWorker(v)
<1>1. UNCHANGED <<now, main, timer, writing>>
  BY DEF WorkerStep, SetupDone, Report, StopLoad, LoadEnds, StandsStill, FinalReport, Return, Dies
<1>2. ASSUME NEW v \in Workers \ {w}
      PROVE  SameWorker(v)
  BY <1>2 DEF WorkerStep, SetupDone, Report, StopLoad, LoadEnds, StandsStill, FinalReport,
              Return, Dies,
              StopReportLoop, TypeOK, SameWorker
<1>3. QED
  BY <1>1, <1>2 DEF writing, SameTime, SameWriter

\* A writer's step changes nothing of the workers, of the other writers and of time.
LEMMA WriterFrame ==
  ASSUME TypeOK, NEW w \in Workers, WriterStep(w)
  PROVE  /\ SameTime /\ \A v \in Workers : SameWorker(v)
         /\ \A v \in Workers \ {w} : SameWriter(v)
<1>1. UNCHANGED <<now, main, timer, worker>>
  BY DEF WriterStep, TickerFires, TakeTick, TakeFinished, RecvPackage, RecvEnd
<1>2. ASSUME NEW v \in Workers \ {w}
      PROVE  SameWriter(v)
  BY <1>2 DEF WriterStep, TickerFires, TakeTick, TakeFinished, RecvPackage, RecvEnd,
              WriterReturns, TypeOK, SameWriter
<1>3. QED
  BY <1>1, <1>2 DEF worker, SameTime, SameWorker

\* A report is sent.
LEMMA ReportLocal ==
  ASSUME TypeOK, LoopInv, MainTimer, main \notin {"fatal", "exited"},
         NEW w \in Workers, Local(w), Report(w)
  PROVE  Local(w)'
<1>1. SameTime /\ SameWriter(w)
  BY WorkerFrame DEF WorkerStep
<1>2. /\ reportLoop[w] /\ now = reportAt[w]
      /\ sent'[w] = sent[w] + 1 /\ reportAt'[w] = now + ReportInterval
      /\ stage'[w] = stage[w] /\ due'[w] = due[w] /\ reportLoop'[w] = reportLoop[w]
      /\ final'[w] = final[w] /\ stuck'[w] = stuck[w] /\ lost'[w] = lost[w]
  BY DEF Report, TypeOK
<1>3. stage[w] \in {"load", "await", "settle", "drain"}
  BY <1>2 DEF LoopInv, Protocol!Open
<1>4. Timers(w)'
  BY <1>1, <1>2, LocalTypes DEF Local, Timers, Waits, Alive, SameTime, SameWriter, ReportInterval
<1>5. StagesInv(w)'
  BY <1>1, <1>2, <1>3, LocalTypes DEF Local, StagesInv, SameTime, SameWriter
<1>6. BacklogInv(w)'
  BY <1>1, <1>2, <1>3, LocalTypes
     DEF Local, Timers, Waits, StagesInv, BacklogInv, Alive, Backlog, Arriving, Takes, One,
         Limit, MainTimer,
         SameTime, SameWriter, ReportInterval, WriteInterval, Linger
<1>7. QED
  BY <1>4, <1>5, <1>6 DEF Local

\* The report loop starts.
LEMMA SetupLocal ==
  ASSUME TypeOK, LoopInv, MainTimer, main \notin {"fatal", "exited"},
         NEW w \in Workers, Local(w), SetupDone(w)
  PROVE  Local(w)'
<1>1. SameTime /\ SameWriter(w)
  BY WorkerFrame DEF WorkerStep
<1>2. /\ stage[w] = "setup" /\ stage'[w] = "load" /\ due'[w] = now + Runtime
      /\ reportLoop'[w] = TRUE /\ reportAt'[w] = now + ReportInterval
      /\ sent'[w] = sent[w] /\ final'[w] = final[w]
      /\ stuck'[w] = stuck[w] /\ lost'[w] = lost[w]
  BY DEF SetupDone, TypeOK
<1>3. reportLoop[w] => stage[w] \in {"load", "await", "settle", "drain"}
  BY DEF LoopInv, Protocol!Open
<1>4. Timers(w)'
  BY <1>1, <1>2, LocalTypes, Periods
     DEF Local, Timers, Waits, Alive, SameTime, SameWriter, ReportInterval, WorkerTolerance,
         SettleTime
<1>5. StagesInv(w)'
  BY <1>1, <1>2, <1>3, LocalTypes DEF Local, StagesInv, SameTime, SameWriter
<1>6. BacklogInv(w)'
  BY <1>1, <1>2, <1>3, LocalTypes
     DEF Local, Timers, Waits, StagesInv, BacklogInv, Alive, Backlog, Arriving, Takes, One,
         Limit, MainTimer,
         SameTime, SameWriter, ReportInterval, WriteInterval, Linger
<1>7. QED
  BY <1>4, <1>5, <1>6 DEF Local

\* The load is stopped; the report loop goes on.
LEMMA StopLoadLocal ==
  ASSUME TypeOK, LoopInv, MainTimer, main \notin {"fatal", "exited"},
         NEW w \in Workers, Local(w), StopLoad(w)
  PROVE  Local(w)'
<1>1. SameTime /\ SameWriter(w)
  BY WorkerFrame DEF WorkerStep
<1>2. /\ stage[w] = "load" /\ stage'[w] = "await" /\ due'[w] = now + WorkerTolerance
      /\ reportLoop'[w] = reportLoop[w] /\ reportAt'[w] = reportAt[w]
      /\ sent'[w] = sent[w] /\ final'[w] = final[w]
      /\ stuck'[w] = stuck[w] /\ lost'[w] = lost[w]
  BY DEF StopLoad, TypeOK
<1>3. reportLoop[w] => stage[w] \in {"load", "await", "settle", "drain"}
  BY DEF LoopInv, Protocol!Open
<1>4. Timers(w)'
  BY <1>1, <1>2, LocalTypes, Periods
     DEF Local, Timers, Waits, Alive, SameTime, SameWriter, ReportInterval, WorkerTolerance,
         SettleTime
<1>5. StagesInv(w)'
  BY <1>1, <1>2, <1>3, LocalTypes DEF Local, StagesInv, SameTime, SameWriter
<1>6. BacklogInv(w)'
  BY <1>1, <1>2, <1>3, LocalTypes
     DEF Local, Timers, Waits, StagesInv, BacklogInv, Alive, Backlog, Arriving, Takes, One,
         Limit, MainTimer,
         SameTime, SameWriter, ReportInterval, WriteInterval, Linger
<1>7. QED
  BY <1>4, <1>5, <1>6 DEF Local

\* The report loop ends, or goes on.
LEMMA LoadEndsLocal ==
  ASSUME TypeOK, LoopInv, MainTimer, main \notin {"fatal", "exited"},
         NEW w \in Workers, Local(w), LoadEnds(w)
  PROVE  Local(w)'
<1>1. SameTime /\ SameWriter(w)
  BY WorkerFrame DEF WorkerStep
<1>2. /\ stage[w] = "await" /\ stage'[w] = "settle" /\ due'[w] = now + SettleTime
      /\ reportLoop'[w] = FALSE \/ (reportLoop'[w] = reportLoop[w] /\ reportAt'[w] = reportAt[w])
      /\ sent'[w] = sent[w] /\ final'[w] = final[w]
      /\ stuck'[w] = stuck[w] /\ lost'[w] = lost[w]
  BY DEF LoadEnds, StopReportLoop, TypeOK
<1>3. reportLoop[w] => stage[w] \in {"load", "await", "settle", "drain"}
  BY DEF LoopInv, Protocol!Open
<1>4. Timers(w)'
  BY <1>1, <1>2, LocalTypes, Periods
     DEF Local, Timers, Waits, Alive, SameTime, SameWriter, ReportInterval, WorkerTolerance,
         SettleTime
<1>5. StagesInv(w)'
  BY <1>1, <1>2, <1>3, LocalTypes DEF Local, StagesInv, SameTime, SameWriter
<1>6. BacklogInv(w)'
  BY <1>1, <1>2, <1>3, LocalTypes
     DEF Local, Timers, Waits, StagesInv, BacklogInv, Alive, Backlog, Arriving, Takes, One,
         Limit, MainTimer,
         SameTime, SameWriter, ReportInterval, WriteInterval, Linger
<1>7. QED
  BY <1>4, <1>5, <1>6 DEF Local

\* The reporter stands still, and with it the report loop.
LEMMA StandsStillLocal ==
  ASSUME TypeOK, LoopInv, MainTimer, main \notin {"fatal", "exited"},
         NEW w \in Workers, Local(w), StandsStill(w)
  PROVE  Local(w)'
<1>1. SameTime /\ SameWriter(w)
  BY WorkerFrame DEF WorkerStep
<1>2. /\ stage[w] \in {"load", "await", "settle", "drain"} /\ stage'[w] = stage[w]
      /\ due'[w] = due[w] /\ reportLoop'[w] = FALSE /\ stuck'[w] = TRUE
      /\ sent'[w] = sent[w] /\ final'[w] = final[w] /\ lost'[w] = lost[w]
  BY DEF StandsStill, StopReportLoop, TypeOK
<1>3. reportLoop[w] => stage[w] \in {"load", "await", "settle", "drain"}
  BY DEF LoopInv, Protocol!Open
<1>4. Timers(w)'
  BY <1>1, <1>2, LocalTypes, Periods
     DEF Local, Timers, Waits, Alive, SameTime, SameWriter, ReportInterval, WorkerTolerance,
         SettleTime
<1>5. StagesInv(w)'
  BY <1>1, <1>2, <1>3, LocalTypes DEF Local, StagesInv, SameTime, SameWriter
<1>6. BacklogInv(w)'
  BY <1>1, <1>2, <1>3, LocalTypes
     DEF Local, Timers, Waits, StagesInv, BacklogInv, Alive, Backlog, Arriving, Takes, One,
         Limit, MainTimer,
         SameTime, SameWriter, ReportInterval, WriteInterval, Linger
<1>7. QED
  BY <1>4, <1>5, <1>6 DEF Local

\* The final report, for which the limit is raised.
LEMMA FinalLocal ==
  ASSUME TypeOK, LoopInv, MainTimer, main \notin {"fatal", "exited"},
         NEW w \in Workers, Local(w), FinalReport(w)
  PROVE  Local(w)'
<1>1. SameTime /\ SameWriter(w)
  BY WorkerFrame DEF WorkerStep
<1>2. /\ stage[w] = "settle" /\ stage'[w] = "drain"
      /\ reportLoop'[w] = reportLoop[w] /\ reportAt'[w] = reportAt[w]
      /\ sent'[w] = sent[w] + 1 /\ final'[w] = sent[w] + 1
      /\ ~ stuck[w] /\ stuck'[w] = stuck[w] /\ lost'[w] = lost[w]
  BY DEF FinalReport, TypeOK
<1>3. reportLoop[w] => stage[w] \in {"load", "await", "settle", "drain"}
  BY DEF LoopInv, Protocol!Open
<1>4. Timers(w)'
  BY <1>1, <1>2, LocalTypes, Periods
     DEF Local, Timers, Waits, Alive, SameTime, SameWriter, ReportInterval, WorkerTolerance,
         SettleTime
<1>5. StagesInv(w)'
  BY <1>1, <1>2, <1>3, LocalTypes DEF Local, StagesInv, SameTime, SameWriter
<1>6. BacklogInv(w)'
  BY <1>1, <1>2, <1>3, LocalTypes
     DEF Local, Timers, Waits, StagesInv, BacklogInv, Alive, Backlog, Arriving, Takes, One,
         Limit, MainTimer,
         SameTime, SameWriter, ReportInterval, WriteInterval, Linger
<1>7. QED
  BY <1>4, <1>5, <1>6 DEF Local

\* The handler returns, or its process ends.
LEMMA ReturnLocal ==
  ASSUME TypeOK, LoopInv, MainTimer, main \notin {"fatal", "exited"},
         NEW w \in Workers, Local(w), Return(w) \/ Dies(w)
  PROVE  Local(w)'
<1>1. SameTime /\ SameWriter(w)
  BY WorkerFrame DEF WorkerStep
<1>2. /\ \/ stage[w] = "drain" /\ stage'[w] = "returned"
         \/ stage'[w] = "dead" /\ stage[w] \in {"setup", "load", "await", "settle", "drain"}
      /\ reportLoop'[w] = FALSE /\ sent'[w] = sent[w] /\ final'[w] = final[w]
      /\ stuck'[w] = stuck[w]
      /\ lost'[w] = lost[w] \/ (stage'[w] = "dead" /\ lost'[w] \in 0 .. sent[w] - received[w])
  BY DEF Return, Dies, StopReportLoop, TypeOK
<1>3. reportLoop[w] => stage[w] \in {"load", "await", "settle", "drain"}
  BY DEF LoopInv, Protocol!Open
<1>4. Timers(w)'
  BY <1>1, <1>2, LocalTypes, Periods
     DEF Local, Timers, Waits, Alive, SameTime, SameWriter, ReportInterval, WorkerTolerance,
         SettleTime
<1>5. StagesInv(w)'
  BY <1>1, <1>2, <1>3, LocalTypes DEF Local, StagesInv, SameTime, SameWriter
<1>6. BacklogInv(w)'
  BY <1>1, <1>2, <1>3, LocalTypes
     DEF Local, Timers, Waits, StagesInv, BacklogInv, Alive, Backlog, Arriving, Takes, One,
         Limit, MainTimer,
         SameTime, SameWriter, ReportInterval, WriteInterval, Linger
<1>7. QED
  BY <1>4, <1>5, <1>6 DEF Local

\* A tick, which is lost when the channel is full.
LEMMA TickerLocal ==
  ASSUME TypeOK, LoopInv, MainTimer, main \notin {"fatal", "exited"}, NEW w \in Workers, Local(w), TickerFires(w)
  PROVE  Local(w)'
<1>1. SameTime /\ SameWorker(w)
  BY WriterFrame DEF WriterStep
<1>2. /\ Alive(w) /\ now = tickAt[w] /\ tick'[w] = TRUE /\ tickAt'[w] = now + WriteInterval
      /\ writer'[w] = writer[w] /\ finished'[w] = finished[w] /\ received'[w] = received[w]
  BY DEF TickerFires, TypeOK, Alive
<1>3. reportLoop[w] => stage[w] \in {"load", "await", "settle", "drain"}
  BY DEF LoopInv, Protocol!Open
<1>4. Timers(w)'
  BY <1>1, <1>2, LocalTypes
     DEF Local, Timers, Waits, Alive, SameTime, SameWorker, WriteInterval
<1>5. StagesInv(w)'
  BY <1>1, <1>2, <1>3, LocalTypes DEF Local, StagesInv, Alive, SameTime, SameWorker
<1>6. BacklogInv(w)'
  BY <1>1, <1>2, <1>3, LocalTypes
     DEF Local, Timers, Waits, StagesInv, BacklogInv, Alive, Backlog, Arriving, Takes, One,
         Limit, MainTimer,
         SameTime, SameWorker, ReportInterval, WriteInterval, Linger
<1>7. QED
  BY <1>4, <1>5, <1>6 DEF Local

\* The writer takes a tick.
LEMMA TakeTickLocal ==
  ASSUME TypeOK, LoopInv, MainTimer, main \notin {"fatal", "exited"}, NEW w \in Workers, Local(w), TakeTick(w)
  PROVE  Local(w)'
<1>1. SameTime /\ SameWorker(w)
  BY WriterFrame DEF WriterStep
<1>2. /\ writer[w] = "select" /\ tick[w] = TRUE /\ tick'[w] = FALSE /\ writer'[w] = "recv"
      /\ tickAt'[w] = tickAt[w] /\ finished'[w] = finished[w] /\ received'[w] = received[w]
  BY DEF TakeTick, TypeOK
<1>3. reportLoop[w] => stage[w] \in {"load", "await", "settle", "drain"}
  BY DEF LoopInv, Protocol!Open
<1>4. Timers(w)'
  BY <1>1, <1>2, LocalTypes
     DEF Local, Timers, Waits, Alive, SameTime, SameWorker, WriteInterval
<1>5. StagesInv(w)'
  BY <1>1, <1>2, <1>3, LocalTypes DEF Local, StagesInv, SameTime, SameWorker
<1>6. BacklogInv(w)'
  BY <1>1, <1>2, <1>3, LocalTypes
     DEF Local, Timers, Waits, StagesInv, BacklogInv, Alive, Backlog, Arriving, Takes, One,
         Limit, MainTimer,
         SameTime, SameWorker, ReportInterval, WriteInterval, Linger
<1>7. QED
  BY <1>4, <1>5, <1>6 DEF Local

\* The writer is told to finish.
LEMMA TakeFinishedLocal ==
  ASSUME TypeOK, LoopInv, MainTimer, main \notin {"fatal", "exited"}, NEW w \in Workers, Local(w), TakeFinished(w)
  PROVE  Local(w)'
<1>1. SameTime /\ SameWorker(w)
  BY WriterFrame DEF WriterStep
<1>2. /\ writer[w] = "select" /\ finished[w] = TRUE /\ finished'[w] = FALSE
      /\ writer'[w] = "returned" /\ received'[w] = received[w] /\ tick'[w] = FALSE
  BY DEF TakeFinished, WriterReturns, TypeOK
<1>3. reportLoop[w] => stage[w] \in {"load", "await", "settle", "drain"}
  BY DEF LoopInv, Protocol!Open
<1>4. Timers(w)'
  BY <1>1, <1>2, LocalTypes
     DEF Local, Timers, Waits, Alive, SameTime, SameWorker, WriteInterval
<1>5. StagesInv(w)'
  BY <1>1, <1>2, <1>3, LocalTypes DEF Local, StagesInv, SameTime, SameWorker
<1>6. BacklogInv(w)'
  BY <1>1, <1>2, <1>3, LocalTypes
     DEF Local, Timers, Waits, StagesInv, BacklogInv, Alive, Backlog, Arriving, Takes, One,
         Limit, MainTimer,
         SameTime, SameWorker, ReportInterval, WriteInterval, Linger
<1>7. QED
  BY <1>4, <1>5, <1>6 DEF Local

\* The writer takes a package.
LEMMA RecvLocal ==
  ASSUME TypeOK, LoopInv, MainTimer, main \notin {"fatal", "exited"}, NEW w \in Workers, Local(w), RecvPackage(w)
  PROVE  Local(w)'
<1>1. SameTime /\ SameWorker(w)
  BY WriterFrame DEF WriterStep
<1>2. /\ writer[w] = "recv" /\ writer'[w] = "select" /\ received[w] < Arriving(w)
      /\ received'[w] = received[w] + 1
      /\ tickAt'[w] = tickAt[w] /\ tick'[w] = tick[w] /\ finished'[w] = finished[w]
  BY DEF RecvPackage, Available, TypeOK
<1>3. reportLoop[w] => stage[w] \in {"load", "await", "settle", "drain"}
  BY DEF LoopInv, Protocol!Open
<1>4. Timers(w)'
  BY <1>1, <1>2, LocalTypes
     DEF Local, Timers, Waits, Alive, SameTime, SameWorker, WriteInterval
<1>5. StagesInv(w)'
  BY <1>1, <1>2, <1>3, LocalTypes DEF Local, StagesInv, SameTime, SameWorker
<1>6. BacklogInv(w)'
  BY <1>1, <1>2, <1>3, LocalTypes
     DEF Local, Timers, Waits, StagesInv, BacklogInv, Alive, Backlog, Arriving, Takes, One,
         Limit, MainTimer,
         SameTime, SameWorker, ReportInterval, WriteInterval, Linger
<1>7. QED
  BY <1>4, <1>5, <1>6 DEF Local

\* The stream has ended.
LEMMA RecvEndLocal ==
  ASSUME TypeOK, LoopInv, MainTimer, main \notin {"fatal", "exited"}, NEW w \in Workers, Local(w), RecvEnd(w)
  PROVE  Local(w)'
<1>1. SameTime /\ SameWorker(w)
  BY WriterFrame DEF WriterStep
<1>2. /\ writer[w] = "recv" /\ received[w] = Arriving(w)
      /\ \/ stage[w] = "returned" /\ writer'[w] = "returned" /\ tick'[w] = FALSE
         \/ /\ stage[w] = "dead" /\ writer'[w] = "select"
            /\ tickAt'[w] = tickAt[w] /\ tick'[w] = tick[w]
      /\ finished'[w] = finished[w] /\ received'[w] = received[w]
  BY DEF RecvEnd, WriterReturns, TypeOK
<1>3. reportLoop[w] => stage[w] \in {"load", "await", "settle", "drain"}
  BY DEF LoopInv, Protocol!Open
<1>4. Timers(w)'
  BY <1>1, <1>2, LocalTypes
     DEF Local, Timers, Waits, Alive, SameTime, SameWorker, WriteInterval
<1>5. StagesInv(w)'
  BY <1>1, <1>2, <1>3, LocalTypes DEF Local, StagesInv, SameTime, SameWorker
<1>6. BacklogInv(w)'
  BY <1>1, <1>2, <1>3, LocalTypes
     DEF Local, Timers, Waits, StagesInv, BacklogInv, Alive, Backlog, Arriving, Takes, One,
         Limit, MainTimer,
         SameTime, SameWorker, ReportInterval, WriteInterval, Linger
<1>7. QED
  BY <1>4, <1>5, <1>6 DEF Local

\* A worker is started, before the others or after them.
LEMMA StartLocal ==
  ASSUME TypeOK, LoopInv, NEW w \in Workers, StartWorker(w), NEW v \in Workers, Local(v)
  PROVE  Local(v)'
<1>1. /\ main = "start" /\ now' = now /\ main' \in {"start", "runtime"}
      /\ received' = received /\ sent' = sent /\ final' = final /\ tick' = tick
      /\ stuck' = stuck /\ lost' = lost
      /\ reportLoop' = reportLoop /\ reportAt' = reportAt /\ finished' = finished
  BY DEF StartWorker
<1>2. reportLoop[v] => stage[v] \in {"load", "await", "settle", "drain"}
  BY DEF LoopInv, Protocol!Open
<1>3. CASE v = w
  <2>1. /\ stage[v] = "idle" /\ stage'[v] = "setup" /\ due'[v] = now + MaxSetup
        /\ writer'[v] = "select" /\ tickAt'[v] = now + WriteInterval
    BY <1>3 DEF StartWorker, TypeOK
  <2>2. Timers(v)'
    BY <1>1, <1>2, <2>1, LocalTypes, Periods DEF Timers, Waits, Alive, WriteInterval
  <2>3. StagesInv(v)'
    BY <1>1, <1>2, <2>1, LocalTypes DEF Local, StagesInv
  <2>4. BacklogInv(v)'
    BY <1>1, <1>2, <2>1, LocalTypes
       DEF Local, StagesInv, BacklogInv, Alive, Backlog, Arriving, Takes, Limit
  <2>5. QED
    BY <2>2, <2>3, <2>4 DEF Local
<1>4. CASE v # w
  <2>1. /\ stage'[v] = stage[v] /\ due'[v] = due[v]
        /\ writer'[v] = writer[v] /\ tickAt'[v] = tickAt[v]
    BY <1>4 DEF StartWorker, TypeOK
  <2>2. Timers(v)'
    BY <1>1, <2>1 DEF Local, Timers, Waits, Alive
  <2>3. StagesInv(v)'
    BY <1>1, <2>1 DEF Local, StagesInv
  <2>4. BacklogInv(v)'
    BY <1>1, <1>2, <2>1 DEF Local, StagesInv, BacklogInv, Alive, Backlog, Arriving, Takes, Limit
  <2>5. QED
    BY <2>2, <2>3, <2>4 DEF Local
<1>5. QED
  BY <1>3, <1>4

\* StartBenchmark goes on to its next timer.
LEMMA MainLocal ==
  ASSUME LoopInv, StartFails \/ RuntimeOver \/ ToleranceOver \/ Exit,
         NEW v \in Workers, Local(v)
  PROVE  Local(v)'
<1>1. /\ now' = now /\ SameWorker(v)
      /\ writer'[v] = writer[v] /\ tickAt'[v] = tickAt[v] /\ tick'[v] = tick[v]
      /\ received'[v] = received[v]
  BY DEF StartFails, RuntimeOver, ToleranceOver, Exit, SameWorker, worker, writing
<1>2. /\ finished'[v] = finished[v] \/ main' = "linger"
      /\ \/ main \in {"start", "runtime", "tolerance"}
         \/ main = "linger" /\ main' = "exited" /\ timer' = timer
  BY DEF StartFails, RuntimeOver, ToleranceOver, Exit, worker, writing
<1>3. reportLoop[v] => stage[v] \in {"load", "await", "settle", "drain"}
  BY DEF LoopInv, Protocol!Open
<1>4. Timers(v)'
  BY <1>1 DEF Local, Timers, Waits, Alive, SameWorker
<1>5. StagesInv(v)'
  BY <1>1, <1>2 DEF Local, StagesInv, SameWorker
<1>6. BacklogInv(v)'
  BY <1>1, <1>2, <1>3
     DEF Local, StagesInv, BacklogInv, Alive, Backlog, Arriving, Takes, Limit, SameWorker
<1>7. QED
  BY <1>4, <1>5, <1>6 DEF Local

\* What a second that passes leaves alone, and what it waited for.
LEMMA TickFrame ==
  ASSUME Tick, NEW v \in Workers
  PROVE  /\ now' = now + 1 /\ main' = main /\ timer' = timer /\ SameWorker(v) /\ SameWriter(v)
         /\ main \notin {"fatal", "exited"} => now < timer
         /\ Waits(v) => now < due[v]
         /\ reportLoop[v] => now < reportAt[v]
         /\ Alive(v) => now < tickAt[v]
         /\ writer[v] = "select" => ~ tick[v] /\ ~ finished[v]
         /\ writer[v] = "recv" =>
              ~ (received[v] < Arriving(v)) /\ stage[v] \notin {"returned", "dead"}
<1>1. UNCHANGED <<main, timer, worker, writing>> /\ now' = now + 1
  BY DEF Tick
<1>2. main' = main /\ timer' = timer /\ SameWorker(v) /\ SameWriter(v)
  BY <1>1 DEF worker, writing, SameWorker, SameWriter
<1>3. QED
  BY <1>1, <1>2 DEF Tick, Passes, Alive, Available

\* Time passes: with the limit reached it would not.
LEMMA TickLocal ==
  ASSUME TypeOK, LoopInv, Tick, NEW v \in Workers, Local(v)
  PROVE  Local(v)'
<1>1. Timers(v)'
  BY TickFrame, LocalTypes
     DEF Local, Timers, Waits, Alive, SameWorker, SameWriter, ReportInterval, WriteInterval
<1>2. StagesInv(v)'
  BY TickFrame DEF Local, StagesInv, SameWorker, SameWriter
<1>3. Alive(v) => Backlog(v) < Limit(v)
  BY TickFrame, LocalTypes
     DEF Local, BacklogInv, Alive, Backlog, Arriving, Takes, One, Limit, WriteInterval
<1>4. BacklogInv(v)'
  BY <1>3, TickFrame, LocalTypes
     DEF Local, BacklogInv, Alive, Backlog, Arriving, Takes, One, Limit, SameWorker, SameWriter
<1>5. QED
  BY <1>1, <1>2, <1>4 DEF Local

\* A step keeps MainTimer.
LEMMA MainTimerStep == TypeOK /\ MainTimer /\ [Next]_vars => MainTimer'
<1> SUFFICES ASSUME TypeOK, MainTimer, [Next]_vars
             PROVE  MainTimer'
  OBVIOUS
<1>1. now \in Nat /\ timer \in Nat
  BY DEF TypeOK
<1>2. ASSUME NEW w \in Workers, StartWorker(w)
      PROVE  MainTimer'
  <2>1. now' = now /\ timer' \in {now + Runtime, now + MaxConnect} /\ main' # "linger"
    BY <1>2 DEF StartWorker
  <2>2. QED
    BY <1>1, <2>1, Periods DEF MainTimer
<1>3. ASSUME NEW w \in Workers, WorkerStep(w) \/ WriterStep(w)
      PROVE  MainTimer'
  BY <1>3, WorkerFrame, WriterFrame DEF SameTime, MainTimer
<1>4. CASE StartFails \/ RuntimeOver \/ ToleranceOver \/ Exit
  BY <1>1, <1>4
     DEF MainTimer, StartFails, RuntimeOver, ToleranceOver, Exit, Linger, Tolerance
<1>5. CASE Tick
  BY <1>1, <1>5 DEF MainTimer, Tick, Passes, Linger
<1>6. CASE UNCHANGED vars
  BY <1>6 DEF vars, MainTimer
<1>7. QED
  BY <1>2, <1>3, <1>4, <1>5, <1>6, Steps

\* Every step keeps StreamInv.
LEMMA StreamStep == TypeOK /\ LoopInv /\ StreamInv /\ [Next]_vars => StreamInv'
<1> SUFFICES ASSUME TypeOK, LoopInv, StreamInv, [Next]_vars
             PROVE  StreamInv'
  OBVIOUS
<1>1. MainTimer'
  BY MainTimerStep DEF StreamInv
<1>2. ASSUME NEW v \in Workers
      PROVE  Local(v)'
  <2>1. MainTimer /\ Local(v)
    BY DEF StreamInv, Local
  <2>2. Next => main \notin {"fatal", "exited"}
    BY DEF Next
  <2>3. ASSUME Next, NEW w \in Workers, WorkerStep(w)
        PROVE  Local(v)'
    <3>1. CASE v = w
      BY <2>1, <2>2, <2>3, <3>1, SetupLocal, ReportLocal, StopLoadLocal, LoadEndsLocal,
         StandsStillLocal, FinalLocal, ReturnLocal DEF WorkerStep
    <3>2. CASE v # w
      BY <2>1, <2>3, <3>2, WorkerFrame, LocalSame
    <3>3. QED
      BY <3>1, <3>2
  <2>4. ASSUME Next, NEW w \in Workers, WriterStep(w)
        PROVE  Local(v)'
    <3>1. CASE v = w
      BY <2>1, <2>2, <2>4, <3>1, TickerLocal, TakeTickLocal, TakeFinishedLocal, RecvLocal,
         RecvEndLocal DEF WriterStep
    <3>2. CASE v # w
      BY <2>1, <2>4, <3>2, WriterFrame, LocalSame
    <3>3. QED
      BY <3>1, <3>2
  <2>5. CASE UNCHANGED vars
    BY <2>1, <2>5, LocalSame DEF vars, worker, writing, SameWorker, SameWriter, SameTime
  <2>6. QED
    BY <2>1, <2>3, <2>4, <2>5, Steps, StartLocal, MainLocal, TickLocal
<1>3. QED
  BY <1>1, <1>2 DEF StreamInv, Local

\* The timers, streams and tickers fit together as StreamInv says.
THEOREM StreamInvariance == Spec => [](TypeOK /\ LoopInv /\ StreamInv)
<1>1. Init => StreamInv
  <2> SUFFICES ASSUME Init
               PROVE  StreamInv
    OBVIOUS
  <2>1. MainTimer
    BY Periods DEF Init, MainTimer
  <2>2. ASSUME NEW v \in Workers
        PROVE  Timers(v) /\ StagesInv(v) /\ BacklogInv(v)
    <3>1. /\ stage[v] = "idle" /\ writer[v] = "none" /\ tick[v] = FALSE
          /\ finished[v] = FALSE /\ reportLoop[v] = FALSE
      BY DEF Init
    <3>2. sent[v] = 0 /\ received[v] = 0 /\ final[v] = 0 /\ lost[v] = 0 /\ stuck[v] = FALSE
      BY DEF Init
    <3>3. ~ Alive(v)
      BY <3>1 DEF Alive
    <3>4. Backlog(v) = 0 /\ Limit(v) = 1
      BY <3>2 DEF Backlog, Arriving, Limit
    <3>5. Timers(v)
      BY <3>1, <3>3 DEF Timers, Waits
    <3>6. StagesInv(v)
      BY <3>1, <3>2 DEF StagesInv
    <3>7. BacklogInv(v)
      BY <3>1, <3>3, <3>4 DEF BacklogInv
    <3>8. QED
      BY <3>5, <3>6, <3>7
  <2>3. QED
    BY <2>1, <2>2 DEF StreamInv
<1>2. QED
  BY <1>1, StreamStep, LoopInvariance, PTL DEF Spec

\* A stream never holds more than two packages that are not written yet, however long
\* connecting and set-ups take, although a writer takes one package per tick and
\* ticks are lost.
THEOREM StreamsStayShort == Spec => []BacklogBounded
<1>1. TypeOK /\ StreamInv => BacklogBounded
  BY LocalTypes DEF StreamInv, BacklogInv, Backlog, Arriving, Limit, BacklogBounded
<1>2. QED
  BY <1>1, StreamInvariance, PTL

-----------------------------------------------------------------------------
(***************************************************************************)
(* Whether everything is written in the end.                               *)
(***************************************************************************)
\* When the runtime of the benchmark is over; it is known once all workers are started.
Known == main \notin {"start", "fatal"}

End ==
  CASE main = "runtime" -> timer
    [] main = "tolerance" -> timer - Tolerance
    [] OTHER -> timer - Tolerance - Linger

\* The latest ends of the stages of a run that was set up s seconds after the
\* last one was started.
DueBy(w, s) ==
  /\ stage[w] = "load" => due[w] <= End + s
  /\ stage[w] = "await" => due[w] <= End + s + WorkerTolerance
  /\ stage[w] = "settle" => due[w] <= End + s + WorkerTolerance + SettleTime

DueInv(w) ==
  /\ stage[w] = "setup" => due[w] <= now + MaxSetup
  /\ stage[w] = "load" => due[w] <= now + Runtime
  /\ stage[w] = "await" => due[w] <= now + WorkerTolerance
  /\ stage[w] = "settle" => due[w] <= now + SettleTime
  /\ Known => stage[w] # "idle" /\ DueBy(w, MaxSetup)
  /\ Known /\ stage[w] = "setup" => due[w] + Runtime <= End + MaxSetup

\* The writer's first tick comes five seconds after its start.
FirstTick(w) ==
  stage[w] = "setup" =>
    writer[w] = "recv" \/ tick[w] = TRUE \/ tickAt[w] = due[w] - MaxSetup + WriteInterval

\* A writer that had its first tick before the set-up was done stays ahead of the
\* reports, by one.
Surplus(w) ==
  /\ Backlog(w) + 1 <= Takes(w, now)
  /\ reportLoop[w] => Backlog(w) + 2 <= Takes(w, reportAt[w])

AheadInv(w) ==
  Known /\ Waits(w) /\ stage[w] # "setup" => DueBy(w, 4) \/ Surplus(w)

\* The packages still to be written for AllPackagesWritten, once no more of them come.
Unread(w) ==
  (IF final[w] = 0 \/ final[w] > Arriving(w) THEN Arriving(w) ELSE final[w]) - received[w]

\* No more of them come.
Over(w) == stage[w] \in {"drain", "returned", "dead"} \/ stuck[w] = TRUE

\* They are written before time goes on, or within the next five seconds, which for
\* a run that was set up early are left.
Prompt(w) ==
  /\ Unread(w) <= Takes(w, now)
  /\ writer[w] = "select" /\ tick[w] = TRUE => tickAt[w] = now + WriteInterval \/ Unread(w) = 1

Soon(w) ==
  /\ now <= End + 22
  /\ Unread(w) = 2 => now <= End + 17
  /\ writer[w] # "recv" /\ tick[w] = FALSE => tickAt[w] <= End + 22

UnreadInv(w) ==
  Known /\ Over(w) /\ Unread(w) >= 1 => now < End + Tolerance /\ (Prompt(w) \/ Soon(w))

\* The coordinator finds nothing left to do.
DoneInv(w) ==
  main \in {"linger", "exited"} => stage[w] # "idle" /\ ~ Waits(w) /\ Unread(w) <= 0

Timely(w) == DueInv(w) /\ FirstTick(w) /\ AheadInv(w) /\ UnreadInv(w) /\ DoneInv(w)

TimelyInv == \A w \in Workers : Timely(w)

\* What holds before a step, for the worker it is about.
Before(w) == TypeOK /\ LoopInv /\ MainTimer /\ Local(w) /\ Timely(w)

\* End is a time, and does not change while StartBenchmark waits.
LEMMA EndTime ==
  /\ TypeOK => End \in Int
  /\ SameTime => End' = End /\ (Known' <=> Known)
<1>1. TypeOK => End \in Int
  BY DEF TypeOK, End, Tolerance, Linger
<1>2. SameTime => End' = End /\ (Known' <=> Known)
  BY DEF SameTime, End, Known
<1>3. QED
  BY <1>1, <1>2

\* The packages a writer has not taken are no more than those in the stream.
LEMMA UnreadBound ==
  ASSUME NEW w \in Workers, Before(w)
  PROVE  /\ Unread(w) \in Int /\ Unread(w) <= Backlog(w) /\ Backlog(w) <= Limit(w)
         /\ Limit(w) \in {1, 2} /\ Backlog(w) \in Int
BY LocalTypes DEF Before, Local, StagesInv, BacklogInv, Unread, Backlog, Arriving, Limit

\* As long as a handler waits for a timer its writer is there.
LEMMA WriterWaits ==
  ASSUME NEW w \in Workers, Before(w), Waits(w)
  PROVE  Alive(w) /\ final[w] = 0 /\ main \notin {"linger", "exited"}
BY LocalTypes DEF Before, Local, Timely, StagesInv, DoneInv, Waits, Alive, Over

\* What is said of one worker's timing holds after a step that changes neither it nor time.
LEMMA TimelySame ==
  ASSUME NEW v \in Workers, Timely(v), SameWorker(v), SameWriter(v), SameTime
  PROVE  Timely(v)'
BY EndTime
   DEF Timely, DueInv, DueBy, FirstTick, AheadInv, Surplus, Backlog, Arriving, Takes, UnreadInv,
       Unread,
       Over, Prompt, Soon, DoneInv, Waits, SameWorker, SameWriter, SameTime

\* A set-up that took five seconds has its first tick behind it.
LEMMA SetupTimely ==
  ASSUME MaxSetup <= 16, NEW w \in Workers, Before(w), main \notin {"fatal", "exited"}, SetupDone(w)
  PROVE  Timely(w)'
<1>1. SameTime /\ SameWriter(w)
  BY WorkerFrame DEF WorkerStep, Before
<1>2. /\ stage[w] = "setup" /\ stage'[w] = "load" /\ due'[w] = now + Runtime
      /\ reportLoop'[w] = TRUE /\ reportAt'[w] = now + ReportInterval
      /\ sent'[w] = sent[w] /\ final'[w] = final[w]
      /\ stuck'[w] = stuck[w] /\ lost'[w] = lost[w]
  BY DEF SetupDone, Before, TypeOK
<1>3. reportLoop[w] => stage[w] \in {"load", "await", "settle", "drain"}
  BY DEF Before, LoopInv, Protocol!Open
<1>4. /\ End' = End /\ (Known' <=> Known) /\ End \in Int
      /\ now \in Nat /\ Runtime \in Nat /\ MaxSetup \in Nat
      /\ stage[w] = "setup" => Runtime # 0
  BY <1>1, EndTime, CoordinatorAssumption DEF Before, TypeOK
<1>5. DueInv(w)' /\ FirstTick(w)'
  BY <1>1, <1>2, <1>4, LocalTypes, WriterWaits
     DEF Before, Local, Timely, Timers, Waits, StagesInv, DueInv, DueBy, FirstTick, SameTime,
         SameWriter,
         WorkerTolerance, SettleTime, WriteInterval
<1>6. AheadInv(w)'
  <2>1. ASSUME Known, ~ (now + Runtime <= End + 4)
        PROVE  Surplus(w)'
    <3>1. now >= due[w] - MaxSetup + 5
      BY <1>2, <1>4, <2>1, LocalTypes DEF Before, Timely, DueInv
    <3>2. Alive(w) /\ now <= tickAt[w] /\ tickAt[w] <= now + 5
      BY <1>2, WriterWaits DEF Before, Local, Timers, Waits, WriteInterval
    <3>3. writer[w] = "recv" \/ tick[w] = TRUE \/ tickAt[w] = now
      <4>1. due[w] \in Nat /\ tickAt[w] \in Nat
        BY DEF Before, TypeOK
      <4>2. writer[w] = "recv" \/ tick[w] = TRUE \/ tickAt[w] = due[w] - MaxSetup + 5
        BY <1>2 DEF Before, Timely, FirstTick, WriteInterval
      <4>3. QED
        BY <1>4, <3>1, <3>2, <4>1, <4>2
    <3>4. Takes(w, now) >= 1 /\ Takes(w, now + 5) >= 2
      BY <1>4, <3>2, <3>3, LocalTypes DEF Takes, One, WriteInterval
    <3>5. /\ Takes(w, now)' = Takes(w, now)
          /\ Takes(w, reportAt[w])' = Takes(w, now + 5)
      BY <1>1, <1>2 DEF Takes, SameTime, SameWriter, ReportInterval
    <3>6. Backlog(w)' = 0
      BY <1>1, <1>2 DEF Before, Local, StagesInv, Backlog, Arriving, SameWriter
    <3>7. QED
      BY <3>4, <3>5, <3>6 DEF Surplus
  <2>2. now + Runtime <= End + 4 => DueBy(w, 4)'
    BY <1>2, <1>4 DEF DueBy
  <2>3. QED
    BY <1>2, <1>4, <2>1, <2>2 DEF AheadInv
<1>7. UnreadInv(w)'
  BY <1>1, <1>2, <1>3, <1>4, LocalTypes, WriterWaits, UnreadBound
     DEF Before, Local, Timely, Timers, Waits, StagesInv, BacklogInv, DueInv, DueBy, AheadInv,
         Surplus,
         UnreadInv, DoneInv, Waits, Unread, Over, Prompt, Soon, Alive, Backlog, Arriving, Takes,
         One, Limit,
         SameTime, SameWriter, WorkerTolerance, SettleTime, WriteInterval, Tolerance
<1>8. DoneInv(w)'
  BY <1>1, <1>2, <1>3, LocalTypes, WriterWaits
     DEF Before, Local, Timely, StagesInv, DoneInv, Waits, Unread, Arriving, Over, SameTime,
         SameWriter
<1>9. QED
  BY <1>5, <1>6, <1>7, <1>8 DEF Timely

\* A report takes up one of the two ticks between it and the one before.
LEMMA ReportTimely ==
  ASSUME MaxSetup <= 16, NEW w \in Workers, Before(w), main \notin {"fatal", "exited"}, Report(w)
  PROVE  Timely(w)'
<1>1. SameTime /\ SameWriter(w)
  BY WorkerFrame DEF WorkerStep, Before
<1>2. /\ reportLoop[w] /\ now = reportAt[w]
      /\ sent'[w] = sent[w] + 1 /\ reportAt'[w] = now + ReportInterval
      /\ stage'[w] = stage[w] /\ due'[w] = due[w] /\ reportLoop'[w] = reportLoop[w]
      /\ final'[w] = final[w] /\ stuck'[w] = stuck[w] /\ lost'[w] = lost[w]
  BY DEF Report, Before, TypeOK
<1>3. reportLoop[w] => stage[w] \in {"load", "await", "settle", "drain"}
  BY DEF Before, LoopInv, Protocol!Open
<1>4. /\ End' = End /\ (Known' <=> Known) /\ End \in Int
      /\ now \in Nat /\ Runtime \in Nat /\ MaxSetup \in Nat
      /\ stage[w] = "setup" => Runtime # 0
  BY <1>1, EndTime, CoordinatorAssumption DEF Before, TypeOK
<1>5. DueInv(w)' /\ FirstTick(w)'
  BY <1>1, <1>2, <1>4, LocalTypes, WriterWaits
     DEF Before, Local, Timely, Timers, Waits, StagesInv, DueInv, DueBy, FirstTick, SameTime,
         SameWriter,
         WorkerTolerance, SettleTime, WriteInterval
<1>6. AheadInv(w)'
  <2>1. ASSUME Surplus(w), Waits(w)
        PROVE  Surplus(w)'
    <3>1. Alive(w) /\ now <= tickAt[w] /\ tickAt[w] <= now + 5
      BY <2>1, WriterWaits DEF Before, Local, Timers, WriteInterval
    <3>2. Takes(w, now + 5) = Takes(w, now) + 1
      BY <1>4, <3>1, LocalTypes DEF Before, Takes, One, WriteInterval
    <3>3. Backlog(w) + 2 <= Takes(w, now)
      BY <1>2, <2>1 DEF Surplus
    <3>4. /\ Takes(w, now)' = Takes(w, now)
          /\ Takes(w, reportAt[w])' = Takes(w, now + 5)
      BY <1>1, <1>2 DEF Takes, SameTime, SameWriter, ReportInterval
    <3>5. Backlog(w)' = Backlog(w) + 1 /\ Backlog(w) \in Int /\ Takes(w, now) \in Int
      <4>1. sent[w] \in Nat /\ lost[w] \in Nat /\ received[w] \in Nat
        BY DEF Before, TypeOK
      <4>2. Backlog(w)' = Backlog(w) + 1 /\ Backlog(w) \in Int
        BY <1>1, <1>2, <4>1 DEF Backlog, Arriving, SameWriter
      <4>3. QED
        BY <4>2 DEF Takes, One
    <3>6. QED
      BY <3>2, <3>3, <3>4, <3>5 DEF Surplus
  <2>2. DueBy(w, 4) => DueBy(w, 4)'
    BY <1>2, <1>4 DEF DueBy
  <2>3. QED
    BY <1>2, <1>4, <2>1, <2>2 DEF Before, Timely, AheadInv, Waits
<1>7. UnreadInv(w)'
  BY <1>1, <1>2, <1>3, <1>4, LocalTypes, WriterWaits, UnreadBound
     DEF Before, Local, Timely, Timers, Waits, StagesInv, BacklogInv, DueInv, DueBy, AheadInv,
         Surplus,
         UnreadInv, DoneInv, Waits, Unread, Over, Prompt, Soon, Alive, Backlog, Arriving, Takes,
         One, Limit,
         SameTime, SameWriter, WorkerTolerance, SettleTime, WriteInterval, Tolerance
<1>8. DoneInv(w)'
  BY <1>1, <1>2, <1>3, LocalTypes, WriterWaits
     DEF Before, Local, Timely, StagesInv, DoneInv, Waits, Unread, Arriving, Over, SameTime,
         SameWriter
<1>9. QED
  BY <1>5, <1>6, <1>7, <1>8 DEF Timely

\* The load ends when it is due.
LEMMA StopLoadTimely ==
  ASSUME MaxSetup <= 16, NEW w \in Workers, Before(w), main \notin {"fatal", "exited"}, StopLoad(w)
  PROVE  Timely(w)'
<1>1. SameTime /\ SameWriter(w)
  BY WorkerFrame DEF WorkerStep, Before
<1>2. /\ stage[w] = "load" /\ now = due[w]
      /\ stage'[w] = "await" /\ due'[w] = now + WorkerTolerance
      /\ reportLoop'[w] = reportLoop[w] /\ reportAt'[w] = reportAt[w]
      /\ sent'[w] = sent[w] /\ final'[w] = final[w]
      /\ stuck'[w] = stuck[w] /\ lost'[w] = lost[w]
  BY DEF StopLoad, Before, TypeOK
<1>3. reportLoop[w] => stage[w] \in {"load", "await", "settle", "drain"}
  BY DEF Before, LoopInv, Protocol!Open
<1>4. /\ End' = End /\ (Known' <=> Known) /\ End \in Int
      /\ now \in Nat /\ Runtime \in Nat /\ MaxSetup \in Nat
      /\ stage[w] = "setup" => Runtime # 0
  BY <1>1, EndTime, CoordinatorAssumption DEF Before, TypeOK
<1>5. DueInv(w)' /\ FirstTick(w)'
  BY <1>1, <1>2, <1>4, LocalTypes, WriterWaits
     DEF Before, Local, Timely, Timers, Waits, StagesInv, DueInv, DueBy, FirstTick, SameTime,
         SameWriter,
         WorkerTolerance, SettleTime, WriteInterval
<1>6. AheadInv(w)'
  BY <1>1, <1>2, <1>3, <1>4, LocalTypes, WriterWaits
     DEF Before, Local, Timely, Timers, Waits, StagesInv, BacklogInv, DueInv, DueBy, FirstTick,
         AheadInv,
         Surplus, Alive, Backlog, Arriving, Takes, One, Limit, SameTime, SameWriter,
         WorkerTolerance,
         SettleTime, WriteInterval, ReportInterval
<1>7. UnreadInv(w)'
  BY <1>1, <1>2, <1>3, <1>4, LocalTypes, WriterWaits, UnreadBound
     DEF Before, Local, Timely, Timers, Waits, StagesInv, BacklogInv, DueInv, DueBy, AheadInv,
         Surplus,
         UnreadInv, DoneInv, Waits, Unread, Over, Prompt, Soon, Alive, Backlog, Arriving, Takes,
         One, Limit,
         SameTime, SameWriter, WorkerTolerance, SettleTime, WriteInterval, Tolerance
<1>8. DoneInv(w)'
  BY <1>1, <1>2, <1>3, LocalTypes, WriterWaits
     DEF Before, Local, Timely, StagesInv, DoneInv, Waits, Unread, Arriving, Over, SameTime,
         SameWriter
<1>9. QED
  BY <1>5, <1>6, <1>7, <1>8 DEF Timely

\* The generators are waited for no longer than the tolerance.
LEMMA LoadEndsTimely ==
  ASSUME MaxSetup <= 16, NEW w \in Workers, Before(w), main \notin {"fatal", "exited"}, LoadEnds(w)
  PROVE  Timely(w)'
<1>1. SameTime /\ SameWriter(w)
  BY WorkerFrame DEF WorkerStep, Before
<1>2. /\ stage[w] = "await" /\ stage'[w] = "settle" /\ due'[w] = now + SettleTime
      /\ reportLoop'[w] = FALSE \/ (reportLoop'[w] = reportLoop[w] /\ reportAt'[w] = reportAt[w])
      /\ sent'[w] = sent[w] /\ final'[w] = final[w]
      /\ stuck'[w] = stuck[w] /\ lost'[w] = lost[w]
  BY DEF LoadEnds, StopReportLoop, Before, TypeOK
<1>3. reportLoop[w] => stage[w] \in {"load", "await", "settle", "drain"}
  BY DEF Before, LoopInv, Protocol!Open
<1>4. /\ End' = End /\ (Known' <=> Known) /\ End \in Int
      /\ now \in Nat /\ Runtime \in Nat /\ MaxSetup \in Nat
      /\ stage[w] = "setup" => Runtime # 0
  BY <1>1, EndTime, CoordinatorAssumption DEF Before, TypeOK
<1>5. DueInv(w)' /\ FirstTick(w)'
  BY <1>1, <1>2, <1>4, LocalTypes, WriterWaits
     DEF Before, Local, Timely, Timers, Waits, StagesInv, DueInv, DueBy, FirstTick, SameTime,
         SameWriter,
         WorkerTolerance, SettleTime, WriteInterval
<1>6. AheadInv(w)'
  BY <1>1, <1>2, <1>3, <1>4, LocalTypes, WriterWaits
     DEF Before, Local, Timely, Timers, Waits, StagesInv, BacklogInv, DueInv, DueBy, FirstTick,
         AheadInv,
         Surplus, Alive, Backlog, Arriving, Takes, One, Limit, SameTime, SameWriter,
         WorkerTolerance,
         SettleTime, WriteInterval, ReportInterval
<1>7. UnreadInv(w)'
  BY <1>1, <1>2, <1>3, <1>4, LocalTypes, WriterWaits, UnreadBound
     DEF Before, Local, Timely, Timers, Waits, StagesInv, BacklogInv, DueInv, DueBy, AheadInv,
         Surplus,
         UnreadInv, DoneInv, Waits, Unread, Over, Prompt, Soon, Alive, Backlog, Arriving, Takes,
         One, Limit,
         SameTime, SameWriter, WorkerTolerance, SettleTime, WriteInterval, Tolerance
<1>8. DoneInv(w)'
  BY <1>1, <1>2, <1>3, LocalTypes, WriterWaits
     DEF Before, Local, Timely, StagesInv, DoneInv, Waits, Unread, Arriving, Over, SameTime,
         SameWriter
<1>9. QED
  BY <1>5, <1>6, <1>7, <1>8 DEF Timely

\* A reporter that stands still sends nothing more: its writer is early, or ahead.
LEMMA StandsStillTimely ==
  ASSUME MaxSetup <= 16, NEW w \in Workers, Before(w), main \notin {"fatal", "exited"}, StandsStill(w)
  PROVE  Timely(w)'
<1>1. SameTime /\ SameWriter(w)
  BY WorkerFrame DEF WorkerStep, Before
<1>2. /\ stage[w] \in {"load", "await", "settle", "drain"} /\ stage'[w] = stage[w]
      /\ due'[w] = due[w] /\ reportLoop'[w] = FALSE
      /\ ~ stuck[w] /\ stuck'[w] = TRUE
      /\ sent'[w] = sent[w] /\ final'[w] = final[w] /\ lost'[w] = lost[w]
  BY DEF StandsStill, StopReportLoop, Before, TypeOK
<1>3. reportLoop[w] => stage[w] \in {"load", "await", "settle", "drain"}
  BY DEF Before, LoopInv, Protocol!Open
<1>4. /\ End' = End /\ (Known' <=> Known) /\ End \in Int
      /\ now \in Nat /\ Runtime \in Nat /\ MaxSetup \in Nat
      /\ stage[w] = "setup" => Runtime # 0
  BY <1>1, EndTime, CoordinatorAssumption DEF Before, TypeOK
<1>5. DueInv(w)' /\ FirstTick(w)'
  BY <1>1, <1>2, <1>4, LocalTypes, WriterWaits
     DEF Before, Local, Timely, Timers, Waits, StagesInv, DueInv, DueBy, FirstTick, SameTime,
         SameWriter,
         WorkerTolerance, SettleTime, WriteInterval
<1>6. AheadInv(w)'
  BY <1>1, <1>2, <1>3, <1>4, LocalTypes, WriterWaits
     DEF Before, Local, Timely, Timers, Waits, StagesInv, BacklogInv, DueInv, DueBy, FirstTick,
         AheadInv,
         Surplus, Alive, Backlog, Arriving, Takes, One, Limit, SameTime, SameWriter,
         WorkerTolerance,
         SettleTime, WriteInterval, ReportInterval
<1>7. UnreadInv(w)'
  BY <1>1, <1>2, <1>3, <1>4, LocalTypes, WriterWaits, UnreadBound
     DEF Before, Local, Timely, Timers, Waits, StagesInv, BacklogInv, DueInv, DueBy, AheadInv,
         Surplus,
         UnreadInv, DoneInv, Waits, Unread, Over, Prompt, Soon, Alive, Backlog, Arriving, Takes,
         One, Limit,
         SameTime, SameWriter, WorkerTolerance, SettleTime, WriteInterval, Tolerance
<1>8. DoneInv(w)'
  BY <1>1, <1>2, <1>3, LocalTypes, WriterWaits
     DEF Before, Local, Timely, StagesInv, DoneInv, Waits, Unread, Arriving, Over, SameTime,
         SameWriter
<1>9. QED
  BY <1>5, <1>6, <1>7, <1>8 DEF Timely

\* The final report is early, or meets a writer that is ahead.
LEMMA FinalTimely ==
  ASSUME MaxSetup <= 16, NEW w \in Workers, Before(w), main \notin {"fatal", "exited"}, FinalReport(w)
  PROVE  Timely(w)'
<1>1. SameTime /\ SameWriter(w)
  BY WorkerFrame DEF WorkerStep, Before
<1>2. /\ stage[w] = "settle" /\ now = due[w] /\ stage'[w] = "drain"
      /\ reportLoop'[w] = reportLoop[w] /\ reportAt'[w] = reportAt[w]
      /\ sent'[w] = sent[w] + 1 /\ final'[w] = sent[w] + 1
      /\ ~ stuck[w] /\ stuck'[w] = stuck[w] /\ lost'[w] = lost[w]
  BY DEF FinalReport, Before, TypeOK
<1>3. reportLoop[w] => stage[w] \in {"load", "await", "settle", "drain"}
  BY DEF Before, LoopInv, Protocol!Open
<1>4. /\ End' = End /\ (Known' <=> Known) /\ End \in Int
      /\ now \in Nat /\ Runtime \in Nat /\ MaxSetup \in Nat
      /\ stage[w] = "setup" => Runtime # 0
  BY <1>1, EndTime, CoordinatorAssumption DEF Before, TypeOK
<1>5. DueInv(w)' /\ FirstTick(w)'
  BY <1>1, <1>2, <1>4, LocalTypes, WriterWaits
     DEF Before, Local, Timely, Timers, Waits, StagesInv, DueInv, DueBy, FirstTick, SameTime,
         SameWriter,
         WorkerTolerance, SettleTime, WriteInterval
<1>6. AheadInv(w)'
  BY <1>1, <1>2, <1>3, <1>4, LocalTypes, WriterWaits
     DEF Before, Local, Timely, Timers, Waits, StagesInv, BacklogInv, DueInv, DueBy, FirstTick,
         AheadInv,
         Surplus, Alive, Backlog, Arriving, Takes, One, Limit, SameTime, SameWriter,
         WorkerTolerance,
         SettleTime, WriteInterval, ReportInterval
<1>7. UnreadInv(w)'
  BY <1>1, <1>2, <1>3, <1>4, LocalTypes, WriterWaits, UnreadBound
     DEF Before, Local, Timely, Timers, Waits, StagesInv, BacklogInv, DueInv, DueBy, AheadInv,
         Surplus,
         UnreadInv, DoneInv, Waits, Unread, Over, Prompt, Soon, Alive, Backlog, Arriving, Takes,
         One, Limit,
         SameTime, SameWriter, WorkerTolerance, SettleTime, WriteInterval, Tolerance
<1>8. DoneInv(w)'
  BY <1>1, <1>2, <1>3, LocalTypes, WriterWaits
     DEF Before, Local, Timely, StagesInv, DoneInv, Waits, Unread, Arriving, Over, SameTime,
         SameWriter
<1>9. QED
  BY <1>5, <1>6, <1>7, <1>8 DEF Timely

\* A worker that returns or dies leaves what it has sent.
LEMMA ReturnTimely ==
  ASSUME MaxSetup <= 16, NEW w \in Workers, Before(w), main \notin {"fatal", "exited"}, Return(w) \/ Dies(w)
  PROVE  Timely(w)'
<1>1. SameTime /\ SameWriter(w)
  BY WorkerFrame DEF WorkerStep, Before
<1>2. /\ \/ stage[w] = "drain" /\ stage'[w] = "returned"
         \/ stage'[w] = "dead" /\ stage[w] \in {"setup", "load", "await", "settle", "drain"}
      /\ reportLoop'[w] = FALSE /\ sent'[w] = sent[w] /\ final'[w] = final[w]
      /\ stuck'[w] = stuck[w]
      /\ lost'[w] = lost[w] \/ (stage'[w] = "dead" /\ lost'[w] \in 0 .. sent[w] - received[w])
  BY DEF Return, Dies, StopReportLoop, Before, TypeOK
<1>3. reportLoop[w] => stage[w] \in {"load", "await", "settle", "drain"}
  BY DEF Before, LoopInv, Protocol!Open
<1>4. /\ End' = End /\ (Known' <=> Known) /\ End \in Int
      /\ now \in Nat /\ Runtime \in Nat /\ MaxSetup \in Nat
      /\ stage[w] = "setup" => Runtime # 0
  BY <1>1, EndTime, CoordinatorAssumption DEF Before, TypeOK
<1>5. DueInv(w)' /\ FirstTick(w)'
  BY <1>1, <1>2, <1>4, LocalTypes, WriterWaits
     DEF Before, Local, Timely, Timers, Waits, StagesInv, DueInv, DueBy, FirstTick, SameTime,
         SameWriter,
         WorkerTolerance, SettleTime, WriteInterval
<1>6. AheadInv(w)'
  BY <1>1, <1>2, <1>3, <1>4, LocalTypes, WriterWaits
     DEF Before, Local, Timely, Timers, Waits, StagesInv, BacklogInv, DueInv, DueBy, FirstTick,
         AheadInv,
         Surplus, Alive, Backlog, Arriving, Takes, One, Limit, SameTime, SameWriter,
         WorkerTolerance,
         SettleTime, WriteInterval, ReportInterval
<1>7. UnreadInv(w)'
  BY <1>1, <1>2, <1>3, <1>4, LocalTypes, WriterWaits, UnreadBound
     DEF Before, Local, Timely, Timers, Waits, StagesInv, BacklogInv, DueInv, DueBy, AheadInv,
         Surplus,
         UnreadInv, DoneInv, Waits, Unread, Over, Prompt, Soon, Alive, Backlog, Arriving, Takes,
         One, Limit,
         SameTime, SameWriter, WorkerTolerance, SettleTime, WriteInterval, Tolerance
<1>8. DoneInv(w)'
  <2>1. stage'[w] # "idle" /\ ~ Waits(w)'
    BY <1>2 DEF Waits
  <2>2. lost[w] = 0 /\ lost'[w] \in Nat
    BY <1>2, LocalTypes DEF Before, Local, StagesInv
  <2>3. sent[w] \in Nat /\ final[w] \in Nat /\ received[w] \in Nat
    BY DEF Before, TypeOK
  <2>4. Unread(w) <= 0 => Unread(w)' <= 0
    BY <1>1, <1>2, <2>2, <2>3 DEF Unread, Arriving, SameWriter
  <2>5. QED
    BY <1>1, <2>1, <2>4 DEF Before, Timely, DoneInv, SameTime
<1>9. QED
  BY <1>5, <1>6, <1>7, <1>8 DEF Timely

\* A tick that is lost leaves another one in the channel.
LEMMA TickerTimely ==
  ASSUME MaxSetup <= 16, NEW w \in Workers, Before(w), main \notin {"fatal", "exited"}, TickerFires(w)
  PROVE  Timely(w)'
<1>1. SameTime /\ SameWorker(w)
  BY WriterFrame DEF WriterStep, Before
<1>2. /\ Alive(w) /\ now = tickAt[w] /\ tick'[w] = TRUE /\ tickAt'[w] = now + WriteInterval
      /\ writer'[w] = writer[w] /\ received'[w] = received[w]
  BY DEF TickerFires, Alive, Before, TypeOK
<1>3. reportLoop[w] => stage[w] \in {"load", "await", "settle", "drain"}
  BY DEF Before, LoopInv, Protocol!Open
<1>4. /\ End' = End /\ (Known' <=> Known) /\ End \in Int
      /\ now \in Nat /\ Runtime \in Nat /\ MaxSetup \in Nat
      /\ stage[w] = "setup" => Runtime # 0
  BY <1>1, EndTime, CoordinatorAssumption DEF Before, TypeOK
<1>5. DueInv(w)' /\ FirstTick(w)'
  BY <1>1, <1>2, <1>4, LocalTypes, WriterWaits
     DEF Before, Local, Timely, Timers, Waits, StagesInv, DueInv, DueBy, FirstTick, SameTime,
         SameWorker,
         WorkerTolerance, SettleTime, WriteInterval
<1>6. AheadInv(w)'
  <2>1. Waits(w)' = Waits(w) /\ stage'[w] = stage[w] /\ (DueBy(w, 4) => DueBy(w, 4)')
    BY <1>1, <1>4 DEF Waits, DueBy, SameWorker
  <2>2. ASSUME Waits(w), Surplus(w)
        PROVE  Surplus(w)'
    <3>1. Backlog(w)' = Backlog(w) /\ reportLoop'[w] = reportLoop[w] /\ reportAt'[w] = reportAt[w]
      BY <1>1, <1>2 DEF Backlog, Arriving, SameWorker
    <3>2. Limit(w) = 1 /\ final[w] = 0 /\ Backlog(w) \in Int
      BY <2>2, WriterWaits, UnreadBound DEF Limit
    <3>3. QED
      BY <1>1, <1>2, <1>4, <2>2, <3>1, <3>2, LocalTypes
         DEF Before, Local, Timers, BacklogInv, Alive, Surplus, Takes, One, SameTime,
             WriteInterval, ReportInterval
  <2>3. QED
    BY <1>4, <2>1, <2>2 DEF Before, Timely, AheadInv
<1>7. UnreadInv(w)'
  <2>1. Unread(w)' = Unread(w) /\ (Over(w)' <=> Over(w)) /\ (Prompt(w) \/ Soon(w) => Unread(w) \in Int)
    BY <1>1, <1>2, UnreadBound DEF Unread, Arriving, Over, SameWorker
  <2>2. ASSUME Unread(w) >= 1, Prompt(w)
        PROVE  Prompt(w)'
    BY <1>1, <1>2, <1>4, <2>1, <2>2, LocalTypes, UnreadBound
       DEF Before, Prompt, Takes, One, Alive, SameTime, WriteInterval
  <2>3. ASSUME Unread(w) >= 1, Soon(w)
        PROVE  Soon(w)'
    BY <1>1, <1>2, <1>4, <2>1, <2>3 DEF Soon, SameTime
  <2>4. QED
    BY <1>1, <1>4, <2>1, <2>2, <2>3 DEF Before, Timely, UnreadInv, SameTime
<1>8. DoneInv(w)'
  BY <1>1, <1>2, <1>3, LocalTypes, WriterWaits
     DEF Before, Local, Timely, StagesInv, DoneInv, Waits, Unread, Arriving, Over, SameTime,
         SameWorker
<1>9. QED
  BY <1>5, <1>6, <1>7, <1>8 DEF Timely

\* A tick that is taken lets the writer take a package.
LEMMA TakeTickTimely ==
  ASSUME MaxSetup <= 16, NEW w \in Workers, Before(w), main \notin {"fatal", "exited"}, TakeTick(w)
  PROVE  Timely(w)'
<1>1. SameTime /\ SameWorker(w)
  BY WriterFrame DEF WriterStep, Before
<1>2. /\ writer[w] = "select" /\ tick[w] = TRUE /\ tick'[w] = FALSE /\ writer'[w] = "recv"
      /\ tickAt'[w] = tickAt[w] /\ received'[w] = received[w]
  BY DEF TakeTick, Before, TypeOK
<1>3. reportLoop[w] => stage[w] \in {"load", "await", "settle", "drain"}
  BY DEF Before, LoopInv, Protocol!Open
<1>4. /\ End' = End /\ (Known' <=> Known) /\ End \in Int
      /\ now \in Nat /\ Runtime \in Nat /\ MaxSetup \in Nat
      /\ stage[w] = "setup" => Runtime # 0
  BY <1>1, EndTime, CoordinatorAssumption DEF Before, TypeOK
<1>5. DueInv(w)' /\ FirstTick(w)'
  BY <1>1, <1>2, <1>4, LocalTypes, WriterWaits
     DEF Before, Local, Timely, Timers, Waits, StagesInv, DueInv, DueBy, FirstTick, SameTime,
         SameWorker,
         WorkerTolerance, SettleTime, WriteInterval
<1>6. AheadInv(w)'
  BY <1>1, <1>2, <1>3, <1>4, LocalTypes, WriterWaits
     DEF Before, Local, Timely, Timers, Waits, StagesInv, BacklogInv, DueInv, DueBy, FirstTick,
         AheadInv,
         Surplus, Alive, Backlog, Arriving, Takes, One, Limit, SameTime, SameWorker,
         WorkerTolerance,
         SettleTime, WriteInterval, ReportInterval
<1>7. UnreadInv(w)'
  BY <1>1, <1>2, <1>3, <1>4, LocalTypes, WriterWaits, UnreadBound
     DEF Before, Local, Timely, Timers, Waits, StagesInv, BacklogInv, DueInv, DueBy, AheadInv,
         Surplus,
         UnreadInv, DoneInv, Waits, Unread, Over, Prompt, Soon, Alive, Backlog, Arriving, Takes,
         One, Limit,
         SameTime, SameWorker, WorkerTolerance, SettleTime, WriteInterval, Tolerance
<1>8. DoneInv(w)'
  BY <1>1, <1>2, <1>3, LocalTypes, WriterWaits
     DEF Before, Local, Timely, StagesInv, DoneInv, Waits, Unread, Arriving, Over, SameTime,
         SameWorker
<1>9. QED
  BY <1>5, <1>6, <1>7, <1>8 DEF Timely

\* A writer that is told to finish has nothing left to do.
LEMMA TakeFinishedTimely ==
  ASSUME MaxSetup <= 16, NEW w \in Workers, Before(w), main \notin {"fatal", "exited"}, TakeFinished(w)
  PROVE  Timely(w)'
<1>1. SameTime /\ SameWorker(w)
  BY WriterFrame DEF WriterStep, Before
<1>2. /\ writer[w] = "select" /\ finished[w] = TRUE
      /\ writer'[w] = "returned" /\ received'[w] = received[w]
  BY DEF TakeFinished, WriterReturns, Before, TypeOK
<1>3. reportLoop[w] => stage[w] \in {"load", "await", "settle", "drain"}
  BY DEF Before, LoopInv, Protocol!Open
<1>4. /\ End' = End /\ (Known' <=> Known) /\ End \in Int
      /\ now \in Nat /\ Runtime \in Nat /\ MaxSetup \in Nat
      /\ stage[w] = "setup" => Runtime # 0
  BY <1>1, EndTime, CoordinatorAssumption DEF Before, TypeOK
<1>5. DueInv(w)' /\ FirstTick(w)'
  BY <1>1, <1>2, <1>4, LocalTypes, WriterWaits
     DEF Before, Local, Timely, Timers, Waits, StagesInv, DueInv, DueBy, FirstTick, SameTime,
         SameWorker,
         WorkerTolerance, SettleTime, WriteInterval
<1>6. AheadInv(w)'
  BY <1>1, <1>2, <1>3, <1>4, LocalTypes, WriterWaits
     DEF Before, Local, Timely, Timers, Waits, StagesInv, BacklogInv, DueInv, DueBy, FirstTick,
         AheadInv,
         Surplus, Alive, Backlog, Arriving, Takes, One, Limit, SameTime, SameWorker,
         WorkerTolerance,
         SettleTime, WriteInterval, ReportInterval
<1>7. UnreadInv(w)'
  BY <1>1, <1>2, <1>3, <1>4, LocalTypes, WriterWaits, UnreadBound
     DEF Before, Local, Timely, Timers, Waits, StagesInv, BacklogInv, DueInv, DueBy, AheadInv,
         Surplus,
         UnreadInv, DoneInv, Waits, Unread, Over, Prompt, Soon, Alive, Backlog, Arriving, Takes,
         One, Limit,
         SameTime, SameWorker, WorkerTolerance, SettleTime, WriteInterval, Tolerance
<1>8. DoneInv(w)'
  BY <1>1, <1>2, <1>3, LocalTypes, WriterWaits
     DEF Before, Local, Timely, StagesInv, DoneInv, Waits, Unread, Arriving, Over, SameTime,
         SameWorker
<1>9. QED
  BY <1>5, <1>6, <1>7, <1>8 DEF Timely

\* A package is written.
LEMMA RecvTimely ==
  ASSUME MaxSetup <= 16, NEW w \in Workers, Before(w), main \notin {"fatal", "exited"}, RecvPackage(w)
  PROVE  Timely(w)'
<1>1. SameTime /\ SameWorker(w)
  BY WriterFrame DEF WriterStep, Before
<1>2. /\ writer[w] = "recv" /\ writer'[w] = "select" /\ received[w] < Arriving(w)
      /\ received'[w] = received[w] + 1
      /\ tickAt'[w] = tickAt[w] /\ tick'[w] = tick[w]
  BY DEF RecvPackage, Available, Before, TypeOK
<1>3. reportLoop[w] => stage[w] \in {"load", "await", "settle", "drain"}
  BY DEF Before, LoopInv, Protocol!Open
<1>4. /\ End' = End /\ (Known' <=> Known) /\ End \in Int
      /\ now \in Nat /\ Runtime \in Nat /\ MaxSetup \in Nat
      /\ stage[w] = "setup" => Runtime # 0
  BY <1>1, EndTime, CoordinatorAssumption DEF Before, TypeOK
<1>5. DueInv(w)' /\ FirstTick(w)'
  BY <1>1, <1>2, <1>4, LocalTypes, WriterWaits
     DEF Before, Local, Timely, Timers, Waits, StagesInv, DueInv, DueBy, FirstTick, SameTime,
         SameWorker,
         WorkerTolerance, SettleTime, WriteInterval
<1>6. AheadInv(w)'
  BY <1>1, <1>2, <1>3, <1>4, LocalTypes, WriterWaits
     DEF Before, Local, Timely, Timers, Waits, StagesInv, BacklogInv, DueInv, DueBy, FirstTick,
         AheadInv,
         Surplus, Alive, Backlog, Arriving, Takes, One, Limit, SameTime, SameWorker,
         WorkerTolerance,
         SettleTime, WriteInterval, ReportInterval
<1>7. UnreadInv(w)'
  <2>1. Unread(w)' = Unread(w) - 1 /\ (Over(w)' <=> Over(w))
    BY <1>1, <1>2, LocalTypes DEF Before, Unread, Arriving, Over, SameWorker
  <2>2. SUFFICES ASSUME Known, Over(w), Unread(w) >= 2
                 PROVE  now < End + Tolerance /\ (Prompt(w)' \/ Soon(w)')
    BY <1>1, <1>4, <2>1, UnreadBound DEF UnreadInv, SameTime
  <2>3. Unread(w) = 2 /\ Unread(w)' = 1
    BY <2>1, <2>2, UnreadBound
  <2>4. now < End + Tolerance /\ (Prompt(w) \/ Soon(w))
    BY <2>2, <2>3 DEF Before, Timely, UnreadInv
  <2>5. Takes(w, now)' = Takes(w, now) - 1
    BY <1>1, <1>2 DEF Takes, One, SameTime
  <2>6. Prompt(w) => Prompt(w)'
    BY <1>1, <2>3, <2>5 DEF Prompt, Takes, One, SameTime
  <2>7. Alive(w) /\ tickAt[w] <= now + 5
    BY <1>2 DEF Before, Local, Timers, Alive, WriteInterval
  <2>8. Soon(w) => Soon(w)'
    BY <1>1, <1>2, <1>4, <2>3, <2>7, LocalTypes DEF Before, Soon, SameTime
  <2>9. QED
    BY <2>4, <2>6, <2>8
<1>8. DoneInv(w)'
  BY <1>1, <1>2, <1>3, LocalTypes, WriterWaits
     DEF Before, Local, Timely, StagesInv, DoneInv, Waits, Unread, Arriving, Over, SameTime,
         SameWorker
<1>9. QED
  BY <1>5, <1>6, <1>7, <1>8 DEF Timely

\* The stream ends when all packages are written.
LEMMA RecvEndTimely ==
  ASSUME MaxSetup <= 16, NEW w \in Workers, Before(w), main \notin {"fatal", "exited"}, RecvEnd(w)
  PROVE  Timely(w)'
<1>1. SameTime /\ SameWorker(w)
  BY WriterFrame DEF WriterStep, Before
<1>2. /\ writer[w] = "recv" /\ received[w] = Arriving(w)
      /\ stage[w] \in {"returned", "dead"} /\ received'[w] = received[w]
  BY DEF RecvEnd, Before, TypeOK
<1>3. reportLoop[w] => stage[w] \in {"load", "await", "settle", "drain"}
  BY DEF Before, LoopInv, Protocol!Open
<1>4. /\ End' = End /\ (Known' <=> Known) /\ End \in Int
      /\ now \in Nat /\ Runtime \in Nat /\ MaxSetup \in Nat
      /\ stage[w] = "setup" => Runtime # 0
  BY <1>1, EndTime, CoordinatorAssumption DEF Before, TypeOK
<1>5. DueInv(w)' /\ FirstTick(w)'
  BY <1>1, <1>2, <1>4, LocalTypes, WriterWaits
     DEF Before, Local, Timely, Timers, Waits, StagesInv, DueInv, DueBy, FirstTick, SameTime,
         SameWorker,
         WorkerTolerance, SettleTime, WriteInterval
<1>6. AheadInv(w)'
  BY <1>1, <1>2, <1>3, <1>4, LocalTypes, WriterWaits
     DEF Before, Local, Timely, Timers, Waits, StagesInv, BacklogInv, DueInv, DueBy, FirstTick,
         AheadInv,
         Surplus, Alive, Backlog, Arriving, Takes, One, Limit, SameTime, SameWorker,
         WorkerTolerance,
         SettleTime, WriteInterval, ReportInterval
<1>7. UnreadInv(w)'
  BY <1>1, <1>2, <1>3, <1>4, LocalTypes, WriterWaits, UnreadBound
     DEF Before, Local, Timely, Timers, Waits, StagesInv, BacklogInv, DueInv, DueBy, AheadInv,
         Surplus,
         UnreadInv, DoneInv, Waits, Unread, Over, Prompt, Soon, Alive, Backlog, Arriving, Takes,
         One, Limit,
         SameTime, SameWorker, WorkerTolerance, SettleTime, WriteInterval, Tolerance
<1>8. DoneInv(w)'
  BY <1>1, <1>2, <1>3, LocalTypes, WriterWaits
     DEF Before, Local, Timely, StagesInv, DoneInv, Waits, Unread, Arriving, Over, SameTime,
         SameWorker
<1>9. QED
  BY <1>5, <1>6, <1>7, <1>8 DEF Timely

\* When the last worker is started, every run that is over early has ten seconds and
\* more for its packages.
LEMMA StartTimely ==
  ASSUME NEW w \in Workers, StartWorker(w), NEW v \in Workers, Before(v)
  PROVE  Timely(v)'
<1>1. /\ main = "start" /\ ~ Known /\ now' = now
      /\ received' = received /\ sent' = sent /\ final' = final /\ tick' = tick
      /\ stuck' = stuck /\ lost' = lost
      /\ main' = "start" \/ (main' = "runtime" /\ timer' = now + Runtime)
  BY DEF StartWorker, Known
<1>2. /\ now \in Nat /\ Runtime \in Nat /\ MaxSetup \in Nat
      /\ Known' => main' = "runtime" /\ End' = now + Runtime
  BY <1>1, CoordinatorAssumption DEF Before, TypeOK, Known, End
<1>3. main' = "runtime" => stage'[v] # "idle"
  BY DEF StartWorker, Before, TypeOK
<1>4. CASE v = w
  <2>1. /\ stage'[v] = "setup" /\ due'[v] = now + MaxSetup
        /\ tickAt'[v] = now + WriteInterval
    BY <1>4 DEF StartWorker, Before, TypeOK
  <2>2. DueInv(v)'
    BY <1>1, <1>2, <2>1 DEF DueInv, DueBy
  <2>3. FirstTick(v)'
    BY <1>2, <2>1 DEF FirstTick, WriteInterval
  <2>4. stuck[v] = FALSE
    BY <1>4 DEF StartWorker, Before, Local, StagesInv, TypeOK
  <2>5. AheadInv(v)' /\ UnreadInv(v)' /\ DoneInv(v)'
    BY <1>1, <2>1, <2>4 DEF AheadInv, UnreadInv, Over, DoneInv
  <2>6. QED
    BY <2>2, <2>3, <2>5 DEF Timely
<1>5. CASE v # w
  <2>1. /\ stage'[v] = stage[v] /\ due'[v] = due[v]
        /\ writer'[v] = writer[v] /\ tickAt'[v] = tickAt[v]
    BY <1>5 DEF StartWorker, Before, TypeOK
  <2>2. DueInv(v)'
    BY <1>1, <1>2, <1>3, <2>1, LocalTypes
       DEF Before, Timely, DueInv, DueBy, WorkerTolerance, SettleTime
  <2>3. FirstTick(v)'
    BY <1>1, <2>1 DEF Before, Timely, FirstTick
  <2>4. AheadInv(v)'
    BY <1>1, <1>2, <2>1, LocalTypes
       DEF Before, Timely, DueInv, AheadInv, Waits, DueBy, WorkerTolerance, SettleTime
  <2>5. ASSUME Known', Over(v)', Unread(v)' >= 1
        PROVE  now' < End' + Tolerance /\ Soon(v)'
    <3>1. Unread(v)' = Unread(v)
      BY <1>1 DEF Unread, Arriving
    <3>2. Alive(v)
      BY <1>1, <2>5, <3>1, LocalTypes
         DEF Before, Local, StagesInv, Over, Alive, Unread, Arriving
    <3>3. now <= tickAt[v] /\ tickAt[v] <= now + 5 /\ tickAt[v] \in Nat
      BY <3>2, LocalTypes DEF Before, Local, Timers, Waits, WriteInterval
    <3>4. QED
      BY <1>1, <1>2, <2>1, <2>5, <3>1, <3>3 DEF Soon, Tolerance
  <2>6. UnreadInv(v)'
    BY <2>1, <2>5 DEF UnreadInv
  <2>7. DoneInv(v)'
    BY <1>1 DEF DoneInv, Waits
  <2>8. QED
    BY <2>2, <2>3, <2>4, <2>6, <2>7 DEF Timely
<1>6. QED
  BY <1>4, <1>5

\* When the tolerance is over, all runs are and all their packages are written.
LEMMA MainTimely ==
  ASSUME MaxSetup <= 16, StartFails \/ RuntimeOver \/ ToleranceOver \/ Exit,
         NEW v \in Workers, Before(v)
  PROVE  Timely(v)'
<1>1. /\ now' = now /\ SameWorker(v)
      /\ writer'[v] = writer[v] /\ tickAt'[v] = tickAt[v] /\ tick'[v] = tick[v]
      /\ received'[v] = received[v]
  BY DEF StartFails, RuntimeOver, ToleranceOver, Exit, SameWorker, worker, writing
<1>2. now \in Nat /\ timer \in Nat /\ Runtime \in Nat /\ MaxSetup \in Nat
  BY CoordinatorAssumption DEF Before, TypeOK
<1>3. CASE StartFails
  <2>1. main = "start" /\ main' = "fatal"
    BY <1>3 DEF StartFails
  <2>2. DueInv(v)' /\ FirstTick(v)' /\ AheadInv(v)' /\ UnreadInv(v)' /\ DoneInv(v)'
    BY <1>1, <2>1
       DEF Before, Timely, DueInv, FirstTick, AheadInv, UnreadInv, DoneInv, Waits, Known,
           SameWorker
  <2>3. QED
    BY <2>2 DEF Timely
<1>4. CASE RuntimeOver \/ ToleranceOver \/ Exit
  <2>1. Known /\ Known' /\ End' = End /\ End \in Int
    BY <1>2, <1>4 DEF RuntimeOver, ToleranceOver, Exit, Known, End, Tolerance, Linger
  <2>2. DueInv(v)' /\ FirstTick(v)' /\ AheadInv(v)' /\ UnreadInv(v)'
    BY <1>1, <2>1
       DEF Before, Timely, DueInv, DueBy, FirstTick, AheadInv, Waits, Surplus, UnreadInv, Prompt,
           Soon,
           Backlog, Arriving, Takes, Over, Unread, SameWorker
  <2>3. DoneInv(v)'
    <3>1. CASE RuntimeOver \/ Exit
      BY <1>1, <3>1
         DEF RuntimeOver, Exit, Before, Timely, DoneInv, Waits, Unread, Arriving, SameWorker
    <3>2. CASE ToleranceOver
      <4>1. now = End + 30
        BY <1>2, <3>2 DEF ToleranceOver, End, Tolerance
      <4>2. stage[v] # "idle" /\ ~ Waits(v)
        BY <1>2, <2>1, <4>1, LocalTypes
           DEF Before, Local, Timely, Timers, Waits, DueInv, DueBy, Over, Stages, WorkerTolerance,
               SettleTime
      <4>3. Over(v)
        BY <4>2, LocalTypes DEF Before, Stages, Waits, Over
      <4>4. ~ (Unread(v) >= 1) /\ Unread(v) \in Int
        BY <2>1, <4>1, <4>3, UnreadBound DEF Before, Timely, UnreadInv, Tolerance
      <4>5. QED
        BY <1>1, <4>2, <4>4 DEF DoneInv, Waits, Unread, Arriving, SameWorker
    <3>3. QED
      BY <1>4, <3>1, <3>2
  <2>4. QED
    BY <2>2, <2>3 DEF Timely
<1>5. QED
  BY <1>3, <1>4

\* A second passes: a writer that can take a package takes it before.
LEMMA TickTimely ==
  ASSUME Tick, main \notin {"fatal", "exited"}, NEW v \in Workers, Before(v)
  PROVE  Timely(v)'
<1>1. now' = now + 1 /\ main' = main /\ timer' = timer /\ SameWorker(v) /\ SameWriter(v)
  BY TickFrame
<1>2. /\ End' = End /\ (Known' <=> Known) /\ End \in Int
      /\ now \in Nat /\ Runtime \in Nat /\ MaxSetup \in Nat
  BY <1>1, EndTime, CoordinatorAssumption DEF Before, TypeOK, End, Known
<1>3. DueInv(v)'
  BY <1>1, <1>2, TickFrame, LocalTypes
     DEF Before, Timely, DueInv, DueBy, WorkerTolerance, SettleTime, SameWorker
<1>4. FirstTick(v)'
  BY <1>1 DEF Before, Timely, FirstTick, SameWorker, SameWriter
<1>5. Surplus(v) => Surplus(v)'
  BY <1>1, <1>2, LocalTypes
     DEF Before, Surplus, Backlog, Arriving, Takes, One, WriteInterval, SameWorker, SameWriter
<1>6. AheadInv(v)'
  BY <1>1, <1>2, <1>5 DEF Before, Timely, AheadInv, Waits, DueBy, SameWorker
<1>7. ASSUME Known, Over(v), Unread(v) >= 1
      PROVE  now + 1 < End + Tolerance /\ Soon(v)'
  <2>1. Alive(v)
    BY <1>7, LocalTypes
       DEF Before, Local, Timely, StagesInv, DoneInv, Waits, Over, Alive, Unread, Arriving
  <2>2. writer[v] = "select" /\ tick[v] = FALSE
    BY <1>7, <2>1, TickFrame, LocalTypes, UnreadBound DEF Before, Alive, Backlog, Arriving
  <2>3. Takes(v, now) = 0
    BY <1>2, <2>1, <2>2, TickFrame, LocalTypes DEF Before, Takes, One, WriteInterval
  <2>4. Unread(v) = 1
    <3>1. Backlog(v) # Limit(v)
      BY <2>1, <2>3 DEF Before, Local, BacklogInv
    <3>2. QED
      BY <1>7, <3>1, UnreadBound
  <2>5. Soon(v)
    BY <1>7, <2>3, <2>4 DEF Before, Timely, UnreadInv, Prompt
  <2>6. now < tickAt[v] /\ tickAt[v] <= End + 22 /\ tickAt[v] \in Nat
    BY <2>1, <2>2, <2>5, TickFrame, LocalTypes DEF Before, Soon
  <2>7. QED
    BY <1>1, <1>2, <2>2, <2>4, <2>6
       DEF Soon, Unread, Arriving, Tolerance, SameWorker, SameWriter
<1>8. UnreadInv(v)'
  BY <1>1, <1>2, <1>7 DEF UnreadInv, Over, Unread, Arriving, SameWorker, SameWriter
<1>9. DoneInv(v)'
  BY <1>1 DEF Before, Timely, DoneInv, Waits, Unread, Arriving, SameWorker, SameWriter
<1>10. QED
  BY <1>3, <1>4, <1>6, <1>8, <1>9 DEF Timely

\* Every step keeps TimelyInv, when setting up a run takes 16 seconds or less.
LEMMA TimelyStep ==
  ASSUME MaxSetup <= 16, TypeOK, LoopInv, StreamInv, TimelyInv, [Next]_vars
  PROVE  TimelyInv'
<1> SUFFICES ASSUME NEW v \in Workers
             PROVE  Timely(v)'
  BY DEF TimelyInv
<1>1. Before(v) /\ (Next => main \notin {"fatal", "exited"})
  BY DEF Before, StreamInv, Local, TimelyInv, Next
<1>2. ASSUME Next, NEW w \in Workers, WorkerStep(w)
      PROVE  Timely(v)'
  <2>1. CASE v = w
    BY <1>1, <1>2, <2>1, SetupTimely, ReportTimely, StopLoadTimely, LoadEndsTimely,
       StandsStillTimely, FinalTimely, ReturnTimely DEF WorkerStep
  <2>2. CASE v # w
    BY <1>1, <1>2, <2>2, WorkerFrame, TimelySame DEF Before
  <2>3. QED
    BY <2>1, <2>2
<1>3. ASSUME Next, NEW w \in Workers, WriterStep(w)
      PROVE  Timely(v)'
  <2>1. CASE v = w
    BY <1>1, <1>3, <2>1, TickerTimely, TakeTickTimely, TakeFinishedTimely, RecvTimely,
       RecvEndTimely DEF WriterStep
  <2>2. CASE v # w
    BY <1>1, <1>3, <2>2, WriterFrame, TimelySame DEF Before
  <2>3. QED
    BY <2>1, <2>2
<1>4. CASE UNCHANGED vars
  BY <1>1, <1>4, TimelySame
     DEF Before, vars, worker, writing, SameWorker, SameWriter, SameTime
<1>5. QED
  BY <1>1, <1>2, <1>3, <1>4, Steps, StartTimely, MainTimely, TickTimely

\* TimelyInv holds when setting up a run takes 16 seconds or less.
THEOREM TimelyInvariance ==
  ASSUME MaxSetup <= 16
  PROVE  Spec => [](TypeOK /\ LoopInv /\ StreamInv /\ TimelyInv)
<1>1. Init => TimelyInv
  <2> SUFFICES ASSUME Init, NEW v \in Workers
               PROVE  Timely(v)
    BY DEF TimelyInv
  <2>1. main = "start" /\ stage[v] = "idle"
    BY DEF Init
  <2>2. QED
    BY <2>1 DEF Timely, DueInv, FirstTick, AheadInv, UnreadInv, DoneInv, Waits, Known
<1>2. QED
  BY <1>1, TimelyStep, StreamInvariance, PTL DEF Spec

\* When the coordinator exits, every worker has sent its final package and it is written
\* with all before it; or the worker died or its reporter stands still, and everything it
\* sent is written that was not lost with process or connection.  For any workers and
\* runtime, any losses and whichever reporters stand still, provided that the handler of a
\* worker is set up within 16 seconds of its start.
THEOREM EverythingIsWritten ==
  ASSUME MaxSetup <= 16
  PROVE  Spec => []AllPackagesWritten
<1>1. TypeOK /\ StreamInv /\ TimelyInv => AllPackagesWritten
  <2> SUFFICES ASSUME TypeOK, StreamInv, TimelyInv, main = "exited", NEW w \in Workers
               PROVE  \/ final[w] # 0 /\ received[w] >= final[w]
                      \/ (stage[w] = "dead" \/ stuck[w]) /\ received[w] = Arriving(w)
    BY DEF AllPackagesWritten
  <2>1. stage[w] # "idle" /\ ~ Waits(w) /\ Unread(w) <= 0
    BY DEF TimelyInv, Timely, DoneInv
  <2>2. StagesInv(w)
    BY DEF StreamInv
  <2>3. CASE final[w] = 0 \/ final[w] > Arriving(w)
    <3>1. received[w] = Arriving(w)
      BY <2>1, <2>3, LocalTypes DEF Unread
    <3>2. stage[w] = "dead" \/ stuck[w]
      BY <2>1, <2>2, <2>3, LocalTypes DEF StagesInv, Waits, Stages
    <3>3. QED
      BY <3>1, <3>2
  <2>4. CASE ~ (final[w] = 0 \/ final[w] > Arriving(w))
    BY <2>1, <2>4, LocalTypes DEF Unread
  <2>5. QED
    BY <2>3, <2>4
<1>2. QED
  BY <1>1, TimelyInvariance, PTL
=============================================================================
