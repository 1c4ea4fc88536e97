----------------------------- MODULE Deployment -----------------------------
(***************************************************************************)
(* The way from an architecture description and a deployment file to the   *)
(* worker configurations: ExecuteBenchmark of cmd/bench.go with the parser *)
(* and the mapper of executionmodel, the static provider and               *)
(* benchmark.Setup.                                                        *)
(*                                                                         *)
(* Everything is matched by name or by position: services get the          *)
(* addresses at their position in the deployment file, successors name     *)
(* their service, and three Go maps carry addresses and configurations     *)
(* from one step to the next.  The steps run one after the other and each  *)
(* is one action, loops included.  Of a unit the module follows its name,  *)
(* its work and its successors; what is copied with it is left out.        *)
(***************************************************************************)
EXTENDS GoMaps

CONSTANTS
  Names,          \* names of services, units, work templates and sinks
  Addresses,      \* host:port pairs
  Empty,          \* the empty string: no name and no address
  Architectures,  \* descriptions the benchmark may be started with
  Deployments     \* deployment files it may be started with

\* UnitRef, Unit and Service of executionmodel/model.go.
UnitRefs == [service : Names, unit : Names]
Units == [id : Names, work : Names \cup {Empty}, successors : Seq(UnitRefs)]
Services == [id : Names, sink : Names, units : Seq(Units)]

Descriptions == [services : Seq(Services), sinks : Seq(Names), works : SUBSET Names]

\* Deployment of provider/model.go.
DeploymentFiles ==
  [workers : Seq([benchmark : Addresses, service : Addresses]), sinks : Seq(Addresses)]

ASSUME DeploymentAssumption ==
  /\ Empty \notin Names /\ Empty \notin Addresses
  /\ Architectures \subseteq Descriptions
  /\ Deployments \subseteq DeploymentFiles

VARIABLES
  architecture,  \* the description
  deployment,    \* the deployment file
  stage,         \* the next step of ExecuteBenchmark, or how it ended
  svcMap,        \* StaticProvider.SvcMap
  workerMap,     \* StaticProvider.WorkerMap
  sinkMap,       \* StaticProvider.SinkMap
  configs,       \* the result of MapArchitectureToWorkers
  workers        \* Benchmark.Workers, in the order of a map: any order

maps == <<svcMap, workerMap, sinkMap>>
vars == <<architecture, deployment, stage, maps, configs, workers>>

services == architecture.services

NoEntry == [k \in {} |-> Empty]

Init ==
  /\ architecture \in Architectures
  /\ deployment \in Deployments
  /\ stage = "parse"
  /\ svcMap = NoEntry
  /\ workerMap = NoEntry
  /\ sinkMap = NoEntry
  /\ configs = NoEntry
  /\ workers = {}

-----------------------------------------------------------------------------
\* Go maps that a loop fills.

\* Mutant: a missing key gives itself.
Lookup_Key(map, key) == IF key \in DOMAIN map THEN map[key] ELSE key

\* A lookup of a missing key gives the zero value.
Lookup(map, key) == IF key \in DOMAIN map THEN map[key] ELSE Empty

ServiceKeys == [i \in DOMAIN services |-> services[i].id]

-----------------------------------------------------------------------------
\* The steps of ExecuteBenchmark.

\* Every named work template has to exist: log.Fatalf.  Nothing else is checked.
ParseArchitectureDescription ==
  /\ stage = "parse"
  /\ stage' = IF \A i \in DOMAIN services : \A u \in DOMAIN services[i].units :
                   services[i].units[u].work \in architecture.works \cup {Empty}
              THEN "services"
              ELSE "fatal"
  /\ UNCHANGED <<architecture, deployment, maps, configs, workers>>

\* The n-th service gets the n-th worker: the index has to be in range.
AllocateServices ==
  /\ stage = "services"
  /\ IF Len(services) <= Len(deployment.workers)
     THEN /\ stage' = "sinks"
          /\ svcMap' = Filled(ServiceKeys, [i \in DOMAIN services |->
                                              deployment.workers[i].service])
          /\ workerMap' = Filled(ServiceKeys, [i \in DOMAIN services |->
                                                 deployment.workers[i].benchmark])
     ELSE /\ stage' = "panic"
          /\ UNCHANGED <<svcMap, workerMap>>
  /\ UNCHANGED <<architecture, deployment, sinkMap, configs, workers>>

AllocateSinks ==
  /\ stage = "sinks"
  /\ IF Len(architecture.sinks) <= Len(deployment.sinks)
     THEN /\ stage' = "map"
          /\ sinkMap' = Filled(architecture.sinks, deployment.sinks)
     ELSE /\ stage' = "panic"
          /\ UNCHANGED sinkMap
  /\ UNCHANGED <<architecture, deployment, svcMap, workerMap, configs, workers>>

\* Mutant: a successor is remote when its unit has another name.
IsRemote_ByUnit(s, u, ref) == ref.unit # u.id

IsRemote(s, u, ref) == ref.service # s.id

MapSuccessor(s, u, ref) ==
  LET remote == IsRemote(s, u, ref)
  IN  [service |-> ref.service, unit |-> ref.unit, remote |-> remote,
       hostPort |-> IF remote THEN Lookup(svcMap, ref.service) ELSE Empty]

MapUnit(s, u) ==
  [id |-> u.id, work |-> u.work,
   successors |-> [k \in DOMAIN u.successors |-> MapSuccessor(s, u, u.successors[k])]]

\* Mutant: the units are not appended, each replaces the one before.
MapService_LastUnit(s) ==
  [service |-> s.id, sink |-> Lookup(sinkMap, s.sink),
   units |-> IF s.units = << >> THEN << >> ELSE <<MapUnit(s, s.units[Len(s.units)])>>]

MapService(s) ==
  [service |-> s.id, sink |-> Lookup(sinkMap, s.sink),
   units |-> [k \in DOMAIN s.units |-> MapUnit(s, s.units[k])]]

\* toWork reads the template of every unit, nil for a unit without work.
EveryUnitHasWork ==
  \A i \in DOMAIN services : \A u \in DOMAIN services[i].units :
    services[i].units[u].work # Empty

MapArchitectureToWorkers ==
  /\ stage = "map"
  /\ IF EveryUnitHasWork
     THEN /\ stage' = "setup"
          /\ configs' = Filled(ServiceKeys, [i \in DOMAIN services |->
                                               MapService(services[i])])
     ELSE /\ stage' = "panic"
          /\ UNCHANGED configs
  /\ UNCHANGED <<architecture, deployment, maps, workers>>

\* Connections are dialled in the background, so this cannot fail here.
Setup ==
  /\ stage = "setup"
  /\ stage' = "ready"
  /\ workers' = {[address |-> Lookup(workerMap, id), config |-> configs[id]] :
                   id \in DOMAIN configs}
  /\ UNCHANGED <<architecture, deployment, maps, configs>>

Next ==
  \/ ParseArchitectureDescription
  \/ AllocateServices
  \/ AllocateSinks
  \/ MapArchitectureToWorkers
  \/ Setup

Spec == Init /\ [][Next]_vars

-----------------------------------------------------------------------------
\* Properties.

Hosts == Addresses \cup {Empty}

\* WorkerConfiguration of the gRPC interface, as far as it is followed here.
Configurations ==
  [service : Names, sink : Hosts,
   units : Seq([id : Names, work : Names,
                successors : Seq([service : Names, unit : Names, remote : BOOLEAN,
                                  hostPort : Hosts])])]

\* Every variable has a value of its type.
TypeOK ==
  /\ architecture \in Descriptions
  /\ deployment \in DeploymentFiles
  /\ stage \in {"parse", "services", "sinks", "map", "setup", "ready", "fatal", "panic"}
  /\ \A map \in {svcMap, workerMap, sinkMap} :
       DOMAIN map \subseteq Names /\ \A k \in DOMAIN map : map[k] \in Addresses
  /\ \A id \in DOMAIN configs : id \in Names /\ configs[id] \in Configurations
  /\ workers \subseteq [address : Hosts, config : Configurations]

HasUnit(units, id) == \E k \in DOMAIN units : units[k].id = id

\* The worker at benchmark address a serves calls at address h.
SameWorker(a, h) ==
  \E i \in DOMAIN deployment.workers :
    deployment.workers[i] = [benchmark |-> a, service |-> h]

\* The description defines the unit that a successor refers to.
Defined(ref) ==
  /\ \E i \in DOMAIN services : services[i].id = ref.service
  /\ HasUnit(services[LastWith(ServiceKeys, ref.service)].units, ref.unit)

\* Whatever unit a configuration calls, if the description defines it the call
\* finds it: a local one in the same configuration, a remote one at the service
\* address of the very worker that is started with its service.  This takes the
\* agreement of two address maps, the configurations and the connections, also
\* for services that share a name.
CallsReachTheirUnit ==
  stage = "ready" =>
    \A w \in workers : \A k \in DOMAIN w.config.units :
      \A n \in DOMAIN w.config.units[k].successors :
        LET ref == w.config.units[k].successors[n]
        IN
        Defined(ref)
        => \E v \in workers :
             /\ v.config.service = ref.service
             /\ HasUnit(v.config.units, ref.unit)
             /\ IF ref.remote THEN SameWorker(v.address, ref.hostPort) ELSE v = w

\* A successor that the description does not define is let through by the parser
\* (executionmodel/parser.go), and is found nowhere when the benchmark runs: it is
\* never taken for a unit of the same name elsewhere, if no two workers have an
\* address in common.
UndefinedCallsMiss ==
  /\ stage = "ready"
  /\ \A i, j \in DOMAIN deployment.workers :
       \/ deployment.workers[i].service = deployment.workers[j].service
       \/ deployment.workers[i].benchmark = deployment.workers[j].benchmark
       => i = j
  => \A w, v \in workers : \A k \in DOMAIN w.config.units :
       \A n \in DOMAIN w.config.units[k].successors :
         LET ref == w.config.units[k].successors[n]
         IN  ~ Defined(ref) /\ HasUnit(v.config.units, ref.unit)
               => IF ref.remote THEN ~ SameWorker(v.address, ref.hostPort) ELSE v # w

\* When names are unique, the benchmark that is started executes the whole
\* description: every unit of every service is in the configuration of the worker
\* at the position of the service, which sends its traces to the address at the
\* position of its sink.
EveryUnitDeployed ==
  /\ stage = "ready"
  /\ \A i, j \in DOMAIN services : services[i].id = services[j].id => i = j
  /\ \A i, j \in DOMAIN architecture.sinks :
       architecture.sinks[i] = architecture.sinks[j] => i = j
  => \A i \in DOMAIN services :
       \E w \in workers :
         /\ w.address = deployment.workers[i].benchmark
         /\ w.config.service = services[i].id
         /\ \A j \in DOMAIN architecture.sinks :
              architecture.sinks[j] = services[i].sink => w.config.sink = deployment.sinks[j]
         /\ \A k \in DOMAIN services[i].units :
              HasUnit(w.config.units, services[i].units[k].id)

=============================================================================
