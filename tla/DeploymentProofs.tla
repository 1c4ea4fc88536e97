-------------------------- MODULE DeploymentProofs --------------------------
(***************************************************************************)
(* Proofs about Deployment.tla for every description and deployment file.  *)
(***************************************************************************)
EXTENDS Deployment, FiniteSetTheorems, SequenceTheorems, TLAPS

-----------------------------------------------------------------------------
\* The entries of the maps.

\* A set of indices that has a member has a largest one.  Otherwise adding one
\* would map the indices up to some member into those but the first, which are
\* fewer.
LEMMA LargestIndex ==
  ASSUME NEW n \in Nat, NEW T, T \subseteq 1 .. n, T # {}
  PROVE  \E x \in T : \A y \in T : y <= x
<1> SUFFICES ASSUME \A x \in T : \E y \in T : x < y
             PROVE  FALSE
  OBVIOUS
<1> DEFINE D == {i \in 1 .. n : \E x \in T : i <= x}
           E == D \ {1}
           f == [i \in D |-> i + 1]
<1>1. 1 \in D
  <2>1. PICK x \in T : TRUE
    OBVIOUS
  <2>2. x \in 1 .. n
    BY <2>1
  <2>3. 1 \in 1 .. n /\ 1 <= x
    BY <2>2
  <2> QED
    BY <2>1, <2>3
<1>2. \A i \in D : i + 1 \in E
  <2> SUFFICES ASSUME NEW i \in D PROVE i + 1 \in E
    OBVIOUS
  <2>1. PICK x \in T : i <= x
    OBVIOUS
  <2>2. PICK y \in T : x < y
    BY <2>1
  <2>3. i \in Int /\ i >= 1 /\ x \in Int /\ y \in Int /\ y <= n
    BY <2>1, <2>2
  <2>4. i + 1 <= y /\ i + 1 \in 1 .. n /\ i + 1 # 1
    BY <2>1, <2>2, <2>3
  <2> QED
    BY <2>2, <2>4
<1>3. IsFiniteSet(D)
  <2>1. IsFiniteSet(1 .. n)
    BY FS_Interval
  <2> QED
    BY <2>1, FS_Subset
<1>4. IsFiniteSet(E) /\ Cardinality(E) = Cardinality(D) - 1
  BY <1>1, <1>3, FS_RemoveElement
<1>5. Cardinality(E) < Cardinality(D)
  <2>1. Cardinality(D) \in Nat
    BY <1>3, FS_CardinalityType
  <2> QED
    BY <1>4, <2>1
<1>6. f \in [D -> E]
  BY <1>2
<1>7. PICK x \in D, y \in D : x # y /\ f[x] = f[y]
  <2> HIDE DEF D, E, f
  <2> QED
    BY <1>3, <1>4, <1>5, <1>6, FS_PigeonHole
<1> QED
  BY <1>7

\* What LastWith chooses for a key that occurs.
LEMMA LastWithIsLast ==
  ASSUME NEW n \in Nat, NEW keys, DOMAIN keys = 1 .. n, NEW i \in 1 .. n
  PROVE  /\ LastWith(keys, keys[i]) \in 1 .. n
         /\ keys[LastWith(keys, keys[i])] = keys[i]
<1> DEFINE T == {j \in 1 .. n : keys[j] = keys[i]}
<1>1. PICK x \in T : \A y \in T : y <= x
  BY LargestIndex
<1>2. x \in DOMAIN keys /\ keys[x] = keys[i]
         /\ \A j \in DOMAIN keys : keys[j] = keys[i] => j <= x
  BY <1>1
<1> QED
  BY <1>2 DEF LastWith

\* The entries of a map that a loop filled: for a key that occurs, the value at
\* its last index.
LEMMA FilledEntry ==
  ASSUME NEW n \in Nat, NEW keys, DOMAIN keys = 1 .. n, NEW i \in 1 .. n,
         NEW values
  PROVE  LET l == LastWith(keys, keys[i])
         IN  /\ l \in 1 .. n
             /\ keys[l] = keys[i]
             /\ keys[i] \in DOMAIN Filled(keys, values)
             /\ Filled(keys, values)[keys[i]] = values[l]
<1>1. keys[i] \in {keys[j] : j \in DOMAIN keys}
  OBVIOUS
<1> QED
  BY <1>1, LastWithIsLast DEF Filled

-----------------------------------------------------------------------------
\* The invariant: what each finished step of ExecuteBenchmark left behind.

\* The contents of the three maps, the configurations and the workers.
SvcEntries == Filled(ServiceKeys, [i \in DOMAIN services |-> deployment.workers[i].service])
WorkerEntries ==
  Filled(ServiceKeys, [i \in DOMAIN services |-> deployment.workers[i].benchmark])
SinkEntries == Filled(architecture.sinks, deployment.sinks)
ConfigEntries == Filled(ServiceKeys, [i \in DOMAIN services |-> MapService(services[i])])
WorkerSet ==
  {[address |-> Lookup(workerMap, id), config |-> configs[id]] : id \in DOMAIN configs}

InputInv ==
  /\ architecture \in Descriptions
  /\ deployment \in DeploymentFiles

\* From the allocation on there are addresses for all services.
ServicesInv ==
  stage \in {"sinks", "map", "setup", "ready"} =>
    /\ Len(services) <= Len(deployment.workers)
    /\ svcMap = SvcEntries
    /\ workerMap = WorkerEntries

SinksInv == stage \in {"map", "setup", "ready"} => sinkMap = SinkEntries

ConfigsInv == stage \in {"setup", "ready"} => configs = ConfigEntries

WorkersInv == stage = "ready" => workers = WorkerSet

Inv ==
  /\ InputInv
  /\ ServicesInv
  /\ SinksInv
  /\ ConfigsInv
  /\ WorkersInv

\* What each of them is computed from.
LEMMA EntriesKept ==
  ASSUME UNCHANGED <<architecture, deployment>>
  PROVE  /\ UNCHANGED <<services, SvcEntries, WorkerEntries, SinkEntries>>
         /\ UNCHANGED <<svcMap, sinkMap>> => UNCHANGED ConfigEntries
         /\ UNCHANGED <<workerMap, configs>> => UNCHANGED WorkerSet
<1>1. UNCHANGED <<services, SvcEntries, WorkerEntries, SinkEntries>>
  BY DEF services, ServiceKeys, SvcEntries, WorkerEntries, SinkEntries
<1>2. ASSUME UNCHANGED <<svcMap, sinkMap>> PROVE UNCHANGED ConfigEntries
  BY <1>2 DEF ConfigEntries, services, ServiceKeys, MapService, MapUnit, MapSuccessor,
                IsRemote
<1>3. ASSUME UNCHANGED <<workerMap, configs>> PROVE UNCHANGED WorkerSet
  BY <1>3 DEF WorkerSet
<1> QED
  BY <1>1, <1>2, <1>3

\* Before the first step the maps are empty.
LEMMA InitInv == Init => Inv
  BY DeploymentAssumption
  DEF Init, Inv, InputInv, ServicesInv, SinksInv, ConfigsInv, WorkersInv

\* Every function leaves in the maps what the invariant says.
LEMMA StepInv == Inv /\ [Next]_vars => Inv'
<1> SUFFICES ASSUME Inv, [Next]_vars
             PROVE  Inv'
  OBVIOUS
<1>0. UNCHANGED <<architecture, deployment>>
  BY DEF Next, vars, ParseArchitectureDescription, AllocateServices, AllocateSinks,
         MapArchitectureToWorkers, Setup
<1>kept. /\ services' = services /\ SvcEntries' = SvcEntries
         /\ WorkerEntries' = WorkerEntries /\ SinkEntries' = SinkEntries
         /\ UNCHANGED <<svcMap, sinkMap>> => ConfigEntries' = ConfigEntries
         /\ UNCHANGED <<workerMap, configs>> => WorkerSet' = WorkerSet
  BY <1>0, EntriesKept
<1>1. InputInv'
  BY <1>0 DEF Inv, InputInv
<1>2. ServicesInv'
  <2>1. CASE AllocateServices
    BY <1>0, <1>kept, <2>1 DEF AllocateServices, ServicesInv, SvcEntries, WorkerEntries
  <2>2. CASE ~AllocateServices
    <3>1. /\ UNCHANGED <<svcMap, workerMap>>
          /\ stage' \in {"sinks", "map", "setup", "ready"} =>
               stage \in {"sinks", "map", "setup", "ready"}
      BY <2>2 DEF Next, vars, maps, ParseArchitectureDescription, AllocateSinks,
                  MapArchitectureToWorkers, Setup
    <3> QED
      BY <1>0, <1>kept, <3>1 DEF Inv, ServicesInv
  <2> QED
    BY <2>1, <2>2
<1>3. SinksInv'
  <2>1. CASE AllocateSinks
    BY <1>kept, <2>1 DEF AllocateSinks, SinksInv, SinkEntries
  <2>2. CASE ~AllocateSinks
    <3>1. /\ UNCHANGED sinkMap
          /\ stage' \in {"map", "setup", "ready"} => stage \in {"map", "setup", "ready"}
      BY <2>2 DEF Next, vars, maps, ParseArchitectureDescription, AllocateServices,
                  MapArchitectureToWorkers, Setup
    <3> QED
      BY <1>kept, <3>1 DEF Inv, SinksInv
  <2> QED
    BY <2>1, <2>2
<1>4. ConfigsInv'
  <2>1. CASE MapArchitectureToWorkers
    BY <1>kept, <2>1 DEF MapArchitectureToWorkers, ConfigsInv, ConfigEntries, maps
  <2>2. CASE ~MapArchitectureToWorkers
    <3>1. stage' \in {"setup", "ready"} =>
            stage \in {"setup", "ready"} /\ UNCHANGED <<svcMap, sinkMap, configs>>
      BY <2>2 DEF Next, vars, maps, ParseArchitectureDescription, AllocateServices,
                  AllocateSinks, Setup
    <3> QED
      BY <1>kept, <3>1 DEF Inv, ConfigsInv
  <2> QED
    BY <2>1, <2>2
<1>5. WorkersInv'
  <2>1. CASE Setup
    BY <1>kept, <2>1 DEF Setup, WorkersInv, WorkerSet, maps
  <2>2. CASE ~Setup
    <3>1. stage' = "ready" => stage = "ready" /\ UNCHANGED <<workerMap, configs, workers>>
      BY <2>2 DEF Next, vars, maps, ParseArchitectureDescription, AllocateServices,
                  AllocateSinks, MapArchitectureToWorkers
    <3> QED
      BY <1>kept, <3>1 DEF Inv, WorkersInv
  <2> QED
    BY <2>1, <2>2
<1> QED
  BY <1>1, <1>2, <1>3, <1>4, <1>5 DEF Inv

\* The invariant holds throughout.
THEOREM Invariance == Spec => []Inv
<1>1. Init => Inv
  BY InitInv
<1>2. Inv /\ [Next]_vars => Inv'
  BY StepInv
<1> QED
  BY <1>1, <1>2, PTL DEF Spec

-----------------------------------------------------------------------------
\* What is running once the workers are set up.

\* The worker started with the service of that name: the last one of the
\* description.
Index(id) == LastWith(ServiceKeys, id)
WorkerFor(id) ==
  [address |-> deployment.workers[Index(id)].benchmark,
   config |-> MapService(services[Index(id)])]

\* The services and the keys they are entered under.
LEMMA ServiceTypes ==
  ASSUME Inv
  PROVE  /\ Len(services) \in Nat
         /\ DOMAIN services = 1 .. Len(services)
         /\ DOMAIN ServiceKeys = 1 .. Len(services)
         /\ \A i \in DOMAIN services :
              ServiceKeys[i] = services[i].id /\ services[i] \in Services
<1>1. services \in Seq(Services)
  BY DEF Inv, InputInv, Descriptions, services
<1> QED
  BY <1>1 DEF ServiceKeys

\* An entry of the deployment file's worker list is the pair of its addresses.
Pairs == [benchmark : Addresses, service : Addresses]

\* An entry of the worker list is the pair of its addresses.
LEMMA PairInSeq ==
  ASSUME NEW s \in Seq(Pairs), NEW l \in 1 .. Len(s)
  PROVE  /\ l \in DOMAIN s
         /\ s[l] = [benchmark |-> s[l].benchmark, service |-> s[l].service]
<1>1. s[l] \in Pairs
  BY ElementOfSeq
<1> QED
  BY <1>1 DEF Pairs

\* Each service name of the description has a worker, and its address for calls
\* is that worker's.
LEMMA WorkerOfService ==
  ASSUME Inv, stage = "ready", NEW i \in DOMAIN services
  PROVE  LET id == services[i].id
         IN  /\ Index(id) \in DOMAIN services
             /\ services[Index(id)].id = id
             /\ WorkerFor(id) \in workers
             /\ SameWorker(WorkerFor(id).address, Lookup(svcMap, id))
<1> DEFINE id == services[i].id
           l == Index(id)
           n == Len(services)
<1>1. /\ n \in Nat /\ DOMAIN services = 1 .. n /\ DOMAIN ServiceKeys = 1 .. n
      /\ i \in 1 .. n /\ ServiceKeys[i] = id
  BY ServiceTypes
<1>entry. ASSUME NEW values
      PROVE  /\ l \in 1 .. n /\ ServiceKeys[l] = id
             /\ id \in DOMAIN Filled(ServiceKeys, values)
             /\ Filled(ServiceKeys, values)[id] = values[l]
  <2>1. ServiceKeys[i] = id
    BY <1>1
  <2> HIDE DEF n, id, l
  <2>2. LET m == LastWith(ServiceKeys, ServiceKeys[i])
        IN  /\ m \in 1 .. n
            /\ ServiceKeys[m] = ServiceKeys[i]
            /\ ServiceKeys[i] \in DOMAIN Filled(ServiceKeys, values)
            /\ Filled(ServiceKeys, values)[ServiceKeys[i]] = values[m]
    BY <1>1, FilledEntry
  <2> QED
    BY <2>1, <2>2 DEF l, Index
<1>2. /\ l \in 1 .. n /\ ServiceKeys[l] = id
      /\ id \in DOMAIN SvcEntries
      /\ SvcEntries[id] = [j \in DOMAIN services |-> deployment.workers[j].service][l]
  BY <1>entry DEF SvcEntries
<1>3. /\ id \in DOMAIN WorkerEntries
      /\ WorkerEntries[id] = [j \in DOMAIN services |-> deployment.workers[j].benchmark][l]
  BY <1>entry DEF WorkerEntries
<1>4. /\ id \in DOMAIN ConfigEntries
      /\ ConfigEntries[id] = [j \in DOMAIN services |-> MapService(services[j])][l]
  BY <1>entry DEF ConfigEntries
<1>5. services[l].id = id
  BY <1>1, <1>2, ServiceTypes
<1>6. /\ svcMap = SvcEntries /\ workerMap = WorkerEntries /\ configs = ConfigEntries
      /\ workers = WorkerSet /\ n <= Len(deployment.workers)
  BY DEF Inv, ServicesInv, ConfigsInv, WorkersInv
<1>7. Lookup(svcMap, id) = deployment.workers[l].service
  BY <1>1, <1>2, <1>6 DEF Lookup
<1>8. /\ Lookup(workerMap, id) = deployment.workers[l].benchmark
      /\ configs[id] = MapService(services[l])
  BY <1>1, <1>2, <1>3, <1>4, <1>6 DEF Lookup
<1>9. WorkerFor(id) \in workers
  BY <1>4, <1>6, <1>8 DEF WorkerFor, WorkerSet
<1>10. l \in DOMAIN deployment.workers
       /\ deployment.workers[l] = [benchmark |-> deployment.workers[l].benchmark,
                                   service |-> deployment.workers[l].service]
  <2>1. deployment.workers \in Seq(Pairs)
    BY DEF Inv, InputInv, DeploymentFiles, Pairs
  <2>2. l \in 1 .. Len(deployment.workers)
    BY <1>1, <1>2, <1>6, <2>1
  <2> HIDE DEF l
  <2> QED
    BY <2>1, <2>2, PairInSeq
<1>11. SameWorker(WorkerFor(id).address, Lookup(svcMap, id))
  BY <1>7, <1>10 DEF SameWorker, WorkerFor
<1> QED
  BY <1>1, <1>2, <1>5, <1>9, <1>11

\* And there are no other workers.
LEMMA WorkersOfServices ==
  ASSUME Inv, stage = "ready", NEW w \in workers
  PROVE  \E i \in DOMAIN services : w = WorkerFor(services[i].id)
<1>1. /\ workers = WorkerSet /\ configs = ConfigEntries /\ workerMap = WorkerEntries
  BY DEF Inv, ServicesInv, ConfigsInv, WorkersInv
<1>2. PICK id \in DOMAIN configs : w = [address |-> Lookup(workerMap, id), config |-> configs[id]]
  BY <1>1 DEF WorkerSet
<1>3. PICK i \in DOMAIN services : id = services[i].id
  BY <1>1, <1>2, ServiceTypes DEF ConfigEntries, Filled, ServiceKeys
<1>4. /\ DOMAIN ConfigEntries = DOMAIN WorkerEntries
      /\ ConfigEntries[id] = [j \in DOMAIN services |-> MapService(services[j])][Index(id)]
      /\ WorkerEntries[id] = [j \in DOMAIN services |-> deployment.workers[j].benchmark][Index(id)]
  BY <1>1, <1>2 DEF ConfigEntries, WorkerEntries, Filled, Index
<1>5. Index(id) \in DOMAIN services
  BY <1>3, WorkerOfService
<1>6. w = WorkerFor(id)
  BY <1>1, <1>2, <1>4, <1>5 DEF WorkerFor, Lookup
<1> QED
  BY <1>3, <1>6

-----------------------------------------------------------------------------
\* The theorems.

\* A mapped successor keeps its name and is given the address of its service.
LEMMA MappedSuccessor ==
  ASSUME NEW s, NEW u, NEW ref
  PROVE  LET m == MapSuccessor(s, u, ref)
         IN  /\ m.service = ref.service /\ m.unit = ref.unit
             /\ m.remote <=> ref.service # s.id
             /\ m.remote => m.hostPort = Lookup(svcMap, ref.service)
<1>1. CASE ref.service # s.id
  BY <1>1 DEF MapSuccessor, IsRemote
<1>2. CASE ref.service = s.id
  BY <1>2 DEF MapSuccessor, IsRemote
<1> QED
  BY <1>1, <1>2

\* Once everything is set up, a successor that is defined is found at its address.
LEMMA CallsFollow == Inv => CallsReachTheirUnit
<1> SUFFICES ASSUME Inv, stage = "ready",
                    NEW w \in workers, NEW k \in DOMAIN w.config.units,
                    NEW n \in DOMAIN w.config.units[k].successors
             PROVE  LET ref == w.config.units[k].successors[n]
                    IN
                    Defined(ref)
                    => \E v \in workers :
                         /\ v.config.service = ref.service
                         /\ HasUnit(v.config.units, ref.unit)
                         /\ IF ref.remote THEN SameWorker(v.address, ref.hostPort) ELSE v = w
  BY Zenon DEF CallsReachTheirUnit
<1> DEFINE ref == w.config.units[k].successors[n]
<1> SUFFICES ASSUME NEW j \in DOMAIN services, services[j].id = ref.service,
                    HasUnit(services[Index(ref.service)].units, ref.unit)
             PROVE  \E v \in workers :
                      /\ v.config.service = ref.service
                      /\ HasUnit(v.config.units, ref.unit)
                      /\ IF ref.remote THEN SameWorker(v.address, ref.hostPort) ELSE v = w
  BY Zenon DEF Index, Defined
<1> DEFINE id == services[j].id
<1>1. PICK i \in DOMAIN services : w = WorkerFor(services[i].id)
  BY WorkersOfServices
<1> DEFINE s == services[Index(services[i].id)]
<1>2. s.id = services[i].id
  BY WorkerOfService
<1>3. ref = MapSuccessor(s, s.units[k], s.units[k].successors[n])
  BY <1>1 DEF WorkerFor, MapService, MapUnit
<1>4. /\ ref.remote <=> ref.service # s.id
      /\ ref.remote => ref.hostPort = Lookup(svcMap, ref.service)
  <2> DEFINE u == s.units[k]
             r == u.successors[n]
  <2> HIDE DEF ref, s, u, r
  <2>1. /\ MapSuccessor(s, u, r).service = r.service
        /\ MapSuccessor(s, u, r).remote <=> r.service # s.id
        /\ MapSuccessor(s, u, r).remote =>
             MapSuccessor(s, u, r).hostPort = Lookup(svcMap, r.service)
    BY MappedSuccessor
  <2>2. ref = MapSuccessor(s, u, r)
    BY <1>3 DEF u, r
  <2> QED
    BY <2>1, <2>2
<1>5. /\ WorkerFor(id) \in workers
      /\ services[Index(id)].id = id
      /\ SameWorker(WorkerFor(id).address, Lookup(svcMap, id))
  BY WorkerOfService
<1>6. /\ WorkerFor(id).config.service = id
      /\ HasUnit(WorkerFor(id).config.units, ref.unit)
  BY <1>5 DEF WorkerFor, MapService, MapUnit, HasUnit
<1>7. ~ref.remote => WorkerFor(id) = w
  BY <1>1, <1>2, <1>4
<1> QED
  BY <1>4, <1>5, <1>6, <1>7

\* The units of a mapped service, one by one.
LEMMA MappedUnits ==
  ASSUME NEW s
  PROVE  LET units == MapService(s).units
         IN  /\ DOMAIN units = DOMAIN s.units
             /\ \A k \in DOMAIN s.units :
                  /\ units[k].id = s.units[k].id
                  /\ DOMAIN units[k].successors = DOMAIN s.units[k].successors
                  /\ \A n \in DOMAIN s.units[k].successors :
                       units[k].successors[n] =
                         MapSuccessor(s, s.units[k], s.units[k].successors[n])
  BY DEF MapService, MapUnit

\* The configuration of a worker has the units of its service, and each of their
\* successors is one that the description gives.
LEMMA ConfiguredSuccessor ==
  ASSUME Inv, stage = "ready", NEW i \in DOMAIN services, NEW w,
         w = WorkerFor(services[i].id)
  PROVE  LET id == services[i].id
         IN
         /\ \A x : HasUnit(w.config.units, x) => HasUnit(services[Index(id)].units, x)
         /\ \A k \in DOMAIN w.config.units : \A n \in DOMAIN w.config.units[k].successors :
              LET ref == w.config.units[k].successors[n]
              IN  /\ ref.remote <=> ref.service # id
                  /\ ref.remote => ref.hostPort = Lookup(svcMap, ref.service)
<1> DEFINE id == services[i].id
           s == services[Index(id)]
<1>1. w.config = MapService(s) /\ s.id = id
  BY WorkerOfService DEF WorkerFor
<1>units. w.config.units = MapService(s).units
  BY <1>1
<1>2. \A x : HasUnit(w.config.units, x) => HasUnit(s.units, x)
  <2> HIDE DEF s
  <2> QED
    BY <1>units, MappedUnits DEF HasUnit
<1>3. ASSUME NEW k \in DOMAIN w.config.units, NEW n \in DOMAIN w.config.units[k].successors
      PROVE  LET ref == w.config.units[k].successors[n]
             IN  /\ ref.remote <=> ref.service # id
                 /\ ref.remote => ref.hostPort = Lookup(svcMap, ref.service)
  <2> DEFINE u == s.units[k]
             r == u.successors[n]
             ref == w.config.units[k].successors[n]
  <2>1. ref = MapSuccessor(s, u, r)
    <3> HIDE DEF s
    <3> QED
      BY <1>units, MappedUnits
  <2>2. s.id = id
    BY <1>1
  <2> HIDE DEF ref, s, u, r, id
  <2>3. /\ MapSuccessor(s, u, r).service = r.service
        /\ MapSuccessor(s, u, r).remote <=> r.service # s.id
        /\ MapSuccessor(s, u, r).remote =>
             MapSuccessor(s, u, r).hostPort = Lookup(svcMap, r.service)
    BY MappedSuccessor
  <2>4. /\ ref.remote <=> ref.service # id
        /\ ref.remote => ref.hostPort = Lookup(svcMap, ref.service)
    BY <2>1, <2>2, <2>3
  <2> QED
    BY <2>4 DEF ref
<1> QED
  BY <1>2, <1>3

\* The address a successor is given belongs to the worker of its service, or to
\* none if there is no such service.
LEMMA AddressOfService ==
  ASSUME Inv, stage = "ready", NEW a, NEW x,
         SameWorker(a, Lookup(svcMap, x)),
         \A i, j \in DOMAIN deployment.workers :
           \/ deployment.workers[i].service = deployment.workers[j].service
           \/ deployment.workers[i].benchmark = deployment.workers[j].benchmark
           => i = j
  PROVE  /\ \E i \in DOMAIN services : services[i].id = x
         /\ a = WorkerFor(x).address
<1>1. PICK m \in DOMAIN deployment.workers :
        deployment.workers[m] = [benchmark |-> a, service |-> Lookup(svcMap, x)]
  BY DEF SameWorker
<1>2. Lookup(svcMap, x) \in Addresses
  <2>1. deployment.workers \in Seq(Pairs)
    BY DEF Inv, InputInv, DeploymentFiles, Pairs
  <2>2. deployment.workers[m] \in Pairs
    BY <2>1, ElementOfSeq
  <2> QED
    BY <1>1, <2>2 DEF Pairs
<1>3. x \in DOMAIN svcMap
  BY <1>2, DeploymentAssumption DEF Lookup
<1>4. svcMap = SvcEntries
  BY DEF Inv, ServicesInv
<1>5. PICK i \in DOMAIN services : services[i].id = x
  BY <1>3, <1>4 DEF SvcEntries, Filled, ServiceKeys
<1>6. SameWorker(WorkerFor(x).address, Lookup(svcMap, x))
  BY <1>5, WorkerOfService
<1>7. PICK l \in DOMAIN deployment.workers :
        deployment.workers[l] = [benchmark |-> WorkerFor(x).address,
                                 service |-> Lookup(svcMap, x)]
  BY <1>6 DEF SameWorker
<1>8. l = m
  BY <1>1, <1>7
<1> QED
  BY <1>1, <1>5, <1>7, <1>8

\* Who calls a unit the description lacks reaches no worker that has it.
LEMMA MissesFollow == Inv => UndefinedCallsMiss
<1> SUFFICES ASSUME Inv, stage = "ready",
                    \A i, j \in DOMAIN deployment.workers :
                      \/ deployment.workers[i].service = deployment.workers[j].service
                      \/ deployment.workers[i].benchmark = deployment.workers[j].benchmark
                      => i = j,
                    NEW w \in workers, NEW v \in workers,
                    NEW k \in DOMAIN w.config.units,
                    NEW n \in DOMAIN w.config.units[k].successors,
                    HasUnit(v.config.units, w.config.units[k].successors[n].unit),
                    LET ref == w.config.units[k].successors[n]
                    IN  IF ref.remote THEN SameWorker(v.address, ref.hostPort) ELSE v = w
             PROVE  Defined(w.config.units[k].successors[n])
  BY Zenon DEF UndefinedCallsMiss
<1> DEFINE ref == w.config.units[k].successors[n]
<1>1. PICK i \in DOMAIN services : w = WorkerFor(services[i].id)
  BY WorkersOfServices
<1>2. PICK j \in DOMAIN services : v = WorkerFor(services[j].id)
  BY WorkersOfServices
<1>3. /\ ref.remote <=> ref.service # services[i].id
      /\ ref.remote => ref.hostPort = Lookup(svcMap, ref.service)
  <2>1. \A kk \in DOMAIN w.config.units : \A nn \in DOMAIN w.config.units[kk].successors :
          LET r == w.config.units[kk].successors[nn]
          IN  /\ r.remote <=> r.service # services[i].id
              /\ r.remote => r.hostPort = Lookup(svcMap, r.service)
    BY ONLY <1>1, ConfiguredSuccessor, Inv, stage = "ready"
  <2> QED
    BY <2>1, Zenon
<1>4. HasUnit(services[Index(services[j].id)].units, ref.unit)
  BY <1>2, ConfiguredSuccessor
<1>5. CASE ~ ref.remote
  <2>1. HasUnit(services[Index(services[i].id)].units, ref.unit)
    BY <1>1, <1>5, ConfiguredSuccessor
  <2> QED
    BY <1>3, <1>5, <2>1 DEF Defined, Index
<1>6. CASE ref.remote
  <2>1. SameWorker(v.address, Lookup(svcMap, ref.service))
    BY <1>3, <1>6
  <2> HIDE DEF ref
  <2>2. PICK m \in DOMAIN services : services[m].id = ref.service
    BY <2>1, AddressOfService
  <2>3. v.address = WorkerFor(ref.service).address
    BY <2>1, AddressOfService
  <2>4. /\ Index(ref.service) \in DOMAIN services
        /\ services[Index(ref.service)].id = ref.service
    BY <2>2, WorkerOfService
  <2>5. /\ Index(services[j].id) \in DOMAIN services
        /\ services[Index(services[j].id)].id = services[j].id
    BY WorkerOfService
  <2>6. \A x \in DOMAIN services : x \in DOMAIN deployment.workers
    <3>1. deployment.workers \in Seq(Pairs) /\ Len(services) <= Len(deployment.workers)
      BY DEF Inv, InputInv, ServicesInv, DeploymentFiles, Pairs
    <3> QED
      BY <3>1, ServiceTypes
  <2>7. Index(ref.service) = Index(services[j].id)
    BY <1>2, <2>3, <2>4, <2>5, <2>6 DEF WorkerFor
  <2>8. HasUnit(services[Index(ref.service)].units, ref.unit)
    BY <1>4, <2>7
  <2>9. Defined(ref)
    BY <2>2, <2>8 DEF Defined, Index
  <2> QED
    BY <2>9 DEF ref
<1> QED
  BY <1>5, <1>6

\* Once everything is set up, the worker of a service executes its units.
LEMMA UnitsFollow == Inv => EveryUnitDeployed
<1> SUFFICES ASSUME Inv, stage = "ready",
                    \A i, j \in DOMAIN services : services[i].id = services[j].id => i = j,
                    \A i, j \in DOMAIN architecture.sinks :
                      architecture.sinks[i] = architecture.sinks[j] => i = j,
                    NEW i \in DOMAIN services
             PROVE  \E w \in workers :
                      /\ w.address = deployment.workers[i].benchmark
                      /\ w.config.service = services[i].id
                      /\ \A j \in DOMAIN architecture.sinks :
                           architecture.sinks[j] = services[i].sink =>
                             w.config.sink = deployment.sinks[j]
                      /\ \A k \in DOMAIN services[i].units :
                           HasUnit(w.config.units, services[i].units[k].id)
  BY DEF EveryUnitDeployed
<1> DEFINE w == WorkerFor(services[i].id)
<1>1. /\ w \in workers /\ Index(services[i].id) = i
  BY WorkerOfService
<1>2. /\ w.address = deployment.workers[i].benchmark
      /\ w.config = MapService(services[i])
  BY <1>1 DEF WorkerFor
<1>3. w.config.service = services[i].id
  BY <1>2 DEF MapService
<1>4. ASSUME NEW j \in DOMAIN architecture.sinks, architecture.sinks[j] = services[i].sink
      PROVE  w.config.sink = deployment.sinks[j]
  <2> DEFINE sinks == architecture.sinks
             m == Len(sinks)
  <2>1. m \in Nat /\ DOMAIN sinks = 1 .. m /\ j \in 1 .. m
    BY DEF Inv, InputInv, Descriptions
  <2>2. LET l == LastWith(sinks, sinks[j])
        IN  /\ l \in 1 .. m
            /\ sinks[l] = sinks[j]
            /\ sinks[j] \in DOMAIN Filled(sinks, deployment.sinks)
            /\ Filled(sinks, deployment.sinks)[sinks[j]] = deployment.sinks[l]
    <3> HIDE DEF sinks, m
    <3> QED
      BY <2>1, FilledEntry
  <2>3. LastWith(sinks, sinks[j]) = j
    BY <2>1, <2>2
  <2>4. sinkMap = Filled(sinks, deployment.sinks)
    BY DEF Inv, SinksInv, SinkEntries
  <2> QED
    BY <1>2, <1>4, <2>2, <2>3, <2>4 DEF MapService, Lookup
<1>5. \A k \in DOMAIN services[i].units :
        HasUnit(w.config.units, services[i].units[k].id)
  BY <1>2 DEF MapService, MapUnit, HasUnit
<1> QED
  BY <1>1, <1>2, <1>3, <1>4, <1>5

\* Whatever the description and the deployment file: a call to a unit that the
\* description defines finds it, at the worker that was started with its service.
THEOREM CallsArrive == Spec => []CallsReachTheirUnit
<1>1. Spec => []Inv
  BY Invariance
<1>2. Inv => CallsReachTheirUnit
  BY CallsFollow
<1> QED
  BY <1>1, <1>2, PTL

\* Whatever the description and the deployment file: a call to a unit that the
\* description does not define finds nothing, if the workers have addresses of
\* their own.
THEOREM CallsMiss == Spec => []UndefinedCallsMiss
<1>1. Spec => []Inv
  BY Invariance
<1>2. Inv => UndefinedCallsMiss
  BY MissesFollow
<1> QED
  BY <1>1, <1>2, PTL

\* Whatever the description and the deployment file: with unique names the workers
\* execute every unit of every service and know the sink of each.
THEOREM UnitsDeployed == Spec => []EveryUnitDeployed
<1>1. Spec => []Inv
  BY Invariance
<1>2. Inv => EveryUnitDeployed
  BY UnitsFollow
<1> QED
  BY <1>1, <1>2, PTL

-----------------------------------------------------------------------------
(***************************************************************************)
(* Type correctness.                                                       *)
(***************************************************************************)
\* A map that a loop filled has keys and values out of the two sequences.
LEMMA FilledTypes ==
  ASSUME NEW n \in Nat, NEW keys, DOMAIN keys = 1 .. n, NEW values, NEW K, NEW V,
         \A i \in 1 .. n : keys[i] \in K /\ values[i] \in V
  PROVE  /\ DOMAIN Filled(keys, values) \subseteq K
         /\ \A k \in DOMAIN Filled(keys, values) : Filled(keys, values)[k] \in V
<1>1. DOMAIN Filled(keys, values) = {keys[i] : i \in 1 .. n}
  BY DEF Filled
<1>2. ASSUME NEW i \in 1 .. n
      PROVE  Filled(keys, values)[keys[i]] \in V
  BY FilledEntry
<1>3. QED
  BY <1>1, <1>2

\* A sequence that is mapped entry by entry is one of the results.
LEMMA MappedSeq ==
  ASSUME NEW S, NEW q \in Seq(S), NEW T, NEW F(_), \A n \in DOMAIN q : F(n) \in T
  PROVE  [n \in DOMAIN q |-> F(n)] \in Seq(T)
OBVIOUS

Successors == [service : Names, unit : Names, remote : BOOLEAN, hostPort : Hosts]
MappedUnitSet == [id : Names, work : Names, successors : Seq(Successors)]

\* A lookup gives an address or the empty string.
LEMMA LookupType ==
  ASSUME NEW map, \A k \in DOMAIN map : map[k] \in Addresses, NEW key
  PROVE  Lookup(map, key) \in Hosts
BY DEF Lookup, Hosts

\* A mapped unit has the type of the interface, provided that it has work.
LEMMA UnitType ==
  ASSUME \A k \in DOMAIN svcMap : svcMap[k] \in Addresses,
         NEW s, NEW u \in Units, u.work # Empty
  PROVE  MapUnit(s, u) \in MappedUnitSet
<1>1. u.id \in Names /\ u.work \in Names /\ u.successors \in Seq(UnitRefs)
  BY DEF Units
<1>2. ASSUME NEW k \in DOMAIN u.successors
      PROVE  MapSuccessor(s, u, u.successors[k]) \in Successors
  <2> DEFINE ref == u.successors[k]
  <2>1. ref \in UnitRefs
    BY <1>1, ElementOfSeq
  <2> HIDE DEF ref
  <2>2. ref.service \in Names /\ ref.unit \in Names /\ IsRemote(s, u, ref) \in BOOLEAN
    BY <2>1 DEF UnitRefs, IsRemote
  <2>3. (IF IsRemote(s, u, ref) THEN Lookup(svcMap, ref.service) ELSE Empty) \in Hosts
    <3>1. Lookup(svcMap, ref.service) \in Hosts
      BY LookupType
    <3>2. QED
      BY <3>1 DEF Hosts
  <2>4. MapSuccessor(s, u, ref) \in Successors
    BY <2>2, <2>3 DEF MapSuccessor, Successors
  <2>5. QED
    BY <2>4 DEF ref
<1>3. [k \in DOMAIN u.successors |-> MapSuccessor(s, u, u.successors[k])] \in Seq(Successors)
  BY <1>1, <1>2, MappedSeq
<1>4. QED
  BY <1>1, <1>3 DEF MapUnit, MappedUnitSet

\* A mapped service is a worker configuration, provided that all its units have work.
LEMMA ServiceType ==
  ASSUME \A k \in DOMAIN svcMap : svcMap[k] \in Addresses,
         \A k \in DOMAIN sinkMap : sinkMap[k] \in Addresses,
         NEW s \in Services, \A k \in DOMAIN s.units : s.units[k].work # Empty
  PROVE  MapService(s) \in Configurations
<1>1. s.id \in Names /\ s.units \in Seq(Units)
  BY DEF Services
<1>2. Lookup(sinkMap, s.sink) \in Hosts
  BY LookupType
<1>3. ASSUME NEW k \in DOMAIN s.units
      PROVE  MapUnit(s, s.units[k]) \in MappedUnitSet
  <2>1. s.units[k] \in Units
    BY <1>1, ElementOfSeq
  <2>2. QED
    BY <2>1, UnitType
<1>4. [k \in DOMAIN s.units |-> MapUnit(s, s.units[k])] \in Seq(MappedUnitSet)
  BY <1>1, <1>3, MappedSeq
<1>5. QED
  BY <1>1, <1>2, <1>4 DEF MapService, Configurations, MappedUnitSet, Successors

\* Every step keeps the types.
LEMMA TypeStep == TypeOK /\ [Next]_vars => TypeOK'
<1> SUFFICES ASSUME TypeOK, [Next]_vars
             PROVE  TypeOK'
  OBVIOUS
<1> DEFINE AddressMap(map) ==
             DOMAIN map \subseteq Names /\ \A k \in DOMAIN map : map[k] \in Addresses
<1>1. AddressMap(svcMap) /\ AddressMap(workerMap) /\ AddressMap(sinkMap)
  BY DEF TypeOK
<1>2. /\ architecture \in Descriptions /\ deployment \in DeploymentFiles
      /\ services \in Seq(Services) /\ architecture.sinks \in Seq(Names)
      /\ deployment.workers \in Seq(Pairs) /\ deployment.sinks \in Seq(Addresses)
  BY DEF TypeOK, Descriptions, DeploymentFiles, services, Pairs
<1>3. CASE ParseArchitectureDescription
  <2>1. /\ UNCHANGED <<architecture, deployment, svcMap, workerMap, sinkMap, configs, workers>>
        /\ stage' \in {"services", "fatal"}
    BY <1>3 DEF ParseArchitectureDescription, maps
  <2>2. QED
    BY <2>1 DEF TypeOK
<1>4. CASE AllocateServices
  <2> DEFINE n == Len(services)
  <2>1. /\ UNCHANGED <<architecture, deployment, sinkMap, configs, workers>>
        /\ \/ stage' = "panic" /\ UNCHANGED <<svcMap, workerMap>>
           \/ /\ stage' = "sinks" /\ n <= Len(deployment.workers)
              /\ svcMap' = SvcEntries /\ workerMap' = WorkerEntries
    BY <1>4 DEF AllocateServices, SvcEntries, WorkerEntries
  <2>2. ASSUME n <= Len(deployment.workers)
        PROVE  AddressMap(SvcEntries) /\ AddressMap(WorkerEntries)
    <3>1. n \in Nat /\ DOMAIN services = 1 .. n /\ DOMAIN ServiceKeys = 1 .. n
      BY <1>2 DEF ServiceKeys
    <3>2. ASSUME NEW i \in 1 .. n
          PROVE  /\ ServiceKeys[i] \in Names
                 /\ deployment.workers[i].service \in Addresses
                 /\ deployment.workers[i].benchmark \in Addresses
      <4>1. services[i] \in Services
        BY <1>2, <3>1, ElementOfSeq
      <4>2. i \in DOMAIN deployment.workers
        BY <1>2, <2>2, <3>1
      <4>3. deployment.workers[i] \in Pairs
        BY <1>2, <4>2, ElementOfSeq
      <4>4. QED
        BY <3>1, <4>1, <4>3 DEF Services, Pairs, ServiceKeys
    <3> HIDE DEF n
    <3> DEFINE sv == [i \in DOMAIN services |-> deployment.workers[i].service]
               bm == [i \in DOMAIN services |-> deployment.workers[i].benchmark]
    <3>3. \A i \in 1 .. n : ServiceKeys[i] \in Names /\ sv[i] \in Addresses /\ bm[i] \in Addresses
      BY <3>1, <3>2
    <3> HIDE DEF sv, bm
    <3>4. AddressMap(Filled(ServiceKeys, sv)) /\ AddressMap(Filled(ServiceKeys, bm))
      BY <3>1, <3>3, FilledTypes
    <3>5. QED
      BY <3>4 DEF SvcEntries, WorkerEntries, sv, bm
  <2>3. AddressMap(svcMap') /\ AddressMap(workerMap')
    BY <1>1, <2>1, <2>2
  <2>4. stage' \in {"sinks", "panic"}
    BY <2>1
  <2>5. QED
    BY <2>1, <2>3, <2>4 DEF TypeOK
<1>5. CASE AllocateSinks
  <2> DEFINE sinks == architecture.sinks
  <2>1. /\ UNCHANGED <<architecture, deployment, svcMap, workerMap, configs, workers>>
        /\ \/ stage' = "panic" /\ UNCHANGED sinkMap
           \/ /\ stage' = "map" /\ Len(sinks) <= Len(deployment.sinks)
              /\ sinkMap' = Filled(sinks, deployment.sinks)
    BY <1>5 DEF AllocateSinks
  <2>2. ASSUME Len(sinks) <= Len(deployment.sinks)
        PROVE  AddressMap(Filled(sinks, deployment.sinks))
    <3>1. Len(sinks) \in Nat /\ DOMAIN sinks = 1 .. Len(sinks)
      BY <1>2
    <3>2. \A i \in 1 .. Len(sinks) : sinks[i] \in Names /\ deployment.sinks[i] \in Addresses
      <4>1. \A i \in 1 .. Len(sinks) : i \in DOMAIN deployment.sinks
        BY <1>2, <2>2, <3>1
      <4>2. QED
        BY <1>2, <3>1, <4>1, ElementOfSeq
    <3> HIDE DEF sinks
    <3>3. QED
      BY <3>1, <3>2, FilledTypes
  <2>3. AddressMap(sinkMap')
    BY <1>1, <2>1, <2>2
  <2>4. stage' \in {"map", "panic"}
    BY <2>1
  <2>5. QED
    BY <2>1, <2>3, <2>4 DEF TypeOK
<1>6. CASE MapArchitectureToWorkers
  <2>1. /\ UNCHANGED <<architecture, deployment, svcMap, workerMap, sinkMap, workers>>
        /\ \/ stage' = "panic" /\ UNCHANGED configs
           \/ stage' = "setup" /\ EveryUnitHasWork /\ configs' = ConfigEntries
    BY <1>6 DEF MapArchitectureToWorkers, maps, ConfigEntries
  <2>2. ASSUME EveryUnitHasWork
        PROVE  /\ DOMAIN ConfigEntries \subseteq Names
               /\ \A id \in DOMAIN ConfigEntries : ConfigEntries[id] \in Configurations
    <3> DEFINE n == Len(services)
               cs == [i \in DOMAIN services |-> MapService(services[i])]
    <3>1. n \in Nat /\ DOMAIN services = 1 .. n /\ DOMAIN ServiceKeys = 1 .. n
      BY <1>2 DEF ServiceKeys
    <3>2. ASSUME NEW i \in 1 .. n
          PROVE  ServiceKeys[i] \in Names /\ cs[i] \in Configurations
      <4>1. services[i] \in Services /\ ServiceKeys[i] = services[i].id
        BY <1>2, <3>1, ElementOfSeq DEF ServiceKeys
      <4>2. \A k \in DOMAIN services[i].units : services[i].units[k].work # Empty
        BY <2>2, <3>1 DEF EveryUnitHasWork
      <4>3. MapService(services[i]) \in Configurations
        BY <1>1, <4>1, <4>2, ServiceType
      <4>4. QED
        BY <3>1, <4>1, <4>3 DEF Services
    <3> HIDE DEF n, cs
    <3>3. /\ DOMAIN Filled(ServiceKeys, cs) \subseteq Names
          /\ \A id \in DOMAIN Filled(ServiceKeys, cs) : Filled(ServiceKeys, cs)[id] \in Configurations
      BY <3>1, <3>2, FilledTypes
    <3>4. QED
      BY <3>3 DEF ConfigEntries, cs
  <2>3. \A id \in DOMAIN configs' : id \in Names /\ configs'[id] \in Configurations
    BY <2>1, <2>2 DEF TypeOK
  <2>4. stage' \in {"setup", "panic"}
    BY <2>1
  <2>5. Configurations' = Configurations /\ Hosts' = Hosts
    BY DEF Configurations, Hosts
  <2>6. QED
    BY <2>1, <2>3, <2>4 DEF TypeOK
<1>7. CASE Setup
  <2>1. /\ UNCHANGED <<architecture, deployment, svcMap, workerMap, sinkMap, configs>>
        /\ stage' = "ready" /\ workers' = WorkerSet
    BY <1>7 DEF Setup, maps, WorkerSet
  <2>2. WorkerSet \subseteq [address : Hosts, config : Configurations]
    <3>1. ASSUME NEW id \in DOMAIN configs
          PROVE  [address |-> Lookup(workerMap, id), config |-> configs[id]]
                   \in [address : Hosts, config : Configurations]
      <4>1. Lookup(workerMap, id) \in Hosts
        BY <1>1, LookupType
      <4>2. configs[id] \in Configurations
        BY DEF TypeOK
      <4>3. QED
        BY <4>1, <4>2
    <3>2. QED
      BY <3>1 DEF WorkerSet
  <2>3. QED
    BY <2>1, <2>2 DEF TypeOK
<1>8. CASE UNCHANGED vars
  BY <1>8 DEF vars, maps, TypeOK
<1>9. QED
  BY <1>3, <1>4, <1>5, <1>6, <1>7, <1>8 DEF Next

\* Whatever the description and the deployment file: no address map, configuration or
\* worker has a part that the interface does not allow.
THEOREM TypeCorrect == Spec => []TypeOK
<1>1. Init => TypeOK
  BY DeploymentAssumption DEF Init, TypeOK, NoEntry
<1>2. QED
  BY <1>1, TypeStep, PTL DEF Spec

=============================================================================
