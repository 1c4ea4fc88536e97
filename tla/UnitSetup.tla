----------------------------- MODULE UnitSetup -----------------------------
(***************************************************************************)
(* What the workers of one process build from the units they are           *)
(* configured with, and what invocations make of it: the work samplers of  *)
(* worker/distributions.go, the executors of worker/unit.go with their     *)
(* span metadata, and the ticker intervals of worker/generator.go.         *)
(*                                                                         *)
(* The samplers and the source of random numbers exist once per process    *)
(* and are used without a lock by every set-up and every invocation.       *)
(*                                                                         *)
(* A string is a sequence of letters, a duration a number of microseconds, *)
(* and throughput ratios are counted in hundredths.                        *)
(***************************************************************************)
EXTENDS GoMaps, FiniteSets

CONSTANTS
  Workers,     \* the workers of the process (more than one for "workers")
  Letters,     \* the letters of random strings
  Configs,     \* the configurations the workers may be started with
  Deviations,  \* bound: multiples of its parameter a random sample may be off
  Invocations  \* the invocations that are followed

Parameters == {"value", "mean", "stddev"}

\* What a sampler keeps: its parameters, and lambda as the mean it is the inverse of.
Fields == Parameters \cup {"lambda"}

Templates == [keyStatic : Seq(Letters), keyLength : Int,
              valueStatic : Seq(Letters), valueLength : Int]

Kinds == {"tags", "baggage", "logs"}

\* A unit without work, or with work "none" in any case, has type "none".
Units == [type : STRING, params : [Parameters -> Int], ratio : Int,
          context : [Kinds -> Seq(Templates)]]

ASSUME UnitSetupAssumption ==
  /\ Configs \subseteq [throughput : Int, units : [Workers -> Seq(Units)]]
  /\ Deviations \subseteq Int /\ 0 \in Deviations

VARIABLES
  config,      \* the configuration of this behaviour
  process,     \* "up", or how it ended
  samplers,    \* distributionRegistry: the fields of each sampler
  at,          \* where the set-up loop of each worker is
  unit,        \* the unit it is at
  assigning,   \* the fields SetParameters has still to assign
  executors,   \* the metadata of the executors made so far, unit by unit
  generators,  \* the ticker intervals of its generators, by unit
  inv          \* the invocations

vars == <<config, process, samplers, at, unit, assigning, executors, generators, inv>>

UnitsOf(w) == config.units[w]
This(w) == UnitsOf(w)[unit[w]]

NoInvocation == [at |-> "free"]

-----------------------------------------------------------------------------
\* distributions.go.

\* The registered samplers, with the fields that SetParameters assigns.
ParameterNames ==
  [constant |-> <<"value">>, gaussian |-> <<"mean", "stddev">>, exponential |-> <<"mean", "lambda">>]

\* Mutant: mean and deviation are swapped.
Assigned_Swapped(u, f) ==
  CASE f = "mean" -> u.params["stddev"] [] f = "stddev" -> u.params["mean"]
    [] f = "lambda" -> samplers[u.type]["mean"] [] OTHER -> u.params[f]

\* The value that unit u assigns to a field of its sampler: lambda is calculated from
\* the mean the sampler has by now. A parameter that is missing in the configuration is 0.
Assigned(u, f) == IF f = "lambda" THEN samplers[u.type]["mean"] ELSE u.params[f]

\* The fields of a sampler that is set up for nothing but unit u.
Configured(u) == [f \in Fields |-> u.params[IF f = "lambda" THEN "mean" ELSE f]]

\* The samplers that read the shared source of random numbers.
Draws(type) == type \in {"gaussian", "exponential"}

\* GetNextValue of the sampler with these fields; a timer that is set to a
\* negative duration fires at once.
NextValues(type, ps) ==
  {IF d < 0 THEN 0 ELSE d : d \in
     CASE type = "constant" -> {ps["value"]}
       [] type = "gaussian" -> {ps["mean"] + k * ps["stddev"] : k \in Deviations}
       [] type = "exponential" -> {ps["lambda"] * k : k \in Deviations \cap Nat}
       [] type = "none" -> {0}}

RandStringWithLength(n) == [1 .. n -> Letters]

-----------------------------------------------------------------------------
\* Metadata templates and intervals.

\* Random when a length is given, static otherwise.
Strings(static, length) == IF length <= 0 THEN {static} ELSE RandStringWithLength(length)

\* The maps generateStringMap may return: equal keys replace each other.
StringMaps(ts) ==
  LET Draw(choices) == {f \in [DOMAIN ts -> UNION {choices[i] : i \in DOMAIN ts}] :
                          \A i \in DOMAIN ts : f[i] \in choices[i]}
  IN  {Filled(k, v) :
         k \in Draw([i \in DOMAIN ts |-> Strings(ts[i].keyStatic, ts[i].keyLength)]),
         v \in Draw([i \in DOMAIN ts |-> Strings(ts[i].valueStatic, ts[i].valueLength)])}

\* toContext of the coordinator copies tags and baggage, and no logs.
toContext(c) == [c EXCEPT !["logs"] = << >>]

Contexts(u) ==
  LET received == toContext(u.context)
  IN  {c \in [Kinds -> UNION {StringMaps(received[k]) : k \in Kinds}] :
         \A k \in Kinds : c[k] \in StringMaps(received[k])}

RandomContext(u) ==
  \E k \in Kinds \ {"logs"} : \E i \in DOMAIN u.context[k] :
    u.context[k][i].keyLength > 0 \/ u.context[k][i].valueLength > 0

\* Hundredths of calls per second that a generator is to start.
EffectiveThroughput(u) == config.throughput * u.ratio

Million == 1000000 * 100

\* Mutant: the interval is rounded up.
Interval_Up(t) == IF t <= 0 \/ t > Million THEN 1 ELSE (Million + t - 1) \div t

\* Mutant: the maximum is not checked.
Interval_Unchecked(t) == IF t <= 0 THEN 1 ELSE Million \div t

\* calculateIntervalForThroughput: cut to whole microseconds; a target of 0, below
\* it or above one million means one million.
Interval(t) == IF t <= 0 \/ t > Million THEN 1 ELSE Million \div t

-----------------------------------------------------------------------------
Init ==
  /\ config \in Configs
  /\ process = "up"
  /\ samplers = [d \in DOMAIN ParameterNames |-> [f \in Fields |-> 0]]
  /\ at = [w \in Workers |-> "lookup"]
  /\ unit = [w \in Workers |-> 1]
  /\ assigning = [w \in Workers |-> << >>]
  /\ executors = [w \in Workers |-> << >>]
  /\ generators = [w \in Workers |-> << >>]
  /\ inv = [i \in Invocations |-> NoInvocation]

\* LookupDistribution: no work, a registered sampler, or an error, log.Fatalf.
LookupDistribution(w) ==
  /\ at[w] = "lookup"
  /\ unit[w] <= Len(UnitsOf(w))
  /\ \/ /\ This(w).type = "none"
        /\ at' = [at EXCEPT ![w] = "context"]
        /\ UNCHANGED <<process, assigning>>
     \/ /\ This(w).type \in DOMAIN samplers
        /\ at' = [at EXCEPT ![w] = "parameters"]
        /\ assigning' = [assigning EXCEPT ![w] = ParameterNames[This(w).type]]
        /\ UNCHANGED process
     \/ /\ This(w).type \notin DOMAIN samplers \cup {"none"}
        /\ process' = "fatal"
        /\ UNCHANGED <<at, assigning>>
  /\ UNCHANGED <<config, samplers, unit, executors, generators, inv>>

\* SetParameters of the shared sampler, one assignment after the other.
SetParameter(w) ==
  LET f == Head(assigning[w])
  IN
  /\ at[w] = "parameters"
  /\ samplers' = [samplers EXCEPT ![This(w).type][f] = Assigned(This(w), f)]
  /\ assigning' = [assigning EXCEPT ![w] = Tail(@)]
  /\ at' = [at EXCEPT ![w] = IF Len(assigning[w]) = 1 THEN "context" ELSE @]
  /\ UNCHANGED <<config, process, unit, executors, generators, inv>>

\* The rest of CreateUnitExecutorFromConfig, and the registration.
CreateUnitExecutor(w) ==
  /\ at[w] = "context"
  /\ \E c \in Contexts(This(w)) : executors' = [executors EXCEPT ![w] = Append(@, c)]
  /\ at' = [at EXCEPT ![w] = "lookup"]
  /\ unit' = [unit EXCEPT ![w] = @ + 1]
  /\ UNCHANGED <<config, process, samplers, assigning, generators, inv>>

\* Units with a positive ratio get a generator.
LaunchLoad(w) ==
  /\ at[w] = "lookup"
  /\ unit[w] > Len(UnitsOf(w))
  /\ at' = [at EXCEPT ![w] = "load"]
  /\ generators' = [generators EXCEPT ![w] =
                      [n \in {k \in DOMAIN UnitsOf(w) : UnitsOf(w)[k].ratio > 0} |->
                         Interval(EffectiveThroughput(UnitsOf(w)[n]))]]
  /\ UNCHANGED <<config, process, samplers, unit, assigning, executors, inv>>

\* Mutant: random metadata is generated for every span.
Metadata_Anew(w, n) == Contexts(UnitsOf(w)[n])

\* AddContextMetadata: the metadata of the executor.
Metadata(w, n) == {executors[w][n]}

\* Another worker, a generator or a local unit invokes the n-th unit of worker w.
Invoke(i, w, n) ==
  /\ inv[i].at = "free"
  /\ n \in DOMAIN executors[w]
  /\ \E c \in Metadata(w, n) :
       inv' = [inv EXCEPT ![i] = [at |-> "work", worker |-> w, unit |-> n, context |-> c]]
  /\ UNCHANGED <<config, process, samplers, at, unit, assigning, executors, generators>>

UnitOf(i) == UnitsOf(inv[i].worker)[inv[i].unit]

\* It waits for what the sampler says now.
EmulateWork(i) ==
  LET type == UnitOf(i).type
  IN
  /\ inv[i].at = "work"
  /\ \E d \in NextValues(type, IF type = "none" THEN << >> ELSE samplers[type]) :
       inv' = [inv EXCEPT ![i] = [at |-> "worked", worker |-> @.worker, unit |-> @.unit,
                                  context |-> @.context, duration |-> d]]
  /\ UNCHANGED <<config, process, samplers, at, unit, assigning, executors, generators>>

\* Two goroutines in the source of random numbers at once: its index may leave
\* its range.
SourceRace ==
  /\ \/ \E i, j \in Invocations :
          i # j /\ \A k \in {i, j} : inv[k].at = "work" /\ Draws(UnitOf(k).type)
     \/ \E v, w \in Workers :
          v # w /\ \A x \in {v, w} : at[x] = "context" /\ RandomContext(This(x))
     \/ \E i \in Invocations, w \in Workers :
          /\ inv[i].at = "work" /\ Draws(UnitOf(i).type)
          /\ at[w] = "context" /\ RandomContext(This(w))
  /\ process' = "panic"
  /\ UNCHANGED <<config, samplers, at, unit, assigning, executors, generators, inv>>

SetUp(w) ==
  LookupDistribution(w) \/ SetParameter(w) \/ CreateUnitExecutor(w) \/ LaunchLoad(w)

Next ==
  /\ process = "up"
  /\ \/ \E w \in Workers : SetUp(w)
     \/ \E i \in Invocations :
          \/ \E w \in Workers : \E n \in DOMAIN UnitsOf(w) : Invoke(i, w, n)
          \/ EmulateWork(i)
     \/ SourceRace

Spec == Init /\ [][Next]_vars

-----------------------------------------------------------------------------
\* Properties.

\* Every variable has a value of its type; the interval of a generator is never 0,
\* with which its ticker would panic.
TypeOK ==
  /\ config \in Configs
  /\ process \in {"up", "fatal", "panic"}
  /\ samplers \in [DOMAIN ParameterNames -> [Fields -> Int]]
  /\ at \in [Workers -> {"lookup", "parameters", "context", "load"}]
  /\ \A w \in Workers :
       /\ unit[w] \in 1 .. Len(UnitsOf(w)) + 1
       /\ assigning[w] \in Seq(Fields)
       /\ Len(executors[w]) = unit[w] - 1
       /\ DOMAIN generators[w] \subseteq DOMAIN UnitsOf(w)
       /\ \A n \in DOMAIN generators[w] : generators[w][n] \in Nat \ {0}
  /\ \A i \in Invocations : inv[i].at \in {"free", "work", "worked"}

\* Another unit of the process has work of the same type with other parameters.
Contended(u) ==
  \E w \in Workers : \E n \in DOMAIN UnitsOf(w) :
    UnitsOf(w)[n].type = u.type /\ UnitsOf(w)[n].params # u.params

WorksAsConfigured(i) == inv[i].duration \in NextValues(UnitOf(i).type, Configured(UnitOf(i)))

\* A unit works as long as its own configuration says unless another unit of the
\* process, of whichever worker, has work of the same type with other parameters:
\* no set-up, however it is interleaved, disturbs the samplers of other types.
OwnWorkUnlessContended ==
  \A i \in Invocations :
    inv[i].at = "worked" /\ ~ Contended(UnitOf(i)) => WorksAsConfigured(i)

\* The static keys of one kind of metadata in a description have an entry in what an
\* invocation carries.
StaticKeysIn(i, k) ==
  \A n \in DOMAIN UnitOf(i).context[k] :
    LET t == UnitOf(i).context[k][n]
    IN  t.keyLength <= 0 => t.keyStatic \in DOMAIN inv[i].context[k]

\* "Random value trace metadata is generated once during bootstrapping of each
\* worker, i.e. remains constant throughout the course of one benchmark."
\* (README.md): all invocations of a unit carry the same metadata, in which each
\* static key of its described tags and baggage has an entry.
MetadataConstant ==
  \A i, j \in Invocations :
    /\ inv[i].at # "free" /\ inv[j].at # "free"
    /\ inv[i].worker = inv[j].worker /\ inv[i].unit = inv[j].unit
    => /\ inv[i].context = inv[j].context
       /\ \A k \in {"tags", "baggage"} : StaticKeysIn(i, k)

\* "The target throughput per second" (cmd/bench.go): the ticker of a generator is
\* never slower than its target and less than twice as fast, for every target
\* from one call in a hundred seconds to a million a second.
RateMeetsTarget ==
  \A w \in Workers : \A n \in DOMAIN generators[w] :
    LET t == EffectiveThroughput(UnitsOf(w)[n])
    IN  t \in 1 .. Million =>
          generators[w][n] * t <= Million /\ Million < 2 * generators[w][n] * t

-----------------------------------------------------------------------------
\* What documentation says, and the code does not keep.

\* "Durations for work can be either hardcoded to static values or sampled from
\* different distributions" (README.md), work being a reference of each unit to
\* a work template: a unit works as long as its own template says.
WorkAsConfigured ==
  \A i \in Invocations : inv[i].at = "worked" => WorksAsConfigured(i)

=============================================================================
