-------------------------- MODULE UnitSetupProofs --------------------------
(***************************************************************************)
(* Proofs about UnitSetup.tla, for any workers, configurations and numbers *)
(* of invocations.                                                         *)
(***************************************************************************)
EXTENDS UnitSetup, TLAPS

-----------------------------------------------------------------------------
\* What the operators of the model return.

\* One million calls per second, in hundredths, is a number.
LEMMA MillionNumber == Million \in Nat
BY SMT DEF Million

\* A quotient that is cut to a whole number is not too large, nor half of it.
LEMMA Quotient ==
  ASSUME NEW m \in Nat, NEW t \in 1 .. m
  PROVE  /\ m \div t \in Nat \ {0}
         /\ (m \div t) * t <= m
         /\ m < 2 * (m \div t) * t
<1> DEFINE q == m \div t
           r == m % t
<1>1. t \in Nat \ {0} /\ t <= m
  OBVIOUS
<1>2. m = t * q + r /\ q \in Int /\ r \in 0 .. t - 1
  BY <1>1
<1> HIDE DEF q, r
<1>3. q >= 1
  <2>1. ASSUME q <= 0
        PROVE  FALSE
    <3>1. t * q <= 0
      BY <1>1, <1>2, <2>1
    <3>2. QED
      BY <1>1, <1>2, <3>1
  <2>2. QED
    BY <1>2, <2>1
<1>4. t * q >= t
  BY <1>1, <1>2, <1>3
<1>5. q * t = t * q /\ 2 * q * t = t * q + t * q
  BY <1>1, <1>2
<1>6. q * t <= m /\ m < 2 * q * t
  BY <1>1, <1>2, <1>4, <1>5
<1>7. QED
  BY <1>2, <1>3, <1>6 DEF q

\* The interval of a ticker is positive.
LEMMA IntervalPositive ==
  ASSUME NEW t \in Int
  PROVE  Interval(t) \in Nat \ {0}
<1>1. CASE t <= 0 \/ t > Million
  BY <1>1 DEF Interval
<1>2. CASE ~ (t <= 0 \/ t > Million)
  <2>1. t \in 1 .. Million
    BY <1>2, MillionNumber
  <2>2. Interval(t) = Million \div t
    BY <1>2 DEF Interval
  <2>3. QED
    BY <2>1, <2>2, MillionNumber, Quotient
<1>3. QED
  BY <1>1, <1>2

\* The names in ParameterNames.
LEMMA Samplers ==
  /\ DOMAIN ParameterNames = {"constant", "gaussian", "exponential"}
  /\ ParameterNames["constant"] = <<"value">>
  /\ ParameterNames["gaussian"] = <<"mean", "stddev">>
  /\ ParameterNames["exponential"] = <<"mean", "lambda">>
BY DEF ParameterNames

\* The fields that a sampler works with.
Used(type) ==
  CASE type = "constant" -> {"value"}
    [] type = "gaussian" -> {"mean", "stddev"}
    [] type = "exponential" -> {"mean", "lambda"}
    [] OTHER -> {}

\* Only a registered sampler has fields.
LEMMA UsedTypes ==
  ASSUME NEW type
  PROVE  /\ Used(type) \subseteq Fields
         /\ Used(type) # {} => type \in DOMAIN ParameterNames
         /\ Used("constant") = {"value"} /\ Used("gaussian") = {"mean", "stddev"}
         /\ Used("exponential") = {"mean", "lambda"} /\ Used("none") = {}
<1>1. /\ Used("constant") = {"value"} /\ Used("gaussian") = {"mean", "stddev"}
      /\ Used("exponential") = {"mean", "lambda"} /\ Used("none") = {}
  BY DEF Used
<1>2. type \notin {"constant", "gaussian", "exponential"} => Used(type) = {}
  BY DEF Used
<1>3. QED
  BY <1>1, <1>2, Samplers DEF Fields, Parameters

\* What a sampler returns depends on nothing but these.
LEMMA NextValuesUsed ==
  ASSUME NEW type \in DOMAIN ParameterNames, NEW ps, NEW qs,
         \A p \in Used(type) : ps[p] = qs[p]
  PROVE  NextValues(type, ps) = NextValues(type, qs)
<1>1. CASE type = "constant"
  BY <1>1, UsedTypes DEF NextValues
<1>2. CASE type = "gaussian"
  BY <1>2, UsedTypes DEF NextValues
<1>3. CASE type = "exponential"
  BY <1>3, UsedTypes DEF NextValues
<1>4. QED
  BY <1>1, <1>2, <1>3, Samplers

\* A unit without work does not wait, whatever parameters it is given.
LEMMA NextValuesNone ==
  ASSUME NEW ps, NEW qs
  PROVE  NextValues("none", ps) = NextValues("none", qs)
BY DEF NextValues

\* A static key of the tags or the baggage is in every map that generateStringMap returns.
LEMMA StaticKeys ==
  ASSUME NEW u, u.context \in [Kinds -> Seq(Templates)], NEW c \in Contexts(u),
         NEW k \in {"tags", "baggage"}, NEW n \in DOMAIN u.context[k],
         u.context[k][n].keyLength <= 0
  PROVE  u.context[k][n].keyStatic \in DOMAIN c[k]
<1> DEFINE ts == u.context[k]
           Choices == [j \in DOMAIN ts |-> Strings(ts[j].keyStatic, ts[j].keyLength)]
           Values == [j \in DOMAIN ts |-> Strings(ts[j].valueStatic, ts[j].valueLength)]
           Draw(choices) == {f \in [DOMAIN ts -> UNION {choices[j] : j \in DOMAIN ts}] :
                               \A j \in DOMAIN ts : f[j] \in choices[j]}
<1>1. c[k] \in StringMaps(ts)
  <2>1. k \in Kinds /\ toContext(u.context)[k] = ts
    BY DEF Kinds, toContext
  <2> HIDE DEF ts
  <2>2. QED
    BY <2>1 DEF Contexts
<1> DEFINE S == Draw(Choices)
           T == Draw(Values)
<1>2. StringMaps(ts) = {Filled(keys, values) : keys \in S, values \in T}
  BY DEF StringMaps
<1>3. PICK keys \in S, values \in T : c[k] = Filled(keys, values)
  <2> HIDE DEF ts, S, T
  <2>1. QED
    BY <1>1, <1>2
<1>4. DOMAIN keys = DOMAIN ts /\ keys[n] \in Choices[n]
  BY <1>3
<1>5. keys[n] = ts[n].keyStatic
  BY <1>4 DEF Strings
<1>6. keys[n] \in DOMAIN c[k]
  BY <1>3, <1>4 DEF Filled
<1>7. QED
  BY <1>5, <1>6

-----------------------------------------------------------------------------
(***************************************************************************)
(* The inductive invariant.                                                *)
(***************************************************************************)
AllContexts == UNION {Contexts(u) : u \in Units}

\* The variables have these types.
Typed ==
  /\ config \in Configs
  /\ process \in {"up", "fatal", "panic"}
  /\ samplers \in [DOMAIN ParameterNames -> [Fields -> Int]]
  /\ at \in [Workers -> {"lookup", "parameters", "context", "load"}]
  /\ unit \in [Workers -> Nat]
  /\ DOMAIN assigning = Workers
  /\ DOMAIN executors = Workers
  /\ DOMAIN generators = Workers
  /\ DOMAIN inv = Invocations

\* The units of worker w whose work is looked up and whose parameters are assigned.
Bound(w) == IF at[w] = "context" THEN 1 .. unit[w] ELSE 1 .. unit[w] - 1

\* A field that is assigned stays so unless the work is contended.
Holds(u, f) == Contended(u) \/ samplers[u.type][f] = Configured(u)[f]

\* The samplers that are set up with two assignments, and the second of them.
Two(type) == type \in {"gaussian", "exponential"}
Second(type) == IF type = "gaussian" THEN <<"stddev">> ELSE <<"lambda">>

\* Where a worker is in its units.
Progress(w) ==
  /\ unit[w] \in 1 .. Len(UnitsOf(w)) + 1
  /\ at[w] \in {"parameters", "context"} => unit[w] <= Len(UnitsOf(w))
  /\ at[w] # "parameters" => assigning[w] = << >>
  /\ at[w] = "parameters" =>
       /\ This(w).type \in DOMAIN ParameterNames
       /\ \/ assigning[w] = ParameterNames[This(w).type]
          \/ /\ Two(This(w).type) /\ assigning[w] = Second(This(w).type)
             /\ Holds(This(w), "mean")

\* The samplers work for the units that are set up.
SamplersInv(w) ==
  \A n \in Bound(w) :
    /\ UnitsOf(w)[n].type \in DOMAIN ParameterNames \cup {"none"}
    /\ \A p \in Used(UnitsOf(w)[n].type) : Holds(UnitsOf(w)[n], p)

\* Each executor has metadata that its unit's templates allow.
ExecutorsInv(w) ==
  /\ executors[w] \in Seq(AllContexts)
  /\ Len(executors[w]) = unit[w] - 1
  /\ \A n \in 1 .. unit[w] - 1 : executors[w][n] \in Contexts(UnitsOf(w)[n])

\* The interval of a generator is the one that is calculated for its unit.
GeneratorsInv(w) ==
  /\ DOMAIN generators[w] \subseteq DOMAIN UnitsOf(w)
  /\ \A n \in DOMAIN generators[w] :
       generators[w][n] = Interval(EffectiveThroughput(UnitsOf(w)[n]))

\* An invocation has the metadata of its executor, and the duration of its work.
InvocationInv(i) ==
  /\ inv[i].at \in {"free", "work", "worked"}
  /\ inv[i].at # "free" =>
       /\ inv[i].worker \in Workers
       /\ inv[i].unit \in 1 .. unit[inv[i].worker] - 1
       /\ inv[i].context = executors[inv[i].worker][inv[i].unit]
  /\ inv[i].at = "worked" => Contended(UnitOf(i)) \/ WorksAsConfigured(i)

WorkerInv(w) == Progress(w) /\ SamplersInv(w) /\ ExecutorsInv(w) /\ GeneratorsInv(w)

Inv ==
  /\ Typed
  /\ \A w \in Workers : WorkerInv(w)
  /\ \A i \in Invocations : InvocationInv(i)

\* The units of a worker and what they are made of.
LEMMA UnitTypes ==
  ASSUME config \in Configs, NEW w \in Workers
  PROVE  /\ UnitsOf(w) \in Seq(Units) /\ Len(UnitsOf(w)) \in Nat
         /\ DOMAIN UnitsOf(w) = 1 .. Len(UnitsOf(w))
         /\ config.throughput \in Int
         /\ \A n \in 1 .. Len(UnitsOf(w)) :
              /\ UnitsOf(w)[n] \in Units
              /\ UnitsOf(w)[n].params \in [Parameters -> Int]
              /\ UnitsOf(w)[n].ratio \in Int
              /\ UnitsOf(w)[n].context \in [Kinds -> Seq(Templates)]
<1>1. config \in [throughput : Int, units : [Workers -> Seq(Units)]]
  BY UnitSetupAssumption
<1>2. UnitsOf(w) \in Seq(Units) /\ config.throughput \in Int
  BY <1>1 DEF UnitsOf
<1>3. \A n \in 1 .. Len(UnitsOf(w)) : UnitsOf(w)[n] \in Units
  BY <1>2
<1>4. \A u \in Units : /\ u.params \in [Parameters -> Int] /\ u.ratio \in Int
                     /\ u.context \in [Kinds -> Seq(Templates)]
  BY DEF Units
<1>5. QED
  BY <1>2, <1>3, <1>4

\* The configuration is not changed, nor what only depends on it.
LEMMA ConfigSame ==
  ASSUME config' = config
  PROVE  /\ \A w \in Workers : UnitsOf(w)' = UnitsOf(w)
         /\ \A u : Contended(u)' <=> Contended(u)
<1>1. \A w : UnitsOf(w)' = UnitsOf(w)
  BY DEF UnitsOf
<1>2. QED
  BY <1>1 DEF Contended

\* What a step leaves of the set-up of worker v.
SameWorker(v) ==
  /\ at'[v] = at[v] /\ unit'[v] = unit[v] /\ assigning'[v] = assigning[v]
  /\ executors'[v] = executors[v] /\ generators'[v] = generators[v]

\* A worker that does not move keeps its invariant if the samplers are kept.
LEMMA WorkerSame ==
  ASSUME config' = config, NEW v \in Workers, WorkerInv(v), SameWorker(v),
         \A n \in 1 .. Len(UnitsOf(v)) : \A p \in Used(UnitsOf(v)[n].type) :
           Holds(UnitsOf(v)[n], p) => Holds(UnitsOf(v)[n], p)',
         unit[v] <= Len(UnitsOf(v)) /\ at[v] = "parameters" /\ Two(This(v).type) =>
           (Holds(This(v), "mean") => Holds(This(v), "mean")'),
         Len(UnitsOf(v)) \in Nat
  PROVE  WorkerInv(v)'
<1>1. UnitsOf(v)' = UnitsOf(v) /\ This(v)' = This(v)
  BY ConfigSame DEF SameWorker, This
<1>2. Progress(v)'
  BY <1>1 DEF WorkerInv, Progress, SameWorker
<1>3. Bound(v)' = Bound(v) /\ Bound(v) \subseteq 1 .. Len(UnitsOf(v))
  BY DEF WorkerInv, Progress, SameWorker, Bound
<1>4. SamplersInv(v)'
  BY <1>1, <1>3 DEF WorkerInv, SamplersInv
<1>5. ExecutorsInv(v)'
  BY <1>1 DEF WorkerInv, ExecutorsInv, SameWorker
<1>6. GeneratorsInv(v)'
  BY <1>1, ConfigSame DEF WorkerInv, GeneratorsInv, SameWorker, EffectiveThroughput
<1>7. QED
  BY <1>2, <1>4, <1>5, <1>6 DEF WorkerInv

\* The same when no parameter is assigned.
LEMMA WorkerKept ==
  ASSUME Typed, UNCHANGED <<config, samplers>>, NEW v \in Workers, WorkerInv(v), SameWorker(v)
  PROVE  WorkerInv(v)'
<1>1. \A u, p : Holds(u, p) => Holds(u, p)'
  BY ConfigSame DEF Holds
<1>2. Len(UnitsOf(v)) \in Nat
  BY UnitTypes DEF Typed
<1>3. \A n \in 1 .. Len(UnitsOf(v)) : \A p \in Used(UnitsOf(v)[n].type) :
        Holds(UnitsOf(v)[n], p) => Holds(UnitsOf(v)[n], p)'
  BY ConfigSame DEF Holds
<1>4. Holds(This(v), "mean") => Holds(This(v), "mean")'
  <2>1. This(v)' = This(v)
    BY ConfigSame DEF SameWorker, This
  <2>2. QED
    BY <1>1, <2>1
<1>5. QED
  BY <1>2, <1>3, <1>4, WorkerSame

\* An invocation that is under way is not disturbed by a set-up.
LEMMA InvocationSame ==
  ASSUME Inv, NEW i \in Invocations, config' = config, inv'[i] = inv[i],
         \A w \in Workers : unit'[w] >= unit[w] /\ unit'[w] \in Nat,
         \A w \in Workers : \A n \in 1 .. unit[w] - 1 : executors'[w][n] = executors[w][n]
  PROVE  InvocationInv(i)'
<1>1. InvocationInv(i)
  BY DEF Inv
<1>2. CASE inv[i].at = "free"
  BY <1>2 DEF InvocationInv
<1>3. CASE inv[i].at # "free"
  <2> DEFINE w == inv[i].worker
             n == inv[i].unit
  <2>1. w \in Workers /\ n \in 1 .. unit[w] - 1 /\ inv[i].context = executors[w][n]
    BY <1>1, <1>3 DEF InvocationInv
  <2>2. unit[w] \in Nat /\ unit'[w] \in Nat /\ unit'[w] >= unit[w]
    BY <2>1 DEF Inv, Typed
  <2>3. n \in 1 .. unit'[w] - 1 /\ inv[i].context = executors'[w][n]
    BY <2>1, <2>2
  <2>4. UnitOf(i)' = UnitOf(i)
    BY <2>1, ConfigSame DEF UnitOf
  <2>5. Contended(UnitOf(i))' <=> Contended(UnitOf(i))
    BY <2>4, ConfigSame
  <2>6. WorksAsConfigured(i)' <=> WorksAsConfigured(i)
    BY <2>4 DEF WorksAsConfigured
  <2>7. QED
    BY <1>1, <2>1, <2>3, <2>5, <2>6 DEF InvocationInv
<1>4. QED
  BY <1>2, <1>3

-----------------------------------------------------------------------------
(***************************************************************************)
(* Every step keeps the invariant.                                         *)
(***************************************************************************)

\* The work of a unit is looked up.
LEMMA LookupInv ==
  ASSUME Inv, NEW w \in Workers, LookupDistribution(w)
  PROVE  Inv'
<1>1. /\ UNCHANGED <<config, samplers, unit, executors, generators, inv>>
      /\ at[w] = "lookup" /\ unit[w] <= Len(UnitsOf(w)) /\ Typed /\ WorkerInv(w)
  BY DEF LookupDistribution, Inv
<1>2. \/ /\ This(w).type = "none" /\ UNCHANGED <<process, assigning>>
         /\ at' = [at EXCEPT ![w] = "context"]
      \/ /\ This(w).type \in DOMAIN ParameterNames /\ process' = process
         /\ at' = [at EXCEPT ![w] = "parameters"]
         /\ assigning' = [assigning EXCEPT ![w] = ParameterNames[This(w).type]]
      \/ process' = "fatal" /\ UNCHANGED <<at, assigning>>
  BY <1>1 DEF LookupDistribution, Typed
<1>3. Typed'
  BY <1>1, <1>2 DEF Typed
<1>4. UnitsOf(w)' = UnitsOf(w) /\ This(w)' = This(w) /\ unit[w] \in Nat
      /\ Len(UnitsOf(w)) \in Nat
  BY <1>1, ConfigSame, UnitTypes DEF This, Typed
<1>5. ASSUME NEW v \in Workers
      PROVE  WorkerInv(v)'
  <2>1. WorkerInv(v)
    BY DEF Inv
  <2>2. CASE v # w \/ UNCHANGED <<at, assigning>>
    <3>1. SameWorker(v)
      BY <1>1, <1>2, <2>2 DEF Typed, SameWorker
    <3>2. QED
      BY <1>1, <2>1, <3>1, WorkerKept
  <2>3. CASE v = w /\ at' = [at EXCEPT ![w] = "context"] /\ This(w).type = "none"
                   /\ assigning' = assigning
    <3>1. at'[w] = "context" /\ assigning'[w] = << >>
      BY <1>1, <2>3 DEF Typed, WorkerInv, Progress
    <3>2. Progress(w)'
      BY <1>1, <1>4, <3>1 DEF WorkerInv, Progress
    <3>3. SamplersInv(w)'
      <4>1. ASSUME NEW n \in Bound(w)'
            PROVE  n \in Bound(w) \/ n = unit[w]
        BY <1>1, <1>4, <3>1 DEF Bound
      <4>2. ASSUME NEW n \in Bound(w), NEW p
            PROVE  Holds(UnitsOf(w)[n], p) => Holds(UnitsOf(w)[n], p)'
        BY <1>1, <1>4, ConfigSame DEF Holds
      <4>3. ASSUME NEW n \in Bound(w)'
            PROVE  /\ UnitsOf(w)[n].type \in DOMAIN ParameterNames \cup {"none"}
                   /\ \A p \in Used(UnitsOf(w)[n].type) : Holds(UnitsOf(w)[n], p)'
        <5>1. CASE n \in Bound(w)
          BY <1>1, <4>2, <5>1 DEF WorkerInv, SamplersInv
        <5>2. CASE n = unit[w]
          BY <2>3, <5>2, UsedTypes DEF This
        <5>3. QED
          BY <4>1, <5>1, <5>2
      <4>4. QED
        BY <1>4, <4>3 DEF SamplersInv
    <3>4. ExecutorsInv(w)' /\ GeneratorsInv(w)'
      BY <1>1, <1>4, ConfigSame
         DEF WorkerInv, ExecutorsInv, GeneratorsInv, EffectiveThroughput
    <3>5. QED
      BY <2>3, <3>2, <3>3, <3>4 DEF WorkerInv
  <2>4. CASE v = w /\ at' = [at EXCEPT ![w] = "parameters"]
                   /\ This(w).type \in DOMAIN ParameterNames
                   /\ assigning' = [assigning EXCEPT ![w] = ParameterNames[This(w).type]]
    <3>1. at'[w] = "parameters" /\ assigning'[w] = ParameterNames[This(w).type]
      BY <2>4 DEF Typed, Inv
    <3>2. Progress(w)'
      BY <1>1, <1>4, <2>4, <3>1 DEF WorkerInv, Progress
    <3>3. Bound(w)' = Bound(w)
      BY <1>1, <3>1 DEF Bound
    <3>4. \A u, p : Holds(u, p) => Holds(u, p)'
      BY <1>1, ConfigSame DEF Holds
    <3>5. SamplersInv(w)'
      BY <1>1, <1>4, <3>3, <3>4 DEF WorkerInv, SamplersInv
    <3>6. ExecutorsInv(w)' /\ GeneratorsInv(w)'
      BY <1>1, <1>4, ConfigSame
         DEF WorkerInv, ExecutorsInv, GeneratorsInv, EffectiveThroughput
    <3>7. QED
      BY <2>4, <3>2, <3>5, <3>6 DEF WorkerInv
  <2>5. QED
    BY <1>2, <2>2, <2>3, <2>4
<1>6. ASSUME NEW i \in Invocations
      PROVE  InvocationInv(i)'
  BY <1>1, InvocationSame DEF Typed
<1>7. QED
  BY <1>3, <1>5, <1>6 DEF Inv

\* A field of the sampler gets the value its unit is configured with, or the work is
\* contended: nobody else has changed the mean that lambda is calculated from.
LEMMA AssignedValue ==
  ASSUME Typed, NEW u \in Units, u.type \in DOMAIN ParameterNames, NEW f \in Used(u.type),
         f = "lambda" => Holds(u, "mean")
  PROVE  Assigned(u, f) \in Int /\ (Contended(u) \/ Assigned(u, f) = Configured(u)[f])
<1>1. u.params \in [Parameters -> Int] /\ samplers[u.type] \in [Fields -> Int]
  BY DEF Units, Typed
<1>2. f \in Fields /\ "mean" \in Fields
  BY UsedTypes DEF Fields, Parameters
<1>3. CASE f = "lambda"
  <2>1. Assigned(u, f) = samplers[u.type]["mean"] /\ Configured(u)[f] = Configured(u)["mean"]
    BY <1>2, <1>3 DEF Assigned, Configured
  <2>2. QED
    BY <1>1, <1>2, <1>3, <2>1 DEF Holds
<1>4. CASE f # "lambda"
  <2>1. Assigned(u, f) = u.params[f] /\ Configured(u)[f] = u.params[f] /\ f \in Parameters
    BY <1>2, <1>4 DEF Assigned, Configured, Fields
  <2>2. QED
    BY <1>1, <2>1
<1>5. QED
  BY <1>3, <1>4

\* What one assignment of SetParameters does.
LEMMA SetParameterEffect ==
  ASSUME Inv, NEW w \in Workers, SetParameter(w)
  PROVE  /\ unit[w] \in 1 .. Len(UnitsOf(w))
         /\ This(w).type \in DOMAIN ParameterNames
         /\ \E p \in Used(This(w).type) : \E x \in Int :
              /\ samplers' = [samplers EXCEPT ![This(w).type][p] = x]
              /\ Contended(This(w)) \/ x = Configured(This(w))[p]
              /\ \/ /\ at' = [at EXCEPT ![w] = "context"]
                    /\ assigning' = [assigning EXCEPT ![w] = << >>]
                    /\ \A q \in Used(This(w).type) : q = p \/ Holds(This(w), q)
                 \/ /\ p = "mean" /\ Two(This(w).type)
                    /\ at' = at
                    /\ assigning' = [assigning EXCEPT ![w] = Second(This(w).type)]
<1> DEFINE t == This(w).type
           p == Head(assigning[w])
           x == Assigned(This(w), p)
<1>1. /\ at[w] = "parameters" /\ t \in DOMAIN ParameterNames
      /\ \/ assigning[w] = ParameterNames[t]
         \/ Two(t) /\ assigning[w] = Second(t) /\ Holds(This(w), "mean")
  BY DEF Inv, WorkerInv, Progress, SetParameter
<1>2. unit[w] \in 1 .. Len(UnitsOf(w)) /\ This(w) \in Units
  BY <1>1, UnitTypes DEF Inv, Typed, WorkerInv, Progress, This
<1>3. /\ samplers' = [samplers EXCEPT ![t][p] = x]
      /\ assigning' = [assigning EXCEPT ![w] = Tail(assigning[w])]
      /\ at' = [at EXCEPT ![w] = IF Len(assigning[w]) = 1 THEN "context" ELSE at[w]]
  BY DEF SetParameter, Inv, Typed
<1>4. at' = at \/ at' = [at EXCEPT ![w] = "context"]
  BY <1>3 DEF Inv, Typed
<1>5. p \in Used(t) /\ (p = "lambda" => Holds(This(w), "mean")) =>
        x \in Int /\ (Contended(This(w)) \/ x = Configured(This(w))[p])
  BY <1>1, <1>2, AssignedValue DEF Inv
<1> HIDE DEF t, x
<1>6. CASE t = "constant" \/ (Two(t) /\ assigning[w] = Second(t) /\ Holds(This(w), "mean"))
  <2>1. PICK q \in Used(t) :
          /\ assigning[w] = <<q>> /\ \A r \in Used(t) : r = q \/ Holds(This(w), r)
          /\ q = "lambda" => Holds(This(w), "mean")
    BY <1>1, <1>6, UsedTypes, Samplers DEF Two, Second
  <2>2. p = q /\ Tail(assigning[w]) = << >> /\ Len(assigning[w]) = 1
    BY <2>1
  <2> HIDE DEF p
  <2>3. at' = [at EXCEPT ![w] = "context"]
    BY <1>3, <2>2
  <2>4. x \in Int /\ (Contended(This(w)) \/ x = Configured(This(w))[p])
    BY <1>5, <2>1, <2>2
  <2>5. QED
    BY <1>1, <1>2, <1>3, <2>1, <2>2, <2>3, <2>4 DEF t
<1>7. CASE Two(t) /\ assigning[w] = ParameterNames[t]
  <2>1. p = "mean" /\ Tail(assigning[w]) = Second(t) /\ Len(assigning[w]) = 2
    <3>1. CASE t = "gaussian"
      <4>1. assigning[w] = <<"mean", "stddev">> /\ Second(t) = <<"stddev">>
        BY <1>7, <3>1, Samplers DEF Second
      <4>2. QED
        BY <4>1
    <3>2. CASE t = "exponential"
      <4>1. assigning[w] = <<"mean", "lambda">> /\ Second(t) = <<"lambda">>
        BY <1>7, <3>2, Samplers DEF Second
      <4>2. QED
        BY <4>1
    <3>3. QED
      BY <1>7, <3>1, <3>2 DEF Two
  <2>2. at' = at
    BY <1>3, <2>1 DEF Inv, Typed
  <2>3. "mean" \in Used(t)
    BY <1>7, UsedTypes DEF Two
  <2> HIDE DEF p
  <2>4. x \in Int /\ (Contended(This(w)) \/ x = Configured(This(w))[p])
    BY <1>5, <2>1, <2>3
  <2>5. QED
    BY <1>1, <1>2, <1>3, <1>7, <2>1, <2>2, <2>3, <2>4 DEF t
<1>8. QED
  BY <1>1, <1>6, <1>7, Samplers DEF Two

\* A field is assigned: other units with work of this type are contended, or are
\* configured with the same value.
LEMMA SetParameterInv ==
  ASSUME Inv, NEW w \in Workers, SetParameter(w)
  PROVE  Inv'
<1>1. UNCHANGED <<config, process, unit, executors, generators, inv>> /\ Typed /\ WorkerInv(w)
  BY DEF SetParameter, Inv
<1> DEFINE t == This(w).type
<1>2. PICK p \in Used(t), x \in Int :
        /\ samplers' = [samplers EXCEPT ![t][p] = x]
        /\ Contended(This(w)) \/ x = Configured(This(w))[p]
        /\ \/ /\ at' = [at EXCEPT ![w] = "context"]
              /\ assigning' = [assigning EXCEPT ![w] = << >>]
              /\ \A q \in Used(t) : q = p \/ Holds(This(w), q)
           \/ /\ p = "mean" /\ Two(t)
              /\ at' = at
              /\ assigning' = [assigning EXCEPT ![w] = Second(t)]
  BY SetParameterEffect
<1>3. t \in DOMAIN ParameterNames /\ unit[w] \in 1 .. Len(UnitsOf(w)) /\ p \in Fields
  BY SetParameterEffect, UsedTypes
<1>4. /\ UnitsOf(w)' = UnitsOf(w) /\ This(w)' = This(w)
      /\ Len(UnitsOf(w)) \in Nat /\ unit[w] \in Nat
      /\ DOMAIN UnitsOf(w) = 1 .. Len(UnitsOf(w))
  BY <1>1, ConfigSame, UnitTypes DEF Typed, This
<1>5. x \in Int
  OBVIOUS
<1>6. samplers' \in [DOMAIN ParameterNames -> [Fields -> Int]]
  <2>1. samplers[t] \in [Fields -> Int]
    BY <1>1, <1>3 DEF Typed
  <2>2. [samplers[t] EXCEPT ![p] = x] \in [Fields -> Int]
    BY <1>5, <2>1
  <2>3. samplers' = [samplers EXCEPT ![t] = [samplers[t] EXCEPT ![p] = x]]
    BY <1>2
  <2> HIDE DEF t
  <2>4. QED
    BY <1>1, <2>2, <2>3 DEF Typed
<1>7. Typed'
  BY <1>1, <1>2, <1>6 DEF Typed
<1>8. samplers'[t][p] = x
  BY <1>1, <1>2, <1>3 DEF Typed
<1>9. ASSUME NEW v \in Workers, NEW n \in 1 .. Len(UnitsOf(v)), NEW q \in Fields,
             UnitsOf(v)[n].type \in DOMAIN ParameterNames, Holds(UnitsOf(v)[n], q)
      PROVE  Holds(UnitsOf(v)[n], q)'
  <2> DEFINE u == UnitsOf(v)[n]
  <2>1. CASE Contended(u)
    BY <1>1, <2>1, ConfigSame DEF Holds
  <2>2. CASE ~ Contended(u) /\ u.type = t
    <3>1. This(w).params = u.params /\ This(w).type = u.type
      BY <1>3, <1>4, <2>2 DEF Contended, This
    <3>2. samplers'[t][q] = Configured(u)[q]
      <4>1. CASE q = p
        <5>1. ~ Contended(This(w)) /\ Configured(This(w)) = Configured(u)
          BY <2>2, <3>1 DEF Contended, Configured
        <5>2. QED
          BY <1>2, <1>8, <4>1, <5>1
      <4>2. CASE q # p
        <5>1. samplers'[t][q] = samplers[t][q]
          BY <1>1, <1>2, <1>3, <4>2 DEF Typed
        <5>2. samplers[u.type][q] = Configured(u)[q]
          BY <1>9, <2>2 DEF Holds
        <5>3. QED
          BY <2>2, <5>1, <5>2
      <4>3. QED
        BY <4>1, <4>2
    <3>3. UnitsOf(v)' = UnitsOf(v)
      BY <1>1, ConfigSame
    <3> HIDE DEF t
    <3>4. QED
      BY <2>2, <3>2, <3>3 DEF Holds, Configured
  <2>3. CASE u.type # t
    <3>1. samplers'[u.type] = samplers[u.type]
      <4> DEFINE ut == u.type
      <4>1. ut \in DOMAIN samplers /\ ut # t
        BY <1>1, <1>9, <2>3 DEF Typed
      <4> HIDE DEF ut, t
      <4>2. samplers'[ut] = samplers[ut]
        BY <1>2, <4>1
      <4>3. QED
        BY <4>2 DEF ut
    <3>2. UnitsOf(v)' = UnitsOf(v) /\ (Contended(u)' <=> Contended(u))
      BY <1>1, ConfigSame
    <3>3. QED
      BY <1>9, <3>1, <3>2 DEF Holds, Configured
  <2>4. QED
    BY <2>1, <2>2, <2>3
<1>10. Holds(This(w), p)'
  BY <1>1, <1>2, <1>4, <1>8, ConfigSame DEF Holds, Configured
<1>11. ASSUME NEW v \in Workers, v # w
       PROVE  WorkerInv(v)'
  <2>1. SameWorker(v)
    BY <1>1, <1>2, <1>11 DEF Typed, SameWorker
  <2>2. \A n \in 1 .. Len(UnitsOf(v)) : \A q \in Used(UnitsOf(v)[n].type) :
          Holds(UnitsOf(v)[n], q) => Holds(UnitsOf(v)[n], q)'
    BY <1>9, UsedTypes
  <2>3. Len(UnitsOf(v)) \in Nat /\ unit[v] \in Nat /\ WorkerInv(v)
    BY <1>1, UnitTypes DEF Inv, Typed
  <2>4. ASSUME unit[v] <= Len(UnitsOf(v)), Two(This(v).type), Holds(This(v), "mean")
        PROVE  Holds(This(v), "mean")'
    <3>1. unit[v] \in 1 .. Len(UnitsOf(v))
      BY <2>3, <2>4 DEF WorkerInv, Progress
    <3>2. "mean" \in Used(UnitsOf(v)[unit[v]].type)
      BY <2>4, UsedTypes DEF This, Two
    <3>3. Holds(UnitsOf(v)[unit[v]], "mean")
      BY <2>4 DEF This
    <3>4. Holds(UnitsOf(v)[unit[v]], "mean")'
      BY <1>1, <2>2, <3>1, <3>2, <3>3
    <3>5. QED
      BY <3>4 DEF This
  <2>5. QED
    BY <1>1, <2>1, <2>2, <2>3, <2>4, WorkerSame
<1>12. WorkerInv(w)'
  <2>1. Progress(w)'
    <3>1. CASE at' = [at EXCEPT ![w] = "context"] /\ assigning' = [assigning EXCEPT ![w] = << >>]
      <4>1. at'[w] = "context" /\ assigning'[w] = << >>
        BY <1>1, <3>1 DEF Typed
      <4>2. QED
        BY <1>1, <1>3, <1>4, <4>1 DEF Progress
    <3>2. CASE p = "mean" /\ Two(t) /\ at' = at
               /\ assigning' = [assigning EXCEPT ![w] = Second(t)]
      <4>1. at'[w] = "parameters" /\ assigning'[w] = Second(t)
        BY <1>1, <3>2 DEF Typed, SetParameter
      <4>2. Holds(This(w), "mean")' /\ Two(This(w)'.type)
        BY <1>4, <1>10, <3>2
      <4>3. QED
        BY <1>1, <1>3, <1>4, <4>1, <4>2 DEF Progress
    <3>3. QED
      BY <1>2, <3>1, <3>2
  <2>2. SamplersInv(w)'
    <3>1. Bound(w) \subseteq 1 .. Len(UnitsOf(w)) /\ at[w] = "parameters"
      BY <1>3, <1>4 DEF Bound, SetParameter
    <3>2. ASSUME NEW n \in Bound(w)
          PROVE  /\ UnitsOf(w)[n].type \in DOMAIN ParameterNames \cup {"none"}
                 /\ \A q \in Used(UnitsOf(w)[n].type) : Holds(UnitsOf(w)[n], q)'
      <4>1. /\ UnitsOf(w)[n].type \in DOMAIN ParameterNames \cup {"none"}
            /\ \A q \in Used(UnitsOf(w)[n].type) : Holds(UnitsOf(w)[n], q)
        BY <1>1 DEF WorkerInv, SamplersInv
      <4>2. QED
        BY <1>9, <3>1, <4>1, UsedTypes
    <3>3. CASE at' = at
      BY <1>1, <1>4, <3>2, <3>3 DEF Bound, SamplersInv
    <3>4. CASE at' = [at EXCEPT ![w] = "context"] /\ \A q \in Used(t) : q = p \/ Holds(This(w), q)
      <4>1. \A q \in Used(t) : Holds(This(w), q)'
        <5>1. ASSUME NEW q \in Used(t)
              PROVE  Holds(This(w), q)'
          <6>1. CASE q = p
            BY <1>10, <6>1
          <6>2. CASE q # p
            <7>1. q \in Fields /\ Holds(UnitsOf(w)[unit[w]], q)
              BY <3>4, <6>2, UsedTypes DEF This
            <7>2. Holds(UnitsOf(w)[unit[w]], q)'
              BY <1>1, <1>3, <1>9, <7>1 DEF This
            <7>3. QED
              BY <7>2 DEF This
          <6>3. QED
            BY <6>1, <6>2
        <5>2. QED
          BY <5>1
      <4>2. ASSUME NEW n \in Bound(w)'
            PROVE  n \in Bound(w) \/ n = unit[w]
        BY <1>1, <1>4, <3>1 DEF Bound
      <4>3. ASSUME NEW n \in Bound(w)', n = unit[w]
            PROVE  /\ UnitsOf(w)[n].type \in DOMAIN ParameterNames \cup {"none"}
                   /\ \A q \in Used(UnitsOf(w)[n].type) : Holds(UnitsOf(w)[n], q)'
        <5>1. UnitsOf(w)[n] = This(w) /\ UnitsOf(w)'[n] = This(w)'
          BY <1>1, <4>3 DEF This
        <5>2. \A q \in Used(UnitsOf(w)[n].type) : Holds(UnitsOf(w)[n], q)'
          BY <1>4, <4>1, <5>1 DEF Holds
        <5>3. QED
          BY <1>3, <5>1, <5>2
      <4>4. QED
        BY <1>4, <3>2, <4>2, <4>3 DEF SamplersInv
    <3>5. QED
      BY <1>2, <3>3, <3>4
  <2>3. ExecutorsInv(w)' /\ GeneratorsInv(w)'
    BY <1>1, <1>4, ConfigSame
       DEF WorkerInv, ExecutorsInv, GeneratorsInv, EffectiveThroughput
  <2>4. QED
    BY <2>1, <2>2, <2>3 DEF WorkerInv
<1>13. ASSUME NEW i \in Invocations
       PROVE  InvocationInv(i)'
  BY <1>1, InvocationSame DEF Typed
<1>14. QED
  BY <1>7, <1>11, <1>12, <1>13 DEF Inv

\* A member joins a sequence.
LEMMA Appended ==
  ASSUME NEW S, NEW q \in Seq(S), NEW x \in S
  PROVE  /\ Append(q, x) \in Seq(S) /\ Len(Append(q, x)) = Len(q) + 1
         /\ \A n \in 1 .. Len(q) : Append(q, x)[n] = q[n]
         /\ Append(q, x)[Len(q) + 1] = x
OBVIOUS

\* An executor is made of a unit, and the next unit is looked at.
LEMMA CreateInv ==
  ASSUME Inv, NEW w \in Workers, CreateUnitExecutor(w)
  PROVE  Inv'
<1>1. /\ UNCHANGED <<config, process, samplers, assigning, generators, inv>>
      /\ Typed /\ WorkerInv(w) /\ at[w] = "context"
      /\ at' = [at EXCEPT ![w] = "lookup"] /\ unit' = [unit EXCEPT ![w] = unit[w] + 1]
  BY DEF CreateUnitExecutor, Inv, Typed
<1>2. PICK c \in Contexts(This(w)) : executors' = [executors EXCEPT ![w] = Append(executors[w], c)]
  BY DEF CreateUnitExecutor, Inv, Typed
<1>3. /\ UnitsOf(w)' = UnitsOf(w) /\ Len(UnitsOf(w)) \in Nat /\ unit[w] \in Nat
      /\ unit[w] \in 1 .. Len(UnitsOf(w)) /\ This(w) \in Units
  BY <1>1, ConfigSame, UnitTypes DEF Typed, This, WorkerInv, Progress
<1>4. Typed'
  BY <1>1, <1>2, <1>3 DEF Typed
<1>5. /\ at'[w] = "lookup" /\ unit'[w] = unit[w] + 1 /\ assigning'[w] = << >>
      /\ executors'[w] = Append(executors[w], c)
  BY <1>1, <1>2 DEF Typed, WorkerInv, Progress
<1>6. /\ executors'[w] \in Seq(AllContexts) /\ Len(executors'[w]) = unit[w]
      /\ executors'[w][unit[w]] = c
      /\ \A n \in 1 .. unit[w] - 1 : executors'[w][n] = executors[w][n]
  <2>1. executors[w] \in Seq(AllContexts) /\ Len(executors[w]) = unit[w] - 1 /\ c \in AllContexts
    BY <1>1, <1>2, <1>3 DEF WorkerInv, ExecutorsInv, AllContexts
  <2> DEFINE q == executors[w]
  <2>2. /\ Append(q, c) \in Seq(AllContexts) /\ Len(Append(q, c)) = Len(q) + 1
        /\ \A n \in 1 .. Len(q) : Append(q, c)[n] = q[n]
        /\ Append(q, c)[Len(q) + 1] = c
    BY <2>1, Appended
  <2>3. Len(q) + 1 = unit[w]
    BY <1>3, <2>1
  <2>4. QED
    BY <1>5, <2>1, <2>2, <2>3
<1>7. WorkerInv(w)'
  <2>1. Progress(w)'
    BY <1>3, <1>5 DEF Progress
  <2>2. Bound(w)' = Bound(w)
    BY <1>1, <1>3, <1>5 DEF Bound
  <2>3. \A u, p : Holds(u, p) => Holds(u, p)'
    BY <1>1, ConfigSame DEF Holds
  <2>4. SamplersInv(w)'
    BY <1>1, <1>3, <2>2, <2>3 DEF WorkerInv, SamplersInv
  <2>5. ASSUME NEW n \in 1 .. unit[w]
        PROVE  executors'[w][n] \in Contexts(UnitsOf(w)[n])
    <3>1. CASE n = unit[w]
      BY <1>2, <1>6, <3>1 DEF This
    <3>2. CASE n # unit[w]
      <4>1. n \in 1 .. unit[w] - 1
        BY <1>3, <3>2
      <4>2. executors'[w][n] = executors[w][n]
        BY <1>6, <4>1
      <4>3. executors[w][n] \in Contexts(UnitsOf(w)[n])
        BY <1>1, <4>1 DEF WorkerInv, ExecutorsInv
      <4>4. QED
        BY <4>2, <4>3
    <3>3. QED
      BY <3>1, <3>2
  <2>6. ExecutorsInv(w)'
    <3>1. unit'[w] - 1 = unit[w]
      BY <1>3, <1>5
    <3>2. \A n \in 1 .. unit'[w] - 1 : executors'[w][n] \in Contexts(UnitsOf(w)'[n])
      BY <1>3, <2>5, <3>1
    <3>3. AllContexts' = AllContexts
      BY DEF AllContexts
    <3>4. QED
      BY <1>6, <3>1, <3>2, <3>3 DEF ExecutorsInv
  <2>7. GeneratorsInv(w)'
    BY <1>1, <1>3, ConfigSame DEF WorkerInv, GeneratorsInv, EffectiveThroughput
  <2>8. QED
    BY <2>1, <2>4, <2>6, <2>7 DEF WorkerInv
<1>8. ASSUME NEW v \in Workers, v # w
      PROVE  WorkerInv(v)'
  <2>1. SameWorker(v)
    BY <1>1, <1>2, <1>8 DEF Typed, SameWorker
  <2>2. QED
    BY <1>1, <2>1, WorkerKept DEF Inv
<1>9. ASSUME NEW i \in Invocations
      PROVE  InvocationInv(i)'
  <2>1. \A v \in Workers : unit'[v] >= unit[v] /\ unit'[v] \in Nat
    BY <1>1 DEF Typed
  <2>2. \A v \in Workers : \A n \in 1 .. unit[v] - 1 : executors'[v][n] = executors[v][n]
    BY <1>1, <1>2, <1>6 DEF Typed
  <2>3. QED
    BY <1>1, <2>1, <2>2, InvocationSame
<1>10. QED
  BY <1>4, <1>7, <1>8, <1>9 DEF Inv

\* The generators of a worker are launched.
LEMMA LaunchInv ==
  ASSUME Inv, NEW w \in Workers, LaunchLoad(w)
  PROVE  Inv'
<1> DEFINE launched == {k \in DOMAIN UnitsOf(w) : UnitsOf(w)[k].ratio > 0}
<1>1. /\ UNCHANGED <<config, process, samplers, unit, assigning, executors, inv>>
      /\ Typed /\ WorkerInv(w) /\ at[w] = "lookup"
      /\ at' = [at EXCEPT ![w] = "load"]
      /\ generators' = [generators EXCEPT ![w] =
                          [n \in launched |-> Interval(EffectiveThroughput(UnitsOf(w)[n]))]]
  BY DEF LaunchLoad, Inv
<1>2. UnitsOf(w)' = UnitsOf(w) /\ Len(UnitsOf(w)) \in Nat
  BY <1>1, ConfigSame, UnitTypes DEF Typed
<1>3. Typed'
  BY <1>1 DEF Typed
<1>4. /\ at'[w] = "load"
      /\ generators'[w] = [n \in launched |-> Interval(EffectiveThroughput(UnitsOf(w)[n]))]
  BY <1>1 DEF Typed
<1>5. WorkerInv(w)'
  <2>1. Progress(w)'
    BY <1>1, <1>2, <1>4 DEF WorkerInv, Progress
  <2>2. Bound(w)' = Bound(w)
    BY <1>1, <1>4 DEF Bound
  <2>3. \A u, p : Holds(u, p) => Holds(u, p)'
    BY <1>1, ConfigSame DEF Holds
  <2>4. SamplersInv(w)'
    BY <1>1, <1>2, <2>2, <2>3 DEF WorkerInv, SamplersInv
  <2>5. ExecutorsInv(w)'
    BY <1>1, <1>2 DEF WorkerInv, ExecutorsInv
  <2>6. GeneratorsInv(w)'
    BY <1>1, <1>2, <1>4 DEF GeneratorsInv, EffectiveThroughput
  <2>7. QED
    BY <2>1, <2>4, <2>5, <2>6 DEF WorkerInv
<1>6. ASSUME NEW v \in Workers, v # w
      PROVE  WorkerInv(v)'
  <2>1. SameWorker(v)
    BY <1>1, <1>6 DEF Typed, SameWorker
  <2>2. QED
    BY <1>1, <2>1, WorkerKept DEF Inv
<1>7. ASSUME NEW i \in Invocations
      PROVE  InvocationInv(i)'
  BY <1>1, InvocationSame DEF Typed
<1>8. QED
  BY <1>3, <1>5, <1>6, <1>7 DEF Inv

\* An invocation gets the metadata of its executor.
LEMMA InvokeInv ==
  ASSUME Inv, NEW i \in Invocations, NEW w \in Workers, NEW n, Invoke(i, w, n)
  PROVE  Inv'
<1>1. /\ UNCHANGED <<config, process, samplers, at, unit, assigning, executors, generators>>
      /\ Typed /\ n \in DOMAIN executors[w]
      /\ inv' = [inv EXCEPT ![i] = [at |-> "work", worker |-> w, unit |-> n,
                                    context |-> executors[w][n]]]
  BY DEF Invoke, Metadata, Inv
<1>2. Typed'
  BY <1>1 DEF Typed
<1>3. ASSUME NEW v \in Workers
      PROVE  WorkerInv(v)'
  BY <1>1, WorkerKept DEF Inv, SameWorker
<1>4. ASSUME NEW j \in Invocations
      PROVE  InvocationInv(j)'
  <2>1. CASE j # i
    <3>1. inv'[j] = inv[j]
      BY <1>1, <2>1 DEF Typed
    <3>2. QED
      BY <1>1, <3>1, InvocationSame DEF Typed
  <2>2. CASE j = i
    <3>1. n \in 1 .. unit[w] - 1
      BY <1>1 DEF Inv, Typed, WorkerInv, ExecutorsInv
    <3>2. inv'[i] = [at |-> "work", worker |-> w, unit |-> n, context |-> executors[w][n]]
      BY <1>1 DEF Typed
    <3>3. QED
      BY <1>1, <2>2, <3>1, <3>2 DEF InvocationInv
  <2>3. QED
    BY <2>1, <2>2
<1>5. QED
  BY <1>2, <1>3, <1>4 DEF Inv

\* An invocation works as long as the sampler says, which holds the parameters of its
\* unit unless the work is contended.
LEMMA EmulateInv ==
  ASSUME Inv, NEW i \in Invocations, EmulateWork(i)
  PROVE  Inv'
<1> DEFINE u == UnitOf(i)
<1>1. /\ UNCHANGED <<config, process, samplers, at, unit, assigning, executors, generators>>
      /\ Typed /\ inv[i].at = "work"
  BY DEF EmulateWork, Inv
<1>2. PICK d \in NextValues(u.type, IF u.type = "none" THEN << >> ELSE samplers[u.type]) :
        inv' = [inv EXCEPT ![i] = [at |-> "worked", worker |-> inv[i].worker,
                                   unit |-> inv[i].unit, context |-> inv[i].context,
                                   duration |-> d]]
  BY DEF EmulateWork, Inv, Typed
<1>3. /\ inv[i].worker \in Workers /\ inv[i].unit \in 1 .. unit[inv[i].worker] - 1
      /\ inv[i].context = executors[inv[i].worker][inv[i].unit]
  BY <1>1 DEF Inv, InvocationInv
<1>4. /\ u.type \in DOMAIN ParameterNames \cup {"none"}
      /\ \A p \in Used(u.type) : Holds(u, p)
  <2>1. unit[inv[i].worker] \in Nat /\ SamplersInv(inv[i].worker)
    BY <1>1, <1>3 DEF Inv, Typed, WorkerInv
  <2>2. inv[i].unit \in Bound(inv[i].worker)
    BY <1>3, <2>1 DEF Bound
  <2>3. QED
    BY <2>1, <2>2 DEF SamplersInv, UnitOf
<1>5. Contended(u) \/ d \in NextValues(u.type, Configured(u))
  <2> SUFFICES ASSUME ~ Contended(u)
               PROVE  d \in NextValues(u.type, Configured(u))
    OBVIOUS
  <2>1. CASE u.type = "none"
    <3>1. d \in NextValues("none", << >>)
      BY <1>2, <2>1
    <3>2. QED
      BY <2>1, <3>1, NextValuesNone
  <2>2. CASE u.type # "none"
    <3>1. u.type \in DOMAIN ParameterNames
      BY <1>4, <2>2
    <3>2. \A p \in Used(u.type) : samplers[u.type][p] = Configured(u)[p]
      BY <1>4 DEF Holds
    <3>3. NextValues(u.type, samplers[u.type]) = NextValues(u.type, Configured(u))
      <4> HIDE DEF u
      <4>1. QED
        BY <3>1, <3>2, NextValuesUsed
    <3>4. QED
      BY <1>2, <2>2, <3>3
  <2>3. QED
    BY <2>1, <2>2
<1>6. Typed'
  BY <1>1, <1>2 DEF Typed
<1>7. ASSUME NEW v \in Workers
      PROVE  WorkerInv(v)'
  BY <1>1, WorkerKept DEF Inv, SameWorker
<1>8. ASSUME NEW j \in Invocations
      PROVE  InvocationInv(j)'
  <2>1. CASE j # i
    <3>1. inv'[j] = inv[j]
      BY <1>1, <1>2, <2>1 DEF Typed
    <3>2. QED
      BY <1>1, <3>1, InvocationSame DEF Typed
  <2>2. CASE j = i
    <3>1. inv'[i] = [at |-> "worked", worker |-> inv[i].worker, unit |-> inv[i].unit,
                     context |-> inv[i].context, duration |-> d]
      BY <1>1, <1>2 DEF Typed
    <3>2. UnitOf(i)' = u
      BY <1>1, <1>3, <3>1, ConfigSame DEF UnitOf
    <3>3. Contended(UnitOf(i))' \/ WorksAsConfigured(i)'
      <4>1. Contended(u)' <=> Contended(u)
        BY <1>1, <3>2, ConfigSame DEF Contended, UnitsOf
      <4>2. inv'[i].duration = d
        BY <3>1
      <4> HIDE DEF u
      <4>3. Contended(u) => Contended(UnitOf(i))'
        BY <1>1, <3>2, ConfigSame
      <4>4. d \in NextValues(u.type, Configured(u)) => WorksAsConfigured(i)'
        BY <3>2, <4>2 DEF WorksAsConfigured
      <4>5. QED
        BY <1>5, <4>3, <4>4
    <3>4. inv'[i].at = "worked" /\ inv'[i].worker = inv[i].worker /\ inv'[i].unit = inv[i].unit
          /\ inv'[i].context = inv[i].context
      BY <3>1
    <3>5. QED
      BY <1>1, <1>3, <2>2, <3>3, <3>4 DEF InvocationInv
  <2>3. QED
    BY <2>1, <2>2
<1>9. QED
  BY <1>6, <1>7, <1>8 DEF Inv

\* A race in the source of random numbers disturbs nothing but the process.
LEMMA RaceInv ==
  ASSUME Inv, SourceRace
  PROVE  Inv'
<1>1. /\ UNCHANGED <<config, samplers, at, unit, assigning, executors, generators, inv>>
      /\ Typed /\ process' = "panic"
  BY DEF SourceRace, Inv
<1>2. Typed'
  BY <1>1 DEF Typed
<1>3. ASSUME NEW v \in Workers
      PROVE  WorkerInv(v)'
  BY <1>1, WorkerKept DEF Inv, SameWorker
<1>4. ASSUME NEW i \in Invocations
      PROVE  InvocationInv(i)'
  BY <1>1, InvocationSame DEF Typed
<1>5. QED
  BY <1>2, <1>3, <1>4 DEF Inv

\* Inv holds of every behaviour.
THEOREM Invariance == Spec => []Inv
<1>1. Init => Inv
  <2> SUFFICES ASSUME Init
               PROVE  Inv
    OBVIOUS
  <2>1. Typed
    <3>1. samplers \in [DOMAIN ParameterNames -> [Fields -> Int]]
      BY DEF Init
    <3>2. QED
      BY <3>1 DEF Init, Typed
  <2>2. ASSUME NEW w \in Workers
        PROVE  WorkerInv(w)
    <3>1. /\ at[w] = "lookup" /\ unit[w] = 1 /\ assigning[w] = << >>
          /\ executors[w] = << >> /\ generators[w] = << >> /\ Len(UnitsOf(w)) \in Nat
      BY UnitTypes DEF Init
    <3>2. Progress(w)
      BY <3>1 DEF Progress
    <3>3. SamplersInv(w)
      BY <3>1 DEF SamplersInv, Bound
    <3>4. ExecutorsInv(w)
      BY <3>1 DEF ExecutorsInv
    <3>5. GeneratorsInv(w)
      BY <3>1 DEF GeneratorsInv
    <3>6. QED
      BY <3>2, <3>3, <3>4, <3>5 DEF WorkerInv
  <2>3. ASSUME NEW i \in Invocations
        PROVE  InvocationInv(i)
    BY DEF Init, NoInvocation, InvocationInv
  <2>4. QED
    BY <2>1, <2>2, <2>3 DEF Inv
<1>2. Inv /\ [Next]_vars => Inv'
  <2> SUFFICES ASSUME Inv, [Next]_vars
               PROVE  Inv'
    OBVIOUS
  <2>1. CASE UNCHANGED vars
    <3>1. UNCHANGED <<config, process, samplers, at, unit, assigning, executors, generators, inv>>
      BY <2>1 DEF vars
    <3>2. Typed
      BY DEF Inv
    <3>3. \A w \in Workers : WorkerInv(w)'
      BY <3>1, <3>2, WorkerKept DEF Inv, SameWorker
    <3>4. \A i \in Invocations : InvocationInv(i)'
      BY <3>1, <3>2, InvocationSame DEF Typed
    <3>5. Typed'
      BY <3>1, <3>2 DEF Typed
    <3>6. QED
      BY <3>3, <3>4, <3>5 DEF Inv
  <2>2. QED
    BY <2>1, LookupInv, SetParameterInv, CreateInv, LaunchInv, InvokeInv, EmulateInv, RaceInv
       DEF Next, SetUp
<1>3. QED
  BY <1>1, <1>2, PTL DEF Spec

-----------------------------------------------------------------------------
(***************************************************************************)
(* The theorems.                                                           *)
(***************************************************************************)

\* Every variable keeps its type, and no generator has a ticker with interval 0.
THEOREM TypeCorrect == Spec => []TypeOK
<1>1. Inv => TypeOK
  <2> SUFFICES ASSUME Inv
               PROVE  TypeOK
    OBVIOUS
  <2>1. Typed
    BY DEF Inv
  <2>2. ASSUME NEW w \in Workers
        PROVE  /\ unit[w] \in 1 .. Len(UnitsOf(w)) + 1
               /\ assigning[w] \in Seq(Fields)
               /\ Len(executors[w]) = unit[w] - 1
               /\ DOMAIN generators[w] \subseteq DOMAIN UnitsOf(w)
               /\ \A n \in DOMAIN generators[w] : generators[w][n] \in Nat \ {0}
    <3>1. Progress(w) /\ ExecutorsInv(w) /\ GeneratorsInv(w)
      BY DEF Inv, WorkerInv
    <3>2. assigning[w] \in Seq(Fields)
      <4>1. assigning[w] \in {<< >>, <<"value">>, <<"mean", "stddev">>, <<"mean", "lambda">>,
                              <<"stddev">>, <<"lambda">>}
        BY <2>1, <3>1, Samplers DEF Typed, Progress, Second
      <4>2. /\ << >> \in Seq(Fields) /\ <<"value">> \in Seq(Fields)
            /\ <<"mean", "stddev">> \in Seq(Fields) /\ <<"mean", "lambda">> \in Seq(Fields)
            /\ <<"stddev">> \in Seq(Fields) /\ <<"lambda">> \in Seq(Fields)
        BY DEF Fields, Parameters
      <4>3. QED
        BY <4>1, <4>2
    <3>3. ASSUME NEW n \in DOMAIN generators[w]
          PROVE  generators[w][n] \in Nat \ {0}
      <4>1. n \in 1 .. Len(UnitsOf(w))
        BY <2>1, <3>1, UnitTypes DEF Typed, GeneratorsInv
      <4>2. config.throughput \in Int /\ UnitsOf(w)[n].ratio \in Int
        BY <2>1, <4>1, UnitTypes DEF Typed
      <4>3. EffectiveThroughput(UnitsOf(w)[n]) \in Int
        BY <4>2 DEF EffectiveThroughput
      <4>4. QED
        BY <3>1, <4>3, IntervalPositive DEF GeneratorsInv
    <3>4. QED
      BY <3>1, <3>2, <3>3 DEF Progress, ExecutorsInv, GeneratorsInv
  <2>3. \A i \in Invocations : inv[i].at \in {"free", "work", "worked"}
    BY DEF Inv, InvocationInv
  <2>4. QED
    BY <2>1, <2>2, <2>3 DEF Typed, TypeOK
<1>2. QED
  BY <1>1, Invariance, PTL

\* However the set-ups of all workers and the invocations interleave, a unit works as its
\* own configuration says unless another unit has the same type of work with other
\* parameters.
THEOREM WorkIsItsOwn == Spec => []OwnWorkUnlessContended
<1>1. Inv => OwnWorkUnlessContended
  BY DEF Inv, InvocationInv, OwnWorkUnlessContended
<1>2. QED
  BY <1>1, Invariance, PTL

\* The metadata of a unit's spans is the same for all invocations and has an entry for
\* each static key of the tags and the baggage.
THEOREM MetadataStays == Spec => []MetadataConstant
<1>1. Inv => MetadataConstant
  <2> SUFFICES ASSUME Inv, NEW i \in Invocations, NEW j \in Invocations,
                      inv[i].at # "free", inv[j].at # "free",
                      inv[i].worker = inv[j].worker, inv[i].unit = inv[j].unit
               PROVE  /\ inv[i].context = inv[j].context
                      /\ \A k \in {"tags", "baggage"} : StaticKeysIn(i, k)
    BY DEF MetadataConstant
  <2>1. /\ inv[i].worker \in Workers /\ inv[i].unit \in 1 .. unit[inv[i].worker] - 1
        /\ inv[i].context = executors[inv[i].worker][inv[i].unit]
        /\ inv[j].context = executors[inv[j].worker][inv[j].unit]
    BY DEF Inv, InvocationInv
  <2>2. inv[i].context \in Contexts(UnitOf(i))
    BY <2>1 DEF Inv, WorkerInv, ExecutorsInv, UnitOf
  <2>3. UnitOf(i).context \in [Kinds -> Seq(Templates)]
    <3> DEFINE w == inv[i].worker
    <3>1. config \in Configs /\ unit[w] \in 1 .. Len(UnitsOf(w)) + 1
      BY <2>1 DEF Inv, Typed, WorkerInv, Progress
    <3>2. /\ Len(UnitsOf(w)) \in Nat
          /\ \A n \in 1 .. Len(UnitsOf(w)) : UnitsOf(w)[n].context \in [Kinds -> Seq(Templates)]
      BY <2>1, <3>1, UnitTypes
    <3>3. inv[i].unit \in 1 .. Len(UnitsOf(w))
      BY <2>1, <3>1, <3>2
    <3>4. QED
      BY <3>2, <3>3 DEF UnitOf
  <2>4. QED
    BY <2>1, <2>2, <2>3, StaticKeys DEF StaticKeysIn
<1>2. QED
  BY <1>1, Invariance, PTL

\* The ticker of a generator is never slower than its target and less than twice as fast,
\* whatever throughput and ratio are configured.
THEOREM RatesMeetTargets == Spec => []RateMeetsTarget
<1>1. Inv => RateMeetsTarget
  <2> SUFFICES ASSUME Inv, NEW w \in Workers, NEW n \in DOMAIN generators[w],
                      EffectiveThroughput(UnitsOf(w)[n]) \in 1 .. Million
               PROVE  LET t == EffectiveThroughput(UnitsOf(w)[n])
                      IN  /\ generators[w][n] * t <= Million
                          /\ Million < 2 * generators[w][n] * t
    BY Zenon DEF RateMeetsTarget
  <2> DEFINE t == EffectiveThroughput(UnitsOf(w)[n])
  <2>1. generators[w][n] = Interval(t)
    BY DEF Inv, WorkerInv, GeneratorsInv
  <2> HIDE DEF t
  <2>2. t \in 1 .. Million /\ t \in Int
    BY DEF t
  <2>3. Interval(t) = Million \div t
    BY <2>2, MillionNumber DEF Interval
  <2>4. /\ (Million \div t) * t <= Million
        /\ Million < 2 * (Million \div t) * t
    BY <2>2, MillionNumber, Quotient
  <2>5. generators[w][n] * t <= Million /\ Million < 2 * generators[w][n] * t
    BY <2>1, <2>3, <2>4
  <2>6. QED
    BY <2>5 DEF t
<1>2. QED
  BY <1>1, Invariance, PTL

=============================================================================
