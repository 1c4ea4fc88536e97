---------------------------- MODULE MCUnitSetup ----------------------------
(* Two workers of one process: units with every distribution, with parameters *)
(* of their own or not, and with static and random metadata.                  *)
EXTENDS UnitSetup

CONSTANTS w1, w2, x, y, i1, i2

MCWorkers == {w1, w2}
MCLetters == {x, y}
MCInvocations == {i1, i2}
MCDeviations == -1 .. 1

Params(v, m, s) == [p \in Parameters |-> CASE p = "value" -> v [] p = "mean" -> m [] OTHER -> s]

Static(k, v) == [keyStatic |-> k, keyLength |-> 0, valueStatic |-> v, valueLength |-> 0]
RandomValue(k) == [Static(k, << >>) EXCEPT !.valueLength = 1]
RandomKey(v) == [Static(<< >>, v) EXCEPT !.keyLength = 1]

NoContext == [k \in Kinds |-> << >>]
Tags(ts) == [NoContext EXCEPT !["tags"] = ts]

MCUnit(t, ps, r, c) == [type |-> t, params |-> ps, ratio |-> r, context |-> c]

\* Both workers use the gaussian sampler, with different parameters.
Contending ==
  [w \in MCWorkers |->
     IF w = w1 THEN <<MCUnit("gaussian", Params(0, 5, 2), 100, NoContext),
                      MCUnit("constant", Params(3, 0, 0), 0,
                             [Tags(<<Static(<<x>>, <<y>>)>>) EXCEPT !["logs"] = <<RandomValue(<<x>>)>>])>>
     ELSE <<MCUnit("gaussian", Params(0, 1, 4), 30, NoContext),
            MCUnit("exponential", Params(0, 7, 2), 100, NoContext)>>]

\* Both workers use the exponential sampler: with the same mean, or with another one.
Exponential(m) ==
  [w \in MCWorkers |->
     IF w = w1 THEN <<MCUnit("exponential", Params(0, 7, 0), 100, NoContext)>>
     ELSE <<MCUnit("exponential", Params(0, m, 0), 100, NoContext),
            MCUnit("gaussian", Params(0, 5, 2), 0, NoContext)>>]

\* One worker with random metadata, no random work; and an unknown distribution.
Constant ==
  [w \in MCWorkers |->
     IF w = w1 THEN <<MCUnit("constant", Params(3, 0, 0), 1,
                             Tags(<<Static(<<x>>, <<x>>), RandomKey(<<y>>)>>)),
                      MCUnit("none", Params(0, 0, 0), 250,
                             [Tags(<<RandomValue(<<y>>)>>) EXCEPT !["baggage"] = <<RandomKey(<<x>>)>>])>>
     ELSE <<MCUnit("constant", Params(3, 9, 0), 70, NoContext)>>]

Unknown ==
  [w \in MCWorkers |-> <<MCUnit("none", Params(0, 0, 0), 100, Tags(<<RandomKey(<<x>>)>>)),
                         MCUnit("uniform", Params(0, 0, 0), 100, NoContext)>>]

Throughputs == {-1, 0, 3, 999, 1000000}

MCConfigs ==
  {[throughput |-> t, units |-> us] : t \in Throughputs, us \in {Contending, Constant, Unknown}}
  \cup {[throughput |-> 3, units |-> Exponential(m)] : m \in {4, 7}}

=============================================================================
