---------------------------- MODULE MCWorkerRun ----------------------------
(* Instances of WorkerRun for TLC: two runs of the same service, whose root  *)
(* unit a calls its local unit b.                                            *)
EXTENDS WorkerRun

CONSTANTS a, b

MCUnits == {a, b}
MCRoots == {a}
MCConfig == <<<<a, b>>, <<a, b>>>>
MCConfig1 == <<<<a, b>>>>
MCSuccessor == [u \in MCUnits |-> IF u = a THEN b ELSE None]

=============================================================================
