---------------------------- MODULE MCDeployment ----------------------------
(* Descriptions of up to two services for Deployment, whose units may name   *)
(* each other, themselves or a service that is missing.                      *)
EXTENDS Deployment, SequencesExt

CONSTANTS A, B, C, a, b, p1, p2, q1, q2

MCNames == {A, B, C, a, b}
MCAddresses == {p1, p2, q1, q2}

MCFirstUnits ==
  [id : {a, b}, work : {a, b, Empty},
   successors : SeqOf([service : {A, B, C}, unit : {a, b}], 1)]

LastUnit == [id |-> b, work |-> a, successors |-> << >>]

MCServices ==
  [id : {A, B}, sink : {a},
   units : {<< >>, <<LastUnit>>} \cup {<<u, LastUnit>> : u \in MCFirstUnits}]

\* One work template, named a, and one or two sinks.
MCArchitectures ==
  [services : SeqOf(MCServices, 2), sinks : {<<b>>, <<b, a>>}, works : {{a}}]

MCDeployments ==
  {[workers |-> SubSeq(<<[benchmark |-> p1, service |-> q1],
                         [benchmark |-> p2, service |-> q2]>>, 1, n),
    sinks |-> SubSeq(<<q2, q1>>, 1, m)] : n \in 1 .. 2, m \in 1 .. 2}

=============================================================================
