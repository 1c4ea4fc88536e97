---------------------------- MODULE MCInvocation ----------------------------
(* An architecture for Invocation: unit x1 of service 1, y1 of service 2, z1  *)
(* and z2 of service 3, w1 of service 4.                                      *)
EXTENDS Invocation

CONSTANTS w1, x1, y1, z1, z2

MCUnits == {w1, x1, y1, z1, z2}

MCServiceOf ==
  [u \in MCUnits |-> CASE u = x1 -> 1 [] u = y1 -> 2 [] u \in {z1, z2} -> 3 [] OTHER -> 4]

To(u, sync) == [unit |-> u, sync |-> sync]

\* x1 calls y1 and z1 and waits for both; y1 calls z1 and does not wait; z1 calls
\* z2 in its own service and z2 calls w1, and both wait.  So w1 is called once on
\* a path of synchronous calls only, and once below a call that may outlive its
\* caller.
MCSuccessors ==
  [u \in MCUnits |->
     CASE u = x1 -> <<To(y1, TRUE), To(z1, TRUE)>>
       [] u = y1 -> <<To(z1, FALSE)>>
       [] u = z1 -> <<To(z2, TRUE)>>
       [] u = z2 -> <<To(w1, TRUE)>>
       [] OTHER -> << >>]

MCRoots == {x1}
MCFollows == {}

=============================================================================
