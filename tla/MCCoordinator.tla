--------------------------- MODULE MCCoordinator ---------------------------
(* Two workers for Coordinator. *)
EXTENDS Coordinator

CONSTANTS w1, w2

MCWorkers == {w1, w2}

=============================================================================
