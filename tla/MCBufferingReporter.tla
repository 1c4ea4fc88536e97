----------------------- MODULE MCBufferingReporter -----------------------
(* Instances of BufferingReporter for TLC. *)
EXTENDS BufferingReporter

CONSTANTS r1, r2, r3, g1

MCResults == {r1, r2, r3}
MCReports == {g1, Handler}

=============================================================================
