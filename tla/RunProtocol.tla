---------------------------- MODULE RunProtocol ----------------------------
(***************************************************************************)
(* What a coordinator may rely on when it has called StartWorker, without  *)
(* workers, timers or goroutines: every run goes through its phases in     *)
(* order, results are sent only while it does, and nothing is sent any     *)
(* more once it has returned or its process has ended.                     *)
(*                                                                         *)
(* The handlers of WorkerRun.tla and the workers of Coordinator.tla both   *)
(* implement this protocol: the second is what the first looks like from   *)
(* the other end of the stream.                                            *)
(***************************************************************************)
EXTENDS Naturals

CONSTANT Runs

VARIABLES
  phase,   \* the phase of each run
  sent     \* how much it has sent

vars == <<phase, sent>>

\* The successor of each phase of a run that goes on.
After == [idle |-> "setup", setup |-> "load", load |-> "await", await |-> "settle",
          settle |-> "drain", drain |-> "returned"]

Open == {"setup", "load", "await", "settle", "drain"}

Init ==
  /\ phase = [r \in Runs |-> "idle"]
  /\ sent = [r \in Runs |-> 0]

\* Some runs send, each only more and only while it is open.
Send ==
  /\ DOMAIN sent' = Runs
  /\ \A r \in Runs : \/ sent'[r] = sent[r]
                     \/ sent'[r] > sent[r] /\ phase[r] \in Open

Proceed(r) ==
  /\ phase[r] \in DOMAIN After
  /\ phase' = [phase EXCEPT ![r] = After[phase[r]]]

\* Only the final report of a run is one step with the end of a phase.
Advance(r) == Proceed(r) /\ IF phase[r] = "settle" THEN Send ELSE UNCHANGED sent

\* A process ends, and with it all its open runs.
Die(S) ==
  /\ \A r \in S : phase[r] \in Open
  /\ phase' = [r \in Runs |-> IF r \in S THEN "dead" ELSE phase[r]]
  /\ UNCHANGED sent

Next ==
  \/ \E r \in Runs : Advance(r)
  \/ \E S \in SUBSET Runs : Die(S)
  \/ Send /\ UNCHANGED phase

Spec == Init /\ [][Next]_vars

=============================================================================
