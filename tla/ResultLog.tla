----------------------------- MODULE ResultLog -----------------------------
(***************************************************************************)
(* What a worker's ResultReporter promises, without buffer, mutex or       *)
(* goroutines: the results it accepted form one sequence; handing them     *)
(* over moves everything accepted so far to the result stream, in order;   *)
(* once the stream is broken nothing more is delivered and whatever is     *)
(* handed over is dropped.  BufferingReporter.tla implements this log.     *)
(***************************************************************************)
EXTENDS Sequences, Naturals

CONSTANT Results       \* the results of all invocations, each distinct

VARIABLES
  accepted,            \* results accepted by Collect, in order
  delivered,           \* results handed to a working stream, in order
  dropped,             \* results handed to a broken stream, in order
  streamUp             \* the result stream to the coordinator still works

vars == <<accepted, delivered, dropped, streamUp>>

Init ==
  /\ accepted = << >>
  /\ delivered = << >>
  /\ dropped = << >>
  /\ streamUp = TRUE

Accept(r) ==
  /\ \A i \in 1 .. Len(accepted) : accepted[i] # r
  /\ accepted' = Append(accepted, r)
  /\ UNCHANGED <<delivered, dropped, streamUp>>

Deliver ==
  /\ streamUp
  /\ delivered' = accepted
  /\ UNCHANGED <<accepted, dropped, streamUp>>

Discard ==
  /\ ~ streamUp
  /\ accepted = delivered \o dropped'
  /\ dropped' \in Seq(Results)
  /\ UNCHANGED <<accepted, delivered, streamUp>>

Break ==
  /\ streamUp' = FALSE
  /\ UNCHANGED <<accepted, delivered, dropped>>

Next ==
  \/ \E r \in Results : Accept(r)
  \/ Deliver
  \/ Discard
  \/ Break

Spec == Init /\ [][Next]_vars

=============================================================================
