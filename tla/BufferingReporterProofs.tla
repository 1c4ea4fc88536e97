----------------------- MODULE BufferingReporterProofs -----------------------
(* Proofs about BufferingReporter, for any results, report goroutines and    *)
(* buffer size.                                                              *)
EXTENDS BufferingReporter, SequenceTheorems, TLAPS

(***************************************************************************)
(* The mutex invariant: a goroutine holds the mutex exactly while it is    *)
(* between its Lock and its Unlock.  A collector at "report" counts: it    *)
(* calls Report with the mutex held.                                       *)
(***************************************************************************)
Inside(g) ==
  \/ pc[g] \in {"append", "collected", "send", "reset", "reported"}
  \/ pc[g] = "report" /\ g \in Results

LockInv == \A g \in Goroutines : Inside(g) <=> lock = g

\* Only collectors run Collect, and a collector that calls Report never gets
\* past its lock.
RoleInv ==
  /\ \A g \in Reports : pc[g] \in {"idle", "report", "send", "reset", "reported", "done"}
  /\ \A r \in Results : pc[r] \in {"collect", "append", "collected", "done", "report"}

\* A result is dropped only after the stream broke, and a stream never recovers.
DropInv == streamUp => dropped = << >>

\* After the reset the buffer is empty.
OverflowInv ==
  /\ \A g \in Goroutines : pc[g] = "reported" => resultBuffer = << >>
  /\ Len(resultBuffer) > size => \E r \in Results : pc[r] = "report"

\* A result that was not appended yet is not among the accepted ones.
FreshInv ==
  \A r \in Results :
    pc[r] \in {"collect", "append"} => \A i \in 1 .. Len(accepted) : accepted[i] # r

IInv ==
  /\ TypeOK
  /\ FreshInv
  /\ LockInv
  /\ RoleInv
  /\ DropInv
  /\ OverflowInv
  /\ OrderKept

-----------------------------------------------------------------------------
\* The reporter's buffer holds at least one result.
LEMMA SizePositive == size \in Nat \ {0}
  BY ReporterAssumption DEF size

\* Appending commutes with putting a sequence in front.
LEMMA AppendToConcat ==
  \A s, t \in Seq(Results), e \in Results : Append(s \o t, e) = s \o Append(t, e)
<1> TAKE s, t \in Seq(Results), e \in Results
<1>1. /\ s \o t \in Seq(Results)
      /\ Append(s \o t, e) \in Seq(Results)
      /\ s \o Append(t, e) \in Seq(Results)
  BY ConcatProperties
<1>2. /\ Len(Append(s \o t, e)) = Len(s) + Len(t) + 1
      /\ Len(s \o Append(t, e)) = Len(s) + Len(t) + 1
  BY <1>1, ConcatProperties
<1>3. \A i \in 1 .. Len(Append(s \o t, e)) : Append(s \o t, e)[i] = (s \o Append(t, e))[i]
  BY <1>1, <1>2, ConcatProperties
<1>4. QED
  BY <1>1, <1>2, <1>3, SeqEqual

\* A report leaves the goroutine that made it outside the mutex, a collector
\* excepted.
LEMMA AfterReport ==
  \A g \in Goroutines :
    /\ After(g) \in PCs
    /\ g \in Reports => After(g) \in {"done", "idle"}
BY ReporterAssumption DEF After, PCs, Goroutines

\* A step of one goroutine moves that goroutine and no other.
LEMMA Moves ==
  ASSUME TypeOK, NEW g \in Goroutines, NEW from, NEW to \in PCs, Goto(g, from, to)
  PROVE  /\ pc[g] = from
         /\ pc' \in [Goroutines -> PCs]
         /\ pc'[g] = to
         /\ \A h \in Goroutines : h # g => pc'[h] = pc[h]
BY DEF TypeOK, Goto

-----------------------------------------------------------------------------
(***************************************************************************)
(* Every variable keeps its type.                                          *)
(***************************************************************************)
LEMMA TypeStep == TypeOK /\ [Next]_vars => TypeOK'
<1> SUFFICES ASSUME TypeOK, [Next]_vars
             PROVE  TypeOK'
  OBVIOUS
<1>a. \A r \in Results : r \in Goroutines
  BY DEF Goroutines
<1>b. \A g \in Reports : g \in Goroutines
  BY DEF Goroutines
<1>c. {"append", "collected", "done", "report", "send", "reset", "reported", "idle"}
        \subseteq PCs
  BY DEF PCs
<1>1. ASSUME NEW r \in Results, CollectLock(r)
      PROVE  TypeOK'
  <2>1. pc' \in [Goroutines -> PCs]
    BY <1>1, <1>a, <1>c, Moves DEF CollectLock
  <2>2. QED
    BY <1>1, <1>a, <2>1 DEF CollectLock, Lock, TypeOK
<1>2. ASSUME NEW r \in Results, CollectAppend(r)
      PROVE  TypeOK'
  <2>1. pc' \in [Goroutines -> PCs]
    BY <1>2, <1>a, <1>c, Moves DEF CollectAppend
  <2>2. resultBuffer' \in Seq(Results) /\ accepted' \in Seq(Results)
    BY <1>2 DEF CollectAppend, TypeOK
  <2>3. QED
    BY <1>2, <2>1, <2>2 DEF CollectAppend, TypeOK
<1>3. ASSUME NEW r \in Results, CollectUnlock(r)
      PROVE  TypeOK'
  <2>1. pc' \in [Goroutines -> PCs]
    BY <1>3, <1>a, <1>c, Moves DEF CollectUnlock
  <2>2. QED
    BY <1>3, <2>1 DEF CollectUnlock, Unlock, TypeOK
<1>4. ASSUME NEW g \in Goroutines, ReportLock(g)
      PROVE  TypeOK'
  <2>1. pc' \in [Goroutines -> PCs]
    BY <1>4, <1>c, Moves DEF ReportLock
  <2>2. QED
    BY <1>4, <2>1 DEF ReportLock, Lock, TypeOK
<1>5. ASSUME NEW g \in Goroutines, Send(g)
      PROVE  TypeOK'
  <2>1. pc' \in [Goroutines -> PCs]
    BY <1>5, <1>c, Moves DEF Send
  <2>2. delivered' \in Seq(Results) /\ dropped' \in Seq(Results)
    BY <1>5, ConcatProperties DEF Send, TypeOK
  <2>3. QED
    BY <1>5, <2>1, <2>2 DEF Send, TypeOK
<1>6. ASSUME NEW g \in Goroutines, Reset(g)
      PROVE  TypeOK'
  <2>1. pc' \in [Goroutines -> PCs]
    BY <1>6, <1>c, Moves DEF Reset
  <2>2. QED
    BY <1>6, <2>1 DEF Reset, TypeOK
<1>7. ASSUME NEW g \in Goroutines, ReportUnlock(g)
      PROVE  TypeOK'
  <2>1. pc' \in [Goroutines -> PCs]
    BY <1>7, AfterReport, Moves DEF ReportUnlock
  <2>2. QED
    BY <1>7, <2>1 DEF ReportUnlock, Unlock, TypeOK
<1>8. ASSUME NEW g \in Reports, Tick(g)
      PROVE  TypeOK'
  <2>1. pc' \in [Goroutines -> PCs]
    BY <1>8, <1>b, <1>c, Moves DEF Tick
  <2>2. QED
    BY <1>8, <2>1 DEF Tick, TypeOK
<1>9. CASE FinalReport
  <2>1. pc' \in [Goroutines -> PCs]
    BY <1>9, <1>b, <1>c, Moves, ReporterAssumption DEF FinalReport
  <2>2. QED
    BY <1>9, <2>1 DEF FinalReport, TypeOK
<1>10. CASE LoopEnds \/ StreamBreaks
  BY <1>10 DEF LoopEnds, StreamBreaks, TypeOK
<1>11. CASE UNCHANGED vars
  BY <1>11 DEF vars, TypeOK
<1>12. QED
  BY <1>1, <1>2, <1>3, <1>4, <1>5, <1>6, <1>7, <1>8, <1>9, <1>10, <1>11
     DEF Next, Collect, Report

\* Every variable of the reporter keeps its type.
THEOREM TypeCorrect == Spec => []TypeOK
<1>1. Init => TypeOK
  BY DEF Init, TypeOK, PCs, Goroutines
<1>2. QED
  BY <1>1, TypeStep, PTL DEF Spec

-----------------------------------------------------------------------------
\* Two goroutines are never inside the mutex at once.
LEMMA Mutex ==
  ASSUME LockInv, NEW g \in Goroutines, NEW h \in Goroutines, Inside(g), Inside(h)
  PROVE  g = h
BY DEF LockInv

\* While a goroutine that is not a collector waiting for itself is inside, or
\* nobody is, the buffer is not above its size.
LEMMA NoOverflow ==
  ASSUME TypeOK, LockInv, OverflowInv,
         \A r \in Results : pc[r] = "report" => lock # r
  PROVE  ~ (Len(resultBuffer) > size)
BY DEF LockInv, OverflowInv, Inside, Goroutines

(***************************************************************************)
(* The invariant is inductive: one step per action.                        *)
(***************************************************************************)
LEMMA InitIInv == Init => IInv
<1> SUFFICES ASSUME Init
             PROVE  IInv
  OBVIOUS
<1>1. TypeOK
  BY DEF Init, TypeOK, PCs, Goroutines
<1>2. LockInv /\ RoleInv
  BY ReporterAssumption DEF Init, LockInv, RoleInv, Inside, Goroutines
<1>3. DropInv /\ FreshInv
  BY DEF Init, DropInv, FreshInv
<1>4. OverflowInv
  BY SizePositive, ReporterAssumption DEF Init, OverflowInv, Goroutines
<1>5. OrderKept
  <2>1. << >> \in Seq(Results)
    OBVIOUS
  <2>2. << >> \o << >> \o << >> = << >>
    BY <2>1, ConcatEmptySeq
  <2>3. QED
    BY <2>2 DEF Init, OrderKept, Unsent
<1>6. QED
  BY <1>1, <1>2, <1>3, <1>4, <1>5 DEF IInv

\* Collect acquires the mutex.
LEMMA CollectLockKeeps ==
  ASSUME IInv, NEW r \in Results, CollectLock(r)
  PROVE  LockInv' /\ RoleInv' /\ DropInv' /\ OverflowInv' /\ FreshInv' /\ OrderKept'
<1> USE DEF IInv
<1>1. r \in Goroutines /\ r # NoOne /\ r \notin Reports
  BY ReporterAssumption DEF Goroutines
<1>2. /\ pc[r] = "collect"
      /\ pc' \in [Goroutines -> PCs]
      /\ pc'[r] = "append"
      /\ \A h \in Goroutines : h # r => pc'[h] = pc[h]
  BY <1>1, Moves DEF CollectLock, PCs
<1>3. lock = NoOne /\ lock' = r
  BY DEF CollectLock, Lock
<1>4. LockInv'
  BY <1>1, <1>2, <1>3, ReporterAssumption DEF LockInv, Inside, Goroutines
<1>5. RoleInv'
  BY <1>1, <1>2 DEF RoleInv, Goroutines
<1>6. DropInv' /\ FreshInv'
  BY <1>1, <1>2 DEF DropInv, FreshInv, CollectLock, Goroutines
<1>7. OverflowInv'
  <2>1. ~ (Len(resultBuffer) > size)
    BY <1>3, NoOverflow, ReporterAssumption
  <2>2. QED
    BY <1>1, <1>2, <2>1 DEF OverflowInv, CollectLock, Goroutines
<1>8. OrderKept'
  <2>1. (\E g \in Goroutines : pc'[g] = "reset") <=> (\E g \in Goroutines : pc[g] = "reset")
    BY <1>1, <1>2
  <2>2. QED
    BY <2>1 DEF OrderKept, Unsent, CollectLock
<1>9. QED
  BY <1>4, <1>5, <1>6, <1>7, <1>8

\* Collect appends its result, and calls Report when the buffer is above its size.
LEMMA CollectAppendKeeps ==
  ASSUME IInv, NEW r \in Results, CollectAppend(r)
  PROVE  LockInv' /\ RoleInv' /\ DropInv' /\ OverflowInv' /\ FreshInv' /\ OrderKept'
<1> USE DEF IInv
<1> DEFINE to == IF Len(resultBuffer') > size THEN "report" ELSE "collected"
<1>1. r \in Goroutines /\ r \notin Reports
  BY ReporterAssumption DEF Goroutines
<1>2. /\ pc[r] = "append"
      /\ pc' \in [Goroutines -> PCs]
      /\ pc'[r] = to
      /\ \A h \in Goroutines : h # r => pc'[h] = pc[h]
  <2>1. to \in PCs
    BY DEF PCs
  <2>2. QED
    BY <1>1, <2>1, Moves DEF CollectAppend
<1>3. \A h \in Goroutines : h # r => ~ Inside(h)
  BY <1>1, <1>2, Mutex DEF Inside
<1>4. LockInv'
  BY <1>1, <1>2 DEF LockInv, Inside, CollectAppend
<1>5. RoleInv'
  BY <1>1, <1>2 DEF RoleInv, Goroutines
<1>6. DropInv'
  BY DEF DropInv, CollectAppend
<1>7. OverflowInv'
  BY <1>1, <1>2, <1>3 DEF OverflowInv, Inside
<1>8. FreshInv'
  <2> SUFFICES ASSUME NEW q \in Results, pc'[q] \in {"collect", "append"},
                      NEW i \in 1 .. Len(accepted')
               PROVE  accepted'[i] # q
    BY DEF FreshInv
  <2>1. q # r /\ pc[q] \in {"collect", "append"}
    BY <1>2 DEF Goroutines
  <2>2. accepted' = Append(accepted, r) /\ accepted \in Seq(Results)
    BY DEF CollectAppend, TypeOK
  <2>3. CASE i = Len(accepted) + 1
    BY <2>1, <2>2, <2>3
  <2>4. CASE i \in 1 .. Len(accepted)
    BY <2>1, <2>2, <2>4 DEF FreshInv
  <2>5. QED
    BY <2>2, <2>3, <2>4
<1>9. OrderKept'
  <2>1. ~ \E g \in Goroutines : pc[g] = "reset"
    BY <1>2, <1>3 DEF Inside
  <2>2. ~ \E g \in Goroutines : pc'[g] = "reset"
    BY <1>2, <2>1
  <2>3. accepted = (delivered \o dropped) \o resultBuffer
    BY <2>1 DEF OrderKept, Unsent
  <2>4. (delivered \o dropped) \in Seq(Results) /\ resultBuffer \in Seq(Results)
    BY ConcatProperties DEF TypeOK
  <2>5. Append(accepted, r) = (delivered \o dropped) \o Append(resultBuffer, r)
    BY <2>3, <2>4, AppendToConcat
  <2>6. /\ accepted' = Append(accepted, r)
        /\ resultBuffer' = Append(resultBuffer, r)
        /\ delivered' = delivered
        /\ dropped' = dropped
    BY DEF CollectAppend
  <2>7. Unsent' = Append(resultBuffer, r)
    BY <2>2, <2>6 DEF Unsent
  <2>8. QED
    BY <2>5, <2>6, <2>7 DEF OrderKept
<1>10. QED
  BY <1>4, <1>5, <1>6, <1>7, <1>8, <1>9

\* Collect releases the mutex.
LEMMA CollectUnlockKeeps ==
  ASSUME IInv, NEW r \in Results, CollectUnlock(r)
  PROVE  LockInv' /\ RoleInv' /\ DropInv' /\ OverflowInv' /\ FreshInv' /\ OrderKept'
<1> USE DEF IInv
<1>1. r \in Goroutines /\ r # NoOne /\ r \notin Reports
  BY ReporterAssumption DEF Goroutines
<1>2. /\ pc[r] = "collected"
      /\ pc' \in [Goroutines -> PCs]
      /\ pc'[r] = "done"
      /\ \A h \in Goroutines : h # r => pc'[h] = pc[h]
  BY <1>1, Moves DEF CollectUnlock, PCs
<1>3. lock = r /\ lock' = NoOne
  BY DEF CollectUnlock, Unlock
<1>4. LockInv'
  BY <1>1, <1>2, <1>3, ReporterAssumption DEF LockInv, Inside, Goroutines
<1>5. RoleInv'
  BY <1>1, <1>2 DEF RoleInv, Goroutines
<1>6. DropInv' /\ FreshInv'
  BY <1>1, <1>2 DEF DropInv, FreshInv, CollectUnlock, Goroutines
<1>7. OverflowInv'
  <2>1. ~ (Len(resultBuffer) > size)
    BY <1>2, <1>3, NoOverflow
  <2>2. QED
    BY <1>1, <1>2, <2>1 DEF OverflowInv, CollectUnlock, Goroutines
<1>8. OrderKept'
  <2>1. (\E g \in Goroutines : pc'[g] = "reset") <=> (\E g \in Goroutines : pc[g] = "reset")
    BY <1>1, <1>2
  <2>2. QED
    BY <2>1 DEF OrderKept, Unsent, CollectUnlock
<1>9. QED
  BY <1>4, <1>5, <1>6, <1>7, <1>8

\* Report acquires the mutex.
LEMMA ReportLockKeeps ==
  ASSUME IInv, NEW g \in Goroutines, ReportLock(g)
  PROVE  LockInv' /\ RoleInv' /\ DropInv' /\ OverflowInv' /\ FreshInv' /\ OrderKept'
<1> USE DEF IInv
<1>1. /\ pc[g] = "report"
      /\ pc' \in [Goroutines -> PCs]
      /\ pc'[g] = "send"
      /\ \A h \in Goroutines : h # g => pc'[h] = pc[h]
  BY Moves DEF ReportLock, PCs
<1>2. lock = NoOne /\ lock' = g /\ g # NoOne
  BY ReporterAssumption DEF ReportLock, Lock, Goroutines
<1>3. g \in Reports
  BY <1>1, <1>2, ReporterAssumption DEF LockInv, Inside, Goroutines
<1>4. LockInv'
  BY <1>1, <1>2, <1>3, ReporterAssumption DEF LockInv, Inside, Goroutines
<1>5. RoleInv'
  BY <1>1, <1>3, ReporterAssumption DEF RoleInv, Goroutines
<1>6. DropInv' /\ FreshInv'
  BY <1>1 DEF DropInv, FreshInv, ReportLock, Goroutines
<1>7. OverflowInv'
  <2>1. ~ (Len(resultBuffer) > size)
    BY <1>2, NoOverflow, ReporterAssumption
  <2>2. QED
    BY <1>1, <2>1 DEF OverflowInv, ReportLock
<1>8. OrderKept'
  <2>1. (\E h \in Goroutines : pc'[h] = "reset") <=> (\E h \in Goroutines : pc[h] = "reset")
    BY <1>1
  <2>2. QED
    BY <2>1 DEF OrderKept, Unsent, ReportLock
<1>9. QED
  BY <1>4, <1>5, <1>6, <1>7, <1>8

\* Report sends the buffer, which a broken stream loses.
LEMMA SendKeeps ==
  ASSUME IInv, NEW g \in Goroutines, Send(g)
  PROVE  LockInv' /\ RoleInv' /\ DropInv' /\ OverflowInv' /\ FreshInv' /\ OrderKept'
<1> USE DEF IInv
<1>1. /\ pc[g] = "send"
      /\ pc' \in [Goroutines -> PCs]
      /\ pc'[g] = "reset"
      /\ \A h \in Goroutines : h # g => pc'[h] = pc[h]
  BY Moves DEF Send, PCs
<1>2. \A h \in Goroutines : h # g => ~ Inside(h)
  BY <1>1, Mutex DEF Inside
<1>3. LockInv'
  BY <1>1 DEF LockInv, Inside, Send
<1>4. RoleInv'
  BY <1>1 DEF RoleInv, Goroutines
<1>5. DropInv' /\ FreshInv'
  BY <1>1 DEF DropInv, FreshInv, Send, Goroutines
<1>6. OverflowInv'
  <2>1. ~ (Len(resultBuffer) > size)
    BY <1>1, <1>2, NoOverflow DEF Inside, Goroutines, LockInv
  <2>2. QED
    BY <1>1, <2>1 DEF OverflowInv, Send
<1>7. OrderKept'
  <2>1. ~ \E h \in Goroutines : pc[h] = "reset"
    BY <1>1, <1>2 DEF Inside
  <2>2. accepted = (delivered \o dropped) \o resultBuffer
    BY <2>1 DEF OrderKept, Unsent
  <2>3. Unsent' = << >>
    BY <1>1 DEF Unsent
  <2>4. /\ delivered \in Seq(Results)
        /\ dropped \in Seq(Results)
        /\ resultBuffer \in Seq(Results)
        /\ << >> \in Seq(Results)
    BY DEF TypeOK
  <2>5. accepted' = accepted
    BY DEF Send
  <2>6. CASE streamUp
    <3>1. dropped = << >> /\ dropped' = << >> /\ delivered' = delivered \o resultBuffer
      BY <2>6 DEF DropInv, Send
    <3>2. accepted = delivered \o resultBuffer
      BY <2>2, <2>4, <3>1, ConcatEmptySeq
    <3>3. (delivered' \o dropped') \o << >> = delivered'
      BY <2>4, <3>1, ConcatEmptySeq, ConcatProperties
    <3>4. QED
      BY <2>3, <2>5, <3>1, <3>2, <3>3 DEF OrderKept
  <2>7. CASE ~ streamUp
    <3>1. delivered' = delivered /\ dropped' = dropped \o resultBuffer
      BY <2>7 DEF Send
    <3>2. accepted = delivered \o (dropped \o resultBuffer)
      BY <2>2, <2>4, ConcatAssociative
    <3>3. (delivered' \o dropped') \o << >> = delivered' \o dropped'
      BY <2>4, <3>1, ConcatEmptySeq, ConcatProperties
    <3>4. QED
      BY <2>3, <2>5, <3>1, <3>2, <3>3 DEF OrderKept
  <2>8. QED
    BY <2>6, <2>7
<1>8. QED
  BY <1>3, <1>4, <1>5, <1>6, <1>7

\* Report empties the buffer it has sent.
LEMMA ResetKeeps ==
  ASSUME IInv, NEW g \in Goroutines, Reset(g)
  PROVE  LockInv' /\ RoleInv' /\ DropInv' /\ OverflowInv' /\ FreshInv' /\ OrderKept'
<1> USE DEF IInv
<1>1. /\ pc[g] = "reset"
      /\ pc' \in [Goroutines -> PCs]
      /\ pc'[g] = "reported"
      /\ \A h \in Goroutines : h # g => pc'[h] = pc[h]
  BY Moves DEF Reset, PCs
<1>2. \A h \in Goroutines : h # g => ~ Inside(h)
  BY <1>1, Mutex DEF Inside
<1>3. resultBuffer' = << >>
  BY DEF Reset
<1>4. LockInv'
  BY <1>1 DEF LockInv, Inside, Reset
<1>5. RoleInv'
  BY <1>1 DEF RoleInv, Goroutines
<1>6. DropInv' /\ FreshInv'
  BY <1>1 DEF DropInv, FreshInv, Reset, Goroutines
<1>7. OverflowInv'
  BY <1>3, SizePositive DEF OverflowInv
<1>8. OrderKept'
  <2>1. Unsent = << >>
    BY <1>1 DEF Unsent
  <2>2. Unsent' = << >>
    BY <1>3 DEF Unsent
  <2>3. QED
    BY <2>1, <2>2 DEF OrderKept, Reset
<1>9. QED
  BY <1>4, <1>5, <1>6, <1>7, <1>8

\* Report releases the mutex.
LEMMA ReportUnlockKeeps ==
  ASSUME IInv, NEW g \in Goroutines, ReportUnlock(g)
  PROVE  LockInv' /\ RoleInv' /\ DropInv' /\ OverflowInv' /\ FreshInv' /\ OrderKept'
<1> USE DEF IInv
<1>1. /\ pc[g] = "reported"
      /\ pc' \in [Goroutines -> PCs]
      /\ pc'[g] = After(g)
      /\ \A h \in Goroutines : h # g => pc'[h] = pc[h]
  BY AfterReport, Moves DEF ReportUnlock
<1>2. lock = g /\ lock' = NoOne
  BY DEF ReportUnlock, Unlock
<1>3. /\ g \in Reports /\ g \notin Results /\ g # NoOne
      /\ pc'[g] \in {"done", "idle"}
  BY <1>1, AfterReport, ReporterAssumption DEF RoleInv, Goroutines
<1>4. LockInv'
  BY <1>1, <1>2, <1>3, ReporterAssumption DEF LockInv, Inside, Goroutines
<1>5. RoleInv'
  BY <1>1, <1>3, ReporterAssumption DEF RoleInv, Goroutines
<1>6. DropInv' /\ FreshInv'
  BY <1>1, <1>3 DEF DropInv, FreshInv, ReportUnlock, Goroutines
<1>7. OverflowInv'
  BY <1>1, <1>3, SizePositive DEF OverflowInv, ReportUnlock, Goroutines
<1>8. OrderKept'
  <2>1. (\E h \in Goroutines : pc'[h] = "reset") <=> (\E h \in Goroutines : pc[h] = "reset")
    BY <1>1, <1>3
  <2>2. QED
    BY <2>1 DEF OrderKept, Unsent, ReportUnlock
<1>9. QED
  BY <1>4, <1>5, <1>6, <1>7, <1>8

\* A goroutine of the ticker, or StartWorker itself, calls Report.
LEMMA CallReportKeeps ==
  ASSUME IInv, NEW g \in Reports, Goto(g, "idle", "report"),
         UNCHANGED <<lock, resultBuffer, streamUp, accepted, delivered, dropped>>
  PROVE  LockInv' /\ RoleInv' /\ DropInv' /\ OverflowInv' /\ FreshInv' /\ OrderKept'
<1> USE DEF IInv
<1>1. g \in Goroutines /\ g \notin Results
  BY ReporterAssumption DEF Goroutines
<1>2. /\ pc[g] = "idle"
      /\ pc' \in [Goroutines -> PCs]
      /\ pc'[g] = "report"
      /\ \A h \in Goroutines : h # g => pc'[h] = pc[h]
  BY <1>1, Moves DEF PCs
<1>3. LockInv'
  BY <1>1, <1>2 DEF LockInv, Inside
<1>4. RoleInv'
  BY <1>1, <1>2 DEF RoleInv, Goroutines
<1>5. DropInv' /\ FreshInv'
  BY <1>1, <1>2 DEF DropInv, FreshInv, Goroutines
<1>6. OverflowInv'
  BY <1>1, <1>2 DEF OverflowInv, Goroutines
<1>7. OrderKept'
  <2>1. (\E h \in Goroutines : pc'[h] = "reset") <=> (\E h \in Goroutines : pc[h] = "reset")
    BY <1>1, <1>2
  <2>2. QED
    BY <2>1 DEF OrderKept, Unsent
<1>8. QED
  BY <1>3, <1>4, <1>5, <1>6, <1>7

\* Every step of the reporter preserves the invariant.
LEMMA StepIInv == IInv /\ [Next]_vars => IInv'
<1> SUFFICES ASSUME IInv, [Next]_vars
             PROVE  IInv'
  OBVIOUS
<1> DEFINE Rest == LockInv /\ RoleInv /\ DropInv /\ OverflowInv /\ FreshInv /\ OrderKept
<1>1. ASSUME NEW r \in Results, Collect(r)
      PROVE  Rest'
  BY <1>1, CollectLockKeeps, CollectAppendKeeps, CollectUnlockKeeps DEF Collect
<1>2. ASSUME NEW g \in Goroutines, Report(g)
      PROVE  Rest'
  BY <1>2, ReportLockKeeps, SendKeeps, ResetKeeps, ReportUnlockKeeps DEF Report
<1>3. ASSUME FinalReport \/ \E g \in Reports : Tick(g)
      PROVE  Rest'
  <2>1. PICK g \in Reports :
          /\ Goto(g, "idle", "report")
          /\ UNCHANGED <<lock, resultBuffer, streamUp, accepted, delivered, dropped>>
    BY <1>3, ReporterAssumption DEF Tick, FinalReport
  <2>2. QED
    BY <2>1, CallReportKeeps
<1>4. ASSUME LoopEnds \/ StreamBreaks
      PROVE  Rest'
  <2>1. UNCHANGED <<lock, resultBuffer, pc, accepted, delivered, dropped>>
    BY <1>4 DEF LoopEnds, StreamBreaks
  <2>2. streamUp' => streamUp
    BY <1>4 DEF LoopEnds, StreamBreaks
  <2>3. (LockInv /\ RoleInv /\ OverflowInv /\ FreshInv /\ OrderKept)'
    BY <2>1 DEF IInv, LockInv, RoleInv, OverflowInv, FreshInv, OrderKept, Unsent, Inside
  <2>4. DropInv'
    BY <2>1, <2>2 DEF IInv, DropInv
  <2>5. QED
    BY <2>3, <2>4
<1>5. ASSUME UNCHANGED vars
      PROVE  Rest'
  BY <1>5 DEF vars, IInv, LockInv, RoleInv, DropInv, OverflowInv, FreshInv,
              OrderKept, Unsent, Inside
<1>6. Rest'
  BY <1>1, <1>2, <1>3, <1>4, <1>5 DEF Next
<1>7. TypeOK'
  BY TypeStep DEF IInv
<1>8. QED
  BY <1>6, <1>7 DEF IInv

\* The inductive invariant holds in every run, for every buffer size and any
\* number of collecting and reporting goroutines.
THEOREM Invariance == Spec => []IInv
BY InitIInv, StepIInv, PTL DEF Spec

-----------------------------------------------------------------------------
(***************************************************************************)
(* What follows from the invariant.                                        *)
(***************************************************************************)

\* No interleaving of Collect and Report loses, repeats or reorders a result.
THEOREM OrderIsKept == Spec => []OrderKept
<1>1. IInv => OrderKept
  BY DEF IInv
<1>2. QED
  BY <1>1, Invariance, PTL

\* The stream and the buffer between Send and reset belong to one goroutine.
THEOREM StreamIsExclusive == Spec => []StreamExclusive
<1>1. IInv => StreamExclusive
  BY DEF IInv, LockInv, StreamExclusive, Inside
<1>2. QED
  BY <1>1, Invariance, PTL

\* From an overflow on the reporter stands still: the collector that found the
\* buffer too long holds the mutex and waits for it, so no other goroutine is
\* inside and none gets in.
THEOREM OverflowEndsReporting == Spec => OverflowIsFatal
<1> DEFINE Still == UNCHANGED <<lock, resultBuffer, accepted, delivered, dropped>>
<1>1. ASSUME IInv, [Next]_vars, Len(resultBuffer) > size
      PROVE  Still
  <2>1. PICK r \in Results : pc[r] = "report"
    BY <1>1 DEF IInv, OverflowInv
  <2>2. r \in Goroutines /\ lock = r /\ r # NoOne
    BY <1>1, <2>1, ReporterAssumption DEF IInv, LockInv, Inside, Goroutines
  <2>3. \A h \in Goroutines : Inside(h) => h = r
    BY <1>1, <2>2 DEF IInv, LockInv
  <2>4. ASSUME NEW q \in Results, Collect(q)
        PROVE  Still
    BY <2>1, <2>2, <2>3, <2>4 DEF Collect, CollectLock, CollectAppend, CollectUnlock,
                                  Goto, Lock, Inside, Goroutines
  <2>5. ASSUME NEW g \in Goroutines, Report(g)
        PROVE  Still
    BY <2>1, <2>2, <2>3, <2>5 DEF Report, ReportLock, Send, Reset, ReportUnlock,
                                  Goto, Lock, Inside
  <2>6. ASSUME FinalReport \/ \E g \in Reports : Tick(g)
        PROVE  Still
    BY <2>6 DEF Tick, FinalReport
  <2>7. CASE LoopEnds \/ StreamBreaks
    BY <2>7 DEF LoopEnds, StreamBreaks
  <2>8. CASE UNCHANGED vars
    BY <2>8 DEF vars
  <2>9. QED
    BY <1>1, <2>4, <2>5, <2>6, <2>7, <2>8 DEF Next
<1>2. IInv /\ [Next]_vars => [Len(resultBuffer) > size => Still]_vars
  BY <1>1
<1>3. QED
  BY <1>2, Invariance, PTL DEF Spec, OverflowIsFatal

(***************************************************************************)
(* BufferingReporter implements the log of ResultLog.tla: an append is     *)
(* Accept, a Send is Deliver or Discard, and every other step of the       *)
(* goroutines is invisible.                                                *)
(***************************************************************************)
THEOREM Implementation == Spec => ImplementsLog
<1>1. Init => Log!Init
  BY DEF Init, Log!Init
<1>2. ASSUME IInv, IInv', [Next]_vars
      PROVE  [Log!Next]_(Log!vars)
  <2> USE DEF Log!vars
  <2>1. ASSUME NEW r \in Results, CollectAppend(r)
        PROVE  Log!Accept(r)
    <3>1. pc[r] = "append"
      BY <2>1 DEF CollectAppend, Goto
    <3>2. \A i \in 1 .. Len(accepted) : accepted[i] # r
      BY <1>2, <3>1 DEF IInv, FreshInv
    <3>3. QED
      BY <2>1, <3>2 DEF CollectAppend, Log!Accept
  <2>2. ASSUME NEW g \in Goroutines, Send(g)
        PROVE  Log!Deliver \/ Log!Discard
    <3>1. pc'[g] = "reset" /\ accepted' = accepted
      BY <1>2, <2>2, Moves DEF Send, PCs, IInv
    <3>2. Unsent' = << >>
      BY <3>1 DEF Unsent
    <3>3. /\ delivered' \in Seq(Results)
          /\ dropped' \in Seq(Results)
          /\ delivered' \o dropped' \in Seq(Results)
      BY <1>2, ConcatProperties DEF IInv, TypeOK
    <3>4. accepted = delivered' \o dropped'
      BY <1>2, <3>1, <3>2, <3>3, ConcatEmptySeq DEF IInv, OrderKept
    <3>5. CASE streamUp
      <4>1. dropped' = << >> /\ dropped' = dropped
        BY <1>2, <2>2, <3>5 DEF Send, IInv, DropInv
      <4>2. delivered' = accepted
        BY <3>3, <3>4, <4>1, ConcatEmptySeq
      <4>3. QED
        BY <2>2, <3>1, <3>5, <4>1, <4>2 DEF Send, Log!Deliver
    <3>6. CASE ~ streamUp
      <4>1. delivered' = delivered
        BY <2>2, <3>6 DEF Send
      <4>2. QED
        BY <2>2, <3>1, <3>3, <3>4, <3>6, <4>1 DEF Send, Log!Discard
    <3>7. QED
      BY <3>5, <3>6
  <2>3. ASSUME NEW r \in Results, CollectLock(r) \/ CollectUnlock(r)
        PROVE  UNCHANGED Log!vars
    BY <2>3 DEF CollectLock, CollectUnlock
  <2>4. ASSUME NEW g \in Goroutines, ReportLock(g) \/ Reset(g) \/ ReportUnlock(g)
        PROVE  UNCHANGED Log!vars
    BY <2>4 DEF ReportLock, Reset, ReportUnlock
  <2>5. ASSUME LoopEnds \/ FinalReport \/ \E g \in Reports : Tick(g)
        PROVE  UNCHANGED Log!vars
    BY <2>5 DEF LoopEnds, FinalReport, Tick
  <2>6. CASE StreamBreaks
    BY <2>6 DEF StreamBreaks, Log!Next, Log!Break
  <2>7. CASE UNCHANGED vars
    BY <2>7 DEF vars
  <2>8. QED
    BY <1>2, <2>1, <2>2, <2>3, <2>4, <2>5, <2>6, <2>7 DEF Next, Collect, Report, Log!Next
<1>3. QED
  BY <1>1, <1>2, Invariance, PTL DEF Spec, ImplementsLog, Log!Spec

=============================================================================
