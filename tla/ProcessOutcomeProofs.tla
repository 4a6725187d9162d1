------------------------ MODULE ProcessOutcomeProofs ------------------------
(***************************************************************************)
(* What a row says and what OA holds.  The invariants relate the place of  *)
(* an executor to the booking, to the calls sent and to the step rows.     *)
(* Who is about to cancel has something to cancel, and who ends with a     *)
(* failure has cancelled what the table shows as submitted.                *)
(*                                                                         *)
(* What a success is worth: a worker that is on its plan has no call on    *)
(* its way to OA, so the state its last call left is the one OA holds; a   *)
(* table with the three rows of the plan keeps every executor away from OA *)
(* for good; and a replay that finds every number recorded finds either    *)
(* those three rows or the row of a compensation in the place of one.      *)
(***************************************************************************)
EXTENDS ProcessExclusionProofs

-----------------------------------------------------------------------------
(***************************************************************************)
(* Whoever cancels has a booking to cancel.                                *)
(***************************************************************************)

\* A bound booking_id, a compensation and an accepted call stand for a booking.
StepHasBooking(e) ==
    /\ pc[e] \in StepPcs
    /\ local[e].known \/ local[e].act = "cancel" \/ pc[e] = "good"
    => booking[job[e]] # "none"

\* So does a completed step row.
RowHasBooking(p) ==
    \A r \in table[p] : r.st = "completed" => booking[p] # "none"

BookingInv ==
    /\ \A e \in Executors : StepHasBooking(e)
    /\ \A p \in Processes : RowHasBooking(p)

\* A replay that stops behind the first step has seen its completed row.
LEMMA ReplayHasRow ==
    ASSUME NEW t, FailPoint(t) # 1
    PROVE  \E r \in t : r.st = "completed" /\ r.no = 1
<1>1. 1 \in CompletedNos(t)
  BY FailPointInPlan
<1>. QED  BY <1>1 DEF CompletedNos

\* Every step keeps a booking behind whoever is about to cancel.
LEMMA NextBooking == ASSUME Shape, BookingInv, [Next]_vars PROVE BookingInv'
<1>1. \A p \in Processes : booking[p] # "none" => booking'[p] # "none"
  BY BookingMoves
<1>2. ASSUME NEW p \in Processes PROVE RowHasBooking(p)'
  <2> SUFFICES ASSUME NEW r \in table'[p], r.st = "completed"
               PROVE  booking'[p] # "none"
    BY DEF RowHasBooking
  <2>1. CASE r \in table[p]
    BY <1>1, <2>1 DEF BookingInv, RowHasBooking
  <2>2. ASSUME NEW e \in Executors, EndStep(e), p = job[e], RowOf(e, r)
        PROVE  booking'[p] # "none"
    BY <1>1, <2>2 DEF BookingInv, StepHasBooking, RowOf, StepPcs
  <2>. QED  BY <2>1, <2>2, TableGrows
<1>3. ASSUME NEW e \in Executors PROVE StepHasBooking(e)'
  <2> SUFFICES ASSUME pc'[e] \in StepPcs,
                      \/ local'[e].known \/ local'[e].act = "cancel"
                      \/ pc'[e] = "good"
               PROVE  booking'[job'[e]] # "none"
    BY DEF StepHasBooking
  <2>1. job'[e] \in Processes
    BY NextShape, JobTyped DEF Busy, BusyPcs, Shape, TypeOK, ExecutorInv, WorkerOK,
       WatchdogOK, Executors
  <2>2. CASE pc'[e] = pc[e] /\ local'[e] = local[e] /\ job'[e] = job[e]
    BY <1>1, <2>1, <2>2 DEF BookingInv, StepHasBooking
  <2>3. CASE Solo(e)
    <3>1. EntersStep(e)
      BY <2>3, StepEntry
    <3>2. ASSUME CallOA(e), pc'[e] = "good" PROVE booking'[job[e]] # "none"
      <4>1. local[e].act \in Actions /\ job[e] \in Processes
        BY <3>2, JobTyped DEF CallOA, Busy, BusyPcs, StepPcs, Shape, TypeOK, Locals
      <4>2. Outcome(local[e].act) # "none"
        BY <4>1 DEF Outcome, Actions, Forward
      <4>3. booking' = [booking EXCEPT ![job[e]] = Outcome(local[e].act)]
        BY <3>2 DEF CallOA, Goto, Shape, TypeOK
      <4>. QED  BY <4>1, <4>2, <4>3 DEF Shape, TypeOK
    <3>3. ASSUME e \in Instances, Replay(e), pc[e] = "replay",
                 FailPoint(table[job[e]]) \in 2 .. Len(Plan)
          PROVE  booking[job[e]] # "none"
      <4>1. job[e] \in Processes
        BY <3>3, JobTyped DEF Busy, BusyPcs
      <4>. QED  BY <3>3, <4>1, ReplayHasRow DEF BookingInv, RowHasBooking
    <3>. QED  BY <1>1, <2>1, <3>1, <3>2, <3>3
              DEF EntersStep, BookingInv, StepHasBooking, StepPcs, At
  <2>. QED  BY <2>2, <2>3, MoverOrNot DEF StepPcs
<1>. QED  BY <1>2, <1>3 DEF BookingInv

\* Neither compensate, in a worker or in a watchdog, nor a recovery from the
\* step rows asks OA to cancel a booking that OA never had.
THEOREM CancelTargets == Spec => []CancelHasTarget
<1>1. Init => Shape /\ BookingInv
  <2>1. Init => /\ \A e \in Executors : pc[e] \notin StepPcs
                /\ \A p \in Processes : table[p] = {}
    BY DEF Init, StepPcs
  <2>. QED  BY <2>1, InitShape DEF BookingInv, StepHasBooking, RowHasBooking
<1>2. Shape /\ BookingInv /\ [Next]_vars => (Shape /\ BookingInv)'
  BY NextShape, NextBooking
<1>3. BookingInv => CancelHasTarget
  BY DEF BookingInv, StepHasBooking, CancelHasTarget, StepPcs
<1>. QED  BY <1>1, <1>2, <1>3, PTL DEF Spec

-----------------------------------------------------------------------------
(***************************************************************************)
(* A step row records a call that was sent, under its place in the plan.   *)
(***************************************************************************)
CallWasSent(e) == pc[e] \in {"good", "bad"} => Sent(job[e], local[e].act)

RowsTrue(p) ==
    \A r \in table[p] :
        /\ Sent(p, r.act)
        /\ r.act \in Forward => r.no = Position(r.act)

UnusedEmpty(p) == status[p] = "none" => table[p] = {} /\ late[p] = {}

RecordInv ==
    /\ \A e \in Executors : CallWasSent(e)
    /\ \A p \in Processes : RowsTrue(p) /\ UnusedEmpty(p)

\* The end of a step is at a row that exists, and after its call.
LEMMA EndStepKnows ==
    ASSUME Shape, History, NEW e \in Executors, EndStep(e)
    PROVE  /\ Solo(e) /\ Busy(e) /\ pc[e] \in {"good", "bad"}
           /\ job[e] \in Processes /\ status[job[e]] # "none"
           /\ local[e].act \in Forward => e = job[e]
<1>1. Solo(e) /\ Busy(e) /\ pc[e] \in {"good", "bad"}
  BY DEF EndStep, Solo, ExecutorStep, Busy, BusyPcs, StepPcs
<1>2. job[e] \in Processes
  BY <1>1, JobTyped
<1>3. status[job[e]] # "none"
  BY <1>1, <1>2 DEF History, UntouchedInv
<1>4. local[e].act \in Forward => e = job[e]
  BY <1>1 DEF Shape, ExecutorInv, WorkerOK, WatchdogOK, Executors, StepPcs, Forward
<1>. QED  BY <1>1, <1>2, <1>3, <1>4

\* Every step keeps each row the trace of a call that was sent.
LEMMA NextRecord ==
    ASSUME Shape, History, RecordInv, [Next]_vars PROVE RecordInv'
<1>1. \A p \in Processes, a \in Actions : Sent(p, a) => Sent(p, a)'
  BY CallsGrow
<1>2. ASSUME NEW p \in Processes PROVE RowsTrue(p)'
  <2> SUFFICES ASSUME NEW r \in table'[p]
               PROVE  /\ Sent(p, r.act)'
                      /\ r.act \in Forward => r.no = Position(r.act)
    BY DEF RowsTrue
  <2>1. CASE r \in table[p]
    <3>1. r.act \in Actions
      BY <2>1 DEF Shape, TypeOK, Row
    <3>. QED  BY <1>1, <2>1, <3>1 DEF RecordInv, RowsTrue
  <2>2. ASSUME NEW e \in Executors, EndStep(e), p = job[e], RowOf(e, r)
        PROVE  /\ Sent(p, r.act)'
               /\ r.act \in Forward => r.no = Position(r.act)
    <3>1. pc[e] \in {"good", "bad"} /\ local[e].act \in Actions
      BY <2>2, EndStepKnows DEF Shape, TypeOK, Locals
    <3>2. Sent(p, r.act)'
      BY <1>1, <2>2, <3>1 DEF RecordInv, CallWasSent, RowOf
    <3>3. StepOK(e)
      BY DEF Shape, ExecutorInv
    <3>4. r.act \in Forward => r.no = Position(r.act)
      BY <2>2, <3>1, <3>3 DEF StepOK, StepPcs, RowOf, Forward
    <3>. QED  BY <3>2, <3>4
  <2>. QED  BY <2>1, <2>2, TableGrows
<1>3. ASSUME NEW p \in Processes PROVE UnusedEmpty(p)'
  <2> SUFFICES ASSUME status'[p] = "none" PROVE table'[p] = {} /\ late'[p] = {}
    BY DEF UnusedEmpty
  <2>1. status[p] = "none" /\ table[p] = {} /\ late[p] = {}
    BY StatusMoves DEF RecordInv, UnusedEmpty, Terminal
  <2>2. \A e \in Executors : EndStep(e) => p # job[e]
    BY <2>1, EndStepKnows
  <2>3. \A e \in Executors : CallOA(e) => p # job[e]
    BY <2>1 DEF CallOA, History, UntouchedInv, Busy, BusyPcs, StepPcs
  <2>. QED  BY <2>1, <2>2, <2>3, TableGrows, BookingMoves
<1>4. ASSUME NEW e \in Executors PROVE CallWasSent(e)'
  <2> SUFFICES ASSUME pc'[e] \in {"good", "bad"} PROVE Sent(job[e], local[e].act)'
    BY DEF CallWasSent
  <2>1. CASE pc'[e] = pc[e] /\ local'[e] = local[e] /\ job'[e] = job[e]
    <3>1. job[e] \in Processes /\ local[e].act \in Actions
      BY <2>1, JobTyped DEF Busy, BusyPcs, StepPcs, Shape, TypeOK, Locals
    <3>2. Sent(job[e], local[e].act)
      BY <2>1 DEF RecordInv, CallWasSent
    <3>. QED  BY <1>1, <2>1, <3>1, <3>2 DEF Sent
  <2>2. CASE Solo(e)
    <3>1. CallOA(e) /\ pc[e] = "call" /\ local'[e] = local[e] /\ job'[e] = job[e]
      BY <2>2, StepEntry DEF EntersStep, StepPcs
    <3>2. job[e] \in Processes /\ local[e].act \in Actions
      BY <3>1, JobTyped DEF Busy, BusyPcs, StepPcs, Shape, TypeOK, Locals
    <3>3. \E i \in DOMAIN calls'[job[e]] : calls'[job[e]][i] = local[e].act
      BY <3>1, <3>2, CallsGrow DEF Sent
    <3>. QED  BY <3>1, <3>3 DEF Sent
  <2>. QED  BY <2>1, <2>2, MoverOrNot
<1>. QED  BY <1>2, <1>3, <1>4 DEF RecordInv

-----------------------------------------------------------------------------
(***************************************************************************)
(* Whoever ends a submitted row with a failure has sent the cancel.        *)
(***************************************************************************)
SubmitRow == [no |-> 1, act |-> "submit", st |-> "completed"]

\* drive's own handler took no exception on this row, its heartbeat has not
\* expired beside an executor, and its workflow is still registered.
Tidy(p) == mishap[p] = {} /\ rebuild[p] # "unregistered"

\* A worker whose booking_id is not bound has no completed submission.
UnboundUnrecorded(p) ==
    pc[p] \in StepPcs /\ ~local[p].known => SubmitRow \notin table[p]

\* Whoever is about to write "failed" over a recorded submission has cancelled.
FailureCancelled(p) ==
    \A e \in Executors :
        /\ pc[e] \in {"read", "write"} /\ job[e] = p
        /\ local[e].verdict = "failed"
        /\ SubmitRow \in table[p]
        => Sent(p, "cancel")

FailedRowCancelled(p) ==
    status[p] = "failed" /\ SubmitRow \in table[p] => Sent(p, "cancel")

FailedInv ==
    \A p \in Processes :
        /\ UnboundUnrecorded(p)
        /\ Tidy(p) => FailureCancelled(p) /\ FailedRowCancelled(p)

\* The row of the submission is added by the worker that goes on with the plan.
LEMMA SubmitRowAdded ==
    ASSUME Shape, History, [Next]_vars, NEW p \in Processes,
           SubmitRow \in table'[p], SubmitRow \notin table[p]
    PROVE  EndStep(p) /\ pc[p] = "good" /\ local[p].act = "submit"
<1>1. PICK e \in Executors : EndStep(e) /\ p = job[e] /\ RowOf(e, SubmitRow)
  BY TableGrows
<1>2. local[e].act = "submit" /\ pc[e] = "good"
  BY <1>1 DEF RowOf, SubmitRow
<1>3. e = p
  BY <1>1, <1>2, EndStepKnows DEF Forward
<1>. QED  BY <1>1, <1>2, <1>3

\* Every step keeps the submission unrecorded while booking_id is unbound.
LEMMA NextUnbound ==
    ASSUME Shape, History, RecordInv, FailedInv, [Next]_vars, NEW p \in Processes
    PROVE  UnboundUnrecorded(p)'
<1> SUFFICES ASSUME pc'[p] \in StepPcs, ~local'[p].known, SubmitRow \in table'[p]
             PROVE  FALSE
  BY DEF UnboundUnrecorded
<1>1. p \in Executors /\ p \notin Instances
  BY ExecutorsDisjoint DEF Executors
<1>2. Solo(p) \/ (pc'[p] = pc[p] /\ local'[p] = local[p])
  BY <1>1, MoverOrNot DEF StepPcs
<1> DEFINE stay == pc[p] \in StepPcs /\ ~local[p].known
<1>3. Solo(p) => stay \/ status[p] = "none"
  <2>1. \A a, n : At(a, n, TRUE).known
    BY DEF At
  <2>. QED  BY <1>1, <2>1, StepEntry DEF EntersStep, StepPcs
<1>4. CASE SubmitRow \in table[p]
  <2>1. status[p] # "none" /\ ~stay
    BY <1>4 DEF RecordInv, UnusedEmpty, FailedInv, UnboundUnrecorded
  <2>. QED  BY <1>2, <1>3, <2>1
<1>5. CASE SubmitRow \notin table[p]
  <2>1. EndStep(p) /\ pc[p] = "good" /\ job[p] = p
    BY <1>5, SubmitRowAdded DEF Shape, ExecutorInv, WorkerOK
  <2>2. Solo(p) /\ status[p] # "none"
    BY <1>1, <2>1, EndStepKnows
  <2>3. \A a, n : At(a, n, TRUE).known
    BY DEF At
  <2>. QED  BY <1>1, <2>1, <2>2, <2>3, StepEntry DEF EntersStep
<1>. QED  BY <1>4, <1>5

\* Every step keeps a failure behind a cancel.
LEMMA NextFailureCancelled ==
    ASSUME Shape, History, ExclusiveInv, RecordInv, FailedInv, [Next]_vars,
           NEW p \in Processes, Tidy(p)'
    PROVE  FailureCancelled(p)'
<1>1. Tidy(p) /\ InTime(p) /\ Exclusive(p)
  BY MishapsStay, RebuildStays DEF Tidy, InTime, ExclusiveInv
<1>2. Sent(p, "cancel") => Sent(p, "cancel")'
  BY CallsGrow DEF Actions
<1> SUFFICES ASSUME NEW e \in Executors, pc'[e] \in {"read", "write"}, job'[e] = p,
                    local'[e].verdict = "failed", SubmitRow \in table'[p]
             PROVE  Sent(p, "cancel")
  BY <1>2 DEF FailureCancelled
<1>3. Solo(e) \/ (pc'[e] = pc[e] /\ local'[e] = local[e] /\ job'[e] = job[e])
  BY MoverOrNot
<1>4. CASE SubmitRow \in table[p]
  <2>1. CASE pc'[e] = pc[e] /\ local'[e] = local[e] /\ job'[e] = job[e]
    BY <1>1, <1>4, <2>1 DEF FailedInv, FailureCancelled
  <2>2. CASE Solo(e)
    <3>1. EntersEnd(e) /\ job[e] = p
      BY <2>2, EndEntry
    <3>2. CASE ReadStatus(e) /\ pc[e] = "read" /\ local'[e] = local[e]
      BY <1>1, <1>4, <3>1, <3>2 DEF FailedInv, FailureCancelled
    <3>3. CASE pc[e] \in {"good", "bad"} /\ local[e].act = "cancel"
      BY <3>1, <3>3 DEF RecordInv, CallWasSent
    <3>4. CASE EndStep(e) /\ local[e].act \in Forward /\ ~local[e].known
      <4>1. e = p /\ pc[e] \in StepPcs
        BY <3>1, <3>4, EndStepKnows DEF StepPcs
      <4>. QED  BY <1>4, <3>4, <4>1 DEF FailedInv, UnboundUnrecorded
    <3>5. CASE e \in Processes /\ DriveRaises(e)
      <4>1. e = p
        BY <3>1, <3>5 DEF Shape, ExecutorInv, WorkerOK
      <4>2. "raised" \in mishap'[p]
        BY <3>5, <4>1 DEF DriveRaises, Shape, TypeOK
      <4>. QED  BY <4>2 DEF Tidy
    <3>6. CASE FailPoint(table[p]) = 1
      <4>1. 1 \notin CompletedNos(table[p])
        BY <3>6, FailPointInPlan
      <4>2. 1 \in CompletedNos(table[p])
        BY <1>4 DEF CompletedNos, SubmitRow
      <4>. QED  BY <4>1, <4>2
    <3>7. CASE local'[e] = Ending("completed")
      BY <3>7 DEF Ending, Blank, At
    <3>8. CASE rebuild[job[e]] = "unregistered"
      BY <1>1, <3>1, <3>8 DEF Tidy
    <3>. QED
      BY <3>1, <3>2, <3>3, <3>4, <3>5, <3>6, <3>7, <3>8 DEF EntersEnd
  <2>. QED  BY <1>3, <2>1, <2>2
<1>5. CASE SubmitRow \notin table[p]
  <2>1. EndStep(p) /\ pc[p] = "good" /\ local[p].act = "submit"
    BY <1>5, SubmitRowAdded
  <2>2. p \in Executors /\ Solo(p) /\ Busy(p) /\ job[p] = p
    BY <2>1, EndStepKnows DEF Executors, Shape, ExecutorInv, WorkerOK
  <2>3. CASE e = p
    <3>1. EntersEnd(p)
      BY <2>2, <2>3, EndEntry
    <3>2. ~DriveRaises(p)
      <4>1. DriveRaises(p) => "raised" \in mishap'[p]
        BY DEF DriveRaises, Shape, TypeOK
      <4>. QED  BY <4>1 DEF Tidy
    <3>. QED  BY <2>1, <3>1, <3>2 DEF EntersEnd, Forward
  <2>4. CASE e # p
    <3>1. Busy(e) /\ job[e] = p
      BY <2>2, <2>4, SoloMovesOne DEF OthersStay, Busy, BusyPcs
    <3>. QED  BY <1>1, <2>2, <2>4, <3>1 DEF Exclusive
  <2>. QED  BY <2>3, <2>4
<1>. QED  BY <1>4, <1>5

\* Every step keeps a failed row behind a cancel.
LEMMA NextFailedRow ==
    ASSUME Shape, History, ExclusiveInv, FailedInv, [Next]_vars,
           NEW p \in Processes, Tidy(p)'
    PROVE  FailedRowCancelled(p)'
<1>1. Tidy(p) /\ InTime(p) /\ Exclusive(p)
  BY MishapsStay, RebuildStays DEF Tidy, InTime, ExclusiveInv
<1>2. Sent(p, "cancel") => Sent(p, "cancel")'
  BY CallsGrow DEF Actions
<1> SUFFICES ASSUME status'[p] = "failed", SubmitRow \in table'[p]
             PROVE  Sent(p, "cancel")
  BY <1>2 DEF FailedRowCancelled
<1>3. \/ status[p] = "failed"
      \/ \E e \in Executors : pc[e] = "write" /\ job[e] = p
                              /\ local[e].verdict = "failed"
  BY StatusMoves
<1>4. CASE SubmitRow \in table[p]
  BY <1>1, <1>3, <1>4 DEF FailedInv, FailedRowCancelled, FailureCancelled
<1>5. CASE SubmitRow \notin table[p]
  <2>1. p \in Executors /\ Busy(p) /\ job[p] = p /\ pc[p] = "good"
    BY <1>5, SubmitRowAdded, EndStepKnows
    DEF Executors, Shape, ExecutorInv, WorkerOK
  <2>2. status[p] = "running"
    BY <1>1, <2>1 DEF Exclusive
  <2>. QED  BY <1>1, <1>3, <2>1, <2>2 DEF Exclusive, Busy, BusyPcs
<1>. QED  BY <1>4, <1>5

\* A row that says failed although its submission was recorded has been
\* through a cancel: neither worker nor watchdog forgets the compensation,
\* unless drive took an exception itself, the heartbeat expired beside one of
\* them, or the workflow is not registered any more.
THEOREM FailureIsCancelled == Spec => []FailedWasCancelled
<1> DEFINE Inv == Shape /\ History /\ ExclusiveInv /\ RecordInv /\ FailedInv
<1>1. Init => Inv
  <2> SUFFICES ASSUME Init PROVE Inv
    OBVIOUS
  <2>1. \A e \in Executors : pc[e] \in {"idle", "sleep"}
    BY DEF Init
  <2>2. \A p \in Processes : table[p] = {} /\ late[p] = {} /\ p \in Executors
    BY DEF Init, Executors
  <2>3. RecordInv
    BY <2>1, <2>2 DEF RecordInv, CallWasSent, RowsTrue, UnusedEmpty
  <2>4. FailedInv
    BY <2>1, <2>2 DEF FailedInv, UnboundUnrecorded, FailureCancelled,
                      FailedRowCancelled, StepPcs
  <2>. QED  BY <2>3, <2>4, InitExclusive
<1>2. Inv /\ [Next]_vars => Inv'
  <2> SUFFICES ASSUME Inv, [Next]_vars PROVE Inv'
    OBVIOUS
  <2>1. (Shape /\ History /\ ExclusiveInv /\ RecordInv)'
    BY NextShape, NextHistory, NextExclusive, NextRecord
  <2>2. FailedInv'
    BY NextUnbound, NextFailureCancelled, NextFailedRow DEF FailedInv
  <2>. QED  BY <2>1, <2>2
<1>3. Inv => FailedWasCancelled
  BY DEF FailedInv, FailedRowCancelled, FailedWasCancelled, Tidy, SubmitRow, Sent
<1>. QED  BY <1>1, <1>2, <1>3, PTL DEF Spec

-----------------------------------------------------------------------------
(***************************************************************************)
(* A success leaves an active booking, and so does a completed row.        *)
(***************************************************************************)

\* A worker on its plan: nothing is on its way, the last answer is the truth.
PlanIsTruth(p) ==
    /\ pc[p] \in {"begin", "call", "good"} /\ local[p].act \in Forward
           => late[p] = {}
    /\ pc[p] = "good" /\ local[p].act \in Forward
           => booking[p] = Outcome(local[p].act)

Settled(p) == booking[p] = "active" /\ late[p] = {}

\* With the three rows of the plan nobody takes a step any more.
RecordedIsOver(p) ==
    Recorded(p) =>
        /\ Settled(p)
        /\ \A e \in Executors : job[e] = p => pc[e] \notin StepPcs

\* Whoever is about to write "completed" leaves an active booking.
CompletedSettled(p) ==
    \A e \in Executors :
        /\ pc[e] \in {"read", "write"} /\ job[e] = p
        /\ local[e].verdict = "completed"
        => Settled(p) \/ HidesMissingStep(p)

CompletedRowSettled(p) ==
    status[p] = "completed" => Settled(p) \/ HidesMissingStep(p)

OutcomeInv ==
    \A p \in Processes : InTime(p) =>
        /\ PlanIsTruth(p)
        /\ RecordedIsOver(p)
        /\ CompletedSettled(p)
        /\ CompletedRowSettled(p)

Basis == Shape /\ History /\ ExclusiveInv /\ RecordInv

\* What the other modules proved is kept by every step.
LEMMA NextBasis == ASSUME Basis, [Next]_vars PROVE Basis'
BY NextShape, NextHistory, NextExclusive, NextRecord DEF Basis

-----------------------------------------------------------------------------
\* Without a call, sent or on its way, OA's state stays.
LEMMA QuietAtOA ==
    ASSUME Shape, [Next]_vars, NEW p \in Processes, late[p] = {},
           \A e \in Executors : job[e] = p => pc[e] # "call"
    PROVE  booking'[p] = booking[p] /\ late'[p] = late[p]
BY BookingMoves DEF CallOA

\* A hidden step stays hidden, a row that is there stays there.
LEMMA TableStays ==
    ASSUME Shape, [Next]_vars, NEW p \in Processes
    PROVE  /\ HidesMissingStep(p) => HidesMissingStep(p)'
           /\ Recorded(p) => Recorded(p)'
BY TableGrows DEF HidesMissingStep, Recorded

\* Three recorded numbers are the three rows of the plan, unless one of them is
\* that of a compensation.
LEMMA NumbersAreRows ==
    ASSUME Shape, NEW p \in Processes, RowsTrue(p),
           \A n \in 1 .. 3 : n \in CompletedNos(table[p])
    PROVE  Recorded(p) \/ HidesMissingStep(p)
<1> SUFFICES ASSUME ~HidesMissingStep(p), NEW n \in 1 .. 3
             PROVE  [no |-> n, act |-> Plan[n], st |-> "completed"] \in table[p]
  BY PlanFacts DEF Recorded
<1>1. PICK r \in table[p] : r.st = "completed" /\ r.no = n
  BY DEF CompletedNos
<1>2. r \in Row
  BY DEF Shape, TypeOK
<1>3. r.act # "cancel"
  BY <1>1, PlanFacts DEF HidesMissingStep
<1>4. r.act \in Forward /\ Position(r.act) = n
  BY <1>1, <1>2, <1>3 DEF Row, Actions, RowsTrue
<1>5. r.act = Plan[n]
  BY <1>4, PlanFacts
<1>6. r = [no |-> n, act |-> Plan[n], st |-> "completed"]
  BY <1>1, <1>2, <1>5 DEF Row
<1>. QED  BY <1>6

\* The rows of the plan are its numbers.
LEMMA RowsAreNumbers ==
    ASSUME NEW p \in Processes, Recorded(p)
    PROVE  \A n \in 1 .. 3 : n \in CompletedNos(table[p])
<1> SUFFICES ASSUME NEW n \in 1 .. 3 PROVE n \in CompletedNos(table[p])
  OBVIOUS
<1> DEFINE r == [no |-> n, act |-> Plan[n], st |-> "completed"]
<1>1. r \in table[p]
  BY PlanFacts DEF Recorded
<1>2. r.no = n /\ r.st = "completed"
  OBVIOUS
<1>. QED  BY <1>1, <1>2 DEF CompletedNos

\* The last of the three rows is that of the last step, added by the worker.
LEMMA RecordedAdded ==
    ASSUME Basis, [Next]_vars, NEW p \in Processes, Recorded(p)', ~Recorded(p)
    PROVE  /\ EndStep(p) /\ Solo(p) /\ Busy(p) /\ p \in Executors /\ job[p] = p
           /\ pc[p] = "good" /\ local[p].act = "update"
<1> DEFINE row(n) == [no |-> n, act |-> Plan[n], st |-> "completed"]
<1>1. PICK n \in 1 .. 3 : row(n) \notin table[p]
  BY PlanFacts DEF Recorded
<1>2. row(n) \in table'[p] /\ row(3) \in table'[p]
  BY PlanFacts DEF Recorded
<1>3. PICK e \in Executors : EndStep(e) /\ p = job[e] /\ RowOf(e, row(n))
  BY <1>1, <1>2, TableGrows DEF Basis
<1>4. local[e].act = Plan[n] /\ Plan[n] \in Forward /\ pc[e] = "good"
  <2>1. local[e].act = Plan[n] /\ pc[e] = "good"
    BY <1>3 DEF RowOf
  <2>2. n = 1 \/ n = 2 \/ n = 3
    OBVIOUS
  <2>3. Plan[1] \in Forward /\ Plan[2] \in Forward /\ Plan[3] \in Forward
    BY DEF Plan, Forward
  <2>. QED  BY <2>1, <2>2, <2>3
<1>5. e = p /\ Solo(p) /\ Busy(p) /\ p \in Executors
  BY <1>3, <1>4, EndStepKnows DEF Basis, Executors
<1>6. local[p].act = "update"
  <2>1. CASE row(3) \in table[p]
    <3>1. Sent(p, "update")
      BY <2>1 DEF Basis, RecordInv, RowsTrue, Plan
    <3>2. Position("update") <= Position(local[p].act)
      BY <1>4, <1>5, <3>1 DEF Basis, History, HistoryInv, StepPcs, Forward
    <3>. QED  BY <1>4, <1>5, <3>2 DEF Position, Forward
  <2>2. CASE row(3) \notin table[p]
    <3>1. PICK f \in Executors : EndStep(f) /\ p = job[f] /\ RowOf(f, row(3))
      BY <1>2, <2>2, TableGrows DEF Basis
    <3>2. local[f].act = Plan[3] /\ Plan[3] = "update"
      BY <3>1 DEF RowOf, Plan
    <3>. QED  BY <3>1, <3>2, EndStepKnows DEF Basis, Forward
  <2>. QED  BY <2>1, <2>2
<1>. QED  BY <1>3, <1>4, <1>5, <1>6

\* Every step keeps the last answer of the plan OA's truth.
LEMMA NextPlanIsTruth ==
    ASSUME Basis, OutcomeInv, [Next]_vars, NEW p \in Processes, InTime(p)'
    PROVE  PlanIsTruth(p)'
<1>1. Shape /\ InTime(p) /\ Exclusive(p) /\ PlanIsTruth(p)
  BY MishapsStay DEF Basis, InTime, ExclusiveInv, OutcomeInv
<1>2. p \in Executors /\ job[p] = p /\ p \notin Instances
  BY <1>1, ExecutorsDisjoint DEF Executors, Shape, ExecutorInv, WorkerOK
<1> SUFFICES ASSUME pc'[p] \in {"begin", "call", "good"}, local'[p].act \in Forward
             PROVE  /\ late'[p] = {}
                    /\ pc'[p] = "good" => booking'[p] = Outcome(local'[p].act)
  BY DEF PlanIsTruth
<1>3. CASE CallOA(p)
  <2>1. pc[p] = "call" /\ pc'[p] = "good" /\ local' = local
    BY <1>1, <1>2, <1>3 DEF CallOA, Goto, Shape, TypeOK
  <2>2. /\ booking' = [booking EXCEPT ![p] = Outcome(local[p].act)]
        /\ late' = late
    BY <1>1, <1>2, <1>3, <2>1 DEF CallOA, Goto, Shape, TypeOK
  <2>. QED  BY <1>1, <2>1, <2>2 DEF PlanIsTruth, Shape, TypeOK
<1>4. CASE ~CallOA(p)
  <2>1. \A e \in Executors : CallOA(e) /\ job[e] = p /\ Busy(p) => e = p
    BY <1>1, <1>2 DEF Exclusive, CallOA, Busy, BusyPcs, StepPcs
  <2>2. CASE pc'[p] = pc[p] /\ local'[p] = local[p]
    <3>1. late[p] = {} /\ Busy(p)
      BY <1>1, <2>2 DEF PlanIsTruth, Busy, BusyPcs, StepPcs
    <3>2. booking'[p] = booking[p] /\ late'[p] = late[p]
      BY <1>1, <1>4, <2>1, <3>1, BookingMoves
    <3>. QED  BY <1>1, <2>2, <3>1, <3>2 DEF PlanIsTruth
  <2>3. CASE Solo(p)
    <3>1. EntersStep(p)
      BY <1>1, <1>2, <2>3, StepEntry DEF StepPcs
    <3>2. pc'[p] # "good" /\ late[p] = {}
      <4>1. \A n : At("cancel", n, TRUE).act \notin Forward
        BY DEF At, Forward
      <4>2. status[p] = "none" => late[p] = {}
        BY DEF Basis, RecordInv, UnusedEmpty
      <4>. QED
        BY <1>1, <1>2, <1>4, <3>1, <4>1, <4>2 DEF EntersStep, PlanIsTruth, Forward
    <3>3. CallOA(p) \/ \A e \in Executors : ~CallOA(e)
      <4>1. \A e \in Executors : CallOA(e) => Solo(e) /\ pc'[e] # pc[e]
        BY <1>1 DEF CallOA, Goto, Shape, TypeOK, Solo, ExecutorStep
      <4>2. \A e \in Executors : e # p => pc'[e] = pc[e]
        BY <1>1, <1>2, <2>3, SoloMovesOne DEF OthersStay
      <4>. QED  BY <4>1, <4>2
    <3>. QED  BY <1>1, <1>4, <3>2, <3>3, BookingMoves
  <2>. QED  BY <1>1, <1>2, <2>2, <2>3, MoverOrNot
<1>. QED  BY <1>3, <1>4

\* Every step keeps a recorded plan over.
LEMMA NextRecordedIsOver ==
    ASSUME Basis, OutcomeInv, [Next]_vars, NEW p \in Processes, InTime(p)'
    PROVE  RecordedIsOver(p)'
<1>1. Shape /\ InTime(p) /\ Exclusive(p) /\ PlanIsTruth(p) /\ RecordedIsOver(p)
  BY MishapsStay DEF Basis, InTime, ExclusiveInv, OutcomeInv
<1>2. ASSUME Recorded(p)' PROVE Settled(p)'
  <2>1. CASE Recorded(p)
    <3>1. Settled(p) /\ \A e \in Executors : job[e] = p => pc[e] # "call"
      BY <1>1, <2>1 DEF RecordedIsOver, StepPcs
    <3>. QED  BY <1>1, <3>1, QuietAtOA DEF Settled
  <2>2. CASE ~Recorded(p)
    <3>1. /\ EndStep(p) /\ pc[p] = "good" /\ local[p].act = "update"
      BY <1>2, <2>2, RecordedAdded
    <3>2. booking[p] = "active" /\ late[p] = {}
      BY <1>1, <3>1 DEF PlanIsTruth, Forward, Outcome
    <3>. QED  BY <3>1, <3>2 DEF EndStep, oaVars, Settled
  <2>. QED  BY <2>1, <2>2
<1>3. ASSUME Recorded(p)', NEW e \in Executors, job'[e] = p, pc'[e] \in StepPcs
      PROVE  FALSE
  <2>1. CASE Recorded(p)
    <3>1. job[e] = p => pc[e] \notin StepPcs
      BY <1>1, <2>1 DEF RecordedIsOver
    <3>2. table[p] # {}
      BY <2>1, PlanFacts DEF Recorded
    <3>3. CASE Solo(e)
      <4>1. EntersStep(e)
        BY <1>1, <1>3, <3>3, StepEntry
      <4>2. FailPoint(table[p]) \notin 2 .. Len(Plan)
        BY <2>1, RowsAreNumbers, FailPointInPlan, PlanFacts
      <4>3. e \in Processes => job'[e] = e
        BY NextShape, <1>1 DEF Shape, ExecutorInv, WorkerOK
      <4>4. status[p] # "none"
        BY <3>2 DEF Basis, RecordInv, UnusedEmpty
      <4>. QED
        BY <1>3, <3>1, <4>1, <4>2, <4>3, <4>4 DEF EntersStep, StepPcs
    <3>. QED  BY <1>1, <1>3, <3>1, <3>3, MoverOrNot DEF StepPcs
  <2>2. CASE ~Recorded(p)
    <3>1. /\ EndStep(p) /\ Solo(p) /\ Busy(p) /\ p \in Executors /\ job[p] = p
          /\ pc[p] = "good" /\ local[p].act = "update"
      BY <1>3, <2>2, RecordedAdded
    <3>2. CASE e = p
      <4>1. EntersStep(p)
        BY <1>1, <1>3, <3>1, <3>2, StepEntry
      <4>2. p \notin Instances /\ status[p] = "running"
        BY <1>1, <3>1, ExecutorsDisjoint DEF Exclusive
      <4>. QED  BY <3>1, <4>1, <4>2 DEF EntersStep
    <3>3. CASE e # p
      BY <1>1, <1>3, <3>1, <3>3, SoloMovesOne
      DEF OthersStay, Exclusive, Busy, BusyPcs
    <3>. QED  BY <3>2, <3>3
  <2>. QED  BY <2>1, <2>2
<1>. QED  BY <1>2, <1>3 DEF RecordedIsOver

\* Whoever comes to close a row as completed leaves an active booking.
LEMMA NextCompletedSettled ==
    ASSUME Basis, OutcomeInv, [Next]_vars, NEW p \in Processes, InTime(p)'
    PROVE  CompletedSettled(p)'
<1>1. /\ Shape /\ InTime(p) /\ Exclusive(p) /\ PlanIsTruth(p)
      /\ RecordedIsOver(p) /\ CompletedSettled(p) /\ RowsTrue(p)
  BY MishapsStay DEF Basis, InTime, ExclusiveInv, OutcomeInv, RecordInv
<1> SUFFICES ASSUME NEW e \in Executors, pc'[e] \in {"read", "write"}, job'[e] = p,
                    local'[e].verdict = "completed", ~HidesMissingStep(p)'
             PROVE  Settled(p)'
  BY DEF CompletedSettled
<1>2. ~HidesMissingStep(p)
  BY <1>1, TableStays
<1>3. ASSUME Settled(p), Busy(e), job[e] = p, pc[e] # "call" PROVE Settled(p)'
  <2>1. \A f \in Executors : job[f] = p => pc[f] # "call"
    BY <1>1, <1>3 DEF Exclusive, Busy, BusyPcs, StepPcs
  <2>. QED  BY <1>1, <1>3, <2>1, QuietAtOA DEF Settled
<1>4. CASE pc'[e] = pc[e] /\ local'[e] = local[e] /\ job'[e] = job[e]
  BY <1>1, <1>2, <1>3, <1>4 DEF CompletedSettled, Busy, BusyPcs
<1>5. CASE Solo(e)
  <2>1. EntersEnd(e) /\ job[e] = p
    BY <1>1, <1>5, EndEntry
  <2>2. CASE pc[e] = "read" /\ local'[e] = local[e]
    BY <1>1, <1>2, <1>3, <2>1, <2>2 DEF CompletedSettled, Busy, BusyPcs
  <2>3. CASE EndStep(e) /\ pc[e] = "good" /\ local[e].act = "update"
    <3>1. e = p
      BY <2>1, <2>3, EndStepKnows DEF Basis, Forward
    <3>2. Settled(p)
      BY <1>1, <2>3, <3>1 DEF PlanIsTruth, Settled, Outcome, Forward
    <3>. QED  BY <1>3, <2>1, <2>3, <3>2 DEF Busy, BusyPcs, StepPcs
  <2>4. CASE local'[e] = Ending("failed")
    BY <2>4 DEF Ending, Blank, At
  <2>5. CASE pc[e] = "replay" /\ FailPoint(table[job[e]]) = Len(Plan) + 1
    <3>1. \A n \in 1 .. 3 : n \in CompletedNos(table[p])
      BY <2>1, <2>5, FailPointInPlan, PlanFacts
    <3>2. Recorded(p)
      BY <1>1, <1>2, <3>1, NumbersAreRows
    <3>. QED  BY <1>1, <1>3, <2>1, <2>5, <3>2 DEF RecordedIsOver, Busy, BusyPcs
  <2>. QED  BY <2>1, <2>2, <2>3, <2>4, <2>5 DEF EntersEnd
<1>. QED  BY <1>1, <1>4, <1>5, MoverOrNot

\* Every step keeps the booking of a completed row active.
LEMMA NextCompletedRow ==
    ASSUME Basis, OutcomeInv, [Next]_vars, NEW p \in Processes, InTime(p)'
    PROVE  CompletedRowSettled(p)'
<1>1. /\ Shape /\ InTime(p) /\ Exclusive(p)
      /\ CompletedSettled(p) /\ CompletedRowSettled(p)
  BY MishapsStay DEF Basis, InTime, ExclusiveInv, OutcomeInv
<1> SUFFICES ASSUME status'[p] = "completed", ~HidesMissingStep(p)'
             PROVE  Settled(p)'
  BY DEF CompletedRowSettled
<1>2. ~HidesMissingStep(p)
  BY <1>1, TableStays
<1>3. CASE status[p] = "completed"
  <2>1. \A e \in Executors : job[e] = p => pc[e] # "call"
    BY <1>1, <1>3 DEF Exclusive, Busy, BusyPcs, StepPcs
  <2>. QED  BY <1>1, <1>2, <1>3, <2>1, QuietAtOA DEF CompletedRowSettled, Settled
<1>4. CASE status[p] # "completed"
  <2>1. PICK e \in Executors : /\ pc[e] = "write" /\ job[e] = p
                               /\ local[e].verdict = "completed"
    BY <1>1, <1>4, StatusMoves
  <2>2. Settled(p)
    BY <1>1, <1>2, <2>1 DEF CompletedSettled
  <2>3. \A f \in Executors : job[f] = p => pc[f] # "call"
    BY <1>1, <2>1 DEF Exclusive, Busy, BusyPcs, StepPcs
  <2>. QED  BY <1>1, <2>2, <2>3, QuietAtOA DEF Settled
<1>. QED  BY <1>3, <1>4

\* The initial states satisfy the invariant.
LEMMA InitOutcome == Init => Basis /\ OutcomeInv
<1> SUFFICES ASSUME Init PROVE Basis /\ OutcomeInv
  OBVIOUS
<1>1. \A e \in Executors : pc[e] \in {"idle", "sleep"}
  BY DEF Init
<1>2. \A p \in Processes :
          table[p] = {} /\ late[p] = {} /\ status[p] = "none" /\ p \in Executors
  BY DEF Init, Executors
<1>3. RecordInv
  BY <1>1, <1>2 DEF RecordInv, CallWasSent, RowsTrue, UnusedEmpty
<1>4. \A p \in Processes : ~Recorded(p)
  BY <1>2, PlanFacts DEF Recorded
<1>5. OutcomeInv
  BY <1>1, <1>2, <1>4 DEF OutcomeInv, PlanIsTruth, RecordedIsOver,
                          CompletedSettled, CompletedRowSettled
<1>. QED  BY <1>3, <1>5, InitExclusive DEF Basis

\* Every step keeps the invariant.
LEMMA NextOutcome ==
    ASSUME Basis, OutcomeInv, [Next]_vars PROVE Basis' /\ OutcomeInv'
BY NextBasis, MishapsStay, NextPlanIsTruth, NextRecordedIsOver,
   NextCompletedSettled, NextCompletedRow DEF OutcomeInv

\* "completed" is the truth about OA: the row of a process says it only over an
\* active booking, or over a compensation that replay_steps took for a step, or
\* after its heartbeat expired beside an executor at work.
THEOREM CompletedMeansActive == Spec => []CompletedIsActive
<1>1. Init => Basis /\ OutcomeInv
  BY InitOutcome
<1>2. Basis /\ OutcomeInv /\ [Next]_vars => (Basis /\ OutcomeInv)'
  BY NextOutcome
<1>3. OutcomeInv => CompletedIsActive
  BY DEF OutcomeInv, CompletedRowSettled, Settled, CompletedIsActive
<1>. QED  BY <1>1, <1>2, <1>3, PTL DEF Spec

-----------------------------------------------------------------------------
(***************************************************************************)
(* What the user was told.                                                 *)
(***************************************************************************)

\* A worker on its way has told nothing; one that told a success writes one.
ToldInTurn(p) ==
    /\ status[p] = "none" \/ pc[p] \in StepPcs => told[p] = "nothing"
    /\ pc[p] \in {"read", "write"} /\ told[p] = "success"
           => local[p].verdict = "completed"

Promised(p) == told[p] = "success" /\ Recorded(p)

\* Nobody writes a failure over such a success but for an unknown workflow.
PromiseKept(p) ==
    Promised(p) =>
        /\ \A e \in Executors :
               /\ pc[e] \in {"read", "write"} /\ job[e] = p
               /\ local[e].verdict = "failed"
               => rebuild[p] = "unregistered"
        /\ status[p] = "failed" => rebuild[p] = "unregistered"

PromiseInv ==
    \A p \in Processes : ToldInTurn(p) /\ (InTime(p) => PromiseKept(p))

\* Every step keeps the success for those who are through with their plan.
LEMMA NextToldInTurn ==
    ASSUME Basis, PromiseInv, [Next]_vars, NEW p \in Processes
    PROVE  ToldInTurn(p)'
<1>1. Shape /\ ToldInTurn(p) /\ p \in Executors /\ job[p] = p /\ p \notin Instances
  BY ExecutorsDisjoint
  DEF Basis, PromiseInv, Executors, Shape, ExecutorInv, WorkerOK
<1>2. ASSUME NEW v \in Terminal, Conclude(p, v)
      PROVE  /\ pc'[p] = "read" /\ local'[p].verdict = v
             /\ told'[p] = "success" => v = "completed"
  BY <1>1, <1>2 DEF Conclude, Goto, Ending, Blank, At, Shape, TypeOK
<1>3. CASE told'[p] # told[p]
  <2>1. PICK v \in Terminal : Conclude(p, v)
    BY <1>1, <1>3, ToldMoves
  <2>2. status[p] # "none" /\ status' = status
    <3>1. EndStep(p) \/ DriveRaises(p)
      BY <1>1, <1>3, ToldMoves
    <3>2. Busy(p)
      BY <3>1 DEF EndStep, DriveRaises, Busy, BusyPcs, StepPcs
    <3>. QED  BY <1>1, <3>1, <3>2
              DEF EndStep, DriveRaises, dbVars, Basis, History, UntouchedInv
  <2>. QED  BY <1>2, <2>1, <2>2 DEF ToldInTurn, StepPcs
<1>4. CASE told'[p] = told[p]
  <2>1. status'[p] = "none" => told[p] = "nothing"
    BY <1>1, StatusMoves DEF ToldInTurn, Terminal
  <2>2. pc'[p] \in StepPcs => told[p] = "nothing"
    BY <1>1, MoverOrNot, StepEntry DEF ToldInTurn, EntersStep, StepPcs
  <2>3. ASSUME pc'[p] \in {"read", "write"}, told[p] = "success"
        PROVE  local'[p].verdict = "completed"
    <3>1. CASE Solo(p)
      <4>1. EntersEnd(p)
        BY <1>1, <2>3, <3>1, EndEntry
      <4>2. pc[p] \notin StepPcs
        BY <1>1, <2>3 DEF ToldInTurn
      <4>. QED  BY <1>1, <2>3, <4>1, <4>2 DEF EntersEnd, ToldInTurn, StepPcs
    <3>. QED  BY <1>1, <2>3, <3>1, MoverOrNot DEF ToldInTurn
  <2>. QED  BY <1>4, <2>1, <2>2, <2>3 DEF ToldInTurn
<1>. QED  BY <1>3, <1>4

\* Every step keeps the promise of a recorded success.
LEMMA NextPromiseKept ==
    ASSUME Basis, OutcomeInv, PromiseInv, [Next]_vars,
           NEW p \in Processes, InTime(p)'
    PROVE  PromiseKept(p)'
<1>1. /\ Shape /\ InTime(p) /\ Exclusive(p) /\ RecordedIsOver(p)
      /\ PromiseKept(p) /\ ToldInTurn(p)' /\ rebuild' = rebuild
  BY MishapsStay, NextToldInTurn, RebuildStays
  DEF Basis, InTime, ExclusiveInv, OutcomeInv, PromiseInv
<1>2. p \in Executors /\ job[p] = p /\ job'[p] = p
  BY <1>1, NextShape DEF Executors, Shape, ExecutorInv, WorkerOK
<1>3. CASE ~Promised(p)
  <2>1. SUFFICES ASSUME Promised(p)' PROVE PromiseKept(p)'
    BY DEF PromiseKept
  <2>2. Busy(p) /\ Solo(p) /\ status[p] = "running" /\ pc[p] # "write"
    <3>1. CASE ~Recorded(p)
      BY <1>1, <2>1, <3>1, RecordedAdded DEF Promised, Exclusive
    <3>2. CASE told'[p] # told[p]
      <4>1. EndStep(p) \/ DriveRaises(p)
        BY <1>1, <3>2, ToldMoves
      <4>2. Solo(p) /\ Busy(p) /\ pc[p] # "write"
        BY <4>1 DEF Solo, ExecutorStep, EndStep, DriveRaises, Busy, BusyPcs, StepPcs
      <4>. QED  BY <1>1, <1>2, <4>2 DEF Exclusive
    <3>. QED  BY <1>3, <2>1, <3>1, <3>2 DEF Promised
  <2>3. \A e \in Executors : e # p => ~(Busy(e) /\ job[e] = p)
    BY <1>1, <1>2, <2>2 DEF Exclusive
  <2>4. status'[p] # "failed"
    BY <1>1, <2>2, <2>3, StatusMoves DEF Busy, BusyPcs
  <2>5. ASSUME NEW e \in Executors, pc'[e] \in {"read", "write"}, job'[e] = p
        PROVE  local'[e].verdict = "completed"
    <3>1. e = p
      <4>1. OthersStay(p)
        BY <1>1, <1>2, <2>2, SoloMovesOne
      <4>. QED  BY <2>3, <2>5, <4>1 DEF OthersStay, Busy, BusyPcs
    <3>. QED  BY <1>1, <2>1, <2>5, <3>1 DEF Promised, ToldInTurn
  <2>. QED  BY <2>4, <2>5 DEF PromiseKept
<1>4. CASE Promised(p)
  <2>1. \A e \in Executors : job[e] = p => pc[e] \notin StepPcs
    BY <1>1, <1>4 DEF Promised, RecordedIsOver
  <2>2. ASSUME NEW e \in Executors, pc'[e] \in {"read", "write"}, job'[e] = p,
               local'[e].verdict = "failed"
        PROVE  rebuild[p] = "unregistered"
    <3>1. CASE Solo(e)
      <4>1. EntersEnd(e) /\ job[e] = p
        BY <1>1, <2>2, <3>1, EndEntry
      <4>2. FailPoint(table[p]) # 1
        BY <1>4, RowsAreNumbers, FailPointInPlan DEF Promised
      <4>3. Ending("completed").verdict # "failed"
        BY DEF Ending, Blank, At
      <4>. QED
        BY <1>1, <1>4, <2>1, <2>2, <4>1, <4>2, <4>3
        DEF EntersEnd, PromiseKept, StepPcs
    <3>. QED  BY <1>1, <1>4, <2>2, <3>1, MoverOrNot DEF PromiseKept
  <2>3. status'[p] = "failed" => rebuild[p] = "unregistered"
    BY <1>1, <1>4, StatusMoves DEF PromiseKept
  <2>. QED  BY <1>1, <2>2, <2>3 DEF PromiseKept
<1>. QED  BY <1>3, <1>4

\* The success a user was told of before _finalize ran stands: with the three
\* steps recorded, no recovery, crash or lost finalize takes the booking back,
\* and none calls it a failure while the workflow is registered and the row has
\* not been overdue.
THEOREM PromisesStand == Spec => []SuccessStands
<1> DEFINE Inv == Basis /\ OutcomeInv /\ PromiseInv
<1>1. Init => Inv
  <2> SUFFICES ASSUME Init PROVE PromiseInv
    BY InitOutcome
  <2>1. \A p \in Processes : told[p] = "nothing" /\ pc[p] = "idle"
    BY DEF Init, Executors
  <2>. QED  BY <2>1 DEF PromiseInv, ToldInTurn, PromiseKept, Promised
<1>2. Inv /\ [Next]_vars => Inv'
  BY NextOutcome, NextToldInTurn, NextPromiseKept, MishapsStay
  DEF PromiseInv, Basis, InTime
<1>3. Inv => SuccessStands
  BY DEF OutcomeInv, PromiseInv, RecordedIsOver, Settled, PromiseKept, Promised,
         SuccessStands
<1>. QED  BY <1>1, <1>2, <1>3, PTL DEF Spec
=============================================================================
