------------------------ MODULE ProcessContractProofs ------------------------
(***************************************************************************)
(* ProcessLifecycle implements ProcessContract.                            *)
(*                                                                         *)
(* Row by row and through any number of faults, a step on a row that is    *)
(* not overdue is a step of the contract, but for one: a replay that takes *)
(* the row of a compensation for that of a step of the plan.  Through a    *)
(* single fault that cannot make a live worker look dead that one cannot   *)
(* happen either: the second row of a compensation that fills the table is *)
(* written by a recovery, a recovery needs the fault that cost the row its *)
(* worker, and nothing is left to stop the recovery on its way to the      *)
(* status "failed".                                                        *)
(***************************************************************************)
EXTENDS ProcessOutcomeProofs

\* What OA holds before a call of the plan.
Before(a) == CASE a = "submit"  -> "none"
               [] a = "approve" -> "pending"
               [] a = "update"  -> "approved"

\* No row, no booking; a worker on its plan finds what its last call left.
Ground(p) ==
    /\ status[p] = "none" => booking[p] = "none"
    /\ InTime(p) /\ pc[p] \in {"begin", "call"} /\ local[p].act \in Forward
           => booking[p] = Before(local[p].act)

GroundInv == \A p \in Processes : Ground(p)

\* What a contract step is taken from.
ContractInv == Basis /\ BookingInv /\ OutcomeInv /\ GroundInv

-----------------------------------------------------------------------------
(***************************************************************************)
(* The plan stands on what its calls left.                                 *)
(***************************************************************************)

\* Only one executor makes a call in one step.
LEMMA CallerIsMover ==
    ASSUME Shape, NEW e \in Executors, Solo(e), NEW f \in Executors, CallOA(f)
    PROVE  f = e
<1>1. pc'[f] # pc[f]
  BY DEF CallOA, Goto, Shape, TypeOK
<1>. QED  BY <1>1, SoloMovesOne DEF OthersStay

\* A step of the worker that is no call leaves the booking as it is.
LEMMA OwnStepQuiet ==
    ASSUME Shape, [Next]_vars, NEW p \in Processes,
           Solo(p), ~CallOA(p), late[p] = {}
    PROVE  booking'[p] = booking[p]
<1>1. p \in Executors
  BY DEF Executors
<1>. QED  BY <1>1, CallerIsMover, BookingMoves

\* Each call of the plan stands on the outcome of the one before.
LEMMA BeforeNext ==
    ASSUME NEW a \in {"submit", "approve"}
    PROVE  Before(Plan[Position(a) + 1]) = Outcome(a)
<1>1. Position("submit") = 1 /\ Position("approve") = 2
  BY DEF Position
<1>2. Plan[2] = "approve" /\ Plan[3] = "update"
  BY DEF Plan
<1>. QED  BY <1>1, <1>2 DEF Before, Outcome

\* Every step keeps a booking where the plan expects it.
LEMMA NextGround ==
    ASSUME Basis, OutcomeInv, GroundInv, [Next]_vars
    PROVE  GroundInv'
<1> SUFFICES ASSUME NEW p \in Processes PROVE Ground(p)'
  BY DEF GroundInv
<1>1. Shape /\ p \in Executors /\ job[p] = p /\ p \notin Instances
  BY ExecutorsDisjoint DEF Basis, Executors, Shape, ExecutorInv, WorkerOK
<1>2. ASSUME status'[p] = "none" PROVE booking'[p] = "none"
  <2>1. status[p] = "none" /\ booking[p] = "none" /\ late[p] = {}
    BY <1>1, <1>2, StatusMoves
    DEF Terminal, GroundInv, Ground, Basis, RecordInv, UnusedEmpty
  <2>2. \A e \in Executors : CallOA(e) => p # job[e]
    BY <2>1 DEF CallOA, Basis, History, UntouchedInv, Busy, BusyPcs, StepPcs
  <2>. QED  BY <1>1, <2>1, <2>2, BookingMoves
<1>3. ASSUME InTime(p)', pc'[p] \in {"begin", "call"}, local'[p].act \in Forward
      PROVE  booking'[p] = Before(local'[p].act)
  <2>1. InTime(p) /\ Exclusive(p) /\ PlanIsTruth(p) /\ Ground(p)
    BY <1>1, <1>3, MishapsStay
    DEF InTime, Basis, ExclusiveInv, OutcomeInv, GroundInv
  <2>2. CASE pc'[p] = pc[p] /\ local'[p] = local[p]
    <3>1. Busy(p) /\ late[p] = {} /\ booking[p] = Before(local[p].act)
      BY <1>3, <2>1, <2>2 DEF PlanIsTruth, Ground, Busy, BusyPcs, StepPcs
    <3>2. \A e \in Executors : CallOA(e) /\ job[e] = p => e = p
      BY <1>1, <2>1, <3>1 DEF Exclusive, CallOA, Busy, BusyPcs, StepPcs
    <3>3. ~CallOA(p)
      BY <1>1, <2>2 DEF CallOA, Goto, Shape, TypeOK
    <3>4. booking'[p] = booking[p]
      BY <1>1, <3>1, <3>2, <3>3, BookingMoves
    <3>. QED  BY <2>2, <3>1, <3>4
  <2>3. CASE Solo(p)
    <3>1. EntersStep(p)
      BY <1>1, <1>3, <2>3, StepEntry DEF StepPcs
    <3>2. ~CallOA(p)
      BY <1>1, <1>3 DEF CallOA, Goto, Shape, TypeOK
    <3>3. CASE Admit(p) /\ local'[p] = At("submit", 1, FALSE) /\ status[p] = "none"
      <4>1. booking'[p] = booking[p]
        BY <3>3 DEF Admit, oaVars
      <4>. QED  BY <2>1, <3>3, <4>1 DEF Ground, Before, At
    <3>4. CASE pc[p] = "begin" /\ pc'[p] = "call" /\ local'[p].act = local[p].act
      <4>1. late[p] = {} /\ booking[p] = Before(local[p].act)
        BY <1>3, <2>1, <3>4 DEF PlanIsTruth, Ground
      <4>. QED  BY <1>1, <2>3, <3>2, <3>4, <4>1, OwnStepQuiet
    <3>5. CASE /\ pc[p] = "good" /\ local[p].act \in {"submit", "approve"}
               /\ local'[p] = At(Plan[Position(local[p].act) + 1],
                                 local[p].no + 1, TRUE)
      <4>1. late[p] = {} /\ booking[p] = Outcome(local[p].act)
        BY <2>1, <3>5 DEF PlanIsTruth, Forward
      <4>2. booking'[p] = booking[p]
        BY <1>1, <2>3, <3>2, <4>1, OwnStepQuiet
      <4>3. local'[p].act = Plan[Position(local[p].act) + 1]
        BY <3>5 DEF At
      <4>. QED  BY <3>5, <4>1, <4>2, <4>3, BeforeNext
    <3>6. \A n : At("cancel", n, TRUE).act \notin Forward
      BY DEF At, Forward
    <3>. QED  BY <1>1, <1>3, <3>1, <3>2, <3>3, <3>4, <3>5, <3>6 DEF EntersStep
  <2>. QED  BY <1>1, <1>3, <2>2, <2>3, MoverOrNot
<1>. QED  BY <1>2, <1>3 DEF Ground

\* The initial states satisfy the invariant.
LEMMA InitContract == Init => ContractInv
<1> SUFFICES ASSUME Init PROVE BookingInv /\ GroundInv
  BY InitOutcome DEF ContractInv
<1>1. \A e \in Executors : pc[e] \in {"idle", "sleep"}
  BY DEF Init
<1>2. \A p \in Processes :
          table[p] = {} /\ booking[p] = "none" /\ p \in Executors
  BY DEF Init, Executors
<1>3. BookingInv
  BY <1>1, <1>2 DEF BookingInv, StepHasBooking, RowHasBooking, StepPcs
<1>. QED  BY <1>1, <1>2, <1>3 DEF GroundInv, Ground

\* Every step keeps the invariant.
LEMMA NextContract == ASSUME ContractInv, [Next]_vars PROVE ContractInv'
<1>1. Shape
  BY DEF ContractInv, Basis
<1>. QED  BY <1>1, NextOutcome, NextBooking, NextGround DEF ContractInv

-----------------------------------------------------------------------------
(***************************************************************************)
(* A step on a row is a step of the contract.                              *)
(***************************************************************************)

\* A call that OA accepts moves the booking on along the contract.
LEMMA CallIsWork ==
    ASSUME ContractInv, NEW p \in Processes, InTime(p),
           NEW e \in Executors, CallOA(e), p = job[e]
    PROVE  ContractStep(p)
<1> DEFINE a == local[e].act
<1>1. /\ Shape /\ pc[e] = "call" /\ Busy(e) /\ status' = status
      /\ booking' = booking \/ booking' = [booking EXCEPT ![p] = Outcome(a)]
  BY DEF ContractInv, Basis, CallOA, Busy, BusyPcs, StepPcs, dbVars
<1>2. status[p] = "running" /\ Ground(p) /\ StepHasBooking(e)
  BY <1>1
  DEF ContractInv, Basis, ExclusiveInv, Exclusive, GroundInv, BookingInv
<1>3. booking \in [Processes -> BookingStates] /\ a \in Actions
  BY <1>1 DEF Shape, TypeOK, Locals
<1>4. CASE booking' = booking
  BY <1>1, <1>4 DEF ContractStep
<1>5. CASE booking' = [booking EXCEPT ![p] = Outcome(a)]
  <2>1. CASE a \in Forward
    <3>1. e = p
      BY <1>1, <2>1 DEF Shape, ExecutorInv, WorkerOK, WatchdogOK, Executors,
                        StepPcs, Forward
    <3>2. booking[p] = Before(a)
      BY <1>1, <1>2, <2>1, <3>1 DEF Ground
    <3>3. Outcome(a) \in Contract!NextBooking(booking[p])
      BY <2>1, <3>2 DEF Before, Outcome, Contract!NextBooking, Forward
    <3>. QED  BY <1>1, <1>2, <1>5, <3>3 DEF ContractStep, Contract!Work
  <2>2. CASE a = "cancel"
    <3>1. booking[p] # "none"
      BY <1>1, <1>2, <2>2 DEF StepHasBooking, StepPcs
    <3>2. CASE booking[p] = "cancelled"
      <4>1. booking'[p] = booking[p]
        BY <1>3, <1>5, <2>2, <3>2 DEF Outcome
      <4>. QED  BY <1>1, <4>1 DEF ContractStep
    <3>3. CASE booking[p] # "cancelled"
      <4>1. booking[p] \in {"pending", "approved", "active"}
        BY <1>3, <3>1, <3>3 DEF BookingStates
      <4>2. Outcome(a) \in Contract!NextBooking(booking[p])
        BY <2>2, <4>1 DEF Outcome, Contract!NextBooking
      <4>. QED  BY <1>1, <1>2, <1>5, <4>2 DEF ContractStep, Contract!Work
    <3>. QED  BY <3>2, <3>3
  <2>. QED  BY <1>3, <2>1, <2>2 DEF Actions
<1>. QED  BY <1>1, <1>4, <1>5

\* Whoever closes a row in time resolves it, or was misled by a replay.
LEMMA WriteIsResolve ==
    ASSUME ContractInv, NEW p \in Processes, InTime(p),
           NEW e \in Executors, WriteStatus(e), p = job[e]
    PROVE  ContractStep(p) \/ (HidesMissingStep(p) /\ local[e].verdict = "completed")
<1>1. /\ Shape /\ pc[e] = "write" /\ Busy(e) /\ booking' = booking
      /\ status' = [status EXCEPT ![p] = local[e].verdict]
  BY DEF ContractInv, Basis, WriteStatus, Busy, BusyPcs, oaVars
<1>2. local[e].verdict \in Terminal
  BY <1>1 DEF Shape, TypeOK, Locals
<1>3. status[p] = "running" /\ CompletedSettled(p)
  BY <1>1 DEF ContractInv, Basis, ExclusiveInv, Exclusive, OutcomeInv
<1>4. CASE local[e].verdict = "failed"
  BY <1>1, <1>3, <1>4 DEF ContractStep, Contract!Resolve
<1>5. CASE local[e].verdict = "completed"
  <2>1. booking[p] = "active" \/ HidesMissingStep(p)
    BY <1>1, <1>3, <1>5 DEF CompletedSettled, Settled
  <2>. QED  BY <1>1, <1>3, <1>5, <2>1 DEF ContractStep, Contract!Resolve
<1>. QED  BY <1>2, <1>4, <1>5 DEF Terminal

\* So does every step keep the contract of a row in time.
LEMMA StepKeepsContract ==
    ASSUME ContractInv, [Next]_vars, NEW p \in Processes, InTime(p), late[p] = {}
    PROVE  \/ ContractStep(p)
           \/ /\ HidesMissingStep(p) /\ status'[p] = "completed"
              /\ status[p] # "completed"
<1>1. Shape /\ booking \in [Processes -> BookingStates]
  BY DEF ContractInv, Basis, Shape, TypeOK
<1>2. CASE \E e \in Executors : CallOA(e) /\ p = job[e]
  BY <1>2, CallIsWork
<1>3. CASE \E e \in Executors : WriteStatus(e) /\ p = job[e]
  <2>1. PICK e \in Executors : WriteStatus(e) /\ p = job[e]
    BY <1>3
  <2>2. Busy(e) /\ status' = [status EXCEPT ![p] = local[e].verdict]
    BY <2>1 DEF WriteStatus, Busy, BusyPcs
  <2>3. status'[p] = local[e].verdict /\ status[p] = "running"
    BY <1>1, <2>1, <2>2
    DEF Shape, TypeOK, ContractInv, Basis, ExclusiveInv, Exclusive
  <2>. QED  BY <2>1, <2>3, WriteIsResolve
<1>4. CASE /\ \A e \in Executors : CallOA(e) => p # job[e]
           /\ \A e \in Executors : WriteStatus(e) => p # job[e]
  <2>1. booking'[p] = booking[p]
    BY <1>1, <1>4, BookingMoves
  <2>2. CASE status'[p] = status[p]
    BY <2>1, <2>2 DEF ContractStep
  <2>3. CASE Admit(p)
    BY <2>3 DEF Admit, oaVars, ContractStep, Contract!Accept
  <2>. QED  BY <1>1, <1>4, <2>2, <2>3, StatusMoves
<1>. QED  BY <1>2, <1>3, <1>4

\* Whatever crashes, is lost, raises or is cut off, and however often: on a row
\* whose heartbeat never expired beside an executor and that has no late call,
\* worker and watchdogs take only steps that the contract allows, unless a
\* replay counts the row of a compensation as that of a step and completes it.
THEOREM RowContract == Spec => RowsKeepContract
<1>1. ContractInv /\ [Next]_vars =>
          [\A p \in Processes :
               InTime(p) /\ late[p] = {} =>
                   \/ ContractStep(p)
                   \/ HidesMissingStep(p) /\ status'[p] = "completed"]_vars
  BY StepKeepsContract
<1>. QED  BY <1>1, InitContract, NextContract, PTL DEF Spec, RowsKeepContract

-----------------------------------------------------------------------------
(***************************************************************************)
(* Through a single fault no replay takes a compensation for a step.       *)
(***************************************************************************)

\* At most one fault: neither a slow step, nor a lost heartbeat, nor a late
\* call.  The first two may make a live worker look dead, all by themselves.
SingleFault == MaxFaults <= 1 /\ Faults \cap {"slow", "beat", "late"} = {}

\* Before the fault a running row has its worker.
AtWork(p) == faults = 0 /\ status[p] = "running" => Busy(p)

\* A worker is at a step that is not recorded; one that compensates left such
\* a step behind, right before the number of the compensation.
StepMissing(p) ==
    /\ pc[p] \in {"good", "bad"} /\ local[p].act \in Forward
           => local[p].no \notin CompletedNos(table[p])
    /\ pc[p] \in StepPcs /\ local[p].act = "cancel"
           => local[p].no - 1 \notin CompletedNos(table[p])

\* Every number of the plan has a completed row, and one is a compensation's.
Disguised(p) ==
    HidesMissingStep(p) /\ \A n \in 1 .. 3 : n \in CompletedNos(table[p])

\* A recovery did that, after the fault, and nothing keeps it from its verdict.
RecoveryFails(p) ==
    Disguised(p) =>
        /\ faults >= 1
        /\ \/ status[p] = "failed"
           \/ \E w \in Instances : /\ pc[w] \in {"read", "write"} /\ job[w] = p
                                   /\ local[w].verdict = "failed"

\* Nobody completes a row over a hidden step.
NothingHidden(p) ==
    /\ \A e \in Executors :
           pc[e] \in {"read", "write"} /\ job[e] = p /\ local[e].verdict = "completed"
               => ~HidesMissingStep(p)
    /\ status[p] = "completed" => ~HidesMissingStep(p)

\* A stopped instance has no watchdog that works.
DownIsDead == \A i \in Instances : up[i] \/ pc[i] = "dead"

\* No heartbeat is missing or has expired too early, no call is on its way.
Punctual(p) == heartbeat[p] # "old" /\ InTime(p) /\ late[p] = {}

SingleFaultInv ==
    /\ SingleFault
    /\ DownIsDead
    /\ faults <= MaxFaults
    /\ \A p \in Processes :
        /\ Punctual(p)
        /\ AtWork(p) /\ StepMissing(p) /\ RecoveryFails(p) /\ NothingHidden(p)

\* The fault is the last one.
LEMMA FaultsMove ==
    ASSUME Shape, SingleFault, faults <= MaxFaults, [Next]_vars
    PROVE  /\ faults' <= MaxFaults /\ faults \in Nat /\ faults' \in Nat
           /\ \/ faults' = faults
              \/ faults = 0 /\ faults' = 1
<1>1. faults \in Nat /\ MaxFaults \in Nat /\ MaxFaults <= 1
  BY ConstantsTyped DEF Shape, TypeOK, SingleFault
<1>2. faults' = faults \/ (faults' = faults + 1 /\ faults < MaxFaults)
  BY DEF Next, ExecutorStep, WatchdogStep, Admit, BeginStep, CallOA, EndStep,
         RecordStep, DriveRaises, ReadStatus, WriteStatus, FinalizeLost, Detect,
         Claim, Skip, ReplayUnregistered, ReplayUnparsable, Replay, RoundAborts,
         WatchdogRaises, Expire, LateArrives, Crash, Restart, vars, Fault, NoFault
<1>. QED  BY <1>1, <1>2

\* Without these faults every heartbeat is in its place.
LEMMA HeartbeatsKept ==
    ASSUME Shape, SingleFault, [Next]_vars, NEW p \in Processes,
           heartbeat[p] # "old"
    PROVE  heartbeat'[p] # "old"
<1>1. ~Fault("beat") /\ heartbeat \in [Processes -> Heartbeats]
  BY DEF SingleFault, Fault, Shape, TypeOK
<1>2. ASSUME NEW e \in Executors, BeginStep(e) PROVE heartbeat'[p] # "old"
  <2>1. heartbeat' = [heartbeat EXCEPT ![job[e]] = "fresh"]
    BY <1>1, <1>2 DEF BeginStep, Heartbeat
  <2>. QED  BY <1>1, <2>1
<1>3. ASSUME NEW q \in Processes, Admit(q) \/ Expire(q) PROVE heartbeat'[p] # "old"
  BY <1>1, <1>3 DEF Admit, Expire
<1>4. ASSUME NEW w \in Instances, Claim(w) PROVE heartbeat'[p] # "old"
  BY <1>1, <1>4 DEF Claim
<1>5. CASE /\ \A e \in Executors : ~BeginStep(e)
           /\ \A q \in Processes : ~Admit(q) /\ ~Expire(q)
           /\ \A w \in Instances : ~Claim(w)
  <2>1. heartbeat' = heartbeat
    BY <1>5 DEF Next, ExecutorStep, WatchdogStep, CallOA, EndStep, DriveRaises,
         ReadStatus, WriteStatus, FinalizeLost, Detect, Skip,
         ReplayUnregistered, ReplayUnparsable, Replay, RoundAborts,
         WatchdogRaises, WatchdogDies, LateArrives, Crash, Restart,
         vars, dbVars
  <2>. QED  BY <2>1
<1>. QED  BY <1>2, <1>3, <1>4, <1>5

\* So no row is overdue and no call is late.
LEMMA StaysPunctual ==
    ASSUME Shape, SingleFault, [Next]_vars, NEW p \in Processes,
           \A q \in Processes : Punctual(q)
    PROVE  Punctual(p)'
<1>1. ~Fault("slow") /\ ~Fault("late")
  BY DEF SingleFault, Fault
<1>2. InTime(p)'
  <2>1. CASE mishap' = mishap
    BY <2>1 DEF Punctual, InTime
  <2>2. ASSUME NEW q \in Processes, DriveRaises(q) PROVE InTime(p)'
    BY <2>2 DEF DriveRaises, Punctual, InTime, Shape, TypeOK
  <2>3. \A q \in Processes : Expire(q) => mishap' = mishap
    BY <1>1 DEF Expire, Punctual
  <2>4. mishap' = mishap \/ \E q \in Processes : DriveRaises(q)
    BY <2>3 DEF Next, ExecutorStep, WatchdogStep, Admit, BeginStep, CallOA, EndStep,
         ReadStatus, WriteStatus, FinalizeLost, Detect, Claim, Skip,
         ReplayUnregistered, ReplayUnparsable, Replay, RoundAborts,
         WatchdogRaises, WatchdogDies, LateArrives, Crash, Restart,
         vars, envVars
  <2>. QED  BY <2>1, <2>2, <2>4
<1>3. late'[p] = {}
  <2>1. \A e \in Executors : CallOA(e) => late' = late
    BY <1>1 DEF CallOA
  <2>. QED  BY <2>1, BookingMoves DEF Punctual
<1>. QED  BY <1>2, <1>3, HeartbeatsKept DEF Punctual

\* The initial states satisfy the invariant.
LEMMA InitSingleFault == Init /\ SingleFault => SingleFaultInv
<1> SUFFICES ASSUME Init, SingleFault PROVE SingleFaultInv
  OBVIOUS
<1>1. \A e \in Executors : pc[e] \in {"idle", "sleep"}
  BY DEF Init
<1>2. \A p \in Processes :
          /\ table[p] = {} /\ late[p] = {} /\ mishap[p] = {} /\ status[p] = "none"
          /\ heartbeat[p] = "expired"
          /\ p \in Executors
  BY DEF Init, Executors
<1>3. faults = 0 /\ MaxFaults \in Nat
  BY ConstantsTyped DEF Init
<1>. QED
  BY <1>1, <1>2, <1>3 DEF SingleFaultInv, Punctual, InTime, AtWork, StepMissing, StepPcs,
     RecoveryFails, Disguised, NothingHidden, HidesMissingStep, DownIsDead, Init

\* A stopped instance rests until it is started again.
LEMMA NextDown == ASSUME Shape, DownIsDead, [Next]_vars PROVE DownIsDead'
<1> SUFFICES ASSUME NEW i \in Instances, ~up'[i] PROVE pc'[i] = "dead"
  BY DEF DownIsDead
<1>1. i \in Executors /\ i \notin Processes
  BY ExecutorsDisjoint DEF Executors
<1>2. up \in [Instances -> BOOLEAN] /\ pc \in [Executors -> Pcs]
  BY DEF Shape, TypeOK
<1>3. CASE \E j \in Instances : Crash(j)
  BY <1>1, <1>2, <1>3 DEF Crash, Hosted, DownIsDead
<1>4. CASE \E j \in Instances : Restart(j)
  BY <1>1, <1>2, <1>4 DEF Restart, Goto, DownIsDead
<1>5. CASE \A j \in Instances : ~Crash(j) /\ ~Restart(j)
  <2>1. up' = up
    BY <1>5 DEF Next, ExecutorStep, WatchdogStep, Admit, BeginStep, CallOA, EndStep,
         DriveRaises, ReadStatus, WriteStatus, FinalizeLost, Detect, Claim, Skip,
         ReplayUnregistered, ReplayUnparsable, Replay, RoundAborts, WatchdogRaises,
         WatchdogDies, Expire, LateArrives, vars, envVars
  <2>2. pc[i] = "dead"
    BY <2>1 DEF DownIsDead
  <2>3. ~Solo(i)
    BY <1>1, <1>5, <2>2
    DEF Solo, ExecutorStep, WatchdogStep, BeginStep, CallOA, EndStep, ReadStatus,
        WriteStatus, Detect, Claim, Skip, ReplayUnregistered, ReplayUnparsable,
        Replay, RoundAborts, WatchdogRaises, BusyPcs, StepPcs
  <2>. QED  BY <1>1, <2>2, <2>3, MoverOrNot
<1>. QED  BY <1>3, <1>4, <1>5

\* Every step but the fault leaves a running row its worker.
LEMMA NextAtWork ==
    ASSUME Shape, SingleFaultInv, [Next]_vars, NEW p \in Processes
    PROVE  AtWork(p)'
<1> SUFFICES ASSUME faults' = 0, status'[p] = "running" PROVE Busy(p)'
  BY DEF AtWork
<1>1. p \in Executors /\ job[p] = p /\ p \notin Instances
  BY ExecutorsDisjoint DEF Executors, Shape, ExecutorInv, WorkerOK
<1>2. faults = 0 /\ \A kind : ~Fault(kind)
  BY FaultsMove DEF SingleFaultInv, Fault
<1>3. CASE Admit(p)
  BY <1>1, <1>3 DEF Admit, Goto, Shape, TypeOK, Busy, BusyPcs, StepPcs
<1>4. CASE ~Admit(p)
  <2>1. status[p] = "running" /\ Busy(p)
    BY <1>2, <1>4, StatusMoves DEF Terminal, SingleFaultInv, AtWork
  <2>2. \A i \in Instances : ~Crash(i)
    BY <1>2 DEF Crash
  <2>3. CASE Solo(p)
    <3>1. CASE BeginStep(p) \/ CallOA(p) \/ EndStep(p)
      BY <1>1, <3>1
      DEF BeginStep, CallOA, EndStep, Advance, Compensate, EndPlan, Conclude, Goto,
          Shape, TypeOK, Busy, BusyPcs, StepPcs
    <3>2. CASE ReadStatus(p)
      BY <1>1, <2>1, <3>2
      DEF ReadStatus, Goto, Shape, TypeOK, Busy, BusyPcs
    <3>3. ~WriteStatus(p)
      <4>1. local[p].verdict # "running"
        BY <1>1 DEF Shape, TypeOK, Locals, Terminal
      <4>. QED  BY <1>1, <4>1 DEF WriteStatus, Shape, TypeOK
    <3>. QED  BY <1>1, <1>2, <1>4, <2>3, <3>1, <3>2, <3>3
              DEF Solo, ExecutorStep, DriveRaises, FinalizeLost
  <2>4. CASE ~Solo(p)
    <3>1. pc'[p] = pc[p]
      BY <1>1, <2>2, <2>4, NextIsSolo, SoloMovesOne
      DEF OthersStay, Expire, LateArrives, vars, executorVars
    <3>. QED  BY <2>1, <3>1 DEF Busy
  <2>. QED  BY <2>3, <2>4
<1>. QED  BY <1>3, <1>4

\* Without the end of a step on a row its table stays.
LEMMA TableQuiet ==
    ASSUME Shape, [Next]_vars, NEW p \in Processes,
           \A e \in Executors : EndStep(e) => p # job[e]
    PROVE  table'[p] = table[p]
<1>1. table[p] \subseteq table'[p]
  BY TableGrows
<1>2. \A r \in table'[p] : r \in table[p]
  BY TableGrows
<1>. QED  BY <1>1, <1>2

\* The end of a step leads to the next step or to the end of the plan.
LEMMA EndStepLeads ==
    ASSUME Shape, NEW e \in Executors, EndStep(e)
    PROVE  /\ pc'[e] \in {"begin", "read"}
           /\ local[e].act = "cancel"
                  => pc'[e] = "read" /\ local'[e].verdict = "failed" /\ job' = job
<1>1. pc \in [Executors -> Pcs] /\ local \in [Executors -> Locals]
  BY DEF Shape, TypeOK
<1>2. \A v \in Terminal : Ending(v).verdict = v
  BY DEF Ending, Blank, At
<1>3. CASE Advance(e)
  BY <1>1, <1>3 DEF Advance, Goto
<1>4. CASE Compensate(e)
  BY <1>1, <1>4 DEF Compensate, Conclude, Goto, Forward
<1>5. CASE EndPlan(e)
  BY <1>1, <1>2, <1>5 DEF EndPlan, Conclude, Goto, EndStep, Terminal
<1>. QED  BY <1>3, <1>4, <1>5 DEF EndStep

\* The end of a step on a row in time adds the row of that step at most.
LEMMA OneRowAdded ==
    ASSUME Basis, [Next]_vars, NEW p \in Processes, Exclusive(p),
           NEW e \in Executors, EndStep(e), p = job[e]
    PROVE  \A r \in table'[p] : r \in table[p] \/ RowOf(e, r)
<1>1. Shape /\ History
  BY DEF Basis
<1>2. \A f \in Executors : EndStep(f) /\ p = job[f] => f = e
  BY <1>1, EndStepKnows DEF Exclusive
<1>. QED  BY <1>1, <1>2, TableGrows

\* The rows of a worker on its plan are those of the steps behind it.
LEMMA OnPlanRows ==
    ASSUME Basis, SagaInv, NEW p \in Processes, InTime(p),
           pc[p] \in StepPcs, local[p].act \in Forward
    PROVE  \A r \in table[p] : r.act # "cancel" /\ r.no <= Behind(p)
<1> SUFFICES ASSUME NEW r \in table[p] PROVE r.act # "cancel" /\ r.no <= Behind(p)
  OBVIOUS
<1>1. PlanSent(p, Behind(p)) /\ Sent(p, r.act)
  BY DEF SagaInv, OnPlan, Basis, RecordInv, RowsTrue
<1>2. Behind(p) \in 0 .. 3
  BY PlanFacts DEF Behind
<1>3. PICK i \in 1 .. 3 : i <= Behind(p) /\ r.act = Plan[i]
  BY <1>1, <1>2 DEF PlanSent, Sent
<1>4. r.act \in Forward /\ Position(r.act) = i
  BY <1>3 DEF Plan, Forward, Position
<1>. QED  BY <1>3, <1>4 DEF Basis, RecordInv, RowsTrue, Forward

\* What the steps of a single-fault run are taken from.
CalmInv == Basis /\ OutcomeInv /\ SagaInv /\ SingleFaultInv

\* Every step keeps the step of a failing or a working executor unrecorded.
LEMMA NextStepMissing ==
    ASSUME CalmInv, [Next]_vars, NEW p \in Processes
    PROVE  StepMissing(p)'
<1>1. /\ Shape /\ History /\ InTime(p) /\ Exclusive(p) /\ StepMissing(p)
      /\ p \in Executors /\ job[p] = p /\ p \notin Instances
  BY ExecutorsDisjoint
  DEF CalmInv, Basis, SingleFaultInv, Punctual, ExclusiveInv, Executors, Shape,
  ExecutorInv,
      WorkerOK
<1> SUFFICES ASSUME pc'[p] \in StepPcs
             PROVE  /\ pc'[p] \in {"good", "bad"} /\ local'[p].act \in Forward
                           => local'[p].no \notin CompletedNos(table'[p])
                    /\ local'[p].act = "cancel"
                           => local'[p].no - 1 \notin CompletedNos(table'[p])
  BY DEF StepMissing, StepPcs
<1>2. CASE pc'[p] = pc[p] /\ local'[p] = local[p]
  <2>1. ~EndStep(p)
    BY <1>1, <1>2, EndStepLeads DEF EndStep
  <2>2. table'[p] = table[p]
    <3>1. \A e \in Executors : EndStep(e) /\ p = job[e] => e = p
      BY <1>1, <1>2, EndStepKnows DEF Exclusive, Busy, BusyPcs
    <3>. QED  BY <1>1, <2>1, <3>1, TableQuiet
  <2>. QED  BY <1>1, <1>2, <2>2 DEF StepMissing
<1>3. CASE Solo(p)
  <2>1. EntersStep(p)
    BY <1>1, <1>3, StepEntry
  <2>2. CASE CallOA(p)
    <3>1. pc[p] = "call" /\ local' = local /\ table' = table
      BY <2>2 DEF CallOA, dbVars
    <3>2. local[p].act \in Forward => local[p].no \notin CompletedNos(table[p])
      <4>1. SUFFICES ASSUME local[p].act \in Forward, NEW r \in table[p],
                            r.no = local[p].no
                     PROVE  FALSE
        BY DEF CompletedNos
      <4>2. r.no <= Position(local[p].act) - 1
        BY <1>1, <3>1, <4>1, OnPlanRows DEF CalmInv, Behind, StepPcs
      <4>3. r.no = Position(local[p].act) /\ Position(local[p].act) \in 1 .. 3
        BY <1>1, <3>1, <4>1, PlanFacts
        DEF Shape, ExecutorInv, StepOK, StepPcs, Forward
      <4>. QED  BY <4>2, <4>3
    <3>. QED  BY <1>1, <3>1, <3>2 DEF StepMissing, StepPcs
  <2>3. CASE BeginStep(p) /\ pc[p] = "begin" /\ pc'[p] = "call"
    <3>1. table' = table
      BY <2>3 DEF BeginStep
    <3>2. local'[p].act = local[p].act /\ local'[p].no = local[p].no
      <4>1. local[p] \in Locals
        BY <1>1 DEF Shape, TypeOK
      <4>2. PICK row \in BOOLEAN : local' = [local EXCEPT ![p].traced = row]
        BY <2>3 DEF BeginStep, CreateStep
      <4>3. local'[p] = [local[p] EXCEPT !.traced = row]
        BY <1>1, <4>2 DEF Shape, TypeOK
      <4>. QED  BY <4>1, <4>3 DEF Locals
    <3>. QED  BY <1>1, <2>3, <3>1, <3>2 DEF StepMissing, StepPcs
  <2>4. CASE /\ EndStep(p) /\ pc[p] = "bad" /\ pc'[p] = "begin"
             /\ local[p].act \in Forward
             /\ local'[p] = At("cancel", local[p].no + 1, TRUE)
    <3>1. local[p].no \notin CompletedNos(table[p])
      BY <1>1, <2>4 DEF StepMissing
    <3>2. local[p].no \notin CompletedNos(table'[p])
      <4>1. \A r \in table'[p] : r.st = "completed" => r \in table[p]
        BY <1>1, <2>4, OneRowAdded DEF CalmInv, RowOf
      <4>. QED  BY <3>1, <4>1 DEF CompletedNos
    <3>3. local'[p].no - 1 = local[p].no
      <4>1. local'[p].no = local[p].no + 1
        BY <2>4 DEF At
      <4>2. local[p].no \in 0 .. 4
        BY <1>1, PlanFacts DEF Shape, TypeOK, Locals
      <4>. QED  BY <4>1, <4>2
    <3>. QED  BY <2>4, <3>2, <3>3
  <2>5. CASE pc'[p] = "begin" /\ local'[p].act # "cancel"
    BY <2>5
  <2>6. /\ At("submit", 1, FALSE).act # "cancel"
        /\ \A a \in {"submit", "approve"} : \A n :
               At(Plan[Position(a) + 1], n, TRUE).act # "cancel"
    BY NextInPlan DEF At, Forward
  <2>. QED  BY <1>1, <2>1, <2>2, <2>3, <2>4, <2>5, <2>6 DEF EntersStep
<1>. QED  BY <1>1, <1>2, <1>3, MoverOrNot DEF StepPcs

\* After the fault every executor goes on or stays.
LEMMA NoFaultLeft ==
    ASSUME Shape, SingleFaultInv, faults >= 1, [Next]_vars
    PROVE  /\ \A kind : ~Fault(kind)
           /\ \A e \in Executors :
                  \/ Solo(e)
                  \/ pc'[e] = pc[e] /\ local'[e] = local[e] /\ job'[e] = job[e]
<1>1. \A kind : ~Fault(kind)
  BY ConstantsTyped DEF SingleFaultInv, SingleFault, Fault, Shape, TypeOK
<1>2. \A i \in Instances : ~Crash(i)
  BY <1>1 DEF Crash
<1>3. ASSUME NEW e \in Executors, ~Solo(e)
      PROVE  pc'[e] = pc[e] /\ local'[e] = local[e] /\ job'[e] = job[e]
  BY <1>2, <1>3, NextIsSolo, SoloMovesOne
  DEF OthersStay, Expire, LateArrives, vars, executorVars
<1>. QED  BY <1>1, <1>3

\* Every step keeps a recovery that disguised a step on its way to "failed".
LEMMA NextRecoveryFails ==
    ASSUME CalmInv, [Next]_vars, NEW p \in Processes
    PROVE  RecoveryFails(p)'
<1> DEFINE Failing(w) == /\ pc[w] \in {"read", "write"} /\ job[w] = p
                         /\ local[w].verdict = "failed"
<1>1. /\ Shape /\ History /\ InTime(p) /\ Exclusive(p) /\ StepMissing(p)
      /\ RecoveryFails(p) /\ AtWork(p)
      /\ p \in Executors /\ job[p] = p /\ p \notin Instances
  BY ExecutorsDisjoint
  DEF CalmInv, Basis, SingleFaultInv, Punctual, ExclusiveInv, Executors, Shape,
  ExecutorInv,
      WorkerOK
<1>2. faults \in Nat /\ faults' \in Nat /\ faults' >= faults
  BY <1>1, FaultsMove DEF CalmInv, SingleFaultInv
<1> SUFFICES ASSUME Disguised(p)'
             PROVE  /\ faults' >= 1
                    /\ status'[p] = "failed" \/ \E w \in Instances : Failing(w)'
  BY DEF RecoveryFails
<1>3. CASE Disguised(p)
  <2>1. faults >= 1 /\ faults' >= 1
    BY <1>1, <1>2, <1>3 DEF RecoveryFails
  <2>2. CASE status[p] = "failed"
    <3>1. status'[p] = "failed"
      BY <1>1, <2>2, StatusMoves DEF Exclusive, Busy, BusyPcs
    <3>. QED  BY <2>1, <3>1
  <2>3. ASSUME NEW w \in Instances, Failing(w)
        PROVE  status'[p] = "failed" \/ Failing(w)'
    <3>1. w \in Executors /\ status[p] = "running" /\ w \notin Processes
      BY <1>1, <2>3, ExecutorsDisjoint DEF Exclusive, Busy, BusyPcs, Executors
    <3>2. \A kind : ~Fault(kind)
      BY <1>1, <2>1, NoFaultLeft DEF CalmInv
    <3>3. CASE Solo(w)
      <4>1. CASE ReadStatus(w)
        BY <1>1, <2>3, <3>1, <4>1 DEF ReadStatus, Goto, Shape, TypeOK
      <4>2. CASE WriteStatus(w)
        BY <1>1, <2>3, <4>2 DEF WriteStatus, Shape, TypeOK
      <4>3. ~RoundAborts(w) /\ ~WatchdogRaises(w)
        BY <3>2 DEF RoundAborts, WatchdogRaises
      <4>4. ~Restart(w)
        BY <2>3 DEF Restart, CalmInv, SingleFaultInv, DownIsDead
      <4>. QED
        BY <2>3, <3>1, <3>3, <4>1, <4>2, <4>3, <4>4
        DEF Solo, ExecutorStep, WatchdogStep, BeginStep, CallOA, EndStep, Detect,
            Claim, Skip, ReplayUnregistered, ReplayUnparsable, Replay
    <3>. QED  BY <1>1, <2>1, <2>3, <3>1, <3>3, NoFaultLeft DEF CalmInv
  <2>. QED  BY <1>1, <1>3, <2>1, <2>2, <2>3 DEF RecoveryFails
<1>4. CASE ~Disguised(p)
  <2>1. PICK e \in Executors : EndStep(e) /\ p = job[e]
    <3>1. table'[p] # table[p]
      BY <1>4 DEF Disguised, HidesMissingStep
    <3>. QED  BY <1>1, <3>1, TableQuiet
  <2>2. /\ Busy(e) /\ pc[e] \in StepPcs /\ status[p] = "running"
        /\ local[e].act \in Forward => e = p
        /\ \A r \in table'[p] : r \in table[p] \/ RowOf(e, r)
    BY <1>1, <2>1, EndStepKnows, OneRowAdded DEF CalmInv, Exclusive, StepPcs
  <2>3. CASE local[e].act \in Forward
    <3>1. \A r \in table[p] : r.act # "cancel"
      BY <1>1, <2>2, <2>3, OnPlanRows DEF CalmInv
    <3>2. \A r \in table'[p] : r.act # "cancel"
      BY <2>2, <2>3, <3>1 DEF RowOf, Forward
    <3>. QED  BY <3>2 DEF Disguised, HidesMissingStep
  <2>4. CASE local[e].act = "cancel" /\ e = p
    <3>1. local[p].no - 1 \notin CompletedNos(table[p]) /\ local[p].no \in 2 .. 4
      BY <1>1, <2>2, <2>4, PlanFacts
      DEF StepMissing, Shape, ExecutorInv, StepOK, Forward
    <3>2. local[p].no - 1 \notin CompletedNos(table'[p])
      BY <2>2, <2>4, <3>1 DEF RowOf, CompletedNos
    <3>. QED  BY <3>1, <3>2 DEF Disguised
  <2>5. CASE local[e].act = "cancel" /\ e # p
    <3>1. e \in Instances
      BY <1>1, <2>1, <2>5 DEF Executors, Shape, ExecutorInv, WorkerOK
    <3>2. Failing(e)'
      BY <1>1, <2>1, <2>5, EndStepLeads
    <3>3. faults >= 1
      BY <1>1, <1>2, <2>1, <2>2, <2>5 DEF AtWork, Exclusive
    <3>. QED  BY <1>2, <3>1, <3>2, <3>3
  <2>6. local[e].act \in Actions
    BY <1>1 DEF Shape, TypeOK, Locals
  <2>. QED  BY <2>3, <2>4, <2>5, <2>6 DEF Actions
<1>. QED  BY <1>3, <1>4

\* Every step keeps completion away from a hidden step.
LEMMA NextNothingHidden ==
    ASSUME CalmInv, [Next]_vars, NEW p \in Processes
    PROVE  NothingHidden(p)'
<1>1. /\ Shape /\ History /\ InTime(p) /\ Exclusive(p)
      /\ RecoveryFails(p) /\ NothingHidden(p)
  BY DEF CalmInv, Basis, SingleFaultInv, Punctual, ExclusiveInv
<1>2. table'[p] = table[p] => (HidesMissingStep(p)' <=> HidesMissingStep(p))
  BY DEF HidesMissingStep
<1>3. ASSUME status'[p] = "completed" PROVE ~HidesMissingStep(p)'
  <2>1. ~HidesMissingStep(p)
    BY <1>1, <1>3, StatusMoves DEF NothingHidden
  <2>2. \A e \in Executors : EndStep(e) => p # job[e]
    <3>1. CASE status[p] = "completed"
      BY <1>1, <3>1, EndStepKnows DEF Exclusive
    <3>2. CASE status[p] # "completed"
      <4>1. PICK e \in Executors : pc[e] = "write" /\ job[e] = p
        BY <1>1, <1>3, <3>2, StatusMoves
      <4>. QED  BY <1>1, <4>1, EndStepKnows DEF Exclusive, Busy, BusyPcs
    <3>. QED  BY <3>1, <3>2
  <2>. QED  BY <1>1, <1>2, <2>1, <2>2, TableQuiet
<1>4. ASSUME NEW e \in Executors, pc'[e] \in {"read", "write"}, job'[e] = p,
             local'[e].verdict = "completed"
      PROVE  ~HidesMissingStep(p)'
  <2>1. ASSUME ~HidesMissingStep(p), Busy(e), job[e] = p, pc[e] \notin {"good", "bad"}
        PROVE  ~HidesMissingStep(p)'
    <3>1. \A f \in Executors : EndStep(f) => p # job[f]
      BY <1>1, <2>1, EndStepKnows DEF Exclusive
    <3>. QED  BY <1>1, <1>2, <2>1, <3>1, TableQuiet
  <2>2. CASE pc'[e] = pc[e] /\ local'[e] = local[e] /\ job'[e] = job[e]
    BY <1>1, <1>4, <2>1, <2>2 DEF NothingHidden, Busy, BusyPcs
  <2>3. CASE Solo(e)
    <3>1. EntersEnd(e) /\ job[e] = p
      BY <1>1, <1>4, <2>3, EndEntry
    <3>2. CASE pc[e] = "read" /\ local'[e] = local[e]
      BY <1>1, <1>4, <2>1, <3>1, <3>2 DEF NothingHidden, Busy, BusyPcs
    <3>3. CASE EndStep(e) /\ pc[e] = "good" /\ local[e].act = "update"
      <4>1. e = p /\ \A r \in table'[p] : r \in table[p] \/ RowOf(e, r)
        BY <1>1, <3>1, <3>3, EndStepKnows, OneRowAdded DEF CalmInv, Forward
      <4>2. \A r \in table[p] : r.act # "cancel"
        BY <1>1, <3>3, <4>1, OnPlanRows DEF CalmInv, StepPcs, Forward
      <4>. QED  BY <3>3, <4>1, <4>2 DEF RowOf, HidesMissingStep
    <3>4. CASE local'[e] = Ending("failed")
      BY <1>4, <3>4 DEF Ending, Blank, At
    <3>5. CASE pc[e] = "replay" /\ FailPoint(table[job[e]]) = Len(Plan) + 1
      <4>1. \A n \in 1 .. 3 : n \in CompletedNos(table[p])
        BY <3>1, <3>5, FailPointInPlan, PlanFacts
      <4>2. (Busy(e) /\ ~RecoveryFails(p)) \/ ~Disguised(p)
        <5>1. Busy(e) /\ status[p] = "running"
          BY <1>1, <3>1, <3>5 DEF Exclusive, Busy, BusyPcs
        <5>2. ASSUME NEW w \in Instances, pc[w] \in {"read", "write"}, job[w] = p
              PROVE  FALSE
          BY <1>1, <3>1, <3>5, <5>1, <5>2 DEF Exclusive, Busy, BusyPcs, Executors
        <5>. QED  BY <5>1, <5>2 DEF RecoveryFails
      <4>. QED  BY <1>1, <2>1, <3>1, <3>5, <4>1, <4>2 DEF Disguised, Busy, BusyPcs
    <3>. QED  BY <3>1, <3>2, <3>3, <3>4, <3>5 DEF EntersEnd
  <2>. QED  BY <1>1, <1>4, <2>2, <2>3, MoverOrNot
<1>. QED  BY <1>3, <1>4 DEF NothingHidden

\* Every step keeps the invariant of a single fault.
LEMMA NextCalm == ASSUME CalmInv, [Next]_vars PROVE CalmInv'
<1>1. Basis' /\ OutcomeInv'
  BY NextOutcome DEF CalmInv
<1>2. SagaInv'
  BY NextSaga DEF CalmInv, Basis
<1>3. SingleFaultInv'
  <2>1. /\ Shape /\ SingleFault /\ faults <= MaxFaults /\ DownIsDead
        /\ \A p \in Processes : Punctual(p)
    BY DEF CalmInv, Basis, SingleFaultInv
  <2>2. DownIsDead' /\ faults' <= MaxFaults
    BY <2>1, NextDown, FaultsMove
  <2>3. ASSUME NEW p \in Processes
        PROVE  /\ Punctual(p)' /\ AtWork(p)' /\ StepMissing(p)'
               /\ RecoveryFails(p)' /\ NothingHidden(p)'
    BY <2>1, StaysPunctual, NextAtWork, NextStepMissing, NextRecoveryFails,
       NextNothingHidden DEF CalmInv
  <2>. QED  BY <2>1, <2>2, <2>3 DEF SingleFaultInv, SingleFault
<1>. QED  BY <1>1, <1>2, <1>3 DEF CalmInv

\* The initial states satisfy it.
LEMMA InitCalm == Init /\ SingleFault => CalmInv
<1> SUFFICES ASSUME Init, SingleFault PROVE SagaInv
  BY InitOutcome, InitSingleFault DEF CalmInv
<1>. QED  BY InitSaga

\* In the initial states nothing is recorded, booked or sent.
LEMMA InitPromise == Init => Contract!Init
BY DEF Init, Contract!Init

\* Then every step is one of the contract, on one row.
LEMMA CalmStep ==
    ASSUME CalmInv, ContractInv, [Next]_vars PROVE [Contract!Next]_Contract!vars
<1>1. Shape
  BY DEF ContractInv, Basis
<1>2. ASSUME NEW p \in Processes PROVE ContractStep(p)
  <2>1. InTime(p) /\ late[p] = {} /\ NothingHidden(p)
    BY DEF CalmInv, SingleFaultInv, Punctual
  <2>2. status'[p] = "completed" /\ status[p] # "completed" => ~HidesMissingStep(p)
    BY <1>1, <2>1, StatusMoves DEF NothingHidden
  <2>. QED  BY <2>1, <2>2, StepKeepsContract
<1>3. CASE \E p \in Processes :
               Contract!Accept(p) \/ Contract!Work(p) \/ Contract!Resolve(p)
  BY <1>3 DEF Contract!Next
<1>4. CASE \A p \in Processes : UNCHANGED <<status[p], booking[p]>>
  <2>1. Shape'
    BY <1>1, NextShape
  <2>2. status' = status /\ booking' = booking
    BY <1>1, <1>4, <2>1 DEF Shape, TypeOK
  <2>. QED  BY <2>2 DEF Contract!vars
<1>. QED  BY <1>2, <1>3, <1>4 DEF ContractStep

\* Through any single fault that is neither a slow step, nor a lost heartbeat,
\* nor a late call, the engine and its watchdogs implement the contract: each
\* row resolves once, its booking goes through the plan or is withdrawn,
\* completed means active, and nothing of it moves after that.
THEOREM EngineKeepsContract == SingleFault /\ Spec => KeepsContract
<1> DEFINE Inv == CalmInv /\ ContractInv
<1>1. Init /\ SingleFault => Inv /\ Contract!Init
  BY InitCalm, InitContract, InitPromise
<1>2. Inv /\ [Next]_vars => Inv' /\ [Contract!Next]_Contract!vars
  BY NextCalm, NextContract, CalmStep
<1>. QED  BY <1>1, <1>2, PTL DEF Spec, KeepsContract, Contract!Safety

\* Where no step is slow, no heartbeat lost and no call late, a completed row
\* over a cancelled booking takes at least two faults: with one, "replay all
\* succeeded" does mean that the process did complete.
THEOREM OneFaultIsNotEnough == SingleFault /\ Spec => []CompletedNeverCancelled
<1>1. CalmInv => CompletedNeverCancelled
  BY DEF CalmInv, SingleFaultInv, Punctual, NothingHidden, OutcomeInv,
         CompletedRowSettled, Settled, CompletedNeverCancelled
<1>. QED  BY <1>1, InitCalm, NextCalm, PTL DEF Spec
=============================================================================
