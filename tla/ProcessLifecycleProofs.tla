----------------------- MODULE ProcessLifecycleProofs -----------------------
(***************************************************************************)
(* What holds of ProcessLifecycle for every set of processes and instances *)
(* and any number of faults.                                               *)
(*                                                                         *)
(* TypeOK is not inductive by itself: the number of a step row depends on  *)
(* where its executor stands.  ExecutorInv relates the place, the job and  *)
(* the current step of every executor; HistoryInv relates the calls a      *)
(* worker has sent to the step it is at, which is what "no re-run" needs.  *)
(***************************************************************************)
EXTENDS ProcessLifecycle, TLAPS

\* The step an executor is at, when it is inside _exec_step: a forward step
\* has its position as its number, a compensation is never the first step.
StepOK(e) ==
    pc[e] \in StepPcs =>
        \/ local[e].act \in Forward /\ local[e].no = Position(local[e].act)
        \/ local[e].act = "cancel" /\ local[e].no \in 2 .. MaxStepNo

WorkerOK(p) == job[p] = p /\ pc[p] \notin {"sleep", "scan", "replay"}

WatchdogOK(w) ==
    /\ pc[w] \notin {"idle", "done"}
    /\ Busy(w) => job[w] \in Processes
    /\ pc[w] \in StepPcs => local[w].act = "cancel"

ExecutorInv ==
    /\ \A e \in Executors : StepOK(e)
    /\ \A p \in Processes : WorkerOK(p)
    /\ \A w \in Instances : WatchdogOK(w)

\* Before a row exists nobody works on it and nothing was sent for it.
UntouchedInv ==
    \A p \in Processes : status[p] = "none" =>
        calls[p] = <<>> /\ \A e \in Executors : Busy(e) => job[e] # p

\* The forward calls a worker has sent lie before the step it is about to
\* take; after the call they may include that step.
Sent(p, a) == \E i \in DOMAIN calls[p] : calls[p][i] = a

HistoryInv ==
    \A p \in Processes : \A a \in Forward :
        /\ pc[p] \in StepPcs /\ local[p].act \in Forward /\ Sent(p, a)
               => Position(a) <= Position(local[p].act)
        /\ pc[p] \in {"begin", "call"} /\ local[p].act \in Forward /\ Sent(p, a)
               => Position(a) < Position(local[p].act)

-----------------------------------------------------------------------------
(***************************************************************************)
(* Lemmas about the plan and the replay.                                   *)
(***************************************************************************)

\* The plan has three steps, each at its position.
LEMMA PlanFacts ==
    /\ Len(Plan) = 3
    /\ MaxStepNo = 4
    /\ \A a \in Forward : Position(a) \in 1 .. 3
    /\ \A a \in Forward : Plan[Position(a)] = a
    /\ \A a, b \in Forward : Position(a) = Position(b) => a = b
<1>1. Len(Plan) = 3
  BY DEF Plan
<1>2. Position("submit") = 1 /\ Position("approve") = 2 /\ Position("update") = 3
  BY DEF Position
<1>3. Plan[1] = "submit" /\ Plan[2] = "approve" /\ Plan[3] = "update"
  BY DEF Plan
<1>. QED  BY <1>1, <1>2, <1>3 DEF MaxStepNo, Forward

\* Going on from a step that is not the last one leads to the next position.
LEMMA NextInPlan ==
    ASSUME NEW a \in {"submit", "approve"}
    PROVE  /\ Plan[Position(a) + 1] \in Forward
           /\ Position(Plan[Position(a) + 1]) = Position(a) + 1
<1>1. Position("submit") = 1 /\ Position("approve") = 2 /\ Position("update") = 3
  BY DEF Position
<1>2. Plan[2] = "approve" /\ Plan[3] = "update"
  BY DEF Plan
<1>. QED  BY <1>1, <1>2 DEF Forward

\* replay_steps stops at one step of the plan, or behind the last one: the
\* steps before it have their completed rows, itself has none.
LEMMA FailPointInPlan ==
    ASSUME NEW t
    PROVE  /\ FailPoint(t) \in 1 .. 4
           /\ FailPoint(t) \notin CompletedNos(t) \/ FailPoint(t) = 4
           /\ \A m \in 1 .. (FailPoint(t) - 1) : m \in CompletedNos(t)
<1> DEFINE done == CompletedNos(t)
           P(n) == /\ n \notin done \/ n = 4
                   /\ \A m \in 1 .. (n - 1) : m \in done
<1>1. \E n \in 1 .. 4 : P(n)
  <2>1. CASE 1 \notin done
    BY <2>1
  <2>2. CASE 1 \in done /\ 2 \notin done
    <3>1. P(2)
      BY <2>2
    <3>. QED  BY <3>1
  <2>3. CASE 1 \in done /\ 2 \in done /\ 3 \notin done
    <3>1. \A m \in 1 .. (3 - 1) : m = 1 \/ m = 2
      OBVIOUS
    <3>2. P(3)
      BY <2>3, <3>1
    <3>. QED  BY <3>2
  <2>4. CASE 1 \in done /\ 2 \in done /\ 3 \in done
    <3>1. \A m \in 1 .. (4 - 1) : m = 1 \/ m = 2 \/ m = 3
      OBVIOUS
    <3>2. P(4)
      BY <2>4, <3>1
    <3>. QED  BY <3>2
  <2>. QED  BY <2>1, <2>2, <2>3, <2>4
<1>2. FailPoint(t) = CHOOSE n \in 1 .. 4 : P(n)
  BY PlanFacts DEF FailPoint
<1>. HIDE DEF P
<1>3. FailPoint(t) \in 1 .. 4 /\ P(FailPoint(t))
  BY <1>1, <1>2
<1>. USE DEF P
<1>. QED  BY <1>3

-----------------------------------------------------------------------------
(***************************************************************************)
(* Typing and the shape of the executors, one lemma per action.            *)
(***************************************************************************)
Shape == TypeOK /\ ExecutorInv

\* The values the code gives to an executor's local variables are typed.
LEMMA LocalsTyped ==
    /\ Blank \in Locals
    /\ \A v \in Terminal : Ending(v) \in Locals
    /\ \A a \in Actions, n \in 0 .. MaxStepNo :
           /\ At(a, n, TRUE) \in Locals /\ At(a, n, FALSE) \in Locals
           /\ At(a, n, TRUE).act = a /\ At(a, n, FALSE).act = a
           /\ At(a, n, TRUE).no = n /\ At(a, n, FALSE).no = n
    /\ \A l \in Locals, b \in BOOLEAN : [l EXCEPT !.traced = b] \in Locals
<1>1. Blank \in Locals
  BY DEF Blank, At, Locals, Actions, Forward, Terminal, MaxStepNo, Plan
<1>2. \A v \in Terminal : Ending(v) \in Locals
  BY <1>1 DEF Ending, Locals
<1>3. \A a \in Actions, n \in 0 .. MaxStepNo :
          /\ At(a, n, TRUE) \in Locals /\ At(a, n, FALSE) \in Locals
          /\ At(a, n, TRUE).act = a /\ At(a, n, FALSE).act = a
          /\ At(a, n, TRUE).no = n /\ At(a, n, FALSE).no = n
  BY DEF At, Locals, Terminal
<1>4. \A l \in Locals, b \in BOOLEAN : [l EXCEPT !.traced = b] \in Locals
  BY DEF Locals
<1>. QED  BY <1>1, <1>2, <1>3, <1>4

\* Whoever is busy works on a process.
LEMMA JobTyped ==
    ASSUME NEW e \in Executors, Shape, Busy(e)
    PROVE  job[e] \in Processes
BY DEF Shape, ExecutorInv, WorkerOK, WatchdogOK, Executors

\* A worker or a busy watchdog takes a new place, with new local variables,
\* and stays on its row.
LEMMA MoveShape ==
    ASSUME Shape,
           NEW e \in Executors, e \in Processes \/ Busy(e),
           NEW l \in Locals,
           NEW label \in BusyPcs \ {"replay"},
           label \in StepPcs =>
               \/ e \in Processes /\ l.act \in Forward /\ l.no = Position(l.act)
               \/ l.act = "cancel" /\ l.no \in 2 .. MaxStepNo,
           local' = [local EXCEPT ![e] = l],
           pc' = [pc EXCEPT ![e] = label],
           job' = job
    PROVE  /\ local' \in [Executors -> Locals]
           /\ pc' \in [Executors -> Pcs]
           /\ ExecutorInv'
<1>1. local' \in [Executors -> Locals]
  BY DEF Shape, TypeOK
<1>2. pc' \in [Executors -> Pcs]
  BY DEF Shape, TypeOK, Pcs
<1>3. local'[e] = l /\ pc'[e] = label
  BY DEF Shape, TypeOK
<1>4. \A f \in Executors : f # e => local'[f] = local[f] /\ pc'[f] = pc[f]
  BY DEF Shape, TypeOK
<1>5. \A f \in Executors : StepOK(f)'
  BY <1>3, <1>4 DEF Shape, ExecutorInv, StepOK
<1>6. \A p \in Processes : WorkerOK(p)'
  <2> TAKE p \in Processes
  <2>1. CASE p = e
    BY <1>3, <2>1 DEF Shape, ExecutorInv, WorkerOK, BusyPcs, StepPcs
  <2>2. CASE p # e
    BY <1>4, <2>2 DEF Shape, ExecutorInv, WorkerOK, Executors
  <2>. QED  BY <2>1, <2>2
<1>7. \A w \in Instances : WatchdogOK(w)'
  <2> TAKE w \in Instances
  <2>1. CASE w = e
    BY <1>3, <2>1, ExecutorsDisjoint
    DEF Shape, ExecutorInv, WatchdogOK, Busy, BusyPcs, StepPcs
  <2>2. CASE w # e
    BY <1>4, <2>2 DEF Shape, ExecutorInv, WatchdogOK, Busy, Executors
  <2>. QED  BY <2>1, <2>2
<1>. QED  BY <1>1, <1>2, <1>5, <1>6, <1>7 DEF ExecutorInv

\* A watchdog sleeps, goes on with its round, or is dead.
LEMMA RestShape ==
    ASSUME Shape,
           NEW w \in Instances,
           NEW label \in {"sleep", "scan", "dead"},
           pc' = [pc EXCEPT ![w] = label],
           local' = local \/ local' = [local EXCEPT ![w] = Blank],
           job' = job \/ job' = [job EXCEPT ![w] = NoJob]
    PROVE  /\ local' \in [Executors -> Locals]
           /\ pc' \in [Executors -> Pcs]
           /\ job' \in [Executors -> Processes \cup {NoJob}]
           /\ ExecutorInv'
<1>1. local' \in [Executors -> Locals]
  BY LocalsTyped DEF Shape, TypeOK
<1>2. pc' \in [Executors -> Pcs]
  BY DEF Shape, TypeOK, Pcs
<1>3. job' \in [Executors -> Processes \cup {NoJob}]
  BY DEF Shape, TypeOK
<1>4. pc'[w] = label
  BY DEF Shape, TypeOK, Executors
<1>5. \A f \in Executors : f # w =>
          local'[f] = local[f] /\ pc'[f] = pc[f] /\ job'[f] = job[f]
  BY DEF Shape, TypeOK
<1>6. w \notin Processes
  BY ExecutorsDisjoint
<1>7. \A f \in Executors : StepOK(f)'
  BY <1>4, <1>5 DEF Shape, ExecutorInv, StepOK, StepPcs
<1>8. \A p \in Processes : WorkerOK(p)'
  BY <1>5, <1>6 DEF Shape, ExecutorInv, WorkerOK, Executors
<1>9. \A v \in Instances : WatchdogOK(v)'
  BY <1>4, <1>5 DEF Shape, ExecutorInv, WatchdogOK, Busy, BusyPcs, StepPcs, Executors
<1>. QED  BY <1>1, <1>2, <1>3, <1>7, <1>8, <1>9 DEF ExecutorInv

\* Nobody is at a step at the beginning.
LEMMA InitShape == Init => Shape
<1> SUFFICES ASSUME Init PROVE Shape
  OBVIOUS
<1> USE DEF Init
<1>1. status \in [Processes -> Statuses] /\ heartbeat \in [Processes -> Heartbeats]
  BY DEF Statuses, Heartbeats
<1>2. table \in [Processes -> SUBSET Row] /\ late \in [Processes -> SUBSET Actions]
  OBVIOUS
<1>3. calls \in [Processes -> Seq(Actions)]
  OBVIOUS
<1>4. /\ booking \in [Processes -> BookingStates]
      /\ told \in [Processes -> {"nothing", "success", "failure"}]
      /\ up \in [Instances -> BOOLEAN]
      /\ host \in [Processes -> Instances]
      /\ mishap \in [Processes -> SUBSET {"overdue", "raised"}]
      /\ todo \in [Instances -> SUBSET Processes]
      /\ faults \in Nat
  BY DEF BookingStates
<1>5. pc \in [Executors -> Pcs] /\ job \in [Executors -> Processes \cup {NoJob}]
  BY DEF Pcs
<1>6. local \in [Executors -> Locals]
  BY LocalsTyped
<1>7. ExecutorInv
  BY ExecutorsDisjoint
     DEF ExecutorInv, StepOK, WorkerOK, WatchdogOK, Busy, BusyPcs, StepPcs, Executors
<1>8. rebuild \in [Processes -> RebuildKinds]
  BY ConstantsTyped
<1>. QED
  BY <1>1, <1>2, <1>3, <1>4, <1>5, <1>6, <1>7, <1>8 DEF Shape, TypeOK

\* A new worker is at the submission, the first step of the plan.
LEMMA AdmitShape ==
    ASSUME NEW p \in Processes, Shape, Admit(p) PROVE Shape'
<1> USE DEF Admit, Goto, NoFault, Shape, oaVars, envVars
<1>1. status' \in [Processes -> Statuses] /\ heartbeat' \in [Processes -> Heartbeats]
  BY DEF TypeOK, Statuses, Heartbeats
<1>2. /\ At("submit", 1, FALSE) \in Locals
      /\ At("submit", 1, FALSE).act = "submit"
      /\ At("submit", 1, FALSE).no = 1
  <2>1. "submit" \in Actions /\ 1 \in 0 .. MaxStepNo
    BY PlanFacts DEF Actions, Forward
  <2>. QED  BY <2>1, LocalsTyped
<1>3. "begin" \in BusyPcs \ {"replay"}
  BY DEF BusyPcs, StepPcs
<1>4. /\ local' = [local EXCEPT ![p] = At("submit", 1, FALSE)]
      /\ pc' = [pc EXCEPT ![p] = "begin"]
      /\ job' = job
  OBVIOUS
<1>5. "submit" \in Forward /\ Position("submit") = 1 /\ p \in Executors
  BY DEF Forward, Position, Executors
<1>6. /\ local' \in [Executors -> Locals]
      /\ pc' \in [Executors -> Pcs]
      /\ ExecutorInv'
  <2>. HIDE DEF Admit
  <2>. QED  BY <1>2, <1>3, <1>4, <1>5, MoveShape
<1>. QED  BY <1>1, <1>6 DEF TypeOK

\* Heartbeat and create_step leave the step and its number alone.
LEMMA BeginStepShape ==
    ASSUME NEW e \in Executors, Shape, BeginStep(e) PROVE Shape'
<1> USE DEF BeginStep, Heartbeat, CreateStep, Goto, Shape, oaVars, envVars
<1>1. PICK beat, row \in BOOLEAN :
          /\ NoFault \/ Fault("db") \/ Fault("beat")
          /\ heartbeat' = [heartbeat EXCEPT ![job[e]] = IF beat THEN "fresh" ELSE Older(@)]
          /\ local' = [local EXCEPT ![e].traced = row]
  OBVIOUS
<1>2. faults' \in Nat
  BY <1>1 DEF TypeOK, NoFault, Fault
<1>3. heartbeat' \in [Processes -> Heartbeats]
  BY <1>1 DEF TypeOK, Older, Heartbeats
<1>4. local' \in [Executors -> Locals]
  <2>1. [local[e] EXCEPT !.traced = row] \in Locals
    BY LocalsTyped DEF TypeOK
  <2>. QED  BY <1>1, <2>1 DEF TypeOK
<1>5. pc' \in [Executors -> Pcs]
  BY DEF TypeOK, Pcs, BusyPcs, StepPcs
<1>6. TypeOK'
  BY <1>2, <1>3, <1>4, <1>5 DEF TypeOK
<1>7. /\ local'[e].act = local[e].act /\ local'[e].no = local[e].no
      /\ \A f \in Executors : f # e => local'[f] = local[f]
  BY <1>1 DEF TypeOK, Locals
<1>8. ExecutorInv'
  BY <1>7 DEF ExecutorInv, StepOK, WorkerOK, WatchdogOK, Busy, BusyPcs, StepPcs, TypeOK, Executors
<1>. QED  BY <1>6, <1>8

\* The call leaves the step alone, whatever becomes of it.
LEMMA CallOAShape ==
    ASSUME NEW e \in Executors, Shape, CallOA(e) PROVE Shape'
<1> USE DEF CallOA, Goto, Shape, dbVars, envVars
<1>0. job[e] \in Processes
  BY JobTyped DEF Busy, BusyPcs, StepPcs
<1>1. local[e].act \in Actions
  BY DEF TypeOK, Locals
<1>2. faults' \in Nat
  BY DEF TypeOK, NoFault, Fault
<1>3. calls' \in [Processes -> Seq(Actions)]
  <2>1. calls' = [calls EXCEPT ![job[e]] = Append(@, local[e].act)]
    OBVIOUS
  <2>2. Append(calls[job[e]], local[e].act) \in Seq(Actions)
    <3>1. calls[job[e]] \in Seq(Actions)
      BY <1>0 DEF TypeOK
    <3>. HIDE DEF CallOA
    <3>. QED  BY <1>1, <3>1
  <2>3. calls \in [Processes -> Seq(Actions)]
    BY DEF TypeOK
  <2>. HIDE DEF CallOA
  <2>. QED  BY <2>1, <2>2, <2>3
<1>4. booking' \in [Processes -> BookingStates]
  <2>1. Outcome(local[e].act) \in BookingStates
    BY <1>1 DEF Outcome, BookingStates, Actions, Forward
  <2>2. \/ booking' = booking
        \/ booking' = [booking EXCEPT ![job[e]] = Outcome(local[e].act)]
    OBVIOUS
  <2>. QED  BY <2>1, <2>2 DEF TypeOK
<1>5. late' \in [Processes -> SUBSET Actions]
  <2>1. late' = late \/ late' = [late EXCEPT ![job[e]] = @ \cup {local[e].act}]
    OBVIOUS
  <2>2. late \in [Processes -> SUBSET Actions]
    BY DEF TypeOK
  <2>3. late[job[e]] \cup {local[e].act} \in SUBSET Actions
    BY <1>0, <1>1, <2>2
  <2>. HIDE DEF CallOA
  <2>. QED  BY <2>1, <2>2, <2>3
<1>6. pc' \in [Executors -> Pcs]
  BY DEF TypeOK, Pcs, BusyPcs, StepPcs
<1>7. TypeOK'
  BY <1>2, <1>3, <1>4, <1>5, <1>6 DEF TypeOK
<1>8. ExecutorInv'
  <2>1. pc' = [pc EXCEPT ![e] = "good"] \/ pc' = [pc EXCEPT ![e] = "bad"]
    OBVIOUS
  <2>. QED
    BY <2>1 DEF ExecutorInv, StepOK, WorkerOK, WatchdogOK, Busy, BusyPcs, StepPcs,
                TypeOK, Executors
<1>. QED  BY <1>7, <1>8

\* The row finish_step writes is typed: its number is that of a real step.
LEMMA RecordTyped ==
    ASSUME NEW e \in Executors, Shape, pc[e] \in {"good", "bad"}, RecordStep(e)
    PROVE  table' \in [Processes -> SUBSET Row] /\ faults' \in Nat
<1>1. job[e] \in Processes
  BY JobTyped DEF Busy, BusyPcs, StepPcs
<1>2. local[e].act \in Actions
  BY DEF Shape, TypeOK, Locals
<1>3. local[e].no \in 1 .. MaxStepNo
  BY PlanFacts DEF Shape, ExecutorInv, StepOK, StepPcs
<1>4. /\ table \in [Processes -> SUBSET Row]
      /\ faults' \in Nat
  BY DEF RecordStep, Shape, TypeOK, NoFault, Fault
<1>5. PICK row \in Row : \/ table' = table
                        \/ table' = [table EXCEPT ![job[e]] = @ \cup {row}]
  <2> DEFINE row == [no |-> local[e].no, act |-> local[e].act,
                     st |-> IF pc[e] = "good" THEN "completed" ELSE "failed"]
  <2>1. row \in Row
    BY <1>2, <1>3 DEF Row
  <2>2. \/ table' = table
        \/ table' = [table EXCEPT
                       ![job[e]] = IF local[e].traced THEN @ \cup {row} ELSE @]
    BY DEF RecordStep
  <2>3. CASE local[e].traced
    BY <2>1, <2>2, <2>3
  <2>4. CASE ~local[e].traced
    <3>1. table' = table \/ table' = [table EXCEPT ![job[e]] = @]
      BY <2>2, <2>4
    <3>2. table' = table
      BY <1>4, <3>1
    <3>. QED  BY <2>1, <3>2
  <2>. QED  BY <2>3, <2>4
<1>6. table[job[e]] \cup {row} \in SUBSET Row
  BY <1>1, <1>4
<1>. QED  BY <1>1, <1>4, <1>5, <1>6

\* The end of drive or compensate, from whichever step.
LEMMA ConcludeShape ==
    ASSUME NEW e \in Executors, Shape, Busy(e), NEW v \in Terminal,
           Conclude(e, v), job' = job
    PROVE  /\ local' \in [Executors -> Locals]
           /\ pc' \in [Executors -> Pcs]
           /\ told' \in [Processes -> {"nothing", "success", "failure"}]
           /\ ExecutorInv'
<1>1. Ending(v) \in Locals
  BY LocalsTyped
<1>2. told' \in [Processes -> {"nothing", "success", "failure"}]
  BY DEF Conclude, Shape, TypeOK
<1>3. "read" \in BusyPcs \ {"replay"} /\ "read" \notin StepPcs
  BY DEF BusyPcs, StepPcs
<1>4. local' = [local EXCEPT ![e] = Ending(v)] /\ pc' = [pc EXCEPT ![e] = "read"]
  BY DEF Conclude, Goto
<1>. QED  BY <1>1, <1>2, <1>3, <1>4, MoveShape

\* After a step the generator is at the next one, at the compensation, or done.
LEMMA EndStepShape == ASSUME NEW e \in Executors, Shape, EndStep(e) PROVE Shape'
<1> DEFINE Goal == /\ local' \in [Executors -> Locals]
                   /\ pc' \in [Executors -> Pcs]
                   /\ told' \in [Processes -> {"nothing", "success", "failure"}]
                   /\ ExecutorInv'
<1>1. /\ pc[e] \in {"good", "bad"} /\ Busy(e) /\ RecordStep(e) /\ job' = job
      /\ UNCHANGED <<status, heartbeat, booking, calls, late, up, host, rebuild,
                     mishap, todo>>
  BY DEF EndStep, Busy, BusyPcs, StepPcs, oaVars, envVars
<1>2. table' \in [Processes -> SUBSET Row] /\ faults' \in Nat
  BY <1>1, RecordTyped
<1>3. StepOK(e) /\ local[e].act \in Actions /\ local[e].no \in 1 .. MaxStepNo
  BY <1>1, PlanFacts DEF Shape, ExecutorInv, StepOK, StepPcs, TypeOK, Locals
<1>4. told \in [Processes -> {"nothing", "success", "failure"}]
  BY DEF Shape, TypeOK
<1>5. "begin" \in BusyPcs \ {"replay"}
  BY DEF BusyPcs, StepPcs
<1>6. ASSUME Advance(e) PROVE Goal
  <2> DEFINE a == local[e].act
             l == At(Plan[Position(a) + 1], local[e].no + 1, TRUE)
  <2>1. a \in {"submit", "approve"} /\ a \in Forward /\ a # "cancel"
    BY <1>6 DEF Advance, Forward
  <2>2. local[e].no = Position(a)
    BY <1>1, <1>3, <2>1 DEF StepOK, StepPcs
  <2>3. /\ Plan[Position(a) + 1] \in Forward
        /\ Position(Plan[Position(a) + 1]) = local[e].no + 1
    BY <2>1, <2>2, NextInPlan
  <2>4. local[e].no + 1 \in 0 .. MaxStepNo
    BY <2>3, PlanFacts
  <2>5. l \in Locals /\ l.act \in Forward /\ l.no = Position(l.act)
    BY <2>3, <2>4, LocalsTyped DEF Actions
  <2>6. e \in Processes
    BY <1>1, <2>1 DEF Shape, ExecutorInv, WatchdogOK, Executors, StepPcs
  <2>7. local' = [local EXCEPT ![e] = l] /\ pc' = [pc EXCEPT ![e] = "begin"]
    BY <1>6 DEF Advance, Goto
  <2>8. told' = told
    BY <1>6 DEF Advance
  <2>. HIDE DEF l
  <2>. QED  BY <1>1, <1>4, <1>5, <2>5, <2>6, <2>7, <2>8, MoveShape
<1>7. ASSUME Compensate(e) PROVE Goal
  <2> DEFINE l == At("cancel", local[e].no + 1, TRUE)
  <2>1. CASE local[e].known
    <3>1. local[e].act \in Forward /\ local[e].act # "cancel"
      BY <1>7 DEF Compensate, Forward
    <3>2. local[e].no \in 1 .. 3
      BY <1>1, <1>3, <3>1, PlanFacts DEF StepOK, StepPcs
    <3>3. local[e].no + 1 \in 2 .. MaxStepNo
      BY <3>2, PlanFacts
    <3>4. l \in Locals /\ l.act = "cancel" /\ l.no \in 2 .. MaxStepNo
      <4>1. "cancel" \in Actions /\ local[e].no + 1 \in 0 .. MaxStepNo
        BY <3>3, PlanFacts DEF Actions
      <4>. QED  BY <3>3, <4>1, LocalsTyped
    <3>5. /\ local' = [local EXCEPT ![e] = l] /\ pc' = [pc EXCEPT ![e] = "begin"]
          /\ told' = told
      BY <1>7, <2>1 DEF Compensate, Goto
    <3>. HIDE DEF l
    <3>. QED  BY <1>1, <1>4, <1>5, <3>4, <3>5, MoveShape
  <2>2. CASE ~local[e].known
    <3>1. Conclude(e, "failed")
      BY <1>7, <2>2 DEF Compensate
    <3>. QED  BY <1>1, <3>1, ConcludeShape DEF Terminal
  <2>. QED  BY <2>1, <2>2
<1>8. ASSUME EndPlan(e) PROVE Goal
  <2>1. Conclude(e, "completed") \/ Conclude(e, "failed")
    BY <1>8 DEF EndPlan
  <2>. QED  BY <1>1, <2>1, ConcludeShape DEF Terminal
<1>9. Goal
  <2>1. Advance(e) \/ Compensate(e) \/ EndPlan(e)
    BY DEF EndStep
  <2>. QED  BY <1>6, <1>7, <1>8, <2>1
<1>. QED  BY <1>1, <1>2, <1>9 DEF Shape, TypeOK

\* drive's own handler ends the worker's steps.
LEMMA DriveRaisesShape ==
    ASSUME NEW p \in Processes, Shape, DriveRaises(p) PROVE Shape'
<1>1. /\ p \in Executors /\ Busy(p) /\ Conclude(p, "failed") /\ job' = job
      /\ UNCHANGED <<status, heartbeat, table, booking, calls, late, up, host, rebuild,
                     todo>>
  BY DEF DriveRaises, Executors, Busy, BusyPcs, StepPcs, dbVars, oaVars, envVars
<1>2. faults' \in Nat
  BY DEF DriveRaises, Fault, Shape, TypeOK
<1>3. mishap' \in [Processes -> SUBSET {"overdue", "raised"}]
  <2>1. mishap' = [mishap EXCEPT ![p] = @ \cup {"raised"}]
    BY DEF DriveRaises
  <2>2. mishap \in [Processes -> SUBSET {"overdue", "raised"}]
    BY DEF Shape, TypeOK
  <2>. QED  BY <2>1, <2>2
<1>. QED  BY <1>1, <1>2, <1>3, ConcludeShape DEF Terminal, Shape, TypeOK

\* A worker is done, a watchdog goes on with its round or to sleep.
LEMMA LeaveShape ==
    ASSUME NEW e \in Executors, Shape, Busy(e), Leave(e)
    PROVE  /\ local' \in [Executors -> Locals]
           /\ pc' \in [Executors -> Pcs]
           /\ job' \in [Executors -> Processes \cup {NoJob}]
           /\ todo' \in [Instances -> SUBSET Processes]
           /\ ExecutorInv'
<1>1. local' = [local EXCEPT ![e] = Blank]
  BY DEF Leave
<1>2. CASE e \in Processes
  <2>1. pc' = [pc EXCEPT ![e] = "done"] /\ job' = job /\ todo' = todo
    BY <1>2 DEF Leave, Goto
  <2>2. local' \in [Executors -> Locals] /\ pc' \in [Executors -> Pcs]
    BY <1>1, <2>1, LocalsTyped DEF Shape, TypeOK, Pcs
  <2>3. pc'[e] = "done" /\ e \notin Instances
    BY <1>2, <2>1, ExecutorsDisjoint DEF Shape, TypeOK
  <2>4. \A f \in Executors : f # e => local'[f] = local[f] /\ pc'[f] = pc[f]
    BY <1>1, <2>1 DEF Shape, TypeOK
  <2>5. \A f \in Executors : StepOK(f)'
    BY <2>3, <2>4 DEF Shape, ExecutorInv, StepOK, StepPcs
  <2>6. \A p \in Processes : WorkerOK(p)'
    BY <2>1, <2>3, <2>4 DEF Shape, ExecutorInv, WorkerOK, Executors
  <2>7. \A w \in Instances : WatchdogOK(w)'
    BY <2>1, <2>3, <2>4 DEF Shape, ExecutorInv, WatchdogOK, Busy, Executors
  <2>. QED  BY <2>1, <2>2, <2>5, <2>6, <2>7 DEF Shape, TypeOK, ExecutorInv
<1>3. CASE e \notin Processes
  <2> DEFINE rest == todo[e] \ {job[e]}
             label == IF rest = {} THEN "sleep" ELSE "scan"
  <2>1. /\ pc' = [pc EXCEPT ![e] = label]
        /\ job' = [job EXCEPT ![e] = NoJob]
        /\ todo' = [todo EXCEPT ![e] = rest]
    BY <1>3 DEF Leave, Goto
  <2>2. e \in Instances /\ label \in {"sleep", "scan", "dead"}
    BY <1>3 DEF Executors
  <2>3. rest \in SUBSET Processes
    BY <2>2 DEF Shape, TypeOK
  <2>4. todo' \in [Instances -> SUBSET Processes]
    BY <2>1, <2>3 DEF Shape, TypeOK
  <2>. HIDE DEF label
  <2>. QED  BY <1>1, <2>1, <2>2, <2>4, RestShape
<1>. QED  BY <1>2, <1>3

\* Reading the status leads to the UPDATE or ends the job.
LEMMA ReadStatusShape ==
    ASSUME NEW e \in Executors, Shape, ReadStatus(e) PROVE Shape'
<1>1. /\ pc[e] = "read" /\ Busy(e)
      /\ UNCHANGED <<status, heartbeat, table, booking, calls, late, told, up, host,
                     rebuild, mishap, faults>>
  BY DEF ReadStatus, Busy, BusyPcs, dbVars, oaVars, envVars, NoFault
<1>2. CASE status[job[e]] = "running"
  <2>1. /\ pc' = [pc EXCEPT ![e] = "write"]
        /\ UNCHANGED <<job, todo, local>>
    BY <1>2 DEF ReadStatus, Goto
  <2>2. local[e] \in Locals /\ local' = [local EXCEPT ![e] = local[e]]
    BY <2>1 DEF Shape, TypeOK
  <2>3. "write" \in BusyPcs \ {"replay"} /\ "write" \notin StepPcs
    BY DEF BusyPcs, StepPcs
  <2>4. local' \in [Executors -> Locals] /\ pc' \in [Executors -> Pcs] /\ ExecutorInv'
    BY <1>1, <2>1, <2>2, <2>3, MoveShape
  <2>. QED  BY <1>1, <2>1, <2>4 DEF Shape, TypeOK
<1>3. CASE status[job[e]] # "running"
  <2>1. Leave(e)
    BY <1>3 DEF ReadStatus
  <2>. QED  BY <1>1, <2>1, LeaveShape DEF Shape, TypeOK
<1>. QED  BY <1>2, <1>3

\* The UPDATE writes a terminal status and ends the job.
LEMMA WriteStatusShape ==
    ASSUME NEW e \in Executors, Shape, WriteStatus(e) PROVE Shape'
<1>1. /\ Busy(e) /\ Leave(e)
      /\ UNCHANGED <<heartbeat, table, booking, calls, late, told, up, host, rebuild,
                     mishap, faults>>
  BY DEF WriteStatus, Busy, BusyPcs, oaVars, envVars, NoFault
<1>2. status' \in [Processes -> Statuses]
  <2>1. local[e].verdict \in Statuses
    BY DEF Shape, TypeOK, Locals, Terminal, Statuses
  <2>2. status' = [status EXCEPT ![job[e]] = local[e].verdict]
    BY DEF WriteStatus
  <2>. QED  BY <2>1, <2>2 DEF Shape, TypeOK
<1>. QED  BY <1>1, <1>2, LeaveShape DEF Shape, TypeOK

\* A lost finalize ends the worker and nothing else.
LEMMA FinalizeLostShape ==
    ASSUME NEW p \in Processes, Shape, FinalizeLost(p) PROVE Shape'
<1>1. /\ p \in Executors /\ Busy(p) /\ Leave(p)
      /\ UNCHANGED <<status, heartbeat, table, booking, calls, late, told, up, host,
                     rebuild, mishap>>
  BY DEF FinalizeLost, Executors, Busy, BusyPcs, dbVars, oaVars, envVars
<1>2. faults' \in Nat
  BY DEF FinalizeLost, Fault, Shape, TypeOK
<1>. QED  BY <1>1, <1>2, LeaveShape DEF Shape, TypeOK

\* A round starts without a job.
LEMMA DetectShape == ASSUME NEW w \in Instances, Shape, Detect(w) PROVE Shape'
<1> DEFINE stuck == {p \in Processes : Stuck(p)}
           label == IF stuck = {} THEN "sleep" ELSE "scan"
<1>1. /\ pc' = [pc EXCEPT ![w] = label]
      /\ todo' = [todo EXCEPT ![w] = stuck]
      /\ local' = local /\ job' = job
      /\ UNCHANGED <<status, heartbeat, table, booking, calls, late, told, up, host,
                     rebuild, mishap, faults>>
  BY DEF Detect, Goto, dbVars, oaVars, envVars, NoFault
<1>2. label \in {"sleep", "scan", "dead"}
  OBVIOUS
<1>3. todo' \in [Instances -> SUBSET Processes]
  BY <1>1 DEF Shape, TypeOK
<1>. HIDE DEF label
<1>4. /\ local' \in [Executors -> Locals] /\ pc' \in [Executors -> Pcs]
      /\ job' \in [Executors -> Processes \cup {NoJob}] /\ ExecutorInv'
  BY <1>1, <1>2, RestShape
<1>. QED  BY <1>1, <1>3, <1>4 DEF Shape, TypeOK

\* A row somebody else took is dropped from the round.
LEMMA SkipShape == ASSUME NEW w \in Instances, Shape, Skip(w) PROVE Shape'
<1>1. PICK p \in todo[w] :
          /\ todo' = [todo EXCEPT ![w] = @ \ {p}]
          /\ Goto(w, IF todo[w] = {p} THEN "sleep" ELSE "scan")
  BY DEF Skip
<1> DEFINE label == IF todo[w] = {p} THEN "sleep" ELSE "scan"
<1>2. /\ pc' = [pc EXCEPT ![w] = label]
      /\ local' = local /\ job' = job
      /\ UNCHANGED <<status, heartbeat, table, booking, calls, late, told, up, host,
                     rebuild, mishap, faults>>
  BY <1>1 DEF Skip, Goto, dbVars, oaVars, envVars, NoFault
<1>3. label \in {"sleep", "scan", "dead"}
  OBVIOUS
<1>4. todo' \in [Instances -> SUBSET Processes]
  BY <1>1 DEF Shape, TypeOK
<1>. HIDE DEF label
<1>5. /\ local' \in [Executors -> Locals] /\ pc' \in [Executors -> Pcs]
      /\ job' \in [Executors -> Processes \cup {NoJob}] /\ ExecutorInv'
  BY <1>2, <1>3, RestShape
<1>. QED  BY <1>2, <1>4, <1>5 DEF Shape, TypeOK

\* The lock gives the watchdog a process to work on.
LEMMA ClaimShape == ASSUME NEW w \in Instances, Shape, Claim(w) PROVE Shape'
<1>1. PICK p \in todo[w] : /\ heartbeat' = [heartbeat EXCEPT ![p] = "new"]
                          /\ job' = [job EXCEPT ![w] = p]
  BY DEF Claim
<1>2. /\ pc' = [pc EXCEPT ![w] = "replay"]
      /\ UNCHANGED <<status, table, booking, calls, late, told, up, host, rebuild,
                     mishap, todo,
                     local, faults>>
  BY DEF Claim, Goto, oaVars, envVars, NoFault
<1>3. p \in Processes /\ w \in Executors /\ w \notin Processes
  BY ExecutorsDisjoint DEF Shape, TypeOK, Executors
<1>4. /\ heartbeat' \in [Processes -> Heartbeats]
      /\ job' \in [Executors -> Processes \cup {NoJob}]
  BY <1>1, <1>3 DEF Shape, TypeOK, Heartbeats
<1>5. pc' \in [Executors -> Pcs]
  BY <1>2 DEF Shape, TypeOK, Pcs, BusyPcs
<1>6. pc'[w] = "replay" /\ job'[w] = p
  BY <1>1, <1>2, <1>3 DEF Shape, TypeOK
<1>7. \A f \in Executors : f # w => pc'[f] = pc[f] /\ job'[f] = job[f]
  BY <1>1, <1>2 DEF Shape, TypeOK
<1>8. \A f \in Executors : StepOK(f)'
  BY <1>2, <1>6, <1>7 DEF Shape, ExecutorInv, StepOK, StepPcs
<1>9. \A q \in Processes : WorkerOK(q)'
  BY <1>3, <1>7 DEF Shape, ExecutorInv, WorkerOK, Executors
<1>10. \A v \in Instances : WatchdogOK(v)'
  BY <1>2, <1>3, <1>6, <1>7
  DEF Shape, ExecutorInv, WatchdogOK, Busy, BusyPcs, StepPcs, Executors
<1>. QED
  BY <1>2, <1>4, <1>5, <1>8, <1>9, <1>10 DEF Shape, TypeOK, ExecutorInv

\* The three outcomes of handle_processes' replay of a row it has locked.
LEMMA ReplayShape ==
    ASSUME NEW w \in Instances, Shape, Replay(w) \/ ReplayUnregistered(w)
    PROVE  Shape'
<1> DEFINE n == FailPoint(table[job[w]])
<1>1. /\ w \in Executors /\ Busy(w) /\ job' = job
      /\ UNCHANGED <<status, heartbeat, table, booking, calls, late, told, up, host,
                     rebuild, mishap,
                     todo, faults>>
  BY DEF Replay, ReplayUnregistered, Executors, Busy, BusyPcs, dbVars, oaVars,
         envVars, NoFault
<1>2. \/ /\ n \in 2 .. Len(Plan)
         /\ local' = [local EXCEPT ![w] = At("cancel", n, TRUE)]
         /\ pc' = [pc EXCEPT ![w] = "begin"]
      \/ /\ \E v \in Terminal : local' = [local EXCEPT ![w] = Ending(v)]
         /\ pc' = [pc EXCEPT ![w] = "read"]
  BY DEF Replay, ReplayUnregistered, Goto, Terminal
<1> DEFINE Goal == /\ local' \in [Executors -> Locals]
                   /\ pc' \in [Executors -> Pcs]
                   /\ ExecutorInv'
<1>. HIDE DEF n
<1>3. ASSUME n \in 2 .. Len(Plan),
             local' = [local EXCEPT ![w] = At("cancel", n, TRUE)],
             pc' = [pc EXCEPT ![w] = "begin"]
      PROVE  Goal
  <2>1. "cancel" \in Actions /\ n \in 0 .. MaxStepNo /\ n \in 2 .. MaxStepNo
    BY <1>3, PlanFacts DEF Actions
  <2>2. /\ At("cancel", n, TRUE) \in Locals
        /\ At("cancel", n, TRUE).act = "cancel"
        /\ At("cancel", n, TRUE).no \in 2 .. MaxStepNo
    BY <2>1, LocalsTyped
  <2>3. "begin" \in BusyPcs \ {"replay"}
    BY DEF BusyPcs, StepPcs
  <2>. QED  BY <1>1, <1>3, <2>2, <2>3, MoveShape
<1>4. ASSUME NEW v \in Terminal,
             local' = [local EXCEPT ![w] = Ending(v)],
             pc' = [pc EXCEPT ![w] = "read"]
      PROVE  Goal
  <2>1. Ending(v) \in Locals
    BY LocalsTyped
  <2>2. "read" \in BusyPcs \ {"replay"} /\ "read" \notin StepPcs
    BY DEF BusyPcs, StepPcs
  <2>. QED  BY <1>1, <1>4, <2>1, <2>2, MoveShape
<1>5. Goal
  BY <1>2, <1>3, <1>4
<1>. QED  BY <1>1, <1>5 DEF Shape, TypeOK

\* The round of a watchdog ends early, and possibly the watchdog with it.
LEMMA RoundEndsShape ==
    ASSUME NEW w \in Instances, Shape,
           ReplayUnparsable(w) \/ RoundAborts(w) \/ WatchdogRaises(w)
    PROVE  Shape'
<1>1. /\ local' = [local EXCEPT ![w] = Blank]
      /\ job' = [job EXCEPT ![w] = NoJob]
      /\ todo' = [todo EXCEPT ![w] = {}]
      /\ UNCHANGED <<status, heartbeat, table, booking, calls, late, told, up, host,
                     rebuild, mishap>>
  BY DEF ReplayUnparsable, RoundAborts, WatchdogRaises, WatchdogDies, dbVars,
         oaVars, envVars
<1>2. PICK label \in {"sleep", "scan", "dead"} : pc' = [pc EXCEPT ![w] = label]
  BY DEF ReplayUnparsable, RoundAborts, WatchdogRaises, WatchdogDies, Goto
<1>3. faults' \in Nat
  BY DEF ReplayUnparsable, RoundAborts, WatchdogRaises, NoFault, Fault, Shape, TypeOK
<1>4. todo' \in [Instances -> SUBSET Processes]
  BY <1>1 DEF Shape, TypeOK
<1>5. /\ local' \in [Executors -> Locals] /\ pc' \in [Executors -> Pcs]
      /\ job' \in [Executors -> Processes \cup {NoJob}] /\ ExecutorInv'
  BY <1>1, <1>2, RestShape
<1>. QED  BY <1>1, <1>3, <1>4, <1>5 DEF Shape, TypeOK

\* An old heartbeat changes no executor.
LEMMA ExpireShape == ASSUME NEW p \in Processes, Shape, Expire(p) PROVE Shape'
<1>1. heartbeat' \in [Processes -> Heartbeats] /\ faults' \in Nat
  BY DEF Expire, NoFault, Fault, Shape, TypeOK, Heartbeats
<1>2. UNCHANGED <<status, table, booking, calls, late, told, up, host, rebuild, pc,
                  job,
                  todo, local>>
  BY DEF Expire, oaVars, envVars, executorVars
<1>3. mishap' \in [Processes -> SUBSET {"overdue", "raised"}]
  <2>1. mishap' = mishap \/ mishap' = [mishap EXCEPT ![p] = @ \cup {"overdue"}]
    BY DEF Expire
  <2>2. mishap \in [Processes -> SUBSET {"overdue", "raised"}]
    BY DEF Shape, TypeOK
  <2>. QED  BY <2>1, <2>2
<1>. QED
  BY <1>1, <1>2, <1>3
  DEF Shape, TypeOK, ExecutorInv, StepOK, WorkerOK, WatchdogOK, Busy

\* A late call changes the booking only.
LEMMA LateArrivesShape ==
    ASSUME NEW p \in Processes, Shape, LateArrives(p) PROVE Shape'
<1>1. PICK a \in late[p] : /\ booking' = [booking EXCEPT ![p] = Outcome(a)]
                          /\ late' = [late EXCEPT ![p] = @ \ {a}]
  BY DEF LateArrives
<1>2. Outcome(a) \in BookingStates
  BY DEF Shape, TypeOK, Outcome, BookingStates, Actions, Forward
<1>3. booking' \in [Processes -> BookingStates]
  BY <1>1, <1>2 DEF Shape, TypeOK
<1>4. late' \in [Processes -> SUBSET Actions]
  BY <1>1 DEF Shape, TypeOK
<1>5. UNCHANGED <<status, heartbeat, table, calls, told, up, host, rebuild, mishap, pc,
                  job, todo,
                  local, faults>>
  BY DEF LateArrives, dbVars, envVars, executorVars, NoFault
<1>. QED
  BY <1>3, <1>4, <1>5
  DEF Shape, TypeOK, ExecutorInv, StepOK, WorkerOK, WatchdogOK, Busy

\* A crash leaves the executors of an instance at no step.
LEMMA CrashShape == ASSUME NEW i \in Instances, Shape, Crash(i) PROVE Shape'
<1>1. /\ up' = [up EXCEPT ![i] = FALSE]
      /\ pc' = [e \in Executors |-> IF e \in Hosted(i) THEN "dead" ELSE pc[e]]
      /\ local' = [e \in Executors |-> IF e \in Hosted(i) THEN Blank ELSE local[e]]
      /\ job' = [job EXCEPT ![i] = NoJob]
      /\ todo' = [todo EXCEPT ![i] = {}]
      /\ UNCHANGED <<status, heartbeat, table, booking, calls, late, told, host,
                     rebuild, mishap>>
  BY DEF Crash, dbVars, oaVars
<1>2. i \in Hosted(i) /\ i \notin Processes
  BY ExecutorsDisjoint DEF Hosted
<1>3. faults' \in Nat
  BY DEF Crash, Fault, Shape, TypeOK
<1>4. local' \in [Executors -> Locals]
  BY <1>1, LocalsTyped DEF Shape, TypeOK
<1>5. pc' \in [Executors -> Pcs]
  BY <1>1 DEF Shape, TypeOK, Pcs
<1>6. /\ up' \in [Instances -> BOOLEAN]
      /\ job' \in [Executors -> Processes \cup {NoJob}]
      /\ todo' \in [Instances -> SUBSET Processes]
  BY <1>1 DEF Shape, TypeOK
<1>7. \A f \in Executors : \/ pc'[f] = "dead"
                           \/ pc'[f] = pc[f] /\ local'[f] = local[f]
  <2> TAKE f \in Executors
  <2>1. CASE f \in Hosted(i)
    BY <1>1, <2>1
  <2>2. CASE f \notin Hosted(i)
    BY <1>1, <2>2
  <2>. QED  BY <2>1, <2>2
<1>8. \A f \in Executors : f # i => job'[f] = job[f]
  BY <1>1 DEF Shape, TypeOK
<1>9. \A f \in Executors : StepOK(f)'
  BY <1>7 DEF Shape, ExecutorInv, StepOK, StepPcs
<1>10. \A p \in Processes : WorkerOK(p)'
  BY <1>2, <1>7, <1>8 DEF Shape, ExecutorInv, WorkerOK, Executors
<1>11. \A w \in Instances : WatchdogOK(w)'
  <2> TAKE w \in Instances
  <2>1. CASE w = i
    <3>1. pc'[w] = "dead"
      BY <1>1, <1>2, <2>1 DEF Executors
    <3>. QED  BY <3>1 DEF WatchdogOK, Busy, BusyPcs, StepPcs
  <2>2. CASE w # i
    <3>1. w \in Executors
      BY DEF Executors
    <3>. QED
      BY <1>7, <1>8, <2>2, <3>1
      DEF Shape, ExecutorInv, WatchdogOK, Busy, BusyPcs, StepPcs
  <2>. QED  BY <2>1, <2>2
<1>. QED
  BY <1>1, <1>3, <1>4, <1>5, <1>6, <1>9, <1>10, <1>11 DEF Shape, TypeOK, ExecutorInv

\* A restarted instance has a sleeping watchdog.
LEMMA RestartShape == ASSUME NEW i \in Instances, Shape, Restart(i) PROVE Shape'
<1>1. /\ pc' = [pc EXCEPT ![i] = "sleep"] /\ local' = local /\ job' = job
      /\ up' = [up EXCEPT ![i] = TRUE]
      /\ UNCHANGED <<status, heartbeat, table, booking, calls, late, told, host,
                     rebuild, mishap, todo,
                     faults>>
  BY DEF Restart, Goto, dbVars, oaVars, NoFault
<1>2. "sleep" \in {"sleep", "scan", "dead"}
  OBVIOUS
<1>3. /\ local' \in [Executors -> Locals] /\ pc' \in [Executors -> Pcs]
      /\ job' \in [Executors -> Processes \cup {NoJob}] /\ ExecutorInv'
  BY <1>1, <1>2, RestShape
<1>. QED  BY <1>1, <1>3 DEF Shape, TypeOK

\* Every step, and every stutter, keeps the types and the executors' shape.
LEMMA NextShape == ASSUME Shape, [Next]_vars PROVE Shape'
<1>1. CASE UNCHANGED vars
  BY <1>1 DEF vars, dbVars, oaVars, envVars, executorVars, Shape, TypeOK,
              ExecutorInv, StepOK, WorkerOK, WatchdogOK, Busy
<1>2. ASSUME NEW p \in Processes, Admit(p) \/ DriveRaises(p) \/ FinalizeLost(p)
      PROVE  Shape'
  BY <1>2, AdmitShape, DriveRaisesShape, FinalizeLostShape
<1>3. ASSUME NEW e \in Executors, ExecutorStep(e)
      PROVE  Shape'
  BY <1>3, BeginStepShape, CallOAShape, EndStepShape, ReadStatusShape,
     WriteStatusShape DEF ExecutorStep
<1>4. ASSUME NEW w \in Instances,
             WatchdogStep(w) \/ RoundAborts(w) \/ WatchdogRaises(w)
      PROVE  Shape'
  BY <1>4, DetectShape, ClaimShape, SkipShape, ReplayShape, RoundEndsShape
  DEF WatchdogStep
<1>5. ASSUME NEW p \in Processes, Expire(p) \/ LateArrives(p)
      PROVE  Shape'
  BY <1>5, ExpireShape, LateArrivesShape
<1>6. ASSUME NEW i \in Instances, Crash(i) \/ Restart(i)
      PROVE  Shape'
  BY <1>6, CrashShape, RestartShape
<1>. QED  BY <1>1, <1>2, <1>3, <1>4, <1>5, <1>6 DEF Next

\* Shape is an invariant.
LEMMA ShapeHolds == Spec => []Shape
<1>. QED  BY InitShape, NextShape, PTL DEF Spec

\* Type correctness of the engine, the watchdog and the tables: in every
\* behaviour the variables of ProcessLifecycle stay in their ranges; no
\* executor ever records a step number beyond the compensation of the last step.
THEOREM TypeCorrect == Spec => []TypeOK
<1>1. Shape => TypeOK
  BY DEF Shape
<1>. QED  BY <1>1, ShapeHolds, PTL

-----------------------------------------------------------------------------
(***************************************************************************)
(* No forward call is made twice.                                          *)
(***************************************************************************)
History == UntouchedInv /\ HistoryInv /\ NeverRerun

\* A step that sends nothing, starts no worker, and moves a worker, if at all,
\* to a later step or within the step it is at.
Calm ==
    /\ calls' = calls
    /\ \A p \in Processes : status'[p] = "none" => status[p] = "none"
    /\ \A e \in Executors : Busy(e)' =>
           \/ Busy(e) /\ job'[e] = job[e]
           \/ status'[job'[e]] # "none"
    /\ \A p \in Processes : pc'[p] \in StepPcs /\ local'[p].act \in Forward =>
           /\ pc[p] \in StepPcs /\ local[p].act \in Forward
           /\ \/ Position(local[p].act) < Position(local'[p].act)
              \/ /\ local'[p].act = local[p].act
                 /\ pc'[p] \in {"begin", "call"} => pc[p] \in {"begin", "call"}

\* A calm step keeps the history in order.
LEMMA CalmHistory == ASSUME Shape, Shape', History, Calm PROVE History'
<1>1. NeverRerun'
  BY DEF History, Calm, NeverRerun
<1>2. UntouchedInv'
  BY DEF History, Calm, UntouchedInv
<1>3. HistoryInv'
  <2> SUFFICES ASSUME NEW p \in Processes, NEW a \in Forward,
                      pc'[p] \in StepPcs, local'[p].act \in Forward, Sent(p, a)'
               PROVE  /\ Position(a) <= Position(local'[p].act)
                      /\ pc'[p] \in {"begin", "call"} =>
                             Position(a) < Position(local'[p].act)
    BY DEF HistoryInv, StepPcs
  <2>1. Sent(p, a)
    BY DEF Sent, Calm
  <2>2. /\ pc[p] \in StepPcs /\ local[p].act \in Forward
        /\ \/ Position(local[p].act) < Position(local'[p].act)
           \/ /\ local'[p].act = local[p].act
              /\ pc'[p] \in {"begin", "call"} => pc[p] \in {"begin", "call"}
    BY DEF Calm
  <2>3. /\ Position(a) <= Position(local[p].act)
        /\ pc[p] \in {"begin", "call"} => Position(a) < Position(local[p].act)
    BY <2>1, <2>2 DEF History, HistoryInv
  <2>4. /\ Position(a) \in 1 .. 3 /\ Position(local[p].act) \in 1 .. 3
        /\ Position(local'[p].act) \in 1 .. 3
    BY <2>2, PlanFacts
  <2>. QED  BY <2>2, <2>3, <2>4
<1>. QED  BY <1>1, <1>2, <1>3 DEF History

\* The submission is the first call of its process.
LEMMA AdmitHistory ==
    ASSUME NEW p \in Processes, Shape, Shape', History, Admit(p)
    PROVE  History'
<1>1. calls' = calls /\ job' = job
  BY DEF Admit, oaVars
<1>2. NeverRerun'
  BY <1>1 DEF History, NeverRerun
<1>3. /\ status'[p] = "running" /\ pc'[p] = "begin"
      /\ \A q \in Processes : q # p =>
             status'[q] = status[q] /\ pc'[q] = pc[q] /\ local'[q] = local[q]
      /\ \A e \in Executors : e # p => pc'[e] = pc[e]
  BY DEF Admit, Goto, Shape, TypeOK, Executors
<1>4. calls[p] = <<>>
  BY DEF Admit, History, UntouchedInv
<1>5. UntouchedInv'
  <2> SUFFICES ASSUME NEW q \in Processes, status'[q] = "none"
               PROVE  calls'[q] = <<>> /\ \A e \in Executors : Busy(e)' => job'[e] # q
    BY DEF UntouchedInv
  <2>1. q # p /\ status[q] = "none"
    BY <1>3
  <2>2. job[p] = p
    BY DEF Shape, ExecutorInv, WorkerOK
  <2>. QED  BY <1>1, <1>3, <2>1, <2>2 DEF History, UntouchedInv, Busy
<1>6. HistoryInv'
  <2>1. \A a \in Forward : ~Sent(p, a)'
    BY <1>1, <1>4 DEF Sent
  <2>2. \A q \in Processes, a \in Forward : Sent(q, a)' <=> Sent(q, a)
    BY <1>1 DEF Sent
  <2>. QED  BY <1>3, <2>1, <2>2 DEF History, HistoryInv
<1>. QED  BY <1>2, <1>5, <1>6 DEF History

\* A call extends the history by one entry: a cancel, or the forward step of a
\* worker, which lies behind everything the worker has sent.
LEMMA CallOAHistory ==
    ASSUME NEW e \in Executors, Shape, Shape', History, CallOA(e)
    PROVE  History'
<1> DEFINE p == job[e]
           a == local[e].act
<1>1. /\ pc[e] = "call" /\ Busy(e)
      /\ calls' = [calls EXCEPT ![p] = Append(@, a)]
      /\ pc' = [pc EXCEPT ![e] = "good"] \/ pc' = [pc EXCEPT ![e] = "bad"]
      /\ UNCHANGED <<status, job, local>>
  BY DEF CallOA, Goto, Busy, BusyPcs, StepPcs, dbVars
<1>2. p \in Processes /\ a \in Actions
  BY <1>1, JobTyped DEF Shape, TypeOK, Locals
<1>3. calls \in [Processes -> Seq(Actions)]
  BY DEF Shape, TypeOK
<1>4. /\ calls'[p] = Append(calls[p], a)
      /\ \A q \in Processes : q # p => calls'[q] = calls[q]
  BY <1>1, <1>2, <1>3
<1>5. /\ pc'[e] \in {"good", "bad"}
      /\ \A f \in Executors : f # e => pc'[f] = pc[f]
  BY <1>1 DEF Shape, TypeOK
<1>6. a \in Forward => e \in Processes /\ p = e
  BY <1>1 DEF Shape, ExecutorInv, WorkerOK, WatchdogOK, Executors, StepPcs, Forward
<1>7. /\ DOMAIN calls'[p] = 1 .. (Len(calls[p]) + 1)
      /\ DOMAIN calls[p] = 1 .. Len(calls[p])
      /\ Len(calls[p]) \in Nat
      /\ calls'[p][Len(calls[p]) + 1] = a
      /\ \A i \in 1 .. Len(calls[p]) : calls'[p][i] = calls[p][i]
  <2>1. calls[p] \in Seq(Actions)
    BY <1>2, <1>3
  <2>. QED  BY <1>2, <1>4, <2>1
<1>8. a \in Forward => ~Sent(p, a)
  <2> SUFFICES ASSUME a \in Forward, Sent(p, a) PROVE FALSE
    OBVIOUS
  <2>1. Position(a) < Position(a)
    BY <1>1, <1>2, <1>6 DEF History, HistoryInv
  <2>. QED  BY <2>1, PlanFacts
<1>9. \A q \in Processes, b \in Forward :
          Sent(q, b)' => Sent(q, b) \/ (q = p /\ b = a)
  <2> TAKE q \in Processes, b \in Forward
  <2> HAVE Sent(q, b)'
  <2>1. CASE q # p
    BY <1>4, <2>1 DEF Sent
  <2>2. CASE q = p
    <3>1. PICK i \in 1 .. (Len(calls[p]) + 1) : calls'[p][i] = b
      BY <1>7, <2>2 DEF Sent
    <3>2. CASE i = Len(calls[p]) + 1
      BY <1>7, <2>2, <3>1, <3>2
    <3>3. CASE i # Len(calls[p]) + 1
      <4>1. i \in 1 .. Len(calls[p])
        BY <1>7, <3>3
      <4>. QED  BY <1>7, <2>2, <3>1, <4>1 DEF Sent
    <3>. QED  BY <3>2, <3>3
  <2>. QED  BY <2>1, <2>2
<1>10. NeverRerun'
  <2> SUFFICES ASSUME NEW q \in Processes,
                      NEW i \in DOMAIN calls'[q], NEW j \in DOMAIN calls'[q],
                      i # j, calls'[q][i] = calls'[q][j]
               PROVE  calls'[q][i] = "cancel"
    BY DEF NeverRerun
  <2>1. CASE q # p
    BY <1>4, <2>1 DEF History, NeverRerun
  <2>2. CASE q = p /\ i # Len(calls[p]) + 1 /\ j # Len(calls[p]) + 1
    <3>1. i \in 1 .. Len(calls[p]) /\ j \in 1 .. Len(calls[p])
      BY <1>7, <2>2
    <3>2. calls'[q][i] = calls[p][i] /\ calls'[q][j] = calls[p][j]
      BY <1>7, <2>2, <3>1
    <3>. QED  BY <1>2, <1>7, <3>1, <3>2 DEF History, NeverRerun
  <2>3. ASSUME q = p, NEW k \in {i, j}, NEW m \in {i, j}, k # m,
               m = Len(calls[p]) + 1
        PROVE  calls'[q][i] = "cancel"
    <3>1. k \in 1 .. Len(calls[p])
      BY <1>7, <2>3
    <3>2. calls'[q][i] = a /\ calls[p][k] = a
      BY <1>7, <2>3, <3>1
    <3>3. Sent(p, a)
      BY <1>7, <3>1, <3>2 DEF Sent
    <3>. QED  BY <1>2, <1>8, <3>2, <3>3 DEF Actions
  <2>4. q = p => \/ i # Len(calls[p]) + 1 /\ j # Len(calls[p]) + 1
                 \/ \E k, m \in {i, j} : k # m /\ m = Len(calls[p]) + 1
    OBVIOUS
  <2>. QED  BY <2>1, <2>2, <2>3, <2>4
<1>11. UntouchedInv'
  <2> SUFFICES ASSUME NEW q \in Processes, status'[q] = "none"
               PROVE  calls'[q] = <<>> /\ \A f \in Executors : Busy(f)' => job'[f] # q
    BY DEF UntouchedInv
  <2>1. \A f \in Executors : Busy(f)' => Busy(f)
    BY <1>1, <1>5 DEF Busy
  <2>2. q # p
    BY <1>1 DEF History, UntouchedInv
  <2>. QED  BY <1>1, <1>4, <2>1, <2>2 DEF History, UntouchedInv
<1>12. HistoryInv'
  <2> SUFFICES ASSUME NEW q \in Processes, NEW b \in Forward,
                      pc'[q] \in StepPcs, local'[q].act \in Forward, Sent(q, b)'
               PROVE  /\ Position(b) <= Position(local'[q].act)
                      /\ pc'[q] \in {"begin", "call"} =>
                             Position(b) < Position(local'[q].act)
    BY DEF HistoryInv, StepPcs
  <2>1. q \in Executors /\ local'[q].act = local[q].act
    BY <1>1 DEF Executors
  <2>2. CASE q = e
    <3>1. p = q /\ pc[q] = "call" /\ local[q].act = a /\ a \in Forward
      BY <1>1, <1>6, <2>1, <2>2
    <3>2. Sent(q, b) => Position(b) < Position(a)
      BY <3>1 DEF History, HistoryInv
    <3>3. Position(b) <= Position(a)
      BY <1>9, <3>1, <3>2, PlanFacts
    <3>. QED  BY <1>5, <2>1, <2>2, <3>1, <3>3
  <2>3. CASE q # e
    <3>1. pc'[q] = pc[q]
      BY <1>5, <2>1, <2>3
    <3>2. Sent(q, b)
      <4>1. q = p => b # a
        BY <1>6, <2>3
      <4>. QED  BY <1>9, <4>1
    <3>. QED  BY <2>1, <3>1, <3>2 DEF History, HistoryInv
  <2>. QED  BY <2>2, <2>3
<1>. QED  BY <1>10, <1>11, <1>12 DEF History

\* A step of one executor is calm if it keeps to its row and does not send a
\* worker back.
LEMMA MoveCalm ==
    ASSUME NEW e \in Executors,
           calls' = calls,
           \A p \in Processes : status'[p] = "none" => status[p] = "none",
           \A f \in Executors : f # e =>
               pc'[f] = pc[f] /\ local'[f] = local[f] /\ job'[f] = job[f],
           Busy(e)' => \/ Busy(e) /\ job'[e] = job[e]
                       \/ status'[job'[e]] # "none",
           e \in Processes /\ pc'[e] \in StepPcs /\ local'[e].act \in Forward =>
               /\ pc[e] \in StepPcs /\ local[e].act \in Forward
               /\ \/ Position(local[e].act) < Position(local'[e].act)
                  \/ /\ local'[e].act = local[e].act
                     /\ pc'[e] \in {"begin", "call"} => pc[e] \in {"begin", "call"}
    PROVE  Calm
<1>1. \A f \in Executors : Busy(f)' =>
          \/ Busy(f) /\ job'[f] = job[f]
          \/ status'[job'[f]] # "none"
  BY DEF Busy
<1>2. \A p \in Processes : p \in Executors
  BY DEF Executors
<1>. QED  BY <1>1, <1>2 DEF Calm

\* Heartbeat and create_step are calm.
LEMMA BeginStepCalm ==
    ASSUME NEW e \in Executors, Shape, BeginStep(e) PROVE Calm
<1>1. /\ UNCHANGED <<calls, status, job>>
      /\ pc[e] = "begin" /\ pc' = [pc EXCEPT ![e] = "call"]
      /\ \E row \in BOOLEAN : local' = [local EXCEPT ![e].traced = row]
  BY DEF BeginStep, CreateStep, Goto, oaVars
<1>2. local'[e].act = local[e].act
  BY <1>1 DEF Shape, TypeOK, Locals
<1>3. pc'[e] = "call"
  BY <1>1 DEF Shape, TypeOK
<1>4. \A f \in Executors : f # e => pc'[f] = pc[f] /\ local'[f] = local[f]
  BY <1>1 DEF Shape, TypeOK
<1>. QED  BY <1>1, <1>2, <1>3, <1>4, MoveCalm DEF Busy, BusyPcs, StepPcs

\* The end of the generator is calm.
LEMMA ConcludeCalm ==
    ASSUME NEW e \in Executors, NEW v \in Terminal, Shape, Busy(e), Conclude(e, v),
           UNCHANGED <<calls, status, job>>
    PROVE  Calm
<1>1. pc' = [pc EXCEPT ![e] = "read"] /\ local' = [local EXCEPT ![e] = Ending(v)]
  BY DEF Conclude, Goto
<1>2. pc'[e] = "read"
  BY <1>1 DEF Shape, TypeOK
<1>3. \A f \in Executors : f # e => pc'[f] = pc[f] /\ local'[f] = local[f]
  BY <1>1 DEF Shape, TypeOK
<1>. QED  BY <1>2, <1>3, MoveCalm DEF StepPcs

\* Recording a step is calm: the worker moves on in the plan, or leaves it.
LEMMA EndStepCalm == ASSUME NEW e \in Executors, Shape, EndStep(e) PROVE Calm
<1>1. /\ UNCHANGED <<calls, status, job>> /\ Busy(e) /\ pc[e] \in StepPcs
      /\ Advance(e) \/ Compensate(e) \/ EndPlan(e)
  BY DEF EndStep, oaVars, Busy, BusyPcs, StepPcs
<1>2. StepOK(e) /\ local[e].act \in Actions /\ local[e].no \in 1 .. MaxStepNo
  BY <1>1, PlanFacts DEF Shape, ExecutorInv, StepOK, TypeOK, Locals
<1>3. ASSUME NEW v \in Terminal, Conclude(e, v) PROVE Calm
  BY <1>1, <1>3, ConcludeCalm
<1>4. ASSUME NEW l \in Locals,
             local' = [local EXCEPT ![e] = l], pc' = [pc EXCEPT ![e] = "begin"],
             l.act \in Forward =>
                 /\ local[e].act \in Forward
                 /\ Position(local[e].act) < Position(l.act)
      PROVE  Calm
  <2>1. pc'[e] = "begin" /\ local'[e] = l
    BY <1>4 DEF Shape, TypeOK
  <2>2. \A f \in Executors : f # e => pc'[f] = pc[f] /\ local'[f] = local[f]
    BY <1>4 DEF Shape, TypeOK
  <2>. QED  BY <1>1, <1>4, <2>1, <2>2, MoveCalm
<1>5. ASSUME Advance(e) PROVE Calm
  <2> DEFINE a == local[e].act
             l == At(Plan[Position(a) + 1], local[e].no + 1, TRUE)
  <2>1. a \in {"submit", "approve"} /\ a \in Forward /\ a # "cancel"
    BY <1>5 DEF Advance, Forward
  <2>2. local[e].no = Position(a)
    BY <1>1, <1>2, <2>1 DEF StepOK
  <2>3. /\ Plan[Position(a) + 1] \in Forward
        /\ Position(Plan[Position(a) + 1]) = Position(a) + 1
    BY <2>1, NextInPlan
  <2>4. local[e].no + 1 \in 0 .. MaxStepNo
    BY <2>2, <2>3, PlanFacts
  <2>5. l \in Locals /\ l.act = Plan[Position(a) + 1]
    BY <2>3, <2>4, LocalsTyped DEF Actions
  <2>6. local' = [local EXCEPT ![e] = l] /\ pc' = [pc EXCEPT ![e] = "begin"]
    BY <1>5 DEF Advance, Goto
  <2>. HIDE DEF l
  <2>7. Position(a) < Position(l.act)
    <3>1. Position(l.act) = Position(a) + 1
      BY <2>3, <2>5
    <3>2. Position(a) \in 1 .. 3
      BY <2>1, PlanFacts
    <3>. QED  BY <3>1, <3>2
  <2>. QED  BY <1>4, <2>1, <2>5, <2>6, <2>7
<1>6. ASSUME Compensate(e) PROVE Calm
  <2> DEFINE l == At("cancel", local[e].no + 1, TRUE)
  <2>1. CASE local[e].known
    <3>1. local[e].act \in Forward /\ local[e].act # "cancel"
      BY <1>6 DEF Compensate, Forward
    <3>2. local[e].no \in 1 .. 3
      BY <1>1, <1>2, <3>1, PlanFacts DEF StepOK
    <3>3. "cancel" \in Actions /\ local[e].no + 1 \in 0 .. MaxStepNo
      BY <3>2, PlanFacts DEF Actions
    <3>4. l \in Locals /\ l.act = "cancel" /\ l.act \notin Forward
      BY <3>3, LocalsTyped DEF Forward
    <3>5. local' = [local EXCEPT ![e] = l] /\ pc' = [pc EXCEPT ![e] = "begin"]
      BY <1>6, <2>1 DEF Compensate, Goto
    <3>. HIDE DEF l
    <3>. QED  BY <1>4, <3>4, <3>5
  <2>2. CASE ~local[e].known
    BY <1>3, <1>6, <2>2 DEF Compensate, Terminal
  <2>. QED  BY <2>1, <2>2
<1>7. ASSUME EndPlan(e) PROVE Calm
  BY <1>3, <1>7 DEF EndPlan, Terminal
<1>. QED  BY <1>1, <1>5, <1>6, <1>7

\* An executor that leaves its row, or only goes from reading to writing.
LEMMA LeaveCalm ==
    ASSUME NEW e \in Executors, Shape, Leave(e), calls' = calls,
           \A p \in Processes : status'[p] = "none" => status[p] = "none"
    PROVE  Calm
<1>1. PICK label \in {"done", "sleep", "scan"} : pc' = [pc EXCEPT ![e] = label]
  BY DEF Leave, Goto
<1>2. /\ local' = [local EXCEPT ![e] = Blank]
      /\ job' = job \/ job' = [job EXCEPT ![e] = NoJob]
  BY DEF Leave
<1>3. pc'[e] = label
  BY <1>1 DEF Shape, TypeOK
<1>4. \A f \in Executors : f # e =>
          pc'[f] = pc[f] /\ local'[f] = local[f] /\ job'[f] = job[f]
  BY <1>1, <1>2 DEF Shape, TypeOK
<1>. QED  BY <1>3, <1>4, MoveCalm DEF Busy, BusyPcs, StepPcs

\* The status transition is calm.
LEMMA StatusStepsCalm ==
    ASSUME NEW e \in Executors, Shape,
           \/ ReadStatus(e) \/ WriteStatus(e)
           \/ e \in Processes /\ (DriveRaises(e) \/ FinalizeLost(e))
    PROVE  Calm
<1>1. CASE ReadStatus(e)
  <2>1. /\ UNCHANGED <<calls, status>> /\ Busy(e)
        /\ \/ pc' = [pc EXCEPT ![e] = "write"] /\ UNCHANGED <<job, local>>
           \/ Leave(e)
    BY <1>1 DEF ReadStatus, Goto, Busy, BusyPcs, dbVars, oaVars
  <2>2. ASSUME pc' = [pc EXCEPT ![e] = "write"], UNCHANGED <<job, local>>
        PROVE  Calm
    <3>1. pc'[e] = "write" /\ \A f \in Executors : f # e => pc'[f] = pc[f]
      BY <2>2 DEF Shape, TypeOK
    <3>. QED  BY <2>1, <2>2, <3>1, MoveCalm DEF StepPcs
  <2>. QED  BY <2>1, <2>2, LeaveCalm
<1>2. CASE WriteStatus(e)
  <2>1. Leave(e) /\ calls' = calls /\ Busy(e)
        /\ status' = [status EXCEPT ![job[e]] = local[e].verdict]
    BY <1>2 DEF WriteStatus, oaVars, Busy, BusyPcs
  <2>2. local[e].verdict # "none" /\ job[e] \in Processes
    BY <2>1, JobTyped DEF Shape, TypeOK, Locals, Terminal
  <2>3. \A p \in Processes : status'[p] = "none" => status[p] = "none"
    BY <2>1, <2>2 DEF Shape, TypeOK
  <2>. QED  BY <2>1, <2>3, LeaveCalm
<1>3. CASE e \in Processes /\ DriveRaises(e)
  <2>1. Conclude(e, "failed") /\ Busy(e) /\ UNCHANGED <<calls, status, job>>
    BY <1>3 DEF DriveRaises, Busy, BusyPcs, StepPcs, dbVars, oaVars
  <2>. QED  BY <2>1, ConcludeCalm DEF Terminal
<1>4. CASE e \in Processes /\ FinalizeLost(e)
  <2>1. Leave(e) /\ UNCHANGED <<calls, status>>
    BY <1>4 DEF FinalizeLost, dbVars, oaVars
  <2>. QED  BY <2>1, LeaveCalm
<1>. QED  BY <1>1, <1>2, <1>3, <1>4

\* A watchdog step concerns a worker only through the row it claims, and that
\* row exists.
LEMMA WatchdogMoveCalm ==
    ASSUME NEW w \in Instances, Shape,
           UNCHANGED <<calls, status>>,
           NEW label, pc' = [pc EXCEPT ![w] = label],
           NEW l, local' = [local EXCEPT ![w] = l],
           NEW q, job' = [job EXCEPT ![w] = q],
           label \in BusyPcs => (Busy(w) /\ q = job[w]) \/ status[q] # "none"
    PROVE  Calm
<1>1. w \in Executors /\ w \notin Processes
  BY ExecutorsDisjoint DEF Executors
<1>2. pc'[w] = label /\ job'[w] = q
  BY <1>1 DEF Shape, TypeOK
<1>3. \A f \in Executors : f # w =>
          pc'[f] = pc[f] /\ local'[f] = local[f] /\ job'[f] = job[f]
  BY DEF Shape, TypeOK
<1>4. Busy(w)' => \/ Busy(w) /\ job'[w] = job[w]
                  \/ status'[job'[w]] # "none"
  BY <1>2 DEF Busy
<1>. QED  BY <1>1, <1>3, <1>4, MoveCalm

\* What the watchdog does outside a step is calm.
LEMMA WatchdogCalm ==
    ASSUME NEW w \in Instances, Shape,
           WatchdogStep(w) \/ RoundAborts(w) \/ WatchdogRaises(w) \/ Restart(w)
    PROVE  Calm
<1>1. local = [local EXCEPT ![w] = local[w]] /\ job = [job EXCEPT ![w] = job[w]]
  BY DEF Shape, TypeOK
<1>2. CASE Detect(w) \/ Skip(w) \/ Restart(w)
  <2>1. UNCHANGED <<calls, status, local, job>>
    BY <1>2 DEF Detect, Skip, Restart, dbVars, oaVars
  <2>2. PICK label \in {"sleep", "scan"} : pc' = [pc EXCEPT ![w] = label]
    BY <1>2 DEF Detect, Skip, Restart, Goto
  <2>3. label \notin BusyPcs
    BY DEF BusyPcs, StepPcs
  <2>. QED  BY <1>1, <2>1, <2>2, <2>3, WatchdogMoveCalm
<1>3. CASE Claim(w)
  <2>1. /\ UNCHANGED <<calls, status, local>>
        /\ pc' = [pc EXCEPT ![w] = "replay"]
        /\ \E p \in todo[w] : Stuck(p) /\ job' = [job EXCEPT ![w] = p]
    BY <1>3 DEF Claim, Goto, oaVars
  <2>. QED  BY <1>1, <2>1, WatchdogMoveCalm DEF Stuck
<1>4. CASE ReplayUnregistered(w) \/ Replay(w)
  <2>1. UNCHANGED <<calls, status, job>> /\ Busy(w)
    BY <1>4 DEF ReplayUnregistered, Replay, dbVars, oaVars, Busy, BusyPcs
  <2>2. /\ \E label : pc' = [pc EXCEPT ![w] = label]
        /\ \E l : local' = [local EXCEPT ![w] = l]
    BY <1>4 DEF ReplayUnregistered, Replay, Goto
  <2>. QED  BY <1>1, <2>1, <2>2, WatchdogMoveCalm
<1>5. CASE ReplayUnparsable(w) \/ RoundAborts(w) \/ WatchdogRaises(w)
  <2>1. /\ UNCHANGED <<calls, status>>
        /\ local' = [local EXCEPT ![w] = Blank]
        /\ job' = [job EXCEPT ![w] = NoJob]
    BY <1>5 DEF ReplayUnparsable, RoundAborts, WatchdogRaises, WatchdogDies, dbVars, oaVars
  <2>2. PICK label \in {"sleep", "dead"} : pc' = [pc EXCEPT ![w] = label]
    BY <1>5 DEF ReplayUnparsable, RoundAborts, WatchdogRaises, WatchdogDies, Goto
  <2>3. label \notin BusyPcs
    BY DEF BusyPcs, StepPcs
  <2>. QED  BY <2>1, <2>2, <2>3, WatchdogMoveCalm
<1>. QED  BY <1>2, <1>3, <1>4, <1>5 DEF WatchdogStep

\* The environment sends no calls.
LEMMA EnvironmentCalm ==
    ASSUME Shape,
           \/ \E p \in Processes : Expire(p) \/ LateArrives(p)
           \/ \E i \in Instances : Crash(i)
           \/ UNCHANGED vars
    PROVE  Calm
<1>1. CASE \/ \E p \in Processes : Expire(p) \/ LateArrives(p)
           \/ UNCHANGED vars
  <2>1. UNCHANGED <<calls, status, pc, job, local>>
    BY <1>1 DEF Expire, LateArrives, vars, dbVars, oaVars, executorVars
  <2>. QED  BY <2>1 DEF Calm, Busy
<1>2. ASSUME NEW i \in Instances, Crash(i) PROVE Calm
  <2>1. /\ UNCHANGED <<calls, status>>
        /\ pc' = [e \in Executors |-> IF e \in Hosted(i) THEN "dead" ELSE pc[e]]
        /\ local' = [e \in Executors |-> IF e \in Hosted(i) THEN Blank ELSE local[e]]
        /\ job' = [job EXCEPT ![i] = NoJob]
    BY <1>2 DEF Crash, dbVars, oaVars
  <2>2. \A e \in Executors : \/ pc'[e] = "dead"
                            \/ /\ pc'[e] = pc[e] /\ local'[e] = local[e]
                               /\ job'[e] = job[e]
    <3> TAKE e \in Executors
    <3>1. CASE e \in Hosted(i)
      BY <2>1, <3>1
    <3>2. CASE e \notin Hosted(i)
      <4>1. e # i
        BY <3>2 DEF Hosted
      <4>. QED  BY <2>1, <3>2, <4>1 DEF Shape, TypeOK
    <3>. QED  BY <3>1, <3>2
  <2>3. "dead" \notin BusyPcs /\ "dead" \notin StepPcs
    BY DEF BusyPcs, StepPcs
  <2>4. \A p \in Processes : p \in Executors
    BY DEF Executors
  <2>. QED  BY <2>1, <2>2, <2>3, <2>4 DEF Calm, Busy
<1>. QED  BY <1>1, <1>2

\* Every step keeps the history in order.
LEMMA NextHistory == ASSUME Shape, History, [Next]_vars PROVE History'
<1>1. Shape'
  BY NextShape
<1>2. ASSUME Calm PROVE History'
  BY <1>1, <1>2, CalmHistory
<1>3. ASSUME NEW p \in Processes, Admit(p) \/ DriveRaises(p) \/ FinalizeLost(p)
      PROVE  History'
  <2>1. p \in Executors
    BY DEF Executors
  <2>. QED  BY <1>1, <1>2, <1>3, <2>1, AdmitHistory, StatusStepsCalm
<1>4. ASSUME NEW e \in Executors, ExecutorStep(e) PROVE History'
  BY <1>1, <1>2, <1>4, CallOAHistory, BeginStepCalm, EndStepCalm, StatusStepsCalm
  DEF ExecutorStep
<1>5. ASSUME NEW w \in Instances,
             WatchdogStep(w) \/ RoundAborts(w) \/ WatchdogRaises(w) \/ Restart(w)
      PROVE  History'
  BY <1>2, <1>5, WatchdogCalm
<1>6. CASE \/ \E p \in Processes : Expire(p) \/ LateArrives(p)
           \/ \E i \in Instances : Crash(i)
           \/ UNCHANGED vars
  BY <1>2, <1>6, EnvironmentCalm
<1>. QED  BY <1>3, <1>4, <1>5, <1>6 DEF Next

\* Nothing has been sent at the beginning.
LEMMA InitHistory == Init => History
<1> SUFFICES ASSUME Init PROVE History
  OBVIOUS
<1>1. \A p \in Processes : calls[p] = <<>> /\ pc[p] = "idle"
  BY DEF Init, Executors
<1>2. \A e \in Executors : ~Busy(e)
  BY DEF Init, Busy, BusyPcs, StepPcs
<1>. QED
  BY <1>1, <1>2 DEF History, UntouchedInv, HistoryInv, NeverRerun, StepPcs

\* Whatever fails, crashes, overlaps or comes late, and however many processes,
\* instances and watchdogs there are, no forward call of a process is sent to
\* OA twice: drive never repeats a step and replay_steps never calls again.
THEOREM NoRerun == Spec => []NeverRerun
<1>1. Init => Shape /\ History
  BY InitShape, InitHistory
<1>2. Shape /\ History /\ [Next]_vars => (Shape /\ History)'
  BY NextShape, NextHistory
<1>3. Shape /\ History => NeverRerun
  BY DEF History
<1>. QED  BY <1>1, <1>2, <1>3, PTL DEF Spec
=============================================================================
