----------------------- MODULE ProcessExclusionProofs -----------------------
(***************************************************************************)
(* One executor per row.  As long as the heartbeat of a row does not       *)
(* expire beside an executor at work, who works on it keeps it running,    *)
(* and a watchdog claims only a row that is running and expired: so the    *)
(* row has one executor at a time, its UPDATE after a SELECT finds what    *)
(* the SELECT saw, and what OA is sent for the row is a saga.              *)
(***************************************************************************)
EXTENDS ProcessLifecycleProofs

\* Who works on a row in time keeps it unexpired and running, and is alone.
Exclusive(p) ==
    \A e \in Executors : Busy(e) /\ job[e] = p =>
        /\ heartbeat[p] # "expired"
        /\ status[p] = "running"
        /\ \A f \in Executors : Busy(f) /\ job[f] = p => f = e

ExclusiveInv == \A p \in Processes : InTime(p) => Exclusive(p)

-----------------------------------------------------------------------------
(***************************************************************************)
(* Which executors a step moves, and what it leaves alone.                 *)
(***************************************************************************)

\* What an executor does, or is made to do, alone.
Solo(e) ==
    \/ ExecutorStep(e)
    \/ e \in Processes /\ (Admit(e) \/ DriveRaises(e) \/ FinalizeLost(e))
    \/ /\ e \in Instances
       /\ WatchdogStep(e) \/ RoundAborts(e) \/ WatchdogRaises(e) \/ Restart(e)

\* The other executors stay as they are.
OthersStay(e) ==
    \A f \in Executors : f # e =>
        pc'[f] = pc[f] /\ local'[f] = local[f] /\ job'[f] = job[f]

\* Every step is of one executor, or of the environment.
LEMMA NextIsSolo ==
    ASSUME [Next]_vars
    PROVE  \/ \E e \in Executors : Solo(e)
           \/ \E p \in Processes : Expire(p) \/ LateArrives(p)
           \/ \E i \in Instances : Crash(i)
           \/ UNCHANGED vars
BY DEF Next, Solo, Executors

\* A step of one executor leaves the others alone.
LEMMA SoloMovesOne ==
    ASSUME Shape, NEW e \in Executors, Solo(e) PROVE OthersStay(e)
<1> USE DEF Goto
<1>1. pc \in [Executors -> Pcs] /\ local \in [Executors -> Locals]
      /\ job \in [Executors -> Processes \cup {NoJob}]
  BY DEF Shape, TypeOK
<1>2. CASE ExecutorStep(e)
  <2>1. CASE BeginStep(e)
    BY <1>1, <2>1 DEF BeginStep, CreateStep, OthersStay
  <2>2. CASE CallOA(e)
    BY <1>1, <2>2 DEF CallOA, OthersStay
  <2>3. CASE EndStep(e)
    BY <1>1, <2>3 DEF EndStep, Advance, Compensate, EndPlan, Conclude, OthersStay
  <2>4. CASE ReadStatus(e)
    BY <1>1, <2>4 DEF ReadStatus, Leave, OthersStay
  <2>5. CASE WriteStatus(e)
    BY <1>1, <2>5 DEF WriteStatus, Leave, OthersStay
  <2>. QED  BY <1>2, <2>1, <2>2, <2>3, <2>4, <2>5 DEF ExecutorStep
<1>3. CASE e \in Processes /\ (Admit(e) \/ DriveRaises(e) \/ FinalizeLost(e))
  BY <1>1, <1>3 DEF Admit, DriveRaises, FinalizeLost, Conclude, Leave, OthersStay
<1>4. CASE e \in Instances /\ (Detect(e) \/ Claim(e) \/ Skip(e) \/ Restart(e))
  BY <1>1, <1>4 DEF Detect, Claim, Skip, Restart, OthersStay
<1>5. CASE e \in Instances /\ (ReplayUnregistered(e) \/ Replay(e))
  BY <1>1, <1>5 DEF ReplayUnregistered, Replay, OthersStay
<1>6. CASE e \in Instances
           /\ (ReplayUnparsable(e) \/ RoundAborts(e) \/ WatchdogRaises(e))
  BY <1>1, <1>6 DEF ReplayUnparsable, RoundAborts, WatchdogRaises, WatchdogDies,
                    OthersStay
<1>. QED  BY <1>2, <1>3, <1>4, <1>5, <1>6 DEF Solo, WatchdogStep

\* Mishaps are not forgotten.
LEMMA MishapsStay ==
    ASSUME Shape, [Next]_vars, NEW p \in Processes
    PROVE  mishap[p] \subseteq mishap'[p]
<1>1. mishap \in [Processes -> SUBSET {"overdue", "raised"}]
  BY DEF Shape, TypeOK
<1>2. ASSUME NEW q \in Processes, NEW kind,
             mishap' = [mishap EXCEPT ![q] = @ \cup {kind}]
      PROVE  mishap[p] \subseteq mishap'[p]
  BY <1>1, <1>2
<1>3. \/ mishap' = mishap
      \/ \E q \in Processes, kind \in {"overdue", "raised"} :
             mishap' = [mishap EXCEPT ![q] = @ \cup {kind}]
  BY DEF Next, ExecutorStep, WatchdogStep, Admit, BeginStep, CallOA, EndStep,
         DriveRaises, ReadStatus, WriteStatus, FinalizeLost, Detect, Claim, Skip,
         ReplayUnregistered, ReplayUnparsable, Replay, RoundAborts,
         WatchdogRaises, WatchdogDies, Expire, LateArrives, Crash, Restart,
         vars, envVars
<1>. QED  BY <1>2, <1>3

-----------------------------------------------------------------------------
(***************************************************************************)
(* A row has one executor.                                                 *)
(***************************************************************************)

\* Nobody starts to work on a row but by the INSERT and by the recovery lock.
LEMMA NoNewcomer ==
    ASSUME Shape, NEW e \in Executors, Solo(e), Busy(e)',
           e \in Processes => ~Admit(e), e \in Instances => ~Claim(e)
    PROVE  Busy(e) /\ job'[e] = job[e]
<1> USE DEF Goto, Busy, BusyPcs, StepPcs
<1>1. pc \in [Executors -> Pcs] /\ job \in [Executors -> Processes \cup {NoJob}]
  BY DEF Shape, TypeOK
<1>2. CASE ExecutorStep(e)
  <2>1. CASE BeginStep(e) \/ CallOA(e) \/ EndStep(e)
    BY <1>1, <2>1 DEF BeginStep, CallOA, EndStep
  <2>2. CASE ReadStatus(e) \/ WriteStatus(e)
    BY <1>1, <2>2 DEF ReadStatus, WriteStatus, Leave
  <2>. QED  BY <1>2, <2>1, <2>2 DEF ExecutorStep
<1>3. CASE e \in Processes /\ (DriveRaises(e) \/ FinalizeLost(e))
  BY <1>1, <1>3 DEF DriveRaises, FinalizeLost, Conclude, Leave
<1>4. CASE e \in Instances /\ (Detect(e) \/ Skip(e) \/ Restart(e))
  BY <1>1, <1>4 DEF Detect, Skip, Restart
<1>5. CASE e \in Instances /\ (ReplayUnregistered(e) \/ Replay(e))
  BY <1>1, <1>5 DEF ReplayUnregistered, Replay
<1>6. CASE e \in Instances
           /\ (ReplayUnparsable(e) \/ RoundAborts(e) \/ WatchdogRaises(e))
  BY <1>1, <1>6 DEF ReplayUnparsable, RoundAborts, WatchdogRaises, WatchdogDies
<1>. QED  BY <1>2, <1>3, <1>4, <1>5, <1>6 DEF Solo, WatchdogStep

\* An executor that leaves is not busy any more.
LEMMA LeaversRest ==
    ASSUME Shape, NEW e \in Executors, Leave(e) PROVE ~Busy(e)'
BY DEF Shape, TypeOK, Leave, Goto, Busy, BusyPcs, StepPcs

\* Only a clock makes a row old, and only an UPDATE by primary key or an
\* INSERT moves its status.
LEMMA RowKept ==
    ASSUME Shape, NEW e \in Executors, Solo(e), NEW p \in Processes
    PROVE  /\ heartbeat[p] # "expired" => heartbeat'[p] # "expired"
           /\ \/ status'[p] = status[p]
              \/ e = p /\ Admit(e)
              \/ WriteStatus(e) /\ job[e] = p /\ ~Busy(e)'
<1>1. status \in [Processes -> Statuses] /\ heartbeat \in [Processes -> Heartbeats]
  BY DEF Shape, TypeOK
<1>2. CASE BeginStep(e)
  BY <1>1, <1>2 DEF BeginStep, Heartbeat, Older, Heartbeats
<1>3. CASE Admit(e) \/ Claim(e)
  BY <1>1, <1>3 DEF Admit, Claim
<1>4. CASE WriteStatus(e)
  BY <1>1, <1>4, LeaversRest DEF WriteStatus
<1>5. CASE /\ ~BeginStep(e) /\ ~WriteStatus(e) /\ ~Admit(e) /\ ~Claim(e)
  <2>1. UNCHANGED <<heartbeat, status>>
    BY <1>5 DEF Solo, ExecutorStep, WatchdogStep, CallOA, EndStep, DriveRaises,
                ReadStatus, FinalizeLost, Detect, Skip, ReplayUnregistered,
                ReplayUnparsable, Replay, RoundAborts, WatchdogRaises,
                WatchdogDies, Restart, dbVars
  <2>. QED  BY <2>1
<1>. QED  BY <1>2, <1>3, <1>4, <1>5

\* A new worker finds nobody on its row: the row did not exist.
LEMMA AdmitExclusive ==
    ASSUME Shape, History, ExclusiveInv, NEW p \in Processes, Admit(p)
    PROVE  ExclusiveInv'
<1>1. p \in Executors /\ Solo(p)
  BY DEF Executors, Solo
<1>2. /\ status' = [status EXCEPT ![p] = "running"]
      /\ heartbeat' = [heartbeat EXCEPT ![p] = "new"]
      /\ job' = job /\ mishap' = mishap /\ status[p] = "none"
  BY DEF Admit, envVars
<1>3. job[p] = p
  BY DEF Shape, ExecutorInv, WorkerOK
<1>4. \A f \in Executors : f # p /\ Busy(f)' => Busy(f)
  BY <1>1, SoloMovesOne DEF OthersStay, Busy
<1>5. \A f \in Executors : Busy(f) => job[f] # p
  BY <1>2 DEF History, UntouchedInv
<1>6. ASSUME NEW q \in Processes, InTime(q)' PROVE Exclusive(q)'
  <2>1. InTime(q) /\ Exclusive(q)
    BY <1>2, <1>6 DEF InTime, ExclusiveInv
  <2>2. CASE q = p
    BY <1>2, <1>4, <1>5, <2>2 DEF Exclusive, Shape, TypeOK
  <2>3. CASE q # p
    <3>1. heartbeat'[q] = heartbeat[q] /\ status'[q] = status[q]
      BY <1>2, <2>3 DEF Shape, TypeOK
    <3>. QED  BY <1>2, <1>3, <1>4, <2>1, <2>3, <3>1 DEF Exclusive
  <2>. QED  BY <2>2, <2>3
<1>. QED  BY <1>6 DEF ExclusiveInv

\* A watchdog that wins the lock finds nobody on its row: the row was old.
LEMMA ClaimExclusive ==
    ASSUME Shape, ExclusiveInv, NEW w \in Instances, Claim(w)
    PROVE  ExclusiveInv'
<1>1. w \in Executors /\ Solo(w)
  BY DEF Executors, Solo, WatchdogStep
<1>2. PICK p \in todo[w] : /\ Stuck(p)
                          /\ heartbeat' = [heartbeat EXCEPT ![p] = "new"]
                          /\ job' = [job EXCEPT ![w] = p]
  BY DEF Claim
<1>3. p \in Processes /\ job'[w] = p
  BY <1>1, <1>2 DEF Shape, TypeOK
<1>4. status' = status /\ mishap' = mishap
  BY DEF Claim, envVars
<1>5. \A f \in Executors : f # w => (Busy(f)' <=> Busy(f)) /\ job'[f] = job[f]
  BY <1>1, SoloMovesOne DEF OthersStay, Busy
<1>6. ASSUME NEW q \in Processes, InTime(q)' PROVE Exclusive(q)'
  <2>1. InTime(q) /\ Exclusive(q)
    BY <1>4, <1>6 DEF InTime, ExclusiveInv
  <2>2. CASE q = p
    <3>1. heartbeat[q] = "expired" /\ status[q] = "running"
      BY <1>2, <2>2 DEF Stuck
    <3>2. \A f \in Executors : Busy(f) => job[f] # q
      BY <2>1, <3>1 DEF Exclusive
    <3>3. heartbeat'[q] # "expired"
      BY <1>2, <1>3, <2>2 DEF Shape, TypeOK
    <3>. QED  BY <1>4, <1>5, <3>1, <3>2, <3>3 DEF Exclusive
  <2>3. CASE q # p
    <3>1. heartbeat'[q] = heartbeat[q]
      BY <1>2, <2>3 DEF Shape, TypeOK
    <3>. QED  BY <1>3, <1>4, <1>5, <2>1, <2>3, <3>1 DEF Exclusive
  <2>. QED  BY <2>2, <2>3
<1>. QED  BY <1>6 DEF ExclusiveInv

\* No other step brings a second executor to a row, or takes its heartbeat or
\* its status away under an executor, unless the row is overdue from then on.
LEMMA NextExclusive ==
    ASSUME Shape, History, ExclusiveInv, [Next]_vars
    PROVE  ExclusiveInv'
<1>1. ASSUME NEW p \in Processes, InTime(p)' PROVE InTime(p) /\ Exclusive(p)
  BY <1>1, MishapsStay DEF InTime, ExclusiveInv
<1>2. ASSUME NEW e \in Executors, Solo(e),
             e \in Processes => ~Admit(e), e \in Instances => ~Claim(e)
      PROVE  ExclusiveInv'
  <2> SUFFICES ASSUME NEW p \in Processes, InTime(p)' PROVE Exclusive(p)'
    BY DEF ExclusiveInv
  <2>1. \A f \in Executors : Busy(f)' => Busy(f) /\ job'[f] = job[f]
    BY <1>2, NoNewcomer, SoloMovesOne DEF OthersStay, Busy
  <2>2. /\ heartbeat[p] # "expired" => heartbeat'[p] # "expired"
        /\ \/ status'[p] = status[p]
           \/ job[e] = p /\ Busy(e) /\ ~Busy(e)'
    <3>1. e = p => ~Admit(e)
      BY <1>2
    <3>2. WriteStatus(e) => Busy(e)
      BY DEF WriteStatus, Busy, BusyPcs
    <3>. QED  BY <1>2, <3>1, <3>2, RowKept
  <2>. QED  BY <1>1, <2>1, <2>2 DEF Exclusive
<1>3. ASSUME NEW q \in Processes, Expire(q) PROVE ExclusiveInv'
  <2> SUFFICES ASSUME NEW p \in Processes, InTime(p)' PROVE Exclusive(p)'
    BY DEF ExclusiveInv
  <2>1. UNCHANGED <<status, pc, job>> /\ heartbeat' = [heartbeat EXCEPT ![q] = "expired"]
    BY <1>3 DEF Expire, executorVars
  <2>2. p = q => OnProcess(q) = {}
    <3>1. mishap' = [mishap EXCEPT ![q] = @ \cup {"overdue"}] => ~InTime(q)'
      BY DEF Shape, TypeOK, InTime
    <3>. QED  BY <1>3, <3>1 DEF Expire
  <2>. QED  BY <1>1, <2>1, <2>2 DEF Exclusive, OnProcess, Busy, Shape, TypeOK
<1>4. ASSUME NEW q \in Processes, LateArrives(q) PROVE ExclusiveInv'
  <2>1. UNCHANGED <<status, heartbeat, mishap, pc, job>>
    BY <1>4 DEF LateArrives, dbVars, envVars, executorVars
  <2>. QED  BY <2>1 DEF ExclusiveInv, Exclusive, InTime, Busy
<1>5. ASSUME NEW i \in Instances, Crash(i) PROVE ExclusiveInv'
  <2>1. UNCHANGED <<status, heartbeat, mishap>> /\ job' = [job EXCEPT ![i] = NoJob]
        /\ pc' = [e \in Executors |-> IF e \in Hosted(i) THEN "dead" ELSE pc[e]]
    BY <1>5 DEF Crash, dbVars
  <2>2. \A f \in Executors : Busy(f)' => Busy(f) /\ job'[f] = job[f]
    BY <2>1 DEF Busy, BusyPcs, StepPcs, Hosted, Shape, TypeOK
  <2>. QED  BY <2>1, <2>2 DEF ExclusiveInv, Exclusive, InTime
<1>6. CASE UNCHANGED vars
  BY <1>6 DEF ExclusiveInv, Exclusive, InTime, Busy, vars, dbVars, envVars,
              executorVars
<1>. QED
  BY <1>2, <1>3, <1>4, <1>5, <1>6, NextIsSolo, AdmitExclusive, ClaimExclusive

\* At the beginning nobody works.
LEMMA InitExclusive == Init => Shape /\ History /\ ExclusiveInv
<1>1. Init => \A e \in Executors : ~Busy(e)
  BY DEF Init, Busy, BusyPcs, StepPcs
<1>. QED  BY <1>1, InitShape, InitHistory DEF ExclusiveInv, Exclusive

\* The heartbeat and the conditional UPDATE of acquire_recovery_lock give a
\* row one executor at a time, for any number of instances, rounds and faults,
\* as long as the row is not overdue: its heartbeat has never expired beside an
\* executor at work, neither by a slow step nor by a lost heartbeat.
THEOREM OneExecutor == Spec => []SingleExecutor
<1>1. Init => Shape /\ History /\ ExclusiveInv
  BY InitExclusive
<1>2. Shape /\ History /\ ExclusiveInv /\ [Next]_vars
          => (Shape /\ History /\ ExclusiveInv)'
  BY NextShape, NextHistory, NextExclusive
<1>3. Shape /\ History /\ ExclusiveInv => SingleExecutor
  BY DEF ExclusiveInv, Exclusive, SingleExecutor, OnProcess
<1>. QED  BY <1>1, <1>2, <1>3, PTL DEF Spec

\* transition_status, whose UPDATE by primary key tests nothing, moves no row
\* out of a terminal status, unless the row is overdue (by a slow step or by a
\* lost heartbeat): on a terminal row nobody is at work.
THEOREM TerminalStays == Spec => TerminalStable
<1>1. Init => Shape /\ History /\ ExclusiveInv
  BY InitExclusive
<1>2. Shape /\ History /\ ExclusiveInv /\ [Next]_vars
          => (Shape /\ History /\ ExclusiveInv)'
  BY NextShape, NextHistory, NextExclusive
<1>3. Shape /\ ExclusiveInv /\ [Next]_vars
          => [\A p \in Processes :
                  InTime(p) /\ status[p] \in Terminal => status'[p] = status[p]]_vars
  <2> SUFFICES ASSUME Shape, ExclusiveInv, [Next]_vars,
                      NEW p \in Processes, InTime(p), status[p] \in Terminal
               PROVE  status'[p] = status[p]
    OBVIOUS
  <2>1. \A e \in Executors : Busy(e) => job[e] # p
    BY DEF ExclusiveInv, Exclusive, Terminal
  <2>2. ASSUME NEW e \in Executors, Solo(e) PROVE status'[p] = status[p]
    <3>1. Admit(e) => status[e] = "none"
      BY DEF Admit
    <3>2. WriteStatus(e) => Busy(e)
      BY DEF WriteStatus, Busy, BusyPcs
    <3>. QED  BY <2>1, <2>2, <3>1, <3>2, RowKept DEF Terminal
  <2>3. CASE \/ \E q \in Processes : Expire(q) \/ LateArrives(q)
             \/ \E i \in Instances : Crash(i)
             \/ UNCHANGED vars
    BY <2>3 DEF Expire, LateArrives, Crash, vars, dbVars
  <2>. QED  BY <2>2, <2>3, NextIsSolo
<1>. QED  BY <1>1, <1>2, <1>3, PTL DEF Spec, TerminalStable

-----------------------------------------------------------------------------
(***************************************************************************)
(* Where a step leads, and from where.                                     *)
(***************************************************************************)

\* The ways into a step, and the values the generator brings along.
EntersStep(e) ==
    \/ /\ e \in Processes /\ Admit(e)
       /\ pc'[e] = "begin" /\ local'[e] = At("submit", 1, FALSE)
       /\ status[e] = "none"
    \/ /\ BeginStep(e)
       /\ pc[e] = "begin" /\ pc'[e] = "call"
       /\ local'[e].act = local[e].act /\ local'[e].known = local[e].known
       /\ job'[e] = job[e]
    \/ /\ CallOA(e)
       /\ pc[e] = "call" /\ pc'[e] \in {"good", "bad"}
       /\ local'[e] = local[e] /\ job'[e] = job[e]
    \/ /\ EndStep(e)
       /\ pc[e] = "good" /\ pc'[e] = "begin" /\ job'[e] = job[e]
       /\ local[e].act \in {"submit", "approve"}
       /\ local'[e] = At(Plan[Position(local[e].act) + 1], local[e].no + 1, TRUE)
    \/ /\ EndStep(e)
       /\ pc[e] = "bad" /\ pc'[e] = "begin" /\ job'[e] = job[e]
       /\ local[e].act \in Forward /\ local[e].known
       /\ local'[e] = At("cancel", local[e].no + 1, TRUE)
    \/ /\ e \in Instances /\ Replay(e)
       /\ pc[e] = "replay" /\ pc'[e] = "begin" /\ job'[e] = job[e]
       /\ FailPoint(table[job[e]]) \in 2 .. Len(Plan)
       /\ local'[e] = At("cancel", FailPoint(table[job[e]]), TRUE)

\* Whoever is in a step after its action came there in one of these ways.
LEMMA StepEntry ==
    ASSUME Shape, NEW e \in Executors, Solo(e), pc'[e] \in StepPcs
    PROVE  EntersStep(e)
<1>1. /\ pc \in [Executors -> Pcs] /\ local \in [Executors -> Locals]
      /\ job \in [Executors -> Processes \cup {NoJob}]
  BY DEF Shape, TypeOK
<1> USE DEF Goto, StepPcs
<1>2. CASE BeginStep(e)
  <2>1. /\ pc[e] = "begin" /\ pc'[e] = "call" /\ job' = job
        /\ \E row \in BOOLEAN : local' = [local EXCEPT ![e].traced = row]
    BY <1>1, <1>2 DEF BeginStep, CreateStep
  <2>2. local'[e].act = local[e].act /\ local'[e].known = local[e].known
    BY <1>1, <2>1 DEF Locals
  <2>. QED  BY <1>2, <2>1, <2>2 DEF EntersStep
<1>3. CASE CallOA(e)
  BY <1>1, <1>3 DEF CallOA, EntersStep
<1>4. CASE EndStep(e)
  <2>1. job' = job /\ pc[e] \in {"good", "bad"}
    BY <1>4 DEF EndStep
  <2>2. CASE Advance(e)
    BY <1>1, <1>4, <2>1, <2>2 DEF Advance, EntersStep
  <2>3. CASE Compensate(e)
    BY <1>1, <1>4, <2>1, <2>3 DEF Compensate, Conclude, EntersStep
  <2>4. CASE EndPlan(e)
    BY <1>1, <2>4 DEF EndPlan, Conclude
  <2>. QED  BY <1>4, <2>2, <2>3, <2>4 DEF EndStep
<1>5. CASE ReadStatus(e) \/ WriteStatus(e)
  BY <1>1, <1>5, LeaversRest DEF ReadStatus, WriteStatus, Busy, BusyPcs
<1>6. CASE e \in Processes /\ Admit(e)
  BY <1>1, <1>6 DEF Admit, EntersStep
<1>7. CASE e \in Processes /\ (DriveRaises(e) \/ FinalizeLost(e))
  BY <1>1, <1>7 DEF DriveRaises, FinalizeLost, Conclude, Leave
<1>8. CASE e \in Instances /\ (Detect(e) \/ Claim(e) \/ Skip(e) \/ Restart(e))
  BY <1>1, <1>8 DEF Detect, Claim, Skip, Restart
<1>9. CASE e \in Instances /\ Replay(e)
  BY <1>1, <1>9 DEF Replay, EntersStep
<1>10. CASE e \in Instances
            /\ \/ ReplayUnregistered(e) \/ ReplayUnparsable(e)
               \/ RoundAborts(e) \/ WatchdogRaises(e)
  BY <1>1, <1>10 DEF ReplayUnregistered, ReplayUnparsable, RoundAborts,
                     WatchdogRaises, WatchdogDies
<1>. QED
  BY <1>2, <1>3, <1>4, <1>5, <1>6, <1>7, <1>8, <1>9, <1>10
  DEF Solo, ExecutorStep, WatchdogStep

\* The ways to the status transition, and the verdict each of them brings.
EntersEnd(e) ==
    \/ /\ ReadStatus(e) /\ status[job[e]] = "running"
       /\ pc[e] = "read" /\ local'[e] = local[e] /\ told' = told
    \/ /\ EndStep(e) /\ Conclude(e, "completed") /\ local'[e] = Ending("completed")
       /\ pc[e] = "good" /\ local[e].act = "update"
    \/ /\ EndStep(e) /\ Conclude(e, "failed") /\ local'[e] = Ending("failed")
       /\ pc[e] \in {"good", "bad"} /\ local[e].act = "cancel"
    \/ /\ EndStep(e) /\ Conclude(e, "failed") /\ local'[e] = Ending("failed")
       /\ pc[e] = "bad" /\ local[e].act \in Forward /\ ~local[e].known
    \/ /\ e \in Processes /\ DriveRaises(e)
       /\ Conclude(e, "failed") /\ local'[e] = Ending("failed")
       /\ pc[e] \in {"begin", "good", "bad"}
    \/ /\ e \in Instances /\ Replay(e) /\ FailPoint(table[job[e]]) = 1
       /\ pc[e] = "replay" /\ local'[e] = Ending("failed") /\ told' = told
    \/ /\ e \in Instances /\ Replay(e) /\ FailPoint(table[job[e]]) = Len(Plan) + 1
       /\ pc[e] = "replay" /\ local'[e] = Ending("completed") /\ told' = told
    \/ /\ e \in Instances /\ ReplayUnregistered(e)
       /\ rebuild[job[e]] = "unregistered"
       /\ pc[e] = "replay" /\ local'[e] = Ending("failed") /\ told' = told

\* Whoever is about to close the row came there in one of these ways.
LEMMA EndEntry ==
    ASSUME Shape, NEW e \in Executors, Solo(e), pc'[e] \in {"read", "write"}
    PROVE  EntersEnd(e) /\ job'[e] = job[e]
<1>1. /\ pc \in [Executors -> Pcs] /\ local \in [Executors -> Locals]
      /\ job \in [Executors -> Processes \cup {NoJob}]
  BY DEF Shape, TypeOK
<1> USE DEF Goto
<1>2. CASE BeginStep(e) \/ CallOA(e)
  BY <1>1, <1>2 DEF BeginStep, CallOA
<1>3. CASE EndStep(e)
  <2>1. job' = job /\ pc[e] \in {"good", "bad"}
    BY <1>3 DEF EndStep
  <2>2. CASE Advance(e)
    BY <1>1, <2>2 DEF Advance
  <2>3. CASE Compensate(e)
    BY <1>1, <1>3, <2>1, <2>3 DEF Compensate, Conclude, EntersEnd
  <2>4. CASE EndPlan(e)
    BY <1>1, <1>3, <2>1, <2>4 DEF EndPlan, Conclude, EntersEnd
  <2>. QED  BY <1>3, <2>2, <2>3, <2>4 DEF EndStep
<1>4. CASE ReadStatus(e)
  <2>1. ~Leave(e)
    BY LeaversRest DEF Busy, BusyPcs
  <2>. QED  BY <1>4, <2>1 DEF ReadStatus, EntersEnd
<1>5. CASE WriteStatus(e) \/ (e \in Processes /\ FinalizeLost(e))
  BY <1>5, LeaversRest DEF WriteStatus, FinalizeLost, Busy, BusyPcs
<1>6. CASE e \in Processes /\ (Admit(e) \/ DriveRaises(e))
  BY <1>1, <1>6 DEF Admit, DriveRaises, Conclude, EntersEnd
<1>7. CASE e \in Instances /\ (Detect(e) \/ Claim(e) \/ Skip(e) \/ Restart(e))
  BY <1>1, <1>7 DEF Detect, Claim, Skip, Restart
<1>8. CASE e \in Instances /\ (ReplayUnregistered(e) \/ Replay(e))
  BY <1>1, <1>8 DEF ReplayUnregistered, Replay, EntersEnd
<1>9. CASE e \in Instances
           /\ (ReplayUnparsable(e) \/ RoundAborts(e) \/ WatchdogRaises(e))
  BY <1>1, <1>9 DEF ReplayUnparsable, RoundAborts, WatchdogRaises, WatchdogDies
<1>. QED
  BY <1>2, <1>3, <1>4, <1>5, <1>6, <1>7, <1>8, <1>9
  DEF Solo, ExecutorStep, WatchdogStep

\* A crash leaves everybody where he was, or dead.
LEMMA CrashKills ==
    ASSUME Shape, NEW i \in Instances, Crash(i), NEW e \in Executors
    PROVE  \/ pc'[e] = "dead"
           \/ pc'[e] = pc[e] /\ local'[e] = local[e] /\ job'[e] = job[e]
BY DEF Crash, Hosted, Shape, TypeOK

-----------------------------------------------------------------------------
(***************************************************************************)
(* What a step does to the tables, to the calls and to OA.                 *)
(***************************************************************************)

\* The row that the end of e's step may add.
RowOf(e, r) ==
    /\ r.act = local[e].act /\ r.no = local[e].no
    /\ r.st = "completed" => pc[e] = "good"

\* Rows are only added, each at the end of the step it records.
LEMMA TableGrows ==
    ASSUME Shape, [Next]_vars, NEW p \in Processes
    PROVE  /\ table[p] \subseteq table'[p]
           /\ \A r \in table'[p] :
                  \/ r \in table[p]
                  \/ \E e \in Executors : EndStep(e) /\ p = job[e] /\ RowOf(e, r)
<1>1. table \in [Processes -> SUBSET Row]
  BY DEF Shape, TypeOK
<1>2. ASSUME NEW e \in Executors, EndStep(e)
      PROVE  /\ table[p] \subseteq table'[p]
             /\ \A r \in table'[p] :
                    r \in table[p] \/ (EndStep(e) /\ p = job[e] /\ RowOf(e, r))
  <2> DEFINE row == [no |-> local[e].no, act |-> local[e].act,
                     st |-> IF pc[e] = "good" THEN "completed" ELSE "failed"]
  <2>1. \/ table' = table
        \/ table' = [table EXCEPT
                       ![job[e]] = IF local[e].traced THEN @ \cup {row} ELSE @]
    BY <1>2 DEF EndStep, RecordStep
  <2>2. RowOf(e, row)
    BY DEF RowOf
  <2>. HIDE DEF row
  <2>3. CASE p = job[e]
    BY <1>1, <1>2, <2>1, <2>2, <2>3
  <2>4. CASE p # job[e]
    BY <1>1, <2>1, <2>4
  <2>. QED  BY <2>3, <2>4
<1>3. CASE \A e \in Executors : ~EndStep(e)
  <2>1. table' = table
    BY <1>3 DEF Next, ExecutorStep, WatchdogStep, Admit, BeginStep, CallOA,
         DriveRaises, ReadStatus, WriteStatus, FinalizeLost, Detect, Claim, Skip,
         ReplayUnregistered, ReplayUnparsable, Replay, RoundAborts, WatchdogRaises,
         WatchdogDies, Expire, LateArrives, Crash, Restart, vars, dbVars
  <2>. QED  BY <2>1
<1>. QED  BY <1>2, <1>3

\* What was sent stays sent, and only a call sends.
LEMMA CallsGrow ==
    ASSUME Shape, [Next]_vars, NEW p \in Processes, NEW a \in Actions
    PROVE  Sent(p, a)' <=>
               \/ Sent(p, a)
               \/ \E e \in Executors : CallOA(e) /\ p = job[e] /\ a = local[e].act
<1>1. calls \in [Processes -> Seq(Actions)]
  BY DEF Shape, TypeOK
<1>2. ASSUME NEW e \in Executors, CallOA(e)
      PROVE  Sent(p, a)' <=> Sent(p, a) \/ (p = job[e] /\ a = local[e].act)
  <2>1. calls' = [calls EXCEPT ![job[e]] = Append(@, local[e].act)]
    BY <1>2 DEF CallOA
  <2>2. local[e].act \in Actions
    BY DEF Shape, TypeOK, Locals
  <2>3. CASE p = job[e]
    <3>1. calls[p] \in Seq(Actions) /\ calls'[p] = Append(calls[p], local[e].act)
      BY <1>1, <2>1, <2>3
    <3>2. /\ DOMAIN calls'[p] = DOMAIN calls[p] \cup {Len(calls[p]) + 1}
          /\ \A i \in DOMAIN calls[p] : calls'[p][i] = calls[p][i]
          /\ calls'[p][Len(calls[p]) + 1] = local[e].act
      BY <2>2, <3>1
    <3>. QED  BY <2>3, <3>2 DEF Sent
  <2>4. CASE p # job[e]
    BY <1>1, <2>1, <2>4 DEF Sent
  <2>. QED  BY <2>3, <2>4
<1>3. ASSUME NEW e \in Executors, NEW f \in Executors, CallOA(e), CallOA(f)
      PROVE  job[e] = job[f] /\ local[e].act = local[f].act
  <2>1. e = f
    <3>1. pc[e] = "call" /\ pc'[e] \in {"good", "bad"}
      BY <1>3 DEF CallOA, Goto, Shape, TypeOK
    <3>2. e # f => pc'[e] = pc[e]
      BY <1>3, SoloMovesOne DEF OthersStay, Solo, ExecutorStep
    <3>. QED  BY <3>1, <3>2
  <2>. QED  BY <2>1
<1>4. CASE \A e \in Executors : ~CallOA(e)
  <2>1. calls' = calls
    BY <1>4 DEF Next, ExecutorStep, WatchdogStep, Admit, BeginStep, EndStep,
         DriveRaises, ReadStatus, WriteStatus, FinalizeLost, Detect, Claim, Skip,
         ReplayUnregistered, ReplayUnparsable, Replay, RoundAborts, WatchdogRaises,
         WatchdogDies, Expire, LateArrives, Crash, Restart, vars, oaVars
  <2>. QED  BY <1>4, <2>1 DEF Sent
<1>. QED  BY <1>2, <1>3, <1>4

\* OA's state moves by a call or by a late call, and never back to "none".
LEMMA BookingMoves ==
    ASSUME Shape, [Next]_vars, NEW p \in Processes
    PROVE  /\ booking[p] # "none" => booking'[p] # "none"
           /\ \/ booking'[p] = booking[p] /\ late'[p] = late[p]
              \/ \E e \in Executors : CallOA(e) /\ p = job[e]
              \/ late[p] # {} /\ late'[p] \subseteq late[p]
<1>1. booking \in [Processes -> BookingStates] /\ late \in [Processes -> SUBSET Actions]
  BY DEF Shape, TypeOK
<1>2. \A a \in Actions : Outcome(a) # "none"
  BY DEF Outcome, Actions, Forward
<1>3. ASSUME NEW e \in Executors, CallOA(e)
      PROVE  /\ booking[p] # "none" => booking'[p] # "none"
             /\ p # job[e] => booking'[p] = booking[p] /\ late'[p] = late[p]
  <2>1. local[e].act \in Actions
    BY DEF Shape, TypeOK, Locals
  <2>. QED  BY <1>1, <1>2, <1>3, <2>1 DEF CallOA
<1>4. ASSUME NEW q \in Processes, LateArrives(q)
      PROVE  /\ booking[p] # "none" => booking'[p] # "none"
             /\ p # q => booking'[p] = booking[p] /\ late'[p] = late[p]
             /\ p = q => late[p] # {} /\ late'[p] \subseteq late[p]
  <2>1. PICK a \in late[q] : /\ booking' = [booking EXCEPT ![q] = Outcome(a)]
                            /\ late' = [late EXCEPT ![q] = @ \ {a}]
    BY <1>4 DEF LateArrives
  <2>. QED  BY <1>1, <1>2, <2>1
<1>5. CASE /\ \A e \in Executors : ~CallOA(e)
           /\ \A q \in Processes : ~LateArrives(q)
  <2>1. UNCHANGED <<booking, late>>
    BY <1>5 DEF Next, ExecutorStep, WatchdogStep, Admit, BeginStep, EndStep,
         DriveRaises, ReadStatus, WriteStatus, FinalizeLost, Detect, Claim, Skip,
         ReplayUnregistered, ReplayUnparsable, Replay, RoundAborts, WatchdogRaises,
         WatchdogDies, Expire, Crash, Restart, vars, oaVars
  <2>. QED  BY <2>1
<1>. QED  BY <1>3, <1>4, <1>5

\* What a recovery of a row finds does not change.
LEMMA RebuildStays == ASSUME [Next]_vars PROVE rebuild' = rebuild
BY DEF Next, ExecutorStep, WatchdogStep, Admit, BeginStep, CallOA, EndStep,
       DriveRaises, ReadStatus, WriteStatus, FinalizeLost, Detect, Claim, Skip,
       ReplayUnregistered, ReplayUnparsable, Replay, RoundAborts, WatchdogRaises,
       WatchdogDies, Expire, LateArrives, Crash, Restart, vars, envVars

\* Only the end of a worker's generator reports to its user.
LEMMA ToldMoves ==
    ASSUME Shape, [Next]_vars, NEW p \in Processes
    PROVE  \/ told'[p] = told[p]
           \/ /\ EndStep(p) \/ DriveRaises(p)
              /\ \E v \in Terminal : Conclude(p, v)
<1>1. told \in [Processes -> {"nothing", "success", "failure"}]
  BY DEF Shape, TypeOK
<1>2. ASSUME NEW e \in Executors, EndStep(e), told'[p] # told[p]
      PROVE  e = p /\ \E v \in Terminal : Conclude(p, v)
  <2>1. PICK v \in Terminal : Conclude(e, v)
    BY <1>2 DEF EndStep, Advance, Compensate, EndPlan, Terminal
  <2>. QED  BY <1>1, <1>2, <2>1 DEF Conclude
<1>3. ASSUME NEW e \in Processes, DriveRaises(e), told'[p] # told[p]
      PROVE  e = p /\ \E v \in Terminal : Conclude(p, v)
  BY <1>1, <1>3 DEF DriveRaises, Conclude, Terminal
<1>4. CASE /\ \A e \in Executors : ~EndStep(e)
           /\ \A e \in Processes : ~DriveRaises(e)
  <2>1. told' = told
    BY <1>4 DEF Next, ExecutorStep, WatchdogStep, Admit, BeginStep, CallOA,
         ReadStatus, WriteStatus, FinalizeLost, Detect, Claim, Skip,
         ReplayUnregistered, ReplayUnparsable, Replay, RoundAborts, WatchdogRaises,
         WatchdogDies, Expire, LateArrives, Crash, Restart, vars
  <2>. QED  BY <2>1
<1>. QED  BY <1>2, <1>3, <1>4

\* A row starts running, and ends with the verdict of whoever writes it.
LEMMA StatusMoves ==
    ASSUME Shape, [Next]_vars, NEW p \in Processes
    PROVE  \/ status'[p] = status[p]
           \/ Admit(p) /\ status[p] = "none" /\ status'[p] = "running"
           \/ \E e \in Executors :
                  /\ WriteStatus(e) /\ pc[e] = "write" /\ job[e] = p
                  /\ status'[p] = local[e].verdict /\ status'[p] \in Terminal
<1>1. status \in [Processes -> Statuses]
  BY DEF Shape, TypeOK
<1>2. ASSUME NEW e \in Executors, WriteStatus(e)
      PROVE  \/ status'[p] = status[p]
             \/ /\ pc[e] = "write" /\ job[e] = p
                /\ status'[p] = local[e].verdict /\ status'[p] \in Terminal
  BY <1>1, <1>2 DEF WriteStatus, Shape, TypeOK, Locals
<1>3. ASSUME NEW e \in Executors, Solo(e), ~WriteStatus(e)
      PROVE  \/ status'[p] = status[p]
             \/ Admit(p) /\ status[p] = "none" /\ status'[p] = "running"
  <2>1. Admit(p) => status[p] = "none" /\ status'[p] = "running"
    BY <1>1 DEF Admit
  <2>. QED  BY <1>3, <2>1, RowKept
<1>4. CASE \/ \E q \in Processes : Expire(q) \/ LateArrives(q)
           \/ \E i \in Instances : Crash(i)
           \/ UNCHANGED vars
  BY <1>4 DEF Expire, LateArrives, Crash, vars, dbVars
<1>. QED  BY <1>2, <1>3, <1>4, NextIsSolo

\* Every executor takes the step, stays as it is, or dies in a crash.
LEMMA MoverOrNot ==
    ASSUME Shape, [Next]_vars, NEW f \in Executors
    PROVE  \/ Solo(f)
           \/ pc'[f] = pc[f] /\ local'[f] = local[f] /\ job'[f] = job[f]
           \/ pc'[f] = "dead"
<1>1. ASSUME NEW e \in Executors, Solo(e), e # f
      PROVE  pc'[f] = pc[f] /\ local'[f] = local[f] /\ job'[f] = job[f]
  BY <1>1, SoloMovesOne DEF OthersStay
<1>2. CASE (\E p \in Processes : Expire(p) \/ LateArrives(p)) \/ UNCHANGED vars
  BY <1>2 DEF Expire, LateArrives, vars, executorVars
<1>. QED  BY <1>1, <1>2, CrashKills, NextIsSolo

-----------------------------------------------------------------------------
(***************************************************************************)
(* What is sent for a row in time is a saga.                               *)
(***************************************************************************)

\* The first k calls of the plan were sent for the row, and nothing else.
PlanSent(p, k) ==
    /\ DOMAIN calls[p] = 1 .. k
    /\ \A i \in 1 .. k : calls[p][i] = Plan[i]

\* The calls that a worker on its plan has behind it.
Behind(p) ==
    IF pc[p] \in {"begin", "call"} THEN Position(local[p].act) - 1
                                  ELSE Position(local[p].act)

OnPlan(p) == pc[p] \in StepPcs /\ local[p].act \in Forward => PlanSent(p, Behind(p))

\* The plan up to step k, then cancels.
SagaUpTo(p, k) ==
    \A i \in DOMAIN calls[p] : calls[p][i] = IF i <= k THEN Plan[i] ELSE "cancel"

Saga(p) == \E k \in 0 .. 3 : SagaUpTo(p, k)

SagaInv == \A p \in Processes : InTime(p) => OnPlan(p) /\ Saga(p)

\* A call appends itself to what was sent for its row; nothing else is sent.
LEMMA CallsMove ==
    ASSUME Shape, [Next]_vars, NEW p \in Processes
    PROVE  \/ calls'[p] = calls[p]
           \/ \E e \in Executors : /\ CallOA(e) /\ Solo(e) /\ p = job[e]
                                   /\ calls'[p] = Append(calls[p], local[e].act)
<1>1. calls \in [Processes -> Seq(Actions)]
  BY DEF Shape, TypeOK
<1>2. ASSUME NEW e \in Executors, CallOA(e)
      PROVE  \/ calls'[p] = calls[p]
             \/ Solo(e) /\ p = job[e] /\ calls'[p] = Append(calls[p], local[e].act)
  BY <1>1, <1>2 DEF CallOA, Solo, ExecutorStep
<1>3. CASE \A e \in Executors : ~CallOA(e)
  <2>1. calls' = calls
    BY <1>3 DEF Next, ExecutorStep, WatchdogStep, Admit, BeginStep, EndStep,
         DriveRaises, ReadStatus, WriteStatus, FinalizeLost, Detect, Claim, Skip,
         ReplayUnregistered, ReplayUnparsable, Replay, RoundAborts, WatchdogRaises,
         WatchdogDies, Expire, LateArrives, Crash, Restart, vars, oaVars
  <2>. QED  BY <2>1
<1>. QED  BY <1>2, <1>3

\* One more call after the plan up to k, or one more cancel, is a saga again.
LEMMA SagaGrows ==
    ASSUME NEW p \in Processes, NEW a \in Actions, NEW k \in 1 .. 3,
           calls[p] \in Seq(Actions), calls'[p] = Append(calls[p], a),
           \/ a = "cancel" /\ Saga(p)
           \/ a = Plan[k] /\ PlanSent(p, k - 1)
    PROVE  Saga(p)' /\ (a # "cancel" => PlanSent(p, k)')
<1> DEFINE n == Len(calls[p])
<1>1. /\ n \in Nat /\ DOMAIN calls[p] = 1 .. n /\ DOMAIN calls'[p] = 1 .. (n + 1)
      /\ calls'[p][n + 1] = a
      /\ \A i \in 1 .. n : calls'[p][i] = calls[p][i]
  OBVIOUS
<1>. HIDE DEF n
<1>2. CASE a = "cancel" /\ Saga(p)
  <2>1. PICK j \in 0 .. 3 : SagaUpTo(p, j)
    BY <1>2 DEF Saga
  <2>2. PICK m \in 0 .. 3 : m <= n /\ m <= j /\ (m = n \/ m = j)
    BY <1>1
  <2>3. SagaUpTo(p, m)'
    BY <1>1, <1>2, <2>1, <2>2 DEF SagaUpTo
  <2>. QED  BY <1>2, <2>3 DEF Saga
<1>3. CASE a = Plan[k] /\ PlanSent(p, k - 1)
  <2>1. n = k - 1
    BY <1>1, <1>3 DEF PlanSent
  <2>2. DOMAIN calls'[p] = 1 .. k /\ \A i \in 1 .. k : calls'[p][i] = Plan[i]
    <3>1. DOMAIN calls'[p] = 1 .. k /\ calls'[p][k] = Plan[k]
      BY <1>1, <1>3, <2>1
    <3>2. \A i \in 1 .. (k - 1) : calls'[p][i] = Plan[i]
      BY <1>1, <1>3, <2>1 DEF PlanSent
    <3>3. \A i \in 1 .. k : i = k \/ i \in 1 .. (k - 1)
      OBVIOUS
    <3>. QED  BY <3>1, <3>2, <3>3
  <2>3. PlanSent(p, k)'
    BY <2>2 DEF PlanSent
  <2>4. SagaUpTo(p, k)'
    BY <2>2 DEF SagaUpTo
  <2>. QED  BY <2>3, <2>4 DEF Saga
<1>. QED  BY <1>2, <1>3

\* Every step keeps what was sent a saga: a call of the plan is the worker's,
\* alone on its row, and every other call is a cancel.
LEMMA NextSaga ==
    ASSUME Shape, History, ExclusiveInv, SagaInv, [Next]_vars
    PROVE  SagaInv'
<1> SUFFICES ASSUME NEW p \in Processes, InTime(p)' PROVE OnPlan(p)' /\ Saga(p)'
  BY DEF SagaInv
<1>1. InTime(p) /\ Exclusive(p) /\ OnPlan(p) /\ Saga(p)
  BY MishapsStay DEF InTime, ExclusiveInv, SagaInv
<1>2. p \in Executors /\ job[p] = p /\ p \notin Instances
  BY ExecutorsDisjoint DEF Executors, Shape, ExecutorInv, WorkerOK
<1>3. ASSUME NEW e \in Executors, CallOA(e), Solo(e), p = job[e],
             calls'[p] = Append(calls[p], local[e].act)
      PROVE  OnPlan(p)' /\ Saga(p)'
  <2>1. PICK a \in Actions : a = local[e].act
    BY DEF Shape, TypeOK, Locals
  <2>2. /\ calls[p] \in Seq(Actions) /\ pc[e] = "call" /\ Busy(e)
        /\ a = "cancel" \/ a \in Forward
    BY <1>3 DEF CallOA, Shape, TypeOK, Actions, Busy, BusyPcs, StepPcs
  <2>3. a \in Forward => e = p /\ a # "cancel"
    BY <1>3, <2>1, <2>2 DEF Shape, ExecutorInv, WatchdogOK, WorkerOK, Executors,
                            StepPcs, Forward
  <2>4. PICK k \in 1 .. 3 : a \in Forward => k = Position(a) /\ Plan[k] = a
    BY PlanFacts
  <2>5. a \in Forward => PlanSent(p, k - 1)
    BY <1>1, <2>1, <2>2, <2>3, <2>4 DEF OnPlan, Behind, StepPcs
  <2>6. Saga(p)' /\ (a \in Forward => PlanSent(p, k)')
    BY <1>1, <1>3, <2>1, <2>2, <2>3, <2>4, <2>5, SagaGrows
  <2>7. OnPlan(p)'
    <3>1. CASE e = p
      <4>1. pc'[p] \in {"good", "bad"} /\ local'[p] = local[p]
        BY <1>3, <3>1 DEF CallOA, Goto, Shape, TypeOK
      <4>2. local'[p].act \in Forward => Behind(p)' = k
        BY <2>1, <2>4, <3>1, <4>1 DEF Behind
      <4>. QED  BY <2>1, <2>6, <3>1, <4>1, <4>2 DEF OnPlan, PlanSent
    <3>2. CASE e # p
      <4>1. ~Busy(p)
        BY <1>1, <1>2, <1>3, <2>2, <3>2 DEF Exclusive
      <4>2. pc'[p] = pc[p]
        BY <1>2, <1>3, <3>2, SoloMovesOne DEF OthersStay
      <4>. QED  BY <4>1, <4>2 DEF OnPlan, Busy, BusyPcs
    <3>. QED  BY <3>1, <3>2
  <2>. QED  BY <2>6, <2>7
<1>4. CASE calls'[p] = calls[p]
  <2>1. Saga(p)'
    BY <1>1, <1>4 DEF Saga, SagaUpTo
  <2>2. CASE pc'[p] = pc[p] /\ local'[p] = local[p]
    <3>1. Behind(p)' = Behind(p)
      BY <2>2 DEF Behind
    <3>. QED  BY <1>1, <1>4, <2>1, <2>2, <3>1 DEF OnPlan, PlanSent
  <2>3. CASE Solo(p) /\ pc'[p] \in StepPcs /\ local'[p].act \in Forward
    <3>1. EntersStep(p)
      BY <1>2, <2>3, StepEntry
    <3>2. CASE status[p] = "none"
      <4>1. (pc'[p] = "begin" /\ local'[p] = At("submit", 1, FALSE)) \/ Busy(p)
        BY <3>1 DEF EntersStep, Busy, BusyPcs, StepPcs
      <4>2. ~Busy(p) /\ calls[p] = <<>>
        BY <1>2, <3>2 DEF History, UntouchedInv
      <4>3. Position("submit") = 1
        BY DEF Position
      <4>. QED  BY <1>4, <2>1, <4>1, <4>2, <4>3 DEF OnPlan, Behind, PlanSent, At
    <3>3. CASE BeginStep(p) /\ pc[p] = "begin" /\ pc'[p] = "call"
               /\ local'[p].act = local[p].act
      BY <1>1, <1>4, <2>1, <2>3, <3>3 DEF OnPlan, Behind, PlanSent, StepPcs
    <3>4. CASE CallOA(p)
      <4>1. calls'[p] = Append(calls[p], local[p].act)
        BY <1>2, <3>4 DEF CallOA, Shape, TypeOK
      <4>2. calls[p] \in Seq(Actions) /\ local[p].act \in Actions
        BY <1>2 DEF Shape, TypeOK, Locals
      <4>3. Len(calls'[p]) = Len(calls[p]) + 1 /\ Len(calls[p]) \in Nat
        BY <4>1, <4>2
      <4>. QED  BY <1>4, <4>3
    <3>5. CASE /\ pc[p] = "good" /\ pc'[p] = "begin"
               /\ local[p].act \in {"submit", "approve"}
               /\ local'[p] = At(Plan[Position(local[p].act) + 1],
                                 local[p].no + 1, TRUE)
      <4>1. Position(local'[p].act) = Position(local[p].act) + 1
        BY <3>5, NextInPlan DEF At
      <4>2. local[p].act \in Forward /\ Position(local[p].act) \in 1 .. 3
        BY <3>5, PlanFacts DEF Forward
      <4>3. PlanSent(p, Position(local[p].act))
        BY <1>1, <3>5, <4>2 DEF OnPlan, Behind, StepPcs
      <4>4. Behind(p)' = Position(local[p].act)
        <5>1. Behind(p)' = Position(local'[p].act) - 1
          BY <3>5 DEF Behind
        <5>. QED  BY <4>1, <4>2, <5>1
      <4>. QED  BY <1>4, <2>1, <4>3, <4>4 DEF OnPlan, PlanSent
    <3>6. \A n : At("cancel", n, TRUE).act \notin Forward
      BY DEF At, Forward
    <3>. QED  BY <1>2, <2>3, <3>1, <3>2, <3>3, <3>4, <3>5, <3>6 DEF EntersStep
  <2>. QED  BY <1>2, <2>1, <2>2, <2>3, MoverOrNot DEF OnPlan, StepPcs
<1>. QED  BY <1>3, <1>4, CallsMove

\* At the beginning nothing was sent.
LEMMA InitSaga == Init => SagaInv
<1> SUFFICES ASSUME Init PROVE SagaInv
  OBVIOUS
<1>1. \A p \in Processes : calls[p] = <<>> /\ pc[p] = "idle"
  BY DEF Init, Executors
<1>2. ASSUME NEW p \in Processes PROVE SagaUpTo(p, 0)
  BY <1>1 DEF SagaUpTo
<1>. QED  BY <1>1, <1>2 DEF SagaInv, OnPlan, Saga, StepPcs

\* Whatever fails, crashes or takes over, OA is sent a beginning of the plan and
\* then only cancels for a row, as long as its heartbeat does not expire beside
\* an executor at work: no step is left out, repeated or sent after a
\* compensation.
THEOREM SagasOnly == Spec => []CallsAreSaga
<1> DEFINE Inv == Shape /\ History /\ ExclusiveInv /\ SagaInv
<1>1. Init => Inv
  BY InitExclusive, InitSaga
<1>2. Inv /\ [Next]_vars => Inv'
  BY NextShape, NextHistory, NextExclusive, NextSaga
<1>3. Inv => CallsAreSaga
  BY PlanFacts DEF SagaInv, Saga, SagaUpTo, CallsAreSaga
<1>. QED  BY <1>1, <1>2, <1>3, PTL DEF Spec
=============================================================================
