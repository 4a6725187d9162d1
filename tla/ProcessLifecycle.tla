-------------------------- MODULE ProcessLifecycle --------------------------
(***************************************************************************)
(* The life of a process row: the worker coroutine that drives the saga    *)
(* (dispatcher.execute, drive, compensate, _finalize), the watchdog of     *)
(* each instance that downgrades stuck rows (heartbeat_watchdog,           *)
(* handle_processes), the tables process and process_step, the OA system,  *)
(* and the faults between them.                                            *)
(*                                                                         *)
(* A coroutine is split at every database transaction and at every call    *)
(* to OA: between two of them the event loop, another instance or a crash  *)
(* may intervene.  Worker and watchdog share _exec_step, compensate and    *)
(* transition_status, so they share the actions that model them; an        *)
(* executor is a worker (named by its process) or the watchdog of an       *)
(* instance (named by the instance).                                       *)
(***************************************************************************)
EXTENDS StepTable, FiniteSets

CONSTANTS
    Processes,     \* process ids, one per admitted request
    Instances,     \* agent instances, each with one watchdog task
    Rebuilds,      \* which rows a recovery can rebuild: the possible functions
    Faults,        \* the kinds of fault that may happen
    MaxFaults      \* bound: faults in one behaviour

\* A watchdog that has claimed no row.
NoJob == "none"

(***************************************************************************)
(* crash       an instance stops, with every coroutine it hosts            *)
(* db          SQLAlchemyErrors in one transaction (a database hiccup)     *)
(* beat        such a hiccup at a step's beginning: the heartbeat is lost  *)
(* driver      any other exception raised by a database transaction        *)
(* disconnect  the client leaves while gather() awaits the finalize        *)
(* lost        OA applies a call, its result does not reach the engine     *)
(* late        a call times out in transit and reaches OA later            *)
(* slow        an executor spends process_heartbeat_timeout on one step    *)
(***************************************************************************)
FaultKinds ==
    {"crash", "db", "beat", "driver", "disconnect", "lost", "late", "slow"}

\* What a recovery finds in place of a workflow and its input: both; no
\* workflow of that name any more; input_params that no longer validate.
RebuildKinds == {"ok", "unregistered", "unparsable"}

ASSUME ExecutorsDisjoint ==
    /\ Processes \cap Instances = {}
    /\ NoJob \notin Processes
ASSUME ConstantsTyped ==
    /\ Rebuilds \subseteq [Processes -> RebuildKinds]
    /\ Faults \subseteq FaultKinds
    /\ MaxFaults \in Nat

VARIABLES
    status,     \* process.status; "none" before the row exists
    heartbeat,  \* how old process.heartbeat_at is
    table,      \* the finished process_step rows
    booking,    \* the booking at OA
    calls,      \* history: the calls sent to OA for each process
    late,       \* timed-out calls still on their way to OA
    told,       \* what the WorkflowResult reported to the user
    up,         \* instances that are running
    host,       \* the instance a worker runs on
    rebuild,    \* what a recovery of each row finds
    mishap,     \* history: "overdue", the heartbeat expired beside an executor
                \* at work; "raised", drive's own handler took an exception
    pc,         \* where each executor stands
    job,        \* the process each executor works on
    todo,       \* rows detect() returned and the round has not reached yet
    local,      \* local variables of each executor's generator and engine loop
    faults      \* faults so far

dbVars == <<status, heartbeat, table>>
oaVars == <<booking, calls, late>>
envVars == <<up, host, rebuild, mishap>>
executorVars == <<pc, job, todo, local>>
vars == <<dbVars, oaVars, told, envVars, executorVars, faults>>

Executors == Processes \cup Instances
Statuses == {"none", "running", "completed", "failed"}
Terminal == {"completed", "failed"}

\* new: written since the last step began; fresh: as the last step began; old:
\* at least a whole step before that; expired: longer ago than the timeout.
Heartbeats == {"new", "fresh", "old", "expired"}

\* Inside _exec_step or transition_status; a watchdog is also busy in replay.
StepPcs == {"begin", "call", "good", "bad"}
BusyPcs == StepPcs \cup {"replay", "read", "write"}
Pcs == BusyPcs \cup {"idle", "done", "dead", "sleep", "scan"}

\* act and no: the step being executed; known: booking_id is bound;
\* traced: create_step returned an id; verdict: the status to transition to.
Locals == [act : Actions, no : 0 .. MaxStepNo, known : BOOLEAN,
           traced : BOOLEAN, verdict : Terminal]

\* A generator that is about to take step number n, the call a.
At(a, n, known) == [act |-> a, no |-> n, known |-> known, traced |-> FALSE,
                    verdict |-> "failed"]

Blank == At("submit", 0, FALSE)

\* Past the last step, on the way to a status.
Ending(v) == [Blank EXCEPT !.verdict = v]

Busy(e) == pc[e] \in BusyPcs
OnProcess(p) == {e \in Executors : Busy(e) /\ job[e] = p}

\* Types; in particular no executor counts a step beyond MaxStepNo.
TypeOK ==
    /\ status \in [Processes -> Statuses]
    /\ heartbeat \in [Processes -> Heartbeats]
    /\ table \in [Processes -> SUBSET Row]
    /\ booking \in [Processes -> BookingStates]
    /\ calls \in [Processes -> Seq(Actions)]
    /\ late \in [Processes -> SUBSET Actions]
    /\ told \in [Processes -> {"nothing", "success", "failure"}]
    /\ up \in [Instances -> BOOLEAN]
    /\ host \in [Processes -> Instances]
    /\ rebuild \in [Processes -> RebuildKinds]
    /\ mishap \in [Processes -> SUBSET {"overdue", "raised"}]
    /\ pc \in [Executors -> Pcs]
    /\ job \in [Executors -> Processes \cup {NoJob}]
    /\ todo \in [Instances -> SUBSET Processes]
    /\ local \in [Executors -> Locals]
    /\ faults \in Nat

Init ==
    /\ status = [p \in Processes |-> "none"]
    /\ heartbeat = [p \in Processes |-> "expired"]
    /\ table = [p \in Processes |-> {}]
    /\ booking = [p \in Processes |-> "none"]
    /\ calls = [p \in Processes |-> <<>>]
    /\ late = [p \in Processes |-> {}]
    /\ told = [p \in Processes |-> "nothing"]
    /\ up = [i \in Instances |-> TRUE]
    /\ host \in [Processes -> Instances]
    /\ rebuild \in Rebuilds
    /\ mishap = [p \in Processes |-> {}]
    /\ pc = [e \in Executors |-> IF e \in Processes THEN "idle" ELSE "sleep"]
    /\ job = [e \in Executors |-> IF e \in Processes THEN e ELSE NoJob]
    /\ todo = [i \in Instances |-> {}]
    /\ local = [e \in Executors |-> Blank]
    /\ faults = 0

Fault(kind) ==
    /\ kind \in Faults
    /\ faults < MaxFaults
    /\ faults' = faults + 1

NoFault == faults' = faults

Goto(e, label) == pc' = [pc EXCEPT ![e] = label]

-----------------------------------------------------------------------------
(***************************************************************************)
(* _exec_step and the loops of drive and compensate around it.             *)
(***************************************************************************)

\* acquire_or_create inserted the row: the request that did so executes the
\* workflow, whose first step is the submission.
Admit(p) ==
    /\ status[p] = "none"
    /\ up[host[p]]
    /\ status' = [status EXCEPT ![p] = "running"]
    /\ heartbeat' = [heartbeat EXCEPT ![p] = "new"]
    /\ local' = [local EXCEPT ![p] = At("submit", 1, FALSE)]
    /\ Goto(p, "begin")
    /\ NoFault
    /\ UNCHANGED <<table, oaVars, told, envVars, job, todo>>

\* A step begins and heartbeat_at stays as it was.
Older(beat) == CASE beat = "new"   -> "fresh"
                 [] beat = "fresh" -> "old"
                 [] OTHER          -> beat

\* flush_heartbeat swallows its SQLAlchemyError.
Heartbeat(p, ok) ==
    heartbeat' = [heartbeat EXCEPT ![p] = IF ok THEN "fresh" ELSE Older(@)]

\* So does create_step: the step goes on without a row.
CreateStep(e, ok) == local' = [local EXCEPT ![e].traced = ok]

\* _exec_step up to the call.
BeginStep(e) ==
    /\ pc[e] = "begin"
    /\ \E beat, row \in BOOLEAN :
        /\ \/ beat /\ row /\ NoFault
           \/ beat /\ ~row /\ Fault("db")
           \/ ~beat /\ Fault("beat")
        /\ Heartbeat(job[e], beat)
        /\ CreateStep(e, row)
    /\ Goto(e, "call")
    /\ UNCHANGED <<status, table, oaVars, told, envVars, job, todo>>

(***************************************************************************)
(* One HTTP call: OA applies it and answers; OA refuses it, or it never    *)
(* gets there; OA applies it but the answer is lost; or it times out in    *)
(* transit.  All but the first come back as a StepResult that is not ok.   *)
(***************************************************************************)
CallOA(e) ==
    LET p == job[e]
        a == local[e].act
    IN
    /\ pc[e] = "call"
    /\ calls' = [calls EXCEPT ![p] = Append(@, a)]
    /\ \/ /\ NoFault
          /\ booking' = [booking EXCEPT ![p] = Outcome(a)]
          /\ Goto(e, "good")
          /\ UNCHANGED late
       \/ /\ NoFault
          /\ Goto(e, "bad")
          /\ UNCHANGED <<booking, late>>
       \/ /\ Fault("lost")
          /\ booking' = [booking EXCEPT ![p] = Outcome(a)]
          /\ Goto(e, "bad")
          /\ UNCHANGED late
       \/ /\ Fault("late")
          /\ late' = [late EXCEPT ![p] = @ \cup {a}]
          /\ Goto(e, "bad")
          /\ UNCHANGED booking
    /\ UNCHANGED <<dbVars, told, envVars, job, todo, local>>

\* Mutant: the step is recorded without looking at its result.
RecordStepAsDone(e) ==
    /\ table' = [table EXCEPT
                   ![job[e]] = @ \cup {[no |-> local[e].no, act |-> local[e].act,
                                        st |-> "completed"]}]
    /\ NoFault

\* finish_step: the row gets its final status unless create_step left no id
\* or this transaction fails.
RecordStep(e) ==
    LET row == [no |-> local[e].no, act |-> local[e].act,
                st |-> IF pc[e] = "good" THEN "completed" ELSE "failed"]
    IN
    \/ /\ NoFault
       /\ table' = [table EXCEPT
                      ![job[e]] = IF local[e].traced THEN @ \cup {row} ELSE @]
    \/ /\ Fault("db")
       /\ UNCHANGED table

\* The last WorkflowResult of drive, then the status transition.  Only a
\* worker has a user to report to.
Conclude(e, verdict) ==
    /\ local' = [local EXCEPT ![e] = Ending(verdict)]
    /\ told' = IF e \in Processes
               THEN [told EXCEPT ![e] = IF verdict = "completed"
                                        THEN "success" ELSE "failure"]
               ELSE told
    /\ Goto(e, "read")

\* Mutant: the submission's result is not bound to booking_id.
AdvanceUnbound(e) ==
    /\ pc[e] = "good"
    /\ local[e].act \in {"submit", "approve"}
    /\ local' = [local EXCEPT
                   ![e] = At(Plan[Position(@.act) + 1], @.no + 1, @.known)]
    /\ Goto(e, "begin")
    /\ UNCHANGED told

\* gen.send: the result of a successful step moves the generator on; the
\* submission's result binds booking_id.
Advance(e) ==
    /\ pc[e] = "good"
    /\ local[e].act \in {"submit", "approve"}
    /\ local' = [local EXCEPT
                   ![e] = At(Plan[Position(@.act) + 1], @.no + 1, TRUE)]
    /\ Goto(e, "begin")
    /\ UNCHANGED told

\* Mutant: a failed step is tried again.
RetryInstead(e) ==
    /\ pc[e] = "bad"
    /\ local[e].act \in Forward
    /\ Goto(e, "begin")
    /\ UNCHANGED <<told, local>>

\* Mutant: the except branch cancels without testing booking_id.
CompensateAlways(e) ==
    /\ pc[e] = "bad"
    /\ local[e].act \in Forward
    /\ local' = [local EXCEPT ![e] = At("cancel", @.no + 1, @.known)]
    /\ Goto(e, "begin")
    /\ UNCHANGED told

\* Mutant: the failed step is counted twice in step_results.
CompensateMiscounts(e) ==
    /\ pc[e] = "bad"
    /\ local[e].act \in Forward
    /\ local[e].known
    /\ local' = [local EXCEPT ![e] = At("cancel", @.no + 2, TRUE)]
    /\ Goto(e, "begin")
    /\ UNCHANGED told

\* gen.throw(Compensate): the except branch cancels if booking_id is bound.
Compensate(e) ==
    /\ pc[e] = "bad"
    /\ local[e].act \in Forward
    /\ IF local[e].known
       THEN /\ local' = [local EXCEPT ![e] = At("cancel", @.no + 1, TRUE)]
            /\ Goto(e, "begin")
            /\ UNCHANGED told
       ELSE Conclude(e, "failed")

\* Mutant: the result of the compensation branch is not an error.
EndPlanIgnoresCancel(e) ==
    /\ pc[e] = "good"
    /\ local[e].act \in {"update", "cancel"}
    /\ Conclude(e, "completed")

\* The plan is exhausted, or the compensation step is over, ok or not.
EndPlan(e) ==
    \/ /\ pc[e] = "good"
       /\ local[e].act = "update"
       /\ Conclude(e, "completed")
    \/ /\ local[e].act = "cancel"
       /\ Conclude(e, "failed")

EndStep(e) ==
    /\ pc[e] \in {"good", "bad"}
    /\ RecordStep(e)
    /\ Advance(e) \/ Compensate(e) \/ EndPlan(e)
    /\ UNCHANGED <<status, heartbeat, oaVars, envVars, job, todo>>

\* An exception that _exec_step lets through: drive's own handler reports a
\* failure and compensates nothing.
DriveRaises(p) ==
    /\ pc[p] \in {"begin", "good", "bad"}
    /\ Fault("driver")
    /\ Conclude(p, "failed")
    /\ mishap' = [mishap EXCEPT ![p] = @ \cup {"raised"}]
    /\ UNCHANGED <<dbVars, oaVars, up, host, rebuild, job, todo>>

-----------------------------------------------------------------------------
(***************************************************************************)
(* transition_status(p, verdict, from "running"): a SELECT, a test in      *)
(* Python, then an UPDATE by primary key that tests nothing.               *)
(***************************************************************************)

\* The worker's task ends; the watchdog moves to the next row of its round.
Leave(e) ==
    /\ local' = [local EXCEPT ![e] = Blank]
    /\ IF e \in Processes
       THEN /\ Goto(e, "done")
            /\ UNCHANGED <<job, todo>>
       ELSE LET rest == todo[e] \ {job[e]} IN
            /\ todo' = [todo EXCEPT ![e] = rest]
            /\ job' = [job EXCEPT ![e] = NoJob]
            /\ Goto(e, IF rest = {} THEN "sleep" ELSE "scan")

ReadStatus(e) ==
    /\ pc[e] = "read"
    /\ IF status[job[e]] = "running"
       THEN /\ Goto(e, "write")
            /\ UNCHANGED <<job, todo, local>>
       ELSE Leave(e)
    /\ NoFault
    /\ UNCHANGED <<dbVars, oaVars, told, envVars>>

WriteStatus(e) ==
    /\ pc[e] = "write"
    /\ status' = [status EXCEPT ![job[e]] = local[e].verdict]
    /\ Leave(e)
    /\ NoFault
    /\ UNCHANGED <<heartbeat, table, oaVars, told, envVars>>

\* _finalize raises, or is cancelled with the request: gather() keeps the
\* exception, the row stays as it is.
FinalizeLost(p) ==
    /\ pc[p] \in {"read", "write"}
    /\ \E kind \in {"db", "driver", "disconnect"} : Fault(kind)
    /\ Leave(p)
    /\ UNCHANGED <<dbVars, oaVars, told, envVars>>

-----------------------------------------------------------------------------
(***************************************************************************)
(* The watchdog of instance w.                                             *)
(***************************************************************************)

\* Mutant: detection and lock look at the status only.
StuckByStatus(p) == status[p] = "running"

Stuck(p) == status[p] = "running" /\ heartbeat[p] = "expired"

Detect(w) ==
    LET stuck == {p \in Processes : Stuck(p)} IN
    /\ pc[w] = "sleep"
    /\ todo' = [todo EXCEPT ![w] = stuck]
    /\ Goto(w, IF stuck = {} THEN "sleep" ELSE "scan")
    /\ NoFault
    /\ UNCHANGED <<dbVars, oaVars, told, envVars, job, local>>

\* Mutant: the lock does not refresh the heartbeat.
ClaimWithoutRefresh(w) ==
    /\ pc[w] = "scan"
    /\ \E p \in todo[w] : Stuck(p) /\ job' = [job EXCEPT ![w] = p]
    /\ Goto(w, "replay")
    /\ NoFault
    /\ UNCHANGED <<dbVars, oaVars, told, envVars, todo, local>>

\* acquire_recovery_lock: one conditional UPDATE.
Claim(w) ==
    /\ pc[w] = "scan"
    /\ \E p \in todo[w] :
        /\ Stuck(p)
        /\ heartbeat' = [heartbeat EXCEPT ![p] = "new"]
        /\ job' = [job EXCEPT ![w] = p]
    /\ Goto(w, "replay")
    /\ NoFault
    /\ UNCHANGED <<status, table, oaVars, told, envVars, todo, local>>

\* The UPDATE matched no row: another instance, or the worker, was faster.
Skip(w) ==
    /\ pc[w] = "scan"
    /\ \E p \in todo[w] :
        /\ ~Stuck(p)
        /\ todo' = [todo EXCEPT ![w] = @ \ {p}]
        /\ Goto(w, IF todo[w] = {p} THEN "sleep" ELSE "scan")
    /\ NoFault
    /\ UNCHANGED <<dbVars, oaVars, told, envVars, job, local>>

\* Mutant: the round goes on without a status for the row.
SkipUnregistered(w) ==
    /\ pc[w] = "replay"
    /\ rebuild[job[w]] = "unregistered"
    /\ Leave(w)
    /\ NoFault
    /\ UNCHANGED <<dbVars, oaVars, told, envVars>>

\* No workflow of that name: the row is failed without compensation.
ReplayUnregistered(w) ==
    /\ pc[w] = "replay"
    /\ rebuild[job[w]] = "unregistered"
    /\ local' = [local EXCEPT ![w] = Ending("failed")]
    /\ Goto(w, "read")
    /\ NoFault
    /\ UNCHANGED <<dbVars, oaVars, told, envVars, job, todo>>

\* The watchdog's task ends with an exception other than SQLAlchemyError.
WatchdogDies(w) ==
    /\ Goto(w, "dead")
    /\ todo' = [todo EXCEPT ![w] = {}]
    /\ job' = [job EXCEPT ![w] = NoJob]
    /\ local' = [local EXCEPT ![w] = Blank]
    /\ UNCHANGED <<dbVars, oaVars, told, envVars>>

\* model_validate raises a ValidationError.
ReplayUnparsable(w) ==
    /\ pc[w] = "replay"
    /\ rebuild[job[w]] = "unparsable"
    /\ NoFault
    /\ WatchdogDies(w)

\* replay_steps feeds the recorded results to a new generator, so it stands
\* where the plan has no completed row; there it is compensated, under the
\* number of that very step.  With no such point the row counts as completed.
Replay(w) ==
    LET n == FailPoint(table[job[w]]) IN
    /\ pc[w] = "replay"
    /\ rebuild[job[w]] = "ok"
    /\ \/ /\ n \in 2 .. Len(Plan)
          /\ local' = [local EXCEPT ![w] = At("cancel", n, TRUE)]
          /\ Goto(w, "begin")
       \/ /\ n = 1
          /\ local' = [local EXCEPT ![w] = Ending("failed")]
          /\ Goto(w, "read")
       \/ /\ n = Len(Plan) + 1
          /\ local' = [local EXCEPT ![w] = Ending("completed")]
          /\ Goto(w, "read")
    /\ NoFault
    /\ UNCHANGED <<dbVars, oaVars, told, envVars, job, todo>>

\* A SQLAlchemyError outside _exec_step ends the round; the watchdog sleeps
\* and starts another one.
RoundAborts(w) ==
    /\ pc[w] \in {"scan", "replay", "read", "write"}
    /\ Fault("db")
    /\ Goto(w, "sleep")
    /\ todo' = [todo EXCEPT ![w] = {}]
    /\ job' = [job EXCEPT ![w] = NoJob]
    /\ local' = [local EXCEPT ![w] = Blank]
    /\ UNCHANGED <<dbVars, oaVars, told, envVars>>

\* Any other exception, from whichever transaction of the round.
WatchdogRaises(w) ==
    /\ pc[w] \in (BusyPcs \ {"call"}) \cup {"sleep", "scan"}
    /\ Fault("driver")
    /\ WatchdogDies(w)

-----------------------------------------------------------------------------
(***************************************************************************)
(* The environment.                                                        *)
(***************************************************************************)

\* heartbeat_at passes the timeout.  While an executor is at work its own
\* heartbeats prevent that, unless one step takes longer than the timeout, or
\* the heartbeat of a step was lost and two steps together take longer.
Expire(p) ==
    /\ status[p] # "none"
    /\ heartbeat[p] # "expired"
    /\ \/ /\ OnProcess(p) = {}
          /\ NoFault
          /\ UNCHANGED mishap
       \/ /\ OnProcess(p) # {}
          /\ IF heartbeat[p] = "old" THEN NoFault ELSE Fault("slow")
          /\ mishap' = [mishap EXCEPT ![p] = @ \cup {"overdue"}]
    /\ heartbeat' = [heartbeat EXCEPT ![p] = "expired"]
    /\ UNCHANGED <<status, table, oaVars, told, up, host, rebuild, executorVars>>

LateArrives(p) ==
    /\ \E a \in late[p] :
        /\ booking' = [booking EXCEPT ![p] = Outcome(a)]
        /\ late' = [late EXCEPT ![p] = @ \ {a}]
    /\ NoFault
    /\ UNCHANGED <<dbVars, calls, told, envVars, executorVars>>

\* The worker of an instance and its watchdog share one OS process.
Hosted(i) == {i} \cup {p \in Processes : host[p] = i /\ Busy(p)}

Crash(i) ==
    /\ up[i]
    /\ Fault("crash")
    /\ up' = [up EXCEPT ![i] = FALSE]
    /\ pc' = [e \in Executors |-> IF e \in Hosted(i) THEN "dead" ELSE pc[e]]
    /\ local' = [e \in Executors |-> IF e \in Hosted(i) THEN Blank ELSE local[e]]
    /\ job' = [job EXCEPT ![i] = NoJob]
    /\ todo' = [todo EXCEPT ![i] = {}]
    /\ UNCHANGED <<dbVars, oaVars, told, host, rebuild, mishap>>

\* lifespan starts a new watchdog task.
Restart(i) ==
    /\ ~up[i]
    /\ up' = [up EXCEPT ![i] = TRUE]
    /\ Goto(i, "sleep")
    /\ NoFault
    /\ UNCHANGED <<dbVars, oaVars, told, host, rebuild, mishap, job, todo, local>>

-----------------------------------------------------------------------------
\* What an executor does by itself, whichever it is.
ExecutorStep(e) ==
    BeginStep(e) \/ CallOA(e) \/ EndStep(e) \/ ReadStatus(e) \/ WriteStatus(e)

WatchdogStep(w) ==
    \/ Detect(w) \/ Claim(w) \/ Skip(w)
    \/ ReplayUnregistered(w) \/ ReplayUnparsable(w) \/ Replay(w)

Next ==
    \/ \E p \in Processes : Admit(p) \/ DriveRaises(p) \/ FinalizeLost(p)
    \/ \E e \in Executors : ExecutorStep(e)
    \/ \E w \in Instances : WatchdogStep(w) \/ RoundAborts(w) \/ WatchdogRaises(w)
    \/ \E p \in Processes : Expire(p) \/ LateArrives(p)
    \/ \E i \in Instances : Crash(i) \/ Restart(i)

Spec == Init /\ [][Next]_vars

(***************************************************************************)
(* The event loop runs every ready coroutine, HTTP calls end by their      *)
(* timeouts, time passes, and a stopped instance is started again.         *)
(* Nothing obliges a client to send a request or a fault to happen.        *)
(***************************************************************************)
Fairness ==
    /\ \A e \in Executors : WF_vars(ExecutorStep(e))
    /\ \A w \in Instances : WF_vars(WatchdogStep(w))
    /\ \A p \in Processes : WF_vars(OnProcess(p) = {} /\ Expire(p))
    /\ \A i \in Instances : WF_vars(Restart(i))

FairSpec == Spec /\ Fairness
-----------------------------------------------------------------------------
(***************************************************************************)
(* Properties.                                                             *)
(***************************************************************************)

\* "No re-run": whatever fails, crashes or overlaps, each forward call of the
\* plan is sent to OA at most once per process row; recovery replays the
\* recorded results instead of calling again (replay_steps).
NeverRerun ==
    \A p \in Processes : \A i, j \in DOMAIN calls[p] :
        i # j /\ calls[p][i] = calls[p][j] => calls[p][i] = "cancel"

\* The heartbeat of this row has not expired beside an executor at work, be it
\* by a slow step or by a lost heartbeat.
InTime(p) == "overdue" \notin mishap[p]

\* The heartbeat and the conditional UPDATE of acquire_recovery_lock keep two
\* executors from working on one row at a time, as long as the heartbeat has
\* not expired beside one at work (by a slow step, or because flush_heartbeat
\* failed and two steps in time add up to the timeout).
SingleExecutor ==
    \A p \in Processes : InTime(p) => \A e, f \in OnProcess(p) : e = f

\* What OA is sent for a row is a saga: the plan up to some step, in its order
\* and without a gap, and after that nothing but cancels, by whichever
\* executors.  So a compensation is the last word on the booking.  This, too,
\* as long as the heartbeat has not expired beside an executor at work.
CallsAreSaga ==
    \A p \in Processes : InTime(p) =>
        \E k \in 0 .. Len(Plan) : \A i \in DOMAIN calls[p] :
            calls[p][i] = IF i <= k THEN Plan[i] ELSE "cancel"

\* transition_status never moves a row out of a terminal status, although its
\* UPDATE tests nothing, as long as the heartbeat has not expired beside an
\* executor at work, by a slow step or by a lost heartbeat.
TerminalStable ==
    [][\A p \in Processes :
           InTime(p) /\ status[p] \in Terminal => status'[p] = status[p]]_vars

\* A compensation was recorded under the number of a step of the plan.
HidesMissingStep(p) ==
    \E r \in table[p] : r.act = "cancel" /\ r.st = "completed" /\ r.no <= Len(Plan)

\* A row that says completed stands for a booking that OA holds as active,
\* unless a compensation row hides a missing step from replay_steps, or the
\* heartbeat has expired beside an executor at work.
CompletedIsActive ==
    \A p \in Processes :
        /\ InTime(p)
        /\ status[p] = "completed"
        /\ ~HidesMissingStep(p)
        => booking[p] = "active"

\* The three steps of the plan have their completed rows.
Recorded(p) ==
    \A n \in 1 .. Len(Plan) :
        [no |-> n, act |-> Plan[n], st |-> "completed"] \in table[p]

\* The user was told of a success before _finalize ran.  No recovery takes it
\* back later if the three steps were recorded and the heartbeat has not
\* expired beside an executor at work.
SuccessStands ==
    \A p \in Processes :
        /\ InTime(p)
        /\ told[p] = "success"
        /\ Recorded(p)
        => /\ booking[p] = "active"
           /\ status[p] = "failed" => rebuild[p] = "unregistered"

\* A row that says failed although its submission was recorded has been
\* through a cancel: neither worker nor watchdog forgets the compensation
\* when it knows the booking, unless drive itself took the exception or the
\* heartbeat has expired beside an executor at work.
FailedWasCancelled ==
    \A p \in Processes :
        /\ mishap[p] = {}
        /\ rebuild[p] # "unregistered"
        /\ status[p] = "failed"
        /\ [no |-> 1, act |-> "submit", st |-> "completed"] \in table[p]
        => \E i \in DOMAIN calls[p] : calls[p][i] = "cancel"

\* No row stays running for ever: a crash, a failed finalize or a lost
\* connection only delays its terminal status.
RunningResolves ==
    \A p \in Processes : status[p] = "running" ~> status[p] \in Terminal

\* The mapping: a row is the promise's status, OA's state its booking.
Contract == INSTANCE ProcessContract WITH status <- status, booking <- booking

\* The engine keeps the promise of ProcessContract through any single fault
\* that is neither a slow step, nor a lost heartbeat, nor a late call
\* (RunningResolves is the rest of that promise).
KeepsContract == Contract!Safety

\* For the row of p the step is one that the promise allows.
ContractStep(p) ==
    \/ UNCHANGED <<status[p], booking[p]>>
    \/ Contract!Accept(p) \/ Contract!Work(p) \/ Contract!Resolve(p)

\* Through any number of faults a row whose heartbeat has not expired beside an
\* executor at work and that has no timed-out call on its way to OA leaves the
\* promise in one way only: a compensation row hides a missing step, and a
\* recovery completes the row.
RowsKeepContract ==
    [][\A p \in Processes :
           InTime(p) /\ late[p] = {} =>
               \/ ContractStep(p)
               \/ HidesMissingStep(p) /\ status'[p] = "completed"]_vars

\* An executor cancels only a booking that OA has: no one reaches the
\* compensation call without the id of an accepted submission.
CancelHasTarget ==
    \A e \in Executors :
        pc[e] \in {"begin", "call"} /\ local[e].act = "cancel"
            => booking[job[e]] # "none"

(***************************************************************************)
(* What the repository says of the program and the code does not do.       *)
(***************************************************************************)

\* "replay all succeeded" means that the process did complete.
CompletedNeverCancelled ==
    \A p \in Processes : status[p] = "completed" => booking[p] # "cancelled"

\* Every failure is compensated: no live booking under a failed row for which
\* OA was never asked to cancel.
FailedLeavesNothing ==
    \A p \in Processes :
        /\ status[p] = "failed"
        /\ \A i \in DOMAIN calls[p] : calls[p][i] # "cancel"
        => booking[p] \notin LiveBooking

\* One row that cannot be rebuilt does not keep the others from recovery.
OthersResolve ==
    \A p \in Processes : rebuild[p] # "unparsable" =>
        (status[p] = "running" ~> status[p] \in Terminal)
=============================================================================
