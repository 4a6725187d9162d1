-------------------------- MODULE IdempotencyGate --------------------------
(***************************************************************************)
(* How a tool call becomes a process row, or does not: dispatcher.execute  *)
(* up to the workflow, IdempotencyChecker.check and acquire_or_create.     *)
(*                                                                         *)
(* Requests race for the unique index on idempotency_key.  A request that  *)
(* finds no row inserts one in the same transaction; the row is visible to *)
(* others after the commit, but the index entry makes a second inserter    *)
(* of the key wait until the first transaction ends.                       *)
(*                                                                         *)
(* Idempotency keys are taken as distinct for distinct business keys: with *)
(* the one registered process_key (20 characters) and a business_key       *)
(* column of 128, build_idempotency_key never truncates at 160.            *)
(***************************************************************************)
EXTENDS Naturals, FiniteSets

CONSTANTS
    Requests,   \* dispatched tool calls
    Keys,       \* idempotency keys
    NoKey,      \* what business_key() returns for "no idempotency"
    KeyOf,      \* the key of each request
    Settlers,   \* who may settle a row: its _finalize and watchdogs
    MaxFaults   \* bound: failing transactions in one behaviour

ASSUME GateConstants ==
    /\ KeyOf \in [Requests -> Keys \cup {NoKey}]
    /\ NoKey \notin Keys
    /\ MaxFaults \in Nat

VARIABLES
    row,       \* the committed process row of a key, by its status
    insert,    \* requests whose uncommitted INSERT holds the index entry
    at,        \* where a request stands
    reply,     \* the WorkflowResult the dispatcher gave it
    settling,  \* the status each settler is about to write, having read the row
    contended, \* history: keys whose row was read by a settler before another
               \* one, which had read it, wrote
    faults

gateVars == <<insert, at, reply>>
settleVars == <<settling, contended>>
vars == <<row, gateVars, settleVars, faults>>

Verdicts == {"completed", "failed"}
RowStates == {"absent", "running"} \cup Verdicts
Places == {"arrived", "find", "insert", "commit", "refind",
           "execute", "executed", "answered", "raised"}
Replies == {"none", "denied", "hit_completed", "hit_running", "hit_failed",
            "unfound", "result"}

\* The request has been let through to the workflow.
Admitted(r) == at[r] \in {"execute", "executed"}

\* Types; in particular every answer is one of _check_process or of execute.
TypeOK ==
    /\ row \in [Keys -> RowStates]
    /\ insert \in SUBSET Requests
    /\ at \in [Requests -> Places]
    /\ reply \in [Requests -> Replies]
    /\ settling \in [Keys -> [Settlers -> {"none"} \cup Verdicts]]
    /\ contended \in SUBSET Keys
    /\ faults \in Nat

Init ==
    /\ row = [k \in Keys |-> "absent"]
    /\ insert = {}
    /\ at = [r \in Requests |-> "arrived"]
    /\ reply = [r \in Requests |-> "none"]
    /\ settling = [k \in Keys |-> [w \in Settlers |-> "none"]]
    /\ contended = {}
    /\ faults = 0

Goto(r, place) == at' = [at EXCEPT ![r] = place]

Fault == faults < MaxFaults /\ faults' = faults + 1

Answer(r, result) ==
    /\ Goto(r, "answered")
    /\ reply' = [reply EXCEPT ![r] = result]

-----------------------------------------------------------------------------
\* No operator, or none of its roles is allowed to run the workflow.
Deny(r) ==
    /\ at[r] = "arrived"
    /\ Answer(r, "denied")
    /\ UNCHANGED <<row, insert, settleVars, faults>>

\* Without a business key there is no row and no gate.
Route(r) ==
    /\ at[r] = "arrived"
    /\ Goto(r, IF KeyOf[r] = NoKey THEN "execute" ELSE "find")
    /\ UNCHANGED <<row, insert, reply, settleVars, faults>>

\* Mutant: the status itself is taken for the decision.
HitRaw(status) == status

\* _check_process: the answer for a row that exists already.
Hit(status) == CASE status = "completed" -> "hit_completed"
                 [] status = "running"   -> "hit_running"
                 [] status = "failed"    -> "hit_failed"
                 [] status = "absent"    -> "unfound"

\* The first SELECT of acquire_or_create.
Find(r) ==
    /\ at[r] = "find"
    /\ IF row[KeyOf[r]] = "absent"
       THEN Goto(r, "insert") /\ UNCHANGED reply
       ELSE Answer(r, Hit(row[KeyOf[r]]))
    /\ UNCHANGED <<row, insert, settleVars, faults>>

IndexFree(k) == \A s \in insert : KeyOf[s] # k

\* Mutant: the index entry of an uncommitted row stops nobody.
InsertUnlocked(r) ==
    /\ at[r] = "insert"
    /\ IF row[KeyOf[r]] = "absent"
       THEN insert' = insert \cup {r} /\ Goto(r, "commit")
       ELSE Goto(r, "refind") /\ UNCHANGED insert
    /\ UNCHANGED <<row, reply, settleVars, faults>>

\* Mutant: waiting for another inserter counts as a collision.
InsertNoWait(r) ==
    /\ at[r] = "insert"
    /\ IF row[KeyOf[r]] = "absent" /\ IndexFree(KeyOf[r])
       THEN insert' = insert \cup {r} /\ Goto(r, "commit")
       ELSE Goto(r, "refind") /\ UNCHANGED insert
    /\ UNCHANGED <<row, reply, settleVars, faults>>

\* flush(): the INSERT waits for another inserter of the key, then succeeds
\* or hits the committed row; IntegrityError rolls the transaction back.
Insert(r) ==
    /\ at[r] = "insert"
    /\ IndexFree(KeyOf[r])
    /\ IF row[KeyOf[r]] = "absent"
       THEN insert' = insert \cup {r} /\ Goto(r, "commit")
       ELSE Goto(r, "refind") /\ UNCHANGED insert
    /\ UNCHANGED <<row, reply, settleVars, faults>>

\* db_session() commits on leaving the block: the request is the first one.
Commit(r) ==
    /\ at[r] = "commit"
    /\ row' = [row EXCEPT ![KeyOf[r]] = "running"]
    /\ insert' = insert \ {r}
    /\ Goto(r, "execute")
    /\ UNCHANGED <<reply, settleVars, faults>>

\* Mutant: a collision is taken to mean that the other one is running.
RefindAssumed(r) ==
    /\ at[r] = "refind"
    /\ Answer(r, "hit_running")
    /\ UNCHANGED <<row, insert, settleVars, faults>>

\* The SELECT after the rollback, in a transaction of its own.
Refind(r) ==
    /\ at[r] = "refind"
    /\ Answer(r, Hit(row[KeyOf[r]]))
    /\ UNCHANGED <<row, insert, settleVars, faults>>

\* Mutant: a failing transaction leaves its INSERT behind.
TransactionLeaks(r) ==
    /\ at[r] \in {"arrived", "find", "insert", "commit", "refind"}
    /\ Fault
    /\ Goto(r, "raised")
    /\ UNCHANGED <<row, insert, reply, settleVars>>

\* A transaction fails and the exception leaves dispatcher.execute; a commit
\* may have reached the database all the same.
TransactionFails(r) ==
    /\ at[r] \in {"arrived", "find", "insert", "commit", "refind"}
    /\ Fault
    /\ Goto(r, "raised")
    /\ insert' = insert \ {r}
    /\ \/ UNCHANGED row
       \/ /\ at[r] = "commit"
          /\ row' = [row EXCEPT ![KeyOf[r]] = "running"]
    /\ UNCHANGED <<reply, settleVars>>

\* The workflow's own WorkflowResult is passed on before _finalize runs.
Execute(r) ==
    /\ at[r] = "execute"
    /\ Goto(r, "executed")
    /\ reply' = [reply EXCEPT ![r] = "result"]
    /\ UNCHANGED <<row, insert, settleVars, faults>>

(***************************************************************************)
(* transition_status, from _finalize or from a watchdog's downgrade        *)
(* (module ProcessLifecycle): a SELECT, a test in Python, and an UPDATE by *)
(* id that tests nothing, in a transaction that may fail.                  *)
(***************************************************************************)

Pending(k) == {w \in Settlers : settling[k][w] # "none"}

ReadToSettle(k, w) ==
    /\ settling[k][w] = "none"
    /\ \E verdict \in Verdicts : settling' = [settling EXCEPT ![k][w] = verdict]
    /\ contended' = IF Pending(k) = {} THEN contended ELSE contended \cup {k}
    /\ UNCHANGED <<row, gateVars, faults>>

\* Mutant: the status that the row has is not looked at.
SettleUntested(k, w) == row[k] # "absent" /\ ReadToSettle(k, w)

SettleRead(k, w) == row[k] = "running" /\ ReadToSettle(k, w)

SettleEnds(k, w) ==
    /\ settling[k][w] # "none"
    /\ settling' = [settling EXCEPT ![k][w] = "none"]
    /\ UNCHANGED <<gateVars, contended>>

SettleWrite(k, w) ==
    /\ SettleEnds(k, w)
    /\ row' = [row EXCEPT ![k] = settling[k][w]]
    /\ UNCHANGED faults

SettleFails(k, w) ==
    /\ SettleEnds(k, w)
    /\ Fault
    /\ UNCHANGED row

Settle(k, w) == SettleRead(k, w) \/ SettleWrite(k, w) \/ SettleFails(k, w)

-----------------------------------------------------------------------------
RequestStep(r) ==
    Deny(r) \/ Route(r) \/ Find(r) \/ Insert(r) \/ Commit(r) \/ Refind(r) \/ Execute(r)

Next ==
    \/ \E r \in Requests : RequestStep(r) \/ TransactionFails(r)
    \/ \E k \in Keys, w \in Settlers : Settle(k, w)

Spec == Init /\ [][Next]_vars

\* Every coroutine that is ready runs; a transaction that waits for an index
\* entry is woken when the entry is released.
FairSpec == Spec /\ \A r \in Requests : WF_vars(RequestStep(r))

-----------------------------------------------------------------------------
(***************************************************************************)
(* Properties.                                                             *)
(***************************************************************************)

\* Of all the requests that ever carry one key, at most one executes the
\* workflow, however they race and whichever transactions fail.
OneExecution ==
    \A r, s \in Requests :
        Admitted(r) /\ Admitted(s) /\ KeyOf[r] = KeyOf[s] /\ KeyOf[r] # NoKey
            => r = s

\* The second SELECT always finds the row that caused the collision: "refused,
\* conflict and not found" is never the answer.
CollisionIsFound == \A r \in Requests : reply[r] # "unfound"

\* A request that was told of an outcome was told the one that stands, unless
\* two settlements of the row overlapped, the one reading it before the other
\* wrote; and one that was refused as running has a row behind it.
HitIsTrue ==
    \A r \in Requests :
        /\ reply[r] = "hit_completed" /\ KeyOf[r] \notin contended =>
               row[KeyOf[r]] = "completed"
        /\ reply[r] = "hit_failed" /\ KeyOf[r] \notin contended =>
               row[KeyOf[r]] = "failed"
        /\ reply[r] = "hit_running" => row[KeyOf[r]] # "absent"

\* An INSERT that waits for the index entry waits for a request that is about
\* to commit, never for one that has left the gate or waits itself: waiting
\* for the entry can neither be in vain nor go round in a circle.
WaitsForCommit ==
    \A r \in Requests :
        at[r] = "insert" /\ ~IndexFree(KeyOf[r]) =>
            \E s \in insert : KeyOf[s] = KeyOf[r] /\ at[s] = "commit"

\* The mapping: until it has left the table a request has been given nothing,
\* however many transactions it has gone through.
Given(r) ==
    CASE Admitted(r)                     -> "execution"
      [] at[r] = "raised"                -> "exception"
      [] reply[r] = "denied"             -> "denied"
      [] reply[r] = "hit_completed"      -> "completed"
      [] reply[r] = "hit_running"        -> "running"
      [] reply[r] = "hit_failed"         -> "failed"
      [] reply[r] = "unfound"            -> "unfound"
      [] OTHER                           -> "nothing"

Atomic == INSTANCE AtomicGate
              WITH row <- row, given <- [r \in Requests |-> Given(r)]

\* The SELECT, the INSERT, the wait, the rollback and the second SELECT look
\* from outside like one atomic decision on the row as it is at that moment.
ImplementsAtomicGate == Atomic!Spec

\* Every request leaves the gate: waiting for another inserter ends when that
\* transaction commits or fails.
EveryRequestLeaves ==
    \A r \in Requests :
        <>(at[r] \in {"executed", "answered", "raised"})
=============================================================================
