----------------------------- MODULE RoleCache -----------------------------
(***************************************************************************)
(* Who may run a workflow: the rows of workflow_role, read through a redis *)
(* entry (permission/permission.py), and the operations staff that edits   *)
(* the rows and then calls invalidate.                                     *)
(*                                                                         *)
(* One workflow, since each has an entry of its own.  A check awaits redis,*)
(* then the database, then redis again; edits, invalidate and other checks *)
(* may fall between.                                                       *)
(***************************************************************************)
EXTENDS RedisEntry

CONSTANTS
    Roles,     \* role names
    RolesOf    \* the roles of each request's operator

ASSUME RoleConstants ==
    /\ RolesOf \in [Requests -> SUBSET Roles]
    /\ \A S \in SUBSET Roles : S # NoEntry

VARIABLES
    policy,    \* the committed rows of workflow_role; {} admits everyone
    roles,     \* the cached set
    check,     \* where the check of a request stands, or its outcome
    seen,      \* the set a check has selected
    recent,    \* history: the policies in force since the last invalidate
    since,     \* history: the policies a check's answer may go by
    behind,    \* history: the checks about to write, or answered from, a set
               \* that was selected before an invalidate and outlives it
    suspect    \* history: the cached set was selected before the last
               \* invalidate, and written after it

rolePolicy == <<policy, recent>>
roleVars == <<rolePolicy, roles, check, seen, since, behind, suspect>>

\* error: an exception of redis or of the database leaves is_allowed.
CheckOutcomes == {"allowed", "denied", "error"}
CheckPlaces == {"absent", "get", "select", "fill"} \cup CheckOutcomes

Checking(r) == check[r] \in {"get", "select", "fill"}

RolesTypeOK ==
    /\ policy \in SUBSET Roles
    /\ roles = NoEntry \/ roles \in SUBSET Roles
    /\ check \in [Requests -> CheckPlaces]
    /\ seen \in [Requests -> SUBSET Roles]
    /\ recent \in SUBSET SUBSET Roles
    /\ since \in [Requests -> SUBSET SUBSET Roles]
    /\ behind \in SUBSET Requests
    /\ suspect \in BOOLEAN

RolesInit ==
    /\ policy \in SUBSET Roles
    /\ roles = NoEntry
    /\ check = [r \in Requests |-> "absent"]
    /\ seen = [r \in Requests |-> {}]
    /\ recent = {policy}
    /\ since = [r \in Requests |-> {}]
    /\ behind = {}
    /\ suspect = FALSE

-----------------------------------------------------------------------------
Ask(r) ==
    /\ check[r] = "absent"
    /\ check' = [check EXCEPT ![r] = "get"]
    /\ since' = [since EXCEPT ![r] = recent]
    /\ UNCHANGED <<rolePolicy, roles, seen, behind, suspect>>

\* is_allowed: an empty set admits every operator.
Admits(r, allowed) == allowed = {} \/ RolesOf[r] \cap allowed # {}

\* Mutant: a workflow without rows admits nobody.
AnswerStrictly(r, allowed) ==
    IF RolesOf[r] \cap allowed # {} THEN "allowed" ELSE "denied"

Answer(r, allowed) == IF Admits(r, allowed) THEN "allowed" ELSE "denied"

\* is_allowed returns or raises; what it had in hand is gone.
CheckReturn(r, outcome) ==
    /\ check' = [check EXCEPT ![r] = outcome]
    /\ seen' = [seen EXCEPT ![r] = {}]

\* redis.get; a cached empty set is an answer as well.
GetRoles(r) ==
    /\ check[r] = "get"
    /\ \/ /\ roles # NoEntry
          /\ CheckReturn(r, Answer(r, roles))
          /\ behind' = IF suspect THEN behind \cup {r} ELSE behind
       \/ /\ roles = NoEntry
          /\ check' = [check EXCEPT ![r] = "select"]
          /\ UNCHANGED <<seen, behind>>
    /\ UNCHANGED <<rolePolicy, roles, since, suspect>>

\* Mutant: the rows are cached as they come, not the role of each.
SelectRows(r) ==
    /\ check[r] = "select"
    /\ seen' = [seen EXCEPT ![r] = {<<role>> : role \in policy}]
    /\ check' = [check EXCEPT ![r] = "fill"]
    /\ UNCHANGED <<rolePolicy, roles, since, behind, suspect>>

\* The SELECT, in a transaction of its own.
SelectRoles(r) ==
    /\ check[r] = "select"
    /\ seen' = [seen EXCEPT ![r] = policy]
    /\ check' = [check EXCEPT ![r] = "fill"]
    /\ UNCHANGED <<rolePolicy, roles, since, behind, suspect>>

\* redis.set of what was selected, however long ago, then the answer.
FillRoles(r) ==
    /\ check[r] = "fill"
    /\ roles' = seen[r]
    /\ suspect' = (r \in behind)
    /\ behind' = behind \ {r}
    /\ CheckReturn(r, Answer(r, seen[r]))
    /\ UNCHANGED <<rolePolicy, since>>

CheckFails(r) ==
    /\ Checking(r)
    /\ CheckReturn(r, "error")
    /\ behind' = behind \ {r}
    /\ UNCHANGED <<rolePolicy, roles, since, suspect>>

\* A row of workflow_role is inserted or deleted.
EditPolicy ==
    /\ \E role \in Roles :
        policy' = IF role \in policy THEN policy \ {role} ELSE policy \cup {role}
    /\ recent' = recent \cup {policy'}
    /\ since' = [r \in Requests |->
                   IF Checking(r) THEN since[r] \cup {policy'} ELSE since[r]]
    /\ UNCHANGED <<roles, check, seen, behind, suspect>>

\* invalidate: the key is deleted; a fill on its way is not stopped.
Invalidate ==
    /\ roles' = NoEntry
    /\ suspect' = FALSE
    /\ recent' = {policy}
    /\ behind' = behind \cup {r \in Requests : check[r] = "fill"}
    /\ UNCHANGED <<policy, check, seen, since>>

\* Mutant: the entry is written without a time to live.
RolesStay == FALSE /\ UNCHANGED roleVars

\* workflow_role_cache_ttl has passed since the entry was written.
RolesExpire ==
    /\ roles # NoEntry
    /\ roles' = NoEntry
    /\ suspect' = FALSE
    /\ UNCHANGED <<rolePolicy, check, seen, since, behind>>

-----------------------------------------------------------------------------
CheckStep(r) == GetRoles(r) \/ SelectRoles(r) \/ FillRoles(r)
-----------------------------------------------------------------------------
(***************************************************************************)
(* Properties.                                                             *)
(***************************************************************************)

\* What is_allowed may answer a check, given the policies it may go by.
Answered(r) ==
    check[r] \in {"allowed", "denied"} =>
        \E allowed \in since[r] : (check[r] = "allowed") <=> Admits(r, allowed)

\* An operator is admitted or refused by a policy that was in force after the
\* last invalidate before the check, unless some fill had selected its rows
\* before an invalidate and wrote them after it: however the checks of one
\* workflow, the edits and the expiries fall between each other's awaits.
AnswerIsRecent == \A r \in Requests : r \notin behind => Answered(r)

\* A policy that is left alone is the one every entry holds in the end, even
\* if nobody calls invalidate or a late fill undoes it.
EntrySettles ==
    \A S \in SUBSET Roles :
        <>[](policy = S) => <>[](roles = NoEntry \/ roles = S)
=============================================================================
