--------------------------- MODULE AccessControl ---------------------------
(***************************************************************************)
(* The two gates a chat request passes before a workflow runs for it: its  *)
(* operator is authenticated (JwksCache), and when the model's answer has  *)
(* named the workflow, the dispatcher checks the operator's roles          *)
(* (RoleCache).  Each reads through an entry in redis; redis drops either  *)
(* entry when its time to live is over.                                    *)
(***************************************************************************)
EXTENDS JwksCache, RoleCache

vars == <<keyVars, roleVars>>

TypeOK == KeysTypeOK /\ RolesTypeOK

Init == KeysInit /\ RolesInit

\* DispatcherExecutor.execute asks for a request that get_current_operator let
\* in.
Dispatch(r) == auth[r] = "accepted" /\ Ask(r)

\* What runs as soon as the coroutine is resumed.
RequestStep(r) ==
    \/ AuthStep(r) /\ UNCHANGED roleVars
    \/ CheckStep(r) /\ UNCHANGED keyVars

KeysStep ==
    /\ Rotate \/ \E r \in Requests : Present(r) \/ AuthFails(r)
    /\ UNCHANGED roleVars

RolesStep ==
    /\ EditPolicy \/ Invalidate \/ \E r \in Requests : Dispatch(r) \/ CheckFails(r)
    /\ UNCHANGED keyVars

KeysTimeToLive == KeysExpire /\ UNCHANGED roleVars
RolesTimeToLive == RolesExpire /\ UNCHANGED keyVars

\* Refused, or answered: the next request takes the place of this one.
Respond(r) ==
    /\ auth[r] \in AuthOutcomes
    /\ ~Checking(r)
    /\ AuthReturn(r, "absent")
    /\ CheckReturn(r, "absent")
    /\ since' = [since EXCEPT ![r] = {}]
    /\ behind' = behind \ {r}
    /\ UNCHANGED <<published, jwks, rolePolicy, roles, suspect>>

Next ==
    \/ \E r \in Requests : RequestStep(r) \/ Respond(r)
    \/ KeysStep \/ RolesStep \/ KeysTimeToLive \/ RolesTimeToLive

Spec == Init /\ [][Next]_vars

(***************************************************************************)
(* A coroutine whose await is over runs, and redis drops an entry whose    *)
(* time to live is over.  Nothing makes requests arrive, the SSO rotate or *)
(* anybody call invalidate.                                                *)
(***************************************************************************)
FairSpec ==
    /\ Spec
    /\ \A r \in Requests : WF_vars(RequestStep(r))
    /\ WF_vars(KeysTimeToLive) /\ WF_vars(RolesTimeToLive)

-----------------------------------------------------------------------------
(***************************************************************************)
(* Properties of the two gates together.                                   *)
(***************************************************************************)

\* Every request that has entered a gate leaves it: no chain of refreshes,
\* rotations and expiries keeps it there.
RequestsGetThrough ==
    \A r \in Requests :
        /\ Authenticating(r) ~> ~Authenticating(r)
        /\ Checking(r) ~> ~Checking(r)
=============================================================================
