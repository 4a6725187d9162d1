------------------------------ MODULE MCAccess ------------------------------
(***************************************************************************)
(* Two requests and a policy over one role, which only the first operator  *)
(* has.                                                                    *)
(***************************************************************************)
EXTENDS AccessControl, TLC

CONSTANTS r1, r2, hr

MCRequests == {r1, r2}
MCRoles == {hr}
MCRolesOf == (r1 :> {hr}) @@ (r2 :> {})
=============================================================================
