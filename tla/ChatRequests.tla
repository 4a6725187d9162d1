---------------------------- MODULE ChatRequests ----------------------------
(***************************************************************************)
(* The requests of POST /chat (api/router.py): each is one coroutine that  *)
(* authenticates, builds its prompts and runs one turn.                    *)
(***************************************************************************)
EXTENDS Naturals, FiniteSets

CONSTANT Requests
=============================================================================
