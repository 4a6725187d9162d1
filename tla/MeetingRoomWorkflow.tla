------------------------ MODULE MeetingRoomWorkflow ------------------------
(***************************************************************************)
(* The one registered workflow (orchestrator/workflow/meeting_room.py) and *)
(* what its four calls do to the booking kept by the OA system             *)
(* (adapters/oa_adapter/oa_meeting_room.py).                               *)
(***************************************************************************)
EXTENDS Naturals, Sequences

\* The steps create() yields in its try block, in order.
Plan == <<"submit", "approve", "update">>

Forward == {"submit", "approve", "update"}

\* The forward calls and the one call of the except Compensate branch.
Actions == Forward \cup {"cancel"}

\* Position of a forward call in Plan: the step number drive() gives it.
Position(a) == CASE a = "submit"  -> 1
                 [] a = "approve" -> 2
                 [] a = "update"  -> 3

(***************************************************************************)
(* The booking of one process, as the OA system holds it: absent, waiting  *)
(* for approval, approved, with its use status set, or cancelled.          *)
(***************************************************************************)
BookingStates == {"none", "pending", "approved", "active", "cancelled"}

LiveBooking == {"pending", "approved", "active"}

\* Each endpoint overwrites the state; none of them checks the previous one.
Outcome(a) == CASE a = "submit"  -> "pending"
                [] a = "approve" -> "approved"
                [] a = "update"  -> "active"
                [] a = "cancel"  -> "cancelled"
=============================================================================
