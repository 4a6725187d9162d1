-------------------------- MODULE ProcessContract --------------------------
(***************************************************************************)
(* What an admitted request is promised: its process row resolves exactly  *)
(* once; while it runs its booking goes through the plan in order or is    *)
(* withdrawn for good; completed means the booking is active; and nothing  *)
(* of it changes once the row is terminal.  Failed promises no more about  *)
(* the booking than that it is final: residue is left to reconciliation.   *)
(***************************************************************************)
CONSTANT Processes

VARIABLES status, booking

vars == <<status, booking>>

Init ==
    /\ status = [p \in Processes |-> "none"]
    /\ booking = [p \in Processes |-> "none"]

Accept(p) ==
    /\ status[p] = "none"
    /\ status' = [status EXCEPT ![p] = "running"]
    /\ UNCHANGED booking

\* The states one more accepted call may lead to.
NextBooking(b) ==
    CASE b = "none"      -> {"pending"}
      [] b = "pending"   -> {"approved", "cancelled"}
      [] b = "approved"  -> {"active", "cancelled"}
      [] b = "active"    -> {"cancelled"}
      [] b = "cancelled" -> {}

Work(p) ==
    /\ status[p] = "running"
    /\ \E b \in NextBooking(booking[p]) : booking' = [booking EXCEPT ![p] = b]
    /\ UNCHANGED status

Resolve(p) ==
    /\ status[p] = "running"
    /\ \/ /\ booking[p] = "active"
          /\ status' = [status EXCEPT ![p] = "completed"]
       \/ status' = [status EXCEPT ![p] = "failed"]
    /\ UNCHANGED booking

Next == \E p \in Processes : Accept(p) \/ Work(p) \/ Resolve(p)

Safety == Init /\ [][Next]_vars

\* Nobody waits for ever for an admitted request.
Resolution == \A p \in Processes : status[p] = "running" ~> status[p] # "running"

Spec == Safety /\ Resolution
=============================================================================
