----------------------------- MODULE AtomicGate -----------------------------
(***************************************************************************)
(* What the gate of IdempotencyGate promises, as if each request were      *)
(* decided in one step: the first one of a key creates the row and         *)
(* executes; every other one is told the status the row has at that        *)
(* moment; a request may be refused, or end in an exception, which may     *)
(* leave a running row that nobody executes.                               *)
(***************************************************************************)
CONSTANTS Requests, Keys, NoKey, KeyOf

VARIABLES
    row,    \* the process row of a key, by its status
    given   \* what a request was given

vars == <<row, given>>

Init ==
    /\ row = [k \in Keys |-> "absent"]
    /\ given = [r \in Requests |-> "nothing"]

Give(r, answer) ==
    /\ given[r] = "nothing"
    /\ given' = [given EXCEPT ![r] = answer]

Create(k) == row[k] = "absent" /\ row' = [row EXCEPT ![k] = "running"]

Admit(r) ==
    /\ Give(r, "execution")
    /\ \/ KeyOf[r] = NoKey /\ UNCHANGED row
       \/ KeyOf[r] # NoKey /\ Create(KeyOf[r])

Tell(r) ==
    /\ KeyOf[r] # NoKey
    /\ row[KeyOf[r]] # "absent"
    /\ Give(r, row[KeyOf[r]])
    /\ UNCHANGED row

Refuse(r) == Give(r, "denied") /\ UNCHANGED row

Raise(r) ==
    /\ Give(r, "exception")
    /\ \/ UNCHANGED row
       \/ KeyOf[r] # NoKey /\ Create(KeyOf[r])

\* An outcome may be put in the place of another one.
Settle(k) ==
    /\ row[k] # "absent"
    /\ \E status \in {"completed", "failed"} :
           row' = [row EXCEPT ![k] = status]
    /\ UNCHANGED given

Next ==
    \/ \E r \in Requests : Admit(r) \/ Tell(r) \/ Refuse(r) \/ Raise(r)
    \/ \E k \in Keys : Settle(k)

Spec == Init /\ [][Next]_vars
=============================================================================
