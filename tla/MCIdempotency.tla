--------------------------- MODULE MCIdempotency ---------------------------
(***************************************************************************)
(* Three requests race for one key, a fourth has none; the row of the key  *)
(* is settled by the worker, by a watchdog, or by both.  Rows of different *)
(* keys share nothing; that they do not matter to each other is left to    *)
(* the proofs.                                                             *)
(***************************************************************************)
EXTENDS IdempotencyGate

CONSTANTS r1, r2, r3, r4, k1

MCRequests == {r1, r2, r3, r4}
MCKeys == {k1}
MCKeyOf == [r \in MCRequests |-> IF r = r4 THEN NoKey ELSE k1]
=============================================================================
