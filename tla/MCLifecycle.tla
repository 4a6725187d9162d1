---------------------------- MODULE MCLifecycle ----------------------------
(***************************************************************************)
(* Instances of ProcessLifecycle for TLC.                                  *)
(***************************************************************************)
EXTENDS ProcessLifecycle, TLC

\* Instances differ in nothing but their name.
InstanceSymmetry == Permutations(Instances)

CONSTANTS p1, p2

\* Every row can be rebuilt, or any row may be in any condition.
MCIntact == {[p \in Processes |-> "ok"]}
MCAnyRebuild == [Processes -> RebuildKinds]

\* Two rows, the second of a workflow that is gone, or with invalid input.
MCOneUnregistered == {(p1 :> "ok") @@ (p2 :> "unregistered")}
MCOneUnparsable == {(p1 :> "ok") @@ (p2 :> "unparsable")}
=============================================================================
