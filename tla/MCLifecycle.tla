---------------------------- MODULE MCLifecycle ----------------------------
(***************************************************************************)
(* Snapshots for the model-checked instances of Lifecycle.                  *)
(***************************************************************************)
EXTENDS Lifecycle, TLC

UnitSymmetry == Permutations(Units)

\* u1 leaves and comes back; the rate changes.
LeavingUser == {[users |-> UserIDs, rate |-> 1], [users |-> UserIDs \ {"u1"}, rate |-> 1],
                [users |-> UserIDs, rate |-> 2]}
=============================================================================
