--------------------------- MODULE MCControlPlane ---------------------------
(* Instances of ControlPlane for TLC. *)
EXTENDS ControlPlaneDocs, TLC

CONSTANTS a, o1, o2, m, w1, w2

TwoOwners == (a :> "none") @@ (o1 :> "owner") @@ (o2 :> "owner") @@ (m :> "none")

(* A newcomer becomes operator, and the second owner is lowered.            *)
RoleChanges == {[target |-> m, role |-> "operator"], [target |-> o2, role |-> "operator"]}

Interchangeable == Permutations(Workers)
=============================================================================
