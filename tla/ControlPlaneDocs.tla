-------------------------- MODULE ControlPlaneDocs --------------------------
(***************************************************************************)
(* What tests and documents expect of the control plane and overlapping    *)
(* messages do not keep: each is false of ControlPlane.                    *)
(***************************************************************************)
EXTENDS ControlPlane

(* tests/safety/test_chat_configuration_confirmation.py:144, "cancelled or *)
(* replayed chat confirmation never applies policy".  A cancellation that  *)
(* was read before the confirmation is written after it.                   *)
CancelledNeverApplies ==
    \A r \in Ids : requests[r].status = "cancelled" => ~ Applied(r)

(* openspec/changes/archive/2026-08-06-add-tenant-admin-control-plane-and- *)
(* production-hardening/design.md:17, "Audit events ... form a per-tenant  *)
(* hash chain", and tests/safety/test_configuration_card_audit.py:84       *)
(* asserts that it verifies.  Two refusals, or a refusal and a change,     *)
(* that overlap continue from the same event.                              *)
AuditChainVerifies == \A i \in DOMAIN audit : audit[i].prev = i - 1

(* A request that was confirmed says so for good.  One that is confirmed   *)
(* again after its time is marked expired.                                 *)
ConfirmedStays ==
    [][\A r \in Ids : requests[r].status = "confirmed" => requests'[r].status = "confirmed"]_vars

(* create_formal_price_approval and approve_formal_price_approval compare  *)
(* versions so that an approval is given on the policy in force.  Another  *)
(* policy may be confirmed between the comparison and the update.          *)
ApprovedOnActivePolicy ==
    [][\A r \in DOMAIN requests' :
          requests'[r].kind = "formal" /\ requests'[r].status = "confirmed"
             /\ requests[r].status = "pending" => requests[r].version = ActiveVersion]_vars
=============================================================================
