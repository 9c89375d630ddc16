------------------------- MODULE S6PriceConfirmDocs -------------------------
(***************************************************************************)
(* What the documents and comments of hotel-ota-ai say of price            *)
(* confirmation and the code does not keep.                                *)
(***************************************************************************)
EXTENDS S6PriceConfirm

(* "S6 MUST NOT create duplicate pending tasks for the same platform       *)
(* product and business date": write_zhiting_price_tasks looks and inserts *)
(* in two steps.                                                           *)
NoDuplicatePending ==
    \A i, j \in DOMAIN tasks :
        /\ tasks[i].status = "PENDING" /\ tasks[j].status = "PENDING"
        /\ tasks[i].item.product = tasks[j].item.product
        => i = j

(* "Once any outbox task is created, do not leave the batch token          *)
(* reusable": the process of the batch counts the tasks it wrote itself.   *)
BatchTokenIsSpent ==
    \A t \in Tokens : rows[t].batch /\ Claimable(t) => WrittenOf(t) = {}

(* Writing a price is idempotent: one previewed item, one task.            *)
ItemsAreWrittenOnce ==
    \A i, j \in DOMAIN tasks : tasks[i].item = tasks[j].item => i = j

(* A rejected preview is kept "so a following plain confirmation is        *)
(* explainable": what a plain confirmation accepts is never older than the *)
(* requester's latest rejected preview.                                    *)
PlainFollowsLatest ==
    \A u \in Users, t \in Tokens, r \in Tokens :
        /\ t \in PlainChoice(u)
        /\ rows[r].status = "rejected" /\ rows[r].requester = u /\ r > lapsed
        => r < t
=============================================================================
