------------------------- MODULE ReviewReplyOutbox -------------------------
(***************************************************************************)
(* What the review-reply service promises to the browser plugin that       *)
(* consumes the table ota_review_reply_task: one row per review, a fixed   *)
(* life cycle, and at most one write per idempotency key.  S13ReviewReply  *)
(* is shown to implement this specification.                               *)
(***************************************************************************)
CONSTANTS Reviews,   \* physical reviews, the unique key of the table
          Replies,   \* reply texts
          Keys,      \* idempotency keys: records with fields review and content
          Stamps     \* values of created_at

VARIABLES row,       \* [Reviews -> row or NoRow]
          spent      \* keys whose write has been performed

outboxVars == <<row, spent>>

NoRow == [status |-> "absent"]

RowStatuses == {"pending", "processing", "success", "failed", "cancelled"}

OutboxRow == [status: RowStatuses, content: Replies, created: Stamps]

OutboxTypeOK == /\ row \in [Reviews -> OutboxRow \cup {NoRow}]
                /\ spent \subseteq Keys

OutboxInit == /\ row = [v \in Reviews |-> NoRow]
              /\ spent = {}

(* The row of key k's review becomes a pending row with key k's reply.  It *)
(* must be absent or have failed, and the key must not have been used.     *)
Write(k, t) ==
    /\ k \notin spent
    /\ row[k.review].status \in {"absent", "failed", "cancelled"}
    /\ row' = [row EXCEPT ![k.review] =
                  [status |-> "pending", content |-> k.content, created |-> t]]
    /\ spent' = spent \cup {k}

(* The plugin moves a row along; it never changes the reply, and a row     *)
(* that succeeded, failed or was cancelled is not the plugin's any more.   *)
Observe(v, s) ==
    /\ row[v].status \in {"pending", "processing"}
    /\ s \in {"processing", "success", "failed", "cancelled"}
    /\ row' = [row EXCEPT ![v].status = s]
    /\ UNCHANGED spent

OutboxNext == \/ \E k \in Keys, t \in Stamps : Write(k, t)
              \/ \E v \in Reviews, s \in RowStatuses : Observe(v, s)

OutboxSpec == OutboxInit /\ [][OutboxNext]_outboxVars
=============================================================================
