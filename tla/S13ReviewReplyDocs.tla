-------------------------- MODULE S13ReviewReplyDocs --------------------------
(***************************************************************************)
(* Statements of the S13 documents (skills/hotel-ota/s13-review-reply) that *)
(* the code does not keep: each is a property of S13ReviewReply that TLC   *)
(* refutes.                                                                *)
(***************************************************************************)
EXTENDS S13ReviewReply

(* references/rules.md:83, "once a new version is generated the old request *)
(* at once becomes invalidated_by_new_version": at most one request per ref *)
(* waits for a confirmation.  generate_draft invalidates, reads the version *)
(* and inserts in three transactions, so two of them overlap.              *)
OnePendingPerRef ==
    \A f \in Refs : \A r, q \in DraftsOf(f) :
        requests[r].status = "confirmation_pending" /\ requests[q].status = "confirmation_pending"
           => r = q

(* SKILL.md:160, "old drafts, confirmations, write attempts and failure    *)
(* reasons are kept in append-only logical events": a draft that a newer   *)
(* version invalidated has its event.  The ids of the events are read      *)
(* before the transaction that invalidates.                                *)
OldDraftsAreLogged ==
    \A r \in Requests : requests[r].status = "invalidated_by_new_version" =>
        [request |-> r, action |-> "invalidated_by_new_version"] \in events

(* SKILL.md:100-102, the state machine: only a confirmed request reaches   *)
(* fixed_task_dml; rejected, cancelled, expired and invalidated requests   *)
(* end.  confirm writes first and marks the request afterwards, so a       *)
(* request that was cancelled in between is written all the same.          *)
WrittenOnlyWhileStanding ==
    [][\A k \in wrote' \ wrote : \E r \in Requests :
          /\ Exists(r) /\ KeyOf(r, k.op) = k
          /\ requests[r].status \in {"confirmation_pending", "confirmed"}]_vars

(* SKILL.md:119, "a repeated delivery of the same confirmation is replayed *)
(* idempotently", and rules.md:150, "a timeout or repeated event is first  *)
(* reconciled by readback": whoever confirms a request whose write was     *)
(* performed is not told that another task is in the way.  confirm looks   *)
(* for an active row before it looks for its own attempt.                  *)
RedeliveryIsReplayed ==
    \A w \in Workers :
        wk[w].out = "active_conflict" /\ wk[w].op = "insert" /\ wk[w].req # None
            => KeyOf(wk[w].req, "insert") \notin wrote

(* rules.md:146, "failed/cancelled: a CAS retry once a new draft and a new *)
(* REQ are confirmed": a new request is not held up by the attempt of an   *)
(* older one.  The idempotency key names neither the request nor its ref,  *)
(* and versions start over with every ref.                                 *)
NewRequestMayRetry ==
    \A w \in Workers :
        wk[w].out = "reconciliation_unknown" /\ wk[w].op = "cas_retry"
            => attempts[KeyOf(wk[w].req, "cas_retry")].request = wk[w].req
=============================================================================
