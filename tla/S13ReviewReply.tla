--------------------------- MODULE S13ReviewReply ---------------------------
(***************************************************************************)
(* The review-reply protocol of hotel-ota-ai (runtime/s13): an operator    *)
(* lists reviews, asks for drafts, and confirms one of them; the confirmed *)
(* reply becomes a row of ota_review_reply_task, which a browser plugin    *)
(* publishes.  Every chat message or CLI call is served by a process of    *)
(* its own (a member of Workers) and every repository call of that process *)
(* is a transaction of its own, so commands interleave between any two of  *)
(* them and a process may die between any two of them.                     *)
(***************************************************************************)
EXTENDS Naturals

CONSTANTS
    Reviews,      \* physical reviews of one hotel, (channel_source, review_id)
    PlatformOf,   \* the platform each review is on
    Refs,         \* opaque REV-* tokens S12 may issue
    Requests,     \* REQ-* identifiers, uuid4 values that have not been used
    Contents,     \* reply texts: the template's or a human's
    Workers,      \* processes serving a command
    RefTTL,       \* DEFAULT_REF_TTL_SECONDS, in ticks of the model's clock
    ConfirmTTL,   \* CONFIRMATION_TTL_SECONDS, in ticks of the model's clock
    MaxTime,      \* bound: the clock stops here
    MaxSnapshot,  \* bound: source snapshots of a review
    MaxVersion,   \* bound: draft versions of a review ref
    Unconfigured, \* processes whose task writer is not configured
    WriterFails,  \* whether the task writer may be unavailable or lose an answer
    CanCrash,     \* whether a process may die between two transactions
    Reported,     \* bound: the answers to a command that are remembered
    Decisions,    \* bound: what a user decides against, of {"rejected", "cancelled"}
    Reports,      \* bound: the task states the plugin reports
    None          \* SQL NULL

ASSUME BoundAssumption ==
    /\ RefTTL \in Nat /\ ConfirmTTL \in Nat
    /\ MaxTime \in Nat /\ MaxSnapshot \in Nat /\ MaxVersion \in Nat
    /\ Unconfigured \subseteq Workers /\ WriterFails \in BOOLEAN /\ CanCrash \in BOOLEAN
    /\ Decisions \subseteq {"rejected", "cancelled"}
    /\ Reports \subseteq {"processing", "success", "failed", "cancelled"}

ASSUME NoneAssumption ==
    /\ None \notin Refs /\ None \notin Requests /\ None \notin Contents
    /\ None \notin Nat

VARIABLES
    now,       \* the clock the as-of time of a command is read from
    source,    \* latest snapshot of each review in the business database
    refs,      \* table s13_review_refs
    requests,  \* table s13_reply_requests
    events,    \* table s13_reply_events, without the hash links
    attempts,  \* table s13_write_attempts, by idempotency_key
    task,      \* table ota_review_reply_task, by its unique key
    wrote,     \* history: idempotency keys whose INSERT or UPDATE took effect
    wk         \* the serving processes and what they read so far

vars == <<now, source, refs, requests, events, attempts, task, wrote, wk>>
control == <<refs, requests, events, attempts>>   \* the control database
outbox == <<task, wrote>>

(***************************************************************************)
(* Tables                                                                  *)
(***************************************************************************)
Time == 0..MaxTime
Versions == 1..MaxVersion
WRITABLE_PLATFORMS == {"meituan", "dianping"}
Writable(v) == PlatformOf[v] \in WRITABLE_PLATFORMS

Absent == [status |-> "absent"]    \* no row under this key

SourceRow == [status: {"unreplied", "replied", "missing"}, snapshot: 0..MaxSnapshot]

RefRow == [status: {"active"}, review: Reviews, snapshot: 0..MaxSnapshot, expires: Nat]

TerminalStatuses ==
    {"confirmed", "rejected", "cancelled", "expired", "invalidated_by_new_version"}

RequestRow == [status: TerminalStatuses \cup {"confirmation_pending", "copy_only"},
               ref: Refs, version: Versions, content: Contents,
               created: Time, expires: Nat \cup {None}]

Operations == {"insert", "cas_retry"}

Keys == [review: Reviews, version: Versions, content: Contents, op: Operations]

AttemptStatuses == {"started", "verified", "failed"}
AttemptRow == [status: AttemptStatuses,
               recon: {"pending", "verified", "recovered", "conflict", "unknown"},
               request: Requests]

TASK_STATUSES == {"pending", "processing", "success", "failed", "cancelled"}

TaskRow == [status: TASK_STATUSES, content: Contents, created: Time]

EventRow == [request: Requests, action: TerminalStatuses \cup {"draft_created"}]

(***************************************************************************)
(* The serving processes                                                   *)
(***************************************************************************)
DraftSteps == {"draft_task", "draft_pending", "draft_invalidate", "draft_version",
               "draft_create"}
WriteSteps == {"write", "readback", "verify", "fail"}
CommandSteps == {"expire", "task", "attempt", "reconcile", "recover",
                 "transition"} \cup WriteSteps
Outcomes == {"none", "ok", "replayed", "blocked", "source_changed", "data_gap",
             "active_conflict", "already_handled", "blocked_escalation",
             "retry_required", "reconciliation_unknown", "write_failed",
             "integrity_error", "crashed"}

Process == [pc: {"idle"} \cup DraftSteps \cup CommandSteps,
            op: Operations, out: Outcomes,
            req: Requests \cup {None},        \* the request of confirm or retry
            ref: Refs \cup {None},            \* the ref a draft is for
            content: Contents \cup {None},    \* the candidate of a draft
            asof: Time,                       \* context.as_of_datetime
            old: SUBSET Requests,             \* the pending requests a draft replaces
            ver: Versions \cup {None},        \* latest_draft_version() + 1
            seen: TaskRow \cup {Absent},      \* the row retry compares with
            found: AttemptStatuses \cup {"none"},   \* of the attempt found under the key
            recon: {"none", "conflict", "unknown"}]  \* how the write failed

Idle == [pc |-> "idle", op |-> "insert", out |-> "none", req |-> None, ref |-> None,
         content |-> None, asof |-> 0, old |-> {}, ver |-> None, seen |-> Absent,
         found |-> "none", recon |-> "none"]

At(w, step) == wk[w].pc = step
Goto(w, step) == wk' = [wk EXCEPT ![w].pc = step]

(* What a finished command leaves behind: its answer, if the run asks for it. *)
Answered(out, r, op) ==
    IF out \in Reported THEN [Idle EXCEPT !.out = out, !.req = r, !.op = op] ELSE Idle
Return(w, out) == wk' = [wk EXCEPT ![w] = Answered(out, wk[w].req, wk[w].op)]

(***************************************************************************)
(* Queries                                                                 *)
(***************************************************************************)
Issued(f) == refs[f] # Absent
Exists(r) == requests[r] # Absent
ReviewOf(r) == refs[requests[r].ref].review

(* _idempotency_key: the request itself is not part of it. *)
KeyOf(r, op) == [review |-> ReviewOf(r), version |-> requests[r].version,
                 content |-> requests[r].content, op |-> op]
MyKey(w) == KeyOf(wk[w].req, wk[w].op)
MyReview(w) == ReviewOf(wk[w].req)
MyContent(w) == requests[wk[w].req].content

(* ORDER BY draft_version DESC, created_at DESC LIMIT 1: with equal versions *)
(* and equal seconds SQL promises no order, so each of the rows may be it.   *)
IsLatest(r) == \A q \in Requests :
    Exists(q) /\ requests[q].ref = requests[r].ref =>
        \/ requests[q].version < requests[r].version
        \/ /\ requests[q].version = requests[r].version
           /\ requests[q].created <= requests[r].created

DraftsOf(f) == {r \in Requests : Exists(r) /\ requests[r].ref = f}

(* COALESCE(MAX(draft_version), 0) over the drafts of f. *)
IsLatestVersion(f, n) ==
    /\ \A r \in DraftsOf(f) : requests[r].version <= n
    /\ n = 0 \/ \E r \in DraftsOf(f) : requests[r].version = n

SourceMatches(f) == /\ source[refs[f].review].status = "unreplied"
                    /\ source[refs[f].review].snapshot = refs[f].snapshot

(* UnavailableReviewTaskOutbox finds no row, whatever there is. *)
TaskSeenBy(w, v) == IF w \in Unconfigured THEN Absent ELSE task[v]

(* Mutant: an attempt that was begun is taken for a write that is there. *)
TrustedReadback(w) == TRUE

PendingReadback(w) == /\ TaskSeenBy(w, MyReview(w)).status = "pending"
                      /\ TaskSeenBy(w, MyReview(w)).content = MyContent(w)

(***************************************************************************)
(* Transactions of the control database                                    *)
(***************************************************************************)

(* transition_request: compare-and-set on the status, and the event in the *)
(* same transaction; otherwise no change, and the callers ignore which.    *)
(* Mutant: the UPDATE does not compare the status. *)
BlindTransition(r) == Exists(r)

MayTransition(r) == requests[r].status = "confirmation_pending"

Transition(r, new) ==
    \/ /\ MayTransition(r)
       /\ requests' = [requests EXCEPT ![r].status = new]
       /\ events' = events \cup {[request |-> r, action |-> new]}
    \/ /\ ~MayTransition(r)
       /\ UNCHANGED <<requests, events>>

(* Mutant: the UPDATE forgets its status condition. *)
InvalidateAll(f) == DraftsOf(f)

(* invalidate_pending_requests *)
ToInvalidate(f) == {r \in DraftsOf(f) : requests[r].status = "confirmation_pending"}

(* Mutant: without the UNIQUE key. *)
AttemptAlwaysFree(k) == TRUE

(* begin_write_attempt: the UNIQUE key decides who may write. *)
AttemptFree(k) == k \notin DOMAIN attempts

(* Mutant: the INSERT is never committed. *)
LoseAttempt(k, r) == UNCHANGED attempts

AddAttempt(k, r) ==
    attempts' = [x \in DOMAIN attempts \cup {k} |->
                    IF x = k THEN [status |-> "started", recon |-> "pending", request |-> r]
                             ELSE attempts[x]]

(* Mutants: the two columns are swapped; only success is recorded. *)
SwapColumns(k, status, recon) ==
    attempts' = [attempts EXCEPT ![k] = [@ EXCEPT !.status = recon, !.recon = status]]
RecordSuccessOnly(k, status, recon) ==
    attempts' = IF status = "failed" THEN attempts
                ELSE [attempts EXCEPT ![k] = [@ EXCEPT !.status = status, !.recon = recon]]

(* update_write_attempt: by write_attempt_id, whatever the status was. *)
UpdateAttempt(k, status, recon) ==
    attempts' = [attempts EXCEPT ![k] = [@ EXCEPT !.status = status, !.recon = recon]]

(* The INSERT of insert_pending and the UPDATE of cas_retry set the same columns. *)
WriteRow(w) ==
    /\ task' = [task EXCEPT ![MyReview(w)] =
                   [status |-> "pending", content |-> MyContent(w), created |-> wk[w].asof]]
    /\ wrote' = wrote \cup {MyKey(w)}

FailAs(w, recon, out) ==
    wk' = [wk EXCEPT ![w] = [@ EXCEPT !.pc = "fail", !.recon = recon, !.out = out]]

(***************************************************************************)
(* S12: list_pending and latest_pending issue a ref per unreplied review   *)
(***************************************************************************)
IssueReviewRef(f, v) ==
    /\ ~Issued(f)
    /\ source[v].status = "unreplied"
    /\ refs' = [refs EXCEPT ![f] = [status |-> "active", review |-> v,
                                    snapshot |-> source[v].snapshot,
                                    expires |-> now + RefTTL]]
    /\ UNCHANGED <<now, source, requests, events, attempts, outbox, wk>>

(***************************************************************************)
(* generate_draft and submit_human_draft                                   *)
(***************************************************************************)
(* The ref row and the source row only move forward, so reading both when  *)
(* the command starts lets through whatever reading them later does.       *)
StartDraft(w, f, c) ==
    LET refuse(out) == wk' = [wk EXCEPT ![w] = Answered(out, None, "insert")]
    IN  /\ At(w, "idle")
        /\ Issued(f)
        /\ \/ now > refs[f].expires /\ refuse("blocked")
           \/ refuse("data_gap")
           \/ ~SourceMatches(f) /\ refuse("source_changed")
           \/ /\ now <= refs[f].expires
              /\ SourceMatches(f)
              /\ wk' = [wk EXCEPT ![w] = [Idle EXCEPT !.pc = "draft_task", !.ref = f,
                                                      !.content = c, !.asof = now]]
        /\ UNCHANGED <<now, source, control, outbox>>

(* Reads the task row, then builds the candidate, which risk flags block. *)
DraftReadTask(w) ==
    LET v == refs[wk[w].ref].review
        row == TaskSeenBy(w, v)
        active == Writable(v) /\ row.status \in {"pending", "processing"}
        done == Writable(v) /\ row.status = "success"
    IN  /\ At(w, "draft_task")
        /\ \/ active /\ Return(w, "active_conflict")
           \/ done /\ Return(w, "already_handled")
           \/ ~active /\ ~done /\ Return(w, "blocked_escalation")
           \/ ~active /\ ~done /\ Goto(w, "draft_pending")
        /\ UNCHANGED <<now, source, control, outbox>>

(* invalidate_pending_requests is two steps: sqlite3 opens the transaction  *)
(* at the UPDATE, so the SELECT that collects the ids is not part of it.   *)
DraftReadPending(w) ==
    /\ At(w, "draft_pending")
    /\ wk' = [wk EXCEPT ![w] = [@ EXCEPT !.pc = "draft_invalidate",
                                        !.old = ToInvalidate(wk[w].ref)]]
    /\ UNCHANGED <<now, source, control, outbox>>

(* The UPDATE repeats the condition; the events are for the ids read before. *)
DraftInvalidate(w) ==
    /\ At(w, "draft_invalidate")
    /\ requests' = [r \in Requests |->
                       IF r \in ToInvalidate(wk[w].ref)
                       THEN [requests[r] EXCEPT !.status = "invalidated_by_new_version"]
                       ELSE requests[r]]
    /\ events' = events \cup {[request |-> r, action |-> "invalidated_by_new_version"] :
                                 r \in wk[w].old}
    /\ wk' = [wk EXCEPT ![w] = [@ EXCEPT !.pc = "draft_version", !.old = {}]]
    /\ UNCHANGED <<now, source, refs, attempts, outbox>>

DraftReadVersion(w) ==
    /\ At(w, "draft_version")
    /\ \E n \in {0} \cup {requests[r].version : r \in DraftsOf(wk[w].ref)} :
          /\ IsLatestVersion(wk[w].ref, n)
          /\ n + 1 \in Versions    \* bound
          /\ wk' = [wk EXCEPT ![w] = [@ EXCEPT !.pc = "draft_create", !.ver = n + 1]]
    /\ UNCHANGED <<now, source, control, outbox>>

DraftCreate(w, r) ==
    LET sealed == Writable(refs[wk[w].ref].review)
    IN  /\ At(w, "draft_create")
        /\ ~Exists(r)
        /\ requests' = [requests EXCEPT ![r] =
              [status |-> IF sealed THEN "confirmation_pending" ELSE "copy_only",
               ref |-> wk[w].ref, version |-> wk[w].ver, content |-> wk[w].content,
               created |-> wk[w].asof,
               expires |-> IF sealed THEN wk[w].asof + ConfirmTTL ELSE None]]
        /\ events' = events \cup {[request |-> r, action |-> "draft_created"]}
        /\ Return(w, "ok")
        /\ UNCHANGED <<now, source, refs, attempts, outbox>>

(***************************************************************************)
(* reject_or_cancel                                                        *)
(***************************************************************************)
RejectOrCancel(r, new) ==
    /\ Exists(r)
    /\ Transition(r, new)
    /\ UNCHANGED <<now, source, refs, attempts, outbox, wk>>

(***************************************************************************)
(* confirm (op = "insert") and retry (op = "cas_retry")                    *)
(***************************************************************************)

(* The replay of a confirmed request, then _request_and_record: the request *)
(* must be the latest of its ref, pending and not expired, and the exact     *)
(* review unchanged; then the platform and the owner-confirmation policy.    *)
(* The rows read here only move forward, so one read stands for all.         *)
StartConfirm(w, r, op) ==
    LET answer(out) == wk' = [wk EXCEPT ![w] = Answered(out, r, op)]
        begin(step) == wk' = [wk EXCEPT ![w] = [Idle EXCEPT !.pc = step, !.req = r,
                                                            !.op = op, !.asof = now]]
        sealed == requests[r].status = "confirmation_pending" /\ IsLatest(r)
        v == ReviewOf(r)
    IN  /\ At(w, "idle")
        /\ Exists(r)
        /\ \/ /\ requests[r].status = "confirmed"
              /\ answer(IF TaskSeenBy(w, v) = Absent THEN "write_failed" ELSE "replayed")
           \/ /\ requests[r].status # "confirmed" /\ ~sealed
              /\ answer("blocked")
           \/ sealed /\ now > requests[r].expires /\ begin("expire")
           \/ /\ sealed /\ now <= requests[r].expires
              /\ \/ answer("data_gap")
                 \/ source[v].status # "unreplied" /\ answer("already_handled")
                 \/ ~SourceMatches(requests[r].ref) /\ answer("source_changed")
                 \/ (op = "insert" \/ ~Writable(v)) /\ answer("blocked")
                 \/ SourceMatches(requests[r].ref) /\ Writable(v) /\ begin("task")
        /\ UNCHANGED <<now, source, control, outbox>>

ExpireRequest(w) ==
    /\ At(w, "expire")
    /\ Transition(wk[w].req, "expired")
    /\ Return(w, "blocked")
    /\ UNCHANGED <<now, source, refs, attempts, outbox>>

ReadTask(w) ==
    LET row == TaskSeenBy(w, MyReview(w))
        retriable == row.status \in {"failed", "cancelled"}
    IN  /\ At(w, "task")
        /\ \/ row.status \in {"pending", "processing"} /\ Return(w, "active_conflict")
           \/ row.status = "success" /\ Return(w, "already_handled")
           \/ retriable /\ wk[w].op = "insert" /\ Return(w, "retry_required")
           \/ row = Absent /\ wk[w].op = "cas_retry" /\ Return(w, "data_gap")
           \/ row = Absent /\ wk[w].op = "insert" /\ Goto(w, "attempt")
           \/ /\ retriable /\ wk[w].op = "cas_retry"
              /\ wk' = [wk EXCEPT ![w] = [@ EXCEPT !.pc = "attempt", !.seen = row]]
        /\ UNCHANGED <<now, source, control, outbox>>

(* A key that is free at the SELECT and taken at the INSERT raises.  The   *)
(* exception leaves no trace, so it is one of the outcomes of a taken key. *)
BeginWriteAttempt(w) ==
    LET k == MyKey(w)
    IN  /\ At(w, "attempt")
        /\ \/ /\ AttemptFree(k)
              /\ AddAttempt(k, wk[w].req)
              /\ Goto(w, "write")
           \/ /\ ~AttemptFree(k)
              /\ wk' = [wk EXCEPT ![w] =
                        [@ EXCEPT !.pc = "reconcile", !.found = attempts[k].status]]
              /\ UNCHANGED attempts
           \/ /\ ~AttemptFree(k)
              /\ Return(w, "integrity_error")
              /\ UNCHANGED attempts
        /\ UNCHANGED <<now, source, refs, requests, events, outbox>>

(* The key was used before: look whether its write is there. *)
Reconcile(w) ==
    /\ At(w, "reconcile")
    /\ \/ PendingReadback(w) /\ wk[w].op = "insert" /\ Goto(w, "recover")
       \/ PendingReadback(w) /\ wk[w].op = "cas_retry" /\ Return(w, "ok")
       \/ /\ ~PendingReadback(w)
          /\ IF wk[w].op = "insert" /\ wk[w].found = "verified" /\ TaskSeenBy(w, MyReview(w)) # Absent
             THEN Return(w, "ok")
             ELSE Return(w, "reconciliation_unknown")
    /\ UNCHANGED <<now, source, control, outbox>>

RecoverAttempt(w) ==
    /\ At(w, "recover")
    /\ UpdateAttempt(MyKey(w), "verified", "recovered")
    /\ Goto(w, "transition")
    /\ UNCHANGED <<now, source, refs, requests, events, outbox>>

(* insert_pending up to its commit; with the MySQL writer the statement or *)
(* the answer to its commit may be lost.                                   *)
InsertPending(w) ==
    LET row == task[MyReview(w)]
        configured == w \notin Unconfigured
    IN  /\ At(w, "write") /\ wk[w].op = "insert"
        /\ \/ /\ configured /\ row = Absent /\ WriteRow(w)
              /\ \/ Goto(w, "readback")
                 \/ WriterFails /\ FailAs(w, "unknown", "write_failed")
           \/ /\ configured /\ row # Absent
              /\ FailAs(w, "conflict", IF row.status \in {"pending", "processing"}
                                       THEN "active_conflict" ELSE "write_failed")
              /\ UNCHANGED outbox
           \/ /\ WriterFails \/ ~configured
              /\ FailAs(w, "unknown", "write_failed")
              /\ UNCHANGED outbox
        /\ UNCHANGED <<now, source, control>>

(* Mutant: the UPDATE is by id alone. *)
UpdateById(w) == TRUE

(* cas_retry compares status, reply_content and created_at with the row read. *)
CasMatches(w) == task[MyReview(w)] = wk[w].seen

CasRetry(w) ==
    /\ At(w, "write") /\ wk[w].op = "cas_retry"
    /\ \/ /\ CasMatches(w) /\ WriteRow(w)
          /\ \/ Goto(w, "readback")
             \/ WriterFails /\ FailAs(w, "conflict", "write_failed")
       \/ /\ ~CasMatches(w) \/ WriterFails
          /\ FailAs(w, "conflict", "write_failed")
          /\ UNCHANGED outbox
    /\ UNCHANGED <<now, source, control>>

(* The exact pending readback; the plugin may have moved the row already. *)
Readback(w) ==
    /\ At(w, "readback")
    /\ \/ PendingReadback(w) /\ Goto(w, "verify")
       \/ /\ ~PendingReadback(w)
          /\ FailAs(w, IF wk[w].op = "insert" THEN "unknown" ELSE "conflict", "write_failed")
    /\ UNCHANGED <<now, source, control, outbox>>

FailAttempt(w) ==
    /\ At(w, "fail")
    /\ UpdateAttempt(MyKey(w), "failed", wk[w].recon)
    /\ Return(w, wk[w].out)
    /\ UNCHANGED <<now, source, refs, requests, events, outbox>>

VerifyAttempt(w) ==
    /\ At(w, "verify")
    /\ UpdateAttempt(MyKey(w), "verified", "verified")
    /\ Goto(w, "transition")
    /\ UNCHANGED <<now, source, refs, requests, events, outbox>>

ConfirmRequest(w) ==
    /\ At(w, "transition")
    /\ Transition(wk[w].req, "confirmed")
    /\ Return(w, "ok")
    /\ UNCHANGED <<now, source, refs, attempts, outbox>>

(***************************************************************************)
(* The environment                                                         *)
(***************************************************************************)

(* The browser plugin, the other user of the task table. *)
PluginUpdates(v, s) ==
    /\ task[v].status \in {"pending", "processing"}
    /\ s # task[v].status
    /\ task' = [task EXCEPT ![v].status = s]
    /\ UNCHANGED <<now, source, control, wrote, wk>>

(* The crawler brings a new snapshot of a review, perhaps one that says it *)
(* is replied, or the review leaves the 60-day window.                     *)
SourceChanges(v, s) ==
    /\ source[v].status = "unreplied"
    /\ source[v].snapshot < MaxSnapshot
    /\ source' = [source EXCEPT ![v] = [status |-> s, snapshot |-> source[v].snapshot + 1]]
    /\ UNCHANGED <<now, control, outbox, wk>>

Tick == /\ now < MaxTime
        /\ now' = now + 1
        /\ UNCHANGED <<source, control, outbox, wk>>

Crash(w) == /\ CanCrash
            /\ ~At(w, "idle")
            /\ Return(w, "crashed")
            /\ UNCHANGED <<now, source, control, outbox>>

(***************************************************************************)
(* The specification                                                       *)
(***************************************************************************)
Init == /\ now = 0
        /\ source = [v \in Reviews |-> [status |-> "unreplied", snapshot |-> 0]]
        /\ refs = [f \in Refs |-> Absent]
        /\ requests = [r \in Requests |-> Absent]
        /\ events = {}
        /\ attempts = [k \in {} |-> Absent]
        /\ task = [v \in Reviews |-> Absent]
        /\ wrote = {}
        /\ wk = [w \in Workers |-> Idle]

Draft(w) == \/ DraftReadTask(w) \/ DraftReadPending(w) \/ DraftInvalidate(w)
            \/ DraftReadVersion(w) \/ \E r \in Requests : DraftCreate(w, r)

Confirm(w) == \/ ExpireRequest(w) \/ ReadTask(w)
              \/ BeginWriteAttempt(w) \/ Reconcile(w) \/ RecoverAttempt(w)
              \/ InsertPending(w) \/ CasRetry(w) \/ Readback(w)
              \/ FailAttempt(w) \/ VerifyAttempt(w) \/ ConfirmRequest(w)

User(w) == \/ \E f \in Refs, c \in Contents : StartDraft(w, f, c)
           \/ \E r \in Requests, op \in Operations : StartConfirm(w, r, op)

Environment == \/ \E f \in Refs, v \in Reviews : IssueReviewRef(f, v)
               \/ \E r \in Requests, s \in Decisions : RejectOrCancel(r, s)
               \/ \E v \in Reviews, s \in Reports : PluginUpdates(v, s)
               \/ \E v \in Reviews, s \in {"unreplied", "replied", "missing"} :
                     SourceChanges(v, s)
               \/ Tick

Next == \/ \E w \in Workers : Draft(w) \/ Confirm(w) \/ User(w) \/ Crash(w)
        \/ Environment

Spec == Init /\ [][Next]_vars

(* A command that was started runs on; nobody has to send another one. *)
FairSpec == Spec /\ \A w \in Workers : WF_vars(Draft(w) \/ Confirm(w))

(***************************************************************************)
(* Properties                                                              *)
(***************************************************************************)

(* Every variable has its type; in particular a request that waits for a   *)
(* confirmation has an expiry to compare with, and only a copy-only draft  *)
(* has none (create_request).                                              *)
TypeOK ==
    /\ now \in Time
    /\ source \in [Reviews -> SourceRow]
    /\ refs \in [Refs -> RefRow \cup {Absent}]
    /\ requests \in [Requests -> RequestRow \cup {Absent}]
    /\ \A r \in Requests : Exists(r) =>
          (requests[r].status = "copy_only" <=> requests[r].expires = None)
    /\ events \subseteq EventRow
    /\ DOMAIN attempts \subseteq Keys
    /\ attempts \in [DOMAIN attempts -> AttemptRow]
    /\ task \in [Reviews -> TaskRow \cup {Absent}]
    /\ wrote \subseteq Keys
    /\ wk \in [Workers -> Process]

(* Two processes never hold the same idempotency key between the attempt   *)
(* and its result: a confirmation delivered twice is written by one of     *)
(* them (begin_write_attempt).                                             *)
ExclusiveWriter ==
    \A w, x \in Workers :
        w # x /\ wk[w].pc \in WriteSteps /\ wk[x].pc \in WriteSteps => MyKey(w) # MyKey(x)

(* Whatever the interleaving of confirm, retry, recovery and crashes, the  *)
(* reply of a confirmed request was written to the task of its review, and *)
(* so was every reply a caller was told is submitted.                      *)
Written(r) == \E k \in wrote : k.review = ReviewOf(r) /\ k.content = requests[r].content

ConfirmedWasWritten ==
    /\ \A r \in Requests : requests[r].status = "confirmed" => Written(r)
    /\ \A w \in Workers : wk[w].out \in {"ok", "replayed"} /\ wk[w].req # None
                             => Written(wk[w].req)

(* No reply reaches the task table behind the back of the attempt log:     *)
(* every performed write has its attempt row, every task row has a         *)
(* performed write with its text, and an attempt is marked verified only   *)
(* when such a write was performed.                                        *)
WritesAccountedFor ==
    /\ wrote \subseteq DOMAIN attempts
    /\ \A v \in Reviews : task[v] # Absent =>
          \E k \in wrote : k.review = v /\ k.content = task[v].content
    /\ \A k \in DOMAIN attempts : attempts[k].status = "verified" =>
          \E j \in wrote : j.review = k.review /\ j.content = k.content

(* The event log tells what became of each request: a terminal event of    *)
(* transition_request is there iff the request has that status, and an     *)
(* invalidation is only logged for a request that is decided.  It may be   *)
(* logged for one that was confirmed in between, and be missing for one    *)
(* that was created in between (invalidate_pending_requests).              *)
AuditMatchesStatus ==
    \A r \in Requests :
        /\ [request |-> r, action |-> "draft_created"] \in events <=> Exists(r)
        /\ \A s \in TerminalStatuses \ {"invalidated_by_new_version"} :
              [request |-> r, action |-> s] \in events <=> requests[r].status = s
        /\ [request |-> r, action |-> "invalidated_by_new_version"] \in events
              => requests[r].status \in TerminalStatuses

(* A request that was confirmed, rejected, cancelled, expired or           *)
(* invalidated stays so, and what was sealed in it never changes.          *)
SealedRequests ==
    [][\A r \in Requests : Exists(r) =>
          /\ requests'[r] = [requests[r] EXCEPT !.status = requests'[r].status]
          /\ requests[r].status # "confirmation_pending" => requests'[r] = requests[r]
      ]_vars

(* The task table keeps its promises to the plugin: one row per review,    *)
(* only an absent, failed or cancelled row is written, a successful or     *)
(* active one never, and each idempotency key is spent at most once.       *)
Outbox == INSTANCE ReviewReplyOutbox WITH
              Replies <- Contents, Stamps <- Time, row <- task, spent <- wrote
OutboxContract == Outbox!OutboxSpec

(* What makes the above inductive.  A request never outlives its ref, and  *)
(* each process can rely on what its earlier steps established: its key is *)
(* in the attempt log from the attempt on and not spent before the write,  *)
(* the reply is written before anything says so, and a retry only replaces *)
(* a row it saw failed or cancelled.                                       *)
RefsOutliveRequests == \A r \in Requests : Exists(r) => Issued(requests[r].ref)

Relies(w) ==
    /\ At(w, "draft_create") => wk[w].ver \in Versions
    /\ wk[w].pc \in DraftSteps =>
          wk[w].ref # None /\ Issued(wk[w].ref) /\ wk[w].content # None /\ wk[w].req = None
    /\ wk[w].pc \in CommandSteps => wk[w].req # None
    /\ wk[w].req # None => Exists(wk[w].req)
    /\ wk[w].out \in {"ok", "replayed"} => At(w, "idle")
    /\ wk[w].pc \in WriteSteps \cup {"reconcile", "recover"} => MyKey(w) \in DOMAIN attempts
    /\ At(w, "write") => MyKey(w) \notin wrote
    /\ At(w, "fail") => wk[w].recon # "none"
    /\ wk[w].found # "none" => wk[w].pc \in CommandSteps
    /\ wk[w].pc \in {"recover", "verify", "transition"} \/ wk[w].found = "verified"
          => Written(wk[w].req)
    /\ wk[w].pc \in {"attempt", "write"} /\ wk[w].op = "cas_retry"
          => wk[w].seen.status \in {"failed", "cancelled"}

ProcessInv == RefsOutliveRequests /\ \A w \in Workers : Relies(w)

(* The ids a draft logs the invalidation of are requests of its own ref    *)
(* that waited for a confirmation when they were read, so the UPDATE       *)
(* invalidates those that are not decided yet.                             *)
DraftsRemember ==
    \A w \in Workers : \A r \in wk[w].old :
        Exists(r) /\ requests[r].ref = wk[w].ref /\ requests[r].status # "copy_only"

(* As long as no process dies, no write attempt stays unresolved: whatever *)
(* the writer answered and however fast the plugin was, confirm and retry  *)
(* record the result (update_write_attempt).                               *)
Unresolved(k) == k \in DOMAIN attempts /\ attempts[k].status = "started"

AttemptsResolve == \A k \in Keys : Unresolved(k) ~> ~Unresolved(k)
=============================================================================
