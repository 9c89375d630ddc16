------------------------ MODULE S13ReviewReplyProofs ------------------------
(***************************************************************************)
(* Proofs about S13ReviewReply, for every number of processes, requests,   *)
(* refs, reviews and reply texts and for every bound.                      *)
(***************************************************************************)
EXTENDS S13ReviewReply, TLAPS

-----------------------------------------------------------------------------
(* What the tables never lose.                                             *)

Sealed(r) == requests'[r] = [requests[r] EXCEPT !.status = requests'[r].status]

(* transition_request changes the status of one pending request. *)
LEMMA TransitionSeals ==
    ASSUME NEW x \in Requests, NEW new \in TerminalStatuses,
           requests \in [Requests -> RequestRow \cup {Absent}],
           Transition(x, new)
    PROVE  /\ requests' \in [Requests -> RequestRow \cup {Absent}]
           /\ \A r \in Requests : Exists(r) =>
                 /\ Exists(r)' /\ Sealed(r)
                 /\ requests[r].status # "confirmation_pending" => requests'[r] = requests[r]
<1>1. CASE MayTransition(x) /\ requests' = [requests EXCEPT ![x].status = new]
  <2>1. requests[x] \in RequestRow /\ new # "absent"
    BY <1>1 DEF MayTransition, Absent, TerminalStatuses
  <2>2. [requests[x] EXCEPT !.status = new] \in RequestRow
    BY <2>1 DEF RequestRow, TerminalStatuses
  <2>3. requests'[x] # Absent
    BY <1>1, <2>2 DEF RequestRow, Absent, TerminalStatuses
  <2> QED
    BY <1>1, <2>1, <2>2, <2>3 DEF Exists, Sealed, MayTransition, RequestRow
<1>2. CASE requests' = requests
  <2>1. \A r \in Requests : Exists(r) => requests[r] \in RequestRow
    BY DEF Exists
  <2>2. \A r \in Requests : Exists(r) => Sealed(r)
    BY <1>2, <2>1 DEF Sealed, RequestRow
  <2> QED BY <1>2, <2>2 DEF Exists
<1> QED BY <1>1, <1>2 DEF Transition

(* invalidate_pending_requests does the same to all pending drafts of a ref. *)
LEMMA InvalidateSeals ==
    ASSUME NEW w \in Workers, TypeOK, DraftInvalidate(w)
    PROVE  /\ requests' \in [Requests -> RequestRow \cup {Absent}]
           /\ \A r \in Requests : Exists(r) =>
                 /\ Exists(r)' /\ Sealed(r)
                 /\ requests[r].status # "confirmation_pending" => requests'[r] = requests[r]
           /\ \A r \in Requests : Exists(r)' => Exists(r)
<1> DEFINE new == "invalidated_by_new_version"
<1>1. ASSUME NEW r \in Requests
      PROVE  \/ requests'[r] = requests[r]
             \/ /\ Exists(r) /\ requests[r].status = "confirmation_pending"
                /\ requests'[r] = [requests[r] EXCEPT !.status = new]
  BY DEF DraftInvalidate, ToInvalidate, DraftsOf
<1>2. ASSUME NEW r \in Requests, Exists(r)
      PROVE  /\ requests[r] \in RequestRow
             /\ [requests[r] EXCEPT !.status = new] \in RequestRow
  <2>1. requests[r] \in RequestRow
    BY <1>2 DEF TypeOK, Exists
  <2> QED BY <2>1 DEF RequestRow, TerminalStatuses
<1>3. \A r \in RequestRow : r # Absent
  BY DEF RequestRow, Absent, TerminalStatuses
<1>4. ASSUME NEW r \in Requests, Exists(r)
      PROVE  /\ requests'[r] \in RequestRow /\ Exists(r)' /\ Sealed(r)
             /\ requests[r].status # "confirmation_pending" => requests'[r] = requests[r]
  BY <1>1, <1>2, <1>3, <1>4 DEF Exists, Sealed, RequestRow
<1>5. ASSUME NEW r \in Requests, ~Exists(r)
      PROVE  requests'[r] = Absent
  BY <1>1, <1>5 DEF Exists
<1>6. requests' = [r \in Requests |-> requests'[r]]
  BY DEF DraftInvalidate
<1> QED BY <1>4, <1>5, <1>6 DEF Exists

(* create_request writes a row that was not there. *)
LEMMA CreateIsTyped ==
    ASSUME NEW w \in Workers, NEW r \in Requests, TypeOK, ProcessInv, DraftCreate(w, r)
    PROVE  /\ requests' \in [Requests -> RequestRow \cup {Absent}]
           /\ requests'[r] \in RequestRow
           /\ \A q \in Requests : q # r => requests'[q] = requests[q]
           /\ requests'[r].status = "copy_only" <=> requests'[r].expires = None
           /\ requests'[r].status \in {"copy_only", "confirmation_pending"}
           /\ requests'[r].ref = wk[w].ref /\ Issued(wk[w].ref)
<1>1. /\ wk[w].ref \in Refs /\ wk[w].ver \in Versions /\ wk[w].content \in Contents
      /\ wk[w].asof \in Time /\ Issued(wk[w].ref)
  BY DEF TypeOK, ProcessInv, Relies, Process, DraftCreate, At, DraftSteps
<1>2. wk[w].asof + ConfirmTTL \in Nat
  BY <1>1, BoundAssumption DEF Time
<1> QED
  BY <1>1, <1>2, NoneAssumption DEF DraftCreate, TypeOK, RequestRow, TerminalStatuses

-----------------------------------------------------------------------------
(* The tables only move forward: an issued ref and the sealed part of a    *)
(* request never change, and what was written stays written.               *)
Stable ==
    /\ \A f \in Refs : Issued(f) => refs'[f] = refs[f]
    /\ \A r \in Requests : Exists(r) =>
          /\ Exists(r)' /\ Sealed(r)
          /\ requests[r].status # "confirmation_pending" => requests'[r] = requests[r]
    /\ wrote \subseteq wrote'

LEMMA SameRequests ==
    ASSUME TypeOK, requests' = requests
    PROVE  \A r \in Requests : Exists(r) => Exists(r)' /\ Sealed(r)
<1>1. \A r \in Requests : Exists(r) => requests[r] \in RequestRow
  BY DEF TypeOK, Exists
<1> QED BY <1>1 DEF Exists, Sealed, RequestRow

LEMMA NextIsStable == TypeOK /\ ProcessInv /\ [Next]_vars => Stable
<1> SUFFICES ASSUME TypeOK, ProcessInv, [Next]_vars PROVE Stable
  OBVIOUS
<1> USE DEF control, outbox
<1>1. ASSUME UNCHANGED <<refs, requests, wrote>> PROVE Stable
  BY <1>1, SameRequests DEF Stable
<1>2. ASSUME NEW w \in Workers, Draft(w) PROVE Stable
  <2>1. CASE DraftInvalidate(w)
    BY <2>1, InvalidateSeals DEF DraftInvalidate, Stable
  <2>2. ASSUME NEW r \in Requests, DraftCreate(w, r) PROVE Stable
    <3>1. \A q \in Requests : Exists(q) => q # r /\ requests'[q] = requests[q]
      BY <2>2, CreateIsTyped DEF DraftCreate
    <3>2. \A q \in Requests : Exists(q) => requests[q] \in RequestRow
      BY DEF TypeOK, Exists
    <3> QED BY <2>2, <3>1, <3>2 DEF DraftCreate, Stable, Exists, Sealed, RequestRow
  <2> QED
    BY <1>1, <1>2, <2>1, <2>2 DEF Draft, DraftReadTask, DraftReadPending, DraftReadVersion
<1>3. ASSUME NEW w \in Workers, Confirm(w) PROVE Stable
  <2>1. ASSUME NEW x \in Requests, NEW new \in TerminalStatuses, Transition(x, new),
               UNCHANGED <<refs, wrote>>
        PROVE  Stable
    BY <2>1, TransitionSeals DEF Stable, TypeOK
  <2>2. CASE ExpireRequest(w)
    <3>1. wk[w].req \in Requests
      BY <2>2 DEF ExpireRequest, At, ProcessInv, Relies, CommandSteps, TypeOK, Process
    <3> QED BY <2>1, <2>2, <3>1 DEF ExpireRequest, TerminalStatuses
  <2>3. CASE ConfirmRequest(w)
    <3>1. wk[w].req \in Requests
      BY <2>3 DEF ConfirmRequest, At, ProcessInv, Relies, CommandSteps, TypeOK, Process
    <3> QED BY <2>1, <2>3, <3>1 DEF ConfirmRequest, TerminalStatuses
  <2>4. ASSUME UNCHANGED <<refs, requests>>, WriteRow(w) PROVE Stable
    BY <2>4, SameRequests DEF WriteRow, Stable
  <2> QED
    BY <1>1, <1>3, <2>2, <2>3, <2>4
    DEF Confirm, ReadTask, BeginWriteAttempt, Reconcile, RecoverAttempt, InsertPending,
        CasRetry, Readback, FailAttempt, VerifyAttempt
<1>4. ASSUME NEW w \in Workers, User(w) \/ Crash(w) PROVE Stable
  BY <1>1, <1>4 DEF User, StartDraft, StartConfirm, Crash
<1>5. CASE Environment
  <2>1. ASSUME NEW f \in Refs, NEW v \in Reviews, IssueReviewRef(f, v) PROVE Stable
    BY <2>1, SameRequests DEF IssueReviewRef, Stable, Issued
  <2>2. ASSUME NEW r \in Requests, NEW s \in Decisions, RejectOrCancel(r, s) PROVE Stable
    <3>1. s \in TerminalStatuses
      BY BoundAssumption DEF TerminalStatuses
    <3> QED BY <2>2, <3>1, TransitionSeals DEF RejectOrCancel, Stable, TypeOK
  <2> QED BY <1>1, <1>5, <2>1, <2>2 DEF Environment, PluginUpdates, SourceChanges, Tick
<1> QED BY <1>1, <1>2, <1>3, <1>4, <1>5 DEF Next, vars

-----------------------------------------------------------------------------
(* Type correctness                                                        *)

LEMMA ProcessTypes ==
    ASSUME TypeOK
    PROVE  /\ Idle \in Process
           /\ \A out \in Outcomes, r \in Requests \cup {None}, op \in Operations :
                 Answered(out, r, op) \in Process
           /\ \A w \in Workers : wk[w] \in Process
           /\ \A w \in Workers, out \in Outcomes :
                 Return(w, out) => wk' \in [Workers -> Process]
           /\ \A w \in Workers, step \in DraftSteps \cup CommandSteps :
                 Goto(w, step) => wk' \in [Workers -> Process]
           /\ \A w \in Workers, p \in Process :
                 wk' = [wk EXCEPT ![w] = p] => wk' \in [Workers -> Process]
           /\ \A w \in Workers, recon \in {"conflict", "unknown"},
                  out \in {"write_failed", "active_conflict"} :
                 FailAs(w, recon, out) => wk' \in [Workers -> Process]
<1>1. Idle \in Process
  BY BoundAssumption DEF Idle, Process, Time, Operations, Outcomes
<1>2. ASSUME NEW out \in Outcomes, NEW r \in Requests \cup {None}, NEW op \in Operations
      PROVE  Answered(out, r, op) \in Process
  BY <1>1 DEF Answered, Process
<1>3. \A w \in Workers : wk[w] \in Process
  BY DEF TypeOK
<1>4. ASSUME NEW w \in Workers, NEW p \in Process, wk' = [wk EXCEPT ![w] = p]
      PROVE  wk' \in [Workers -> Process]
  BY <1>4 DEF TypeOK
<1>5. ASSUME NEW w \in Workers, NEW out \in Outcomes, Return(w, out)
      PROVE  wk' \in [Workers -> Process]
  <2>1. wk[w].req \in Requests \cup {None} /\ wk[w].op \in Operations
    BY <1>3 DEF Process
  <2> QED BY <1>2, <1>4, <1>5, <2>1 DEF Return
<1>6. ASSUME NEW w \in Workers, NEW step \in DraftSteps \cup CommandSteps, Goto(w, step)
      PROVE  wk' \in [Workers -> Process]
  <2>1. [wk[w] EXCEPT !.pc = step] \in Process
    BY <1>3 DEF Process
  <2> QED BY <1>4, <1>6, <2>1 DEF Goto
<1>7. ASSUME NEW w \in Workers, NEW recon \in {"conflict", "unknown"},
             NEW out \in {"write_failed", "active_conflict"}, FailAs(w, recon, out)
      PROVE  wk' \in [Workers -> Process]
  <2> DEFINE p == [wk[w] EXCEPT !.pc = "fail", !.recon = recon, !.out = out]
  <2>1. "fail" \in {"idle"} \cup DraftSteps \cup CommandSteps /\ out \in Outcomes
    BY DEF CommandSteps, WriteSteps, Outcomes
  <2>2. wk[w] \in Process
    BY <1>3
  <2>3. p \in Process
    BY <2>1, <2>2 DEF Process
  <2> QED BY <1>4, <1>7, <2>3 DEF FailAs
<1> QED BY <1>1, <1>2, <1>3, <1>4, <1>5, <1>6, <1>7

(* The key of an existing request is a key. *)
LEMMA KeyTypes ==
    ASSUME TypeOK, ProcessInv, NEW r \in Requests, Exists(r), NEW op \in Operations
    PROVE  /\ requests[r] \in RequestRow
           /\ refs[requests[r].ref] \in RefRow
           /\ ReviewOf(r) \in Reviews
           /\ KeyOf(r, op) \in Keys
<1>1. requests[r] \in RequestRow
  BY DEF TypeOK, Exists
<1>2. refs[requests[r].ref] \in RefRow
  BY <1>1 DEF TypeOK, ProcessInv, RefsOutliveRequests, Issued, RequestRow
<1> QED BY <1>1, <1>2 DEF RequestRow, RefRow, ReviewOf, KeyOf, Keys

LEMMA CommandTypes ==
    ASSUME TypeOK, ProcessInv, NEW w \in Workers, wk[w].pc \in CommandSteps
    PROVE  /\ wk[w].req \in Requests /\ Exists(wk[w].req)
           /\ MyReview(w) \in Reviews /\ MyContent(w) \in Contents /\ MyKey(w) \in Keys
           /\ wk[w].asof \in Time
<1>1. wk[w].req \in Requests /\ Exists(wk[w].req) /\ wk[w].op \in Operations
      /\ wk[w].asof \in Time
  BY DEF TypeOK, ProcessInv, Relies, Process
<1>2. requests[wk[w].req].content \in Contents
  BY <1>1, KeyTypes DEF RequestRow
<1> QED BY <1>1, <1>2, KeyTypes DEF MyReview, MyContent, MyKey

(* The type of each table after its transaction. *)
LEMMA TransitionTypes ==
    ASSUME TypeOK, NEW x \in Requests, NEW new \in TerminalStatuses, Transition(x, new)
    PROVE  /\ requests' \in [Requests -> RequestRow \cup {Absent}]
           /\ \A r \in Requests : Exists(r)' =>
                 (requests'[r].status = "copy_only" <=> requests'[r].expires = None)
           /\ events' \subseteq EventRow
<1>1. requests' \in [Requests -> RequestRow \cup {Absent}]
  BY TransitionSeals DEF TypeOK
<1>2. events' \subseteq EventRow
  BY DEF Transition, TypeOK, EventRow
<1>3. ASSUME NEW r \in Requests, Exists(r)'
      PROVE  requests'[r].status = "copy_only" <=> requests'[r].expires = None
  <2>1. CASE requests'[r] = requests[r]
    BY <1>3, <2>1 DEF TypeOK, Exists
  <2>2. CASE requests'[r] # requests[r]
    <3>1. r = x /\ MayTransition(x) /\ requests'[x] = [requests[x] EXCEPT !.status = new]
      BY <2>2 DEF Transition, TypeOK
    <3>2. requests[x] \in RequestRow /\ requests[x].status = "confirmation_pending"
      BY <3>1 DEF TypeOK, MayTransition, Absent
    <3>3. requests'[x].status = new /\ requests'[x].expires = requests[x].expires
      BY <3>1, <3>2 DEF RequestRow
    <3>4. requests[x].expires # None /\ new # "copy_only"
      BY <3>2 DEF TypeOK, Exists, Absent, TerminalStatuses
    <3> QED BY <3>1, <3>3, <3>4
  <2> QED BY <2>1, <2>2
<1> QED BY <1>1, <1>2, <1>3

LEMMA AttemptTypes ==
    ASSUME TypeOK, NEW k \in Keys
    PROVE  /\ \A r \in Requests :
                 AddAttempt(k, r) => /\ DOMAIN attempts' = DOMAIN attempts \cup {k}
                                     /\ attempts' \in [DOMAIN attempts' -> AttemptRow]
           /\ \A status \in {"verified", "failed"},
                  recon \in {"verified", "recovered", "conflict", "unknown"} :
                 k \in DOMAIN attempts /\ UpdateAttempt(k, status, recon)
                    => /\ DOMAIN attempts' = DOMAIN attempts
                       /\ attempts' \in [DOMAIN attempts' -> AttemptRow]
<1>1. \A x \in DOMAIN attempts : attempts[x] \in AttemptRow
  BY DEF TypeOK
<1>2. ASSUME NEW r \in Requests, AddAttempt(k, r)
      PROVE  /\ DOMAIN attempts' = DOMAIN attempts \cup {k}
             /\ attempts' \in [DOMAIN attempts' -> AttemptRow]
  <2>1. [status |-> "started", recon |-> "pending", request |-> r] \in AttemptRow
    BY DEF AttemptRow, AttemptStatuses
  <2> QED BY <1>1, <1>2, <2>1 DEF AddAttempt
<1>3. ASSUME NEW status \in {"verified", "failed"},
             NEW recon \in {"verified", "recovered", "conflict", "unknown"},
             k \in DOMAIN attempts, UpdateAttempt(k, status, recon)
      PROVE  /\ DOMAIN attempts' = DOMAIN attempts
             /\ attempts' \in [DOMAIN attempts' -> AttemptRow]
  <2>1. [attempts[k] EXCEPT !.status = status, !.recon = recon] \in AttemptRow
    BY <1>1, <1>3 DEF AttemptRow, AttemptStatuses
  <2>2. attempts \in [DOMAIN attempts -> AttemptRow]
    BY DEF TypeOK
  <2> QED BY <1>3, <2>1, <2>2 DEF UpdateAttempt
<1> QED BY <1>2, <1>3

(* The two steps of invalidate_pending_requests change the step a process *)
(* is at and the ids it remembers, and nothing else of any process.       *)
LEMMA InvalidationMoves ==
    ASSUME TypeOK, NEW w \in Workers, DraftReadPending(w) \/ DraftInvalidate(w)
    PROVE  /\ wk' \in [Workers -> Process]
           /\ \A x \in Workers : x # w => wk'[x] = wk[x]
           /\ wk[w].pc \in DraftSteps
           /\ wk'[w].pc \in {"draft_invalidate", "draft_version"} /\ wk'[w].pc \in DraftSteps
           /\ wk'[w].ref = wk[w].ref /\ wk'[w].content = wk[w].content
           /\ wk'[w].req = wk[w].req /\ wk'[w].out = wk[w].out
           /\ wk'[w].found = wk[w].found
           /\ wk'[w].old = IF DraftReadPending(w) THEN ToInvalidate(wk[w].ref) ELSE {}
           /\ wk'[w].old \subseteq Requests
<1>1. wk[w] \in Process /\ wk \in [Workers -> Process]
  BY DEF TypeOK
<1>2. PICK s \in {"draft_invalidate", "draft_version"}, o \in SUBSET Requests :
         /\ wk' = [wk EXCEPT ![w] = [@ EXCEPT !.pc = s, !.old = o]]
         /\ o = IF DraftReadPending(w) THEN ToInvalidate(wk[w].ref) ELSE {}
  <2>1. ToInvalidate(wk[w].ref) \in SUBSET Requests /\ {} \in SUBSET Requests
    BY DEF ToInvalidate, DraftsOf
  <2>2. ~(DraftReadPending(w) /\ DraftInvalidate(w))
    BY DEF DraftReadPending, DraftInvalidate, At
  <2> QED BY <2>1, <2>2 DEF DraftReadPending, DraftInvalidate
<1>3. s \in DraftSteps /\ wk[w].pc \in DraftSteps
  BY DEF DraftSteps, DraftReadPending, DraftInvalidate, At
<1>4. [wk[w] EXCEPT !.pc = s, !.old = o] \in Process
  BY <1>1, <1>3 DEF Process
<1>5. /\ wk'[w] = [wk[w] EXCEPT !.pc = s, !.old = o]
      /\ \A x \in Workers : x # w => wk'[x] = wk[x]
  BY <1>1, <1>2
<1>6. /\ wk'[w].pc = s /\ wk'[w].old = o
      /\ wk'[w].ref = wk[w].ref /\ wk'[w].content = wk[w].content
      /\ wk'[w].req = wk[w].req /\ wk'[w].out = wk[w].out /\ wk'[w].found = wk[w].found
  BY <1>1, <1>5 DEF Process
<1>7. wk' \in [Workers -> Process]
  BY <1>1, <1>2, <1>4
<1> QED BY <1>2, <1>3, <1>5, <1>6, <1>7

LEMMA WriteTypes ==
    ASSUME TypeOK, ProcessInv, NEW w \in Workers, At(w, "write"), WriteRow(w)
    PROVE  task' \in [Reviews -> TaskRow \cup {Absent}] /\ wrote' \subseteq Keys
<1>1. MyReview(w) \in Reviews /\ MyContent(w) \in Contents /\ MyKey(w) \in Keys
      /\ wk[w].asof \in Time
  BY CommandTypes DEF At, CommandSteps, WriteSteps
<1>2. [status |-> "pending", content |-> MyContent(w), created |-> wk[w].asof] \in TaskRow
  BY <1>1 DEF TaskRow, TASK_STATUSES
<1> QED BY <1>1, <1>2 DEF WriteRow, TypeOK

LEMMA TypeInit == Init => TypeOK
<1> SUFFICES ASSUME Init PROVE TypeOK
  OBVIOUS
<1>1. Idle \in Process /\ 0 \in Time /\ 0 \in 0..MaxSnapshot
  BY BoundAssumption DEF Idle, Process, Time, Operations, Outcomes
<1>2. \A r \in Requests : ~Exists(r)
  BY DEF Init, Exists
<1>3. DOMAIN attempts = {} /\ attempts \in [DOMAIN attempts -> AttemptRow]
  BY DEF Init
<1> QED BY <1>1, <1>2, <1>3 DEF Init, TypeOK, SourceRow

LEMMA TypeStep == TypeOK /\ ProcessInv /\ [Next]_vars => TypeOK'
<1> SUFFICES ASSUME TypeOK, ProcessInv, [Next]_vars PROVE TypeOK'
  OBVIOUS
<1> USE DEF control, outbox
<1>a. /\ now \in Time /\ source \in [Reviews -> SourceRow]
      /\ refs \in [Refs -> RefRow \cup {Absent}]
      /\ requests \in [Requests -> RequestRow \cup {Absent}]
      /\ \A r \in Requests : Exists(r) =>
            (requests[r].status = "copy_only" <=> requests[r].expires = None)
      /\ events \subseteq EventRow
      /\ DOMAIN attempts \subseteq Keys /\ attempts \in [DOMAIN attempts -> AttemptRow]
      /\ task \in [Reviews -> TaskRow \cup {Absent}] /\ wrote \subseteq Keys
      /\ wk \in [Workers -> Process]
  BY DEF TypeOK
<1>b. ASSUME UNCHANGED <<requests>>
      PROVE  \A r \in Requests : Exists(r)' =>
                (requests'[r].status = "copy_only" <=> requests'[r].expires = None)
  BY <1>a, <1>b DEF Exists
<1>1. CASE UNCHANGED vars
  BY <1>1, <1>a DEF vars, TypeOK, Exists
<1>2. ASSUME NEW w \in Workers, Draft(w) PROVE TypeOK'
  <2>0. "draft_pending" \in DraftSteps
        /\ {"ok", "active_conflict", "already_handled", "blocked_escalation"} \subseteq Outcomes
    BY DEF DraftSteps, Outcomes
  <2>1. CASE DraftReadTask(w)
    <3>1. wk' \in [Workers -> Process]
      BY <2>0, <2>1, ProcessTypes DEF DraftReadTask
    <3> QED BY <2>1, <3>1, <1>a, <1>b DEF DraftReadTask, TypeOK
  <2>5. CASE DraftReadPending(w)
    BY <2>5, <1>a, <1>b, InvalidationMoves DEF DraftReadPending, TypeOK
  <2>2. CASE DraftInvalidate(w)
    <3>1. wk' \in [Workers -> Process]
      BY <2>2, InvalidationMoves
    <3>2. events' \subseteq EventRow
      <4>1. wk[w].old \subseteq Requests
        BY <1>a DEF Process
      <4> QED BY <2>2, <4>1, <1>a DEF DraftInvalidate, EventRow, TerminalStatuses
    <3>3. ASSUME NEW r \in Requests, Exists(r)'
          PROVE  requests'[r].status = "copy_only" <=> requests'[r].expires = None
      <4>1. Exists(r) /\ requests[r] \in RequestRow
        BY <2>2, <3>3, <1>a, InvalidateSeals DEF Exists
      <4>2. \/ requests'[r] = requests[r]
            \/ /\ requests[r].status = "confirmation_pending"
               /\ requests'[r] = [requests[r] EXCEPT !.status = "invalidated_by_new_version"]
        BY <2>2 DEF DraftInvalidate, ToInvalidate, DraftsOf
      <4> QED BY <4>1, <4>2, <1>a DEF RequestRow
    <3> QED
      BY <2>2, <3>1, <3>2, <3>3, <1>a, InvalidateSeals DEF DraftInvalidate, TypeOK
  <2>3. CASE DraftReadVersion(w)
    <3>1. PICK n \in {0} \cup {requests[r].version : r \in DraftsOf(wk[w].ref)} :
             /\ n + 1 \in Versions
             /\ wk' = [wk EXCEPT ![w] = [@ EXCEPT !.pc = "draft_create", !.ver = n + 1]]
      BY <2>3 DEF DraftReadVersion
    <3>2. n + 1 \in Versions \cup {None} /\ "draft_create" \in DraftSteps /\ wk[w] \in Process
      BY <3>1, <1>a DEF DraftSteps
    <3>3. [wk[w] EXCEPT !.pc = "draft_create", !.ver = n + 1] \in Process
      BY <3>2 DEF Process
    <3>4. wk' \in [Workers -> Process]
      BY <3>1, <3>3, <1>a
    <3> QED BY <2>3, <3>4, <1>a, <1>b DEF DraftReadVersion, TypeOK
  <2>4. ASSUME NEW r \in Requests, DraftCreate(w, r) PROVE TypeOK'
    <3>1. wk' \in [Workers -> Process]
      BY <2>0, <2>4, ProcessTypes DEF DraftCreate
    <3>2. events' \subseteq EventRow
      BY <2>4, <1>a DEF DraftCreate, EventRow
    <3>3. \A q \in Requests : Exists(q)' =>
            (requests'[q].status = "copy_only" <=> requests'[q].expires = None)
      BY <2>4, <1>a, CreateIsTyped DEF Exists
    <3> QED BY <2>4, <3>1, <3>2, <3>3, <1>a, CreateIsTyped DEF DraftCreate, TypeOK
  <2> QED BY <1>2, <2>1, <2>2, <2>3, <2>4, <2>5 DEF Draft
<1>3. ASSUME NEW w \in Workers, Confirm(w) PROVE TypeOK'
  <2>0. /\ {"readback", "verify", "transition", "write", "attempt", "recover"} \subseteq CommandSteps
        /\ {"ok", "blocked", "active_conflict", "already_handled", "retry_required", "data_gap",
             "integrity_error", "reconciliation_unknown", "write_failed"} \subseteq Outcomes
    BY DEF CommandSteps, WriteSteps, Outcomes
  <2>a. wk[w].pc \in CommandSteps =>
           /\ wk[w].req \in Requests /\ Exists(wk[w].req) /\ MyKey(w) \in Keys
           /\ MyReview(w) \in Reviews
    BY CommandTypes
  <2>1. ASSUME ExpireRequest(w) \/ ConfirmRequest(w) PROVE TypeOK'
    <3>1. wk' \in [Workers -> Process]
      BY <2>0, <2>1, ProcessTypes DEF ExpireRequest, ConfirmRequest
    <3>2. wk[w].req \in Requests
      BY <2>1, <2>a DEF ExpireRequest, ConfirmRequest, At, CommandSteps
    <3>3. PICK new \in TerminalStatuses : Transition(wk[w].req, new)
      BY <2>1 DEF ExpireRequest, ConfirmRequest, TerminalStatuses
    <3>4. UNCHANGED <<now, source, refs, attempts, task, wrote>>
      BY <2>1 DEF ExpireRequest, ConfirmRequest
    <3> QED BY <3>1, <3>2, <3>3, <3>4, <1>a, TransitionTypes DEF TypeOK
  <2>2. ASSUME ReadTask(w) \/ Reconcile(w) \/ Readback(w) PROVE TypeOK'
    <3>1. ASSUME ReadTask(w) PROVE wk' \in [Workers -> Process]
      <4>1. CASE wk' = [wk EXCEPT ![w] =
                   [@ EXCEPT !.pc = "attempt", !.seen = TaskSeenBy(w, MyReview(w))]]
        <5>1. TaskSeenBy(w, MyReview(w)) \in TaskRow \cup {Absent}
          BY <2>a, <3>1, <1>a DEF ReadTask, At, CommandSteps, TaskSeenBy
        <5>2. "attempt" \in {"idle"} \cup DraftSteps \cup CommandSteps /\ wk[w] \in Process
          BY <2>0, <1>a
        <5>3. ASSUME NEW row \in TaskRow \cup {Absent}
              PROVE  [wk[w] EXCEPT !.pc = "attempt", !.seen = row] \in Process
          BY <5>2 DEF Process
        <5> QED BY <4>1, <5>1, <5>3, <1>a
      <4> QED BY <2>0, <3>1, <4>1, ProcessTypes DEF ReadTask
    <3>2. ASSUME Reconcile(w) PROVE wk' \in [Workers -> Process]
      BY <2>0, <3>2, ProcessTypes DEF Reconcile
    <3>3. ASSUME Readback(w) PROVE wk' \in [Workers -> Process]
      BY <2>0, <3>3, ProcessTypes DEF Readback
    <3> QED BY <2>2, <3>1, <3>2, <3>3, <1>a, <1>b DEF ReadTask, Reconcile, Readback, TypeOK
  <2>3. CASE BeginWriteAttempt(w)
    <3>1. MyKey(w) \in Keys /\ wk[w].req \in Requests
      BY <2>3, <2>a DEF BeginWriteAttempt, At, CommandSteps
    <3>2. DOMAIN attempts' \subseteq Keys /\ attempts' \in [DOMAIN attempts' -> AttemptRow]
      BY <2>3, <3>1, <1>a, AttemptTypes DEF BeginWriteAttempt
    <3>3. wk' \in [Workers -> Process]
      <4>1. ASSUME NEW s \in AttemptStatuses,
                   wk' = [wk EXCEPT ![w] = [@ EXCEPT !.pc = "reconcile", !.found = s]]
            PROVE  wk' \in [Workers -> Process]
        <5>1. "reconcile" \in {"idle"} \cup DraftSteps \cup CommandSteps /\ wk[w] \in Process
          BY <1>a DEF CommandSteps
        <5>2. [wk[w] EXCEPT !.pc = "reconcile", !.found = s] \in Process
          BY <5>1 DEF Process
        <5> QED BY <4>1, <5>2, <1>a
      <4>2. \A k \in DOMAIN attempts : attempts[k].status \in AttemptStatuses
        BY <1>a DEF AttemptRow
      <4> QED BY <2>0, <2>3, <4>1, <4>2, ProcessTypes DEF BeginWriteAttempt, AttemptFree
    <3> QED BY <2>3, <3>2, <3>3, <1>a, <1>b DEF BeginWriteAttempt, TypeOK
  <2>4. ASSUME RecoverAttempt(w) \/ VerifyAttempt(w) \/ FailAttempt(w) PROVE TypeOK'
    <3>1. MyKey(w) \in Keys /\ MyKey(w) \in DOMAIN attempts
      BY <2>4, <2>a
      DEF RecoverAttempt, VerifyAttempt, FailAttempt, At, CommandSteps, WriteSteps, ProcessInv, Relies
    <3>2. /\ wk[w].out \in Outcomes
          /\ FailAttempt(w) => wk[w].recon \in {"conflict", "unknown"}
      BY <1>a DEF Process, ProcessInv, Relies, FailAttempt
    <3>3. wk' \in [Workers -> Process]
      BY <2>0, <2>4, <3>2, ProcessTypes DEF RecoverAttempt, VerifyAttempt, FailAttempt
    <3>4. DOMAIN attempts' \subseteq Keys /\ attempts' \in [DOMAIN attempts' -> AttemptRow]
      BY <2>4, <3>1, <3>2, <1>a, AttemptTypes DEF RecoverAttempt, VerifyAttempt, FailAttempt
    <3> QED
      BY <2>4, <3>3, <3>4, <1>a, <1>b DEF RecoverAttempt, VerifyAttempt, FailAttempt, TypeOK
  <2>5. ASSUME InsertPending(w) \/ CasRetry(w) PROVE TypeOK'
    <3>1. wk' \in [Workers -> Process]
      BY <2>0, <2>5, ProcessTypes DEF InsertPending, CasRetry
    <3>2. task' \in [Reviews -> TaskRow \cup {Absent}] /\ wrote' \subseteq Keys
      BY <2>5, <1>a, WriteTypes DEF InsertPending, CasRetry
    <3> QED BY <2>5, <3>1, <3>2, <1>a, <1>b DEF InsertPending, CasRetry, TypeOK
  <2> QED BY <1>3, <2>1, <2>2, <2>3, <2>4, <2>5 DEF Confirm
<1>4. ASSUME NEW w \in Workers, User(w) \/ Crash(w) PROVE TypeOK'
  <2>0. /\ "draft_task" \in DraftSteps /\ {"expire", "task"} \subseteq CommandSteps
        /\ {"blocked", "data_gap", "source_changed", "already_handled", "write_failed", "replayed",
             "crashed"} \subseteq Outcomes
        /\ "insert" \in Operations
    BY DEF DraftSteps, CommandSteps, Outcomes, Operations
  <2>1. ASSUME NEW f \in Refs, NEW c \in Contents, StartDraft(w, f, c)
        PROVE  wk' \in [Workers -> Process]
    <3>1. [Idle EXCEPT !.pc = "draft_task", !.ref = f, !.content = c, !.asof = now] \in Process
      BY <2>0, <1>a, ProcessTypes DEF Process
    <3> QED BY <2>0, <2>1, <3>1, ProcessTypes DEF StartDraft
  <2>2. ASSUME NEW r \in Requests, NEW op \in Operations, StartConfirm(w, r, op)
        PROVE  wk' \in [Workers -> Process]
    <3>1. ASSUME NEW step \in {"expire", "task"}
          PROVE  [Idle EXCEPT !.pc = step, !.req = r, !.op = op, !.asof = now] \in Process
      BY <2>0, <1>a, ProcessTypes DEF Process
    <3> QED BY <2>0, <2>2, <3>1, ProcessTypes DEF StartConfirm
  <2>3. ASSUME Crash(w) PROVE wk' \in [Workers -> Process]
    BY <2>0, <2>3, ProcessTypes DEF Crash
  <2> QED
    BY <1>4, <2>1, <2>2, <2>3, <1>a, <1>b DEF User, StartDraft, StartConfirm, Crash, TypeOK
<1>5. CASE Environment
  <2>1. ASSUME NEW f \in Refs, NEW v \in Reviews, IssueReviewRef(f, v) PROVE TypeOK'
    <3>1. [status |-> "active", review |-> v, snapshot |-> source[v].snapshot,
           expires |-> now + RefTTL] \in RefRow
      BY <1>a, BoundAssumption DEF RefRow, SourceRow, Time
    <3> QED BY <2>1, <3>1, <1>a, <1>b DEF IssueReviewRef, TypeOK
  <2>2. ASSUME NEW r \in Requests, NEW s \in Decisions, RejectOrCancel(r, s) PROVE TypeOK'
    <3>1. s \in TerminalStatuses
      BY BoundAssumption DEF TerminalStatuses
    <3> QED BY <2>2, <3>1, <1>a, TransitionTypes DEF RejectOrCancel, TypeOK
  <2>3. ASSUME NEW v \in Reviews, NEW s \in Reports, PluginUpdates(v, s) PROVE TypeOK'
    <3>1. task[v] \in TaskRow
      BY <2>3, <1>a DEF PluginUpdates, Absent
    <3>2. [task[v] EXCEPT !.status = s] \in TaskRow
      BY <3>1, BoundAssumption DEF TaskRow, TASK_STATUSES
    <3> QED BY <2>3, <3>2, <1>a, <1>b DEF PluginUpdates, TypeOK
  <2>4. ASSUME NEW v \in Reviews, NEW s \in {"unreplied", "replied", "missing"},
               SourceChanges(v, s)
        PROVE  TypeOK'
    <3>1. source[v].snapshot + 1 \in 0..MaxSnapshot
      BY <2>4, <1>a, BoundAssumption DEF SourceChanges, SourceRow
    <3> QED BY <2>4, <3>1, <1>a, <1>b DEF SourceChanges, SourceRow, TypeOK
  <2>5. CASE Tick
    <3>1. now + 1 \in Time
      BY <2>5, <1>a, BoundAssumption DEF Tick, Time
    <3> QED BY <2>5, <3>1, <1>a, <1>b DEF Tick, TypeOK
  <2> QED BY <1>5, <2>1, <2>2, <2>3, <2>4, <2>5 DEF Environment
<1> QED BY <1>1, <1>2, <1>3, <1>4, <1>5 DEF Next

-----------------------------------------------------------------------------
(* What a process knows stays true while others run                        *)

(* Keys, reviews and contents of existing requests never change. *)
LEMMA KeysStay ==
    ASSUME TypeOK, ProcessInv, Stable, NEW r \in Requests, Exists(r)
    PROVE  /\ Exists(r)' /\ Issued(requests[r].ref)' /\ requests'[r].ref = requests[r].ref
           /\ ReviewOf(r)' = ReviewOf(r)
           /\ requests'[r].content = requests[r].content
           /\ \A op \in Operations : KeyOf(r, op)' = KeyOf(r, op)
           /\ Written(r) => Written(r)'
<1>1. requests[r] \in RequestRow /\ requests'[r] = [requests[r] EXCEPT !.status = requests'[r].status]
  BY DEF TypeOK, Exists, Stable, Sealed
<1>2. /\ requests'[r].ref = requests[r].ref /\ requests'[r].version = requests[r].version
      /\ requests'[r].content = requests[r].content
  BY <1>1 DEF RequestRow
<1>3. /\ requests[r].ref \in Refs /\ Issued(requests[r].ref)
      /\ refs'[requests[r].ref] = refs[requests[r].ref]
  BY <1>1 DEF RequestRow, ProcessInv, RefsOutliveRequests, Stable
<1>4. ReviewOf(r)' = ReviewOf(r)
  BY <1>2, <1>3 DEF ReviewOf
<1>5. \A op \in Operations : KeyOf(r, op)' = KeyOf(r, op)
  BY <1>2, <1>4 DEF KeyOf
<1>6. Written(r) => Written(r)'
  BY <1>2, <1>4 DEF Written, Stable
<1>7. Exists(r)' /\ Issued(requests[r].ref)'
  BY <1>2, <1>3 DEF Stable, Issued
<1> QED BY <1>2, <1>4, <1>5, <1>6, <1>7

StepOfOne(w) == \A x \in Workers : x # w => wk'[x] = wk[x]

(* Every step is one process's or nobody's, and no attempt is forgotten. *)
LEMMA OneMoves ==
    ASSUME TypeOK, ProcessInv, [Next]_vars
    PROVE  /\ UNCHANGED wk \/ \E w \in Workers : StepOfOne(w) /\ (Draft(w) \/ Confirm(w) \/ User(w) \/ Crash(w))
           /\ DOMAIN attempts \subseteq DOMAIN attempts'
<1> USE DEF control, outbox
<1>0. wk \in [Workers -> Process]
  BY DEF TypeOK
<1>1. ASSUME NEW w \in Workers, Draft(w)
      PROVE  StepOfOne(w) /\ attempts' = attempts
  <2>1. CASE DraftReadPending(w) \/ DraftInvalidate(w)
    BY <2>1, InvalidationMoves DEF DraftReadPending, DraftInvalidate, StepOfOne
  <2> QED
    BY <1>0, <1>1, <2>1
    DEF Draft, DraftReadTask, DraftReadVersion, DraftCreate, Return, Goto, StepOfOne
<1>2. ASSUME NEW w \in Workers, User(w) \/ Crash(w)
      PROVE  StepOfOne(w) /\ attempts' = attempts
  BY <1>0, <1>2 DEF User, StartDraft, StartConfirm, Crash, Return, StepOfOne
<1>3. ASSUME NEW w \in Workers, Confirm(w)
      PROVE  StepOfOne(w) /\ DOMAIN attempts \subseteq DOMAIN attempts'
  <2>1. CASE BeginWriteAttempt(w)
    BY <1>0, <2>1 DEF BeginWriteAttempt, Return, Goto, StepOfOne, AddAttempt
  <2>2. CASE RecoverAttempt(w) \/ FailAttempt(w) \/ VerifyAttempt(w)
    BY <1>0, <2>2
    DEF RecoverAttempt, FailAttempt, VerifyAttempt, Return, Goto, StepOfOne, UpdateAttempt
  <2>3. CASE InsertPending(w) \/ CasRetry(w) \/ Readback(w)
    BY <1>0, <2>3 DEF InsertPending, CasRetry, Readback, Goto, FailAs, StepOfOne
  <2>4. CASE ExpireRequest(w) \/ ReadTask(w) \/ Reconcile(w) \/ ConfirmRequest(w)
    BY <1>0, <2>4 DEF ExpireRequest, ReadTask, Reconcile, ConfirmRequest, Return, Goto, StepOfOne
  <2> QED BY <1>3, <2>1, <2>2, <2>3, <2>4 DEF Confirm
<1>4. CASE Environment \/ UNCHANGED vars
  BY <1>4
  DEF Environment, IssueReviewRef, RejectOrCancel, PluginUpdates, SourceChanges, Tick, vars
<1> QED BY <1>1, <1>2, <1>3, <1>4 DEF Next

(* A process that did not move relies on the same. *)
LEMMA OthersRely ==
    ASSUME TypeOK, ProcessInv, Stable, NEW x \in Workers, wk'[x] = wk[x],
           DOMAIN attempts \subseteq DOMAIN attempts',
           At(x, "write") => MyKey(x) \notin wrote'
    PROVE  Relies(x)'
<1>1. Relies(x) /\ wk[x] \in Process
  BY DEF ProcessInv, TypeOK
<1>2. wk[x].req # None =>
         /\ Exists(wk[x].req)' /\ MyKey(x)' = MyKey(x)
         /\ Written(wk[x].req) => Written(wk[x].req)'
  <2> HAVE wk[x].req # None
  <2>1. wk[x].req \in Requests /\ Exists(wk[x].req) /\ wk[x].op \in Operations
    BY <1>1 DEF Relies, Process
  <2> QED BY <2>1, KeysStay DEF MyKey, KeyOf, ReviewOf, Written, Exists
<1>3. wk[x].pc \in DraftSteps => Issued(wk[x].ref)'
  BY <1>1 DEF Relies, Process, Stable, Issued
<1>4. wk[x].pc \in WriteSteps \cup {"reconcile", "recover", "verify", "transition"}
         => wk[x].pc \in CommandSteps
  BY DEF CommandSteps, WriteSteps
<1>5. Relies(x) /\ wk'[x] = wk[x]
  BY <1>1
<1>6. wk[x].pc \in CommandSteps \/ wk[x].found = "verified" => wk[x].req # None
  BY <1>5 DEF Relies
<1>7. /\ wk[x].pc \in WriteSteps \cup {"reconcile", "recover"} => MyKey(x)' \in DOMAIN attempts'
      /\ At(x, "write") => MyKey(x)' \notin wrote'
  BY <1>2, <1>4, <1>5, <1>6 DEF Relies, At, WriteSteps
<1>8. wk[x].pc \in {"recover", "verify", "transition"} \/ wk[x].found = "verified"
         => Written(wk[x].req)'
  BY <1>2, <1>4, <1>5, <1>6 DEF Relies
<1> QED BY <1>2, <1>3, <1>5, <1>7, <1>8 DEF Relies, At, Issued, Exists

(* A process that answered relies on nothing. *)
LEMMA AnsweredRelies ==
    ASSUME NEW w \in Workers, NEW out, NEW r \in Requests \cup {None}, NEW op,
           wk'[w] = Answered(out, r, op), r # None => Exists(r)'
    PROVE  Relies(w)' /\ wk'[w].pc = "idle"
<1>1. /\ wk'[w].pc = "idle" /\ wk'[w].found = "none"
      /\ wk'[w].req = None \/ wk'[w].req = r
  BY DEF Answered, Idle
<1>2. "idle" \notin DraftSteps \cup CommandSteps \cup WriteSteps \cup {"reconcile", "recover"}
  BY DEF DraftSteps, CommandSteps, WriteSteps
<1> QED BY <1>1, <1>2 DEF Relies, At

(* A process that goes on with its command. *)
LEMMA MoverRelies ==
    ASSUME TypeOK, ProcessInv, Stable, NEW w \in Workers,
           wk[w].pc \in CommandSteps, wk'[w].pc \in CommandSteps,
           wk'[w].req = wk[w].req, wk'[w].op = wk[w].op,
           wk'[w].out \notin {"ok", "replayed"},
           wk'[w].pc \in WriteSteps \cup {"reconcile", "recover"} => MyKey(w) \in DOMAIN attempts',
           wk'[w].pc = "write" => MyKey(w) \notin wrote',
           wk'[w].pc = "fail" => wk'[w].recon # "none",
           wk'[w].pc \in {"recover", "verify", "transition"} \/ wk'[w].found = "verified"
              => Written(wk[w].req),
           wk'[w].pc \in {"attempt", "write"} /\ wk[w].op = "cas_retry"
              => wk'[w].seen.status \in {"failed", "cancelled"}
    PROVE  Relies(w)' /\ MyKey(w)' = MyKey(w)
<1>1. wk[w].req \in Requests /\ Exists(wk[w].req) /\ wk[w].op \in Operations
      /\ wk[w].req # None
  BY NoneAssumption DEF TypeOK, ProcessInv, Relies, Process
<1>2. MyKey(w)' = MyKey(w) /\ Exists(wk[w].req)'
  BY <1>1, KeysStay DEF MyKey, KeyOf, ReviewOf, Exists
<1>3. Written(wk[w].req) => Written(wk[w].req)'
  BY <1>1, KeysStay DEF Written, ReviewOf
<1>4. wk'[w].pc # "draft_create" /\ wk'[w].pc \notin DraftSteps /\ wk'[w].pc # "idle"
  BY DEF DraftSteps, CommandSteps, WriteSteps
<1> QED BY <1>1, <1>2, <1>3, <1>4 DEF Relies, At, Exists

(* A row of the task table, or a verified attempt, shows that the reply *)
(* was written.                                                         *)
LEMMA ReadingProvesWritten ==
    ASSUME TypeOK, ProcessInv, WritesAccountedFor, NEW w \in Workers, wk[w].pc \in CommandSteps
    PROVE  /\ PendingReadback(w) => Written(wk[w].req)
           /\ MyKey(w) \in DOMAIN attempts /\ attempts[MyKey(w)].status = "verified"
                 => Written(wk[w].req)
<1>1. MyReview(w) \in Reviews
  BY CommandTypes
<1>2. ASSUME PendingReadback(w) PROVE Written(wk[w].req)
  <2>1. task[MyReview(w)] # Absent /\ task[MyReview(w)].content = MyContent(w)
    BY <1>2 DEF PendingReadback, TaskSeenBy, Absent
  <2> QED BY <1>1, <2>1 DEF WritesAccountedFor, Written, MyReview, MyContent
<1>3. ASSUME MyKey(w) \in DOMAIN attempts, attempts[MyKey(w)].status = "verified"
      PROVE  Written(wk[w].req)
  <2>1. /\ MyKey(w).review = ReviewOf(wk[w].req)
        /\ MyKey(w).content = requests[wk[w].req].content
    BY DEF MyKey, KeyOf
  <2> QED BY <1>3, <2>1 DEF WritesAccountedFor, Written
<1> QED BY <1>2, <1>3

LEMMA ReturnRelies ==
    ASSUME TypeOK, ProcessInv, Stable, NEW w \in Workers, NEW out, Return(w, out)
    PROVE  Relies(w)' /\ wk'[w].pc = "idle"
<1>1. Relies(w) /\ wk[w] \in Process /\ wk \in [Workers -> Process]
  BY DEF ProcessInv, TypeOK
<1>2. PICK r \in Requests \cup {None} : r = wk[w].req
  BY <1>1 DEF Process
<1>3. r # None => Exists(r)
  BY <1>1, <1>2 DEF Relies
<1>4. r # None => Exists(r)'
  BY <1>2, <1>3, KeysStay
<1> QED BY <1>1, <1>2, <1>4, AnsweredRelies DEF Return

LEMMA DraftRelies ==
    ASSUME TypeOK, ProcessInv, Stable, NEW w \in Workers, Draft(w)
    PROVE  Relies(w)'
<1> USE DEF outbox, control
<1>1. Relies(w) /\ wk[w] \in Process /\ wk \in [Workers -> Process]
  BY DEF ProcessInv, TypeOK
<1>2. ASSUME NEW out, Return(w, out) PROVE Relies(w)'
  BY <1>2, ReturnRelies
<1>3. ASSUME NEW s \in DraftSteps, wk[w].pc \in DraftSteps,
             \/ wk' = [wk EXCEPT ![w].pc = s] /\ s # "draft_create"
             \/ (DraftReadPending(w) \/ DraftInvalidate(w)) /\ s = wk'[w].pc
             \/ \E v \in Versions : wk' = [wk EXCEPT ![w] = [@ EXCEPT !.pc = s, !.ver = v]]
      PROVE  Relies(w)'
  <2>1. /\ wk'[w].pc = s /\ wk'[w].ref = wk[w].ref /\ wk'[w].content = wk[w].content
        /\ wk'[w].req = wk[w].req /\ wk'[w].out = wk[w].out /\ wk'[w].found = wk[w].found
        /\ s = "draft_create" => wk'[w].ver \in Versions
    <3>1. CASE wk' = [wk EXCEPT ![w].pc = s] /\ s # "draft_create"
      BY <1>1, <3>1 DEF Process
    <3>2. ASSUME NEW v \in Versions, wk' = [wk EXCEPT ![w] = [@ EXCEPT !.pc = s, !.ver = v]]
          PROVE  /\ wk'[w].pc = s /\ wk'[w].ref = wk[w].ref /\ wk'[w].content = wk[w].content
                 /\ wk'[w].req = wk[w].req /\ wk'[w].out = wk[w].out
                 /\ wk'[w].found = wk[w].found /\ wk'[w].ver \in Versions
      BY <1>1, <3>2 DEF Process
    <3>3. CASE (DraftReadPending(w) \/ DraftInvalidate(w)) /\ s = wk'[w].pc
      BY <3>3, InvalidationMoves
    <3> QED BY <1>3, <3>1, <3>2, <3>3
  <2>2. /\ s \notin CommandSteps /\ s \notin WriteSteps \cup {"reconcile", "recover"}
        /\ s # "idle" /\ wk[w].pc \notin CommandSteps /\ wk[w].pc # "idle"
        /\ s \notin {"write", "fail", "recover", "verify", "transition", "attempt"}
    BY <1>3 DEF DraftSteps, CommandSteps, WriteSteps
  <2>3. wk[w].found = "none" /\ wk[w].out \notin {"ok", "replayed"}
    BY <1>1, <2>2 DEF Relies, At
  <2>4. wk[w].req = None
    BY <1>1, <1>3 DEF Relies
  <2>5. wk[w].ref # None /\ Issued(wk[w].ref) /\ wk[w].content # None /\ wk[w].ref \in Refs
    BY <1>1, <1>3 DEF Relies, Process
  <2>6. Issued(wk[w].ref)'
    BY <2>1, <2>5 DEF Stable, Issued
  <2> QED BY <2>1, <2>2, <2>3, <2>4, <2>5, <2>6 DEF Relies, At, Exists, Issued
<1>4. CASE DraftReadTask(w)
  BY <1>2, <1>3, <1>4 DEF DraftReadTask, Goto, At, DraftSteps
<1>5. CASE DraftReadPending(w) \/ DraftInvalidate(w)
  BY <1>3, <1>5, InvalidationMoves
<1>6. CASE DraftReadVersion(w)
  BY <1>3, <1>6 DEF DraftReadVersion, At, DraftSteps
<1>7. ASSUME NEW r \in Requests, DraftCreate(w, r) PROVE Relies(w)'
  BY <1>2, <1>7 DEF DraftCreate
<1> QED BY <1>4, <1>5, <1>6, <1>7 DEF Draft

LEMMA ConfirmRelies ==
    ASSUME TypeOK, ProcessInv, Stable, WritesAccountedFor, NEW w \in Workers, Confirm(w),
           DOMAIN attempts \subseteq DOMAIN attempts'
    PROVE  Relies(w)' /\ (wk'[w].pc \in CommandSteps => MyKey(w)' = MyKey(w))
<1> USE DEF outbox, control
<1>1. Relies(w) /\ wk[w] \in Process /\ wk \in [Workers -> Process]
  BY DEF ProcessInv, TypeOK
<1>2. ASSUME NEW out, Return(w, out)
      PROVE  Relies(w)' /\ (wk'[w].pc \in CommandSteps => MyKey(w)' = MyKey(w))
  BY <1>2, ReturnRelies DEF CommandSteps, WriteSteps
<1>3. wk[w].pc \in CommandSteps => wk[w].out \notin {"ok", "replayed"}
  BY <1>1 DEF Relies, At, CommandSteps, WriteSteps
<1>4. ASSUME NEW s \in CommandSteps, Goto(w, s)
      PROVE  /\ wk'[w].pc = s /\ wk'[w].req = wk[w].req /\ wk'[w].op = wk[w].op
             /\ wk'[w].out = wk[w].out /\ wk'[w].found = wk[w].found
             /\ wk'[w].seen = wk[w].seen
  BY <1>1, <1>4 DEF Goto, Process
<1>5. ASSUME NEW recon \in {"conflict", "unknown"}, NEW out \in {"write_failed", "active_conflict"},
             wk[w].pc \in WriteSteps, FailAs(w, recon, out)
      PROVE  Relies(w)' /\ MyKey(w)' = MyKey(w)
  <2>1. /\ wk'[w].pc = "fail" /\ wk'[w].req = wk[w].req /\ wk'[w].op = wk[w].op
        /\ wk'[w].out = out /\ wk'[w].found = wk[w].found /\ wk'[w].recon = recon
    BY <1>1, <1>5 DEF FailAs, Process
  <2> QED BY <1>1, <1>5, <2>1, MoverRelies DEF Relies, CommandSteps, WriteSteps
<1>6. CASE ExpireRequest(w) \/ ConfirmRequest(w) \/ FailAttempt(w)
  BY <1>2, <1>6 DEF ExpireRequest, ConfirmRequest, FailAttempt
<1>7. CASE ReadTask(w)
  <2>1. At(w, "task")
    BY <1>7 DEF ReadTask
  <2>2. ASSUME Goto(w, "attempt"), wk[w].op = "insert" PROVE Relies(w)' /\ MyKey(w)' = MyKey(w)
    <3>1. /\ wk'[w].pc = "attempt" /\ wk'[w].req = wk[w].req /\ wk'[w].op = wk[w].op
          /\ wk'[w].out = wk[w].out /\ wk'[w].found = wk[w].found
      BY <1>4, <2>2 DEF CommandSteps
    <3> QED BY <1>1, <1>3, <2>1, <2>2, <3>1, MoverRelies DEF Relies, At, CommandSteps, WriteSteps
  <2>3. ASSUME NEW row, row = TaskSeenBy(w, MyReview(w)), row.status \in {"failed", "cancelled"},
               wk' = [wk EXCEPT ![w] = [@ EXCEPT !.pc = "attempt", !.seen = row]]
        PROVE  Relies(w)' /\ MyKey(w)' = MyKey(w)
    <3>1. /\ wk'[w].pc = "attempt" /\ wk'[w].req = wk[w].req /\ wk'[w].op = wk[w].op
          /\ wk'[w].out = wk[w].out /\ wk'[w].found = wk[w].found /\ wk'[w].seen = row
      BY <1>1, <2>3 DEF Process
    <3> QED BY <1>1, <1>3, <2>1, <2>3, <3>1, MoverRelies DEF Relies, At, CommandSteps, WriteSteps
  <2> QED BY <1>2, <1>7, <2>2, <2>3 DEF ReadTask
<1>8. CASE BeginWriteAttempt(w)
  <2>1. At(w, "attempt") /\ wk[w].pc \in CommandSteps
    BY <1>8 DEF BeginWriteAttempt, At, CommandSteps
  <2>2. ASSUME AttemptFree(MyKey(w)), AddAttempt(MyKey(w), wk[w].req), Goto(w, "write")
        PROVE  Relies(w)' /\ MyKey(w)' = MyKey(w)
    <3>1. MyKey(w) \in DOMAIN attempts'
      BY <2>2 DEF AddAttempt
    <3>2. MyKey(w) \notin wrote'
      BY <1>8, <2>2 DEF WritesAccountedFor, AttemptFree, BeginWriteAttempt
    <3>3. /\ wk'[w].pc = "write" /\ wk'[w].req = wk[w].req /\ wk'[w].op = wk[w].op
          /\ wk'[w].out = wk[w].out /\ wk'[w].found = wk[w].found /\ wk'[w].seen = wk[w].seen
      BY <1>4, <2>2 DEF CommandSteps, WriteSteps
    <3> QED
      BY <1>1, <1>3, <2>1, <3>1, <3>2, <3>3, MoverRelies DEF Relies, At, CommandSteps, WriteSteps
  <2>3. ASSUME ~AttemptFree(MyKey(w)),
               wk' = [wk EXCEPT ![w] =
                         [@ EXCEPT !.pc = "reconcile", !.found = attempts[MyKey(w)].status]]
        PROVE  Relies(w)' /\ MyKey(w)' = MyKey(w)
    <3>1. /\ wk'[w].pc = "reconcile" /\ wk'[w].req = wk[w].req /\ wk'[w].op = wk[w].op
          /\ wk'[w].out = wk[w].out /\ wk'[w].found = attempts[MyKey(w)].status
      BY <1>1, <2>3 DEF Process
    <3>2. wk'[w].found = "verified" => Written(wk[w].req)
      BY <2>1, <2>3, <3>1, ReadingProvesWritten DEF AttemptFree
    <3> QED
      BY <1>1, <1>3, <2>1, <2>3, <3>1, <3>2, MoverRelies DEF AttemptFree, CommandSteps, WriteSteps
  <2> QED BY <1>2, <1>8, <2>2, <2>3 DEF BeginWriteAttempt
<1>9. CASE Reconcile(w) \/ Readback(w)
  <2>1. wk[w].pc \in {"reconcile", "readback"} /\ wk[w].pc \in CommandSteps
    BY <1>9 DEF Reconcile, Readback, At, CommandSteps, WriteSteps
  <2>2. ASSUME NEW s \in {"recover", "verify"}, PendingReadback(w), Goto(w, s)
        PROVE  Relies(w)' /\ MyKey(w)' = MyKey(w)
    <3>1. Written(wk[w].req)
      BY <2>1, <2>2, ReadingProvesWritten
    <3>2. MyKey(w) \in DOMAIN attempts'
      BY <1>1, <2>1 DEF Relies, WriteSteps
    <3>3. /\ wk'[w].pc = s /\ wk'[w].req = wk[w].req /\ wk'[w].op = wk[w].op
          /\ wk'[w].out = wk[w].out /\ wk'[w].found = wk[w].found
      BY <1>4, <2>2 DEF CommandSteps, WriteSteps
    <3> QED BY <1>3, <2>1, <3>1, <3>2, <3>3, MoverRelies DEF CommandSteps, WriteSteps
  <2> QED BY <1>2, <1>5, <1>9, <2>1, <2>2 DEF Reconcile, Readback, At, WriteSteps
<1>10. CASE RecoverAttempt(w) \/ VerifyAttempt(w)
  <2>1. wk[w].pc \in {"recover", "verify"} /\ wk[w].pc \in CommandSteps /\ Goto(w, "transition")
    BY <1>10 DEF RecoverAttempt, VerifyAttempt, At, CommandSteps, WriteSteps
  <2>2. /\ wk'[w].pc = "transition" /\ wk'[w].req = wk[w].req /\ wk'[w].op = wk[w].op
        /\ wk'[w].out = wk[w].out /\ wk'[w].found = wk[w].found
    BY <1>4, <2>1 DEF CommandSteps
  <2> QED BY <1>1, <1>3, <2>1, <2>2, MoverRelies DEF Relies, CommandSteps, WriteSteps
<1>11. CASE InsertPending(w) \/ CasRetry(w)
  <2>1. At(w, "write") /\ wk[w].pc \in CommandSteps /\ wk[w].pc \in WriteSteps
    BY <1>11 DEF InsertPending, CasRetry, At, CommandSteps, WriteSteps
  <2>2. ASSUME Goto(w, "readback") PROVE Relies(w)' /\ MyKey(w)' = MyKey(w)
    <3>1. /\ wk'[w].pc = "readback" /\ wk'[w].req = wk[w].req /\ wk'[w].op = wk[w].op
          /\ wk'[w].out = wk[w].out /\ wk'[w].found = wk[w].found
      BY <1>4, <2>2 DEF CommandSteps, WriteSteps
    <3> QED BY <1>1, <1>3, <2>1, <3>1, MoverRelies DEF Relies, CommandSteps, WriteSteps
  <2> QED BY <1>5, <1>11, <2>1, <2>2 DEF InsertPending, CasRetry
<1> QED BY <1>6, <1>7, <1>8, <1>9, <1>10, <1>11 DEF Confirm

LEMMA UserRelies ==
    ASSUME TypeOK, ProcessInv, Stable, NEW w \in Workers, User(w) \/ Crash(w)
    PROVE  Relies(w)' /\ (wk'[w].pc \notin WriteSteps)
<1> USE DEF outbox, control
<1>1. wk \in [Workers -> Process] /\ "idle" \notin WriteSteps
  BY DEF TypeOK, WriteSteps
<1>2. CASE Crash(w)
  BY <1>1, <1>2, ReturnRelies DEF Crash
<1>3. ASSUME NEW f \in Refs, NEW c \in Contents, StartDraft(w, f, c)
      PROVE  Relies(w)' /\ (wk'[w].pc \notin WriteSteps)
  <2>1. ASSUME NEW out, wk' = [wk EXCEPT ![w] = Answered(out, None, "insert")]
        PROVE  Relies(w)' /\ (wk'[w].pc \notin WriteSteps)
    BY <1>1, <2>1, AnsweredRelies
  <2>2. ASSUME wk' = [wk EXCEPT ![w] = [Idle EXCEPT !.pc = "draft_task", !.ref = f,
                                                  !.content = c, !.asof = now]]
        PROVE  Relies(w)' /\ (wk'[w].pc \notin WriteSteps)
    <3>1. /\ wk'[w].pc = "draft_task" /\ wk'[w].ref = f /\ wk'[w].content = c
          /\ wk'[w].req = None /\ wk'[w].out = "none" /\ wk'[w].found = "none"
      BY <1>1, <2>2 DEF Idle
    <3>2. f # None /\ c # None /\ Issued(f)'
      BY <1>3, NoneAssumption DEF StartDraft, Issued
    <3> QED BY <3>1, <3>2 DEF Relies, At, Issued, DraftSteps, CommandSteps, WriteSteps
  <2> QED BY <1>3, <2>1, <2>2 DEF StartDraft
<1>4. ASSUME NEW r \in Requests, NEW op \in Operations, StartConfirm(w, r, op)
      PROVE  Relies(w)' /\ (wk'[w].pc \notin WriteSteps)
  <2>0. r # None /\ Exists(r) /\ Exists(r)'
    BY <1>4, NoneAssumption DEF StartConfirm, Exists
  <2>1. ASSUME NEW out, wk' = [wk EXCEPT ![w] = Answered(out, r, op)]
        PROVE  Relies(w)' /\ (wk'[w].pc \notin WriteSteps)
    BY <1>1, <2>0, <2>1, AnsweredRelies
  <2>2. ASSUME NEW step \in {"expire", "task"},
               wk' = [wk EXCEPT ![w] = [Idle EXCEPT !.pc = step, !.req = r, !.op = op, !.asof = now]]
        PROVE  Relies(w)' /\ (wk'[w].pc \notin WriteSteps)
    <3>1. /\ wk'[w].pc = step /\ wk'[w].req = r /\ wk'[w].out = "none" /\ wk'[w].found = "none"
      BY <1>1, <2>2 DEF Idle
    <3> QED BY <2>0, <3>1 DEF Relies, At, Exists, DraftSteps, CommandSteps, WriteSteps
  <2> QED BY <1>4, <2>1, <2>2 DEF StartConfirm
<1> QED BY <1>2, <1>3, <1>4 DEF User

-----------------------------------------------------------------------------
(* The invariant and its induction                                         *)
SafetyInv == TypeOK /\ ProcessInv /\ ExclusiveWriter /\ WritesAccountedFor /\ ConfirmedWasWritten

(* A request appears only as the draft of an issued ref, and becomes       *)
(* confirmed only through the last step of a command that wrote its reply. *)
LEMMA RequestsChange ==
    ASSUME TypeOK, ProcessInv, [Next]_vars, NEW r \in Requests, Exists(r)'
    PROVE  \/ /\ ~Exists(r) /\ Issued(requests'[r].ref) /\ requests'[r].ref \in Refs
              /\ requests'[r].status \in {"copy_only", "confirmation_pending"}
           \/ Exists(r) /\ requests'[r].status # "confirmed"
           \/ Exists(r) /\ requests'[r].status = requests[r].status
           \/ Exists(r) /\ \E w \in Workers : At(w, "transition") /\ wk[w].req = r
<1> USE DEF control, outbox
<1>1. CASE requests' = requests
  BY <1>1 DEF Exists
<1>2. ASSUME NEW x \in Requests, NEW new \in TerminalStatuses, Transition(x, new), x # r \/ new # "confirmed"
      PROVE  /\ Exists(r)
             /\ requests'[r].status # "confirmed" \/ requests'[r].status = requests[r].status
  <2>1. CASE requests'[r] = requests[r]
    BY <2>1 DEF Exists
  <2>2. CASE requests'[r] # requests[r]
    <3>1. r = x /\ MayTransition(x) /\ requests'[x] = [requests[x] EXCEPT !.status = new]
      BY <1>2, <2>2 DEF Transition, TypeOK
    <3>2. Exists(x) /\ requests[x] \in RequestRow
      BY <3>1 DEF MayTransition, Exists, Absent, TypeOK
    <3> QED BY <1>2, <3>1, <3>2 DEF RequestRow
  <2> QED BY <2>1, <2>2
<1>3. ASSUME NEW w \in Workers, Draft(w)
      PROVE  \/ /\ ~Exists(r) /\ Issued(requests'[r].ref) /\ requests'[r].ref \in Refs
                /\ requests'[r].status \in {"copy_only", "confirmation_pending"}
             \/ Exists(r) /\ requests'[r].status # "confirmed"
             \/ Exists(r) /\ requests'[r].status = requests[r].status
  <2>1. CASE DraftInvalidate(w)
    <3>1. Exists(r) /\ requests[r] \in RequestRow
      BY <2>1, InvalidateSeals DEF TypeOK, Exists
    <3>2. \/ requests'[r] = requests[r]
          \/ requests'[r] = [requests[r] EXCEPT !.status = "invalidated_by_new_version"]
      BY <2>1 DEF DraftInvalidate
    <3> QED BY <3>1, <3>2 DEF RequestRow
  <2>2. ASSUME NEW q \in Requests, DraftCreate(w, q)
        PROVE  \/ /\ ~Exists(r) /\ Issued(requests'[r].ref) /\ requests'[r].ref \in Refs
                  /\ requests'[r].status \in {"copy_only", "confirmation_pending"}
               \/ Exists(r) /\ requests'[r].status = requests[r].status
    <3>1. CASE q = r
      BY <2>2, <3>1, CreateIsTyped DEF DraftCreate, RequestRow
    <3>2. CASE q # r
      BY <2>2, <3>2, CreateIsTyped DEF Exists
    <3> QED BY <3>1, <3>2
  <2> QED BY <1>1, <1>3, <2>1, <2>2 DEF Draft, DraftReadTask, DraftReadPending, DraftReadVersion
<1>4. ASSUME NEW w \in Workers, Confirm(w)
      PROVE  /\ Exists(r)
             /\ \/ requests'[r].status # "confirmed"
                \/ requests'[r].status = requests[r].status
                \/ \E x \in Workers : At(x, "transition") /\ wk[x].req = r
  <2>1. CASE ExpireRequest(w) \/ ConfirmRequest(w)
    <3>1. wk[w].req \in Requests
      BY <2>1, CommandTypes DEF ExpireRequest, ConfirmRequest, At, CommandSteps
    <3>2. CASE ExpireRequest(w)
      BY <1>2, <3>1, <3>2 DEF ExpireRequest, TerminalStatuses
    <3>3. CASE ConfirmRequest(w) /\ wk[w].req # r
      BY <1>2, <3>1, <3>3 DEF ConfirmRequest, TerminalStatuses
    <3>4. CASE ConfirmRequest(w) /\ wk[w].req = r
      BY <3>4, CommandTypes DEF ConfirmRequest, At, CommandSteps
    <3> QED BY <2>1, <3>2, <3>3, <3>4
  <2> QED
    BY <1>1, <1>4, <2>1
    DEF Confirm, ReadTask, BeginWriteAttempt, Reconcile, RecoverAttempt, InsertPending, CasRetry,
        Readback, FailAttempt, VerifyAttempt, Exists
<1>5. ASSUME NEW w \in Workers, User(w) \/ Crash(w) PROVE requests' = requests
  BY <1>5 DEF User, StartDraft, StartConfirm, Crash
<1>6. CASE Environment
  <2>1. ASSUME NEW x \in Requests, NEW s \in Decisions, RejectOrCancel(x, s)
        PROVE  /\ Exists(r)
               /\ requests'[r].status # "confirmed" \/ requests'[r].status = requests[r].status
    <3>1. s \in TerminalStatuses /\ s # "confirmed"
      BY BoundAssumption DEF TerminalStatuses
    <3> QED BY <1>2, <2>1, <3>1 DEF RejectOrCancel
  <2> QED
    BY <1>1, <1>6, <2>1 DEF Environment, IssueReviewRef, PluginUpdates, SourceChanges, Tick, Exists
<1> QED BY <1>1, <1>3, <1>4, <1>5, <1>6 DEF Next, vars

(* The task table changes by the write of one process or by the plugin. *)
LEMMA OutboxChanges ==
    ASSUME TypeOK, ProcessInv, [Next]_vars
    PROVE  \/ UNCHANGED outbox
           \/ \E w \in Workers :
                 /\ At(w, "write") /\ WriteRow(w) /\ UNCHANGED attempts
                 /\ wk'[w].pc # "write"
                 /\ \/ wk[w].op = "insert" /\ task[MyReview(w)] = Absent
                    \/ wk[w].op = "cas_retry" /\ CasMatches(w)
           \/ UNCHANGED wrote /\ \E v \in Reviews, s \in Reports : PluginUpdates(v, s)
<1> USE DEF control, outbox
<1>1. ASSUME NEW w \in Workers, Draft(w) \/ User(w) \/ Crash(w) PROVE UNCHANGED outbox
  BY <1>1 DEF Draft, DraftReadTask, DraftReadPending, DraftInvalidate, DraftReadVersion,
              DraftCreate, User, StartDraft, StartConfirm, Crash
<1>2. ASSUME NEW w \in Workers, Confirm(w), ~InsertPending(w), ~CasRetry(w) PROVE UNCHANGED outbox
  BY <1>2 DEF Confirm, ExpireRequest, ReadTask, BeginWriteAttempt, Reconcile, RecoverAttempt,
              Readback, FailAttempt, VerifyAttempt, ConfirmRequest
<1>3. ASSUME NEW w \in Workers, InsertPending(w) \/ CasRetry(w)
      PROVE  \/ UNCHANGED outbox
             \/ /\ At(w, "write") /\ WriteRow(w) /\ UNCHANGED attempts
                /\ wk'[w].pc # "write"
                /\ \/ wk[w].op = "insert" /\ task[MyReview(w)] = Absent
                   \/ wk[w].op = "cas_retry" /\ CasMatches(w)
  <2>1. wk'[w].pc # "write"
    <3>1. wk \in [Workers -> Process]
      BY DEF TypeOK
    <3>2. ASSUME Goto(w, "readback") PROVE wk'[w].pc = "readback"
      BY <3>1, <3>2 DEF Goto, Process
    <3>3. ASSUME NEW recon, NEW out, FailAs(w, recon, out) PROVE wk'[w].pc = "fail"
      BY <3>1, <3>3 DEF FailAs, Process
    <3> QED BY <1>3, <3>2, <3>3 DEF InsertPending, CasRetry
  <2> QED BY <1>3, <2>1 DEF InsertPending, CasRetry
<1>4. CASE Environment
  BY <1>4 DEF Environment, IssueReviewRef, RejectOrCancel, PluginUpdates, SourceChanges, Tick
<1> QED BY <1>1, <1>2, <1>3, <1>4 DEF Next, vars

(* The attempt log changes by a new attempt, or by a result that is        *)
(* "verified" only when the reply was written.                             *)
LEMMA AttemptsChange ==
    ASSUME TypeOK, ProcessInv, [Next]_vars
    PROVE  \/ UNCHANGED attempts
           \/ \E k \in Keys, r \in Requests : AttemptFree(k) /\ AddAttempt(k, r)
           \/ \E w \in Workers, recon \in {"verified", "recovered"} :
                 /\ wk[w].pc \in CommandSteps /\ MyKey(w) \in DOMAIN attempts
                 /\ UpdateAttempt(MyKey(w), "verified", recon) /\ Written(wk[w].req)
           \/ \E w \in Workers, recon \in {"conflict", "unknown"} :
                 /\ wk[w].pc \in CommandSteps /\ MyKey(w) \in DOMAIN attempts
                 /\ UpdateAttempt(MyKey(w), "failed", recon)
<1> USE DEF control, outbox
<1>1. ASSUME NEW w \in Workers, Draft(w) \/ User(w) \/ Crash(w) PROVE UNCHANGED attempts
  BY <1>1 DEF Draft, DraftReadTask, DraftReadPending, DraftInvalidate, DraftReadVersion,
              DraftCreate, User, StartDraft, StartConfirm, Crash
<1>2. ASSUME NEW w \in Workers, BeginWriteAttempt(w)
      PROVE  \/ UNCHANGED attempts
             \/ \E k \in Keys, r \in Requests : AttemptFree(k) /\ AddAttempt(k, r)
  BY <1>2, CommandTypes DEF BeginWriteAttempt, At, CommandSteps
<1>3. ASSUME NEW w \in Workers, RecoverAttempt(w) \/ VerifyAttempt(w)
      PROVE  \E recon \in {"verified", "recovered"} :
                 /\ wk[w].pc \in CommandSteps /\ MyKey(w) \in DOMAIN attempts
                 /\ UpdateAttempt(MyKey(w), "verified", recon) /\ Written(wk[w].req)
  BY <1>3 DEF RecoverAttempt, VerifyAttempt, At, ProcessInv, Relies, CommandSteps, WriteSteps
<1>4. ASSUME NEW w \in Workers, FailAttempt(w)
      PROVE  \E recon \in {"conflict", "unknown"} :
                 /\ wk[w].pc \in CommandSteps /\ MyKey(w) \in DOMAIN attempts
                 /\ UpdateAttempt(MyKey(w), "failed", recon)
  <2>1. wk[w].recon \in {"conflict", "unknown"}
    BY <1>4 DEF FailAttempt, At, ProcessInv, Relies, TypeOK, Process
  <2> QED BY <1>4, <2>1 DEF FailAttempt, At, ProcessInv, Relies, CommandSteps, WriteSteps
<1>5. ASSUME NEW w \in Workers, Confirm(w), ~BeginWriteAttempt(w), ~RecoverAttempt(w),
             ~VerifyAttempt(w), ~FailAttempt(w)
      PROVE  UNCHANGED attempts
  BY <1>5 DEF Confirm, ExpireRequest, ReadTask, Reconcile, InsertPending, CasRetry, Readback,
              ConfirmRequest
<1>6. CASE Environment
  BY <1>6 DEF Environment, IssueReviewRef, RejectOrCancel, PluginUpdates, SourceChanges, Tick
<1> QED BY <1>1, <1>2, <1>3, <1>4, <1>5, <1>6 DEF Next, vars

LEMMA ExclusiveWriterStep == SafetyInv /\ [Next]_vars => ExclusiveWriter'
<1> SUFFICES ASSUME SafetyInv, [Next]_vars,
                    NEW w \in Workers, NEW x \in Workers, w # x,
                    wk'[w].pc \in WriteSteps, wk'[x].pc \in WriteSteps
             PROVE  MyKey(w)' # MyKey(x)'
  BY DEF ExclusiveWriter
<1> USE DEF SafetyInv
<1>1. Stable /\ DOMAIN attempts \subseteq DOMAIN attempts'
  BY NextIsStable, OneMoves
(* A process that does not move keeps its key, and has it in the log.      *)
<1>2. ASSUME NEW y \in Workers, wk'[y] = wk[y], wk'[y].pc \in WriteSteps
      PROVE  /\ MyKey(y)' = MyKey(y) /\ wk[y].pc \in WriteSteps
             /\ MyKey(y) \in DOMAIN attempts
  <2>1. Relies(y) /\ wk[y] \in Process /\ wk[y].pc \in CommandSteps
    BY <1>2 DEF ProcessInv, TypeOK, CommandSteps
  <2>2. wk[y].req \in Requests /\ Exists(wk[y].req) /\ wk[y].op \in Operations
    BY <2>1 DEF Relies, Process
  <2>3. MyKey(y)' = MyKey(y)
    BY <1>1, <1>2, <2>2, KeysStay DEF MyKey, KeyOf, ReviewOf
  <2> QED BY <1>2, <2>1, <2>3 DEF Relies
(* A process that moves into the write holds a key that was free.          *)
<1>3. ASSUME NEW y \in Workers, Draft(y) \/ Confirm(y) \/ User(y) \/ Crash(y),
             wk'[y].pc \in WriteSteps
      PROVE  /\ MyKey(y)' = MyKey(y)
             /\ wk[y].pc \in WriteSteps \/ MyKey(y) \notin DOMAIN attempts
  <2> USE DEF outbox, control
  <2>1. wk \in [Workers -> Process]
    BY DEF TypeOK
  <2>2. CASE Draft(y)
    <3>1. wk'[y].pc \in DraftSteps \cup {"idle"}
      <4>1. ASSUME NEW out, Return(y, out) PROVE wk'[y].pc = "idle"
        BY <1>1, <4>1, ReturnRelies
      <4>2. ASSUME NEW s \in DraftSteps, Goto(y, s) PROVE wk'[y].pc = s
        BY <2>1, <4>2 DEF Goto, Process
      <4>3. ASSUME DraftReadVersion(y) PROVE wk'[y].pc = "draft_create"
        <5>1. PICK n : wk' = [wk EXCEPT ![y] = [@ EXCEPT !.pc = "draft_create", !.ver = n + 1]]
          BY <4>3 DEF DraftReadVersion
        <5> QED BY <2>1, <5>1 DEF Process
      <4> QED
        BY <2>2, <4>1, <4>2, <4>3, InvalidationMoves
        DEF Draft, DraftReadTask, DraftCreate, DraftSteps
    <3> QED BY <1>3, <3>1 DEF DraftSteps, WriteSteps
  <2>3. CASE User(y) \/ Crash(y)
    BY <1>1, <1>3, <2>3, UserRelies
  <2>4. CASE Confirm(y)
    <3>1. MyKey(y)' = MyKey(y)
      BY <1>1, <1>3, <2>4, ConfirmRelies DEF CommandSteps
    <3>2. ASSUME NEW out, Return(y, out) PROVE wk'[y].pc = "idle"
      BY <1>1, <3>2, ReturnRelies
    <3>3. wk'[y].pc # "idle"
      BY <1>3 DEF WriteSteps
    <3>4. CASE BeginWriteAttempt(y)
      <4>1. ASSUME NEW s, wk' = [wk EXCEPT ![y] = [@ EXCEPT !.pc = "reconcile", !.found = s]]
            PROVE  wk'[y].pc = "reconcile"
        BY <2>1, <4>1 DEF Process
      <4>2. AttemptFree(MyKey(y))
        BY <1>3, <3>2, <3>3, <3>4, <4>1 DEF BeginWriteAttempt, WriteSteps
      <4> QED BY <3>1, <4>2 DEF AttemptFree
    <3>5. CASE ReadTask(y)
      <4>1. ASSUME Goto(y, "attempt") PROVE wk'[y].pc = "attempt"
        BY <2>1, <4>1 DEF Goto, Process
      <4>2. ASSUME NEW row, wk' = [wk EXCEPT ![y] = [@ EXCEPT !.pc = "attempt", !.seen = row]]
            PROVE  wk'[y].pc = "attempt"
        BY <2>1, <4>2 DEF Process
      <4> QED BY <1>3, <3>2, <3>3, <3>5, <4>1, <4>2 DEF ReadTask, WriteSteps
    <3>6. CASE Reconcile(y) \/ RecoverAttempt(y)
      <4>1. ASSUME NEW s \in {"recover", "transition"}, Goto(y, s) PROVE wk'[y].pc = s
        BY <2>1, <4>1 DEF Goto, Process
      <4> QED BY <1>3, <3>2, <3>3, <3>6, <4>1 DEF Reconcile, RecoverAttempt, WriteSteps
    <3>7. CASE InsertPending(y) \/ CasRetry(y) \/ Readback(y) \/ FailAttempt(y) \/ VerifyAttempt(y)
      BY <3>1, <3>7
      DEF InsertPending, CasRetry, Readback, FailAttempt, VerifyAttempt, At, WriteSteps
    <3>8. CASE ExpireRequest(y) \/ ConfirmRequest(y)
      BY <3>2, <3>3, <3>8 DEF ExpireRequest, ConfirmRequest
    <3> QED BY <2>4, <3>4, <3>5, <3>6, <3>7, <3>8 DEF Confirm
  <2> QED BY <1>3, <2>2, <2>3, <2>4
<1>4. CASE UNCHANGED wk
  BY <1>2, <1>4 DEF ExclusiveWriter
<1>5. ASSUME NEW y \in Workers, StepOfOne(y), Draft(y) \/ Confirm(y) \/ User(y) \/ Crash(y)
      PROVE  MyKey(w)' # MyKey(x)'
  <2>1. CASE y = w
    <3>1. wk'[x] = wk[x]
      BY <1>5, <2>1 DEF StepOfOne
    <3> QED BY <1>2, <1>3, <1>5, <2>1, <3>1 DEF ExclusiveWriter
  <2>2. CASE y = x
    <3>1. wk'[w] = wk[w]
      BY <1>5, <2>2 DEF StepOfOne
    <3> QED BY <1>2, <1>3, <1>5, <2>2, <3>1 DEF ExclusiveWriter
  <2>3. CASE y # w /\ y # x
    BY <1>2, <1>5, <2>3 DEF StepOfOne, ExclusiveWriter
  <2> QED BY <2>1, <2>2, <2>3
<1> QED BY <1>4, <1>5, OneMoves

LEMMA ProcessStep == SafetyInv /\ [Next]_vars => ProcessInv'
<1> SUFFICES ASSUME SafetyInv, [Next]_vars PROVE ProcessInv'
  OBVIOUS
<1> USE DEF SafetyInv
<1>1. Stable /\ DOMAIN attempts \subseteq DOMAIN attempts'
  BY NextIsStable, OneMoves
<1>2. RefsOutliveRequests'
  <2>1. SUFFICES ASSUME NEW r \in Requests, Exists(r)' PROVE refs'[requests'[r].ref] # Absent
    BY DEF RefsOutliveRequests, Issued
  <2>2. CASE Exists(r)
    BY <1>1, <2>2, KeysStay DEF Issued
  <2>3. CASE ~Exists(r)
    <3>1. Issued(requests'[r].ref) /\ requests'[r].ref \in Refs
      BY <2>1, <2>3, RequestsChange
    <3> QED BY <1>1, <3>1 DEF Stable, Issued
  <2> QED BY <2>2, <2>3
<1>3. ASSUME NEW x \in Workers PROVE Relies(x)'
  <2>1. CASE wk'[x] = wk[x]
    <3>1. ASSUME At(x, "write") PROVE MyKey(x) \notin wrote'
      <4>1. MyKey(x) \notin wrote
        BY <3>1 DEF ProcessInv, Relies
      <4>2. ASSUME NEW w \in Workers, At(w, "write"), WriteRow(w), wk'[w].pc # "write"
            PROVE  MyKey(x) \notin wrote'
        <5>1. w # x
          BY <2>1, <3>1, <4>2 DEF At
        <5>2. MyKey(w) # MyKey(x)
          BY <3>1, <4>2, <5>1 DEF ExclusiveWriter, At, WriteSteps
        <5> QED BY <4>1, <4>2, <5>2 DEF WriteRow
      <4> QED BY <4>1, <4>2, OutboxChanges DEF outbox
    <3> QED BY <1>1, <2>1, <3>1, OthersRely
  <2>2. CASE wk'[x] # wk[x]
    <3>1. Draft(x) \/ Confirm(x) \/ User(x) \/ Crash(x)
      BY <2>2, OneMoves DEF StepOfOne
    <3> QED BY <1>1, <3>1, DraftRelies, ConfirmRelies, UserRelies
  <2> QED BY <2>1, <2>2
<1> QED BY <1>2, <1>3 DEF ProcessInv

LEMMA WritesAccountedForStep == SafetyInv /\ [Next]_vars => WritesAccountedFor'
<1> SUFFICES ASSUME SafetyInv, [Next]_vars PROVE WritesAccountedFor'
  OBVIOUS
<1> USE DEF SafetyInv
<1>1. Stable /\ DOMAIN attempts \subseteq DOMAIN attempts'
  BY NextIsStable, OneMoves
<1>2. wrote' \subseteq DOMAIN attempts'
  <2>1. ASSUME NEW w \in Workers, At(w, "write"), WriteRow(w)
        PROVE  wrote' \subseteq DOMAIN attempts'
    <3>1. MyKey(w) \in DOMAIN attempts
      BY <2>1 DEF ProcessInv, Relies, At, WriteSteps
    <3> QED BY <1>1, <2>1, <3>1 DEF WriteRow, WritesAccountedFor
  <2>2. CASE wrote' = wrote
    BY <1>1, <2>2 DEF WritesAccountedFor
  <2> QED BY <2>1, <2>2, OutboxChanges DEF outbox
<1>3. ASSUME NEW v \in Reviews, task'[v] # Absent
      PROVE  \E k \in wrote' : k.review = v /\ k.content = task'[v].content
  <2>1. CASE task'[v] = task[v]
    BY <1>1, <1>3, <2>1 DEF WritesAccountedFor, Stable
  <2>2. ASSUME NEW w \in Workers, At(w, "write"), WriteRow(w), task'[v] # task[v]
        PROVE  \E k \in wrote' : k.review = v /\ k.content = task'[v].content
    <3>1. MyReview(w) \in Reviews
      BY <2>2, CommandTypes DEF At, CommandSteps, WriteSteps
    <3>2. v = MyReview(w) /\ task'[v].content = MyContent(w)
      BY <2>2, <3>1 DEF WriteRow, TypeOK
    <3>3. MyKey(w) \in wrote' /\ MyKey(w).review = MyReview(w) /\ MyKey(w).content = MyContent(w)
      BY <2>2 DEF WriteRow, MyKey, KeyOf, MyReview, MyContent
    <3> QED BY <3>2, <3>3
  <2>3. ASSUME NEW u \in Reviews, NEW s \in Reports, PluginUpdates(u, s), wrote' = wrote
        PROVE  \E k \in wrote' : k.review = v /\ k.content = task'[v].content
    <3>1. task[u] \in TaskRow
      BY <2>3 DEF PluginUpdates, TypeOK, Absent
    <3>2. task[v] # Absent /\ task'[v].content = task[v].content
      BY <1>3, <2>3, <3>1 DEF PluginUpdates, TypeOK, TaskRow, Absent
    <3> QED BY <2>3, <3>2 DEF WritesAccountedFor
  <2> QED BY <2>1, <2>2, <2>3, OutboxChanges DEF outbox
<1>4. ASSUME NEW k \in DOMAIN attempts', attempts'[k].status = "verified"
      PROVE  \E j \in wrote' : j.review = k.review /\ j.content = k.content
  <2>0. wrote \subseteq wrote' /\ attempts \in [DOMAIN attempts -> AttemptRow]
    BY <1>1 DEF Stable, TypeOK
  <2>1. CASE attempts' = attempts
    BY <1>4, <2>0, <2>1 DEF WritesAccountedFor
  <2>2. ASSUME NEW x \in Keys, NEW r \in Requests, AddAttempt(x, r)
        PROVE  \E j \in wrote' : j.review = k.review /\ j.content = k.content
    BY <1>4, <2>0, <2>2 DEF AddAttempt, WritesAccountedFor
  <2>3. ASSUME NEW w \in Workers, NEW recon, MyKey(w) \in DOMAIN attempts,
               UpdateAttempt(MyKey(w), "verified", recon), Written(wk[w].req)
        PROVE  \E j \in wrote' : j.review = k.review /\ j.content = k.content
    <3>1. CASE k = MyKey(w)
      BY <2>0, <2>3, <3>1 DEF Written, MyKey, KeyOf
    <3>2. CASE k # MyKey(w)
      BY <1>4, <2>0, <2>3, <3>2 DEF UpdateAttempt, WritesAccountedFor
    <3> QED BY <3>1, <3>2
  <2>4. ASSUME NEW w \in Workers, NEW recon, MyKey(w) \in DOMAIN attempts,
               UpdateAttempt(MyKey(w), "failed", recon)
        PROVE  \E j \in wrote' : j.review = k.review /\ j.content = k.content
    <3>1. [attempts[MyKey(w)] EXCEPT !.status = "failed", !.recon = recon].status = "failed"
      BY <2>0, <2>4 DEF AttemptRow
    <3>2. k # MyKey(w) /\ k \in DOMAIN attempts /\ attempts'[k] = attempts[k]
      BY <1>4, <2>0, <2>4, <3>1 DEF UpdateAttempt
    <3> QED BY <1>4, <2>0, <3>2 DEF WritesAccountedFor
  <2> QED BY <2>1, <2>2, <2>3, <2>4, AttemptsChange
<1> QED BY <1>2, <1>3, <1>4 DEF WritesAccountedFor

(* A command that answers "ok" or "replayed" for a request wrote its reply. *)
LEMMA AnswersTellTheTruth ==
    ASSUME SafetyInv, NEW w \in Workers, Draft(w) \/ Confirm(w) \/ User(w) \/ Crash(w),
           wk'[w].out \in {"ok", "replayed"}, wk'[w].req # None
    PROVE  wk'[w].req \in Requests /\ Exists(wk'[w].req) /\ Written(wk'[w].req)
<1> USE DEF SafetyInv, outbox, control
<1>1. Relies(w) /\ wk[w] \in Process /\ wk \in [Workers -> Process]
  BY DEF ProcessInv, TypeOK
<1>2. ASSUME NEW out, Return(w, out)
      PROVE  wk'[w].req = wk[w].req /\ out \in {"ok", "replayed"}
  BY <1>1, <1>2 DEF Return, Answered, Idle
<1>3. wk[w].req # None => wk[w].req \in Requests /\ Exists(wk[w].req)
  BY <1>1 DEF Process, Relies
<1>4. ASSUME NEW s \in DraftSteps \cup CommandSteps, Goto(w, s), wk[w].pc # "idle" PROVE FALSE
  <2>1. wk'[w].out = wk[w].out
    BY <1>1, <1>4 DEF Goto, Process
  <2> QED BY <1>1, <1>4, <2>1 DEF Relies, At
<1>5. wk[w].pc # "idle" => wk[w].out \notin {"ok", "replayed"}
  BY <1>1 DEF Relies, At
<1>6. CASE Draft(w)
  <2>1. wk[w].pc \in DraftSteps /\ wk[w].pc # "idle"
    BY <1>6
    DEF Draft, DraftReadTask, DraftReadPending, DraftInvalidate, DraftReadVersion, DraftCreate,
        At, DraftSteps
  <2>2. wk[w].req = None
    BY <1>1, <2>1 DEF Relies
  <2>3. ASSUME DraftReadVersion(w) PROVE FALSE
    <3>1. PICK n : wk' = [wk EXCEPT ![w] = [@ EXCEPT !.pc = "draft_create", !.ver = n + 1]]
      BY <2>3 DEF DraftReadVersion
    <3>2. wk'[w].out = wk[w].out
      BY <1>1, <3>1 DEF Process
    <3> QED BY <1>5, <2>1, <3>2
  <2>4. ASSUME DraftReadPending(w) \/ DraftInvalidate(w) PROVE FALSE
    <3>1. wk'[w].out = wk[w].out
      BY <2>4, InvalidationMoves
    <3> QED BY <1>5, <2>1, <3>1
  <2> QED
    BY <1>2, <1>4, <1>6, <2>1, <2>2, <2>3, <2>4
    DEF Draft, DraftReadTask, DraftCreate, DraftSteps
<1>7. CASE Confirm(w)
  <2>1. wk[w].pc \in CommandSteps /\ wk[w].pc # "idle" /\ wk[w].req # None
    <3>1. wk[w].pc \in CommandSteps /\ wk[w].pc # "idle"
      BY <1>7
      DEF Confirm, ExpireRequest, ReadTask, BeginWriteAttempt, Reconcile, RecoverAttempt,
          InsertPending, CasRetry, Readback, FailAttempt, VerifyAttempt, ConfirmRequest,
          At, CommandSteps, WriteSteps
    <3> QED BY <1>1, <3>1 DEF Relies
  <2>2. ASSUME NEW recon, NEW out \in {"write_failed", "active_conflict"}, FailAs(w, recon, out)
        PROVE  FALSE
    <3>1. wk'[w].out = out
      BY <1>1, <2>2 DEF FailAs, Process
    <3> QED BY <2>2, <3>1
  <2>3. ASSUME ConfirmRequest(w) PROVE Written(wk[w].req) /\ wk'[w].req = wk[w].req
    BY <1>1, <1>2, <2>3 DEF ConfirmRequest, Relies, At
  <2>4. ASSUME Reconcile(w) PROVE Written(wk[w].req) /\ wk'[w].req = wk[w].req
    <3>1. PendingReadback(w) => Written(wk[w].req)
      BY <2>1, ReadingProvesWritten
    <3>2. wk[w].found = "verified" => Written(wk[w].req)
      BY <1>1 DEF Relies
    <3> QED BY <1>2, <1>4, <2>1, <2>4, <3>1, <3>2 DEF Reconcile, CommandSteps
  <2>5. ASSUME BeginWriteAttempt(w) PROVE FALSE
    <3>1. ASSUME NEW s, wk' = [wk EXCEPT ![w] = [@ EXCEPT !.pc = "reconcile", !.found = s]]
          PROVE  FALSE
      <4>1. wk'[w].out = wk[w].out
        BY <1>1, <3>1 DEF Process
      <4> QED BY <1>5, <2>1, <4>1
    <3>2. ~Return(w, "integrity_error") /\ ~Goto(w, "write")
      BY <1>2, <1>4, <2>1 DEF CommandSteps, WriteSteps
    <3> QED BY <2>5, <3>1, <3>2 DEF BeginWriteAttempt
  <2>6. ASSUME ReadTask(w) PROVE FALSE
    <3>1. ASSUME NEW row, wk' = [wk EXCEPT ![w] = [@ EXCEPT !.pc = "attempt", !.seen = row]]
          PROVE  FALSE
      <4>1. wk'[w].out = wk[w].out
        BY <1>1, <3>1 DEF Process
      <4> QED BY <1>5, <2>1, <4>1
    <3>2. \A out \in {"active_conflict", "already_handled", "retry_required", "data_gap"} :
             ~Return(w, out)
      BY <1>2
    <3>3. ~Goto(w, "attempt")
      BY <1>4, <2>1 DEF CommandSteps
    <3> QED BY <2>6, <3>1, <3>2, <3>3 DEF ReadTask
  <2>7. ASSUME InsertPending(w) \/ CasRetry(w) \/ Readback(w) PROVE FALSE
    BY <1>4, <2>1, <2>2, <2>7 DEF InsertPending, CasRetry, Readback, CommandSteps, WriteSteps
  <2>8. ASSUME ExpireRequest(w) \/ FailAttempt(w) PROVE FALSE
    BY <1>2, <1>5, <2>1, <2>8 DEF ExpireRequest, FailAttempt
  <2>9. ASSUME RecoverAttempt(w) \/ VerifyAttempt(w) PROVE FALSE
    BY <1>4, <2>1, <2>9 DEF RecoverAttempt, VerifyAttempt, CommandSteps
  <2> QED BY <1>3, <1>7, <2>1, <2>3, <2>4, <2>5, <2>6, <2>7, <2>8, <2>9 DEF Confirm
<1>8. CASE User(w)
  <2>1. ASSUME NEW f \in Refs, NEW c \in Contents, StartDraft(w, f, c) PROVE wk'[w].req = None
    <3>1. ASSUME NEW out, wk' = [wk EXCEPT ![w] = Answered(out, None, "insert")]
          PROVE  wk'[w].req = None
      BY <1>1, <3>1 DEF Answered, Idle
    <3>2. ASSUME wk' = [wk EXCEPT ![w] = [Idle EXCEPT !.pc = "draft_task", !.ref = f,
                                                    !.content = c, !.asof = now]]
          PROVE  wk'[w].req = None
      BY <1>1, <3>2 DEF Idle
    <3> QED BY <2>1, <3>1, <3>2 DEF StartDraft
  <2>2. ASSUME NEW r \in Requests, NEW op \in Operations, StartConfirm(w, r, op)
        PROVE  wk'[w].req = r /\ Exists(r) /\ Written(r)
    <3>1. ASSUME NEW out, wk' = [wk EXCEPT ![w] = Answered(out, r, op)]
          PROVE  wk'[w].req = r /\ out \in {"ok", "replayed"}
      BY <1>1, <3>1 DEF Answered, Idle
    <3>2. ASSUME NEW step, wk' = [wk EXCEPT ![w] = [Idle EXCEPT !.pc = step, !.req = r,
                                                                 !.op = op, !.asof = now]]
          PROVE  FALSE
      BY <1>1, <3>2 DEF Idle
    <3>3. \A out \in {"blocked", "data_gap", "already_handled", "source_changed", "write_failed"} :
             wk' # [wk EXCEPT ![w] = Answered(out, r, op)]
      BY <3>1
    <3>4. \A step \in {"expire", "task"} :
             wk' # [wk EXCEPT ![w] = [Idle EXCEPT !.pc = step, !.req = r, !.op = op, !.asof = now]]
      BY <3>2
    <3>5. /\ Exists(r) /\ requests[r].status = "confirmed"
          /\ wk' = [wk EXCEPT ![w] = Answered("replayed", r, op)]
      BY <2>2, <3>3, <3>4 DEF StartConfirm
    <3>6. wk'[w].req = r
      BY <3>1, <3>5
    <3> QED BY <3>5, <3>6 DEF ConfirmedWasWritten
  <2> QED BY <1>8, <2>1, <2>2 DEF User
<1>9. CASE Crash(w)
  BY <1>2, <1>9 DEF Crash
<1> QED BY <1>6, <1>7, <1>8, <1>9

LEMMA ConfirmedWasWrittenStep == SafetyInv /\ [Next]_vars => ConfirmedWasWritten'
<1> SUFFICES ASSUME SafetyInv, [Next]_vars PROVE ConfirmedWasWritten'
  OBVIOUS
<1> USE DEF SafetyInv
<1>1. Stable
  BY NextIsStable
<1>2. ASSUME NEW r \in Requests, requests'[r].status = "confirmed" PROVE Written(r)'
  <2>1. Exists(r)'
    BY <1>2 DEF Exists, Absent
  <2>2. Exists(r) /\ Written(r)
    <3>1. CASE Exists(r) /\ requests'[r].status = requests[r].status
      BY <1>2, <3>1 DEF ConfirmedWasWritten
    <3>2. ASSUME NEW w \in Workers, At(w, "transition"), wk[w].req = r, Exists(r)
          PROVE  Written(r)
      BY <3>2 DEF ProcessInv, Relies, At
    <3> QED BY <1>2, <2>1, <3>1, <3>2, RequestsChange
  <2> QED BY <1>1, <2>2, KeysStay
<1>3. ASSUME NEW w \in Workers, wk'[w].out \in {"ok", "replayed"}, wk'[w].req # None
      PROVE  Written(wk[w].req)'
  <2>1. wk'[w].req \in Requests /\ Exists(wk'[w].req) /\ Written(wk'[w].req)
    <3>1. CASE wk'[w] = wk[w]
      BY <1>3, <3>1 DEF ConfirmedWasWritten, TypeOK, Process, ProcessInv, Relies
    <3>2. CASE wk'[w] # wk[w]
      <4>1. Draft(w) \/ Confirm(w) \/ User(w) \/ Crash(w)
        BY <3>2, OneMoves DEF StepOfOne
      <4> QED BY <1>3, <4>1, AnswersTellTheTruth
    <3> QED BY <3>1, <3>2
  <2> QED BY <1>1, <2>1, KeysStay DEF Written, ReviewOf
<1> QED BY <1>2, <1>3 DEF ConfirmedWasWritten

LEMMA SafetyInit == Init => SafetyInv
<1> SUFFICES ASSUME Init PROVE SafetyInv
  OBVIOUS
<1>1. TypeOK
  BY TypeInit
<1>2. /\ \A r \in Requests : requests[r] = Absent
      /\ DOMAIN attempts = {} /\ wrote = {} /\ \A v \in Reviews : task[v] = Absent
      /\ \A w \in Workers : /\ wk[w].pc = "idle" /\ wk[w].req = None /\ wk[w].out = "none"
                             /\ wk[w].found = "none"
  BY DEF Init, Idle
<1>3. "idle" \notin DraftSteps \cup CommandSteps \cup WriteSteps \cup {"reconcile", "recover"}
  BY DEF DraftSteps, CommandSteps, WriteSteps
<1>4. ProcessInv
  BY <1>2, <1>3 DEF ProcessInv, RefsOutliveRequests, Relies, At, Exists
<1>5. ExclusiveWriter
  BY <1>2, <1>3 DEF ExclusiveWriter
<1>6. WritesAccountedFor
  BY <1>2 DEF WritesAccountedFor
<1>7. ConfirmedWasWritten
  BY <1>2 DEF ConfirmedWasWritten, Absent
<1> QED BY <1>1, <1>4, <1>5, <1>6, <1>7 DEF SafetyInv

LEMMA SafetyStep == SafetyInv /\ [Next]_vars => SafetyInv'
<1> SUFFICES ASSUME SafetyInv, [Next]_vars PROVE SafetyInv'
  OBVIOUS
<1>1. TypeOK'
  BY TypeStep DEF SafetyInv
<1> QED
  BY <1>1, ProcessStep, ExclusiveWriterStep, WritesAccountedForStep, ConfirmedWasWrittenStep
  DEF SafetyInv

LEMMA SafetyAlways == Spec => []SafetyInv
<1> QED BY SafetyInit, SafetyStep, PTL DEF Spec

(* Every variable of the protocol keeps its type. *)
THEOREM TypeCorrect == Spec => []TypeOK
<1>1. SafetyInv => TypeOK
  BY DEF SafetyInv
<1> QED BY <1>1, SafetyAlways, PTL

(* What each process relies on between its transactions holds throughout. *)
THEOREM ProcessesRely == Spec => []ProcessInv
<1>1. SafetyInv => ProcessInv
  BY DEF SafetyInv
<1> QED BY <1>1, SafetyAlways, PTL

(* begin_write_attempt makes one process the only writer of a key, however *)
(* many processes confirm the same request.                                *)
THEOREM WritersAreExclusive == Spec => []ExclusiveWriter
<1>1. SafetyInv => ExclusiveWriter
  BY DEF SafetyInv
<1> QED BY <1>1, SafetyAlways, PTL

(* The attempt log and the task table agree, whatever crashes. *)
THEOREM WritesAreAccountedFor == Spec => []WritesAccountedFor
<1>1. SafetyInv => WritesAccountedFor
  BY DEF SafetyInv
<1> QED BY <1>1, SafetyAlways, PTL

(* No request is confirmed, and no caller told so, without its write. *)
THEOREM ConfirmedIsWritten == Spec => []ConfirmedWasWritten
<1>1. SafetyInv => ConfirmedWasWritten
  BY DEF SafetyInv
<1> QED BY <1>1, SafetyAlways, PTL

-----------------------------------------------------------------------------
(* Sealed requests, and the audit of their status                          *)

(* A terminal status is final and a sealed request is never rewritten. *)
THEOREM RequestsStaySealed == Spec => SealedRequests
<1>1. SafetyInv /\ [Next]_vars
        => [\A r \in Requests : Exists(r) =>
               /\ requests'[r] = [requests[r] EXCEPT !.status = requests'[r].status]
               /\ requests[r].status # "confirmation_pending" => requests'[r] = requests[r]]_vars
  BY NextIsStable DEF SafetyInv, Stable, Sealed
<1> QED BY <1>1, SafetyAlways, PTL DEF Spec, SealedRequests

LEMMA EventsDiffer ==
    ASSUME NEW r, NEW s, NEW x, NEW y
    PROVE  [request |-> r, action |-> s] = [request |-> x, action |-> y] <=> r = x /\ s = y
<1> DEFINE a == [request |-> r, action |-> s]
           b == [request |-> x, action |-> y]
<1>1. a.request = r /\ a.action = s /\ b.request = x /\ b.action = y
  OBVIOUS
<1>2. r = x /\ s = y => a = b
  OBVIOUS
<1>3. a = b => a.request = b.request /\ a.action = b.action
  OBVIOUS
<1> QED BY <1>1, <1>2, <1>3

LEMMA EventAdded ==
    ASSUME NEW E, NEW x, NEW y, NEW r, NEW s
    PROVE  [request |-> r, action |-> s] \in E \cup {[request |-> x, action |-> y]}
              <=> [request |-> r, action |-> s] \in E \/ (r = x /\ s = y)
  BY EventsDiffer

(* What AuditMatchesStatus says of one request. *)
LogOf(r) ==
    /\ [request |-> r, action |-> "draft_created"] \in events <=> Exists(r)
    /\ \A s \in TerminalStatuses \ {"invalidated_by_new_version"} :
          [request |-> r, action |-> s] \in events <=> requests[r].status = s
    /\ [request |-> r, action |-> "invalidated_by_new_version"] \in events
          => requests[r].status \in TerminalStatuses

LEMMA AuditIsPerRequest == AuditMatchesStatus <=> \A r \in Requests : LogOf(r)
  BY DEF AuditMatchesStatus, LogOf

(* A request that did not change and got no event. *)
LEMMA QuietLog ==
    ASSUME NEW r \in Requests, LogOf(r), requests'[r] = requests[r],
           \A s : [request |-> r, action |-> s] \in events'
                     <=> [request |-> r, action |-> s] \in events
    PROVE  LogOf(r)'
<1>1. Exists(r)' <=> Exists(r)
  BY DEF Exists
<1>2. requests'[r].status = requests[r].status
  OBVIOUS
<1> QED BY <1>1, <1>2 DEF LogOf

LEMMA TransitionAudits ==
    ASSUME TypeOK, NEW x \in Requests,
           NEW new \in TerminalStatuses \ {"invalidated_by_new_version"},
           Transition(x, new), \A r \in Requests : LogOf(r)
    PROVE  \A r \in Requests : LogOf(r)'
<1> SUFFICES ASSUME NEW r \in Requests PROVE LogOf(r)'
  OBVIOUS
<1>0. LogOf(r)
  OBVIOUS
<1>1. CASE UNCHANGED <<requests, events>>
  BY <1>0, <1>1 DEF LogOf, Exists
<1>2. CASE MayTransition(x) /\ requests' = [requests EXCEPT ![x].status = new]
             /\ events' = events \cup {[request |-> x, action |-> new]}
  <2>1. Exists(x) /\ requests[x] \in RequestRow /\ requests[x].status = "confirmation_pending"
    BY <1>2 DEF MayTransition, Exists, Absent, TypeOK
  <2>2. \A s : [request |-> r, action |-> s] \in events'
                 <=> [request |-> r, action |-> s] \in events \/ (r = x /\ s = new)
    BY <1>2, EventAdded
  <2>3. CASE r # x
    <3>1. requests'[r] = requests[r]
      BY <1>2, <2>3 DEF TypeOK
    <3> QED BY <1>0, <2>2, <2>3, <3>1, QuietLog
  <2>4. CASE r = x
    <3>1. requests'[r].status = new /\ Exists(r) /\ Exists(r)'
      BY <1>2, <2>1, <2>4 DEF TypeOK, RequestRow, Exists, Absent, TerminalStatuses
    <3>2. new # "draft_created" /\ "confirmation_pending" \notin TerminalStatuses
      BY DEF TerminalStatuses
    <3>3. [request |-> r, action |-> "draft_created"] \in events' <=> Exists(r)'
      BY <1>0, <2>2, <3>1, <3>2 DEF LogOf
    <3>4. ASSUME NEW s \in TerminalStatuses \ {"invalidated_by_new_version"}
          PROVE  [request |-> r, action |-> s] \in events' <=> requests'[r].status = s
      <4>1. [request |-> r, action |-> s] \notin events
        BY <1>0, <2>1, <2>4, <3>2 DEF LogOf
      <4> QED BY <2>2, <2>4, <3>1, <4>1
    <3> QED BY <3>1, <3>3, <3>4 DEF LogOf
  <2> QED BY <2>3, <2>4
<1> QED BY <1>1, <1>2 DEF Transition

LEMMA AuditStep ==
    SafetyInv /\ DraftsRemember /\ AuditMatchesStatus /\ [Next]_vars => AuditMatchesStatus'
<1> SUFFICES ASSUME SafetyInv, DraftsRemember, [Next]_vars, \A r \in Requests : LogOf(r)
             PROVE  \A r \in Requests : LogOf(r)'
  BY AuditIsPerRequest DEF AuditMatchesStatus, LogOf
<1> USE DEF SafetyInv, control, outbox
<1>1. ASSUME UNCHANGED <<requests, events>> PROVE \A r \in Requests : LogOf(r)'
  BY <1>1 DEF LogOf, Exists
<1>2. ASSUME NEW w \in Workers, DraftInvalidate(w) PROVE \A r \in Requests : LogOf(r)'
  <2> DEFINE inv == "invalidated_by_new_version"
  <2> SUFFICES ASSUME NEW r \in Requests PROVE LogOf(r)'
    OBVIOUS
  <2>0. LogOf(r) /\ wk[w].old \subseteq Requests
    BY DEF TypeOK, Process
  <2>1. \A s : [request |-> r, action |-> s] \in events'
                 <=> [request |-> r, action |-> s] \in events \/ (r \in wk[w].old /\ s = inv)
    BY <1>2 DEF DraftInvalidate
  <2>2. inv # "draft_created" /\ "confirmation_pending" \notin TerminalStatuses
        /\ inv \in TerminalStatuses
    BY DEF TerminalStatuses
  <2>3. Exists(r)' <=> Exists(r)
    BY <1>2, InvalidateSeals
  <2>4. CASE r \in ToInvalidate(wk[w].ref)
    <3>1. Exists(r) /\ requests[r].status = "confirmation_pending"
      BY <2>4 DEF ToInvalidate, DraftsOf
    <3>2. requests[r] \in RequestRow
      BY <3>1 DEF TypeOK, Exists
    <3>3. requests'[r].status = inv
      BY <1>2, <2>4, <3>2 DEF DraftInvalidate, RequestRow
    <3>4. [request |-> r, action |-> "draft_created"] \in events' <=> Exists(r)'
      BY <2>0, <2>1, <2>2, <2>3 DEF LogOf
    <3>5. ASSUME NEW s \in TerminalStatuses \ {inv}
          PROVE  [request |-> r, action |-> s] \in events' <=> requests'[r].status = s
      <4>1. [request |-> r, action |-> s] \notin events
        BY <2>0, <2>2, <3>1 DEF LogOf
      <4> QED BY <2>1, <3>3, <4>1
    <3> QED BY <2>2, <3>3, <3>4, <3>5 DEF LogOf
  <2>5. CASE r \notin ToInvalidate(wk[w].ref)
    <3>1. requests'[r] = requests[r]
      BY <1>2, <2>5 DEF DraftInvalidate
    <3>2. CASE r \notin wk[w].old
      BY <2>0, <2>1, <3>1, <3>2, QuietLog
    <3>3. CASE r \in wk[w].old
      <4>1. /\ Exists(r) /\ requests[r].ref = wk[w].ref
            /\ requests[r].status # "copy_only" /\ requests[r].status # "confirmation_pending"
        BY <2>5, <3>3 DEF DraftsRemember, ToInvalidate, DraftsOf
      <4>2. requests'[r].status \in TerminalStatuses
        BY <3>1, <4>1 DEF TypeOK, Exists, RequestRow
      <4>3. requests'[r].status = requests[r].status
        BY <3>1
      <4> QED BY <2>0, <2>1, <2>2, <2>3, <4>2, <4>3 DEF LogOf
    <3> QED BY <3>2, <3>3
  <2> QED BY <2>4, <2>5
<1>3. ASSUME NEW w \in Workers, NEW q \in Requests, DraftCreate(w, q)
      PROVE  \A r \in Requests : LogOf(r)'
  <2> SUFFICES ASSUME NEW r \in Requests PROVE LogOf(r)'
    OBVIOUS
  <2>0. LogOf(r) /\ requests[q] = Absent
    BY <1>3 DEF DraftCreate, Exists
  <2>1. \A s : [request |-> r, action |-> s] \in events'
                 <=> [request |-> r, action |-> s] \in events \/ (r = q /\ s = "draft_created")
    BY <1>3, EventAdded DEF DraftCreate
  <2>2. CASE r # q
    BY <1>3, <2>0, <2>1, <2>2, CreateIsTyped, QuietLog
  <2>3. CASE r = q
    <3>1. requests'[r] \in RequestRow /\ requests'[r].status \in {"copy_only", "confirmation_pending"}
      BY <1>3, <2>3, CreateIsTyped
    <3>2. /\ Exists(r)' /\ requests'[r].status \notin TerminalStatuses
          /\ requests[r].status \notin TerminalStatuses
      BY <2>0, <2>3, <3>1 DEF Exists, Absent, TerminalStatuses
    <3>3. "draft_created" \notin TerminalStatuses /\ "invalidated_by_new_version" \in TerminalStatuses
      BY DEF TerminalStatuses
    <3>4. ASSUME NEW s \in TerminalStatuses PROVE [request |-> r, action |-> s] \notin events
      BY <2>0, <3>2, <3>4 DEF LogOf
    <3>5. [request |-> r, action |-> "draft_created"] \in events'
      BY <2>1, <2>3
    <3>6. ASSUME NEW s \in TerminalStatuses PROVE [request |-> r, action |-> s] \notin events'
      BY <2>1, <3>3, <3>4, <3>6
    <3> QED BY <3>2, <3>3, <3>5, <3>6 DEF LogOf
  <2> QED BY <2>2, <2>3
<1>4. ASSUME NEW w \in Workers, ExpireRequest(w) \/ ConfirmRequest(w)
      PROVE  \A r \in Requests : LogOf(r)'
  <2>1. wk[w].req \in Requests
    BY <1>4, CommandTypes DEF ExpireRequest, ConfirmRequest, At, CommandSteps
  <2> QED BY <1>4, <2>1, TransitionAudits DEF ExpireRequest, ConfirmRequest, TerminalStatuses
<1>5. ASSUME NEW x \in Requests, NEW s \in Decisions, RejectOrCancel(x, s)
      PROVE  \A r \in Requests : LogOf(r)'
  <2>1. s \in TerminalStatuses \ {"invalidated_by_new_version"}
    BY BoundAssumption DEF TerminalStatuses
  <2> QED BY <1>5, <2>1, TransitionAudits DEF RejectOrCancel
<1>6. ASSUME NEW w \in Workers, Draft(w) PROVE \A r \in Requests : LogOf(r)'
  BY <1>1, <1>2, <1>3, <1>6 DEF Draft, DraftReadTask, DraftReadPending, DraftReadVersion
<1>7. ASSUME NEW w \in Workers, Confirm(w) PROVE \A r \in Requests : LogOf(r)'
  BY <1>1, <1>4, <1>7
  DEF Confirm, ReadTask, BeginWriteAttempt, Reconcile, RecoverAttempt, InsertPending, CasRetry,
      Readback, FailAttempt, VerifyAttempt
<1>8. ASSUME NEW w \in Workers, User(w) \/ Crash(w) PROVE \A r \in Requests : LogOf(r)'
  BY <1>1, <1>8 DEF User, StartDraft, StartConfirm, Crash
<1>9. CASE Environment
  BY <1>1, <1>5, <1>9 DEF Environment, IssueReviewRef, PluginUpdates, SourceChanges, Tick
<1> QED BY <1>1, <1>6, <1>7, <1>8, <1>9 DEF Next, vars

(* Only the SELECT of invalidate_pending_requests puts ids in a process's   *)
(* memory, and they stay there with the ref they belong to.                *)
LEMMA OldKept ==
    ASSUME TypeOK, NEW w \in Workers, Draft(w) \/ Confirm(w) \/ User(w) \/ Crash(w)
    PROVE  \/ wk'[w].old = {}
           \/ wk'[w].old = wk[w].old /\ wk'[w].ref = wk[w].ref
           \/ DraftReadPending(w)
<1> DEFINE Kept == \/ wk'[w].old = {}
                   \/ wk'[w].old = wk[w].old /\ wk'[w].ref = wk[w].ref
<1> SUFFICES ASSUME ~DraftReadPending(w) PROVE Kept
  OBVIOUS
<1>0. wk[w] \in Process /\ wk \in [Workers -> Process]
  BY DEF TypeOK
<1>1. ASSUME NEW out, NEW r, NEW op, wk' = [wk EXCEPT ![w] = Answered(out, r, op)] PROVE Kept
  BY <1>0, <1>1 DEF Answered, Idle
<1>2. ASSUME NEW out, Return(w, out) PROVE Kept
  BY <1>1, <1>2 DEF Return
<1>3. ASSUME NEW s, Goto(w, s) PROVE Kept
  BY <1>0, <1>3 DEF Goto, Process
<1>4. ASSUME NEW recon, NEW out, FailAs(w, recon, out) PROVE Kept
  BY <1>0, <1>4 DEF FailAs, Process
<1>5. CASE Draft(w)
  <2>1. CASE DraftInvalidate(w)
    <3>1. wk'[w].old = IF DraftReadPending(w) THEN ToInvalidate(wk[w].ref) ELSE {}
      BY <2>1, InvalidationMoves
    <3> QED BY <1>5, <3>1
  <2>2. CASE DraftReadVersion(w)
    <3>1. PICK n : wk' = [wk EXCEPT ![w] = [@ EXCEPT !.pc = "draft_create", !.ver = n + 1]]
      BY <2>2 DEF DraftReadVersion
    <3> QED BY <1>0, <3>1 DEF Process
  <2> HIDE DEF Kept
  <2> QED BY <1>2, <1>3, <1>5, <2>1, <2>2 DEF Draft, DraftReadTask, DraftCreate
<1>6. CASE Confirm(w)
  <2>1. CASE ReadTask(w)
    <3>1. ASSUME NEW row, wk' = [wk EXCEPT ![w] = [@ EXCEPT !.pc = "attempt", !.seen = row]]
          PROVE  Kept
      BY <1>0, <3>1 DEF Process
    <3> HIDE DEF Kept
    <3> QED BY <1>2, <1>3, <2>1, <3>1 DEF ReadTask
  <2>2. CASE BeginWriteAttempt(w)
    <3>1. ASSUME NEW f, wk' = [wk EXCEPT ![w] = [@ EXCEPT !.pc = "reconcile", !.found = f]]
          PROVE  Kept
      BY <1>0, <3>1 DEF Process
    <3> HIDE DEF Kept
    <3> QED BY <1>2, <1>3, <2>2, <3>1 DEF BeginWriteAttempt
  <2> HIDE DEF Kept
  <2> QED
    BY <1>2, <1>3, <1>4, <1>6, <2>1, <2>2
    DEF Confirm, ExpireRequest, Reconcile, RecoverAttempt, InsertPending, CasRetry, Readback,
        FailAttempt, VerifyAttempt, ConfirmRequest
<1>7. CASE User(w)
  <2>1. ASSUME NEW step, NEW f, NEW c,
               wk' = [wk EXCEPT ![w] = [Idle EXCEPT !.pc = step, !.ref = f, !.content = c,
                                                    !.asof = now]]
        PROVE  Kept
    BY <1>0, <2>1 DEF Idle
  <2>2. ASSUME NEW step, NEW r, NEW op,
               wk' = [wk EXCEPT ![w] = [Idle EXCEPT !.pc = step, !.req = r, !.op = op,
                                                    !.asof = now]]
        PROVE  Kept
    BY <1>0, <2>2 DEF Idle
  <2> HIDE DEF Kept
  <2>3. ASSUME NEW f, NEW c, StartDraft(w, f, c) PROVE Kept
    BY <1>1, <2>1, <2>3 DEF StartDraft
  <2>4. ASSUME NEW r, NEW op, StartConfirm(w, r, op) PROVE Kept
    BY <1>1, <2>2, <2>4 DEF StartConfirm
  <2> QED BY <1>7, <2>3, <2>4 DEF User
<1>8. CASE Crash(w)
  BY <1>2, <1>8 DEF Crash
<1> QED BY <1>5, <1>6, <1>7, <1>8

LEMMA RememberStep == SafetyInv /\ DraftsRemember /\ [Next]_vars => DraftsRemember'
<1> SUFFICES ASSUME SafetyInv, DraftsRemember, [Next]_vars PROVE DraftsRemember'
  OBVIOUS
<1>1. Stable /\ TypeOK'
  BY NextIsStable, TypeStep DEF SafetyInv
<1> SUFFICES ASSUME NEW w \in Workers, NEW r \in Requests, r \in wk'[w].old
             PROVE  Exists(r)' /\ requests'[r].ref = wk'[w].ref /\ requests'[r].status # "copy_only"
  <2>1. \A w \in Workers : wk'[w].old \subseteq Requests
    BY <1>1 DEF TypeOK, Process
  <2> QED BY <2>1 DEF DraftsRemember, Exists
<1>2. ASSUME Exists(r), requests[r].status # "copy_only"
      PROVE  Exists(r)' /\ requests'[r].ref = requests[r].ref /\ requests'[r].status # "copy_only"
  <2>1. Exists(r)' /\ Sealed(r) /\ requests[r] \in RequestRow
    BY <1>1, <1>2 DEF Stable, SafetyInv, TypeOK, Exists
  <2>2. requests'[r].ref = requests[r].ref /\ requests'[r].expires = requests[r].expires
    BY <2>1 DEF Sealed, RequestRow
  <2>3. requests[r].expires # None
    BY <1>2 DEF SafetyInv, TypeOK
  <2>4. requests'[r].status = "copy_only" <=> requests'[r].expires = None
    BY <1>1, <2>1 DEF TypeOK, Exists
  <2> QED BY <2>1, <2>2, <2>3, <2>4
<1>3. CASE wk'[w].old = wk[w].old /\ wk'[w].ref = wk[w].ref
  BY <1>2, <1>3 DEF DraftsRemember, Exists
<1>4. CASE DraftReadPending(w)
  <2>1. wk'[w].old = ToInvalidate(wk[w].ref) /\ wk'[w].ref = wk[w].ref
    BY <1>4, InvalidationMoves DEF SafetyInv
  <2>2. Exists(r) /\ requests[r].ref = wk[w].ref /\ requests[r].status # "copy_only"
    BY <2>1 DEF ToInvalidate, DraftsOf
  <2> QED BY <1>2, <2>1, <2>2 DEF Exists
<1>5. \/ wk'[w] = wk[w]
      \/ Draft(w) \/ Confirm(w) \/ User(w) \/ Crash(w)
  BY OneMoves DEF SafetyInv, StepOfOne
<1>6. CASE wk'[w] = wk[w]
  BY <1>3, <1>6
<1>7. CASE Draft(w) \/ Confirm(w) \/ User(w) \/ Crash(w)
  BY <1>3, <1>4, <1>7, OldKept DEF SafetyInv
<1> QED BY <1>5, <1>6, <1>7

(* Every status change of transition_request is made together with its     *)
(* event, and an invalidation is only logged for a decided request.        *)
THEOREM AuditIsFaithful == Spec => []AuditMatchesStatus
<1>1. Init => DraftsRemember /\ AuditMatchesStatus
  BY DEF Init, Idle, DraftsRemember, AuditMatchesStatus, Exists, Absent, TerminalStatuses
<1> QED BY <1>1, RememberStep, AuditStep, SafetyAlways, PTL DEF Spec

-----------------------------------------------------------------------------
(* The service implements the contract of the task table                   *)

LEMMA OutboxStep == SafetyInv /\ [Next]_vars => [Outbox!OutboxNext]_(Outbox!outboxVars)
<1> SUFFICES ASSUME SafetyInv, [Next]_vars
             PROVE  Outbox!OutboxNext \/ UNCHANGED <<task, wrote>>
  BY DEF Outbox!outboxVars
<1> USE DEF SafetyInv
<1>1. ASSUME NEW w \in Workers, At(w, "write"), WriteRow(w),
             \/ wk[w].op = "insert" /\ task[MyReview(w)] = Absent
             \/ wk[w].op = "cas_retry" /\ CasMatches(w)
      PROVE  Outbox!OutboxNext
  <2>1. wk[w].pc \in CommandSteps
    BY <1>1 DEF At, CommandSteps, WriteSteps
  <2>2. MyKey(w) \in Keys /\ wk[w].asof \in Time
    BY <2>1, CommandTypes
  <2>3. MyKey(w).review = MyReview(w) /\ MyKey(w).content = MyContent(w)
    BY DEF MyKey, KeyOf, MyReview, MyContent
  <2>4. MyKey(w) \notin wrote
    BY <1>1 DEF ProcessInv, Relies
  <2>5. task[MyReview(w)].status \in {"absent", "failed", "cancelled"}
    <3>1. CASE task[MyReview(w)] = Absent
      BY <3>1 DEF Absent
    <3>2. CASE wk[w].op = "cas_retry" /\ CasMatches(w)
      BY <1>1, <3>2 DEF ProcessInv, Relies, At, CasMatches
    <3> QED BY <1>1, <3>1, <3>2
  <2>6. Outbox!Write(MyKey(w), wk[w].asof)
    BY <1>1, <2>3, <2>4, <2>5 DEF Outbox!Write, WriteRow
  <2> QED BY <2>2, <2>6 DEF Outbox!OutboxNext
<1>2. ASSUME NEW v \in Reviews, NEW s \in Reports, PluginUpdates(v, s), UNCHANGED wrote
      PROVE  Outbox!OutboxNext
  <2>1. s \in {"processing", "success", "failed", "cancelled"}
    BY BoundAssumption
  <2>2. Outbox!Observe(v, s)
    BY <1>2, <2>1 DEF PluginUpdates, Outbox!Observe
  <2> QED BY <2>1, <2>2 DEF Outbox!OutboxNext, Outbox!RowStatuses
<1> QED BY <1>1, <1>2, OutboxChanges DEF outbox

(* Every behaviour of the service is one the plugin was promised: one row  *)
(* per review, no active or successful row is ever overwritten, and each   *)
(* idempotency key is written at most once.                                *)
THEOREM ImplementsOutbox == Spec => OutboxContract
<1>1. Init => Outbox!OutboxInit
  BY DEF Init, Outbox!OutboxInit, Outbox!NoRow, Absent
<1> QED BY <1>1, OutboxStep, SafetyAlways, PTL DEF Spec, OutboxContract, Outbox!OutboxSpec
=============================================================================
