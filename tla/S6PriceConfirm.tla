--------------------------- MODULE S6PriceConfirm ---------------------------
(***************************************************************************)
(* Price confirmation in hotel-ota-ai (S6).  A dry run stores its preview  *)
(* as a row of s6_price_confirmations; "confirm" claims one row and turns  *)
(* its items into rows of the price task outbox, which a browser plugin    *)
(* executes.  Each chat message is served by a process of its own (a       *)
(* member of Workers) and each call on a database is a transaction of its  *)
(* own.  One hotel and one chat; a product stands for a platform product   *)
(* on one stay date.                                                       *)
(***************************************************************************)
EXTENDS Naturals, Sequences, FiniteSetsExt

CONSTANTS
    Users,       \* principals who may ask for previews and confirm them
    Owners,      \* those of them whose role is admin or owner, the rest operate
    Products,    \* (channel, ota_product_id, business_date)
    Batches,     \* the product lists of batch previews
    Workers,     \* processes serving a confirmation
    MaxTokens,   \* bound: rows of s6_price_confirmations
    MaxLapsed,   \* bound: rows that expire
    Requesters,  \* bound: the users whose previews are modelled
    Previews,    \* bound: how many previews end as "one", "batch" and "rejected"
    PluginResults, \* bound: what the plugin reports, of {"SUCCESS", "FAILED"}
    CanCrash,    \* whether a process may die between two transactions
    None         \* no actor

ASSUME UsersAssumption == Owners \subseteq Users /\ None \notin Users
ASSUME BatchesAssumption == Batches \subseteq Seq(Products) /\ <<>> \notin Batches
ASSUME BoundsAssumption ==
    /\ MaxTokens \in Nat /\ MaxLapsed \in Nat /\ CanCrash \in BOOLEAN
    /\ Requesters \subseteq Users /\ Previews \subseteq [{"one", "batch", "rejected"} -> Nat]
    /\ PluginResults \subseteq {"SUCCESS", "FAILED"}

VARIABLES
    rows,       \* table s6_price_confirmations in the order of creation
    lapsed,     \* the rows up to this one are past expires_at
    approvals,  \* table approvals, what its price_update rows say
    tasks,      \* the price task tables in the order of their ids
    wk          \* the serving processes and what they hold

vars == <<rows, lapsed, approvals, tasks, wk>>

(***************************************************************************)
(* Tables.  A token is the position of its row: all rows live ten minutes, *)
(* so they expire in the order they were created in.                       *)
(***************************************************************************)
Tokens == DOMAIN rows

(* One previewed price; its root and n stand for its source_decision_id. *)
Item == [root: Nat \ {0}, n: Nat \ {0}, product: Products]

Row == [status: {"pending", "rejected", "processing", "completed"},
        requester: Users,
        batch: BOOLEAN,      \* payload has batch_items
        items: Seq(Item)]

Approval == [token: Nat \ {0}, by: Users]

Task == [token: Nat \ {0}, item: Item, by: Users,
         status: {"PENDING", "SUCCESS", "FAILED"}]

Process == [pc: {"idle", "validate", "execute", "insert", "queued", "refused",
                 "child", "child_claim", "batch_finish"},
            actor: Users \cup {None},
            token: Nat,       \* the row of one item it has claimed, or 0
            batch: Nat,       \* the batch row it has claimed, or 0
            item: Nat,        \* position in the batch
            queued: Nat]      \* queued_count

Idle == [pc |-> "idle", actor |-> None, token |-> 0, batch |-> 0,
         item |-> 0, queued |-> 0]

At(w, step) == wk[w].pc = step
Goto(w, step) == wk' = [wk EXCEPT ![w].pc = step]

(* Where a process works on a row of one item. *)
ItemSteps == {"validate", "execute", "insert", "queued", "refused"}

(* The rows a process has claimed and must finish. *)
Held(w) ==
    {t \in {wk[w].token} : wk[w].pc \in ItemSteps}
    \cup ({wk[w].batch} \ {0})

(* The item a claimed row of one item is for. *)
MyItem(w) == rows[wk[w].token].items[1]

(* The id of a child row is never shown to anyone. *)
Shown(t) == \A n \in DOMAIN rows[t].items : rows[t].items[n].root = t

(***************************************************************************)
(* Bounds                                                                  *)
(***************************************************************************)
ChildrenToCome(w) ==
    IF wk[w].batch = 0 THEN 0
    ELSE Len(rows[wk[w].batch].items) - wk[w].item + (IF At(w, "child") THEN 1 ELSE 0)

RoomFor(k) == Len(rows) + MapThenSumSet(ChildrenToCome, Workers) + k <= MaxTokens

KindOf(t) ==
    IF rows[t].batch THEN "batch" ELSE IF rows[t].status = "rejected" THEN "rejected" ELSE "one"

NumberOf(kind) == Cardinality({t \in Tokens : Shown(t) /\ KindOf(t) = kind})

MoreOf(kind) ==
    \E mix \in Previews :
        \A k \in DOMAIN mix : NumberOf(k) + (IF k = kind THEN 1 ELSE 0) <= mix[k]

(***************************************************************************)
(* The preview side: dry runs store what the user may confirm.             *)
(***************************************************************************)
ItemsOf(ps) ==
    [n \in DOMAIN ps |-> [root |-> Len(rows) + 1, n |-> n, product |-> ps[n]]]

CreateConfirmation(u, isBatch, items) ==
    rows' = Append(rows, [status |-> "pending", requester |-> u,
                          batch |-> isBatch, items |-> items])

(* _build_s6_real_dry_run and _create_s5_candidate_confirmations *)
PreviewOne(u) ==
    /\ MoreOf("one") /\ RoomFor(1)
    /\ \E p \in Products : CreateConfirmation(u, FALSE, ItemsOf(<<p>>))
    /\ UNCHANGED <<lapsed, approvals, tasks, wk>>

(* _build_s6_batch_dry_run *)
PreviewBatch(u) ==
    /\ MoreOf("batch")
    /\ \E ps \in Batches :
          /\ RoomFor(1 + Len(ps))
          /\ CreateConfirmation(u, TRUE, ItemsOf(ps))
    /\ UNCHANGED <<lapsed, approvals, tasks, wk>>

(* A dry run beyond the change limit leaves a row nobody can confirm. *)
RecordRejectedPreview(u) ==
    /\ MoreOf("rejected") /\ RoomFor(1)
    /\ rows' = Append(rows, [status |-> "rejected", requester |-> u,
                             batch |-> FALSE, items |-> <<>>])
    /\ UNCHANGED <<lapsed, approvals, tasks, wk>>

Expire ==
    /\ lapsed < Len(rows) /\ lapsed < MaxLapsed
    /\ lapsed' = lapsed + 1
    /\ UNCHANGED <<rows, approvals, tasks, wk>>

(***************************************************************************)
(* Claiming a row: one BEGIN IMMEDIATE transaction.                        *)
(***************************************************************************)
UncheckedClaimable(t) == t > lapsed
Claimable(t) == rows[t].status = "pending" /\ t > lapsed

(* What "confirm" without a token stands for: the requester's only pending *)
(* row, if there is exactly one.                                           *)
PendingOf(u) == {t \in Tokens : rows[t].requester = u /\ rows[t].status = "pending" /\ t > lapsed}
PlainChoice(u) == {t \in Tokens : PendingOf(u) = {t}}

SetStatus(t, s) == rows' = [rows EXCEPT ![t].status = s]

ClaimConfirmation(t) == Claimable(t) /\ SetStatus(t, "processing")

Claimed(t, u) ==
    IF rows[t].batch
    THEN [Idle EXCEPT !.pc = "child", !.actor = u, !.batch = t, !.item = 1]
    ELSE [Idle EXCEPT !.pc = "validate", !.actor = u, !.token = t]

Confirm(w, u, t) ==
    /\ At(w, "idle")
    /\ ClaimConfirmation(t)
    /\ rows[t].batch => RoomFor(Len(rows[t].items))
    /\ wk' = [wk EXCEPT ![w] = Claimed(t, u)]
    /\ UNCHANGED <<lapsed, approvals, tasks>>

(* "confirm PRC-...": anyone in the chat may name the token. *)
ConfirmToken(w, u) == \E t \in Tokens : Shown(t) /\ Confirm(w, u, t)

ConfirmPlain(w, u) == \E t \in PlainChoice(u) : Confirm(w, u, t)

(***************************************************************************)
(* Writing one item                                                        *)
(***************************************************************************)
(* The name of the hotel, the guard evidence and the approval payload are  *)
(* looked at first; the approval is stored before anybody asks whether the *)
(* actor may execute it.                                                   *)
StoreApproval(w) ==
    /\ At(w, "validate")
    /\ \/ /\ approvals' = approvals \cup {[token |-> wk[w].token, by |-> wk[w].actor]}
          /\ Goto(w, "execute")
       \/ Goto(w, "refused") /\ UNCHANGED approvals
    /\ UNCHANGED <<rows, lapsed, tasks>>

(* approval_gate *)
AnyoneMayExecute(u, requester) == u \in Users
MayExecute(u, requester) == u \in Owners \/ u = requester

PendingExists(p) ==
    \E i \in DOMAIN tasks : tasks[i].item.product = p /\ tasks[i].status = "PENDING"

(* execute_price up to the check for a pending task of the product; the    *)
(* write switch, the DSN, the connection and the permission may refuse.    *)
ExecutePrice(w) ==
    /\ At(w, "execute")
    /\ \/ /\ MayExecute(wk[w].actor, rows[wk[w].token].requester)
          /\ [token |-> wk[w].token, by |-> wk[w].actor] \in approvals
          /\ ~ PendingExists(MyItem(w).product)
          /\ Goto(w, "insert")
       \/ Goto(w, "refused")
    /\ UNCHANGED <<rows, lapsed, approvals, tasks>>

InsertTask(w) ==
    /\ At(w, "insert")
    /\ tasks' = Append(tasks, [token |-> wk[w].token, item |-> MyItem(w),
                               by |-> wk[w].actor, status |-> "PENDING"])
    /\ Goto(w, "queued")
    /\ UNCHANGED <<rows, lapsed, approvals>>

AlwaysReopened(completed) == "pending"
NeverReopened(completed) == IF completed THEN "completed" ELSE "processing"
OutcomeStored(completed) == IF completed THEN "queued" ELSE "pending"
FinishedAs(completed) == IF completed THEN "completed" ELSE "pending"

(* The loop over a batch stops at the first item that is not queued. *)
NeverStops(outcome) == FALSE
StopsAt(outcome) == outcome = "refused"

(* Where a process stands once one item of it has ended so. *)
AfterItem(w, outcome) ==
    LET p == wk[w]
        last == StopsAt(outcome) \/ p.item = Len(rows[p.batch].items)
    IN  IF p.batch = 0 THEN Idle
        ELSE [pc |-> IF last THEN "batch_finish" ELSE "child",
              actor |-> p.actor, token |-> 0, batch |-> p.batch,
              item |-> IF last THEN p.item ELSE p.item + 1,
              queued |-> IF outcome = "queued" THEN p.queued + 1 ELSE p.queued]

(* finish_confirmation: its UPDATE asks for no status. *)
FinishConfirmation(w) ==
    /\ wk[w].pc \in {"queued", "refused"}
    /\ SetStatus(wk[w].token, FinishedAs(At(w, "queued")))
    /\ wk' = [wk EXCEPT ![w] = AfterItem(w, wk[w].pc)]
    /\ UNCHANGED <<lapsed, approvals, tasks>>

(***************************************************************************)
(* A batch: each item is stored as a row of its own, claimed and written.  *)
(***************************************************************************)
(* The guard evidence of every item is looked at before the first is stored. *)
RejectBatch(w) ==
    /\ At(w, "child") /\ wk[w].item = 1
    /\ Goto(w, "batch_finish")
    /\ UNCHANGED <<rows, lapsed, approvals, tasks>>

CreateChild(w) ==
    /\ At(w, "child")
    /\ CreateConfirmation(rows[wk[w].batch].requester, FALSE,
                          <<rows[wk[w].batch].items[wk[w].item]>>)
    /\ wk' = [wk EXCEPT ![w] = [@ EXCEPT !.pc = "child_claim", !.token = Len(rows) + 1]]
    /\ UNCHANGED <<lapsed, approvals, tasks>>

ClaimChild(w) ==
    /\ At(w, "child_claim")
    /\ \/ ClaimConfirmation(wk[w].token) /\ Goto(w, "validate")
       \/ /\ ~ Claimable(wk[w].token)
          /\ wk' = [wk EXCEPT ![w] = AfterItem(w, "refused")]
          /\ UNCHANGED rows
    /\ UNCHANGED <<lapsed, approvals, tasks>>

FinishBatch(w) ==
    /\ At(w, "batch_finish")
    /\ SetStatus(wk[w].batch, FinishedAs(wk[w].queued > 0))
    /\ wk' = [wk EXCEPT ![w] = Idle]
    /\ UNCHANGED <<lapsed, approvals, tasks>>

(***************************************************************************)
(* The environment                                                         *)
(***************************************************************************)
(* The process dies, or a database call raises: nothing finishes its rows. *)
Crash(w) ==
    /\ CanCrash /\ ~ At(w, "idle")
    /\ wk' = [wk EXCEPT ![w] = Idle]
    /\ UNCHANGED <<rows, lapsed, approvals, tasks>>

(* The browser plugin is the only one to move a task on. *)
PluginReport ==
    /\ \E i \in DOMAIN tasks, s \in PluginResults :
          /\ tasks[i].status = "PENDING"
          /\ tasks' = [tasks EXCEPT ![i].status = s]
    /\ UNCHANGED <<rows, lapsed, approvals, wk>>

(***************************************************************************)
(* Specification                                                           *)
(***************************************************************************)
Init ==
    /\ rows = <<>> /\ lapsed = 0 /\ approvals = {} /\ tasks = <<>>
    /\ wk = [w \in Workers |-> Idle]

Start(w) == \E u \in Users : ConfirmToken(w, u) \/ ConfirmPlain(w, u)

Step(w) ==
    \/ StoreApproval(w) \/ ExecutePrice(w) \/ InsertTask(w) \/ FinishConfirmation(w)
    \/ RejectBatch(w) \/ CreateChild(w) \/ ClaimChild(w) \/ FinishBatch(w)

Preview == \E u \in Requesters : PreviewOne(u) \/ PreviewBatch(u) \/ RecordRejectedPreview(u)

Next == Preview \/ Expire \/ PluginReport \/ \E w \in Workers : Start(w) \/ Step(w) \/ Crash(w)

Spec == Init /\ [][Next]_vars

(* A process that has begun runs on; nobody has to confirm or to preview. *)
Fairness == \A w \in Workers : WF_vars(Step(w))
FairSpec == Spec /\ Fairness

(***************************************************************************)
(* Correctness                                                             *)
(***************************************************************************)
TypeOK ==
    /\ rows \in Seq(Row)
    /\ lapsed \in 0..Len(rows)
    /\ approvals \subseteq Approval
    /\ tasks \in Seq(Task)
    /\ wk \in [Workers -> Process]

(* finish_confirmation writes its status whatever the row says, so nothing *)
(* but the claim keeps two processes apart: a row being processed has one  *)
(* process at most, and no process holds a row that is not "processing".   *)
ClaimsAreExclusive ==
    /\ \A w \in Workers : \A t \in Held(w) : t \in Tokens /\ rows[t].status = "processing"
    /\ \A w1, w2 \in Workers : w1 # w2 => Held(w1) \cap Held(w2) = {}

Written(t) == \E i \in DOMAIN tasks : tasks[i].token = t
WrittenOf(t) == {tasks[i].item.n : i \in {j \in DOMAIN tasks : tasks[j].item.root = t}}

(* A token of one item is good for one task, however often it is claimed,  *)
(* given back after a refusal and claimed again.                           *)
TokensAreSingleUse ==
    \A i, j \in DOMAIN tasks : tasks[i].token = tasks[j].token => i = j

(* The status tells the user the truth: a completed row has its task, and  *)
(* a row of one item that may be confirmed again has written none.         *)
StatusTellsWritten ==
    \A t \in Tokens :
        /\ rows[t].status = "completed" => IF rows[t].batch THEN WrittenOf(t) # {} ELSE Written(t)
        /\ rows[t].status = "pending" => ~ Written(t)

(* An item of a batch is written only after every item before it, also     *)
(* when attempts fail, are repeated, or leave rows behind that somebody    *)
(* else confirms.                                                          *)
BatchInOrder ==
    \A t \in Tokens : \A n \in WrittenOf(t) : n = 1 \/ n - 1 \in WrittenOf(t)

(* A task is confirmed by an admin or owner, or by the operator who asked  *)
(* for that very preview, and an approval of that actor stands behind it.  *)
Authorized(t, u) ==
    /\ u \in Owners \/ u = rows[t].requester
    /\ [token |-> t, by |-> u] \in approvals

TasksAreAuthorized ==
    \A i \in DOMAIN tasks :
        /\ Authorized(tasks[i].token, tasks[i].by)
        /\ rows[tasks[i].token].items = <<tasks[i].item>>

(* What a process relies on until its next transaction, whatever the       *)
(* others do meanwhile: its rows are claimed, the row of an item has its   *)
(* task exactly when the process says "queued", the actor of an insert is  *)
(* authorized, and the items of a batch before the current one are written.*)
Relies(w) ==
    LET p == wk[w] IN
    /\ p.pc = "idle" => p.batch = 0
    /\ p.pc # "idle" => p.actor \in Users
    /\ p.pc \in {"child", "child_claim", "batch_finish"} => p.batch # 0
    /\ p.batch # 0 =>
          /\ p.batch \in Tokens /\ rows[p.batch].batch /\ rows[p.batch].status = "processing"
          /\ p.item \in DOMAIN rows[p.batch].items
          /\ \A n \in 1..(p.item - 1) : n \in WrittenOf(p.batch)
          /\ p.queued > 0 => WrittenOf(p.batch) # {}
    /\ p.pc \in ItemSteps \cup {"child_claim"} =>
          /\ p.token \in Tokens /\ ~ rows[p.token].batch /\ rows[p.token].status # "rejected"
          /\ p.batch # 0 => rows[p.token].items[1] = rows[p.batch].items[p.item]
    /\ p.pc \in ItemSteps =>
          /\ rows[p.token].status = "processing"
          /\ Written(p.token) <=> p.pc = "queued"
    /\ p.pc = "insert" => Authorized(p.token, p.actor)

ProcessInv == \A w \in Workers : Relies(w)

(* A stored preview is immutable, and a row that is completed or rejected  *)
(* is so for good: no late finish reopens it and nobody claims it.         *)
PreviewsAreSealed ==
    [][\A t \in Tokens :
          /\ t \in DOMAIN rows'
          /\ rows'[t] = [rows[t] EXCEPT !.status = rows'[t].status]
          /\ rows[t].status \in {"completed", "rejected"} => rows'[t] = rows[t]]_vars

(* Price confirmation keeps the promise of S6PriceOutbox: whatever happens *)
(* to batches and processes, the token of a single price goes from open to *)
(* held and back, and is spent with its one task.                          *)
ClaimOf(row) ==
    IF row.batch \/ row.status = "rejected" THEN "void"
    ELSE IF row.status = "pending" THEN "open"
    ELSE IF row.status = "processing" THEN "held"
    ELSE "spent"

Book == INSTANCE S6PriceOutbox WITH
    claim <- [t \in Tokens |-> ClaimOf(rows[t])],
    booked <- [i \in DOMAIN tasks |-> [token |-> tasks[i].token, status |-> tasks[i].status]]

PriceContract == Book!BookSpec

(* As long as no process dies, a claimed row is completed or given back.   *)
Processing(t) == t \in Tokens /\ rows[t].status = "processing"
ClaimsResolve == \A t \in 1..MaxTokens : Processing(t) ~> ~ Processing(t)
=============================================================================
