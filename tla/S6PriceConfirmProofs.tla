------------------------ MODULE S6PriceConfirmProofs ------------------------
(***************************************************************************)
(* Proofs about S6PriceConfirm, for every number of users, products,       *)
(* batches and processes and for every bound.                              *)
(***************************************************************************)
EXTENDS S6PriceConfirm, TLAPS

-----------------------------------------------------------------------------
(* The inductive invariant.                                                *)

(* A batch names its items in order; a row of one item may be confirmed    *)
(* only if the item before it in its batch is written.                     *)
RowsInv ==
    \A t \in Tokens :
        /\ rows[t].batch =>
              /\ rows[t].items # <<>>
              /\ \A n \in DOMAIN rows[t].items : rows[t].items[n].root = t /\ rows[t].items[n].n = n
        /\ ~ rows[t].batch /\ rows[t].status # "rejected" =>
              /\ Len(rows[t].items) = 1
              /\ \/ rows[t].items[1].n = 1
                 \/ rows[t].items[1].n - 1 \in WrittenOf(rows[t].items[1].root)

(* Every task stands behind a claimed or completed row of one item, and    *)
(* the item before its own is written too.                                 *)
TasksInv ==
    \A i \in DOMAIN tasks :
        /\ tasks[i].token \in Tokens /\ ~ rows[tasks[i].token].batch
        /\ rows[tasks[i].token].status \in {"processing", "completed"}
        /\ tasks[i].item.n = 1 \/ tasks[i].item.n - 1 \in WrittenOf(tasks[i].item.root)

SafetyInv ==
    /\ TypeOK /\ RowsInv /\ TasksInv /\ ProcessInv
    /\ ClaimsAreExclusive /\ TokensAreSingleUse /\ StatusTellsWritten /\ TasksAreAuthorized

-----------------------------------------------------------------------------
(* The tables only grow: a stored preview, an approval and a task stay.    *)
Grows ==
    /\ \A t \in Tokens :
          /\ t \in Tokens'
          /\ rows'[t] = [rows[t] EXCEPT !.status = rows'[t].status]
          /\ (rows[t].status = "rejected") = (rows'[t].status = "rejected")
    /\ approvals \subseteq approvals'
    /\ \A i \in DOMAIN tasks :
          /\ i \in DOMAIN tasks'
          /\ tasks'[i] = [tasks[i] EXCEPT !.status = tasks'[i].status]

LEMMA RowFields ==
    ASSUME TypeOK, Grows, NEW t \in Tokens
    PROVE  /\ t \in Tokens'
           /\ rows'[t].batch = rows[t].batch
           /\ rows'[t].items = rows[t].items
           /\ rows'[t].requester = rows[t].requester
           /\ rows'[t].status = "rejected" <=> rows[t].status = "rejected"
<1>1. rows[t] \in Row
  BY DEF TypeOK, Tokens
<1> QED BY <1>1 DEF Grows, Row

LEMMA TaskFields ==
    ASSUME TypeOK, Grows, NEW i \in DOMAIN tasks
    PROVE  /\ i \in DOMAIN tasks'
           /\ tasks'[i].token = tasks[i].token
           /\ tasks'[i].item = tasks[i].item
           /\ tasks'[i].by = tasks[i].by
<1>1. tasks[i] \in Task
  BY DEF TypeOK
<1> QED BY <1>1 DEF Grows, Task

LEMMA WrittenGrows ==
    ASSUME TypeOK, Grows
    PROVE  /\ \A t : Written(t) => Written(t)'
           /\ \A t : \A n \in WrittenOf(t) : n \in WrittenOf(t)'
<1>1. ASSUME NEW t, Written(t) PROVE Written(t)'
  BY <1>1, TaskFields DEF Written
<1>2. ASSUME NEW t, NEW n \in WrittenOf(t) PROVE n \in WrittenOf(t)'
  <2>1. PICK i \in DOMAIN tasks : tasks[i].item.root = t /\ tasks[i].item.n = n
    BY DEF WrittenOf
  <2> QED BY <2>1, TaskFields DEF WrittenOf
<1> QED BY <1>1, <1>2

-----------------------------------------------------------------------------
(* What the operations on the tables do.                                   *)

(* The two UPDATEs of a row: its claim and its finish.                     *)
LEMMA StatusIsSet ==
    ASSUME TypeOK, NEW t \in Tokens, NEW s \in {"pending", "processing", "completed"},
           rows[t].status # "rejected", SetStatus(t, s)
    PROVE  /\ rows' \in Seq(Row) /\ Tokens' = Tokens /\ Len(rows') = Len(rows)
           /\ rows'[t] = [rows[t] EXCEPT !.status = s] /\ rows'[t].status = s
           /\ \A x \in Tokens : x # t => rows'[x] = rows[x]
           /\ \A x \in Tokens :
                 /\ rows'[x] = [rows[x] EXCEPT !.status = rows'[x].status]
                 /\ (rows[x].status = "rejected") = (rows'[x].status = "rejected")
<1>1. \A x \in Tokens : rows[x] \in Row
  BY DEF TypeOK, Tokens
<1>2. [rows[t] EXCEPT !.status = s] \in Row
  BY <1>1 DEF Row
<1>3. /\ rows' \in Seq(Row) /\ Tokens' = Tokens /\ Len(rows') = Len(rows)
      /\ rows'[t] = [rows[t] EXCEPT !.status = s]
      /\ \A x \in Tokens : x # t => rows'[x] = rows[x]
  BY <1>2 DEF SetStatus, TypeOK, Tokens
<1>4. rows'[t].status = s
  BY <1>1, <1>3 DEF Row
<1>5. \A x \in Tokens : rows[x] = [rows[x] EXCEPT !.status = rows[x].status]
  BY <1>1 DEF Row
<1> QED BY <1>3, <1>4, <1>5

(* The INSERT of a row.                                                    *)
LEMMA RowIsAdded ==
    ASSUME TypeOK, NEW row \in Row, rows' = Append(rows, row)
    PROVE  /\ rows' \in Seq(Row) /\ Len(rows') = Len(rows) + 1
           /\ Tokens' = Tokens \cup {Len(rows) + 1} /\ Len(rows) + 1 \notin Tokens
           /\ rows'[Len(rows) + 1] = row
           /\ \A x \in Tokens : rows'[x] = rows[x]
BY DEF TypeOK, Tokens

LEMMA RowsKept ==
    ASSUME TypeOK, \A x \in Tokens : x \in Tokens' /\ rows'[x] = rows[x]
    PROVE  \A t \in Tokens :
              /\ rows'[t] = [rows[t] EXCEPT !.status = rows'[t].status]
              /\ (rows[t].status = "rejected") = (rows'[t].status = "rejected")
<1>1. \A x \in Tokens : rows[x] \in Row
  BY DEF TypeOK, Tokens
<1> QED BY <1>1 DEF Row

LEMMA TasksKept ==
    ASSUME TypeOK, \A i \in DOMAIN tasks : i \in DOMAIN tasks' /\ tasks'[i] = tasks[i]
    PROVE  \A i \in DOMAIN tasks : tasks'[i] = [tasks[i] EXCEPT !.status = tasks'[i].status]
<1>1. \A i \in DOMAIN tasks : tasks[i] \in Task
  BY DEF TypeOK
<1> QED BY <1>1 DEF Task

(* The items of a preview.                                                 *)
LEMMA ItemsAreTyped ==
    ASSUME TypeOK, NEW ps \in Seq(Products)
    PROVE  /\ ItemsOf(ps) \in Seq(Item) /\ Len(ItemsOf(ps)) = Len(ps)
           /\ DOMAIN ItemsOf(ps) = DOMAIN ps
           /\ \A n \in DOMAIN ps : /\ ItemsOf(ps)[n] \in Item
                                   /\ ItemsOf(ps)[n].root = Len(rows) + 1
                                   /\ ItemsOf(ps)[n].n = n
<1>1. Len(rows) \in Nat /\ DOMAIN ps = 1..Len(ps) /\ Len(ps) \in Nat
  BY DEF TypeOK
<1>2. \A n \in 1..Len(ps) : [root |-> Len(rows) + 1, n |-> n, product |-> ps[n]] \in Item
  BY <1>1 DEF Item
<1>3. ItemsOf(ps) = [n \in 1..Len(ps) |-> [root |-> Len(rows) + 1, n |-> n, product |-> ps[n]]]
  BY <1>1 DEF ItemsOf
<1> QED BY <1>1, <1>2, <1>3

-----------------------------------------------------------------------------
(* Every step keeps the types and lets the tables grow.                    *)
LEMMA AfterItemIsTyped ==
    ASSUME TypeOK, NEW w \in Workers, NEW outcome \in {"queued", "refused"}
    PROVE  /\ AfterItem(w, outcome) \in Process
           /\ wk[w].batch = 0 => AfterItem(w, outcome) = Idle
           /\ wk[w].batch # 0 =>
                 LET a == AfterItem(w, outcome) IN
                 /\ a.token = 0 /\ a.batch = wk[w].batch /\ a.actor = wk[w].actor
                 /\ a.queued = IF outcome = "queued" THEN wk[w].queued + 1 ELSE wk[w].queued
                 /\ \/ a.pc = "batch_finish" /\ a.item = wk[w].item
                    \/ /\ a.pc = "child" /\ a.item = wk[w].item + 1 /\ outcome = "queued"
                       /\ wk[w].item # Len(rows[wk[w].batch].items)
<1>1. wk[w] \in Process
  BY DEF TypeOK
<1>2. wk[w].actor \in Users \cup {None} /\ wk[w].batch \in Nat /\ wk[w].item \in Nat /\ wk[w].queued \in Nat
  BY <1>1 DEF Process
<1>3. CASE wk[w].batch = 0
  BY <1>3 DEF AfterItem, Idle, Process
<1>4. CASE wk[w].batch # 0
  BY <1>2, <1>4 DEF AfterItem, StopsAt, Process
<1> QED BY <1>3, <1>4

LEMMA ChildIsTyped ==
    ASSUME NEW p \in Process, NEW t \in Nat
    PROVE  LET c == [p EXCEPT !.pc = "child_claim", !.token = t] IN
           /\ c \in Process /\ c.pc = "child_claim" /\ c.token = t
           /\ c.actor = p.actor /\ c.batch = p.batch /\ c.item = p.item /\ c.queued = p.queued
BY DEF Process

LEMMA GotoIsTyped ==
    ASSUME TypeOK, NEW w \in Workers, NEW step, Goto(w, step),
           step \in ItemSteps \cup {"idle", "child", "child_claim", "batch_finish"}
    PROVE  wk' \in [Workers -> Process] /\ wk'[w] = [wk[w] EXCEPT !.pc = step]
<1>1. wk[w] \in Process
  BY DEF TypeOK
<1>2. [wk[w] EXCEPT !.pc = step] \in Process
  BY <1>1 DEF Process, ItemSteps
<1>3. wk \in [Workers -> Process] /\ wk' = [wk EXCEPT ![w] = [wk[w] EXCEPT !.pc = step]]
  BY DEF TypeOK, Goto
<1> QED BY <1>2, <1>3

(* The rows a process works on exist and are being processed.              *)
LEMMA HeldRows ==
    ASSUME TypeOK, ProcessInv, NEW w \in Workers
    PROVE  /\ wk[w] \in Process
           /\ wk[w].pc \in ItemSteps =>
                 /\ wk[w].token \in Tokens /\ rows[wk[w].token].status = "processing"
                 /\ ~ rows[wk[w].token].batch
                 /\ wk[w].token \in Held(w)
           /\ wk[w].batch # 0 =>
                 /\ wk[w].batch \in Tokens /\ rows[wk[w].batch].status = "processing"
                 /\ rows[wk[w].batch].batch
                 /\ wk[w].item \in DOMAIN rows[wk[w].batch].items
                 /\ wk[w].batch \in Held(w)
           /\ \A t \in Held(w) : t \in Tokens /\ rows[t].status = "processing"
BY DEF TypeOK, ProcessInv, Relies, Held

LEMMA PreviewStep ==
    ASSUME SafetyInv, Preview
    PROVE  TypeOK' /\ Grows
<1>1. ASSUME NEW row \in Row, rows' = Append(rows, row), UNCHANGED <<lapsed, approvals, tasks, wk>>
      PROVE  TypeOK' /\ Grows
  <2>1. TypeOK' 
    BY <1>1, RowIsAdded DEF SafetyInv, TypeOK
  <2>2. TypeOK /\ \A x \in Tokens : x \in Tokens' /\ rows'[x] = rows[x]
    BY <1>1, RowIsAdded DEF SafetyInv
  <2>3. TypeOK /\ \A i \in DOMAIN tasks : i \in DOMAIN tasks' /\ tasks'[i] = tasks[i]
    BY <1>1 DEF SafetyInv
  <2> QED BY <1>1, <2>1, <2>2, <2>3, RowsKept, TasksKept DEF Grows
<1>2. PICK u \in Requesters : PreviewOne(u) \/ PreviewBatch(u) \/ RecordRejectedPreview(u)
  BY DEF Preview
<1>3. u \in Users
  BY BoundsAssumption
<1>4. CASE PreviewOne(u)
  <2>1. PICK p \in Products : CreateConfirmation(u, FALSE, ItemsOf(<<p>>))
    BY <1>4 DEF PreviewOne
  <2>2. <<p>> \in Seq(Products)
    OBVIOUS
  <2>3. ItemsOf(<<p>>) \in Seq(Item)
    BY <2>2, ItemsAreTyped DEF SafetyInv
  <2>4. [status |-> "pending", requester |-> u, batch |-> FALSE, items |-> ItemsOf(<<p>>)] \in Row
    BY <1>3, <2>3 DEF Row
  <2> QED BY <1>1, <1>4, <2>1, <2>4 DEF PreviewOne, CreateConfirmation
<1>5. CASE PreviewBatch(u)
  <2>1. PICK ps \in Batches : CreateConfirmation(u, TRUE, ItemsOf(ps))
    BY <1>5 DEF PreviewBatch
  <2>2. ItemsOf(ps) \in Seq(Item)
    BY BatchesAssumption, ItemsAreTyped DEF SafetyInv
  <2>3. [status |-> "pending", requester |-> u, batch |-> TRUE, items |-> ItemsOf(ps)] \in Row
    BY <1>3, <2>2 DEF Row
  <2> QED BY <1>1, <1>5, <2>1, <2>3 DEF PreviewBatch, CreateConfirmation
<1>6. CASE RecordRejectedPreview(u)
  <2>1. [status |-> "rejected", requester |-> u, batch |-> FALSE, items |-> <<>>] \in Row
    BY <1>3 DEF Row
  <2> QED BY <1>1, <1>6, <2>1 DEF RecordRejectedPreview
<1> QED BY <1>2, <1>4, <1>5, <1>6

LEMMA StatusStep ==
    ASSUME SafetyInv, NEW t \in Tokens, NEW s \in {"pending", "processing", "completed"},
           rows[t].status # "rejected", SetStatus(t, s),
           wk' \in [Workers -> Process], UNCHANGED <<lapsed, approvals, tasks>>
    PROVE  TypeOK' /\ Grows
<1>1. TypeOK'
  BY StatusIsSet DEF SafetyInv, TypeOK
<1>2. Grows
  BY StatusIsSet, TasksKept DEF SafetyInv, Grows
<1> QED BY <1>1, <1>2

LEMMA NoRowStep ==
    ASSUME SafetyInv, wk' \in [Workers -> Process], UNCHANGED <<rows, lapsed, tasks>>,
           approvals' \subseteq Approval, approvals \subseteq approvals'
    PROVE  TypeOK' /\ Grows
<1>1. Tokens' = Tokens
  BY DEF Tokens
<1> QED BY <1>1, RowsKept, TasksKept DEF SafetyInv, TypeOK, Grows

LEMMA ClaimedFields ==
    ASSUME NEW t \in Nat, NEW u \in Users
    PROVE  LET c == Claimed(t, u) IN
           /\ c \in Process /\ c.actor = u /\ c.queued = 0
           /\ rows[t].batch => c.pc = "child" /\ c.batch = t /\ c.item = 1 /\ c.token = 0
           /\ ~ rows[t].batch => c.pc = "validate" /\ c.token = t /\ c.batch = 0
BY DEF Claimed, Idle, Process

(* A confirmation of somebody claims a row that was pending.               *)
LEMMA StartClaims ==
    ASSUME NEW w \in Workers, Start(w)
    PROVE  \E u \in Users, t \in Tokens : Confirm(w, u, t)
BY DEF Start, ConfirmToken, ConfirmPlain, PlainChoice

LEMMA StartStep ==
    ASSUME SafetyInv, NEW w \in Workers, Start(w)
    PROVE  TypeOK' /\ Grows
<1>1. PICK u \in Users, t \in Tokens : Confirm(w, u, t)
  BY StartClaims
<1>2. t \in Nat
  BY DEF SafetyInv, TypeOK, Tokens
<1>3. Claimed(t, u) \in Process
  BY <1>2, ClaimedFields
<1>4. wk' \in [Workers -> Process]
  BY <1>1, <1>3 DEF Confirm, SafetyInv, TypeOK
<1> QED BY <1>1, <1>4, StatusStep DEF Confirm, ClaimConfirmation, Claimable

LEMMA ProcessStep ==
    ASSUME SafetyInv, NEW w \in Workers, Step(w) \/ Crash(w)
    PROVE  TypeOK' /\ Grows
<1> USE DEF SafetyInv
<1>1. wk[w] \in Process
  BY HeldRows
<1>2. \A p \in Process : wk' = [wk EXCEPT ![w] = p] => wk' \in [Workers -> Process]
  BY DEF TypeOK
<1>3. CASE StoreApproval(w)
  <2>1. wk' \in [Workers -> Process]
    BY <1>3, GotoIsTyped DEF StoreApproval, ItemSteps
  <2>2. [token |-> wk[w].token, by |-> wk[w].actor] \in Approval
    <3>1. wk[w].token \in Tokens /\ wk[w].actor \in Users
      BY <1>3, HeldRows DEF StoreApproval, At, ItemSteps, ProcessInv, Relies
    <3> QED BY <3>1 DEF Approval, TypeOK, Tokens
  <2>3. approvals' \subseteq Approval /\ approvals \subseteq approvals'
    BY <1>3, <2>2 DEF StoreApproval, TypeOK
  <2> QED BY <1>3, <2>1, <2>3, NoRowStep DEF StoreApproval
<1>4. CASE ExecutePrice(w) \/ RejectBatch(w)
  <2>1. wk' \in [Workers -> Process]
    BY <1>4, GotoIsTyped DEF ExecutePrice, RejectBatch, ItemSteps
  <2>2. approvals' \subseteq Approval /\ approvals \subseteq approvals'
    BY <1>4 DEF ExecutePrice, RejectBatch, TypeOK
  <2> QED BY <1>4, <2>1, <2>2, NoRowStep DEF ExecutePrice, RejectBatch
<1>5. CASE InsertTask(w)
  <2>1. wk' \in [Workers -> Process]
    BY <1>5, GotoIsTyped DEF InsertTask, ItemSteps
  <2>2. /\ wk[w].token \in Tokens /\ wk[w].actor \in Users
        /\ Len(rows[wk[w].token].items) = 1 /\ rows[wk[w].token] \in Row
    BY <1>5, HeldRows DEF InsertTask, At, ItemSteps, ProcessInv, Relies, RowsInv, TypeOK, Tokens
  <2>3. MyItem(w) \in Item
    BY <2>2 DEF MyItem, Row
  <2>4. [token |-> wk[w].token, item |-> MyItem(w), by |-> wk[w].actor, status |-> "PENDING"] \in Task
    BY <2>2, <2>3 DEF Task, TypeOK, Tokens
  <2>5. /\ tasks' \in Seq(Task)
        /\ \A i \in DOMAIN tasks : i \in DOMAIN tasks' /\ tasks'[i] = tasks[i]
    BY <1>5, <2>4 DEF InsertTask, TypeOK
  <2>6. TypeOK'
    BY <1>5, <2>1, <2>5 DEF InsertTask, TypeOK
  <2>7. \A t \in Tokens : t \in Tokens' /\ rows'[t] = rows[t]
    BY <1>5 DEF InsertTask, Tokens
  <2> QED BY <1>5, <2>5, <2>6, <2>7, RowsKept, TasksKept DEF InsertTask, Grows
<1>6. CASE FinishConfirmation(w)
  <2>1. wk' \in [Workers -> Process]
    BY <1>2, <1>6, AfterItemIsTyped DEF FinishConfirmation
  <2>2. wk[w].token \in Tokens /\ rows[wk[w].token].status = "processing"
    BY <1>6, HeldRows DEF FinishConfirmation, ItemSteps
  <2>3. FinishedAs(At(w, "queued")) \in {"pending", "processing", "completed"}
    BY DEF FinishedAs
  <2> QED BY <1>6, <2>1, <2>2, <2>3, StatusStep DEF FinishConfirmation
<1>7. CASE CreateChild(w)
  <2>1. /\ wk[w].batch \in Tokens /\ wk[w].item \in DOMAIN rows[wk[w].batch].items
        /\ rows[wk[w].batch] \in Row
    <3>1. wk[w].pc = "child" /\ Relies(w)
      BY <1>7 DEF CreateChild, At, ProcessInv
    <3>2. wk[w].batch \in Tokens /\ wk[w].item \in DOMAIN rows[wk[w].batch].items
      BY <3>1 DEF Relies
    <3> QED BY <3>2 DEF TypeOK, Tokens
  <2>2. rows[wk[w].batch].items[wk[w].item] \in Item /\ rows[wk[w].batch].requester \in Users
    BY <2>1 DEF Row
  <2> DEFINE row == [status |-> "pending", requester |-> rows[wk[w].batch].requester, batch |-> FALSE,
                     items |-> <<rows[wk[w].batch].items[wk[w].item]>>]
  <2>3. row \in Row
    BY <2>2 DEF Row
  <2>4. rows' = Append(rows, row)
    BY <1>7 DEF CreateChild, CreateConfirmation
  <2> HIDE DEF row
  <2>5. wk' \in [Workers -> Process]
    <3>1. Len(rows) + 1 \in Nat
      BY DEF TypeOK
    <3>2. [wk[w] EXCEPT !.pc = "child_claim", !.token = Len(rows) + 1] \in Process
      BY <1>1, <3>1, ChildIsTyped
    <3> QED BY <1>2, <1>7, <3>2 DEF CreateChild
  <2>6. TypeOK'
    BY <1>7, <2>3, <2>4, <2>5, RowIsAdded DEF CreateChild, TypeOK
  <2>7. \A t \in Tokens : t \in Tokens' /\ rows'[t] = rows[t]
    BY <2>3, <2>4, RowIsAdded
  <2>8. \A i \in DOMAIN tasks : i \in DOMAIN tasks' /\ tasks'[i] = tasks[i]
    BY <1>7 DEF CreateChild
  <2> QED BY <1>7, <2>6, <2>7, <2>8, RowsKept, TasksKept DEF CreateChild, Grows
<1>8. CASE ClaimChild(w)
  <2>1. wk[w].token \in Tokens
    BY <1>8 DEF ClaimChild, At, ProcessInv, Relies
  <2>2. CASE ClaimConfirmation(wk[w].token) /\ Goto(w, "validate")
    <3>1. wk' \in [Workers -> Process]
      BY <2>2, GotoIsTyped DEF ItemSteps
    <3> QED BY <1>8, <2>1, <2>2, <3>1, StatusStep DEF ClaimChild, ClaimConfirmation, Claimable
  <2>3. CASE wk' = [wk EXCEPT ![w] = AfterItem(w, "refused")] /\ UNCHANGED rows
    <3>1. wk' \in [Workers -> Process]
      BY <1>2, <2>3, AfterItemIsTyped
    <3> QED BY <1>8, <2>3, <3>1, NoRowStep DEF ClaimChild, TypeOK
  <2> QED BY <1>8, <2>2, <2>3 DEF ClaimChild
<1>9. CASE FinishBatch(w)
  <2>1. wk' \in [Workers -> Process]
    BY <1>2, <1>9 DEF FinishBatch, Idle, Process
  <2>2. wk[w].batch \in Tokens /\ rows[wk[w].batch].status = "processing"
    BY <1>9 DEF FinishBatch, At, ProcessInv, Relies
  <2>3. FinishedAs(wk[w].queued > 0) \in {"pending", "processing", "completed"}
    BY DEF FinishedAs
  <2> QED BY <1>9, <2>1, <2>2, <2>3, StatusStep DEF FinishBatch
<1>10. CASE Crash(w)
  <2>1. wk' \in [Workers -> Process]
    BY <1>2, <1>10 DEF Crash, Idle, Process
  <2> QED BY <1>10, <2>1, NoRowStep DEF Crash, TypeOK
<1> QED BY <1>3, <1>4, <1>5, <1>6, <1>7, <1>8, <1>9, <1>10 DEF Step

LEMMA EnvironmentStep ==
    ASSUME SafetyInv, Expire \/ PluginReport \/ UNCHANGED vars
    PROVE  TypeOK' /\ Grows
<1> USE DEF SafetyInv
<1>1. CASE UNCHANGED vars
  <2>1. wk' \in [Workers -> Process]
    BY <1>1 DEF vars, TypeOK
  <2> QED BY <1>1, <2>1, NoRowStep DEF vars, TypeOK
<1>2. CASE Expire
  <2>1. TypeOK'
    BY <1>2 DEF Expire, TypeOK
  <2>2. Tokens' = Tokens
    BY <1>2 DEF Expire, Tokens
  <2> QED BY <1>2, <2>1, <2>2, RowsKept, TasksKept DEF Expire, Grows
<1>3. CASE PluginReport
  <2>1. PICK i \in DOMAIN tasks, r \in PluginResults : tasks' = [tasks EXCEPT ![i].status = r]
    BY <1>3 DEF PluginReport
  <2>2. \A j \in DOMAIN tasks : tasks[j] \in Task
    BY DEF TypeOK
  <2>3. [tasks[i] EXCEPT !.status = r] \in Task
    BY <2>1, <2>2, BoundsAssumption DEF Task
  <2>4. tasks' = [tasks EXCEPT ![i] = [tasks[i] EXCEPT !.status = r]]
    BY <2>1 DEF TypeOK
  <2>5. /\ tasks' \in Seq(Task) /\ DOMAIN tasks' = DOMAIN tasks
        /\ tasks'[i] = [tasks[i] EXCEPT !.status = r]
        /\ \A j \in DOMAIN tasks : j # i => tasks'[j] = tasks[j]
    BY <2>3, <2>4 DEF TypeOK
  <2>6. tasks'[i].status = r
    BY <2>2, <2>5 DEF Task
  <2>7. \A j \in DOMAIN tasks : tasks'[j] = [tasks[j] EXCEPT !.status = tasks'[j].status]
    BY <2>2, <2>5, <2>6 DEF Task
  <2>8. TypeOK'
    BY <1>3, <2>5 DEF PluginReport, TypeOK
  <2>9. Tokens' = Tokens
    BY <1>3 DEF PluginReport, Tokens
  <2> QED BY <1>3, <2>5, <2>7, <2>8, <2>9, RowsKept DEF PluginReport, Grows
<1> QED BY <1>1, <1>2, <1>3

LEMMA TypeStep == SafetyInv /\ [Next]_vars => TypeOK' /\ Grows
BY PreviewStep, StartStep, ProcessStep, EnvironmentStep DEF Next

-----------------------------------------------------------------------------
(* Who changes what.                                                       *)
Act(w) == Start(w) \/ Step(w) \/ Crash(w)

(* A row is claimed while it is pending, or finished by who claimed it.    *)
Finished(w, t) ==
    \/ /\ FinishConfirmation(w) /\ t = wk[w].token
       /\ rows'[t].status = FinishedAs(At(w, "queued"))
    \/ /\ FinishBatch(w) /\ t = wk[w].batch
       /\ rows'[t].status = FinishedAs(wk[w].queued > 0)

LEMMA StatusChanges ==
    ASSUME SafetyInv, NEW w \in Workers, Act(w), NEW t \in Tokens, rows'[t].status # rows[t].status
    PROVE  \/ rows[t].status = "pending" /\ rows'[t].status = "processing"
           \/ t \in Held(w) /\ Finished(w, t)
<1> USE DEF SafetyInv
<1>1. CASE Start(w)
  <2>1. PICK u \in Users, x \in Tokens : Confirm(w, u, x)
    BY <1>1, StartClaims
  <2> QED BY <2>1, StatusIsSet DEF Confirm, ClaimConfirmation, Claimable
<1>2. CASE FinishConfirmation(w)
  <2>1. /\ wk[w].token \in Tokens /\ rows[wk[w].token].status = "processing"
        /\ wk[w].token \in Held(w)
    BY <1>2, HeldRows DEF FinishConfirmation, ItemSteps
  <2>2. FinishedAs(At(w, "queued")) \in {"pending", "processing", "completed"}
    BY DEF FinishedAs
  <2> QED BY <1>2, <2>1, <2>2, StatusIsSet DEF FinishConfirmation, Finished
<1>3. CASE FinishBatch(w)
  <2>1. /\ wk[w].batch \in Tokens /\ rows[wk[w].batch].status = "processing"
        /\ wk[w].batch \in Held(w)
    BY <1>3, HeldRows DEF FinishBatch, At, ProcessInv, Relies
  <2>2. FinishedAs(wk[w].queued > 0) \in {"pending", "processing", "completed"}
    BY DEF FinishedAs
  <2> QED BY <1>3, <2>1, <2>2, StatusIsSet DEF FinishBatch, Finished
<1>4. CASE ClaimChild(w)
  <2>1. wk[w].token \in Tokens
    BY <1>4 DEF ClaimChild, At, ProcessInv, Relies
  <2> QED BY <1>4, <2>1, StatusIsSet DEF ClaimChild, ClaimConfirmation, Claimable
<1>5. CASE CreateChild(w)
  <2> DEFINE row == [status |-> "pending", requester |-> rows[wk[w].batch].requester, batch |-> FALSE,
                     items |-> <<rows[wk[w].batch].items[wk[w].item]>>]
  <2>1. rows' = Append(rows, row)
    BY <1>5 DEF CreateChild, CreateConfirmation
  <2> HIDE DEF row
  <2> QED BY <2>1 DEF TypeOK, Tokens
<1>6. CASE UNCHANGED rows
  BY <1>6
<1> QED
  BY <1>1, <1>2, <1>3, <1>4, <1>5, <1>6
  DEF Act, Step, StoreApproval, ExecutePrice, InsertTask, RejectBatch, Crash

(* Only InsertTask writes a task.                                          *)
LEMMA TaskChanges ==
    ASSUME SafetyInv, [Next]_vars, NEW i \in DOMAIN tasks', i \notin DOMAIN tasks
    PROVE  \E w \in Workers :
              /\ InsertTask(w) /\ i = Len(tasks) + 1 /\ Len(tasks') = Len(tasks) + 1
              /\ tasks'[i].token = wk[w].token /\ tasks'[i].item = MyItem(w)
              /\ tasks'[i].by = wk[w].actor
<1> USE DEF SafetyInv
<1>1. ~ UNCHANGED tasks
  OBVIOUS
<1>2. ~ PluginReport
  BY DEF PluginReport, TypeOK
<1>3. PICK w \in Workers : InsertTask(w)
  BY <1>1, <1>2 DEF Next, vars, Preview, PreviewOne, PreviewBatch, RecordRejectedPreview, Expire,
     Start, ConfirmToken, ConfirmPlain, Confirm, Step, StoreApproval, ExecutePrice,
     FinishConfirmation, RejectBatch, CreateChild, ClaimChild, FinishBatch, Crash
<1>4. PICK task : /\ tasks' = Append(tasks, task)
                  /\ task.token = wk[w].token /\ task.item = MyItem(w) /\ task.by = wk[w].actor
  BY <1>3 DEF InsertTask
<1>5. tasks \in Seq(Task)
  BY DEF TypeOK
<1> QED BY <1>3, <1>4, <1>5

(* What a process holds is not touched by the others.                      *)
LEMMA OthersHeld ==
    ASSUME SafetyInv, [Next]_vars, NEW w \in Workers, Act(w), NEW v \in Workers, v # w
    PROVE  /\ wk'[v] = wk[v] /\ Held(v)' = Held(v)
           /\ \A t \in Held(v) : rows'[t].status = rows[t].status /\ (Written(t)' => Written(t))
<1> USE DEF SafetyInv
<1>1. \A x \in Workers : x # w => wk'[x] = wk[x]
  BY DEF Act, Start, ConfirmToken, ConfirmPlain, Confirm, Step, StoreApproval, ExecutePrice, InsertTask,
     FinishConfirmation, RejectBatch, CreateChild, ClaimChild, FinishBatch, Crash, Goto, TypeOK
<1>2. Held(v)' = Held(v)
  BY <1>1 DEF Held
<1>3. ASSUME NEW t \in Held(v) PROVE rows'[t].status = rows[t].status
  <2>1. t \in Tokens /\ rows[t].status = "processing" /\ t \notin Held(w)
    BY HeldRows DEF ClaimsAreExclusive
  <2> QED BY <2>1, StatusChanges
<1>4. ASSUME NEW t \in Held(v), Written(t)' PROVE Written(t)
  <2>1. PICK i \in DOMAIN tasks' : tasks'[i].token = t
    BY <1>4 DEF Written
  <2>2. CASE i \in DOMAIN tasks
    BY <2>1, <2>2, TypeStep, TaskFields DEF Written
  <2>3. CASE i \notin DOMAIN tasks
    <3>1. PICK x \in Workers : InsertTask(x) /\ tasks'[i].token = wk[x].token
      BY <2>3, TaskChanges
    <3>2. x = w
      <4>1. wk[x] \in Process /\ wk[x].pc = "insert" /\ Goto(x, "queued")
        BY <3>1, HeldRows DEF InsertTask, At
      <4>2. wk'[x] # wk[x]
        BY <4>1 DEF Goto, TypeOK, Process
      <4> QED BY <1>1, <4>2
    <3>3. t \in Held(w)
      BY <2>1, <3>1, <3>2, HeldRows DEF InsertTask, At, ItemSteps
    <3> QED BY <3>3 DEF ClaimsAreExclusive
  <2> QED BY <2>2, <2>3
<1> QED BY <1>1, <1>2, <1>3, <1>4

-----------------------------------------------------------------------------
(* What a process relies on stays true while others take their steps.      *)
LEMMA StillRelies ==
    ASSUME SafetyInv, Grows, NEW v \in Workers, wk'[v] = wk[v],
           \A t \in Held(v) : rows'[t].status = rows[t].status /\ (Written(t)' => Written(t))
    PROVE  Relies(v)'
<1> USE DEF SafetyInv
<1>1. PICK p : p = wk[v] /\ p = wk'[v]
  OBVIOUS
<1>2. p \in Process /\ Relies(v)
  BY <1>1, HeldRows DEF ProcessInv
<1>3. ASSUME p.batch # 0
      PROVE  /\ p.batch \in Tokens' /\ rows'[p.batch].batch /\ rows'[p.batch].status = "processing"
             /\ rows'[p.batch].items = rows[p.batch].items
             /\ p.item \in DOMAIN rows'[p.batch].items
             /\ \A n \in 1..(p.item - 1) : n \in WrittenOf(p.batch)'
             /\ p.queued > 0 => WrittenOf(p.batch)' # {}
  <2>1. p.batch \in Tokens /\ p.batch \in Held(v)
    BY <1>1, <1>3, HeldRows
  <2>2. /\ \A n \in 1..(p.item - 1) : n \in WrittenOf(p.batch)
        /\ p.queued > 0 => WrittenOf(p.batch) # {}
        /\ rows[p.batch].batch /\ rows[p.batch].status = "processing"
        /\ p.item \in DOMAIN rows[p.batch].items
    BY <1>1, <1>2, <1>3 DEF Relies
  <2> QED BY <2>1, <2>2, RowFields, WrittenGrows
<1>4. ASSUME p.pc \in ItemSteps \cup {"child_claim"}
      PROVE  /\ p.token \in Tokens' /\ ~ rows'[p.token].batch /\ rows'[p.token].status # "rejected"
             /\ p.batch # 0 => rows'[p.token].items[1] = rows'[p.batch].items[p.item]
  <2>1. /\ p.token \in Tokens /\ ~ rows[p.token].batch /\ rows[p.token].status # "rejected"
        /\ p.batch # 0 => rows[p.token].items[1] = rows[p.batch].items[p.item]
    BY <1>1, <1>2, <1>4 DEF Relies
  <2> QED BY <1>3, <2>1, RowFields
<1>5. ASSUME p.pc \in ItemSteps
      PROVE  /\ rows'[p.token].status = "processing"
             /\ Written(p.token)' <=> p.pc = "queued"
  <2>1. p.token \in Held(v) /\ rows[p.token].status = "processing"
    BY <1>1, <1>5, HeldRows
  <2>2. Written(p.token) <=> p.pc = "queued"
    BY <1>1, <1>2, <1>5 DEF Relies
  <2> QED BY <2>1, <2>2, WrittenGrows
<1>6. ASSUME p.pc = "insert"
      PROVE  Authorized(p.token, p.actor)'
  <2>1. p.token \in Tokens /\ Authorized(p.token, p.actor)
    BY <1>1, <1>2, <1>6 DEF Relies, ItemSteps
  <2> QED BY <2>1, RowFields DEF Authorized, Grows
<1>7. /\ p.pc = "idle" => p.batch = 0
      /\ p.pc # "idle" => p.actor \in Users
      /\ p.pc \in {"child", "child_claim", "batch_finish"} => p.batch # 0
  BY <1>1, <1>2 DEF Relies
<1> QED
  BY <1>1, <1>3, <1>4, <1>5, <1>6, <1>7 DEF Relies, Written, WrittenOf, Authorized, Tokens

-----------------------------------------------------------------------------
(* The process that moves relies on what its own step has established.     *)

(* Its batch is still claimed, and what it has written is still written.   *)
LEMMA BatchKept ==
    ASSUME SafetyInv, Grows, NEW w \in Workers, NEW p, p = wk[w], p.batch # 0,
           rows'[p.batch].status = rows[p.batch].status
    PROVE  /\ p.batch \in Tokens' /\ rows'[p.batch].batch /\ rows'[p.batch].status = "processing"
           /\ rows'[p.batch].items = rows[p.batch].items
           /\ p.item \in DOMAIN rows'[p.batch].items
           /\ \A n \in 1..(p.item - 1) : n \in WrittenOf(p.batch)'
           /\ p.queued > 0 => WrittenOf(p.batch)' # {}
<1>1. /\ p.batch \in Tokens
      /\ \A n \in 1..(p.item - 1) : n \in WrittenOf(p.batch)
      /\ p.queued > 0 => WrittenOf(p.batch) # {}
      /\ rows[p.batch].batch /\ rows[p.batch].status = "processing"
      /\ p.item \in DOMAIN rows[p.batch].items
  BY DEF Relies, ProcessInv, SafetyInv
<1> QED BY <1>1, RowFields, WrittenGrows DEF SafetyInv

(* A step within the work on one item.                                     *)
LEMMA MovesOn ==
    ASSUME SafetyInv, Grows, NEW w \in Workers, NEW step \in ItemSteps, Goto(w, step),
           wk[w].pc \in ItemSteps \cup {"child_claim"},
           wk[w].batch # 0 => rows'[wk[w].batch].status = rows[wk[w].batch].status,
           rows'[wk[w].token].status = "processing",
           step = "queued" <=> \E i \in DOMAIN tasks' : tasks'[i].token = wk[w].token,
           step = "insert" => Authorized(wk[w].token, wk[w].actor)
    PROVE  Relies(w)'
<1> USE DEF SafetyInv
<1>1. PICK p : p = wk[w]
  OBVIOUS
<1>2. PICK q : q = wk'[w]
  OBVIOUS
<1>3. p \in Process /\ Relies(w)
  BY <1>1, HeldRows DEF ProcessInv
<1>4. q = [p EXCEPT !.pc = step]
  BY <1>1, <1>2, GotoIsTyped
<1>5. /\ q.pc = step /\ q.actor = p.actor /\ q.token = p.token /\ q.batch = p.batch
      /\ q.item = p.item /\ q.queued = p.queued
  BY <1>3, <1>4 DEF Process
<1>6. p.batch # 0 =>
        /\ p.batch \in Tokens' /\ rows'[p.batch].batch /\ rows'[p.batch].status = "processing"
        /\ rows'[p.batch].items = rows[p.batch].items
        /\ p.item \in DOMAIN rows'[p.batch].items
        /\ \A n \in 1..(p.item - 1) : n \in WrittenOf(p.batch)'
        /\ p.queued > 0 => WrittenOf(p.batch)' # {}
  BY <1>1, BatchKept
<1>7. /\ p.token \in Tokens /\ p.token \in Tokens' /\ ~ rows'[p.token].batch
      /\ rows'[p.token].status = "processing"
      /\ p.batch # 0 => rows'[p.token].items[1] = rows'[p.batch].items[p.item]
  <2>1. /\ p.token \in Tokens /\ ~ rows[p.token].batch
        /\ p.batch # 0 => rows[p.token].items[1] = rows[p.batch].items[p.item]
    BY <1>1, <1>3 DEF Relies
  <2> QED BY <1>1, <1>6, <2>1, RowFields
<1>8. Written(p.token)' <=> step = "queued"
  BY <1>1 DEF Written
<1>9. step = "insert" => Authorized(p.token, p.actor)'
  BY <1>1, <1>7, RowFields DEF Authorized, Grows
<1>10. p.actor \in Users
  BY <1>1, <1>3 DEF Relies, ItemSteps
<1> QED
  BY <1>2, <1>5, <1>6, <1>7, <1>8, <1>9, <1>10
  DEF Relies, Written, WrittenOf, Authorized, Tokens, ItemSteps

(* The step from one item to the next, or to the end of the batch.         *)
LEMMA Advances ==
    ASSUME SafetyInv, Grows, NEW w \in Workers, NEW outcome \in {"queued", "refused"},
           wk' = [wk EXCEPT ![w] = AfterItem(w, outcome)],
           wk[w].pc \in ItemSteps \cup {"child_claim"},
           outcome = "queued" => wk[w].pc = "queued",
           wk[w].batch # 0 => rows'[wk[w].batch].status = rows[wk[w].batch].status
    PROVE  Relies(w)'
<1> USE DEF SafetyInv
<1>1. PICK p : p = wk[w]
  OBVIOUS
<1>2. PICK q : q = wk'[w] /\ q = AfterItem(w, outcome)
  BY DEF TypeOK
<1>3. p \in Process /\ Relies(w)
  BY <1>1, HeldRows DEF ProcessInv
<1>4. CASE p.batch = 0
  <2>1. q = Idle
    BY <1>1, <1>2, <1>4, AfterItemIsTyped
  <2> QED BY <1>2, <2>1 DEF Relies, Idle, ItemSteps
<1>5. CASE p.batch # 0
  <2>1. /\ q.token = 0 /\ q.batch = p.batch /\ q.actor = p.actor
        /\ q.queued = IF outcome = "queued" THEN p.queued + 1 ELSE p.queued
        /\ \/ q.pc = "batch_finish" /\ q.item = p.item
           \/ /\ q.pc = "child" /\ q.item = p.item + 1 /\ outcome = "queued"
              /\ p.item # Len(rows[p.batch].items)
    BY <1>1, <1>2, <1>5, AfterItemIsTyped
  <2>2. /\ p.batch \in Tokens' /\ rows'[p.batch].batch /\ rows'[p.batch].status = "processing"
        /\ rows'[p.batch].items = rows[p.batch].items
        /\ p.item \in DOMAIN rows'[p.batch].items
        /\ \A n \in 1..(p.item - 1) : n \in WrittenOf(p.batch)'
        /\ p.queued > 0 => WrittenOf(p.batch)' # {}
    BY <1>1, <1>5, BatchKept
  <2>3. p.item \in Nat /\ p.queued \in Nat /\ p.actor \in Users
    BY <1>1, <1>3 DEF Relies, Process, ItemSteps
  <2>4. DOMAIN rows'[p.batch].items = 1..Len(rows[p.batch].items)
    <3>1. p.batch \in Tokens /\ rows[p.batch] \in Row
      BY <1>1, <1>5, HeldRows DEF TypeOK, Tokens
    <3> QED BY <2>2, <3>1 DEF Row
  <2>5. ASSUME outcome = "queued" PROVE p.item \in WrittenOf(p.batch)'
    <3>1. /\ p.token \in Tokens /\ Written(p.token) /\ p.batch \in Tokens
          /\ rows[p.batch].batch /\ p.item \in DOMAIN rows[p.batch].items
          /\ rows[p.token].items[1] = rows[p.batch].items[p.item]
      BY <1>1, <1>3, <1>5, <2>5 DEF Relies, ItemSteps
    <3>2. PICK i \in DOMAIN tasks : tasks[i].token = p.token
      BY <3>1 DEF Written
    <3>3. tasks[i].item = rows[p.token].items[1]
      BY <3>2 DEF TasksAreAuthorized
    <3>4. tasks[i].item.root = p.batch /\ tasks[i].item.n = p.item
      BY <3>1, <3>3 DEF RowsInv
    <3>5. p.item \in WrittenOf(p.batch)
      BY <3>2, <3>4 DEF WrittenOf
    <3> QED BY <3>5, WrittenGrows
  <2>6. q.queued > 0 => WrittenOf(p.batch)' # {}
    BY <2>1, <2>2, <2>5
  <2>7. q.item \in DOMAIN rows'[p.batch].items
    <3>1. CASE q.pc = "batch_finish"
      BY <2>1, <2>2, <3>1
    <3>2. CASE q.pc = "child"
      <4>1. Len(rows[p.batch].items) \in Nat
        <5>1. p.batch \in Tokens /\ rows[p.batch] \in Row
          BY <1>1, <1>5, HeldRows DEF TypeOK, Tokens
        <5> QED BY <5>1 DEF Row
      <4> QED BY <2>1, <2>2, <2>3, <2>4, <3>2, <4>1
    <3> QED BY <2>1, <3>1, <3>2
  <2>8. \A n \in 1..(q.item - 1) : n \in WrittenOf(p.batch)'
    <3>1. CASE q.item = p.item
      BY <2>2, <3>1
    <3>2. CASE q.item = p.item + 1 /\ outcome = "queued"
      <4>1. \A n \in 1..(q.item - 1) : n \in 1..(p.item - 1) \/ n = p.item
        BY <2>3, <3>2
      <4> QED BY <2>2, <2>5, <3>2, <4>1
    <3> QED BY <2>1, <3>1, <3>2
  <2>9. q.pc \in {"child", "batch_finish"}
    BY <2>1
  <2> QED
    BY <1>2, <1>5, <2>1, <2>2, <2>3, <2>6, <2>7, <2>8, <2>9 DEF Relies, WrittenOf, ItemSteps, Tokens
<1> QED BY <1>4, <1>5

(* Its own batch row is not what it finishes with an item.                 *)
LEMMA BatchRowKept ==
    ASSUME SafetyInv, [Next]_vars, NEW w \in Workers, Step(w), ~ FinishBatch(w), wk[w].batch # 0
    PROVE  rows'[wk[w].batch].status = rows[wk[w].batch].status
<1>1. /\ wk[w].batch \in Tokens /\ rows[wk[w].batch].status = "processing" /\ rows[wk[w].batch].batch
  BY HeldRows DEF SafetyInv
<1>2. FinishConfirmation(w) => wk[w].batch # wk[w].token
  BY <1>1, HeldRows DEF SafetyInv, FinishConfirmation, ItemSteps
<1> QED BY <1>1, <1>2, StatusChanges DEF Act, Finished

LEMMA MoverRelies ==
    ASSUME SafetyInv, [Next]_vars, NEW w \in Workers, Act(w)
    PROVE  Relies(w)'
<1> USE DEF SafetyInv
<1>1. Grows /\ TypeOK' /\ wk[w] \in Process /\ Relies(w)
  BY TypeStep, HeldRows DEF ProcessInv
<1>2. ASSUME wk'[w] = Idle PROVE Relies(w)'
  BY <1>2 DEF Relies, Idle, ItemSteps
<1>3. CASE Start(w)
  <2>1. PICK u \in Users, t \in Tokens : Confirm(w, u, t)
    BY <1>3, StartClaims
  <2>2. PICK q : q = wk'[w] /\ q = Claimed(t, u)
    BY <2>1 DEF Confirm, TypeOK
  <2>3. t \in Nat /\ rows[t] \in Row /\ rows[t].status = "pending"
    BY <2>1 DEF Confirm, ClaimConfirmation, Claimable, TypeOK, Tokens
  <2>4. t \in Tokens' /\ rows'[t].batch = rows[t].batch /\ rows'[t].items = rows[t].items
    BY <1>1, RowFields
  <2>5. rows'[t].status = "processing"
    BY <2>1, <2>3, StatusIsSet DEF Confirm, ClaimConfirmation
  <2>6. CASE rows[t].batch
    <3>1. q.pc = "child" /\ q.batch = t /\ q.item = 1 /\ q.token = 0 /\ q.actor = u /\ q.queued = 0
      BY <2>2, <2>3, <2>6, ClaimedFields
    <3>2. rows[t].items \in Seq(Item) /\ rows[t].items # <<>>
      BY <2>3, <2>6 DEF RowsInv, Row
    <3>3. 1 \in DOMAIN rows[t].items
      BY <3>2
    <3>4. t # 0
      BY DEF Tokens, TypeOK
    <3>5. /\ q.batch \in Tokens' /\ rows'[q.batch].batch /\ rows'[q.batch].status = "processing"
          /\ q.item \in DOMAIN rows'[q.batch].items
      BY <2>4, <2>5, <2>6, <3>1, <3>3
    <3>6. \A n : n \notin 1..(q.item - 1)
      BY <3>1
    <3>7. ~ (q.queued > 0)
      BY <3>1
    <3>8. q.pc = "child" /\ q.actor \in Users /\ q.batch # 0
      BY <3>1, <3>4
    <3> QED BY <2>2, <3>5, <3>6, <3>7, <3>8 DEF Relies, ItemSteps, Tokens
  <2>7. CASE ~ rows[t].batch
    <3>1. q.pc = "validate" /\ q.token = t /\ q.batch = 0 /\ q.actor = u
      BY <2>2, <2>3, <2>7, ClaimedFields
    <3>2. ~ Written(t)' 
      BY <2>1, <2>3 DEF StatusTellsWritten, Written, Confirm
    <3> QED BY <2>2, <2>4, <2>5, <2>7, <3>1, <3>2 DEF Relies, ItemSteps, Written, Tokens
  <2> QED BY <2>6, <2>7
<1>4. CASE StoreApproval(w) \/ ExecutePrice(w)
  <2>1. PICK step \in {"execute", "insert", "refused"} :
           /\ Goto(w, step)
           /\ step = "insert" => Authorized(wk[w].token, wk[w].actor)
    BY <1>4 DEF StoreApproval, ExecutePrice, MayExecute, Authorized
  <2>2. /\ wk[w].pc \in ItemSteps /\ wk[w].pc # "queued" /\ UNCHANGED <<rows, tasks>>
    BY <1>4 DEF StoreApproval, ExecutePrice, At, ItemSteps
  <2>3. rows[wk[w].token].status = "processing" /\ ~ Written(wk[w].token)
    BY <1>1, <2>2 DEF Relies
  <2> QED BY <1>1, <2>1, <2>2, <2>3, MovesOn DEF Written, ItemSteps
<1>5. CASE InsertTask(w)
  <2>1. PICK task : tasks' = Append(tasks, task) /\ task.token = wk[w].token
    BY <1>5 DEF InsertTask
  <2>2. \E i \in DOMAIN tasks' : tasks'[i].token = wk[w].token
    <3>1. tasks \in Seq(Task)
      BY DEF TypeOK
    <3>2. Len(tasks) + 1 \in DOMAIN tasks' /\ tasks'[Len(tasks) + 1] = task
      BY <2>1, <3>1
    <3> QED BY <2>1, <3>2
  <2>3. wk[w].pc \in ItemSteps /\ UNCHANGED rows /\ Goto(w, "queued")
    BY <1>5 DEF InsertTask, At, ItemSteps
  <2>4. rows[wk[w].token].status = "processing"
    BY <2>3, HeldRows
  <2> QED BY <1>1, <2>2, <2>3, <2>4, MovesOn DEF ItemSteps
<1>6. CASE FinishConfirmation(w)
  <2>1. wk[w].pc \in {"queued", "refused"} /\ wk' = [wk EXCEPT ![w] = AfterItem(w, wk[w].pc)]
    BY <1>6 DEF FinishConfirmation
  <2>2. ~ FinishBatch(w)
    BY <2>1 DEF FinishBatch, At
  <2>3. wk[w].batch # 0 => rows'[wk[w].batch].status = rows[wk[w].batch].status
    BY <1>6, <2>2, BatchRowKept DEF Step
  <2> QED BY <1>1, <2>1, <2>3, Advances DEF ItemSteps
<1>7. CASE RejectBatch(w)
  <2>1. PICK p : p = wk[w]
    OBVIOUS
  <2>2. PICK q : q = wk'[w]
    OBVIOUS
  <2>3. q = [p EXCEPT !.pc = "batch_finish"] /\ p.pc = "child" /\ p.batch # 0 /\ p.actor \in Users
    BY <1>1, <1>7, <2>1, <2>2, GotoIsTyped DEF RejectBatch, At, Relies
  <2>4. q.pc = "batch_finish" /\ q.batch = p.batch /\ q.item = p.item /\ q.queued = p.queued /\ q.actor = p.actor
    BY <1>1, <2>1, <2>3 DEF Process
  <2>5. /\ p.batch \in Tokens' /\ rows'[p.batch].batch /\ rows'[p.batch].status = "processing"
        /\ p.item \in DOMAIN rows'[p.batch].items
        /\ \A n \in 1..(p.item - 1) : n \in WrittenOf(p.batch)'
        /\ p.queued > 0 => WrittenOf(p.batch)' # {}
    BY <1>1, <1>7, <2>1, <2>3, BatchKept DEF RejectBatch
  <2> QED BY <2>2, <2>3, <2>4, <2>5 DEF Relies, WrittenOf, ItemSteps, Tokens
<1>8. CASE CreateChild(w)
  <2>1. PICK p : p = wk[w]
    OBVIOUS
  <2>2. PICK q : q = wk'[w]
    OBVIOUS
  <2>3. q = [p EXCEPT !.pc = "child_claim", !.token = Len(rows) + 1]
    BY <1>8, <2>1, <2>2 DEF CreateChild, TypeOK
  <2>4. p.pc = "child" /\ p.batch # 0 /\ p.actor \in Users
    BY <1>1, <1>8, <2>1 DEF CreateChild, At, Relies
  <2>5. /\ q.pc = "child_claim" /\ q.batch = p.batch /\ q.item = p.item /\ q.queued = p.queued
        /\ q.actor = p.actor /\ q.token = Len(rows) + 1
    <3>1. Len(rows) + 1 \in Nat
      BY DEF TypeOK
    <3>2. p \in Process
      BY <1>1, <2>1
    <3> QED BY <2>3, <3>1, <3>2, ChildIsTyped
  <2> DEFINE row == [status |-> "pending", requester |-> rows[p.batch].requester, batch |-> FALSE,
                     items |-> <<rows[p.batch].items[p.item]>>]
  <2>6. rows' = Append(rows, row)
    BY <1>8, <2>1 DEF CreateChild, CreateConfirmation
  <2>7. row.status = "pending" /\ ~ row.batch /\ row.items[1] = rows[p.batch].items[p.item]
    OBVIOUS
  <2>8. p.batch \in Tokens /\ p.batch \in Nat
    BY <2>1, <2>4, HeldRows DEF TypeOK, Tokens
  <2> HIDE DEF row
  <2>9. /\ q.token \in Tokens' /\ rows'[q.token] = row /\ rows'[p.batch] = rows[p.batch]
    BY <2>5, <2>6, <2>8 DEF TypeOK, Tokens
  <2>10. /\ p.batch \in Tokens' /\ rows'[p.batch].batch /\ rows'[p.batch].status = "processing"
         /\ p.item \in DOMAIN rows'[p.batch].items
         /\ \A n \in 1..(p.item - 1) : n \in WrittenOf(p.batch)'
         /\ p.queued > 0 => WrittenOf(p.batch)' # {}
    BY <1>1, <2>1, <2>4, <2>9, BatchKept
  <2> QED BY <2>2, <2>4, <2>5, <2>7, <2>9, <2>10 DEF Relies, WrittenOf, ItemSteps, Tokens
<1>9. CASE ClaimChild(w)
  <2>1. wk[w].pc = "child_claim" /\ wk[w].token \in Tokens /\ UNCHANGED tasks
    BY <1>1, <1>9 DEF ClaimChild, At, Relies
  <2>2. wk[w].batch # 0 => rows'[wk[w].batch].status = rows[wk[w].batch].status
    BY <1>9, <2>1, BatchRowKept DEF Step, FinishBatch, At
  <2>3. CASE ClaimConfirmation(wk[w].token) /\ Goto(w, "validate")
    <3>1. rows[wk[w].token].status = "pending" /\ ~ Written(wk[w].token)
      BY <2>1, <2>3 DEF ClaimConfirmation, Claimable, StatusTellsWritten
    <3>2. rows'[wk[w].token].status = "processing"
      BY <2>1, <2>3, <3>1, StatusIsSet DEF ClaimConfirmation
    <3> QED BY <1>1, <2>1, <2>2, <2>3, <3>1, <3>2, MovesOn DEF Written, ItemSteps
  <2>4. CASE wk' = [wk EXCEPT ![w] = AfterItem(w, "refused")]
    BY <1>1, <2>1, <2>2, <2>4, Advances
  <2> QED BY <1>9, <2>3, <2>4 DEF ClaimChild
<1>10. CASE FinishBatch(w) \/ Crash(w)
  BY <1>2, <1>10 DEF FinishBatch, Crash, TypeOK
<1> QED BY <1>3, <1>4, <1>5, <1>6, <1>7, <1>8, <1>9, <1>10 DEF Act, Step

LEMMA ProcessInvStep == SafetyInv /\ [Next]_vars => ProcessInv'
<1> SUFFICES ASSUME SafetyInv, [Next]_vars, NEW v \in Workers PROVE Relies(v)'
  BY DEF ProcessInv
<1>1. Grows
  BY TypeStep
<1>2. CASE \E w \in Workers : Act(w)
  <2>1. PICK w \in Workers : Act(w)
    BY <1>2
  <2>2. CASE v = w
    BY <2>1, <2>2, MoverRelies
  <2>3. CASE v # w
    BY <1>1, <2>1, <2>3, OthersHeld, StillRelies
  <2> QED BY <2>2, <2>3
<1>3. CASE Preview \/ Expire \/ PluginReport \/ UNCHANGED vars
  <2>1. wk' = wk
    BY <1>3 DEF Preview, PreviewOne, PreviewBatch, RecordRejectedPreview, Expire, PluginReport, vars
  <2>2. ASSUME NEW t \in Tokens PROVE rows'[t].status = rows[t].status
    <3>1. CASE Preview
      <4>1. PICK row : rows' = Append(rows, row)
        BY <3>1 DEF Preview, PreviewOne, PreviewBatch, RecordRejectedPreview, CreateConfirmation
      <4> QED BY <4>1 DEF SafetyInv, TypeOK, Tokens
    <3>2. CASE UNCHANGED rows
      BY <3>2
    <3> QED BY <1>3, <3>1, <3>2 DEF Expire, PluginReport, vars
  <2>3. ASSUME NEW t, Written(t)' PROVE Written(t)
    <3>1. PICK i \in DOMAIN tasks' : tasks'[i].token = t
      BY <2>3 DEF Written
    <3>2. ASSUME NEW w \in Workers, InsertTask(w) PROVE FALSE
      <4>1. wk[w] \in Process /\ wk[w].pc = "insert" /\ Goto(w, "queued")
        BY <3>2, HeldRows DEF InsertTask, At, SafetyInv
      <4> QED BY <2>1, <4>1 DEF Goto, SafetyInv, TypeOK, Process
    <3>3. i \in DOMAIN tasks
      BY <3>2, TaskChanges
    <3> QED BY <1>1, <3>1, <3>3, TaskFields DEF Written, SafetyInv
  <2>4. \A t \in Held(v) : t \in Tokens
    BY HeldRows DEF SafetyInv
  <2> QED BY <1>1, <2>1, <2>2, <2>3, <2>4, StillRelies
<1> QED BY <1>2, <1>3 DEF Next, Act

-----------------------------------------------------------------------------
(* Claims are exclusive: a process gains only rows that were pending.      *)
LEMMA HeldGains ==
    ASSUME SafetyInv, NEW w \in Workers, Act(w), NEW t \in Held(w)', t \notin Held(w)
    PROVE  t \in Tokens /\ rows[t].status = "pending"
<1> USE DEF SafetyInv
<1>1. wk[w] \in Process
  BY HeldRows
<1>2. CASE Start(w)
  <2>1. PICK u \in Users, x \in Tokens : Confirm(w, u, x)
    BY <1>2, StartClaims
  <2>2. PICK q : q = wk'[w] /\ q = Claimed(x, u)
    BY <2>1 DEF Confirm, TypeOK
  <2>3. x \in Nat
    BY DEF Tokens, TypeOK
  <2>4. /\ q.batch \in {0, x}
        /\ q.pc \in ItemSteps => q.token = x
    BY <2>2, <2>3, ClaimedFields DEF ItemSteps
  <2>5. t = x
    BY <2>2, <2>4 DEF Held
  <2> QED BY <2>1, <2>5 DEF Confirm, ClaimConfirmation, Claimable
<1>3. ASSUME NEW step \in ItemSteps \cup {"child", "child_claim", "batch_finish"}, Goto(w, step),
             step \in ItemSteps =>
                \/ wk[w].pc \in ItemSteps
                \/ ClaimConfirmation(wk[w].token) /\ wk[w].token \in Tokens
      PROVE  t \in Tokens /\ rows[t].status = "pending"
  <2>1. PICK q : q = wk'[w]
    OBVIOUS
  <2>2. q = [wk[w] EXCEPT !.pc = step]
    BY <1>3, <2>1, GotoIsTyped
  <2>3. q.pc = step /\ q.token = wk[w].token /\ q.batch = wk[w].batch
    BY <1>1, <2>2 DEF Process
  <2>4. (t = q.token /\ step \in ItemSteps) \/ (t = q.batch /\ t # 0)
    BY <2>1, <2>3 DEF Held
  <2> QED BY <1>3, <2>3, <2>4 DEF Held, ClaimConfirmation, Claimable
<1>4. ASSUME NEW outcome \in {"queued", "refused"}, wk'[w] = AfterItem(w, outcome) PROVE FALSE
  <2>1. PICK q : q = wk'[w] /\ q = AfterItem(w, outcome)
    BY <1>4
  <2>2. q.pc \notin ItemSteps /\ q.batch \in {0, wk[w].batch}
    BY <2>1, AfterItemIsTyped DEF Idle, ItemSteps
  <2> QED BY <2>1, <2>2 DEF Held
<1>5. CASE StoreApproval(w) \/ ExecutePrice(w) \/ InsertTask(w)
  <2>1. wk[w].pc \in ItemSteps
    BY <1>5 DEF StoreApproval, ExecutePrice, InsertTask, At, ItemSteps
  <2>2. Goto(w, "execute") \/ Goto(w, "refused") \/ Goto(w, "insert") \/ Goto(w, "queued")
    BY <1>5 DEF StoreApproval, ExecutePrice, InsertTask
  <2> QED BY <1>3, <2>1, <2>2 DEF ItemSteps
<1>10. CASE RejectBatch(w)
  BY <1>3, <1>10 DEF RejectBatch, ItemSteps
<1>6. CASE FinishConfirmation(w)
  BY <1>4, <1>6 DEF FinishConfirmation, TypeOK
<1>7. CASE CreateChild(w)
  <2>1. PICK q : q = wk'[w]
    OBVIOUS
  <2>2. q = [wk[w] EXCEPT !.pc = "child_claim", !.token = Len(rows) + 1] /\ Len(rows) + 1 \in Nat
    BY <1>7, <2>1 DEF CreateChild, TypeOK
  <2>3. q.pc = "child_claim" /\ q.batch = wk[w].batch
    BY <1>1, <2>2, ChildIsTyped
  <2> QED BY <2>1, <2>3 DEF Held, ItemSteps
<1>8. CASE ClaimChild(w)
  <2>1. wk[w].token \in Tokens
    BY <1>8 DEF ClaimChild, At, ProcessInv, Relies
  <2>2. CASE ClaimConfirmation(wk[w].token) /\ Goto(w, "validate")
    BY <1>3, <2>1, <2>2 DEF ItemSteps
  <2>3. CASE wk' = [wk EXCEPT ![w] = AfterItem(w, "refused")]
    BY <1>4, <2>3 DEF TypeOK
  <2> QED BY <1>8, <2>2, <2>3 DEF ClaimChild
<1>9. CASE FinishBatch(w) \/ Crash(w)
  <2>1. wk'[w] = Idle
    BY <1>9 DEF FinishBatch, Crash, TypeOK
  <2> QED BY <2>1 DEF Held, Idle, ItemSteps
<1> QED BY <1>2, <1>5, <1>6, <1>7, <1>8, <1>9, <1>10 DEF Act, Step

LEMMA ExclusiveStep == SafetyInv /\ [Next]_vars => ClaimsAreExclusive'
<1> SUFFICES ASSUME SafetyInv, [Next]_vars PROVE ClaimsAreExclusive'
  OBVIOUS
<1> USE DEF SafetyInv
<1>1. ProcessInv' /\ TypeOK'
  BY ProcessInvStep, TypeStep
<1>2. ASSUME NEW v \in Workers, NEW t \in Held(v)' PROVE t \in Tokens' /\ rows'[t].status = "processing"
  BY <1>1, <1>2 DEF ProcessInv, Relies, Held, Tokens
<1>3. ASSUME NEW v1 \in Workers, NEW v2 \in Workers, v1 # v2, NEW t \in Held(v1)' \cap Held(v2)' PROVE FALSE
  <2>1. CASE \E w \in Workers : Act(w)
    <3>1. PICK w \in Workers : Act(w)
      BY <2>1
    <3>2. \A v \in Workers : v # w => Held(v)' = Held(v)
      BY <3>1, OthersHeld
    <3>3. \A v \in Workers : \A x \in Held(v) : rows[x].status = "processing"
      BY HeldRows
    <3>4. t \in Held(w)' => t \in Held(w) \/ rows[t].status = "pending"
      BY <3>1, HeldGains
    <3> QED BY <1>3, <3>2, <3>3, <3>4 DEF ClaimsAreExclusive
  <2>2. CASE Preview \/ Expire \/ PluginReport \/ UNCHANGED vars
    <3>1. wk' = wk
      BY <2>2 DEF Preview, PreviewOne, PreviewBatch, RecordRejectedPreview, Expire, PluginReport, vars
    <3>2. Held(v1)' = Held(v1) /\ Held(v2)' = Held(v2)
      BY <3>1 DEF Held
    <3> QED BY <1>3, <3>2 DEF ClaimsAreExclusive
  <2> QED BY <2>1, <2>2 DEF Next, Act
<1> QED BY <1>2, <1>3 DEF ClaimsAreExclusive

-----------------------------------------------------------------------------
(* The rows and the tasks.                                                 *)

(* The status of a row that exists changes by a claim or a finish.         *)
LEMMA AnyStatusChange ==
    ASSUME SafetyInv, [Next]_vars, NEW t \in Tokens, rows'[t].status # rows[t].status
    PROVE  \/ rows[t].status = "pending" /\ rows'[t].status = "processing"
           \/ \E w \in Workers : Act(w) /\ t \in Held(w) /\ Finished(w, t)
<1>1. CASE \E w \in Workers : Act(w)
  BY <1>1, StatusChanges
<1>2. CASE Preview
  <2>1. PICK row : rows' = Append(rows, row)
    BY <1>2 DEF Preview, PreviewOne, PreviewBatch, RecordRejectedPreview, CreateConfirmation
  <2> QED BY <2>1 DEF SafetyInv, TypeOK, Tokens
<1>3. CASE Expire \/ PluginReport \/ UNCHANGED vars
  BY <1>3 DEF Expire, PluginReport, vars
<1> QED BY <1>1, <1>2, <1>3 DEF Next, Act

(* A task that is inserted is the one its row asks for.                    *)
LEMMA NewTask ==
    ASSUME SafetyInv, [Next]_vars, NEW i \in DOMAIN tasks', i \notin DOMAIN tasks
    PROVE  \E t \in Tokens :
              /\ tasks'[i].token = t /\ rows' = rows /\ approvals' = approvals
              /\ ~ rows[t].batch /\ rows[t].status = "processing" /\ ~ Written(t)
              /\ rows[t].items = <<tasks'[i].item>>
              /\ tasks'[i].by \in Owners \/ tasks'[i].by = rows[t].requester
              /\ [token |-> t, by |-> tasks'[i].by] \in approvals
<1> USE DEF SafetyInv
<1>1. PICK w \in Workers : /\ InsertTask(w) /\ tasks'[i].token = wk[w].token
                           /\ tasks'[i].item = MyItem(w) /\ tasks'[i].by = wk[w].actor
  BY TaskChanges
<1>2. At(w, "insert") /\ rows' = rows /\ approvals' = approvals
  BY <1>1 DEF InsertTask
<1>3. wk[w].token \in Tokens /\ rows[wk[w].token].status = "processing" /\ ~ rows[wk[w].token].batch
  BY <1>2, HeldRows DEF At, ItemSteps
<1>4. ~ Written(wk[w].token) /\ Authorized(wk[w].token, wk[w].actor)
  BY <1>2 DEF At, ItemSteps, ProcessInv, Relies
<1>5. rows[wk[w].token].items \in Seq(Item) /\ Len(rows[wk[w].token].items) = 1
  <2>1. rows[wk[w].token] \in Row
    BY <1>3 DEF TypeOK, Tokens
  <2>2. rows[wk[w].token].items \in Seq(Item)
    BY <2>1 DEF Row
  <2> QED BY <1>3, <2>2 DEF RowsInv
<1>6. rows[wk[w].token].items = <<MyItem(w)>>
  BY <1>5 DEF MyItem
<1> QED BY <1>1, <1>2, <1>3, <1>4, <1>6 DEF Authorized

(* What RowsInv asks of one row.                                           *)
SoundRow(t, row, written) ==
    /\ row.batch =>
          /\ row.items # <<>>
          /\ \A n \in DOMAIN row.items : row.items[n].root = t /\ row.items[n].n = n
    /\ ~ row.batch /\ row.status # "rejected" =>
          /\ Len(row.items) = 1
          /\ row.items[1].n = 1 \/ row.items[1].n - 1 \in written

LEMMA NewRowIsSound ==
    ASSUME SafetyInv, [Next]_vars, NEW t \in Tokens', t \notin Tokens
    PROVE  SoundRow(t, rows'[t], WrittenOf(rows'[t].items[1].root))
<1> USE DEF SafetyInv
<1>1. ASSUME NEW row, rows' = Append(rows, row) PROVE t = Len(rows) + 1 /\ rows'[t] = row
  BY <1>1 DEF TypeOK, Tokens
<1>2. CASE Preview
  <2>1. PICK u \in Requesters : PreviewOne(u) \/ PreviewBatch(u) \/ RecordRejectedPreview(u)
    BY <1>2 DEF Preview
  <2>2. CASE PreviewOne(u)
    <3>1. PICK p \in Products : CreateConfirmation(u, FALSE, ItemsOf(<<p>>))
      BY <2>2 DEF PreviewOne
    <3>2. <<p>> \in Seq(Products) /\ Len(<<p>>) = 1 /\ 1 \in DOMAIN <<p>>
      OBVIOUS
    <3>3. Len(ItemsOf(<<p>>)) = 1 /\ ItemsOf(<<p>>)[1].n = 1
      BY <3>2, ItemsAreTyped
    <3>4. rows'[t] = [status |-> "pending", requester |-> u, batch |-> FALSE, items |-> ItemsOf(<<p>>)]
      BY <1>1, <3>1 DEF CreateConfirmation
    <3>5. ~ rows'[t].batch /\ rows'[t].items = ItemsOf(<<p>>)
      BY <3>4
    <3> QED BY <3>3, <3>5 DEF SoundRow
  <2>3. CASE PreviewBatch(u)
    <3>1. PICK ps \in Batches : CreateConfirmation(u, TRUE, ItemsOf(ps))
      BY <2>3 DEF PreviewBatch
    <3>2. ps \in Seq(Products) /\ ps # <<>>
      BY BatchesAssumption
    <3>3. /\ Len(ItemsOf(ps)) = Len(ps) /\ ItemsOf(ps) \in Seq(Item)
          /\ \A n \in DOMAIN ItemsOf(ps) : ItemsOf(ps)[n].root = Len(rows) + 1 /\ ItemsOf(ps)[n].n = n
      BY <3>2, ItemsAreTyped
    <3>4. ItemsOf(ps) # <<>>
      BY <3>2, <3>3
    <3>5. /\ rows'[t] = [status |-> "pending", requester |-> u, batch |-> TRUE, items |-> ItemsOf(ps)]
          /\ t = Len(rows) + 1
      BY <1>1, <3>1 DEF CreateConfirmation
    <3>6. rows'[t].batch /\ rows'[t].items = ItemsOf(ps)
      BY <3>5
    <3> QED BY <3>3, <3>4, <3>5, <3>6 DEF SoundRow
  <2>4. CASE RecordRejectedPreview(u)
    <3>1. rows'[t] = [status |-> "rejected", requester |-> u, batch |-> FALSE, items |-> <<>>]
      BY <1>1, <2>4 DEF RecordRejectedPreview
    <3> QED BY <3>1 DEF SoundRow
  <2> QED BY <2>1, <2>2, <2>3, <2>4
<1>3. ASSUME NEW w \in Workers, CreateChild(w)
      PROVE  SoundRow(t, rows'[t], WrittenOf(rows'[t].items[1].root))
  <2>1. PICK b : b = wk[w].batch
    OBVIOUS
  <2>2. PICK k : k = wk[w].item
    OBVIOUS
  <2>3. PICK item : item = rows[b].items[k]
    OBVIOUS
  <2>4. rows'[t] = [status |-> "pending", requester |-> rows[b].requester, batch |-> FALSE, items |-> <<item>>]
    BY <1>1, <1>3, <2>1, <2>2, <2>3 DEF CreateChild, CreateConfirmation
  <2>5. ~ rows'[t].batch /\ rows'[t].items = <<item>> 
    BY <2>4
  <2>6. /\ b \in Tokens /\ rows[b].batch /\ k \in DOMAIN rows[b].items
        /\ \A n \in 1..(k - 1) : n \in WrittenOf(b)
    BY <1>3, <2>1, <2>2 DEF CreateChild, At, ProcessInv, Relies
  <2>7. item.root = b /\ item.n = k
    BY <2>3, <2>6 DEF RowsInv
  <2>8. k \in Nat \ {0}
    <3>1. rows[b] \in Row
      BY <2>6 DEF TypeOK, Tokens
    <3>2. rows[b].items \in Seq(Item)
      BY <3>1 DEF Row
    <3> QED BY <2>6, <3>2
  <2>9. k = 1 \/ k - 1 \in WrittenOf(b)
    BY <2>6, <2>8
  <2>10. Len(<<item>>) = 1 /\ <<item>>[1] = item
    OBVIOUS
  <2> QED BY <2>5, <2>7, <2>9, <2>10 DEF SoundRow
<1>4. CASE \E w \in Workers : Act(w) /\ ~ CreateChild(w)
  <2>1. PICK w \in Workers : Act(w) /\ ~ CreateChild(w)
    BY <1>4
  <2>2. CASE Start(w)
    <3>1. PICK u \in Users, x \in Tokens : Confirm(w, u, x)
      BY <2>2, StartClaims
    <3> QED BY <3>1 DEF Confirm, ClaimConfirmation, SetStatus, Tokens
  <2>3. CASE Step(w) \/ Crash(w)
    BY <2>1, <2>3
    DEF Step, Crash, StoreApproval, ExecutePrice, InsertTask, FinishConfirmation, RejectBatch,
        ClaimChild, ClaimConfirmation, FinishBatch, SetStatus, Tokens
  <2> QED BY <2>1, <2>2, <2>3 DEF Act
<1>5. CASE Expire \/ PluginReport \/ UNCHANGED vars
  BY <1>5 DEF Expire, PluginReport, vars, Tokens
<1> QED BY <1>2, <1>3, <1>4, <1>5 DEF Next, Act

LEMMA NewRowStatus ==
    ASSUME SafetyInv, [Next]_vars, NEW t \in Tokens', t \notin Tokens
    PROVE  rows'[t].status \in {"pending", "rejected"}
<1> USE DEF SafetyInv
<1>1. ASSUME NEW row, rows' = Append(rows, row) PROVE rows'[t] = row
  BY <1>1 DEF TypeOK, Tokens
<1>2. ASSUME NEW u, NEW b, NEW items, CreateConfirmation(u, b, items) PROVE rows'[t].status = "pending"
  <2>1. rows'[t] = [status |-> "pending", requester |-> u, batch |-> b, items |-> items]
    BY <1>1, <1>2 DEF CreateConfirmation
  <2> QED BY <2>1
<1>3. ASSUME NEW u, RecordRejectedPreview(u) PROVE rows'[t].status = "rejected"
  <2>1. rows'[t] = [status |-> "rejected", requester |-> u, batch |-> FALSE, items |-> <<>>]
    BY <1>1, <1>3 DEF RecordRejectedPreview
  <2> QED BY <2>1
<1>4. CASE Preview
  BY <1>2, <1>3, <1>4 DEF Preview, PreviewOne, PreviewBatch
<1>5. ASSUME NEW w \in Workers, CreateChild(w) PROVE rows'[t].status = "pending"
  BY <1>2, <1>5 DEF CreateChild
<1>6. ASSUME NEW w \in Workers, Start(w) PROVE FALSE
  <2>1. PICK u \in Users, x \in Tokens : Confirm(w, u, x)
    BY <1>6, StartClaims
  <2> QED BY <2>1 DEF Confirm, ClaimConfirmation, SetStatus, Tokens
<1>7. ASSUME NEW w \in Workers, Step(w) \/ Crash(w), ~ CreateChild(w) PROVE FALSE
  BY <1>7
  DEF Step, Crash, StoreApproval, ExecutePrice, InsertTask, FinishConfirmation, RejectBatch,
      ClaimChild, ClaimConfirmation, FinishBatch, SetStatus, Tokens
<1>8. CASE Expire \/ PluginReport \/ UNCHANGED vars
  BY <1>8 DEF Expire, PluginReport, vars, Tokens
<1> QED BY <1>4, <1>5, <1>6, <1>7, <1>8 DEF Next

LEMMA RowsStep == SafetyInv /\ [Next]_vars => RowsInv'
<1> SUFFICES ASSUME SafetyInv, [Next]_vars, NEW t \in Tokens'
             PROVE  SoundRow(t, rows[t], WrittenOf(rows[t].items[1].root))'
  BY DEF RowsInv, SoundRow, WrittenOf
<1> USE DEF SafetyInv
<1>1. Grows
  BY TypeStep
<1>2. PICK r : r = rows'[t].items[1].root
  OBVIOUS
<1>3. SoundRow(t, rows'[t], WrittenOf(r))
  <2>1. CASE t \in Tokens
    <3>1. SoundRow(t, rows[t], WrittenOf(rows[t].items[1].root))
      BY <2>1 DEF RowsInv, SoundRow
    <3>2. /\ rows'[t].batch = rows[t].batch /\ rows'[t].items = rows[t].items
          /\ rows'[t].status = "rejected" <=> rows[t].status = "rejected"
      BY <1>1, <2>1, RowFields
    <3> QED BY <1>2, <3>1, <3>2 DEF SoundRow
  <2>2. CASE t \notin Tokens
    BY <1>2, <2>2, NewRowIsSound
  <2> QED BY <2>1, <2>2
<1>4. \A n \in WrittenOf(r) : n \in WrittenOf(r)'
  BY <1>1, WrittenGrows
<1>5. SoundRow(t, rows'[t], WrittenOf(r)')
  BY <1>3, <1>4 DEF SoundRow
<1> QED BY <1>2, <1>5 DEF SoundRow, WrittenOf

LEMMA TasksStep ==
    SafetyInv /\ [Next]_vars => TasksInv' /\ TasksAreAuthorized' /\ TokensAreSingleUse'
<1> SUFFICES ASSUME SafetyInv, [Next]_vars
             PROVE  TasksInv' /\ TasksAreAuthorized' /\ TokensAreSingleUse'
  OBVIOUS
<1> USE DEF SafetyInv
<1>1. Grows
  BY TypeStep
<1>2. ASSUME NEW i \in DOMAIN tasks'
      PROVE  \E t \in Tokens : \E it, u :
                /\ t = tasks'[i].token /\ it = tasks'[i].item /\ u = tasks'[i].by
                /\ t \in Tokens' /\ ~ rows'[t].batch
                /\ rows'[t].status \in {"processing", "completed"}
                /\ it.n = 1 \/ it.n - 1 \in WrittenOf(it.root)
                /\ rows'[t].items = <<it>>
                /\ u \in Owners \/ u = rows'[t].requester
                /\ [token |-> t, by |-> u] \in approvals'
  <2>1. CASE i \in DOMAIN tasks
    <3>1. PICK t \in Tokens : t = tasks[i].token
      BY <2>1 DEF TasksInv
    <3>2. /\ ~ rows[t].batch /\ rows[t].status \in {"processing", "completed"}
          /\ tasks[i].item.n = 1 \/ tasks[i].item.n - 1 \in WrittenOf(tasks[i].item.root)
          /\ rows[t].items = <<tasks[i].item>> /\ Authorized(t, tasks[i].by)
      BY <2>1, <3>1 DEF TasksInv, TasksAreAuthorized
    <3>3. /\ tasks'[i].token = t /\ tasks'[i].item = tasks[i].item /\ tasks'[i].by = tasks[i].by
      BY <1>1, <2>1, <3>1, TaskFields
    <3>4. /\ t \in Tokens' /\ rows'[t].batch = rows[t].batch /\ rows'[t].items = rows[t].items
          /\ rows'[t].requester = rows[t].requester
      BY <1>1, RowFields
    <3>5. rows'[t].status \in {"processing", "completed"}
      <4>1. CASE rows'[t].status = rows[t].status
        BY <3>2, <4>1
      <4>2. CASE rows'[t].status # rows[t].status
        <5>1. PICK w \in Workers : Finished(w, t)
          BY <3>2, <4>2, AnyStatusChange
        <5>2. Written(t)
          BY <2>1, <3>1 DEF Written
        <5>3. ~ FinishBatch(w) \/ t # wk[w].batch
          BY <3>2 DEF FinishBatch, At, ProcessInv, Relies
        <5>4. CASE FinishConfirmation(w) /\ t = wk[w].token /\ rows'[t].status = FinishedAs(At(w, "queued"))
          <6>1. At(w, "queued")
            BY <5>2, <5>4 DEF FinishConfirmation, At, ItemSteps, ProcessInv, Relies
          <6> QED BY <5>4, <6>1 DEF FinishedAs
        <5> QED BY <5>1, <5>3, <5>4 DEF Finished
      <4> QED BY <4>1, <4>2
    <3>6. PICK it, u : it = tasks[i].item /\ u = tasks[i].by
      OBVIOUS
    <3>7. /\ u \in Owners \/ u = rows'[t].requester
          /\ [token |-> t, by |-> u] \in approvals'
      BY <1>1, <3>2, <3>4, <3>6 DEF Authorized, Grows
    <3>8. /\ it.n = 1 \/ it.n - 1 \in WrittenOf(it.root)
          /\ rows'[t].items = <<it>> /\ ~ rows'[t].batch
      BY <3>2, <3>4, <3>6
    <3> QED BY <3>3, <3>4, <3>5, <3>6, <3>7, <3>8
  <2>2. CASE i \notin DOMAIN tasks
    <3>1. PICK t \in Tokens :
              /\ tasks'[i].token = t /\ rows' = rows /\ approvals' = approvals
              /\ ~ rows[t].batch /\ rows[t].status = "processing" /\ ~ Written(t)
              /\ rows[t].items = <<tasks'[i].item>>
              /\ tasks'[i].by \in Owners \/ tasks'[i].by = rows[t].requester
              /\ [token |-> t, by |-> tasks'[i].by] \in approvals
      BY <2>2, NewTask
    <3>2. PICK it : it = tasks'[i].item
      OBVIOUS
    <3>3. rows[t].items = <<it>>
      BY <3>1, <3>2
    <3>4. it.n = 1 \/ it.n - 1 \in WrittenOf(it.root)
      <4>1. rows[t].items[1] = it
        BY <3>3
      <4> QED BY <3>1, <4>1 DEF RowsInv
    <3> QED BY <3>1, <3>2, <3>3, <3>4 DEF Tokens
  <2> QED BY <2>1, <2>2
<1>3. TasksInv'
  <2> SUFFICES ASSUME NEW i \in DOMAIN tasks'
               PROVE  /\ tasks'[i].token \in Tokens' /\ ~ rows'[tasks'[i].token].batch
                      /\ rows'[tasks'[i].token].status \in {"processing", "completed"}
                      /\ (tasks[i].item.n = 1 \/ tasks[i].item.n - 1 \in WrittenOf(tasks[i].item.root))'
    BY DEF TasksInv
  <2>1. PICK t, it :
                /\ t = tasks'[i].token /\ it = tasks'[i].item
                /\ t \in Tokens' /\ ~ rows'[t].batch
                /\ rows'[t].status \in {"processing", "completed"}
                /\ it.n = 1 \/ it.n - 1 \in WrittenOf(it.root)
    BY <1>2
  <2>2. it.n = 1 \/ it.n - 1 \in WrittenOf(it.root)'
    BY <1>1, <2>1, WrittenGrows
  <2> QED BY <2>1, <2>2 DEF WrittenOf
<1>4. TasksAreAuthorized'
  BY <1>2 DEF TasksAreAuthorized, Authorized
<1>5. TokensAreSingleUse'
  <2> SUFFICES ASSUME NEW i \in DOMAIN tasks', NEW j \in DOMAIN tasks', tasks'[i].token = tasks'[j].token
               PROVE  i = j
    BY DEF TokensAreSingleUse
  <2>1. CASE i \in DOMAIN tasks /\ j \in DOMAIN tasks
    BY <1>1, <2>1, TaskFields DEF TokensAreSingleUse
  <2>2. ASSUME NEW a \in DOMAIN tasks', NEW b \in DOMAIN tasks', a \in DOMAIN tasks, b \notin DOMAIN tasks,
               tasks'[a].token = tasks'[b].token
        PROVE  FALSE
    <3>1. ~ Written(tasks'[b].token)
      BY <2>2, NewTask
    <3>2. tasks'[a].token = tasks[a].token
      BY <1>1, <2>2, TaskFields
    <3> QED BY <2>2, <3>1, <3>2 DEF Written
  <2>3. CASE i \notin DOMAIN tasks /\ j \notin DOMAIN tasks
    BY <2>3, TaskChanges
  <2> QED BY <2>1, <2>2, <2>3
<1> QED BY <1>3, <1>4, <1>5

LEMMA StatusStepTells == SafetyInv /\ [Next]_vars => StatusTellsWritten'
<1> SUFFICES ASSUME SafetyInv, [Next]_vars, NEW t \in Tokens'
             PROVE  /\ rows'[t].status = "completed" =>
                          (IF rows[t].batch THEN WrittenOf(t) # {} ELSE Written(t))'
                    /\ rows'[t].status = "pending" => ~ Written(t)'
  BY DEF StatusTellsWritten
<1> USE DEF SafetyInv
<1>1. Grows /\ TasksInv'
  BY TypeStep, TasksStep
<1>2. rows'[t].status = "pending" => ~ Written(t)'
  BY <1>1 DEF TasksInv, Written
<1>3. ASSUME rows'[t].status = "completed"
      PROVE  (rows'[t].batch => WrittenOf(t)' # {}) /\ (~ rows'[t].batch => Written(t)')
  <2>1. t \in Tokens
    <3>1. ASSUME t \notin Tokens PROVE FALSE
      <4>1. rows'[t].status \in {"pending", "rejected"}
        BY <3>1, NewRowStatus
      <4> QED BY <1>3, <4>1
    <3> QED BY <3>1
  <2>2. rows'[t].batch = rows[t].batch
    BY <1>1, <2>1, RowFields
  <2>3. CASE rows'[t].status = rows[t].status
    <3>1. (rows[t].batch => WrittenOf(t) # {}) /\ (~ rows[t].batch => Written(t))
      BY <1>3, <2>1, <2>3 DEF StatusTellsWritten
    <3> QED BY <1>1, <2>2, <3>1, WrittenGrows
  <2>4. CASE rows'[t].status # rows[t].status
    <3>1. PICK w \in Workers : Finished(w, t)
      BY <1>3, <2>1, <2>4, AnyStatusChange
    <3>2. CASE FinishConfirmation(w) /\ t = wk[w].token /\ rows'[t].status = FinishedAs(At(w, "queued"))
      <4>1. At(w, "queued")
        BY <1>3, <3>2 DEF FinishedAs
      <4>2. Written(t) /\ ~ rows[t].batch
        BY <3>2, <4>1 DEF At, ItemSteps, ProcessInv, Relies
      <4> QED BY <1>1, <2>2, <4>2, WrittenGrows
    <3>3. CASE FinishBatch(w) /\ t = wk[w].batch /\ rows'[t].status = FinishedAs(wk[w].queued > 0)
      <4>1. wk[w].queued > 0
        BY <1>3, <3>3 DEF FinishedAs
      <4>2. WrittenOf(t) # {} /\ rows[t].batch
        BY <3>3, <4>1 DEF FinishBatch, At, ProcessInv, Relies
      <4> QED BY <1>1, <2>2, <4>2, WrittenGrows
    <3> QED BY <3>1, <3>2, <3>3 DEF Finished
  <2> QED BY <2>3, <2>4
<1> QED BY <1>2, <1>3 DEF Written, WrittenOf

LEMMA SealedStep ==
    ASSUME SafetyInv, [Next]_vars, NEW t \in Tokens
    PROVE  /\ t \in DOMAIN rows'
           /\ rows'[t] = [rows[t] EXCEPT !.status = rows'[t].status]
           /\ rows[t].status \in {"completed", "rejected"} => rows'[t] = rows[t]
<1>1. Grows
  BY TypeStep
<1>2. t \in DOMAIN rows' /\ rows'[t] = [rows[t] EXCEPT !.status = rows'[t].status]
  BY <1>1 DEF Grows, Tokens
<1>3. ASSUME rows[t].status \in {"completed", "rejected"} PROVE rows'[t].status = rows[t].status
  <2>1. \A w \in Workers : t \notin Held(w)
    BY <1>3, HeldRows DEF SafetyInv
  <2> QED BY <1>3, <2>1, AnyStatusChange
<1>4. rows[t] \in Row
  BY DEF SafetyInv, TypeOK, Tokens
<1>5. [rows[t] EXCEPT !.status = rows[t].status] = rows[t]
  BY <1>4 DEF Row
<1> QED BY <1>2, <1>3, <1>5

-----------------------------------------------------------------------------
(* The invariant holds initially and is kept by every step.                *)
LEMMA SafetyInit == Init => SafetyInv
<1> SUFFICES ASSUME Init PROVE SafetyInv
  OBVIOUS
<1>1. TypeOK
  BY BoundsAssumption DEF Init, TypeOK, Idle, Process
<1>2. Tokens = {} /\ DOMAIN tasks = {}
  BY DEF Init, Tokens
<1>3. ASSUME NEW w \in Workers PROVE Relies(w) /\ Held(w) = {}
  <2>1. wk[w] = Idle
    BY DEF Init
  <2> QED BY <2>1 DEF Relies, Held, Idle, ItemSteps
<1>4. RowsInv /\ TasksInv /\ StatusTellsWritten /\ TasksAreAuthorized /\ TokensAreSingleUse
  BY <1>2 DEF RowsInv, TasksInv, StatusTellsWritten, TasksAreAuthorized, TokensAreSingleUse
<1> QED BY <1>1, <1>3, <1>4 DEF SafetyInv, ProcessInv, ClaimsAreExclusive

LEMMA SafetyStep == SafetyInv /\ [Next]_vars => SafetyInv'
BY TypeStep, RowsStep, TasksStep, ProcessInvStep, ExclusiveStep, StatusStepTells DEF SafetyInv

LEMMA Safety == Spec => []SafetyInv
BY SafetyInit, SafetyStep, PTL DEF Spec

-----------------------------------------------------------------------------
(* Every reachable state is well typed.                                    *)
THEOREM TypeCorrect == Spec => []TypeOK
<1>1. SafetyInv => TypeOK
  BY DEF SafetyInv
<1> QED BY <1>1, Safety, PTL

(* What a confirming process relies on between two transactions stays true *)
(* whatever the other processes, the plugin and the clock do.              *)
THEOREM ProcessesRely == Spec => []ProcessInv
<1>1. SafetyInv => ProcessInv
  BY DEF SafetyInv
<1> QED BY <1>1, Safety, PTL

(* claim_confirmation gives a row to one process at a time, and every row  *)
(* a process holds is "processing".                                        *)
THEOREM ClaimsStayExclusive == Spec => []ClaimsAreExclusive
<1>1. SafetyInv => ClaimsAreExclusive
  BY DEF SafetyInv
<1> QED BY <1>1, Safety, PTL

(* A token of one item is good for one task at most.                       *)
THEOREM TokensWriteOnce == Spec => []TokensAreSingleUse
<1>1. SafetyInv => TokensAreSingleUse
  BY DEF SafetyInv
<1> QED BY <1>1, Safety, PTL

(* finish_confirmation leaves "completed" where a task was written, and    *)
(* "pending" only where none was.                                          *)
THEOREM StatusIsTrue == Spec => []StatusTellsWritten
<1>1. SafetyInv => StatusTellsWritten
  BY DEF SafetyInv
<1> QED BY <1>1, Safety, PTL

(* The items of a batch are written in their order, over all attempts.     *)
THEOREM BatchesInOrder == Spec => []BatchInOrder
<1>1. SafetyInv => BatchInOrder
  <2> SUFFICES ASSUME SafetyInv, NEW t \in Tokens, NEW n \in WrittenOf(t)
               PROVE  n = 1 \/ n - 1 \in WrittenOf(t)
    BY DEF BatchInOrder
  <2>1. PICK i \in DOMAIN tasks : tasks[i].item.root = t /\ tasks[i].item.n = n
    BY DEF WrittenOf
  <2> QED BY <2>1 DEF SafetyInv, TasksInv
<1> QED BY <1>1, Safety, PTL

(* approval_gate: every task was confirmed by an owner or by the operator  *)
(* who asked for its preview, and has the approval of that very actor.     *)
THEOREM EveryTaskIsAuthorized == Spec => []TasksAreAuthorized
<1>1. SafetyInv => TasksAreAuthorized
  BY DEF SafetyInv
<1> QED BY <1>1, Safety, PTL

(* No step changes a stored preview, and none reopens a row that is        *)
(* completed or rejected.                                                  *)
THEOREM PreviewsStaySealed == Spec => PreviewsAreSealed
<1> DEFINE Kept == \A t \in Tokens :
                      /\ t \in DOMAIN rows'
                      /\ rows'[t] = [rows[t] EXCEPT !.status = rows'[t].status]
                      /\ rows[t].status \in {"completed", "rejected"} => rows'[t] = rows[t]
<1>1. SafetyInv /\ [Next]_vars => Kept
  BY SealedStep
<1>2. PreviewsAreSealed <=> [][Kept]_vars
  BY DEF PreviewsAreSealed
<1> HIDE DEF Kept
<1> QED BY <1>1, <1>2, Safety, PTL DEF Spec

-----------------------------------------------------------------------------
(* S6PriceConfirm implements S6PriceOutbox.                                *)
ClaimMap == [t \in Tokens |-> ClaimOf(rows[t])]
BookedMap == [i \in DOMAIN tasks |-> [token |-> tasks[i].token, status |-> tasks[i].status]]

LEMMA MapAppended ==
    ASSUME NEW S, NEW n \in Nat, NEW f \in [1..n -> S], NEW g \in [1..(n + 1) -> S], NEW e \in S,
           \A i \in 1..n : g[i] = f[i], g[n + 1] = e
    PROVE  g = Append(f, e)
<1>1. f \in Seq(S) /\ Len(f) = n /\ g \in Seq(S) /\ Len(g) = n + 1
  OBVIOUS
<1>2. Append(f, e) \in Seq(S) /\ Len(Append(f, e)) = n + 1
  BY <1>1
<1>3. \A i \in 1..(n + 1) : g[i] = Append(f, e)[i]
  BY <1>1
<1> QED BY <1>1, <1>2, <1>3

LEMMA ClaimIsTyped == ASSUME NEW row PROVE ClaimOf(row) \in {"open", "held", "spent", "void"}
BY DEF ClaimOf

LEMMA HasTaskIsWritten == \A t : Book!HasTask(t) <=> Written(t)
BY DEF Book!HasTask, Written

(* A new row is an offer, or void.                                         *)
LEMMA OfferStep ==
    ASSUME SafetyInv, NEW row, row.status \in {"pending", "rejected"},
           rows' = Append(rows, row), tasks' = tasks
    PROVE  Book!BookNext
<1> DEFINE n == Len(rows)
<1>1. rows \in Seq(Row) /\ n \in Nat /\ Tokens = 1..n
  BY DEF SafetyInv, TypeOK, Tokens
<1>2. /\ Tokens' = 1..(n + 1) /\ rows'[n + 1] = row
      /\ \A t \in 1..n : rows'[t] = rows[t]
  BY <1>1 DEF Tokens
<1>3. /\ ClaimMap \in [1..n -> Book!Claims] /\ ClaimMap' \in [1..(n + 1) -> Book!Claims]
      /\ \A t \in 1..n : ClaimMap'[t] = ClaimMap[t]
      /\ ClaimMap'[n + 1] = ClaimOf(row)
  BY <1>1, <1>2, ClaimIsTyped DEF ClaimMap, Book!Claims
<1>4. ClaimOf(row) \in {"open", "void"} /\ ClaimOf(row) \in Book!Claims
  BY DEF ClaimOf, Book!Claims
<1>5. ClaimMap' = Append(ClaimMap, ClaimOf(row))
  BY <1>1, <1>3, <1>4, MapAppended
<1>6. BookedMap' = BookedMap
  BY DEF BookedMap
<1> QED BY <1>4, <1>5, <1>6 DEF Book!BookNext, Book!Offer, ClaimMap, BookedMap

(* A row that changes its status is claimed or settled.                    *)
LEMMA SettleStep ==
    ASSUME SafetyInv, NEW t \in Tokens, NEW s \in {"pending", "processing", "completed"},
           rows[t].status # "rejected", SetStatus(t, s), tasks' = tasks,
           \/ rows[t].batch
           \/ rows[t].status = "pending" /\ s = "processing"
           \/ rows[t].status = "processing" /\ s = IF Written(t) THEN "completed" ELSE "pending"
    PROVE  Book!BookNext \/ (ClaimMap' = ClaimMap /\ BookedMap' = BookedMap)
<1>1. /\ Tokens' = Tokens /\ rows'[t].status = s /\ rows'[t].batch = rows[t].batch
      /\ \A x \in Tokens : x # t => rows'[x] = rows[x]
  <2>1. rows[t] \in Row
    BY DEF SafetyInv, TypeOK, Tokens
  <2>2. /\ Tokens' = Tokens /\ rows'[t] = [rows[t] EXCEPT !.status = s]
        /\ \A x \in Tokens : x # t => rows'[x] = rows[x]
    BY StatusIsSet DEF SafetyInv
  <2> QED BY <2>1, <2>2 DEF Row
<1>2. BookedMap' = BookedMap
  BY DEF BookedMap
<1>3. CASE rows[t].batch
  <2>1. \A x \in Tokens : ClaimOf(rows'[x]) = ClaimOf(rows[x])
    BY <1>1, <1>3 DEF ClaimOf
  <2>2. ClaimMap' = ClaimMap
    BY <1>1, <2>1 DEF ClaimMap
  <2> QED BY <1>2, <2>2
<1>4. ASSUME NEW c, ClaimOf(rows'[t]) = c PROVE ClaimMap' = [ClaimMap EXCEPT ![t] = c]
  BY <1>1, <1>4 DEF ClaimMap
<1>5. CASE ~ rows[t].batch /\ rows[t].status = "pending" /\ s = "processing"
  <2>1. ClaimMap[t] = "open" /\ ClaimOf(rows'[t]) = "held"
    BY <1>1, <1>5 DEF ClaimMap, ClaimOf
  <2>2. t \in DOMAIN ClaimMap
    BY DEF ClaimMap
  <2> QED BY <1>2, <1>4, <2>1, <2>2 DEF Book!BookNext, Book!Take, ClaimMap, BookedMap
<1>6. CASE /\ ~ rows[t].batch /\ rows[t].status = "processing"
           /\ s = IF Written(t) THEN "completed" ELSE "pending"
  <2>1. /\ ClaimMap[t] = "held"
        /\ ClaimOf(rows'[t]) = IF Book!HasTask(t) THEN "spent" ELSE "open"
    BY <1>1, <1>6, HasTaskIsWritten DEF ClaimMap, ClaimOf
  <2>2. t \in DOMAIN ClaimMap
    BY DEF ClaimMap
  <2> QED BY <1>2, <1>4, <2>1, <2>2 DEF Book!BookNext, Book!Settle, ClaimMap, BookedMap
<1> QED BY <1>3, <1>5, <1>6

(* A task is written on a token that is held and has none.                 *)
LEMMA WriteStep ==
    ASSUME SafetyInv, NEW w \in Workers, InsertTask(w)
    PROVE  Book!BookNext
<1> USE DEF SafetyInv
<1> DEFINE n == Len(tasks)
           B == [token: Tokens, status: {"PENDING", "SUCCESS", "FAILED"}]
<1>1. PICK t : t = wk[w].token
  OBVIOUS
<1>2. t \in Tokens /\ rows[t].status = "processing" /\ ~ rows[t].batch /\ ~ Written(t)
  BY <1>1 DEF InsertTask, At, ItemSteps, ProcessInv, Relies
<1>3. PICK task : tasks' = Append(tasks, task) /\ task.token = t /\ task.status = "PENDING"
  BY <1>1 DEF InsertTask
<1>4. tasks \in Seq(Task) /\ n \in Nat /\ DOMAIN tasks = 1..n
  BY DEF TypeOK
<1>5. /\ DOMAIN tasks' = 1..(n + 1) /\ tasks'[n + 1] = task
      /\ \A i \in 1..n : tasks'[i] = tasks[i]
  BY <1>3, <1>4
<1>6. \A i \in 1..n : tasks[i].token \in Tokens /\ tasks[i].status \in {"PENDING", "SUCCESS", "FAILED"}
  <2>1. \A i \in 1..n : tasks[i] \in Task
    BY <1>4
  <2> QED BY <1>4, <2>1 DEF TasksInv, Task
<1>7. /\ BookedMap \in [1..n -> B] /\ BookedMap' \in [1..(n + 1) -> B]
      /\ \A i \in 1..n : BookedMap'[i] = BookedMap[i]
      /\ BookedMap'[n + 1] = [token |-> t, status |-> "PENDING"]
      /\ [token |-> t, status |-> "PENDING"] \in B
  BY <1>2, <1>3, <1>4, <1>5, <1>6 DEF BookedMap
<1> HIDE DEF B
<1>8. BookedMap' = Append(BookedMap, [token |-> t, status |-> "PENDING"])
  BY <1>4, <1>7, MapAppended
<1>9. ClaimMap' = ClaimMap /\ t \in DOMAIN ClaimMap /\ ClaimMap[t] = "held"
  BY <1>2 DEF InsertTask, ClaimMap, ClaimOf, Tokens
<1> QED BY <1>2, <1>8, <1>9, HasTaskIsWritten DEF Book!BookNext, Book!WriteTask, ClaimMap, BookedMap

LEMMA ObserveStep ==
    ASSUME SafetyInv, PluginReport
    PROVE  Book!BookNext
<1>1. PICK i \in DOMAIN tasks, r \in PluginResults :
         tasks[i].status = "PENDING" /\ tasks' = [tasks EXCEPT ![i].status = r]
  BY DEF PluginReport
<1>2. \A j \in DOMAIN tasks : tasks[j] \in Task
  BY DEF SafetyInv, TypeOK
<1>3. /\ DOMAIN tasks' = DOMAIN tasks /\ tasks'[i].token = tasks[i].token /\ tasks'[i].status = r
      /\ \A j \in DOMAIN tasks : j # i => tasks'[j] = tasks[j]
  BY <1>1, <1>2 DEF SafetyInv, TypeOK, Task
<1>4. BookedMap' = [BookedMap EXCEPT ![i].status = r]
  BY <1>3 DEF BookedMap
<1>5. ClaimMap' = ClaimMap
  BY DEF PluginReport, ClaimMap, Tokens
<1>6. i \in DOMAIN BookedMap /\ BookedMap[i].status = "PENDING"
  BY <1>1 DEF BookedMap
<1>7. r \in {"SUCCESS", "FAILED"}
  BY BoundsAssumption
<1> QED BY <1>4, <1>5, <1>6, <1>7 DEF Book!BookNext, Book!Observe, ClaimMap, BookedMap

LEMMA BookStep ==
    ASSUME SafetyInv, [Next]_vars
    PROVE  Book!BookNext \/ (ClaimMap' = ClaimMap /\ BookedMap' = BookedMap)
<1> USE DEF SafetyInv
<1>1. ASSUME UNCHANGED <<rows, tasks>> PROVE ClaimMap' = ClaimMap /\ BookedMap' = BookedMap
  BY <1>1 DEF ClaimMap, BookedMap, Tokens
<1>2. CASE Preview
  <2>1. ASSUME NEW u, NEW b, NEW items, CreateConfirmation(u, b, items), tasks' = tasks
        PROVE  Book!BookNext
    <3>1. PICK row : /\ rows' = Append(rows, row) /\ row.status = "pending"
      BY <2>1 DEF CreateConfirmation
    <3> QED BY <2>1, <3>1, OfferStep
  <2>2. ASSUME NEW u, RecordRejectedPreview(u) PROVE Book!BookNext
    <3>1. PICK row : /\ rows' = Append(rows, row) /\ row.status = "rejected"
      BY <2>2 DEF RecordRejectedPreview
    <3> QED BY <2>2, <3>1, OfferStep DEF RecordRejectedPreview
  <2> QED BY <1>2, <2>1, <2>2 DEF Preview, PreviewOne, PreviewBatch
<1>3. ASSUME NEW w \in Workers, CreateChild(w) PROVE Book!BookNext
  <2>1. PICK row : /\ rows' = Append(rows, row) /\ row.status = "pending"
    BY <1>3 DEF CreateChild, CreateConfirmation
  <2> QED BY <1>3, <2>1, OfferStep DEF CreateChild
<1>4. ASSUME NEW w \in Workers, Start(w) 
      PROVE  Book!BookNext \/ (ClaimMap' = ClaimMap /\ BookedMap' = BookedMap)
  <2>1. PICK u \in Users, t \in Tokens : Confirm(w, u, t)
    BY <1>4, StartClaims
  <2> QED BY <2>1, SettleStep DEF Confirm, ClaimConfirmation, Claimable
<1>5. ASSUME NEW w \in Workers, ClaimChild(w)
      PROVE  Book!BookNext \/ (ClaimMap' = ClaimMap /\ BookedMap' = BookedMap)
  <2>1. wk[w].token \in Tokens
    BY <1>5 DEF ClaimChild, At, ProcessInv, Relies
  <2> QED BY <1>1, <1>5, <2>1, SettleStep DEF ClaimChild, ClaimConfirmation, Claimable
<1>6. ASSUME NEW w \in Workers, FinishConfirmation(w)
      PROVE  Book!BookNext \/ (ClaimMap' = ClaimMap /\ BookedMap' = BookedMap)
  <2>1. wk[w].token \in Tokens /\ rows[wk[w].token].status = "processing"
    BY <1>6, HeldRows DEF FinishConfirmation, ItemSteps
  <2>2. Written(wk[w].token) <=> At(w, "queued")
    BY <1>6 DEF FinishConfirmation, At, ItemSteps, ProcessInv, Relies
  <2>3. FinishedAs(At(w, "queued")) = IF Written(wk[w].token) THEN "completed" ELSE "pending"
    BY <2>2 DEF FinishedAs
  <2>4. FinishedAs(At(w, "queued")) \in {"pending", "processing", "completed"}
    BY DEF FinishedAs
  <2> QED BY <1>6, <2>1, <2>3, <2>4, SettleStep DEF FinishConfirmation
<1>7. ASSUME NEW w \in Workers, FinishBatch(w)
      PROVE  Book!BookNext \/ (ClaimMap' = ClaimMap /\ BookedMap' = BookedMap)
  <2>1. wk[w].batch \in Tokens /\ rows[wk[w].batch].status = "processing" /\ rows[wk[w].batch].batch
    BY <1>7, HeldRows DEF FinishBatch, At, ProcessInv, Relies
  <2>2. FinishedAs(wk[w].queued > 0) \in {"pending", "processing", "completed"}
    BY DEF FinishedAs
  <2> QED BY <1>7, <2>1, <2>2, SettleStep DEF FinishBatch
<1>8. ASSUME NEW w \in Workers, StoreApproval(w) \/ ExecutePrice(w) \/ RejectBatch(w) \/ Crash(w)
      PROVE  ClaimMap' = ClaimMap /\ BookedMap' = BookedMap
  BY <1>1, <1>8 DEF StoreApproval, ExecutePrice, RejectBatch, Crash
<1>9. CASE Expire \/ UNCHANGED vars
  BY <1>1, <1>9 DEF Expire, vars
<1> QED
  BY <1>2, <1>3, <1>4, <1>5, <1>6, <1>7, <1>8, <1>9, WriteStep, ObserveStep DEF Next, Step

(* Price confirmation implements its contract: for a single price, nobody  *)
(* writes without holding its token, no token writes twice, and a token    *)
(* is spent exactly if its task was written.                               *)
THEOREM ImplementsPriceOutbox == Spec => PriceContract
<1>1. Init => Book!BookInit
  BY DEF Init, Book!BookInit, Tokens
<1>2. SafetyInv /\ [Next]_vars => [Book!BookNext]_(Book!bookVars)
  BY BookStep DEF Book!bookVars, ClaimMap, BookedMap
<1> QED BY <1>1, <1>2, Safety, PTL DEF Spec, PriceContract, Book!BookSpec

=============================================================================
