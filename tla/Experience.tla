----------------------------- MODULE Experience -----------------------------
(***************************************************************************)
(* Experience candidates: a rule that a run proposes is reviewed by a      *)
(* person and promoted to a change request.  A candidate begins in a JSON  *)
(* file.  A command reads it, from the file if it is told to or if the     *)
(* table has no row, else from the table; decides; and writes the whole    *)
(* row.  The row has no column for the data source, the run or the lack of *)
(* incremental value, which a command that reads it therefore misses.      *)
(***************************************************************************)
EXTENDS Naturals, Sequences, FiniteSetsExt

CONSTANTS
    Candidates,   \* candidates of the file, all with status "candidate"
    Demo,         \* those that come from demonstration data
    Worthless,    \* those without incremental value
    Workers,      \* processes serving a command
    MaxWrites     \* bound: commands that write

VARIABLES
    rows,   \* table experience_candidates: the status of each candidate, or "none"
    log,    \* history: the writes of rows, and the newest one each had seen
    wk      \* the processes

vars == <<rows, log, wk>>

Statuses == {"candidate", "approved", "rejected", "promoted"}
Commands == {"approve", "reject", "promote"}
Process == [pc: {"idle", "read"}, command: Commands, candidate: Candidates,
            from: {"file", "table"}, status: Statuses, seen: 0..MaxWrites]

(* list_candidates: one row in the table hides the whole file.             *)
TableIsUsed == \E c \in Candidates : rows[c] # "none"

Found(w, cmd, c, from, status) ==
    wk' = [wk EXCEPT ![w] = [pc |-> "read", command |-> cmd, candidate |-> c, from |-> from,
                             status |-> status, seen |-> Len(log)]]

ReadFile(w, cmd, c) ==    \* --store, or the file of the runtime as the fallback
    /\ wk[w].pc = "idle" /\ Found(w, cmd, c, "file", "candidate")
    /\ UNCHANGED <<rows, log>>

ReadTable(w, cmd, c) ==   \* a candidate without a row is unknown
    /\ wk[w].pc = "idle" /\ TableIsUsed /\ rows[c] # "none"
    /\ Found(w, cmd, c, "table", rows[c])
    /\ UNCHANGED <<rows, log>>

(* validate_candidate: a row lacks source_run_id, so its review rejects.   *)
Valid(p) == p.from = "file"
HasValue(p) == p.from = "table" \/ p.candidate \notin Worthless
ReviewStatus(p) ==
    IF p.command = "approve" /\ Valid(p) /\ HasValue(p) THEN "approved" ELSE "rejected"

UnreviewedPromotable(p) == ~ (p.from = "file" /\ p.candidate \in Demo) /\ HasValue(p)
Promotable(p) ==
    /\ ~ (p.from = "file" /\ p.candidate \in Demo)
    /\ p.status = "approved"
    /\ HasValue(p)

Store(w, status) ==
    /\ Len(log) < MaxWrites
    /\ rows' = [rows EXCEPT ![wk[w].candidate] = status]
    /\ log' = Append(log, [candidate |-> wk[w].candidate, to |-> status, seen |-> wk[w].seen])
    /\ wk' = [wk EXCEPT ![w].pc = "idle"]

Review(w) ==
    /\ wk[w].pc = "read" /\ wk[w].command \in {"approve", "reject"}
    /\ Store(w, ReviewStatus(wk[w]))

Promote(w) ==
    /\ wk[w].pc = "read" /\ wk[w].command = "promote" /\ Promotable(wk[w])
    /\ Store(w, "promoted")

(* A promotion that is blocked, or a process that dies, writes nothing.    *)
End(w) ==
    /\ wk[w].pc = "read"
    /\ wk' = [wk EXCEPT ![w].pc = "idle"]
    /\ UNCHANGED <<rows, log>>

Init ==
    /\ rows = [c \in Candidates |-> "none"] /\ log = <<>>
    /\ wk \in [Workers -> {[pc |-> "idle", command |-> "reject", candidate |-> c, from |-> "file",
                            status |-> "candidate", seen |-> 0] : c \in {CHOOSE c \in Candidates : TRUE}}]

Next ==
    \E w \in Workers :
        \/ \E cmd \in Commands, c \in Candidates : ReadFile(w, cmd, c) \/ ReadTable(w, cmd, c)
        \/ Review(w) \/ Promote(w) \/ End(w)

Spec == Init /\ [][Next]_vars

TypeOK ==
    /\ rows \in [Candidates -> Statuses \cup {"none"}]
    /\ log \in Seq([candidate: Candidates, to: Statuses, seen: 0..MaxWrites])
    /\ wk \in [Workers -> Process]

(* A promotion rests on the newest decision its command could read, which  *)
(* was an approval: it overrides a rejection, or repeats a promotion, only *)
(* if that was written between its read and its write.                     *)
WritesSeen(i) == {j \in 1..log[i].seen : log[j].candidate = log[i].candidate}
PromotionsAreApproved ==
    \A i \in DOMAIN log : log[i].to = "promoted" =>
        WritesSeen(i) # {} /\ log[Max(WritesSeen(i))].to = "approved"

(* "demo data cannot promote directly"                                     *)
DemoIsNotPromoted == \A c \in Demo : rows[c] # "promoted"
=============================================================================
