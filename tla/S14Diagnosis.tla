---------------------------- MODULE S14Diagnosis ----------------------------
(***************************************************************************)
(* The conversation about a diagnosis report (S14) of one person in one    *)
(* group chat.  The person chooses the source of the data by a card, which *)
(* the callback service takes, or by a message, which a process of its own *)
(* takes; sends an Excel file, or names of room types.  They share the     *)
(* state file of the person and the last file of the chat.  The callback   *)
(* service remembers clicks in memory and runs them on two threads.  A     *)
(* write of the state file is one step.                                    *)
(***************************************************************************)
EXTENDS Naturals, FiniteSets

CONSTANTS
    Clicks,       \* buttons of the cards that were sent: message and source
    SourceOf,     \* the source of each button
    MaxJobs,      \* bound: clicks and messages
    MaxEvents,    \* bound: restarts and lapses
    None          \* no button

VARIABLES
    flow,     \* s14_flow_*.json: the state in it, or "none"
    excel,    \* s14_last_excel_*.json: whether there is a file to reuse
    seen,     \* CardCallbackController._seen
    jobs,     \* clicks and messages in the order of arrival
    excuse,   \* history: why an upload need not be taken, and the messages
              \* under way when Excel was chosen
    kept,     \* history: the clicks taken and not forgotten since
    past      \* restarts and lapses so far

vars == <<flow, excel, seen, jobs, excuse, kept, past>>

States == {"manual_ready", "awaiting_source", "running_database", "awaiting_excel"}
Jobs == 1..MaxJobs
Kinds == {"click", "choice", "upload", "reuse", "names"}

Job == [kind: Kinds \cup {"none"},
        click: Clicks \cup {None},
        source: {"database", "excel", "none"},
        pc: {"new", "queued", "choose", "save", "write", "run", "clear", "fail",
             "send", "done", "lost"},
        was: States \cup {"none"},            \* the state that a message with names read
        reply: {"none", "duplicate", "refused", "waiting", "noted", "report", "failed"},
        excused: BOOLEAN,                     \* history: excuse.now when it read,
        after: SUBSET Jobs]                   \* and the clicks of the button kept then

NewJob == [kind |-> "none", click |-> None, source |-> "none", pc |-> "new", was |-> "none",
           reply |-> "none", excused |-> TRUE, after |-> {}]

UnderWay(j) == jobs[j].pc \notin {"new", "done", "lost"}
Turn(j) == jobs[j].pc = "new" /\ \A i \in 1..(j-1) : jobs[i].pc # "new"
Arrival(k, s, c, step) ==
    [NewJob EXCEPT !.kind = k, !.source = s, !.click = c, !.pc = step,
                   !.excused = excuse.now,
                   !.after = {i \in kept : jobs[i].click = c}]

(* The sender did something else, or what was under way ended.             *)
Excused == [excuse EXCEPT !.now = TRUE]
Chosen(j) == [now |-> FALSE, early |-> {i \in Jobs \ {j} : UnderWay(i)}]
EndOf(j) == IF j \in excuse.early THEN Excused ELSE excuse

(***************************************************************************)
(* The callback service                                                    *)
(***************************************************************************)
NoMemory(c) == seen
Remember(c) == seen \cup {c}

(* accept: looks and remembers under one lock, and only then submits.      *)
Accept(j, c) ==
    /\ Turn(j)
    /\ \/ /\ c \in seen
          /\ jobs' = [jobs EXCEPT ![j] = [Arrival("click", SourceOf[c], c, "done")
                                             EXCEPT !.reply = "duplicate"]]
          /\ UNCHANGED <<seen, excuse, kept>>
       \/ /\ c \notin seen
          /\ jobs' = [jobs EXCEPT ![j] = Arrival("click", SourceOf[c], c, "queued")]
          /\ seen' = Remember(c) /\ excuse' = Excused /\ kept' = kept \cup {j}
    /\ UNCHANGED <<flow, excel, past>>

StartJob(j) ==
    /\ jobs[j].pc = "queued"
    /\ Cardinality({i \in Jobs : jobs[i].kind = "click" /\ UnderWay(i) /\ jobs[i].pc # "queued"}) < 2
    /\ jobs' = [jobs EXCEPT ![j].pc = "choose"]
    /\ UNCHANGED <<flow, excel, seen, excuse, kept, past>>

(***************************************************************************)
(* The processes of messages: main                                         *)
(***************************************************************************)
Choice(j, s) ==   \* from the answer to the card, or --source-choice
    /\ Turn(j)
    /\ jobs' = [jobs EXCEPT ![j] = Arrival("choice", s, None, "choose")]
    /\ excuse' = Excused
    /\ UNCHANGED <<flow, excel, seen, kept, past>>

Upload(j) ==
    /\ Turn(j)
    /\ jobs' = [jobs EXCEPT ![j] =
                  IF flow = "awaiting_excel" THEN Arrival("upload", "excel", None, "save")
                  ELSE [Arrival("upload", "excel", None, "done") EXCEPT !.reply = "refused"]]
    /\ UNCHANGED <<flow, excel, seen, excuse, kept, past>>

Save(j) ==
    /\ jobs[j].pc = "save"
    /\ excel' = TRUE
    /\ jobs' = [jobs EXCEPT ![j].pc = "run"]
    /\ UNCHANGED <<flow, seen, excuse, kept, past>>

Reuse(j) ==
    /\ Turn(j) /\ excel
    /\ jobs' = [jobs EXCEPT ![j] = Arrival("reuse", "excel", None, "run")]
    /\ UNCHANGED <<flow, excel, seen, excuse, kept, past>>

Names(j) ==
    /\ Turn(j)
    /\ jobs' = [jobs EXCEPT ![j] = [Arrival("names", "none", None, "write") EXCEPT !.was = flow]]
    /\ excuse' = Excused
    /\ UNCHANGED <<flow, excel, seen, kept, past>>

WriteNames(j) ==
    /\ jobs[j].pc = "write"
    /\ flow' = IF jobs[j].was \in {"awaiting_source", "awaiting_excel"} THEN jobs[j].was
               ELSE "manual_ready"
    /\ jobs' = [jobs EXCEPT ![j].pc = "send", ![j].reply = "noted"]
    /\ excuse' = EndOf(j)
    /\ UNCHANGED <<excel, seen, kept, past>>

Trigger ==
    /\ flow' = "awaiting_source" /\ excuse' = Excused
    /\ UNCHANGED <<excel, seen, jobs, kept, past>>

(***************************************************************************)
(* What both do: _handle_source_choice and the run of the diagnosis        *)
(***************************************************************************)
Choose(j) ==
    /\ jobs[j].pc = "choose"
    /\ IF jobs[j].source = "database"
       THEN /\ flow' = "running_database" /\ excuse' = EndOf(j)
            /\ jobs' = [jobs EXCEPT ![j].pc = "run"]
       ELSE /\ flow' = "awaiting_excel" /\ excuse' = Chosen(j)
            /\ jobs' = [jobs EXCEPT ![j].pc = "send", ![j].reply = "waiting"]
    /\ UNCHANGED <<excel, seen, kept, past>>

(* The run fails if the chat is not bound to a hotel, is bound to another  *)
(* one between the two times it looks, or for any other reason.            *)
Run(j) ==
    /\ jobs[j].pc = "run"
    /\ \E end \in {IF jobs[j].kind = "reuse" THEN "send" ELSE "clear", "fail"} :
          jobs' = [jobs EXCEPT ![j].pc = end,
                               ![j].reply = IF end = "fail" THEN @ ELSE "report"]
    /\ UNCHANGED <<flow, excel, seen, excuse, kept, past>>

ClearFlow(j) ==
    /\ jobs[j].pc = "clear"
    /\ flow' = "none"
    /\ jobs' = [jobs EXCEPT ![j].pc = "send"]
    /\ excuse' = IF jobs[j].kind = "upload" THEN Excused ELSE EndOf(j)
    /\ UNCHANGED <<excel, seen, kept, past>>

AlwaysAsksAgain(j) == "awaiting_source"
AfterFailure(j) == IF jobs[j].kind \in {"click", "choice"} THEN "awaiting_source" ELSE flow

FailRun(j) ==
    /\ jobs[j].pc = "fail"
    /\ flow' = AfterFailure(j)
    /\ jobs' = [jobs EXCEPT ![j].pc = "send", ![j].reply = "failed"]
    /\ excuse' = EndOf(j)
    /\ UNCHANGED <<excel, seen, kept, past>>

(* A callback whose answer cannot be sent sends a failure, if it can.      *)
Send(j) ==
    /\ jobs[j].pc = "send"
    /\ \E text \in IF jobs[j].kind = "click" THEN {jobs[j].reply, "failed", "none"}
                   ELSE {jobs[j].reply} :
          jobs' = [jobs EXCEPT ![j].pc = "done", ![j].reply = text]
    /\ UNCHANGED <<flow, excel, seen, excuse, kept, past>>

(***************************************************************************)
(* Restarts and lapses                                                     *)
(***************************************************************************)
Past == past < MaxEvents /\ past' = past + 1

Restart ==
    /\ Past
    /\ seen' = {}
    /\ jobs' = [j \in Jobs |-> IF jobs[j].kind = "click" /\ UnderWay(j)
                               THEN [jobs[j] EXCEPT !.pc = "lost"] ELSE jobs[j]]
    /\ kept' = {}
    /\ UNCHANGED <<flow, excel, excuse>>

ForgetClick(c) ==
    /\ Past /\ c \in seen
    /\ seen' = seen \ {c} /\ kept' = {j \in kept : jobs[j].click # c}
    /\ UNCHANGED <<flow, excel, jobs, excuse>>

LapseFlow ==
    /\ Past /\ flow # "none"
    /\ flow' = "none" /\ excuse' = Excused
    /\ UNCHANGED <<excel, seen, jobs, kept>>

Init ==
    /\ flow = "none" /\ excel = FALSE /\ past = 0 /\ seen = {} /\ kept = {}
    /\ jobs = [j \in Jobs |-> NewJob]
    /\ excuse = [now |-> TRUE, early |-> {}]

Arrive(j) ==
    \/ \E c \in Clicks : Accept(j, c)
    \/ \E s \in {"database", "excel"} : Choice(j, s)
    \/ Upload(j) \/ Reuse(j) \/ Names(j)
Step(j) ==
    \/ StartJob(j) \/ Save(j) \/ WriteNames(j) \/ Choose(j) \/ Run(j)
    \/ ClearFlow(j) \/ FailRun(j) \/ Send(j)

Next ==
    \/ \E j \in Jobs : Arrive(j) \/ Step(j)
    \/ Trigger \/ Restart \/ LapseFlow
    \/ \E c \in Clicks : ForgetClick(c)

Spec == Init /\ [][Next]_vars

TypeOK ==
    /\ flow \in States \cup {"none"} /\ excel \in BOOLEAN
    /\ seen \subseteq Clicks /\ kept \subseteq Jobs /\ jobs \in [Jobs -> Job] /\ past \in 0..MaxEvents
    /\ excuse \in [now: BOOLEAN, early: SUBSET Jobs]

(* A button runs twice only if the service forgot the first click, by a    *)
(* restart or after its TTL, and "it is being processed" is said only if   *)
(* it was processed since: no click is lost and its repetition refused.    *)
ClicksRunOnce ==
    \A j \in Jobs : jobs[j].kind = "click" =>
        IF jobs[j].reply = "duplicate" /\ jobs[j].pc = "done"
        THEN \E i \in jobs[j].after : i < j
        ELSE jobs[j].after = {}

(* Once Excel was chosen a file is taken, again if its report failed,      *)
(* until the state lapses, the sender sends something else, or something   *)
(* that was under way before the choice ends.                              *)
UploadsAreTaken ==
    \A j \in Jobs : jobs[j].kind = "upload" /\ jobs[j].reply = "refused" => jobs[j].excused
=============================================================================
