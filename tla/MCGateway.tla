------------------------------ MODULE MCGateway ------------------------------
(* What a chat talks to, in one run: the gateway (EXTENDS), the sync of its *)
(* conversation bindings, the command menu, the diagnosis conversation and *)
(* the business calendar.                                                  *)
(* They share no state here, so a behaviour is one of the service in focus *)
(* while the others stay where they begin.                                 *)
EXTENDS MCFeishuIngress

CONSTANTS
    Accounts, BoundChats, MaxEdits,            \* binding sync: bot accounts, the chats bound
    MaxMenus, MaxReplies, MaxLapsed,           \* command menu
    Clicks, SourceOf, MaxJobs, MaxEvents,      \* diagnosis: buttons and their source
    Dates, Tags, Providers, Workers,           \* calendar
    d1                                         \* the button of the instance

(* What the services assume of their constants.                            *)
ASSUME ServicesAssumption ==
    /\ "other" \notin Hotels /\ MaxEdits \in Nat
    /\ MaxMenus \in Nat /\ MaxReplies \in Nat /\ MaxLapsed \in Nat
    /\ SourceOf \in [Clicks -> {"database", "excel"}] /\ MaxJobs \in Nat /\ MaxEvents \in Nat

VARIABLES
    focus,                                                    \* the service that runs
    map, tables, records, sync, held, lost, past, edits,      \* binding sync
    menus, lapsed, old, replies,                              \* command menu
    flow, excel, clicked, jobs, excuse, kept, lapses,         \* diagnosis
    tag, source, cache, wk, last, disturbed                   \* calendar

Sync == INSTANCE BindingSync WITH Chats <- BoundChats, MaxChanges <- MaxEdits, changes <- edits
Menu == INSTANCE CommandMenu WITH Members <- People
S14 == INSTANCE S14DiagnosisProofs WITH seen <- clicked, past <- lapses   \* S14Diagnosis and its theorems
Cal == INSTANCE BusinessCalendar

(* For the instance: a button that starts a run on the database.           *)
Buttons == d1 :> "database"

bindings == <<map, tables, records, sync, held, lost, past, edits>>
menu == <<menus, lapsed, old, replies>>
s14 == <<flow, excel, clicked, jobs, excuse, kept, lapses>>
calendar == <<tag, source, cache, wk, last, disturbed>>
allvars == <<focus, vars, bindings, menu, s14, calendar>>

AllInit ==
    /\ focus \in {"gateway", "sync", "menu", "s14", "calendar"}
    /\ Init /\ Sync!Init /\ Menu!Init /\ S14!Init /\ Cal!Init

InGateway(A) == focus = "gateway" /\ A /\ UNCHANGED <<focus, bindings, menu, s14, calendar>>
InSync(A) == focus = "sync" /\ A /\ UNCHANGED <<focus, vars, menu, s14, calendar>>
InMenu(A) == focus = "menu" /\ A /\ UNCHANGED <<focus, vars, bindings, s14, calendar>>
InS14(A) == focus = "s14" /\ A /\ UNCHANGED <<focus, vars, bindings, menu, calendar>>
InCalendar(A) == focus = "calendar" /\ A /\ UNCHANGED <<focus, vars, bindings, menu, s14>>

AllNext ==
    \/ InGateway(Next) \/ InSync(Sync!Next) \/ InMenu(Menu!Next) \/ InS14(S14!Next)
    \/ InCalendar(Cal!Next)

AllSpec == AllInit /\ [][AllNext]_allvars

(* The type invariants of the five services.                               *)
TypesOK ==
    CASE focus = "gateway" -> TypeOK
      [] focus = "sync" -> Sync!TypeOK
      [] focus = "menu" -> Menu!TypeOK
      [] focus = "s14" -> S14!TypeOK
      [] focus = "calendar" -> Cal!TypeOK

(* A binding sync binds every chat it should and no other (BindingSync).   *)
RecordsFollowBindings == Sync!RecordsFollowBindings

(* A reply runs the command of its menu once (CommandMenu).                *)
MenusRunOnce == Menu!MenusRunOnce

(* A click on a card runs at most once within the memory of the callback   *)
(* server (S14Diagnosis).                                                  *)
ClicksRunOnce == S14!ClicksRunOnce

(* A file sent after Excel was chosen is taken (S14Diagnosis).             *)
UploadsAreTaken == S14!UploadsAreTaken

(* Manual tags stand unless another process was rebuilding the year, and a *)
(* day that names a provider is the cached one (BusinessCalendar).         *)
DaysAreExplained == Cal!DaysAreExplained

(* The doc: later syncs of the calendar keep the manual tags.              *)
TagsAreKept == Cal!TagsAreKept
=============================================================================
