----------------------------- MODULE CommandMenu -----------------------------
(***************************************************************************)
(* The numbered command menu of a chat.  A member opens a menu, which      *)
(* cancels the one that member had open, and picks a command by replying   *)
(* with its number within five minutes.  Each message is served by a       *)
(* process that reads the menu, decides, updates the row by its id in a    *)
(* transaction of its own and only then routes the command, so replies of  *)
(* one member overlap, and a process may die in between.                   *)
(***************************************************************************)
EXTENDS Naturals, Sequences, FiniteSetsExt

CONSTANTS
    Members,     \* people who open menus in the chat
    MaxMenus,    \* bound: menus opened
    MaxReplies,  \* bound: messages that answer or cancel a menu
    MaxLapsed    \* bound: menus that outlive MENU_TTL_MINUTES or their contract

VARIABLES
    menus,    \* table command_menus in the order of creation
    lapsed,   \* the menus up to this one are past expires_at
    old,      \* the menus up to this one have an older MENU_CONTRACT_VERSION
    replies   \* the messages: what their process read and does next

vars == <<menus, lapsed, old, replies>>

Closed == {"cancelled", "expired", "executed"}
Menu == [owner: Members, status: {"active"} \cup Closed]
Replies == 1..MaxReplies

Reply == [pc: {"new", "update", "route", "done"},
          menu: 0..MaxMenus,        \* the menu it read, 0 for none
          to: Closed \cup {"none"}, \* the status it gives it
          ran: BOOLEAN,             \* history: its command was routed,
          opened: 0..MaxMenus,      \* the menus there were when it read,
          after: SUBSET Replies]   \* and the messages that had updated by then

NewReply == [pc |-> "new", menu |-> 0, to |-> "none", ran |-> FALSE, opened |-> 0, after |-> {}]

(* command_menu_start: cancels and inserts in one transaction.             *)
CancelOpen(p) ==
    [i \in DOMAIN menus |->
       IF menus[i] = [owner |-> p, status |-> "active"]
       THEN [menus[i] EXCEPT !.status = "cancelled"] ELSE menus[i]]

Start(p) ==
    /\ Len(menus) < MaxMenus
    /\ menus' = Append(CancelOpen(p), [owner |-> p, status |-> "active"])
    /\ UNCHANGED <<lapsed, old, replies>>

(* _latest_menu_for_owner                                                  *)
AnyOf(p) == {i \in DOMAIN menus : menus[i].owner = p}
OpenOf(p) == {i \in DOMAIN menus : menus[i] = [owner |-> p, status |-> "active"]}

Updated == {r \in Replies : replies[r].to # "none" /\ replies[r].pc # "update"}

Served(r, i, to) ==
    replies' = [replies EXCEPT ![r] =
        [NewReply EXCEPT !.pc = IF to = "none" THEN "done" ELSE "update",
                         !.menu = i, !.to = to, !.opened = Len(menus), !.after = Updated]]

Turn(r) == replies[r].pc = "new" /\ \A s \in 1..(r-1) : replies[s].pc # "new"

(* command_menu_reply up to its update.  A number that is unknown, or that *)
(* the role of the member does not permit, leaves the menu open.           *)
Answer(r, p) ==
    /\ Turn(r) /\ OpenOf(p) # {}
    /\ LET i == Max(OpenOf(p)) IN
         \/ i <= lapsed /\ Served(r, i, "expired")
         \/ i > lapsed /\ i <= old /\ Served(r, i, "cancelled")
         \/ i > lapsed /\ i > old /\ \E to \in {"cancelled", "executed", "none"} : Served(r, i, to)
    /\ UNCHANGED <<menus, lapsed, old>>

(* command_menu_cancel                                                     *)
Cancel(r, p) ==
    /\ Turn(r) /\ OpenOf(p) # {}
    /\ Served(r, Max(OpenOf(p)), "cancelled")
    /\ UNCHANGED <<menus, lapsed, old>>

(* There is no open menu: nothing is done, whoever owns another one.       *)
Refuse(r, p) ==
    /\ Turn(r) /\ OpenOf(p) = {}
    /\ Served(r, 0, "none")
    /\ UNCHANGED <<menus, lapsed, old>>

(* _update_menu: by the id, whatever the status is by now.                 *)
UpdateMenu(r) ==
    /\ replies[r].pc = "update"
    /\ menus' = [menus EXCEPT ![replies[r].menu].status = replies[r].to]
    /\ replies' = [replies EXCEPT ![r].pc = IF replies[r].to = "executed" THEN "route" ELSE "done"]
    /\ UNCHANGED <<lapsed, old>>

RouteSelected(r) ==
    /\ replies[r].pc = "route"
    /\ replies' = [replies EXCEPT ![r].pc = "done", ![r].ran = TRUE]
    /\ UNCHANGED <<menus, lapsed, old>>

Die(r) ==
    /\ replies[r].pc \in {"update", "route"}
    /\ replies' = [replies EXCEPT ![r].pc = "done",
                                  ![r].to = IF replies[r].pc = "update" THEN "none" ELSE @]
    /\ UNCHANGED <<menus, lapsed, old>>

Lapse ==
    /\ lapsed < Len(menus) /\ lapsed < MaxLapsed
    /\ lapsed' = lapsed + 1 /\ UNCHANGED <<menus, old, replies>>

Upgrade ==
    /\ old < Len(menus) /\ old < MaxLapsed
    /\ old' = Len(menus) /\ UNCHANGED <<menus, lapsed, replies>>

Init ==
    /\ menus = <<>> /\ lapsed = 0 /\ old = 0
    /\ replies = [r \in Replies |-> NewReply]

Next ==
    \/ \E p \in Members : Start(p)
    \/ \E r \in Replies, p \in Members : Answer(r, p) \/ Cancel(r, p) \/ Refuse(r, p)
    \/ \E r \in Replies : UpdateMenu(r) \/ RouteSelected(r) \/ Die(r)
    \/ Lapse \/ Upgrade

Spec == Init /\ [][Next]_vars

TypeOK ==
    /\ menus \in Seq(Menu) /\ lapsed \in 0..MaxMenus /\ old \in 0..MaxMenus
    /\ replies \in [Replies -> Reply]

(* A command runs only from the last menu its member had opened, and only  *)
(* if no message before it had closed that menu: the update does not look  *)
(* at the status, so two replies run one menu twice, or one runs what the  *)
(* other cancelled, exactly if both read it before either updated.  A menu *)
(* whose command ran is not open.                                          *)
MenusRunOnce ==
    \A r \in Replies : replies[r].ran =>
        LET i == replies[r].menu IN
        /\ menus[i].status \in Closed
        /\ \A j \in (i+1)..replies[r].opened : menus[j].owner # menus[i].owner
        /\ \A s \in replies[r].after : replies[s].menu # i
=============================================================================
