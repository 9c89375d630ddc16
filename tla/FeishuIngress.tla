---------------------------- MODULE FeishuIngress ----------------------------
(***************************************************************************)
(* A message that pauses or resumes a promotion (S11), from the gateway of *)
(* the Feishu bots to the task table of the hotel.  The handler of the     *)
(* authorization plugin asks its memory for duplicates, looks up the       *)
(* members of the chat, and has a child process route the message.  The    *)
(* child reads the binding and the rank of the sender from SQLite, every   *)
(* SELECT a transaction of its own, looks up the promotion, and inserts a  *)
(* pending task.  Deliveries of a message may overlap, the gateway may     *)
(* kill a child that takes too long or be restarted, and the control plane *)
(* changes bindings and ranks in between.                                  *)
(***************************************************************************)
EXTENDS Naturals, Sequences, FiniteSets

CONSTANTS
    Hotels, Chats, People,
    Admins,          \* global administrators
    Messages,
    Mail,            \* of each message: bot (the hotel of the account that received it),
                     \* chat, group, sender, and the promotion (launch) it names
    Listed,          \* of each hotel: its promotions in the newest snapshot
    InitialBinding,  \* of each chat: its hotel, or None
    InitialRank,     \* of each person: the role in each hotel, or "none"
    MaxDeliveries,   \* bound: deliveries, of one message or of several
    MaxChanges,      \* bound: changes of a binding or a rank
    MaxForgets,      \* bound: restarts of the gateway and entries that outlive their TTL
    None             \* no hotel, no sender, nothing yet

(* The roles that S11 tells apart: "operator" stands for operator and      *)
(* frontdesk, "none" for no membership or a revoked one.                   *)
Ranks == {"admin", "owner", "operator", "none"}

ASSUME PeopleAssumption ==
    /\ None \notin Hotels /\ None \notin People /\ Admins \subseteq People
    /\ None \notin {"duplicate", "invalid", "failure", "blocked", "created"}
    /\ InitialBinding \in [Chats -> Hotels \cup {None}]
    /\ InitialRank \in [People -> [Hotels -> Ranks \ {"admin"}]]
ASSUME MailAssumption ==
    /\ \A m \in Messages :
          /\ Mail[m].bot \in Hotels \cup {None} /\ Mail[m].chat \in Chats
          /\ Mail[m].group \in BOOLEAN /\ Mail[m].sender \in People \cup {None}
    /\ MaxDeliveries \in Nat /\ MaxChanges \in Nat /\ MaxForgets \in Nat

VARIABLES
    binding,   \* chat_bindings and group_chat_bindings: the active hotel of a chat
    rank,      \* hotel_memberships: the active role of a person in a hotel
    seen,      \* createMemoryDedupe: the messages remembered
    del,       \* the deliveries: handler, child process and history
    tasks,     \* ota_promotion_control_task in the order of insertion
    settled,   \* history: deliveries answered by the runtime and not forgotten since
    changes,   \* changes of a binding or a rank so far
    forgets    \* restarts and lapsed entries so far

vars == <<binding, rank, seen, del, tasks, settled, changes, forgets>>

Deliveries == 1..MaxDeliveries
Of(d) == Mail[del[d].msg]

Steps == {"scope", "binding", "rank", "source", "insert"}    \* of a child under way

Delivery == [msg: Messages \cup {None},
             gw: {"new", "member", "waiting", "answered", "lost"},
             reply: {None, "duplicate", "invalid", "failure", "blocked", "created"},
             job: {"none", "exited", "dead"} \cup Steps,
             hotel: Hotels \cup {None},
             verdict: {None, "blocked", "created"},
             after: SUBSET Deliveries,            \* history: what was settled on arrival,
             bound: SUBSET (Hotels \cup {None}),  \* the bindings of the chat since then,
             held: SUBSET (Hotels \X Ranks)]      \* and the ranks of the sender

Task == [delivery: Deliveries, hotel: Hotels]

New == [msg |-> None, gw |-> "new", reply |-> None, job |-> "none", hotel |-> None, verdict |-> None,
        after |-> {}, bound |-> {}, held |-> {}]

RankOf(p, h) == IF p \in Admins THEN "admin" ELSE rank[p][h]
RanksOf(p) == {<<h, RankOf(p, h)>> : h \in Hotels}

(* permission_gate for approve_live_action, and what its mutants allow     *)
StaffApproves(r) == r \in {"admin", "owner", "operator"}
Approves(r) == r \in {"admin", "owner"}

(***************************************************************************)
(* The handler of the gateway                                              *)
(***************************************************************************)
Reply(d, text) == [del[d] EXCEPT !.gw = "answered", !.reply = text]

Turn(d) == del[d].gw = "new" /\ \A e \in Deliveries : e < d => del[e].gw # "new"

Arrival(m) == [New EXCEPT !.msg = m]
Told(m, text) == [Arrival(m) EXCEPT !.gw = "answered", !.reply = text]
TakenUp(m) ==
    [Arrival(m) EXCEPT !.gw = "member",
                       !.after = {e \in settled : del[e].msg = m},
                       !.bound = {binding[Mail[m].chat]},
                       !.held = RanksOf(Mail[m].sender)]

Receive(d, m) ==
    /\ Turn(d)
    /\ \/ m \in seen /\ del' = [del EXCEPT ![d] = Told(m, "duplicate")] /\ UNCHANGED seen
       \/ /\ m \notin seen /\ Mail[m].sender = None
          /\ del' = [del EXCEPT ![d] = Told(m, "invalid")] /\ seen' = seen \cup {m}
       \/ /\ m \notin seen /\ Mail[m].sender # None
          /\ del' = [del EXCEPT ![d] = TakenUp(m)] /\ UNCHANGED seen
    /\ UNCHANGED <<binding, rank, tasks, settled, changes, forgets>>

(* memberInfo has returned, with the members or with nothing.              *)
StartRoute(d) ==
    /\ del[d].gw = "member"
    /\ del' = [del EXCEPT ![d].gw = "waiting", ![d].job = "scope"]
    /\ UNCHANGED <<binding, rank, seen, tasks, settled, changes, forgets>>

(* The message is remembered once it was routed, also if the renderer      *)
(* withholds the reply (send_allowed) and the sender gets the answer for   *)
(* failures instead.                                                       *)
NotRemembered(d) == seen
Remembered(d) == seen \cup {del[d].msg}

Answer(d) ==
    /\ del[d].gw = "waiting" /\ del[d].job = "exited"
    /\ \E text \in {del[d].verdict, "failure"} : del' = [del EXCEPT ![d] = Reply(d, text)]
    /\ seen' = Remembered(d)
    /\ settled' = settled \cup {d}
    /\ UNCHANGED <<binding, rank, tasks, changes, forgets>>

(* execFile kills the child after 90 s, the child dies, or its output is   *)
(* not understood: the sender gets the answer for failures, and the        *)
(* message is not remembered.                                              *)
TimesOutEarly(d) == del[d].job # "insert"
TimesOut(d) == TRUE
SeenAfterFailure(d) == seen \cup {del[d].msg}
UnseenAfterFailure(d) == seen

RouteFails(d) ==
    /\ del[d].gw = "waiting" /\ TimesOut(d)
    /\ del' = [del EXCEPT ![d] = [Reply(d, "failure") EXCEPT !.job = "dead"]]
    /\ seen' = UnseenAfterFailure(d)
    /\ UNCHANGED <<binding, rank, tasks, settled, changes, forgets>>

(* An entry of the memory outlives HOTEL_OTA_FEISHU_DEDUPE_TTL_MS.         *)
Expire(m) ==
    /\ forgets < MaxForgets /\ m \in seen
    /\ seen' = seen \ {m}
    /\ settled' = {e \in settled : del[e].msg # m}
    /\ forgets' = forgets + 1
    /\ UNCHANGED <<binding, rank, del, tasks, changes>>

(* Handlers and memory are gone; a child that runs may run to its end.     *)
Restart ==
    /\ forgets < MaxForgets
    /\ \E d \in Deliveries : del[d].gw # "new"
    /\ seen' = {} /\ settled' = {}
    /\ del' = [d \in Deliveries |->
                 IF del[d].gw \in {"member", "waiting"} THEN [del[d] EXCEPT !.gw = "lost"] ELSE del[d]]
    /\ forgets' = forgets + 1
    /\ UNCHANGED <<binding, rank, tasks, changes>>

(***************************************************************************)
(* The child: safe_route_feishu_command and the route of S11               *)
(***************************************************************************)
SilentExit(d, v) == [del[d] EXCEPT !.job = "exited"]
Exit(d, v) == [del[d] EXCEPT !.job = "exited", !.verdict = v]
Go(d, step) == [del[d] EXCEPT !.job = step]
OnlyJob == UNCHANGED <<binding, rank, seen, tasks, settled, changes, forgets>>

(* The account must serve a hotel, and a group must be bound to it.        *)
InScope(d) == Of(d).bot # None /\ (Of(d).group => binding[Of(d).chat] = Of(d).bot)

CheckScope(d) ==
    /\ del[d].job = "scope"
    /\ \/ InScope(d) /\ del' = [del EXCEPT ![d] = Go(d, "binding")]
       \/ del' = [del EXCEPT ![d] = Exit(d, "blocked")]   \* out of scope, or SQLite unavailable
    /\ OnlyJob

(* _sqlite_auth_context.  While SQLite is unavailable only a global        *)
(* administrator of the JSON role map may read, and nobody may approve.    *)
ReadBinding(d) ==
    /\ del[d].job = "binding"
    /\ \/ /\ binding[Of(d).chat] # None
          /\ del' = [del EXCEPT ![d] = [Go(d, "rank") EXCEPT !.hotel = binding[Of(d).chat]]]
       \/ del' = [del EXCEPT ![d] = Exit(d, "blocked")]
    /\ OnlyJob

ReadRank(d) ==
    /\ del[d].job = "rank"
    /\ \/ Approves(RankOf(Of(d).sender, del[d].hotel)) /\ del' = [del EXCEPT ![d] = Go(d, "source")]
       \/ del' = [del EXCEPT ![d] = Exit(d, "blocked")]
    /\ OnlyJob

(* resolve_unique_launch: the message names one promotion of the hotel.    *)
Resolves(d) == Of(d).launch \in Listed[del[d].hotel]

ReadSource(d) ==
    /\ del[d].job = "source"
    /\ \/ Resolves(d) /\ del' = [del EXCEPT ![d] = Go(d, "insert")]
       \/ del' = [del EXCEPT ![d] = Exit(d, "blocked")]
    /\ OnlyJob

(* _write_pending_task: what fails may have failed before or after the     *)
(* commit, and the answer is then that no task was created.                *)
TaskHotel(d) == del[d].hotel
InsertTask(d) ==
    /\ del[d].job = "insert"
    /\ \/ /\ tasks' = Append(tasks, [delivery |-> d, hotel |-> TaskHotel(d)])
          /\ \E v \in {"created", "blocked"} : del' = [del EXCEPT ![d] = Exit(d, v)]
       \/ UNCHANGED tasks /\ del' = [del EXCEPT ![d] = Exit(d, "blocked")]
    /\ UNCHANGED <<binding, rank, seen, settled, changes, forgets>>

(***************************************************************************)
(* The control plane and auth-bootstrap-sync, each a transaction           *)
(***************************************************************************)
Witnessed(b, r) ==
    [d \in Deliveries |->
       IF del[d].gw = "member" \/ del[d].job \in Steps
       THEN [del[d] EXCEPT !.bound = @ \cup {b[Of(d).chat]},
                           !.held = @ \cup {<<h, r[Of(d).sender][h]>> :
                                               h \in {g \in Hotels : Of(d).sender \notin Admins}}]
       ELSE del[d]]

Change(b, r) ==
    /\ changes < MaxChanges /\ <<b, r>> # <<binding, rank>>
    /\ binding' = b /\ rank' = r
    /\ del' = Witnessed(b, r)
    /\ changes' = changes + 1
    /\ UNCHANGED <<seen, tasks, settled, forgets>>

Bind(c, h) == Change([binding EXCEPT ![c] = h], rank)
SetRank(p, h, r) == Change(binding, [rank EXCEPT ![p][h] = r])

(* Every entry of the role map is active again; others are left alone.     *)
Bootstrap ==
    Change([c \in Chats |-> IF InitialBinding[c] = None THEN binding[c] ELSE InitialBinding[c]],
           [p \in People |-> [h \in Hotels |->
               IF InitialRank[p][h] = "none" THEN rank[p][h] ELSE InitialRank[p][h]]])

(***************************************************************************)
(* Specification                                                           *)
(***************************************************************************)
Init ==
    /\ binding = InitialBinding /\ rank = InitialRank
    /\ seen = {} /\ tasks = <<>> /\ settled = {} /\ changes = 0 /\ forgets = 0
    /\ del = [d \in Deliveries |-> New]

Handle(d) == (\E m \in Messages : Receive(d, m)) \/ StartRoute(d) \/ Answer(d) \/ RouteFails(d)
Run(d) == CheckScope(d) \/ ReadBinding(d) \/ ReadRank(d) \/ ReadSource(d) \/ InsertTask(d)

Next ==
    \/ \E d \in Deliveries : Handle(d) \/ Run(d)
    \/ Restart \/ \E m \in Messages : Expire(m)
    \/ \E c \in Chats, h \in Hotels \cup {None} : Bind(c, h)
    \/ \E p \in People, h \in Hotels, r \in Ranks \ {"admin"} : SetRank(p, h, r)
    \/ Bootstrap

Spec == Init /\ [][Next]_vars

(* The host answers memberInfo, and the timer of execFile goes off: the    *)
(* child itself may hang.                                                  *)
FairSpec ==
    Spec /\ \A d \in Deliveries : WF_vars(StartRoute(d)) /\ WF_vars(Answer(d) \/ RouteFails(d))

(***************************************************************************)
(* Correctness                                                             *)
(***************************************************************************)
TypeOK ==
    /\ binding \in [Chats -> Hotels \cup {None}]
    /\ rank \in [People -> [Hotels -> Ranks \ {"admin"}]]
    /\ seen \subseteq Messages
    /\ del \in [Deliveries -> Delivery]
    /\ \A d \in Deliveries : /\ del[d].gw = "answered" <=> del[d].reply # None
                             /\ del[d].job = "exited" => del[d].verdict # None
    /\ tasks \in Seq(Task)
    /\ settled \subseteq Deliveries
    /\ changes \in 0..MaxChanges /\ forgets \in 0..MaxForgets

(* The table has no key that would refuse a second task, so the memory of  *)
(* the gateway is all there is: a message makes a second task only if the  *)
(* delivery that made the first was not answered by the runtime when the   *)
(* second arrived, or was forgotten by a restart or after the TTL.         *)
RepeatsAreExplained ==
    \A i, j \in DOMAIN tasks :
        LET d == tasks[i].delivery
            e == tasks[j].delivery
        IN  i # j => d # e /\ (del[d].msg = del[e].msg => d \notin del[e].after /\ e \notin del[d].after)

(* A task is for a hotel the chat was bound to while the message was       *)
(* served, and its sender was owner of that hotel, or administrator, in    *)
(* that time, though perhaps not at once.  For a group it was also bound   *)
(* to the hotel of the bot, and it is that hotel unless it was bound anew. *)
TasksAreAuthorized ==
    \A i \in DOMAIN tasks :
        LET d == tasks[i].delivery
            h == tasks[i].hotel
        IN  /\ h \in del[d].bound
            /\ \E r \in {"owner", "admin"} : <<h, r>> \in del[d].held
            /\ Of(d).group => Of(d).bot \in del[d].bound
            /\ Of(d).launch \in Listed[h]

(* An answer that a task was created has its task, and "see the previous   *)
(* reply" is sent only when there was one: another delivery was answered,  *)
(* and its child had routed it, so that it may be the answer for failures  *)
(* only where the reply was withheld; or it was refused unread.            *)
Routed(e) == del[e].gw = "answered" /\ del[e].job = "exited"
RepliesAreTrue ==
    \A d \in Deliveries :
        /\ del[d].reply = "created" => \E i \in DOMAIN tasks : tasks[i].delivery = d
        /\ del[d].reply = "duplicate" =>
              \E e \in Deliveries : /\ del[e].msg = del[d].msg /\ e # d
                                    /\ Routed(e) \/ del[e].reply = "invalid"

(* A message that was taken up is answered, unless the gateway restarts.   *)
MessagesAreAnswered ==
    \A d \in Deliveries :
        del[d].gw \in {"member", "waiting"} ~> del[d].gw \in {"answered", "lost"}
=============================================================================
