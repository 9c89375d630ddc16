---------------------------- MODULE ControlPlane ----------------------------
(***************************************************************************)
(* The control plane of hotel-ota-ai: requests to change price guards,     *)
(* roles and chat bindings, formal price approvals, and the audit chain.   *)
(* A change is requested by one message and confirmed or cancelled by      *)
(* another.  Each message is served by a process of its own (a member of   *)
(* Workers): it reads the request, decides, and writes in one transaction. *)
(* SQLite runs every SELECT before the first INSERT or UPDATE as a         *)
(* transaction of its own, so others write between what a process reads    *)
(* and what it writes.  One hotel, one group chat and one room type.       *)
(***************************************************************************)
EXTENDS Naturals, Sequences, FiniteSetsExt

CONSTANTS
    Users,         \* principals known to the hotel
    Admins,        \* global administrators
    InitialRole,   \* the hotel role of each user at the start, or "none"
    InitialBound,  \* whether the chat is bound to the hotel at the start
    InitialGuard,  \* whether a price guard is in force at the start
    Workers,       \* processes serving a message
    Askers,        \* bound: the users who ask for changes
    Kinds,         \* bound: the kinds of request that are made
    Changes,       \* bound: the role changes asked for, target and new role
    MaxRequests,   \* bound: requests
    MaxEvents,     \* bound: audit events
    MaxLapsed,     \* bound: requests that pass expires_at
    CanCrash,      \* whether a process may die between two transactions
    None           \* nobody, or nothing

Roles == {"owner", "operator", "frontdesk"}

(* "chat": a price guard over chat; "card_policy", "card_role": a card of  *)
(* the administration; "role", "join": a role asked for by an owner or by  *)
(* the person who wants it; "formal": a formal price approval.             *)
CardKinds == {"card_policy", "card_role"}
RoleKinds == {"role", "join"}
BindKinds == {"bind", "unbind"}
AllKinds == {"chat", "formal"} \cup CardKinds \cup RoleKinds \cup BindKinds

(* Asked for by a message of the chat and confirmed by another.            *)
Chat(kind) == kind \in {"chat"} \cup RoleKinds \cup BindKinds

ASSUME UsersAssumption ==
    /\ Admins \subseteq Users /\ None \notin Users
    /\ InitialRole \in [Users -> Roles \cup {"none"}] /\ InitialBound \in BOOLEAN
    /\ InitialGuard \in BOOLEAN
ASSUME BoundsAssumption ==
    /\ Kinds \subseteq AllKinds /\ Askers \subseteq Users
    /\ Changes \subseteq [target: Users \ Admins, role: Roles \cup {"none"}]
    /\ MaxRequests \in Nat /\ MaxEvents \in Nat /\ MaxLapsed \in Nat /\ CanCrash \in BOOLEAN

VARIABLES
    requests,   \* the three request tables and approvals, in the order of creation
    lapsed,     \* the requests past expires_at
    role,       \* hotel_memberships: the active role of a user, or "none"
    bound,      \* whether the chat is bound to the hotel
    policies,   \* price_guard_policies in the order of insertion
    queue,      \* role_map_apply_queue: requests whose change waits for maintenance
    audit,      \* configuration_audit_events in the order of rowid
    wk          \* the serving processes and what they hold

vars == <<requests, lapsed, role, bound, policies, queue, audit, wk>>

(***************************************************************************)
(* Tables.  The id of a request or event is its position; the hash of an   *)
(* event stands for the event.                                             *)
(***************************************************************************)
Request == [kind: AllKinds, by: Users,
            target: Users \cup {None}, role: Roles \cup {"none"},   \* of a role change
            version: Nat,                \* price_guard_policy_version of an approval
            status: {"pending", "confirmed", "cancelled", "expired"},
            approver: Users \cup {None}]

Event == [req: Nat \ {0}, by: Users, prev: Nat,     \* previous_event_hash, or 0
          action: {"requested", "confirmed", "cancelled", "expired", "refused"}]

Policy == [req: Nat, version: Nat]     \* of request 0: in force at the start

Process == [pc: {"idle", "create", "direct", "owner", "row", "member", "policy",
                 "write", "expire", "expire_direct", "head", "log"},
            cmd: {"ask", "confirm", "cancel"},
            actor: Users \cup {None},
            rank: Roles \cup {"admin", "none"},   \* the actor's role, read first
            draft: Request \cup {None},           \* the request to create
            req: Nat, head: Nat,
            late: BOOLEAN, pending: BOOLEAN]      \* what the first look at a role change read

Idle == [pc |-> "idle", cmd |-> "ask", actor |-> None, rank |-> "none",
         draft |-> None, req |-> 0, late |-> FALSE, pending |-> FALSE, head |-> 0]

At(w, step) == wk[w].pc = step

(* The process goes on, and forgets what decided.                          *)
Goto(w, step) ==
    wk' = [wk EXCEPT ![w] = IF step = "idle" THEN Idle
                            ELSE [Idle EXCEPT !.pc = step, !.cmd = wk[w].cmd,
                                              !.actor = wk[w].actor, !.req = wk[w].req]]

Mine(w) == requests[wk[w].req]
Ids == DOMAIN requests
RankOf(u) == IF u \in Admins THEN "admin" ELSE role[u]
Manages(rank) == rank \in {"owner", "admin"}

(* active_price_guard_policy: the latest one, 0 if there is none.          *)
ActiveVersion == Max({0} \cup {policies[i].version : i \in DOMAIN policies})

(* _append_audit_event within a transaction that has begun to write.       *)
StaleLastEvent == IF Len(audit) > 1 THEN Len(audit) - 1 ELSE Len(audit)
LastEvent == Len(audit)
AppendAuditEvent(r, u, action) ==
    audit' = Append(audit, [req |-> r, by |-> u, prev |-> LastEvent, action |-> action])

RoomForEvent == Len(audit) + Cardinality({w \in Workers : ~ At(w, "idle")}) < MaxEvents
RoomForRequest == Len(requests) + Cardinality({w \in Workers : At(w, "create")}) < MaxRequests

(***************************************************************************)
(* Asking.  What decides is read first, the insert follows.                *)
(***************************************************************************)
Draft(kind, u, target, r, version) ==
    [kind |-> kind, by |-> u, target |-> target, role |-> r, version |-> version,
     status |-> "pending", approver |-> None]

IsMember(c) == c.role # "none" /\ role[c.target] = c.role
NotOneself(u, c) == RankOf(u) = "admin" \/ c.target # u

Drafts(u) ==
    {Draft("join", u, c.target, c.role, 0) : c \in {d \in Changes :
        bound /\ d.target = u /\ d.role \in {"operator", "frontdesk"} /\ ~ IsMember(d)}}
    \cup
    (IF ~ Manages(RankOf(u)) THEN {}
     ELSE {Draft(k, u, None, "none", 0) : k \in {"chat", "card_policy"} \cup BindKinds}
          \cup {Draft("formal", u, None, "none", ActiveVersion)}
          \cup {Draft("card_role", u, c.target, c.role, 0) : c \in {d \in Changes : NotOneself(u, d)}}
          \cup {Draft("role", u, c.target, c.role, 0) : c \in {d \in Changes :
                   bound /\ NotOneself(u, d) /\ ~ IsMember(d)}})

Ask(w, u) ==
    /\ At(w, "idle") /\ RoomForEvent /\ RoomForRequest
    /\ \E d \in {x \in Drafts(u) : x.kind \in Kinds} :
          wk' = [wk EXCEPT ![w] = [Idle EXCEPT !.pc = "create", !.actor = u, !.draft = d]]
    /\ UNCHANGED <<requests, lapsed, role, bound, policies, queue, audit>>

CreateRequest(w) ==
    /\ At(w, "create")
    /\ requests' = Append(requests, wk[w].draft)
    /\ AppendAuditEvent(Len(requests) + 1, wk[w].actor, "requested")
    /\ Goto(w, "idle")
    /\ UNCHANGED <<lapsed, role, bound, policies, queue>>

Lapse ==
    /\ Cardinality(lapsed) < MaxLapsed
    /\ \E r \in Ids \ lapsed : requests[r].kind # "formal" /\ lapsed' = lapsed \cup {r}
    /\ UNCHANGED <<requests, role, bound, policies, queue, audit, wk>>

(***************************************************************************)
(* Reading and deciding                                                    *)
(***************************************************************************)
(* The role of the actor is read, then the clock and the request.  (A      *)
(* request that lapses between the two may as well lapse after both.)  A   *)
(* role change is first looked at by _confirm_owner_direct_replacement.    *)
Command(w, u, cmd, r) ==
    /\ At(w, "idle") /\ RoomForEvent
    /\ cmd = "cancel" => Chat(requests[r].kind)
    /\ wk' = [wk EXCEPT ![w] =
                 [Idle EXCEPT !.pc = IF cmd = "confirm" /\ requests[r].kind \in RoleKinds
                                     THEN "direct" ELSE "row",
                              !.cmd = cmd, !.actor = u, !.rank = RankOf(u), !.req = r]]
    /\ UNCHANGED <<requests, lapsed, role, bound, policies, queue, audit>>

(* Whether the actor may confirm the request.                              *)
MayConfirm(p, q) ==
    CASE q.kind = "chat" -> p.rank = "admin" \/ (p.rank = "owner" /\ p.actor = q.by)
      [] q.kind = "card_policy" \/ q.kind = "formal" -> Manages(p.rank) /\ p.actor # q.by
      [] q.kind = "card_role" ->
            \/ p.rank = "admin" /\ p.actor # q.by
            \/ p.rank = "owner" /\ p.actor # q.target
      [] OTHER -> Manages(p.rank)

MayCancel(p, q) ==
    \/ q.kind \in {"chat"} \cup RoleKinds /\ p.actor = q.by
    \/ MayConfirm(p, q)

(* Where a process goes once it has read that the request is (or is not)   *)
(* pending: "head" refuses with an event, "idle" without one.  A message   *)
(* from another chat, or one with a wrong nonce or role, may be refused.   *)
AfterConfirmRow(p, q, late, pending) ==
    IF q.kind \in CardKinds
    THEN IF late THEN {"head"}
         ELSE IF ~ pending THEN {"idle"}
         ELSE {"head"} \cup {s \in {"write"} : MayConfirm(p, q)}
    ELSE IF q.kind = "formal"
    THEN IF pending /\ MayConfirm(p, q) THEN {"policy"} ELSE {"idle"}
    ELSE {"head", "idle"} \cup
         (IF late THEN {"expire"}
          ELSE IF ~ pending \/ ~ MayConfirm(p, q) THEN {}
          ELSE IF q.kind \notin RoleKinds THEN {"write"}
          ELSE {s \in {"member"} : p.actor # q.target})

AfterCancelRow(p, q, pending) ==
    IF q.kind = "chat" THEN {"head"} \cup {s \in {"write"} : pending /\ MayCancel(p, q)}
    ELSE {"idle"} \cup
         (IF ~ pending THEN {} ELSE IF MayCancel(p, q) THEN {"write"} ELSE {"head"})

ReadRow(w) ==
    /\ At(w, "row")
    /\ LET pending == Mine(w).status = "pending"
           late == wk[w].req \in lapsed
       IN  \/ /\ wk[w].cmd = "confirm"
              /\ \E s \in AfterConfirmRow(wk[w], Mine(w), late, pending) : Goto(w, s)
           \/ wk[w].cmd = "cancel" /\ \E s \in AfterCancelRow(wk[w], Mine(w), pending) : Goto(w, s)
    /\ UNCHANGED <<requests, lapsed, role, bound, policies, queue, audit>>

(* A grant that lowers another owner skips the checks of the chat path.    *)
ReadDirect(w) ==
    /\ At(w, "direct")
    /\ wk' = [wk EXCEPT ![w] = [@ EXCEPT !.pc = "owner", !.late = wk[w].req \in lapsed,
                                         !.pending = Mine(w).status = "pending"]]
    /\ UNCHANGED <<requests, lapsed, role, bound, policies, queue, audit>>

LowersOwner(q) == q.role \in {"operator", "frontdesk"} /\ role[q.target] = "owner"

ReadOwner(w) ==
    /\ At(w, "owner")
    /\ IF Mine(w).kind = "role" /\ LowersOwner(Mine(w))
       THEN \/ Goto(w, "idle")
            \/ wk[w].late /\ Goto(w, "expire_direct")
            \/ /\ ~ wk[w].late /\ wk[w].pending
               /\ Manages(wk[w].rank) /\ wk[w].actor # Mine(w).target
               /\ Goto(w, "write")
       ELSE wk' = [wk EXCEPT ![w] = [@ EXCEPT !.pc = "row", !.late = FALSE, !.pending = FALSE]]
    /\ UNCHANGED <<requests, lapsed, role, bound, policies, queue, audit>>

ReadMember(w) ==
    /\ At(w, "member")
    /\ Goto(w, IF LowersOwner(Mine(w)) THEN "head" ELSE "write")
    /\ UNCHANGED <<requests, lapsed, role, bound, policies, queue, audit>>

ReadPolicy(w) ==
    /\ At(w, "policy")
    /\ Goto(w, IF ActiveVersion # 0 /\ ActiveVersion = Mine(w).version THEN "write" ELSE "idle")
    /\ UNCHANGED <<requests, lapsed, role, bound, policies, queue, audit>>

(***************************************************************************)
(* Writing: one transaction                                                *)
(***************************************************************************)
CommandStored(cmd) == cmd
AlwaysConfirmed(cmd) == "confirmed"
FinalStatus(cmd) == IF cmd = "confirm" THEN "confirmed" ELSE "cancelled"

(* The updates of chat requests ask for no status; those of cards and      *)
(* formal approvals do, but nobody looks at the number of rows they change.*)
Unguarded(q) == TRUE
Updated(q) == Chat(q.kind) \/ q.status = "pending"

(* source_request_id and request_id are UNIQUE in the tables of effects.   *)
NeverApplied(r) == FALSE
Applied(r) == r \in queue \/ \E i \in DOMAIN policies : policies[i].req = r

(* INSERT ... ON CONFLICT DO UPDATE                                        *)
KeepsMembership(old, new) == IF old = "none" THEN new ELSE old
RoleAfter(old, new) == new

CountedVersion(r) == r
NextVersion(r) == ActiveVersion + 1

Apply(r, q) ==
    CASE q.kind \in {"chat", "card_policy"} ->
            /\ policies' = Append(policies, [req |-> r, version |-> NextVersion(r)])
            /\ UNCHANGED <<role, bound, queue>>
      [] q.kind = "card_role" -> queue' = queue \cup {r} /\ UNCHANGED <<role, bound, policies>>
      [] q.kind \in RoleKinds ->
            /\ role' = [role EXCEPT ![q.target] = RoleAfter(@, q.role)]
            /\ UNCHANGED <<bound, policies, queue>>
      [] q.kind \in BindKinds -> bound' = (q.kind = "bind") /\ UNCHANGED <<role, policies, queue>>
      [] q.kind = "formal" -> UNCHANGED <<role, bound, policies, queue>>

ConfirmRequest(w) ==
    /\ At(w, "write") /\ wk[w].cmd = "confirm"
    /\ ~ Applied(wk[w].req)
    /\ Apply(wk[w].req, Mine(w))
    /\ requests' = IF Updated(Mine(w))
                   THEN [requests EXCEPT ![wk[w].req] =
                            [@ EXCEPT !.status = FinalStatus("confirm"), !.approver = wk[w].actor]]
                   ELSE requests
    /\ AppendAuditEvent(wk[w].req, wk[w].actor, "confirmed")
    /\ Goto(w, "idle")
    /\ UNCHANGED lapsed

(* The key of the effect is taken: the transaction is rolled back.         *)
RollBack(w) ==
    /\ At(w, "write") /\ wk[w].cmd = "confirm" /\ Applied(wk[w].req)
    /\ Goto(w, "idle")
    /\ UNCHANGED <<requests, lapsed, role, bound, policies, queue, audit>>

CancelRequest(w) ==
    /\ At(w, "write") /\ wk[w].cmd = "cancel"
    /\ requests' = [requests EXCEPT ![wk[w].req].status = FinalStatus("cancel")]
    /\ AppendAuditEvent(wk[w].req, wk[w].actor, "cancelled")
    /\ Goto(w, "idle")
    /\ UNCHANGED <<lapsed, role, bound, policies, queue>>

ExpireRequest(w) ==
    /\ wk[w].pc \in {"expire", "expire_direct"}
    /\ requests' = [requests EXCEPT ![wk[w].req].status = "expired"]
    /\ IF At(w, "expire") THEN AppendAuditEvent(wk[w].req, wk[w].actor, "expired")
                          ELSE UNCHANGED audit
    /\ Goto(w, "idle")
    /\ UNCHANGED <<lapsed, role, bound, policies, queue>>

(* A refusal writes nothing but its event, so the hash it continues from   *)
(* is read before the transaction begins.                                  *)
ReadHead(w) ==
    /\ At(w, "head")
    /\ wk' = [wk EXCEPT ![w] = [@ EXCEPT !.pc = "log", !.head = Len(audit)]]
    /\ UNCHANGED <<requests, lapsed, role, bound, policies, queue, audit>>

LogRefusal(w) ==
    /\ At(w, "log")
    /\ audit' = Append(audit, [req |-> wk[w].req, by |-> wk[w].actor, prev |-> wk[w].head,
                               action |-> "refused"])
    /\ Goto(w, "idle")
    /\ UNCHANGED <<requests, lapsed, role, bound, policies, queue>>

(* The process dies, or a call on the database raises.                     *)
Crash(w) ==
    /\ CanCrash /\ ~ At(w, "idle")
    /\ Goto(w, "idle")
    /\ UNCHANGED <<requests, lapsed, role, bound, policies, queue, audit>>

(***************************************************************************)
(* Specification                                                           *)
(***************************************************************************)
Init ==
    /\ requests = <<>> /\ lapsed = {} /\ role = InitialRole /\ bound = InitialBound
    /\ policies = IF InitialGuard THEN <<[req |-> 0, version |-> 1]>> ELSE <<>>
    /\ queue = {} /\ audit = <<>>
    /\ wk = [w \in Workers |-> Idle]

Start(w) ==
    \/ \E u \in Askers : Ask(w, u)
    \/ \E u \in Users, cmd \in {"confirm", "cancel"}, r \in Ids : Command(w, u, cmd, r)

Step(w) ==
    \/ CreateRequest(w) \/ ReadDirect(w) \/ ReadOwner(w) \/ ReadRow(w)
    \/ ReadMember(w) \/ ReadPolicy(w)
    \/ ConfirmRequest(w) \/ RollBack(w) \/ CancelRequest(w) \/ ExpireRequest(w)
    \/ ReadHead(w) \/ LogRefusal(w)

Next == Lapse \/ \E w \in Workers : Start(w) \/ Step(w) \/ Crash(w)

Spec == Init /\ [][Next]_vars

(***************************************************************************)
(* Correctness                                                             *)
(***************************************************************************)
TypeOK ==
    /\ requests \in Seq(Request)
    /\ lapsed \subseteq Ids
    /\ role \in [Users -> Roles \cup {"none"}]
    /\ bound \in BOOLEAN
    /\ policies \in Seq(Policy)
    /\ queue \subseteq Ids
    /\ audit \in Seq(Event)
    /\ wk \in [Workers -> Process]

Confirmations(r) == {i \in DOMAIN audit : audit[i].req = r /\ audit[i].action = "confirmed"}

(* Every policy and every queued role change was confirmed, on record and  *)
(* once, however many confirmations of a request overlap: the UNIQUE keys  *)
(* of the effects do what the conditions on the status do not.  The        *)
(* versions count the policies in the order in which they were confirmed.  *)
EffectsHappenOnce ==
    /\ \A i \in DOMAIN policies : policies[i].version = i
    /\ \A i, j \in DOMAIN policies : policies[i].req = policies[j].req => i = j
    /\ \A r \in Ids : requests[r].kind \in {"chat", "card_policy", "card_role"} =>
          /\ Applied(r) <=> Confirmations(r) # {}
          /\ Cardinality(Confirmations(r)) <= 1

(* The log replays the state: a hotel role is the one of the last event    *)
(* that confirmed a change for that user, and the chat is bound as the     *)
(* last confirmed binding says, also when confirmations overlap.           *)
ConfirmedKinds(kinds) ==
    {i \in DOMAIN audit : audit[i].action = "confirmed" /\ requests[audit[i].req].kind \in kinds}

LogReplaysState ==
    /\ \A u \in Users :
          LET changes == {i \in ConfirmedKinds(RoleKinds) : requests[audit[i].req].target = u}
          IN  role[u] = IF changes = {} THEN InitialRole[u]
                        ELSE requests[audit[Max(changes)].req].role
    /\ ConfirmedKinds(BindKinds) # {} =>
          bound = (requests[audit[Max(ConfirmedKinds(BindKinds))].req].kind = "bind")

(* A request that says "confirmed" has its event, and one that says        *)
(* "pending" changed nothing.                                              *)
StatusHasItsEvent ==
    \A r \in Ids :
        /\ requests[r].status = "confirmed" => Confirmations(r) # {}
        /\ requests[r].status = "pending" => Confirmations(r) = {} /\ ~ Applied(r)

(* The approver of a request is who its log says: of two approvals that    *)
(* overlap the first stands when the status is asked for, the last when it *)
(* is not.                                                                 *)
ApproversAreOnRecord ==
    \A r \in Ids :
        LET c == Confirmations(r)
        IN  requests[r].approver =
               IF c = {} THEN None
               ELSE audit[IF Chat(requests[r].kind) THEN Max(c) ELSE Min(c)].by

(* An event that accompanies a change continues from the event just before *)
(* it; only a refusal can break the chain.                                 *)
ChangesAreChained ==
    \A i \in DOMAIN audit :
        IF audit[i].action = "refused" THEN audit[i].prev < i ELSE audit[i].prev = i - 1
=============================================================================
