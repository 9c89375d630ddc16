------------------------- MODULE ControlPlaneProofs -------------------------
(***************************************************************************)
(* Proofs about ControlPlane, for any number of users, requests and        *)
(* processes, with and without crashes.                                    *)
(***************************************************************************)
EXTENDS ControlPlane, FiniteSetTheorems, TLAPS

-----------------------------------------------------------------------------
(* The inductive invariant.                                                *)

(* What a process holds of the request it serves.                          *)
HeldOK(w) ==
    /\ ~ At(w, "idle") => wk[w].actor \in Users
    /\ At(w, "create") => /\ wk[w].draft \in Request
                          /\ wk[w].draft.status = "pending" /\ wk[w].draft.approver = None
    /\ ~ At(w, "idle") /\ ~ At(w, "create") =>
          wk[w].req \in Ids /\ (wk[w].cmd = "cancel" => Chat(Mine(w).kind))
    /\ At(w, "expire") \/ At(w, "expire_direct") => Chat(Mine(w).kind)
    /\ At(w, "log") => wk[w].head <= Len(audit)

HeldInv == \A w \in Workers : HeldOK(w)

(* Events and effects name requests; every policy has a version and a      *)
(* request of its own.                                                     *)
LogInv ==
    /\ \A i \in DOMAIN audit : audit[i].req \in Ids
    /\ \A i \in DOMAIN policies : policies[i].req \in Ids \cup {0} /\ policies[i].version = i
    /\ \A i, j \in DOMAIN policies : policies[i].req = policies[j].req => i = j

EffectKinds == {"chat", "card_policy", "card_role"}

(* An effect has its confirmation; of the kinds whose effects have a key,  *)
(* a confirmation has its effect and is the only one.                      *)
OnceInv ==
    \A r \in Ids :
        /\ Applied(r) => Confirmations(r) # {}
        /\ requests[r].kind \in EffectKinds =>
              /\ Confirmations(r) # {} => Applied(r)
              /\ \A i, j \in Confirmations(r) : i = j

(* Only requests of the chat are cancelled or expire.                      *)
StatusInv ==
    /\ StatusHasItsEvent
    /\ \A r \in Ids : ~ Chat(requests[r].kind) => requests[r].status \in {"pending", "confirmed"}

(* Sets of events have a first and a last one: what a finite set of        *)
(* numbers has, shown along with the growth of the log.                    *)
EndsInv ==
    \A S \in SUBSET (1..Len(audit)) : S # {} =>
        /\ \E m \in S : \A x \in S : x <= m
        /\ \E m \in S : \A x \in S : m <= x

DataInv == /\ LogInv /\ OnceInv /\ StatusInv /\ EndsInv
           /\ LogReplaysState /\ ApproversAreOnRecord /\ ChangesAreChained

SafetyInv == TypeOK /\ HeldInv /\ DataInv

-----------------------------------------------------------------------------
(* Maxima and minima.                                                      *)

LEMMA MaxIs ==
    ASSUME NEW S, S \subseteq Nat, NEW m \in S, \A x \in S : x <= m
    PROVE  Max(S) = m
<1>1. m \in S /\ \A y \in S : m >= y
  OBVIOUS
<1>2. Max(S) \in S /\ \A y \in S : Max(S) >= y
  BY <1>1 DEF Max
<1>3. Max(S) >= m /\ m >= Max(S) /\ m \in Nat /\ Max(S) \in Nat
  BY <1>1, <1>2
<1> QED BY <1>3

LEMMA MinIs ==
    ASSUME NEW S, S \subseteq Nat, NEW m \in S, \A x \in S : m <= x
    PROVE  Min(S) = m
<1>1. m \in S /\ \A y \in S : m <= y
  OBVIOUS
<1>2. Min(S) \in S /\ \A y \in S : Min(S) <= y
  BY <1>1 DEF Min
<1>3. Min(S) <= m /\ m <= Min(S) /\ m \in Nat /\ Min(S) \in Nat
  BY <1>1, <1>2
<1> QED BY <1>3

LEMMA ActiveIsLast ==
    ASSUME TypeOK, LogInv
    PROVE  ActiveVersion = Len(policies) /\ Len(policies) \in Nat /\ DOMAIN policies = 1..Len(policies)
<1> DEFINE S == {0} \cup {policies[i].version : i \in DOMAIN policies}
<1>1. Len(policies) \in Nat /\ DOMAIN policies = 1..Len(policies)
  BY DEF TypeOK
<1>2. \A x \in S : x \in 0..Len(policies)
  BY <1>1 DEF LogInv
<1>3. Len(policies) \in S
  <2>1. CASE Len(policies) = 0
    BY <2>1
  <2>2. CASE Len(policies) # 0
    <3>1. Len(policies) \in DOMAIN policies
      BY <1>1, <2>2
    <3> QED BY <3>1 DEF LogInv
  <2> QED BY <2>1, <2>2
<1> HIDE DEF S
<1>4. S \subseteq Nat /\ \A x \in S : x <= Len(policies)
  BY <1>1, <1>2
<1>5. Max(S) = Len(policies)
  BY <1>3, <1>4, MaxIs
<1> QED BY <1>1, <1>5 DEF S, ActiveVersion

-----------------------------------------------------------------------------
(* Types of requests, events and processes.                                *)

Actions == {"requested", "confirmed", "cancelled", "expired", "refused"}
Pcs == {"idle", "create", "direct", "owner", "row", "member", "policy",
        "write", "expire", "expire_direct", "head", "log"}

LEMMA RequestTypes ==
    ASSUME TypeOK
    PROVE  /\ Len(requests) \in Nat /\ Ids = 1..Len(requests)
           /\ \A r \in Ids : requests[r] \in Request
           /\ Len(audit) \in Nat /\ DOMAIN audit = 1..Len(audit)
           /\ \A i \in DOMAIN audit : audit[i] \in Event
BY DEF TypeOK, Ids

LEMMA ProcessTypes ==
    ASSUME TypeOK, NEW w \in Workers
    PROVE  /\ wk[w] \in Process /\ wk[w].pc \in Pcs /\ wk[w].cmd \in {"ask", "confirm", "cancel"}
           /\ wk[w].req \in Nat /\ wk[w].head \in Nat
<1>1. wk[w] \in Process
  BY DEF TypeOK
<1> QED BY <1>1 DEF Process, Pcs

LEMMA IdleType == Idle \in Process /\ Idle.pc = "idle"
BY UsersAssumption DEF Idle, Process, Roles

LEMMA SetType ==
    ASSUME TypeOK, NEW w \in Workers, NEW p \in Process, wk' = [wk EXCEPT ![w] = p]
    PROVE  wk' \in [Workers -> Process] /\ wk'[w] = p /\ \A v \in Workers \ {w} : wk'[v] = wk[v]
BY DEF TypeOK

LEMMA ProcessIs ==
    ASSUME NEW step \in Pcs, NEW c \in {"ask", "confirm", "cancel"}, NEW u \in Users \cup {None},
           NEW r \in Nat
    PROVE  [pc |-> step, cmd |-> c, actor |-> u, rank |-> "none", draft |-> None,
            req |-> r, late |-> FALSE, pending |-> FALSE, head |-> 0] \in Process
<1>1. None \in Request \cup {None} /\ "none" \in Roles \cup {"admin", "none"}
  OBVIOUS
<1>2. FALSE \in BOOLEAN /\ 0 \in Nat
  OBVIOUS
<1> QED BY <1>1, <1>2 DEF Process, Pcs

LEMMA IdleGoesOn ==
    ASSUME NEW step, NEW c, NEW u, NEW r, NEW p,
           p = [Idle EXCEPT !.pc = step, !.cmd = c, !.actor = u, !.req = r]
    PROVE  p = [pc |-> step, cmd |-> c, actor |-> u, rank |-> "none", draft |-> None,
                req |-> r, late |-> FALSE, pending |-> FALSE, head |-> 0]
<1>1. p = [f \in DOMAIN Idle |-> IF f = "pc" THEN step ELSE IF f = "cmd" THEN c
             ELSE IF f = "actor" THEN u ELSE IF f = "req" THEN r ELSE Idle[f]]
  BY DEF Idle
<1> QED BY <1>1 DEF Idle

(* A process that goes on keeps its command, its actor and its request.    *)
LEMMA Went ==
    ASSUME TypeOK, NEW w \in Workers, NEW step \in Pcs, Goto(w, step)
    PROVE  /\ wk' \in [Workers -> Process]
           /\ \A v \in Workers \ {w} : wk'[v] = wk[v]
           /\ wk'[w].pc = step
           /\ step # "idle" => /\ wk'[w].cmd = wk[w].cmd /\ wk'[w].actor = wk[w].actor
                               /\ wk'[w].req = wk[w].req
<1>1. CASE step = "idle"
  <2>1. wk' = [wk EXCEPT ![w] = Idle]
    BY <1>1 DEF Goto
  <2> QED BY <1>1, <2>1, IdleType, SetType
<1>2. CASE step # "idle"
  <2> DEFINE p == [pc |-> step, cmd |-> wk[w].cmd, actor |-> wk[w].actor, rank |-> "none",
                   draft |-> None, req |-> wk[w].req, late |-> FALSE, pending |-> FALSE, head |-> 0]
  <2>1. p \in Process
    <3>1. wk[w].actor \in Users \cup {None}
      BY DEF TypeOK, Process
    <3> QED BY <3>1, ProcessTypes, ProcessIs
  <2>2. wk' = [wk EXCEPT ![w] = p]
    <3>1. wk' = [wk EXCEPT ![w] = [Idle EXCEPT !.pc = step, !.cmd = wk[w].cmd,
                                               !.actor = wk[w].actor, !.req = wk[w].req]]
      BY <1>2 DEF Goto
    <3>2. [Idle EXCEPT !.pc = step, !.cmd = wk[w].cmd, !.actor = wk[w].actor, !.req = wk[w].req]
          = [pc |-> step, cmd |-> wk[w].cmd, actor |-> wk[w].actor, rank |-> "none",
             draft |-> None, req |-> wk[w].req, late |-> FALSE, pending |-> FALSE, head |-> 0]
      BY IdleGoesOn
    <3> QED BY <3>1, <3>2
  <2>3. p.pc = step /\ p.cmd = wk[w].cmd /\ p.actor = wk[w].actor /\ p.req = wk[w].req
    OBVIOUS
  <2> HIDE DEF p
  <2> QED BY <2>1, <2>2, <2>3, SetType
<1> QED BY <1>1, <1>2

LEMMA DraftType ==
    ASSUME NEW k \in AllKinds, NEW u \in Users, NEW t \in Users \cup {None},
           NEW r \in Roles \cup {"none"}, NEW v \in Nat
    PROVE  /\ Draft(k, u, t, r, v) \in Request
           /\ Draft(k, u, t, r, v).status = "pending" /\ Draft(k, u, t, r, v).approver = None
BY DEF Draft, Request

LEMMA DraftsAreRequests ==
    ASSUME TypeOK, LogInv, NEW u \in Users, NEW d \in Drafts(u)
    PROVE  d \in Request /\ d.status = "pending" /\ d.approver = None
<1>1. PICK k \in AllKinds, t \in Users \cup {None}, r \in Roles \cup {"none"}, v \in Nat :
          d = Draft(k, u, t, r, v)
  <2>1. \A c \in Changes : c.target \in Users \cup {None} /\ c.role \in Roles \cup {"none"}
    BY BoundsAssumption
  <2>2. {"join", "role", "card_role", "formal", "chat", "card_policy"} \cup BindKinds \subseteq AllKinds
    BY DEF AllKinds, CardKinds, RoleKinds, BindKinds
  <2>3. None \in Users \cup {None} /\ "none" \in Roles \cup {"none"} /\ 0 \in Nat
    OBVIOUS
  <2>4. ActiveVersion \in Nat
    BY ActiveIsLast
  <2> QED BY <2>1, <2>2, <2>3, <2>4 DEF Drafts
<1> QED BY <1>1, DraftType

-----------------------------------------------------------------------------
(* How the tables change.                                                  *)

Tables == <<requests, role, bound, policies, queue, audit>>

(* An event continues from the one before it, or it is a refusal.          *)
Continues(e) == IF e.action = "refused" THEN e.prev <= Len(audit) ELSE e.prev = Len(audit)

(* What is done without a confirmation: a request is new, is cancelled or  *)
(* expires, a refusal is logged, or nothing.                               *)
Unconfirmed ==
    /\ requests' \in Seq(Request)
    /\ UNCHANGED <<role, bound, policies, queue>>
    /\ \A r \in Ids :
          /\ r \in Ids'
          /\ requests'[r].kind = requests[r].kind /\ requests'[r].target = requests[r].target
          /\ requests'[r].role = requests[r].role /\ requests'[r].approver = requests[r].approver
          /\ \/ requests'[r].status = requests[r].status
             \/ Chat(requests[r].kind) /\ requests'[r].status \in {"cancelled", "expired"}
    /\ \A r \in Ids' \ Ids : requests'[r].status = "pending" /\ requests'[r].approver = None
    /\ \/ audit' = audit
       \/ \E e \in Event : /\ audit' = Append(audit, e) /\ e.action # "confirmed"
                           /\ e.req \in Ids' /\ Continues(e)

LEMMA CreateIsUnconfirmed ==
    ASSUME TypeOK, NEW w \in Workers, HeldOK(w), CreateRequest(w)
    PROVE  Unconfirmed
<1> DEFINE d == wk[w].draft
           e == [req |-> Len(requests) + 1, by |-> wk[w].actor, prev |-> Len(audit), action |-> "requested"]
<1>1. d \in Request /\ d.status = "pending" /\ d.approver = None /\ wk[w].actor \in Users
  BY DEF HeldOK, CreateRequest, At
<1>2. requests' = Append(requests, d) /\ audit' = Append(audit, e)
      /\ UNCHANGED <<role, bound, policies, queue>>
  BY DEF CreateRequest, AppendAuditEvent, LastEvent
<1>3. Len(audit) \in Nat /\ Len(requests) \in Nat /\ Ids = 1..Len(requests)
  BY RequestTypes
<1>4. e \in Event /\ e.action = "requested" /\ e.req = Len(requests) + 1 /\ e.prev = Len(audit)
  BY <1>1, <1>3 DEF Event
<1> HIDE DEF d, e
<1>5. /\ requests' \in Seq(Request) /\ Ids' = 1..(Len(requests) + 1)
      /\ \A r \in Ids : requests'[r] = requests[r]
      /\ requests'[Len(requests) + 1] = d
  BY <1>1, <1>2, <1>3 DEF TypeOK, Ids
<1>6. e.req \in Ids' /\ Continues(e) /\ e.action # "confirmed"
  BY <1>3, <1>4, <1>5 DEF Continues
<1>7. \A r \in Ids' \ Ids : r = Len(requests) + 1
  BY <1>3, <1>5
<1>8. \A r \in Ids : r \in Ids'
  BY <1>3, <1>5
<1> QED BY <1>1, <1>2, <1>4, <1>5, <1>6, <1>7, <1>8 DEF Unconfirmed

LEMMA SetStatusIsUnconfirmed ==
    ASSUME TypeOK, NEW r0 \in Ids, Chat(requests[r0].kind), NEW s \in {"cancelled", "expired"},
           requests' = [requests EXCEPT ![r0].status = s],
           UNCHANGED <<role, bound, policies, queue>>,
           \/ audit' = audit
           \/ \E u \in Users : audit' = Append(audit, [req |-> r0, by |-> u, prev |-> Len(audit),
                                                       action |-> s])
    PROVE  Unconfirmed
<1>1. /\ Len(requests) \in Nat /\ Ids = 1..Len(requests) /\ Len(audit) \in Nat
      /\ \A r \in Ids : requests[r] \in Request
  BY RequestTypes
<1>2. [requests[r0] EXCEPT !.status = s] \in Request
  BY <1>1 DEF Request
<1>3. requests' = [requests EXCEPT ![r0] = [requests[r0] EXCEPT !.status = s]]
  OBVIOUS
<1>4. requests' \in Seq(Request) /\ Ids' = Ids
  BY <1>2, <1>3 DEF TypeOK, Ids
<1>5. \A r \in Ids : requests'[r] = IF r = r0 THEN [requests[r0] EXCEPT !.status = s] ELSE requests[r]
  BY <1>1, <1>3 DEF TypeOK, Ids
<1>6. ASSUME NEW r \in Ids
      PROVE  /\ requests'[r].kind = requests[r].kind /\ requests'[r].target = requests[r].target
             /\ requests'[r].role = requests[r].role /\ requests'[r].approver = requests[r].approver
             /\ \/ requests'[r].status = requests[r].status
                \/ Chat(requests[r].kind) /\ requests'[r].status \in {"cancelled", "expired"}
  <2>1. CASE r = r0
    <3>1. requests'[r] = [requests[r0] EXCEPT !.status = s] /\ requests[r0] \in Request
      BY <1>1, <1>5, <2>1
    <3> QED BY <2>1, <3>1 DEF Request
  <2>2. CASE r # r0
    BY <1>5, <2>2
  <2> QED BY <2>1, <2>2
<1>7. ASSUME NEW u \in Users, audit' = Append(audit, [req |-> r0, by |-> u, prev |-> Len(audit), action |-> s])
      PROVE  \E e \in Event : /\ audit' = Append(audit, e) /\ e.action # "confirmed"
                              /\ e.req \in Ids' /\ Continues(e)
  <2> DEFINE e == [req |-> r0, by |-> u, prev |-> Len(audit), action |-> s]
  <2>1. e \in Event
    BY <1>1 DEF Event
  <2>2. e.action # "confirmed" /\ e.req \in Ids' /\ Continues(e)
    BY <1>4 DEF Continues
  <2> QED BY <1>7, <2>1, <2>2
<1> QED BY <1>4, <1>6, <1>7 DEF Unconfirmed

LEMMA CancelIsUnconfirmed ==
    ASSUME TypeOK, NEW w \in Workers, HeldOK(w), CancelRequest(w)
    PROVE  Unconfirmed
<1>1. /\ wk[w].req \in Ids /\ Chat(requests[wk[w].req].kind) /\ wk[w].actor \in Users
  BY DEF HeldOK, CancelRequest, At, Mine
<1>2. /\ requests' = [requests EXCEPT ![wk[w].req].status = "cancelled"]
      /\ audit' = Append(audit, [req |-> wk[w].req, by |-> wk[w].actor, prev |-> Len(audit),
                                 action |-> "cancelled"])
      /\ UNCHANGED <<role, bound, policies, queue>>
  BY DEF CancelRequest, FinalStatus, AppendAuditEvent, LastEvent
<1> QED BY <1>1, <1>2, SetStatusIsUnconfirmed

LEMMA ExpireIsUnconfirmed ==
    ASSUME TypeOK, NEW w \in Workers, HeldOK(w), ExpireRequest(w)
    PROVE  Unconfirmed
<1>1. /\ wk[w].req \in Ids /\ Chat(requests[wk[w].req].kind) /\ wk[w].actor \in Users
  BY DEF HeldOK, ExpireRequest, At, Mine
<1>2. /\ requests' = [requests EXCEPT ![wk[w].req].status = "expired"]
      /\ \/ audit' = audit
         \/ audit' = Append(audit, [req |-> wk[w].req, by |-> wk[w].actor, prev |-> Len(audit),
                                    action |-> "expired"])
      /\ UNCHANGED <<role, bound, policies, queue>>
  BY DEF ExpireRequest, AppendAuditEvent, LastEvent
<1> QED BY <1>1, <1>2, SetStatusIsUnconfirmed

LEMMA RefusalIsUnconfirmed ==
    ASSUME TypeOK, NEW w \in Workers, HeldOK(w), LogRefusal(w)
    PROVE  Unconfirmed
<1> DEFINE e == [req |-> wk[w].req, by |-> wk[w].actor, prev |-> wk[w].head, action |-> "refused"]
<1>1. wk[w].req \in Ids /\ wk[w].actor \in Users /\ wk[w].head <= Len(audit)
  BY DEF HeldOK, LogRefusal, At
<1>2. audit' = Append(audit, e) /\ UNCHANGED <<requests, role, bound, policies, queue>>
  BY DEF LogRefusal
<1>3. wk[w].head \in Nat /\ Ids = 1..Len(requests) /\ Len(requests) \in Nat
  BY ProcessTypes, RequestTypes
<1>4. e \in Event
  BY <1>1, <1>3 DEF Event
<1>5. e.action # "confirmed" /\ e.req \in Ids' /\ Continues(e)
  BY <1>1, <1>2 DEF Continues, Ids
<1>6. requests' \in Seq(Request) /\ Ids' = Ids
  BY <1>2 DEF TypeOK, Ids
<1> QED BY <1>2, <1>4, <1>5, <1>6 DEF Unconfirmed

LEMMA QuietIsUnconfirmed ==
    ASSUME TypeOK, UNCHANGED Tables
    PROVE  Unconfirmed
<1>1. requests' \in Seq(Request) /\ Ids' = Ids
  BY DEF TypeOK, Tables, Ids
<1> QED BY <1>1 DEF Unconfirmed, Tables

LEMMA RestIsUnconfirmed ==
    ASSUME TypeOK, HeldInv, [Next]_vars, ~ \E w \in Workers : ConfirmRequest(w)
    PROVE  Unconfirmed
<1>1. CASE UNCHANGED vars
  BY <1>1, QuietIsUnconfirmed DEF vars, Tables
<1>2. CASE Lapse
  BY <1>2, QuietIsUnconfirmed DEF Lapse, Tables
<1>3. ASSUME NEW w \in Workers, Start(w) \/ Crash(w) PROVE Unconfirmed
  BY <1>3, QuietIsUnconfirmed DEF Start, Ask, Command, Crash, Tables
<1>4. ASSUME NEW w \in Workers, Step(w) PROVE Unconfirmed
  <2>1. HeldOK(w)
    BY DEF HeldInv
  <2>2. CASE ReadDirect(w) \/ ReadOwner(w) \/ ReadRow(w) \/ ReadMember(w) \/ ReadPolicy(w)
    BY <2>2, QuietIsUnconfirmed DEF ReadDirect, ReadOwner, ReadRow, ReadMember, ReadPolicy, Tables
  <2>3. CASE RollBack(w) \/ ReadHead(w)
    BY <2>3, QuietIsUnconfirmed DEF RollBack, ReadHead, Tables
  <2>4. CASE CreateRequest(w)
    BY <2>1, <2>4, CreateIsUnconfirmed
  <2>5. CASE CancelRequest(w)
    BY <2>1, <2>5, CancelIsUnconfirmed
  <2>6. CASE ExpireRequest(w)
    BY <2>1, <2>6, ExpireIsUnconfirmed
  <2>7. CASE LogRefusal(w)
    BY <2>1, <2>7, RefusalIsUnconfirmed
  <2> QED BY <1>4, <2>2, <2>3, <2>4, <2>5, <2>6, <2>7 DEF Step
<1> QED BY <1>1, <1>2, <1>3, <1>4 DEF Next

(* A confirmation of request r by u: its event, its status and approver    *)
(* where the update asks for no status or finds it pending, and its effect *)
(* unless the key of the effect is taken.                                  *)
Confirms(r, u) ==
    /\ r \in Ids /\ u \in Users /\ ~ Applied(r)
    /\ Apply(r, requests[r])
    /\ requests' = IF Updated(requests[r])
                   THEN [requests EXCEPT ![r] = [@ EXCEPT !.status = "confirmed", !.approver = u]]
                   ELSE requests
    /\ audit' = Append(audit, [req |-> r, by |-> u, prev |-> Len(audit), action |-> "confirmed"])

LEMMA ConfirmConfirms ==
    ASSUME TypeOK, NEW w \in Workers, HeldOK(w), ConfirmRequest(w)
    PROVE  Confirms(wk[w].req, wk[w].actor)
<1>1. wk[w].req \in Ids /\ wk[w].actor \in Users
  BY DEF HeldOK, ConfirmRequest, At
<1> QED BY <1>1 DEF ConfirmRequest, Confirms, Mine, FinalStatus, AppendAuditEvent, LastEvent

(* What a confirmation leaves of the requests.                             *)
LEMMA ConfirmedRequests ==
    ASSUME TypeOK, NEW r0 \in Ids, NEW u \in Users, Confirms(r0, u)
    PROVE  /\ requests' \in Seq(Request) /\ Ids' = Ids
           /\ \A r \in Ids : /\ requests'[r].kind = requests[r].kind
                             /\ requests'[r].target = requests[r].target
                             /\ requests'[r].role = requests[r].role
           /\ \A r \in Ids \ {r0} : requests'[r] = requests[r]
           /\ Updated(requests[r0]) =>
                 requests'[r0].status = "confirmed" /\ requests'[r0].approver = u
           /\ ~ Updated(requests[r0]) => requests'[r0] = requests[r0]
<1> DEFINE q == [requests[r0] EXCEPT !.status = "confirmed", !.approver = u]
<1>1. /\ Len(requests) \in Nat /\ Ids = 1..Len(requests) /\ \A r \in Ids : requests[r] \in Request
  BY RequestTypes
<1>2. /\ q \in Request /\ q.kind = requests[r0].kind /\ q.target = requests[r0].target
      /\ q.role = requests[r0].role /\ q.status = "confirmed" /\ q.approver = u
  BY <1>1 DEF Request
<1>3. CASE Updated(requests[r0])
  <2>1. requests' = [requests EXCEPT ![r0] = q]
    BY <1>3 DEF Confirms
  <2> HIDE DEF q
  <2>2. requests' \in Seq(Request) /\ Ids' = Ids /\ requests'[r0] = q
        /\ \A r \in Ids \ {r0} : requests'[r] = requests[r]
    BY <1>1, <1>2, <2>1 DEF TypeOK, Ids
  <2> QED BY <1>2, <1>3, <2>2
<1>4. CASE ~ Updated(requests[r0])
  BY <1>4 DEF Confirms, TypeOK, Ids
<1> QED BY <1>3, <1>4

LEMMA ConfirmedTypes ==
    ASSUME TypeOK, LogInv, NEW r0 \in Ids, NEW u \in Users, Confirms(r0, u)
    PROVE  /\ role' \in [Users -> Roles \cup {"none"}] /\ bound' \in BOOLEAN
           /\ policies' \in Seq(Policy) /\ queue' \subseteq Ids /\ audit' \in Seq(Event)
<1>1. requests[r0] \in Request /\ r0 \in Nat \ {0} /\ Len(audit) \in Nat
  BY RequestTypes
<1>2. audit' \in Seq(Event)
  <2>1. [req |-> r0, by |-> u, prev |-> Len(audit), action |-> "confirmed"] \in Event
    BY <1>1 DEF Event
  <2> QED BY <2>1 DEF Confirms, TypeOK
<1>3. Apply(r0, requests[r0])
  BY DEF Confirms
<1>4. requests[r0].kind \in AllKinds /\ requests[r0].role \in Roles \cup {"none"}
  BY <1>1 DEF Request
<1>5. [req |-> r0, version |-> NextVersion(r0)] \in Policy
  <2>1. NextVersion(r0) \in Nat
    BY ActiveIsLast DEF NextVersion
  <2> QED BY <1>1, <2>1 DEF Policy
<1>6. CASE requests[r0].kind \in {"chat", "card_policy"}
  <2>1. policies' = Append(policies, [req |-> r0, version |-> NextVersion(r0)])
        /\ UNCHANGED <<role, bound, queue>>
    BY <1>3, <1>6 DEF Apply, RoleKinds, BindKinds
  <2> QED BY <1>2, <1>5, <2>1 DEF TypeOK
<1>7. CASE requests[r0].kind = "card_role"
  BY <1>2, <1>3, <1>7 DEF Apply, RoleKinds, BindKinds, TypeOK
<1>8. CASE requests[r0].kind \in RoleKinds
  <2>1. role' = [role EXCEPT ![requests[r0].target] = requests[r0].role]
        /\ UNCHANGED <<bound, policies, queue>>
    BY <1>3, <1>8 DEF Apply, RoleAfter, RoleKinds, BindKinds
  <2> QED BY <1>2, <1>4, <2>1 DEF TypeOK
<1>9. CASE requests[r0].kind \in BindKinds
  <2>1. bound' = (requests[r0].kind = "bind") /\ UNCHANGED <<role, policies, queue>>
    BY <1>3, <1>9 DEF Apply, RoleKinds, BindKinds
  <2>2. bound' \in BOOLEAN
    BY <2>1
  <2> QED BY <1>2, <2>1, <2>2 DEF TypeOK
<1>10. CASE requests[r0].kind = "formal"
  BY <1>2, <1>3, <1>10 DEF Apply, RoleKinds, BindKinds, TypeOK
<1> QED BY <1>4, <1>6, <1>7, <1>8, <1>9, <1>10 DEF AllKinds, CardKinds

-----------------------------------------------------------------------------
(* Unconfirmed steps keep the invariant.                                   *)

LEMMA UnconfirmedAudit ==
    ASSUME TypeOK, Unconfirmed
    PROVE  /\ audit' \in Seq(Event)
           /\ \A i \in DOMAIN audit : i \in DOMAIN audit' /\ audit'[i] = audit[i]
           /\ \A i \in DOMAIN audit' \ DOMAIN audit :
                 /\ i = Len(audit) + 1 /\ audit'[i].action # "confirmed" /\ audit'[i].req \in Ids'
                 /\ Continues(audit'[i])
           /\ Len(audit') \in {Len(audit), Len(audit) + 1}
<1>1. audit \in Seq(Event) /\ Len(audit) \in Nat /\ DOMAIN audit = 1..Len(audit)
  BY DEF TypeOK
<1>2. CASE audit' = audit
  BY <1>1, <1>2
<1>3. CASE audit' # audit
  <2>1. PICK e \in Event : /\ audit' = Append(audit, e) /\ e.action # "confirmed"
                           /\ e.req \in Ids' /\ Continues(e)
    BY <1>3 DEF Unconfirmed
  <2>2. /\ audit' \in Seq(Event) /\ Len(audit') = Len(audit) + 1
        /\ DOMAIN audit' = 1..(Len(audit) + 1) /\ audit'[Len(audit) + 1] = e
        /\ \A i \in DOMAIN audit : audit'[i] = audit[i]
    BY <1>1, <2>1
  <2>3. \A i \in DOMAIN audit' \ DOMAIN audit : i = Len(audit) + 1
    BY <1>1, <2>2
  <2>4. \A i \in DOMAIN audit : i \in DOMAIN audit'
    BY <1>1, <2>2
  <2> QED BY <2>1, <2>2, <2>3, <2>4
<1> QED BY <1>2, <1>3

LEMMA SameConfirmations ==
    ASSUME TypeOK, Unconfirmed, NEW r
    PROVE  Confirmations(r)' = Confirmations(r)
<1>1. \A i \in DOMAIN audit : i \in DOMAIN audit' /\ audit'[i] = audit[i]
  BY UnconfirmedAudit
<1>2. \A i \in DOMAIN audit' \ DOMAIN audit : audit'[i].action # "confirmed"
  BY UnconfirmedAudit
<1>3. Confirmations(r)' = {i \in DOMAIN audit' : audit'[i].req = r /\ audit'[i].action = "confirmed"}
  BY DEF Confirmations
<1>4. \A i \in Confirmations(r)' : i \in Confirmations(r)
  BY <1>1, <1>2, <1>3 DEF Confirmations
<1>5. \A i \in Confirmations(r) : i \in Confirmations(r)'
  BY <1>1, <1>3 DEF Confirmations
<1> QED BY <1>4, <1>5

LEMMA SameConfirmedKinds ==
    ASSUME TypeOK, LogInv, Unconfirmed, NEW kinds
    PROVE  ConfirmedKinds(kinds)' = ConfirmedKinds(kinds)
<1>1. \A i \in DOMAIN audit : i \in DOMAIN audit' /\ audit'[i] = audit[i]
  BY UnconfirmedAudit
<1>2. \A i \in DOMAIN audit' \ DOMAIN audit : audit'[i].action # "confirmed"
  BY UnconfirmedAudit
<1>3. \A i \in DOMAIN audit : requests'[audit[i].req].kind = requests[audit[i].req].kind
  BY DEF LogInv, Unconfirmed
<1>4. ConfirmedKinds(kinds)' =
         {i \in DOMAIN audit' : audit'[i].action = "confirmed" /\ requests'[audit'[i].req].kind \in kinds}
  BY DEF ConfirmedKinds
<1>5. \A i \in ConfirmedKinds(kinds)' : i \in ConfirmedKinds(kinds)
  BY <1>1, <1>2, <1>3, <1>4 DEF ConfirmedKinds
<1>6. \A i \in ConfirmedKinds(kinds) : i \in ConfirmedKinds(kinds)'
  BY <1>1, <1>3, <1>4 DEF ConfirmedKinds
<1> QED BY <1>5, <1>6

LEMMA SameApplied ==
    ASSUME Unconfirmed, NEW r
    PROVE  Applied(r)' <=> Applied(r)
BY DEF Unconfirmed, Applied

(* Nothing is known yet of a request that is new.                          *)
LEMMA NewIsUnknown ==
    ASSUME TypeOK, LogInv, NEW r \in Nat \ {0}, r \notin Ids
    PROVE  Confirmations(r) = {} /\ ~ Applied(r)
<1>1. \A i \in DOMAIN audit : audit[i].req # r
  BY DEF LogInv
<1>2. Confirmations(r) = {}
  BY <1>1 DEF Confirmations
<1>3. r \notin queue
  BY DEF TypeOK
<1>4. \A i \in DOMAIN policies : policies[i].req # r
  BY DEF LogInv
<1> QED BY <1>2, <1>3, <1>4 DEF Applied

LEMMA Ends ==
    ASSUME TypeOK, EndsInv, NEW S \in SUBSET (DOMAIN audit), S # {}
    PROVE  /\ Max(S) \in S /\ \A x \in S : x <= Max(S)
           /\ Min(S) \in S /\ \A x \in S : Min(S) <= x
<1>1. S \in SUBSET (1..Len(audit)) /\ S \subseteq Nat
  BY RequestTypes
<1>2. PICK m \in S : \A x \in S : x <= m
  BY <1>1 DEF EndsInv
<1>3. PICK l \in S : \A x \in S : l <= x
  BY <1>1 DEF EndsInv
<1>4. Max(S) = m
  BY <1>1, <1>2, MaxIs
<1>5. Min(S) = l
  BY <1>1, <1>3, MinIs
<1> QED BY <1>2, <1>3, <1>4, <1>5

LEMMA EndsStep ==
    ASSUME EndsInv, NEW L \in Nat, L = Len(audit), Len(audit') \in {L, L + 1}
    PROVE  EndsInv'
<1>1. CASE Len(audit') = L
  BY <1>1 DEF EndsInv
<1>2. ASSUME Len(audit') = L + 1, NEW S \in SUBSET (1..(L + 1)), S # {}
      PROVE  (\E m \in S : \A x \in S : x <= m) /\ (\E m \in S : \A x \in S : m <= x)
  <2>1. CASE L + 1 \notin S
    <3>1. S \in SUBSET (1..L)
      BY <1>2, <2>1
    <3> QED BY <1>2, <3>1 DEF EndsInv
  <2>2. CASE L + 1 \in S
    <3> DEFINE R == S \ {L + 1}
    <3>1. \A x \in S : x \in 1..(L + 1) /\ x <= L + 1
      OBVIOUS
    <3>2. \A x \in R : x \in 1..L
      BY <3>1
    <3>3. R \in SUBSET (1..L)
      BY <3>2
    <3>4. CASE R = {}
      <4>1. S = {L + 1}
        BY <2>2, <3>4
      <4> QED BY <4>1
    <3>5. CASE R # {}
      <4>1. PICK m \in R : \A x \in R : m <= x
        BY <3>3, <3>5 DEF EndsInv
      <4>2. m \in S /\ \A x \in S : m <= x
        BY <3>1, <4>1
      <4> QED BY <2>2, <3>1, <4>2
    <3> QED BY <3>4, <3>5
  <2> QED BY <2>1, <2>2
<1>3. CASE Len(audit') = L + 1
  BY <1>2, <1>3 DEF EndsInv
<1> QED BY <1>1, <1>3

LEMMA UnconfirmedLog ==
    ASSUME TypeOK, LogInv, Unconfirmed PROVE LogInv'
<1>1. \A i \in DOMAIN audit : audit[i].req \in Ids' /\ audit'[i] = audit[i]
  BY UnconfirmedAudit DEF LogInv, Unconfirmed
<1>2. \A i \in DOMAIN audit' \ DOMAIN audit : audit'[i].req \in Ids'
  BY UnconfirmedAudit
<1>3. \A i \in DOMAIN audit' : audit'[i].req \in Ids'
  BY <1>1, <1>2
<1>4. \A i \in DOMAIN policies : policies[i].req \in Ids' \cup {0}
  BY DEF LogInv, Unconfirmed
<1>5. policies' = policies
  BY DEF Unconfirmed
<1> QED BY <1>3, <1>4, <1>5 DEF LogInv

LEMMA UnconfirmedOnce ==
    ASSUME TypeOK, LogInv, OnceInv, Unconfirmed PROVE OnceInv'
<1> SUFFICES ASSUME NEW r \in Ids'
             PROVE  /\ Applied(r)' => Confirmations(r)' # {}
                    /\ requests'[r].kind \in EffectKinds =>
                          /\ Confirmations(r)' # {} => Applied(r)'
                          /\ \A i, j \in Confirmations(r)' : i = j
  BY DEF OnceInv, EffectKinds
<1>1. Confirmations(r)' = Confirmations(r) /\ (Applied(r)' <=> Applied(r))
  BY SameConfirmations, SameApplied
<1>2. CASE r \in Ids
  <2>1. requests'[r].kind = requests[r].kind
    BY <1>2 DEF Unconfirmed
  <2> QED BY <1>1, <1>2, <2>1 DEF OnceInv
<1>3. CASE r \notin Ids
  <2>1. r \in Nat \ {0}
    BY DEF Unconfirmed, Ids
  <2>2. Confirmations(r) = {} /\ ~ Applied(r)
    BY <1>3, <2>1, NewIsUnknown
  <2> QED BY <1>1, <2>2
<1> QED BY <1>2, <1>3

LEMMA UnconfirmedStatus ==
    ASSUME TypeOK, LogInv, StatusInv, Unconfirmed PROVE StatusInv'
<1> SUFFICES ASSUME NEW r \in Ids'
             PROVE  /\ requests'[r].status = "confirmed" => Confirmations(r)' # {}
                    /\ requests'[r].status = "pending" => Confirmations(r)' = {} /\ ~ Applied(r)'
                    /\ ~ Chat(requests'[r].kind) => requests'[r].status \in {"pending", "confirmed"}
  BY DEF StatusInv, StatusHasItsEvent, Chat
<1>1. Confirmations(r)' = Confirmations(r) /\ (Applied(r)' <=> Applied(r))
  BY SameConfirmations, SameApplied
<1>2. CASE r \in Ids
  <2>1. requests'[r].kind = requests[r].kind
    BY <1>2 DEF Unconfirmed
  <2>2. \/ requests'[r].status = requests[r].status
        \/ Chat(requests[r].kind) /\ requests'[r].status \in {"cancelled", "expired"}
    BY <1>2 DEF Unconfirmed
  <2> QED BY <1>1, <1>2, <2>1, <2>2 DEF StatusInv, StatusHasItsEvent
<1>3. CASE r \notin Ids
  <2>1. r \in Nat \ {0}
    BY DEF Unconfirmed, Ids
  <2>2. Confirmations(r) = {} /\ ~ Applied(r)
    BY <1>3, <2>1, NewIsUnknown
  <2>3. requests'[r].status = "pending"
    BY <1>3 DEF Unconfirmed
  <2> QED BY <1>1, <2>2, <2>3
<1> QED BY <1>2, <1>3

LEMMA RolesStay ==
    ASSUME TypeOK, LogInv, EndsInv, LogReplaysState, Unconfirmed
    PROVE  LogReplaysState'
<1>1. /\ ConfirmedKinds(RoleKinds)' = ConfirmedKinds(RoleKinds)
      /\ ConfirmedKinds(BindKinds)' = ConfirmedKinds(BindKinds)
  BY SameConfirmedKinds
<1>2. ConfirmedKinds(RoleKinds) \subseteq DOMAIN audit /\ ConfirmedKinds(BindKinds) \subseteq DOMAIN audit
  BY DEF ConfirmedKinds
<1>3. \A i \in DOMAIN audit :
         /\ audit'[i] = audit[i]
         /\ requests'[audit[i].req].kind = requests[audit[i].req].kind
         /\ requests'[audit[i].req].target = requests[audit[i].req].target
         /\ requests'[audit[i].req].role = requests[audit[i].req].role
  BY UnconfirmedAudit DEF LogInv, Unconfirmed
<1>4. role' = role /\ bound' = bound
  BY DEF Unconfirmed
<1>5. ASSUME NEW u \in Users
      PROVE  role'[u] = LET changes == {i \in ConfirmedKinds(RoleKinds)' : requests'[audit'[i].req].target = u}
                        IN  IF changes = {} THEN InitialRole[u] ELSE requests'[audit'[Max(changes)].req].role
  <2> DEFINE S == {i \in ConfirmedKinds(RoleKinds) : requests[audit[i].req].target = u}
  <2>1. {i \in ConfirmedKinds(RoleKinds)' : requests'[audit'[i].req].target = u} = S
    BY <1>1, <1>2, <1>3
  <2>2. role[u] = IF S = {} THEN InitialRole[u] ELSE requests[audit[Max(S)].req].role
    BY DEF LogReplaysState
  <2>3. S \in SUBSET (DOMAIN audit)
    BY <1>2
  <2> HIDE DEF S
  <2>4. CASE S = {}
    BY <1>4, <2>1, <2>2, <2>4
  <2>5. CASE S # {}
    <3>1. Max(S) \in DOMAIN audit
      BY <2>3, <2>5, Ends
    <3> QED BY <1>3, <1>4, <2>1, <2>2, <2>5, <3>1
  <2> QED BY <2>4, <2>5
<1>6. ASSUME ConfirmedKinds(BindKinds)' # {}
      PROVE  bound' = (requests'[audit'[Max(ConfirmedKinds(BindKinds)')].req].kind = "bind")
  <2> DEFINE S == ConfirmedKinds(BindKinds)
  <2>1. S # {} /\ S \in SUBSET (DOMAIN audit) /\ ConfirmedKinds(BindKinds)' = S
    BY <1>1, <1>2, <1>6
  <2>2. bound = (requests[audit[Max(S)].req].kind = "bind")
    BY <2>1 DEF LogReplaysState
  <2> HIDE DEF S
  <2>3. Max(S) \in DOMAIN audit
    BY <2>1, Ends
  <2>4. requests'[audit'[Max(S)].req].kind = requests[audit[Max(S)].req].kind
    BY <1>3, <2>3
  <2> QED BY <1>4, <2>1, <2>2, <2>4
<1> QED BY <1>5, <1>6 DEF LogReplaysState

(* Who confirmed a request, as its log says.                               *)
Confirmer(r) ==
    IF Confirmations(r) = {} THEN None
    ELSE audit[IF Chat(requests[r].kind) THEN Max(Confirmations(r)) ELSE Min(Confirmations(r))].by

LEMMA ApproversAre ==
    ApproversAreOnRecord <=> \A r \in Ids : requests[r].approver = Confirmer(r)
BY DEF ApproversAreOnRecord, Confirmer

LEMMA ApproversStay ==
    ASSUME TypeOK, LogInv, EndsInv, ApproversAreOnRecord, Unconfirmed
    PROVE  ApproversAreOnRecord'
<1> SUFFICES ASSUME NEW r \in Ids' PROVE requests'[r].approver = Confirmer(r)'
  BY DEF ApproversAreOnRecord, Confirmer
<1> DEFINE S == Confirmations(r)
<1>1. Confirmations(r)' = S
  BY SameConfirmations
<1>2. S \in SUBSET (DOMAIN audit)
  BY DEF Confirmations
<1>3. \A i \in DOMAIN audit : audit'[i] = audit[i]
  BY UnconfirmedAudit
<1>4. CASE r \in Ids
  <2>1. requests'[r].kind = requests[r].kind /\ requests'[r].approver = requests[r].approver
    BY <1>4 DEF Unconfirmed
  <2>2. requests[r].approver = Confirmer(r)
    BY <1>4, ApproversAre
  <2>3. Confirmer(r)' = Confirmer(r)
    <3>1. CASE S = {}
      BY <1>1, <3>1 DEF Confirmer
    <3>2. CASE S # {}
      <4>1. Max(S) \in DOMAIN audit /\ Min(S) \in DOMAIN audit
        BY <1>2, <3>2, Ends
      <4>2. audit'[Max(S)] = audit[Max(S)] /\ audit'[Min(S)] = audit[Min(S)]
        BY <1>3, <4>1
      <4>3. Confirmer(r)' = audit'[IF Chat(requests[r].kind) THEN Max(S) ELSE Min(S)].by
        BY <1>1, <2>1, <3>2 DEF Confirmer, Chat
      <4>4. Confirmer(r) = audit[IF Chat(requests[r].kind) THEN Max(S) ELSE Min(S)].by
        BY <3>2 DEF Confirmer
      <4> QED BY <4>2, <4>3, <4>4
    <3> QED BY <3>1, <3>2
  <2> QED BY <2>1, <2>2, <2>3
<1>5. CASE r \notin Ids
  <2>1. r \in Nat \ {0}
    BY DEF Unconfirmed, Ids
  <2>2. S = {}
    BY <1>5, <2>1, NewIsUnknown
  <2>3. requests'[r].approver = None
    BY <1>5 DEF Unconfirmed
  <2>4. Confirmer(r)' = None
    BY <1>1, <2>2 DEF Confirmer
  <2> QED BY <2>3, <2>4
<1> QED BY <1>4, <1>5

LEMMA ChainStays ==
    ASSUME TypeOK, ChangesAreChained, Unconfirmed PROVE ChangesAreChained'
<1> SUFFICES ASSUME NEW i \in DOMAIN audit'
             PROVE  IF audit'[i].action = "refused" THEN audit'[i].prev < i ELSE audit'[i].prev = i - 1
  BY DEF ChangesAreChained
<1>1. CASE i \in DOMAIN audit
  BY <1>1, UnconfirmedAudit DEF ChangesAreChained
<1>2. CASE i \notin DOMAIN audit
  <2>1. i = Len(audit) + 1 /\ Continues(audit'[i]) /\ Len(audit) \in Nat
    BY <1>2, UnconfirmedAudit, RequestTypes
  <2>2. audit'[i].prev \in Nat
    <3>1. audit' \in Seq(Event)
      BY UnconfirmedAudit
    <3>2. audit'[i] \in Event
      BY <3>1
    <3> QED BY <3>2 DEF Event
  <2> QED BY <2>1, <2>2 DEF Continues
<1> QED BY <1>1, <1>2

LEMMA UnconfirmedData ==
    ASSUME TypeOK, DataInv, Unconfirmed PROVE DataInv'
<1>1. LogInv /\ OnceInv /\ StatusInv /\ EndsInv /\ LogReplaysState /\ ApproversAreOnRecord /\ ChangesAreChained
  BY DEF DataInv
<1>2. EndsInv'
  <2>1. Len(audit) \in Nat /\ Len(audit') \in {Len(audit), Len(audit) + 1}
    BY RequestTypes, UnconfirmedAudit
  <2> QED BY <1>1, <2>1, EndsStep
<1>3. LogInv' /\ OnceInv' /\ StatusInv'
  BY <1>1, UnconfirmedLog, UnconfirmedOnce, UnconfirmedStatus
<1>4. LogReplaysState' /\ ApproversAreOnRecord' /\ ChangesAreChained'
  BY <1>1, RolesStay, ApproversStay, ChainStays
<1> QED BY <1>2, <1>3, <1>4 DEF DataInv

-----------------------------------------------------------------------------
(* A confirmation keeps the invariant.                                     *)

LEMMA ConfirmedAudit ==
    ASSUME TypeOK, NEW r0 \in Ids, NEW u0 \in Users, Confirms(r0, u0), NEW n \in Nat, n = Len(audit) + 1
    PROVE  /\ audit' \in Seq(Event) /\ Len(audit') = n
           /\ DOMAIN audit = 1..(n - 1) /\ DOMAIN audit' = 1..n
           /\ \A i \in DOMAIN audit : audit'[i] = audit[i]
           /\ audit'[n].req = r0 /\ audit'[n].by = u0 /\ audit'[n].prev = n - 1
           /\ audit'[n].action = "confirmed"
<1> DEFINE e == [req |-> r0, by |-> u0, prev |-> Len(audit), action |-> "confirmed"]
<1>1. audit \in Seq(Event) /\ Len(audit) \in Nat /\ DOMAIN audit = 1..Len(audit) /\ r0 \in Nat \ {0}
  BY RequestTypes DEF TypeOK
<1>2. e \in Event /\ e.req = r0 /\ e.by = u0 /\ e.prev = n - 1 /\ e.action = "confirmed"
  BY <1>1 DEF Event
<1>3. audit' = Append(audit, e)
  BY DEF Confirms
<1> HIDE DEF e
<1>4. /\ audit' \in Seq(Event) /\ Len(audit') = n /\ DOMAIN audit' = 1..n /\ audit'[n] = e
      /\ \A i \in DOMAIN audit : audit'[i] = audit[i]
  BY <1>1, <1>2, <1>3
<1>5. DOMAIN audit = 1..(n - 1)
  BY <1>1
<1> QED BY <1>2, <1>4, <1>5

(* The confirmations of the request gain the new event; those of others    *)
(* stay.                                                                   *)
LEMMA MoreConfirmations ==
    ASSUME TypeOK, NEW r0 \in Ids, NEW u0 \in Users, Confirms(r0, u0), NEW n \in Nat, n = Len(audit) + 1
    PROVE  /\ Confirmations(r0)' = Confirmations(r0) \cup {n}
           /\ \A r \in Ids \ {r0} : Confirmations(r)' = Confirmations(r)
<1>1. /\ DOMAIN audit = 1..(n - 1) /\ DOMAIN audit' = 1..n
      /\ \A i \in DOMAIN audit : audit'[i] = audit[i]
      /\ audit'[n].req = r0 /\ audit'[n].action = "confirmed"
  BY ConfirmedAudit
<1>2. DOMAIN audit' = DOMAIN audit \cup {n} /\ n \notin DOMAIN audit
  BY <1>1
<1>3. ASSUME NEW r
      PROVE  Confirmations(r)' = Confirmations(r) \cup {i \in {n} : r = r0}
  <2>1. Confirmations(r)' = {i \in DOMAIN audit' : audit'[i].req = r /\ audit'[i].action = "confirmed"}
    BY DEF Confirmations
  <2>2. \A i \in Confirmations(r)' : i \in Confirmations(r) \cup {j \in {n} : r = r0}
    BY <1>1, <1>2, <2>1 DEF Confirmations
  <2>3. \A i \in Confirmations(r) \cup {j \in {n} : r = r0} : i \in Confirmations(r)'
    BY <1>1, <1>2, <2>1 DEF Confirmations
  <2> QED BY <2>2, <2>3
<1>4. Confirmations(r0)' = Confirmations(r0) \cup {n}
  BY <1>3
<1>5. \A r \in Ids \ {r0} : Confirmations(r)' = Confirmations(r)
  BY <1>3
<1> QED BY <1>4, <1>5

LEMMA MoreConfirmedKinds ==
    ASSUME TypeOK, LogInv, NEW r0 \in Ids, NEW u0 \in Users, Confirms(r0, u0),
           NEW n \in Nat, n = Len(audit) + 1, NEW kinds
    PROVE  ConfirmedKinds(kinds)' = ConfirmedKinds(kinds) \cup {i \in {n} : requests[r0].kind \in kinds}
<1>1. /\ DOMAIN audit = 1..(n - 1) /\ DOMAIN audit' = 1..n
      /\ \A i \in DOMAIN audit : audit'[i] = audit[i]
      /\ audit'[n].req = r0 /\ audit'[n].action = "confirmed"
  BY ConfirmedAudit
<1>2. DOMAIN audit' = DOMAIN audit \cup {n} /\ n \notin DOMAIN audit
  BY <1>1
<1>3. /\ requests'[r0].kind = requests[r0].kind
      /\ \A i \in DOMAIN audit : requests'[audit[i].req].kind = requests[audit[i].req].kind
  BY ConfirmedRequests DEF LogInv
<1>4. ConfirmedKinds(kinds)' =
         {i \in DOMAIN audit' : audit'[i].action = "confirmed" /\ requests'[audit'[i].req].kind \in kinds}
  BY DEF ConfirmedKinds
<1>5. \A i \in ConfirmedKinds(kinds)' :
         i \in ConfirmedKinds(kinds) \cup {j \in {n} : requests[r0].kind \in kinds}
  BY <1>1, <1>2, <1>3, <1>4 DEF ConfirmedKinds
<1>6. \A i \in ConfirmedKinds(kinds) \cup {j \in {n} : requests[r0].kind \in kinds} :
         i \in ConfirmedKinds(kinds)'
  BY <1>1, <1>2, <1>3, <1>4 DEF ConfirmedKinds
<1> QED BY <1>5, <1>6

(* The effect of a confirmation, and that it has no other.                 *)
LEMMA Effect ==
    ASSUME TypeOK, LogInv, NEW r0 \in Ids, NEW u0 \in Users, Confirms(r0, u0)
    PROVE  /\ requests[r0].kind \in EffectKinds => Applied(r0)'
           /\ \A r \in Ids \ {r0} : Applied(r)' <=> Applied(r)
           /\ \A i \in DOMAIN policies' : policies'[i].req \in Ids \cup {0} /\ policies'[i].version = i
           /\ \A i, j \in DOMAIN policies' : policies'[i].req = policies'[j].req => i = j
<1>1. Apply(r0, requests[r0]) /\ ~ Applied(r0) /\ requests[r0].kind \in AllKinds
  BY RequestTypes DEF Confirms, Request
<1>2. CASE requests[r0].kind \in {"chat", "card_policy"}
  <2>1. policies' = Append(policies, [req |-> r0, version |-> NextVersion(r0)]) /\ queue' = queue
    BY <1>1, <1>2 DEF Apply, RoleKinds, BindKinds
  <2> DEFINE p == [req |-> r0, version |-> NextVersion(r0)]
  <2>2. PICK L \in Nat : L = Len(policies) /\ DOMAIN policies = 1..L /\ NextVersion(r0) = L + 1
    BY ActiveIsLast DEF NextVersion
  <2>3. p.req = r0 /\ p.version = L + 1 /\ p \in Policy
    BY <2>2, RequestTypes DEF Policy
  <2> HIDE DEF p
  <2>4. /\ DOMAIN policies' = 1..(L + 1) /\ policies'[L + 1] = p
        /\ \A i \in DOMAIN policies : policies'[i] = policies[i]
    BY <2>1, <2>2, <2>3 DEF TypeOK, p
  <2>5. \A i \in DOMAIN policies' : i \in DOMAIN policies \/ i = L + 1
    BY <2>2, <2>4
  <2>6. L + 1 \in DOMAIN policies' /\ \A i \in DOMAIN policies : i \in DOMAIN policies'
    BY <2>2, <2>4
  <2>7. \A i \in DOMAIN policies : policies[i].req # r0
    BY <1>1 DEF Applied
  <2>8. Applied(r0)'
    BY <2>3, <2>4, <2>6 DEF Applied
  <2>9. \A r \in Ids \ {r0} : Applied(r)' <=> Applied(r)
    BY <2>1, <2>3, <2>4, <2>5, <2>6 DEF Applied
  <2>10. \A i \in DOMAIN policies' : policies'[i].req \in Ids \cup {0} /\ policies'[i].version = i
    BY <2>3, <2>4, <2>5 DEF LogInv
  <2>11. \A i, j \in DOMAIN policies' : policies'[i].req = policies'[j].req => i = j
    BY <2>3, <2>4, <2>5, <2>7 DEF LogInv
  <2> QED BY <2>8, <2>9, <2>10, <2>11
<1>3. CASE requests[r0].kind = "card_role"
  <2>1. queue' = queue \cup {r0} /\ policies' = policies
    BY <1>1, <1>3 DEF Apply, RoleKinds, BindKinds
  <2> QED BY <2>1 DEF Applied, LogInv
<1>4. CASE requests[r0].kind \notin EffectKinds
  <2>1. queue' = queue /\ policies' = policies
    BY <1>1, <1>4 DEF Apply, RoleKinds, BindKinds, EffectKinds, AllKinds, CardKinds
  <2> QED BY <1>4, <2>1 DEF Applied, LogInv
<1> QED BY <1>2, <1>3, <1>4 DEF EffectKinds

LEMMA ConfirmedLog ==
    ASSUME TypeOK, LogInv, NEW r0 \in Ids, NEW u0 \in Users, Confirms(r0, u0) PROVE LogInv'
<1>1. PICK n \in Nat : n = Len(audit) + 1
  BY RequestTypes
<1>2. /\ DOMAIN audit = 1..(n - 1) /\ DOMAIN audit' = 1..n /\ audit'[n].req = r0
      /\ \A i \in DOMAIN audit : audit'[i] = audit[i]
  BY <1>1, ConfirmedAudit
<1>3. Ids' = Ids
  BY ConfirmedRequests
<1>4. \A i \in DOMAIN audit' : i \in DOMAIN audit \/ i = n
  BY <1>2
<1>5. \A i \in DOMAIN audit' : audit'[i].req \in Ids'
  BY <1>2, <1>3, <1>4 DEF LogInv
<1> QED BY <1>3, <1>5, Effect DEF LogInv

LEMMA ConfirmedOnce ==
    ASSUME TypeOK, LogInv, OnceInv, NEW r0 \in Ids, NEW u0 \in Users, Confirms(r0, u0) PROVE OnceInv'
<1>1. PICK n \in Nat : n = Len(audit) + 1
  BY RequestTypes
<1>2. /\ Confirmations(r0)' = Confirmations(r0) \cup {n}
      /\ \A r \in Ids \ {r0} : Confirmations(r)' = Confirmations(r)
  BY <1>1, MoreConfirmations
<1>3. Ids' = Ids /\ \A r \in Ids : requests'[r].kind = requests[r].kind
  BY ConfirmedRequests
<1>4. /\ requests[r0].kind \in EffectKinds => Applied(r0)'
      /\ \A r \in Ids \ {r0} : Applied(r)' <=> Applied(r)
  BY Effect
<1>5. requests[r0].kind \in EffectKinds => Confirmations(r0)' = {n}
  BY <1>2 DEF OnceInv, Confirms
<1> SUFFICES ASSUME NEW r \in Ids
             PROVE  /\ Applied(r)' => Confirmations(r)' # {}
                    /\ requests'[r].kind \in EffectKinds =>
                          /\ Confirmations(r)' # {} => Applied(r)'
                          /\ \A i, j \in Confirmations(r)' : i = j
  BY <1>3 DEF OnceInv, EffectKinds
<1>6. CASE r = r0
  BY <1>2, <1>3, <1>4, <1>5, <1>6
<1>7. CASE r # r0
  BY <1>2, <1>3, <1>4, <1>7 DEF OnceInv
<1> QED BY <1>6, <1>7

LEMMA ConfirmedStatus ==
    ASSUME TypeOK, LogInv, StatusInv, NEW r0 \in Ids, NEW u0 \in Users, Confirms(r0, u0) PROVE StatusInv'
<1>1. PICK n \in Nat : n = Len(audit) + 1
  BY RequestTypes
<1>2. /\ Confirmations(r0)' = Confirmations(r0) \cup {n}
      /\ \A r \in Ids \ {r0} : Confirmations(r)' = Confirmations(r)
  BY <1>1, MoreConfirmations
<1>3. /\ Ids' = Ids /\ \A r \in Ids : requests'[r].kind = requests[r].kind
      /\ \A r \in Ids \ {r0} : requests'[r] = requests[r]
      /\ Updated(requests[r0]) => requests'[r0].status = "confirmed"
      /\ ~ Updated(requests[r0]) => requests'[r0] = requests[r0]
  BY ConfirmedRequests
<1>4. \A r \in Ids \ {r0} : Applied(r)' <=> Applied(r)
  BY Effect
<1>5. requests'[r0].status = "confirmed"
  BY <1>3 DEF Updated, StatusInv
<1> SUFFICES ASSUME NEW r \in Ids
             PROVE  /\ requests'[r].status = "confirmed" => Confirmations(r)' # {}
                    /\ requests'[r].status = "pending" => Confirmations(r)' = {} /\ ~ Applied(r)'
                    /\ ~ Chat(requests'[r].kind) => requests'[r].status \in {"pending", "confirmed"}
  BY <1>3 DEF StatusInv, StatusHasItsEvent, Chat
<1>6. CASE r = r0
  BY <1>2, <1>5, <1>6
<1>7. CASE r # r0
  BY <1>2, <1>3, <1>4, <1>7 DEF StatusInv, StatusHasItsEvent
<1> QED BY <1>6, <1>7

LEMMA LastIsMax ==
    ASSUME TypeOK, NEW S \in SUBSET (DOMAIN audit), NEW n \in Nat, n = Len(audit) + 1
    PROVE  Max(S \cup {n}) = n
<1>1. DOMAIN audit = 1..Len(audit) /\ Len(audit) \in Nat
  BY RequestTypes
<1>2. \A x \in S \cup {n} : x \in Nat /\ x <= n
  BY <1>1
<1>3. S \cup {n} \subseteq Nat /\ n \in S \cup {n}
  BY <1>2
<1> QED BY <1>2, <1>3, MaxIs

LEMMA RolesFollow ==
    ASSUME TypeOK, LogInv, EndsInv, LogReplaysState, NEW r0 \in Ids, NEW u0 \in Users, Confirms(r0, u0)
    PROVE  LogReplaysState'
<1> DEFINE q == requests[r0]
<1>1. PICK n \in Nat : n = Len(audit) + 1
  BY RequestTypes
<1>2. /\ DOMAIN audit = 1..(n - 1) /\ audit'[n].req = r0 /\ n \notin DOMAIN audit
      /\ \A i \in DOMAIN audit : audit'[i] = audit[i]
  BY <1>1, ConfirmedAudit
<1>3. \A r \in Ids : /\ requests'[r].kind = requests[r].kind /\ requests'[r].target = requests[r].target
                     /\ requests'[r].role = requests[r].role
  BY ConfirmedRequests
<1>4. \A i \in DOMAIN audit :
         /\ audit'[i] = audit[i]
         /\ requests'[audit[i].req].kind = requests[audit[i].req].kind
         /\ requests'[audit[i].req].target = requests[audit[i].req].target
         /\ requests'[audit[i].req].role = requests[audit[i].req].role
  BY <1>2, <1>3 DEF LogInv
<1>5. /\ ConfirmedKinds(RoleKinds)' = ConfirmedKinds(RoleKinds) \cup {i \in {n} : q.kind \in RoleKinds}
      /\ ConfirmedKinds(BindKinds)' = ConfirmedKinds(BindKinds) \cup {i \in {n} : q.kind \in BindKinds}
  BY <1>1, MoreConfirmedKinds
<1>6. ConfirmedKinds(RoleKinds) \subseteq DOMAIN audit /\ ConfirmedKinds(BindKinds) \subseteq DOMAIN audit
  BY DEF ConfirmedKinds
<1>7. Apply(r0, q) /\ q.kind \in AllKinds
  BY RequestTypes DEF Confirms, Request
<1>8. ASSUME NEW u \in Users
      PROVE  role'[u] = LET changes == {i \in ConfirmedKinds(RoleKinds)' : requests'[audit'[i].req].target = u}
                        IN  IF changes = {} THEN InitialRole[u] ELSE requests'[audit'[Max(changes)].req].role
  <2> DEFINE S == {i \in ConfirmedKinds(RoleKinds) : requests[audit[i].req].target = u}
             T == {i \in ConfirmedKinds(RoleKinds)' : requests'[audit'[i].req].target = u}
  <2>1. T = S \cup {i \in {n} : q.kind \in RoleKinds /\ q.target = u}
    <3>1. \A i \in T : i \in S \cup {j \in {n} : q.kind \in RoleKinds /\ q.target = u}
      BY <1>2, <1>3, <1>4, <1>5, <1>6
    <3>2. \A i \in S : i \in T
      BY <1>4, <1>5, <1>6
    <3>3. q.kind \in RoleKinds /\ q.target = u => n \in T
      BY <1>2, <1>3, <1>5
    <3> QED BY <3>1, <3>2, <3>3
  <2>2. role[u] = IF S = {} THEN InitialRole[u] ELSE requests[audit[Max(S)].req].role
    BY DEF LogReplaysState
  <2>3. S \in SUBSET (DOMAIN audit)
    BY <1>6
  <2>4. SUFFICES role'[u] = IF T = {} THEN InitialRole[u] ELSE requests'[audit'[Max(T)].req].role
    OBVIOUS
  <2>5. CASE q.kind \in RoleKinds /\ q.target = u
    <3>1. T = S \cup {n}
      BY <2>1, <2>5
    <3>2. Max(T) = n
      BY <1>1, <2>3, <3>1, LastIsMax
    <3>3. T # {}
      BY <3>1
    <3>4. role'[u] = q.role
      <4>1. role' = [role EXCEPT ![q.target] = q.role]
        BY <1>7, <2>5 DEF Apply, RoleAfter, RoleKinds, BindKinds
      <4> QED BY <2>5, <4>1 DEF TypeOK
    <3>5. requests'[audit'[n].req].role = q.role
      BY <1>2, <1>3
    <3> HIDE DEF S, T, q
    <3> QED BY <3>2, <3>3, <3>4, <3>5
  <2>6. CASE ~ (q.kind \in RoleKinds /\ q.target = u)
    <3>1. T = S
      BY <2>1, <2>6
    <3>2. role'[u] = role[u]
      <4>1. CASE q.kind \in RoleKinds
        <5>1. role' = [role EXCEPT ![q.target] = q.role]
          BY <1>7, <4>1 DEF Apply, RoleAfter, RoleKinds, BindKinds
        <5> QED BY <2>6, <4>1, <5>1 DEF TypeOK
      <4>2. CASE q.kind \notin RoleKinds
        BY <1>7, <4>2 DEF Apply, RoleKinds, BindKinds, AllKinds, CardKinds
      <4> QED BY <4>1, <4>2
    <3> HIDE DEF S, T, q
    <3>3. CASE S = {}
      BY <2>2, <3>1, <3>2, <3>3
    <3>4. CASE S # {}
      <4>1. Max(S) \in DOMAIN audit
        BY <2>3, <3>4, Ends
      <4> QED BY <1>4, <2>2, <3>1, <3>2, <3>4, <4>1
    <3> QED BY <3>3, <3>4
  <2> QED BY <2>5, <2>6
<1>9. ASSUME ConfirmedKinds(BindKinds)' # {}
      PROVE  bound' = (requests'[audit'[Max(ConfirmedKinds(BindKinds)')].req].kind = "bind")
  <2> DEFINE S == ConfirmedKinds(BindKinds)
             T == ConfirmedKinds(BindKinds)'
  <2>1. S \in SUBSET (DOMAIN audit)
    BY <1>6
  <2>2. CASE q.kind \in BindKinds
    <3>1. T = S \cup {n}
      BY <1>5, <2>2
    <3>2. Max(T) = n
      BY <1>1, <2>1, <3>1, LastIsMax
    <3>3. bound' = (q.kind = "bind")
      BY <1>7, <2>2 DEF Apply, RoleKinds, BindKinds
    <3>4. requests'[audit'[n].req].kind = q.kind
      BY <1>2, <1>3
    <3> HIDE DEF S, T, q
    <3> QED BY <3>2, <3>3, <3>4 DEF T
  <2>3. CASE q.kind \notin BindKinds
    <3>1. T = S /\ S # {}
      BY <1>5, <1>9, <2>3
    <3>2. bound' = bound
      BY <1>7, <2>3 DEF Apply, RoleKinds, BindKinds, AllKinds, CardKinds
    <3>3. bound = (requests[audit[Max(S)].req].kind = "bind")
      BY <3>1 DEF LogReplaysState
    <3> HIDE DEF S, q
    <3>4. Max(S) \in DOMAIN audit
      BY <2>1, <3>1, Ends
    <3>5. requests'[audit'[Max(S)].req].kind = requests[audit[Max(S)].req].kind
      BY <1>4, <3>4
    <3> QED BY <3>1, <3>2, <3>3, <3>5
  <2> QED BY <2>2, <2>3
<1> QED BY <1>8, <1>9 DEF LogReplaysState

LEMMA ApproversFollow ==
    ASSUME TypeOK, LogInv, EndsInv, StatusInv, ApproversAreOnRecord,
           NEW r0 \in Ids, NEW u0 \in Users, Confirms(r0, u0)
    PROVE  ApproversAreOnRecord'
<1>1. PICK n \in Nat : n = Len(audit) + 1
  BY RequestTypes
<1>2. /\ DOMAIN audit = 1..(n - 1) /\ audit'[n].by = u0
      /\ \A i \in DOMAIN audit : audit'[i] = audit[i]
  BY <1>1, ConfirmedAudit
<1>3. /\ Ids' = Ids /\ \A r \in Ids : requests'[r].kind = requests[r].kind
      /\ \A r \in Ids \ {r0} : requests'[r] = requests[r]
      /\ Updated(requests[r0]) => requests'[r0].approver = u0
      /\ ~ Updated(requests[r0]) => requests'[r0] = requests[r0]
  BY ConfirmedRequests
<1>4. /\ Confirmations(r0)' = Confirmations(r0) \cup {n}
      /\ \A r \in Ids \ {r0} : Confirmations(r)' = Confirmations(r)
  BY <1>1, MoreConfirmations
<1> SUFFICES ASSUME NEW r \in Ids PROVE requests'[r].approver = Confirmer(r)'
  BY <1>3 DEF ApproversAreOnRecord, Confirmer
<1> DEFINE S == Confirmations(r)
<1>5. S \in SUBSET (DOMAIN audit)
  BY DEF Confirmations
<1>6. requests[r].approver = Confirmer(r)
  BY ApproversAre
<1>7. requests'[r].kind = requests[r].kind
  BY <1>3
<1>8. CASE r # r0
  <2>1. Confirmations(r)' = S /\ requests'[r].approver = requests[r].approver
    BY <1>3, <1>4, <1>8
  <2>2. CASE S = {}
    BY <1>6, <2>1, <2>2 DEF Confirmer
  <2>3. CASE S # {}
    <3>1. Max(S) \in DOMAIN audit /\ Min(S) \in DOMAIN audit
      BY <1>5, <2>3, Ends
    <3>2. audit'[Max(S)] = audit[Max(S)] /\ audit'[Min(S)] = audit[Min(S)]
      BY <1>2, <3>1
    <3>3. Confirmer(r)' = audit'[IF Chat(requests[r].kind) THEN Max(S) ELSE Min(S)].by
      BY <1>7, <2>1, <2>3 DEF Confirmer, Chat
    <3>4. Confirmer(r) = audit[IF Chat(requests[r].kind) THEN Max(S) ELSE Min(S)].by
      BY <2>3 DEF Confirmer
    <3> QED BY <1>6, <2>1, <3>2, <3>3, <3>4
  <2> QED BY <2>2, <2>3
<1>9. CASE r = r0
  <2>1. Confirmations(r)' = S \cup {n}
    BY <1>4, <1>9
  <2>2. Confirmer(r)' = audit'[IF Chat(requests[r].kind) THEN Max(S \cup {n}) ELSE Min(S \cup {n})].by
    BY <1>7, <2>1 DEF Confirmer, Chat
  <2>3. CASE Chat(requests[r].kind)
    <3>1. Max(S \cup {n}) = n
      BY <1>1, <1>5, LastIsMax
    <3>2. requests'[r].approver = u0
      BY <1>3, <1>9, <2>3 DEF Updated
    <3> QED BY <1>2, <2>2, <2>3, <3>1, <3>2
  <2>4. CASE ~ Chat(requests[r].kind) /\ requests[r].status = "pending"
    <3>1. S = {}
      BY <2>4 DEF StatusInv, StatusHasItsEvent
    <3>2. Min(S \cup {n}) = n
      <4>1. {n} \subseteq Nat /\ n \in {n} /\ (\A x \in {n} : n <= x)
        OBVIOUS
      <4>2. S \cup {n} = {n}
        BY <3>1
      <4> QED BY <4>1, <4>2, MinIs
    <3>3. requests'[r].approver = u0
      BY <1>3, <1>9, <2>4 DEF Updated
    <3> QED BY <1>2, <2>2, <2>4, <3>2, <3>3
  <2>5. CASE ~ Chat(requests[r].kind) /\ requests[r].status # "pending"
    <3>1. S # {}
      BY <2>5 DEF StatusInv, StatusHasItsEvent
    <3>2. Min(S) \in S /\ \A x \in S : Min(S) <= x
      BY <1>5, <3>1, Ends
    <3>3. \A x \in S : x \in Nat /\ x <= n
      BY <1>2, <1>5
    <3>4. /\ S \cup {n} \subseteq Nat /\ Min(S) \in S \cup {n}
          /\ \A x \in S \cup {n} : Min(S) <= x
      BY <3>2, <3>3
    <3>5. Min(S \cup {n}) = Min(S)
      BY <3>4, MinIs
    <3>6. requests'[r].approver = requests[r].approver
      BY <1>3, <1>9, <2>5 DEF Updated
    <3>7. Confirmer(r) = audit[Min(S)].by
      BY <2>5, <3>1 DEF Confirmer
    <3>8. audit'[Min(S)] = audit[Min(S)]
      BY <1>2, <1>5, <3>2
    <3>9. Confirmer(r)' = audit'[Min(S)].by
      BY <2>2, <2>5, <3>5
    <3> QED BY <1>6, <3>6, <3>7, <3>8, <3>9
  <2> QED BY <2>3, <2>4, <2>5
<1> QED BY <1>8, <1>9

LEMMA ConfirmedChain ==
    ASSUME TypeOK, ChangesAreChained, NEW r0 \in Ids, NEW u0 \in Users, Confirms(r0, u0)
    PROVE  ChangesAreChained'
<1>1. PICK n \in Nat : n = Len(audit) + 1
  BY RequestTypes
<1>2. /\ DOMAIN audit = 1..(n - 1) /\ DOMAIN audit' = 1..n
      /\ \A i \in DOMAIN audit : audit'[i] = audit[i]
      /\ audit'[n].prev = n - 1 /\ audit'[n].action = "confirmed"
  BY <1>1, ConfirmedAudit
<1>3. \A i \in DOMAIN audit' : i \in DOMAIN audit \/ i = n
  BY <1>2
<1> QED BY <1>2, <1>3 DEF ChangesAreChained

LEMMA ConfirmedData ==
    ASSUME TypeOK, DataInv, NEW r0 \in Ids, NEW u0 \in Users, Confirms(r0, u0) PROVE DataInv'
<1>1. LogInv /\ OnceInv /\ StatusInv /\ EndsInv /\ LogReplaysState /\ ApproversAreOnRecord /\ ChangesAreChained
  BY DEF DataInv
<1>2. EndsInv'
  <2>1. Len(audit) \in Nat /\ Len(audit') = Len(audit) + 1
    BY RequestTypes, ConfirmedAudit
  <2> QED BY <1>1, <2>1, EndsStep
<1>3. LogInv' /\ OnceInv' /\ StatusInv'
  BY <1>1, ConfirmedLog, ConfirmedOnce, ConfirmedStatus
<1>4. LogReplaysState' /\ ApproversAreOnRecord' /\ ChangesAreChained'
  BY <1>1, RolesFollow, ApproversFollow, ConfirmedChain
<1> QED BY <1>2, <1>3, <1>4 DEF DataInv

LEMMA DataStep ==
    ASSUME TypeOK, HeldInv, DataInv, [Next]_vars PROVE DataInv'
<1>1. CASE \E w \in Workers : ConfirmRequest(w)
  <2>1. PICK w \in Workers : ConfirmRequest(w)
    BY <1>1
  <2>2. HeldOK(w)
    BY DEF HeldInv
  <2>3. PICK r0 \in Ids, u0 \in Users : Confirms(r0, u0)
    <3>1. Confirms(wk[w].req, wk[w].actor)
      BY <2>1, <2>2, ConfirmConfirms
    <3>2. wk[w].req \in Ids /\ wk[w].actor \in Users
      BY <3>1 DEF Confirms
    <3> QED BY <3>1, <3>2
  <2> QED BY <2>3, ConfirmedData
<1>2. CASE ~ \E w \in Workers : ConfirmRequest(w)
  BY <1>2, RestIsUnconfirmed, UnconfirmedData
<1> QED BY <1>1, <1>2

-----------------------------------------------------------------------------
(* Types.                                                                  *)

LEMMA TablesTyped ==
    ASSUME TypeOK, HeldInv, DataInv, [Next]_vars
    PROVE  /\ requests' \in Seq(Request) /\ role' \in [Users -> Roles \cup {"none"}]
           /\ bound' \in BOOLEAN /\ policies' \in Seq(Policy) /\ queue' \subseteq Ids'
           /\ audit' \in Seq(Event)
           /\ \A r \in Ids : r \in Ids' /\ requests'[r].kind = requests[r].kind
           /\ Len(audit) <= Len(audit')
<1>1. CASE \E w \in Workers : ConfirmRequest(w)
  <2>1. PICK w \in Workers : ConfirmRequest(w)
    BY <1>1
  <2>2. HeldOK(w)
    BY DEF HeldInv
  <2>3. PICK r0 \in Ids, u0 \in Users : Confirms(r0, u0)
    <3>1. Confirms(wk[w].req, wk[w].actor)
      BY <2>1, <2>2, ConfirmConfirms
    <3>2. wk[w].req \in Ids /\ wk[w].actor \in Users
      BY <3>1 DEF Confirms
    <3> QED BY <3>1, <3>2
  <2>4. LogInv
    BY DEF DataInv
  <2>5. Len(audit') = Len(audit) + 1 /\ Len(audit) \in Nat
    BY <2>3, ConfirmedAudit, RequestTypes
  <2> QED BY <2>3, <2>4, <2>5, ConfirmedRequests, ConfirmedTypes
<1>2. CASE ~ \E w \in Workers : ConfirmRequest(w)
  <2>1. Unconfirmed
    BY <1>2, RestIsUnconfirmed
  <2>2. Len(audit') \in {Len(audit), Len(audit) + 1} /\ Len(audit) \in Nat /\ audit' \in Seq(Event)
    BY <2>1, UnconfirmedAudit, RequestTypes
  <2>3. /\ requests' \in Seq(Request) /\ UNCHANGED <<role, bound, policies, queue>>
        /\ \A r \in Ids : r \in Ids' /\ requests'[r].kind = requests[r].kind
    BY <2>1 DEF Unconfirmed
  <2>4. Len(audit) <= Len(audit')
    BY <2>2
  <2> QED BY <2>2, <2>3, <2>4 DEF TypeOK
<1> QED BY <1>1, <1>2

LEMMA LapsedTyped ==
    ASSUME TypeOK, [Next]_vars, \A r \in Ids : r \in Ids'
    PROVE  lapsed' \subseteq Ids'
<1>1. CASE Lapse
  <2>1. PICK r \in Ids \ lapsed : lapsed' = lapsed \cup {r}
    BY <1>1 DEF Lapse
  <2> QED BY <2>1 DEF TypeOK
<1>2. CASE ~ Lapse
  <2>1. lapsed' = lapsed
    BY <1>2 DEF Next, Start, Step, Ask, Command, CreateRequest, ReadDirect, ReadOwner, ReadRow,
                ReadMember, ReadPolicy, ConfirmRequest, RollBack, CancelRequest, ExpireRequest,
                ReadHead, LogRefusal, Crash, vars
  <2> QED BY <2>1 DEF TypeOK
<1> QED BY <1>1, <1>2

(* A process that goes on, or comes to hold a request.                     *)
Moves(w) ==
    \/ \E step \in Pcs \ {"create", "log"} :
          /\ Goto(w, step)
          /\ step # "idle" => ~ At(w, "idle") /\ ~ At(w, "create")
          /\ step \in {"expire", "expire_direct"} => Chat(Mine(w).kind)
    \/ \E p \in Process :
          /\ wk' = [wk EXCEPT ![w] = p]
          /\ \/ /\ p.pc = "create" /\ p.actor \in Users /\ p.draft \in Request
                /\ p.draft.status = "pending" /\ p.draft.approver = None
             \/ /\ p.pc \in Pcs \ {"idle", "create", "expire", "expire_direct", "log"}
                /\ p.actor \in Users /\ p.req \in Ids
                /\ p.cmd = "cancel" => Chat(requests[p.req].kind)
             \/ /\ p.pc = "log" /\ ~ At(w, "idle") /\ ~ At(w, "create")
                /\ p.actor = wk[w].actor /\ p.req = wk[w].req /\ p.cmd = wk[w].cmd
                /\ p.head = Len(audit)

LEMMA StartMoves ==
    ASSUME TypeOK, LogInv, NEW w \in Workers, Start(w)
    PROVE  Moves(w)
<1>1. ASSUME NEW u \in Askers, Ask(w, u) PROVE Moves(w)
  <2>1. PICK d \in Drafts(u) : wk' = [wk EXCEPT ![w] = [Idle EXCEPT !.pc = "create", !.actor = u, !.draft = d]]
    BY <1>1 DEF Ask
  <2>2. u \in Users
    BY BoundsAssumption
  <2>3. d \in Request /\ d.status = "pending" /\ d.approver = None
    BY <2>2, DraftsAreRequests
  <2> DEFINE p == [Idle EXCEPT !.pc = "create", !.actor = u, !.draft = d]
  <2>4. p \in Process /\ p.pc = "create" /\ p.actor = u /\ p.draft = d
    <3>1. Idle \in Process
      BY IdleType
    <3> QED BY <2>2, <2>3, <3>1 DEF Process
  <2> HIDE DEF p
  <2>5. wk' = [wk EXCEPT ![w] = p]
    BY <2>1 DEF p
  <2> QED BY <2>2, <2>3, <2>4, <2>5 DEF Moves
<1>2. ASSUME NEW u \in Users, NEW cmd \in {"confirm", "cancel"}, NEW r \in Ids, Command(w, u, cmd, r)
      PROVE  Moves(w)
  <2>1. PICK step \in {"direct", "row"} :
            wk' = [wk EXCEPT ![w] = [Idle EXCEPT !.pc = step, !.cmd = cmd, !.actor = u,
                                                 !.rank = RankOf(u), !.req = r]]
    BY <1>2 DEF Command
  <2>2. cmd = "cancel" => Chat(requests[r].kind)
    BY <1>2 DEF Command
  <2>3. RankOf(u) \in Roles \cup {"admin", "none"} /\ r \in Nat
    BY RequestTypes DEF RankOf, TypeOK
  <2> DEFINE p == [Idle EXCEPT !.pc = step, !.cmd = cmd, !.actor = u, !.rank = RankOf(u), !.req = r]
  <2>4. p \in Process /\ p.pc = step /\ p.actor = u /\ p.req = r /\ p.cmd = cmd
    <3>1. Idle \in Process
      BY IdleType
    <3> QED BY <2>3, <3>1 DEF Process
  <2> HIDE DEF p
  <2>5. wk' = [wk EXCEPT ![w] = p]
    BY <2>1 DEF p
  <2>6. p.pc \in Pcs \ {"idle", "create", "expire", "expire_direct", "log"}
    BY <2>4 DEF Pcs
  <2> QED BY <2>2, <2>4, <2>5, <2>6 DEF Moves
<1> QED BY <1>1, <1>2 DEF Start

LEMMA IdleMoves ==
    ASSUME NEW w \in Workers, Goto(w, "idle") PROVE Moves(w)
<1>1. "idle" \in Pcs \ {"create", "log"}
  BY DEF Pcs
<1> QED BY <1>1 DEF Moves

LEMMA GoMoves ==
    ASSUME NEW w \in Workers, NEW step \in Pcs \ {"create", "log"}, Goto(w, step),
           ~ At(w, "idle"), ~ At(w, "create"),
           step \in {"expire", "expire_direct"} => Chat(Mine(w).kind)
    PROVE  Moves(w)
BY DEF Moves

(* A process that looks again at the request it serves.                    *)
LEMMA LookMoves ==
    ASSUME TypeOK, NEW w \in Workers, HeldOK(w), ~ At(w, "idle"), ~ At(w, "create"),
           NEW step \in {"owner", "row"}, NEW late \in BOOLEAN, NEW pending \in BOOLEAN,
           wk' = [wk EXCEPT ![w] = [wk[w] EXCEPT !.pc = step, !.late = late, !.pending = pending]]
    PROVE  Moves(w)
<1>1. wk[w].actor \in Users /\ wk[w].req \in Ids /\ (wk[w].cmd = "cancel" => Chat(requests[wk[w].req].kind))
  BY DEF HeldOK, Mine
<1>2. step \in Pcs /\ step \in Pcs \ {"idle", "create", "expire", "expire_direct", "log"}
  BY DEF Pcs
<1> DEFINE p == [wk[w] EXCEPT !.pc = step, !.late = late, !.pending = pending]
<1>3. p \in Process /\ p.pc = step /\ p.actor = wk[w].actor /\ p.req = wk[w].req /\ p.cmd = wk[w].cmd
  <2>1. wk[w] \in Process
    BY DEF TypeOK
  <2> QED BY <1>2, <2>1 DEF Process, Pcs
<1>4. wk' = [wk EXCEPT ![w] = p]
  OBVIOUS
<1> HIDE DEF p
<1> QED BY <1>1, <1>2, <1>3, <1>4 DEF Moves

LEMMA StepMoves ==
    ASSUME TypeOK, NEW w \in Workers, HeldOK(w), Step(w)
    PROVE  Moves(w)
<1>1. CASE CreateRequest(w) \/ ConfirmRequest(w) \/ RollBack(w)
  BY <1>1, IdleMoves DEF CreateRequest, ConfirmRequest, RollBack
<1>2. CASE CancelRequest(w) \/ ExpireRequest(w) \/ LogRefusal(w)
  BY <1>2, IdleMoves DEF CancelRequest, ExpireRequest, LogRefusal
<1>3. CASE ReadDirect(w)
  <2>1. ~ At(w, "idle") /\ ~ At(w, "create")
    BY <1>3 DEF ReadDirect, At
  <2>2. PICK late \in BOOLEAN, pending \in BOOLEAN :
            wk' = [wk EXCEPT ![w] = [wk[w] EXCEPT !.pc = "owner", !.late = late, !.pending = pending]]
    <3>1. wk' = [wk EXCEPT ![w] = [wk[w] EXCEPT !.pc = "owner", !.late = wk[w].req \in lapsed,
                                                !.pending = Mine(w).status = "pending"]]
      BY <1>3 DEF ReadDirect
    <3>2. (wk[w].req \in lapsed) \in BOOLEAN /\ (Mine(w).status = "pending") \in BOOLEAN
      OBVIOUS
    <3> QED BY <3>1, <3>2
  <2>3. "owner" \in {"owner", "row"}
    OBVIOUS
  <2> QED BY <2>1, <2>2, <2>3, LookMoves
<1>4. CASE ReadOwner(w)
  <2>1. ~ At(w, "idle") /\ ~ At(w, "create")
    BY <1>4 DEF ReadOwner, At
  <2>3. CASE Mine(w).kind = "role" /\ LowersOwner(Mine(w))
    <3>1. Chat(Mine(w).kind)
      BY <2>3 DEF Chat, RoleKinds
    <3>2. \E step \in {"idle", "expire_direct", "write"} : Goto(w, step)
      BY <1>4, <2>3 DEF ReadOwner
    <3>3. {"idle", "expire_direct", "write"} \subseteq Pcs \ {"create", "log"}
      BY DEF Pcs
    <3> QED BY <2>1, <3>1, <3>2, <3>3, GoMoves
  <2>4. CASE ~ (Mine(w).kind = "role" /\ LowersOwner(Mine(w)))
    <3>1. wk' = [wk EXCEPT ![w] = [wk[w] EXCEPT !.pc = "row", !.late = FALSE, !.pending = FALSE]]
      BY <1>4, <2>4 DEF ReadOwner
    <3>2. "row" \in {"owner", "row"} /\ FALSE \in BOOLEAN
      OBVIOUS
    <3> QED BY <2>1, <3>1, <3>2, LookMoves
  <2> QED BY <2>3, <2>4
<1>5. CASE ReadRow(w)
  <2>1. ~ At(w, "idle") /\ ~ At(w, "create")
    BY <1>5 DEF ReadRow, At
  <2>2. wk[w].req \in Ids
    BY <2>1 DEF HeldOK
  <2> DEFINE q == Mine(w)
  <2>3. q.kind \in AllKinds
    BY <2>2, RequestTypes DEF Mine, Request
  <2>4. ASSUME NEW late, NEW pending, NEW step \in AfterConfirmRow(wk[w], q, late, pending)
        PROVE  /\ step \in {"head", "idle", "write", "policy", "expire", "member"}
               /\ step = "expire" => Chat(q.kind)
    <3>1. CASE q.kind \in CardKinds
      BY <2>4, <3>1 DEF AfterConfirmRow
    <3>2. CASE q.kind = "formal"
      BY <2>4, <3>2 DEF AfterConfirmRow, CardKinds
    <3>3. CASE q.kind \notin CardKinds /\ q.kind # "formal"
      <4>1. Chat(q.kind)
        BY <2>3, <3>3 DEF Chat, AllKinds
      <4>2. step \in {"head", "idle", "write", "policy", "expire", "member"}
        BY <2>4, <3>3 DEF AfterConfirmRow
      <4> QED BY <4>1, <4>2
    <3> QED BY <3>1, <3>2, <3>3
  <2>5. ASSUME NEW pending, NEW step \in AfterCancelRow(wk[w], q, pending)
        PROVE  step \in {"head", "idle", "write"}
    BY <2>5 DEF AfterCancelRow
  <2>6. PICK step : /\ Goto(w, step)
                    /\ step \in {"head", "idle", "write", "policy", "expire", "member"}
                    /\ step = "expire" => Chat(q.kind)
    BY <1>5, <2>4, <2>5 DEF ReadRow
  <2>7. step \in Pcs \ {"create", "log"} /\ step # "expire_direct"
    BY <2>6 DEF Pcs
  <2> QED BY <2>1, <2>6, <2>7, GoMoves
<1>6. CASE ReadMember(w) \/ ReadPolicy(w)
  <2>1. ~ At(w, "idle") /\ ~ At(w, "create")
    BY <1>6 DEF ReadMember, ReadPolicy, At
  <2>2. PICK step \in {"idle", "head", "write"} : Goto(w, step)
    BY <1>6 DEF ReadMember, ReadPolicy
  <2>3. step \in Pcs \ {"create", "log"}
    BY DEF Pcs
  <2> QED BY <2>1, <2>2, <2>3, GoMoves
<1>7. CASE ReadHead(w)
  <2>1. ~ At(w, "idle") /\ ~ At(w, "create")
    BY <1>7 DEF ReadHead, At
  <2> DEFINE p == [wk[w] EXCEPT !.pc = "log", !.head = Len(audit)]
  <2>2. wk' = [wk EXCEPT ![w] = p]
    BY <1>7 DEF ReadHead
  <2>3. wk[w] \in Process /\ Len(audit) \in Nat
    BY RequestTypes, ProcessTypes
  <2>4. /\ p \in Process /\ p.pc = "log" /\ p.head = Len(audit)
        /\ p.actor = wk[w].actor /\ p.req = wk[w].req /\ p.cmd = wk[w].cmd
    BY <2>3 DEF Process
  <2> HIDE DEF p
  <2> QED BY <2>1, <2>2, <2>4 DEF Moves
<1> QED BY <1>1, <1>2, <1>3, <1>4, <1>5, <1>6, <1>7 DEF Step

-----------------------------------------------------------------------------
(* The invariant.                                                          *)

LEMMA MovedType ==
    ASSUME TypeOK, NEW w \in Workers, Moves(w)
    PROVE  wk' \in [Workers -> Process] /\ \A v \in Workers \ {w} : wk'[v] = wk[v]
<1>1. ASSUME NEW step \in Pcs, Goto(w, step)
      PROVE  wk' \in [Workers -> Process] /\ \A v \in Workers \ {w} : wk'[v] = wk[v]
  BY <1>1, Went
<1>2. ASSUME NEW p \in Process, wk' = [wk EXCEPT ![w] = p]
      PROVE  wk' \in [Workers -> Process] /\ \A v \in Workers \ {w} : wk'[v] = wk[v]
  BY <1>2, SetType
<1> QED BY <1>1, <1>2 DEF Moves

(* Requests keep their kind and the log only grows: what a process that    *)
(* does not move holds stays true.                                         *)
LEMMA HeldStays ==
    ASSUME TypeOK, NEW w \in Workers, HeldOK(w), wk'[w] = wk[w],
           \A r \in Ids : r \in Ids' /\ requests'[r].kind = requests[r].kind,
           Len(audit) \in Nat, Len(audit') \in Nat, Len(audit) <= Len(audit')
    PROVE  HeldOK(w)'
<1>1. At(w, "idle")' = At(w, "idle") /\ At(w, "create")' = At(w, "create")
      /\ At(w, "expire")' = At(w, "expire") /\ At(w, "expire_direct")' = At(w, "expire_direct")
      /\ At(w, "log")' = At(w, "log")
  BY DEF At
<1>2. CASE ~ At(w, "idle") /\ ~ At(w, "create")
  <2>1. wk[w].req \in Ids
    BY <1>2 DEF HeldOK
  <2>2. Mine(w)'.kind = Mine(w).kind /\ wk[w].req \in Ids'
    BY <2>1 DEF Mine
  <2>3. Chat(Mine(w).kind)' = Chat(Mine(w).kind)
    BY <2>2 DEF Chat, RoleKinds, BindKinds
  <2>4. At(w, "log") => wk[w].head <= Len(audit')
    BY ProcessTypes DEF HeldOK
  <2> QED BY <1>1, <1>2, <2>1, <2>2, <2>3, <2>4 DEF HeldOK
<1>3. CASE At(w, "idle") \/ At(w, "create")
  BY <1>1, <1>3 DEF HeldOK, At
<1> QED BY <1>2, <1>3

LEMMA HeldMoves ==
    ASSUME TypeOK, NEW w \in Workers, HeldOK(w), Moves(w),
           \A r \in Ids : r \in Ids' /\ requests'[r].kind = requests[r].kind,
           Len(audit) \in Nat, Len(audit') \in Nat, Len(audit) <= Len(audit')
    PROVE  HeldOK(w)'
<1>1. ASSUME NEW step \in Pcs \ {"create", "log"}, Goto(w, step),
             step # "idle" => ~ At(w, "idle") /\ ~ At(w, "create"),
             step \in {"expire", "expire_direct"} => Chat(Mine(w).kind)
      PROVE  HeldOK(w)'
  <2>1. /\ wk'[w].pc = step
        /\ step # "idle" => /\ wk'[w].cmd = wk[w].cmd /\ wk'[w].actor = wk[w].actor
                            /\ wk'[w].req = wk[w].req
    BY <1>1, Went
  <2>2. CASE step = "idle"
    BY <2>1, <2>2 DEF HeldOK, At
  <2>3. CASE step # "idle"
    <3>1. /\ wk[w].actor \in Users /\ wk[w].req \in Ids
          /\ (wk[w].cmd = "cancel" => Chat(Mine(w).kind))
      BY <1>1, <2>3 DEF HeldOK
    <3>2. wk[w].req \in Ids' /\ requests'[wk[w].req].kind = Mine(w).kind
      BY <3>1 DEF Mine
    <3>3. Mine(w)' = requests'[wk[w].req]
      BY <2>1, <2>3 DEF Mine
    <3>4. Chat(Mine(w).kind)' = Chat(Mine(w).kind)
      BY <3>2, <3>3 DEF Chat, RoleKinds, BindKinds
    <3> QED BY <1>1, <2>1, <2>3, <3>1, <3>2, <3>4 DEF HeldOK, At
  <2> QED BY <2>2, <2>3
<1>2. ASSUME NEW p \in Process, wk' = [wk EXCEPT ![w] = p], p.pc = "create", p.actor \in Users,
             p.draft \in Request, p.draft.status = "pending", p.draft.approver = None
      PROVE  HeldOK(w)'
  <2>1. wk'[w] = p
    BY <1>2, SetType
  <2> QED BY <1>2, <2>1 DEF HeldOK, At
<1>3. ASSUME NEW p \in Process, wk' = [wk EXCEPT ![w] = p],
             p.pc \in Pcs \ {"idle", "create", "expire", "expire_direct", "log"},
             p.actor \in Users, p.req \in Ids, p.cmd = "cancel" => Chat(requests[p.req].kind)
      PROVE  HeldOK(w)'
  <2>1. wk'[w] = p
    BY <1>3, SetType
  <2>2. p.req \in Ids' /\ requests'[p.req].kind = requests[p.req].kind /\ Mine(w)' = requests'[p.req]
    BY <1>3, <2>1 DEF Mine
  <2>3. Chat(Mine(w).kind)' = Chat(requests[p.req].kind)
    BY <2>2 DEF Chat, RoleKinds, BindKinds
  <2> QED BY <1>3, <2>1, <2>2, <2>3 DEF HeldOK, At
<1>4. ASSUME NEW p \in Process, wk' = [wk EXCEPT ![w] = p], p.pc = "log",
             ~ At(w, "idle"), ~ At(w, "create"),
             p.actor = wk[w].actor, p.req = wk[w].req, p.cmd = wk[w].cmd, p.head = Len(audit)
      PROVE  HeldOK(w)'
  <2>1. wk'[w] = p
    BY <1>4, SetType
  <2>2. p.actor \in Users /\ p.req \in Ids /\ (p.cmd = "cancel" => Chat(requests[p.req].kind))
    BY <1>4 DEF HeldOK, Mine
  <2>3. p.req \in Ids' /\ requests'[p.req].kind = requests[p.req].kind /\ Mine(w)' = requests'[p.req]
    BY <2>1, <2>2 DEF Mine
  <2>4. Chat(Mine(w).kind)' = Chat(requests[p.req].kind)
    BY <2>3 DEF Chat, RoleKinds, BindKinds
  <2> QED BY <1>4, <2>1, <2>2, <2>3, <2>4 DEF HeldOK, At
<1> QED BY <1>1, <1>2, <1>3, <1>4 DEF Moves

(* At most one process moves in a step.                                    *)
LEMMA OneMoves ==
    ASSUME TypeOK, HeldInv, DataInv, [Next]_vars
    PROVE  wk' = wk \/ \E w \in Workers : Moves(w)
<1>1. ASSUME NEW w \in Workers, Start(w) PROVE Moves(w)
  BY <1>1, StartMoves DEF DataInv
<1>2. ASSUME NEW w \in Workers, Step(w) PROVE Moves(w)
  BY <1>2, StepMoves DEF HeldInv
<1>3. ASSUME NEW w \in Workers, Crash(w) PROVE Moves(w)
  BY <1>3, IdleMoves DEF Crash
<1>4. Lapse => wk' = wk
  BY DEF Lapse
<1> QED BY <1>1, <1>2, <1>3, <1>4 DEF Next, vars

LEMMA SafetyStep ==
    ASSUME SafetyInv, [Next]_vars PROVE SafetyInv'
<1>1. TypeOK /\ HeldInv /\ DataInv
  BY DEF SafetyInv
<1>2. /\ requests' \in Seq(Request) /\ role' \in [Users -> Roles \cup {"none"}]
      /\ bound' \in BOOLEAN /\ policies' \in Seq(Policy) /\ queue' \subseteq Ids'
      /\ audit' \in Seq(Event)
      /\ \A r \in Ids : r \in Ids' /\ requests'[r].kind = requests[r].kind
      /\ Len(audit) <= Len(audit')
  BY <1>1, TablesTyped
<1>3. lapsed' \subseteq Ids'
  BY <1>1, <1>2, LapsedTyped
<1>4. Len(audit) \in Nat /\ Len(audit') \in Nat
  BY <1>1, <1>2, RequestTypes
<1>5. wk' \in [Workers -> Process] /\ HeldInv'
  <2>1. CASE wk' = wk
    <3>1. \A w \in Workers : HeldOK(w)'
      BY <1>1, <1>2, <1>4, <2>1, HeldStays DEF HeldInv
    <3> QED BY <1>1, <2>1, <3>1 DEF HeldInv, TypeOK
  <2>2. CASE \E w \in Workers : Moves(w)
    <3>1. PICK w \in Workers : Moves(w)
      BY <2>2
    <3>2. wk' \in [Workers -> Process] /\ \A v \in Workers \ {w} : wk'[v] = wk[v]
      BY <1>1, <3>1, MovedType
    <3>3. HeldOK(w)'
      BY <1>1, <1>2, <1>4, <3>1, HeldMoves DEF HeldInv
    <3>4. \A v \in Workers \ {w} : HeldOK(v)'
      BY <1>1, <1>2, <1>4, <3>2, HeldStays DEF HeldInv
    <3> QED BY <3>2, <3>3, <3>4 DEF HeldInv
  <2> QED BY <1>1, <2>1, <2>2, OneMoves
<1>6. DataInv'
  BY <1>1, DataStep
<1>7. TypeOK'
  BY <1>2, <1>3, <1>5 DEF TypeOK
<1> QED BY <1>5, <1>6, <1>7 DEF SafetyInv

LEMMA InitSafety ==
    ASSUME Init PROVE SafetyInv
<1>1. TypeOK
  <2>1. policies \in Seq(Policy)
    <3>1. [req |-> 0, version |-> 1] \in Policy
      BY DEF Policy
    <3> QED BY <3>1 DEF Init
  <2>2. wk \in [Workers -> Process]
    BY IdleType DEF Init
  <2> QED BY <2>1, <2>2, UsersAssumption DEF Init, TypeOK, Ids
<1>2. HeldInv
  BY IdleType DEF Init, HeldInv, HeldOK, At
<1>3. DOMAIN audit = {} /\ Ids = {} /\ Len(audit) = 0
  BY DEF Init, Ids
<1>4. LogInv
  <2>1. CASE InitialGuard
    <3>1. policies = <<[req |-> 0, version |-> 1]>>
      BY <2>1 DEF Init
    <3>2. DOMAIN policies = {1} /\ policies[1] = [req |-> 0, version |-> 1]
      BY <3>1
    <3> QED BY <1>3, <3>2 DEF LogInv
  <2>2. CASE ~ InitialGuard
    <3>1. policies = <<>>
      BY <2>2 DEF Init
    <3> QED BY <1>3, <3>1 DEF LogInv
  <2> QED BY <2>1, <2>2
<1>5. OnceInv /\ StatusInv /\ ApproversAreOnRecord /\ ChangesAreChained
  BY <1>3 DEF OnceInv, StatusInv, StatusHasItsEvent, ApproversAreOnRecord, ChangesAreChained
<1>6. EndsInv
  <2>1. 1..Len(audit) = {}
    BY <1>3
  <2>2. \A S \in SUBSET (1..Len(audit)) : S = {}
    BY <2>1
  <2> QED BY <2>2 DEF EndsInv
<1>7. LogReplaysState
  <2>1. \A kinds : ConfirmedKinds(kinds) = {}
    BY <1>3 DEF ConfirmedKinds
  <2>2. \A u \in Users : role[u] = InitialRole[u]
    BY DEF Init
  <2> QED BY <2>1, <2>2 DEF LogReplaysState
<1> QED BY <1>1, <1>2, <1>4, <1>5, <1>6, <1>7 DEF SafetyInv, DataInv

(* The inductive invariant holds of every state the processes can reach.   *)
THEOREM SafetyHolds == Spec => []SafetyInv
<1>1. Init => SafetyInv
  BY InitSafety
<1>2. SafetyInv /\ [Next]_vars => SafetyInv'
  BY SafetyStep
<1> QED BY <1>1, <1>2, PTL DEF Spec

-----------------------------------------------------------------------------
(* What follows.                                                           *)

(* A set whose members are all the same has at most one.                   *)
LEMMA AtMostOne ==
    ASSUME NEW S, \A i, j \in S : i = j PROVE Cardinality(S) <= 1
<1>1. CASE S = {}
  BY <1>1, FS_EmptySet
<1>2. CASE S # {}
  <2>1. PICK x \in S : S = {x}
    BY <1>2
  <2> QED BY <2>1, FS_Singleton
<1> QED BY <1>1, <1>2

LEMMA OnceIsOnce == SafetyInv => EffectsHappenOnce
<1> SUFFICES ASSUME SafetyInv PROVE EffectsHappenOnce
  OBVIOUS
<1>1. LogInv /\ OnceInv
  BY DEF SafetyInv, DataInv
<1>2. ASSUME NEW r \in Ids, requests[r].kind \in EffectKinds
      PROVE  (Applied(r) <=> Confirmations(r) # {}) /\ Cardinality(Confirmations(r)) <= 1
  <2>1. \A i, j \in Confirmations(r) : i = j
    BY <1>1, <1>2 DEF OnceInv
  <2>2. Applied(r) <=> Confirmations(r) # {}
    BY <1>1, <1>2 DEF OnceInv
  <2> QED BY <2>1, <2>2, AtMostOne
<1> QED BY <1>1, <1>2 DEF LogInv, EffectsHappenOnce, EffectKinds

(* The tables and the serving processes keep their types.                  *)
THEOREM TypeCorrect == Spec => []TypeOK
<1>1. SafetyInv => TypeOK
  BY DEF SafetyInv
<1> QED BY <1>1, SafetyHolds, PTL

(* Every price guard and every queued role change was confirmed on record  *)
(* and once, however many processes confirm the same request at a time.    *)
THEOREM EffectsOnce == Spec => []EffectsHappenOnce
BY OnceIsOnce, SafetyHolds, PTL

(* The roles and the binding are what the last confirmed changes of the    *)
(* log say.                                                                *)
THEOREM LogReplays == Spec => []LogReplaysState
<1>1. SafetyInv => LogReplaysState
  BY DEF SafetyInv, DataInv
<1> QED BY <1>1, SafetyHolds, PTL

(* "Confirmed" has its event; "pending" changed nothing.                   *)
THEOREM StatusOnRecord == Spec => []StatusHasItsEvent
<1>1. SafetyInv => StatusHasItsEvent
  BY DEF SafetyInv, DataInv, StatusInv
<1> QED BY <1>1, SafetyHolds, PTL

(* The approver a request names is the one its log names: the last where   *)
(* the update asks for no status, the first where it does.                 *)
THEOREM ApproversOnRecord == Spec => []ApproversAreOnRecord
<1>1. SafetyInv => ApproversAreOnRecord
  BY DEF SafetyInv, DataInv
<1> QED BY <1>1, SafetyHolds, PTL

(* The event of a change continues from the event before it, crashes and   *)
(* overlapping messages included.                                          *)
THEOREM Chained == Spec => []ChangesAreChained
<1>1. SafetyInv => ChangesAreChained
  BY DEF SafetyInv, DataInv
<1> QED BY <1>1, SafetyHolds, PTL
=============================================================================
