------------------------- MODULE FeishuIngressProofs -------------------------
(***************************************************************************)
(* Proofs about FeishuIngress, for any hotels, chats, people, messages and *)
(* number of deliveries, changes and restarts.                             *)
(***************************************************************************)
EXTENDS FeishuIngress, TLAPS

-----------------------------------------------------------------------------
(* The inductive invariant.                                                *)

HasTask(d) == \E i \in DOMAIN tasks : tasks[i].delivery = d

(* A delivery whose sender and chat are still looked at.                   *)
Witnesses(d) == del[d].gw = "member" \/ del[d].job \in Steps

Bound(d, h) == h \in del[d].bound
Led(d, h) == \E r \in {"owner", "admin"} : <<h, r>> \in del[d].held

(* What a delivery knows when it has come so far.                          *)
DelOK(d) ==
    /\ del[d].gw \in {"new", "member"} => del[d].job = "none"
    /\ del[d].gw = "waiting" => del[d].job # "none"
    /\ del[d].gw = "member" \/ del[d].job # "none" =>
          del[d].msg \in Messages /\ Of(d).sender \in People
    /\ Witnesses(d) => /\ Bound(d, binding[Of(d).chat])
                       /\ \A h \in Hotels : <<h, RankOf(Of(d).sender, h)>> \in del[d].held
    /\ del[d].job \in Steps \ {"scope"} => (Of(d).group => Bound(d, Of(d).bot))
    /\ del[d].job \in {"rank", "source", "insert"} => del[d].hotel \in Hotels /\ Bound(d, del[d].hotel)
    /\ del[d].job \in {"source", "insert"} => Led(d, del[d].hotel)
    /\ del[d].job = "insert" => Of(d).launch \in Listed[del[d].hotel]
    /\ (del[d].job = "exited" /\ del[d].verdict = "created") \/ del[d].reply = "created" => HasTask(d)
    /\ del[d].after = {}

DelInv == \A d \in Deliveries : DelOK(d)

(* A delivery whose task is in the table has no child under way, so it     *)
(* inserts no other.                                                       *)
TaskInv ==
    /\ \A i \in DOMAIN tasks : del[tasks[i].delivery].job \in {"exited", "dead"}
    /\ \A i, j \in DOMAIN tasks : i # j => tasks[i].delivery # tasks[j].delivery

(* What the runtime answered is remembered, and what is remembered was     *)
(* answered.                                                               *)
Settled(e) == Routed(e) \/ del[e].reply = "invalid"
MemoryInv ==
    /\ \A d \in settled : del[d].gw = "answered" /\ del[d].msg \in seen
    /\ \A m \in seen : \E e \in Deliveries : del[e].msg = m /\ Settled(e)
    /\ \A d \in Deliveries : del[d].reply = "duplicate" =>
          \E e \in Deliveries : del[e].msg = del[d].msg /\ e # d /\ Settled(e)

SafetyInv == TypeOK /\ DelInv /\ TaskInv /\ TasksAreAuthorized /\ MemoryInv

-----------------------------------------------------------------------------
(* A step of one delivery.                                                 *)

Typed(p) == /\ p \in Delivery
            /\ p.gw = "answered" <=> p.reply # None
            /\ p.job = "exited" => p.verdict # None

(* What no step takes away from a delivery that was taken up.              *)
Keeps(e) ==
    /\ del[e].gw # "new" => del'[e].msg = del[e].msg /\ del'[e].gw # "new"
    /\ del[e].gw = "answered" => del'[e].gw = "answered" /\ del'[e].reply = del[e].reply
    /\ Routed(e) => Routed(e)'
    /\ del[e].job \in {"exited", "dead"} =>
          /\ del'[e].job \in {"exited", "dead"}
          /\ del[e].bound \subseteq del'[e].bound /\ del[e].held \subseteq del'[e].held

(* A step of d, well typed, after which d knows what it should.            *)
Moves(d) == /\ \E p : Typed(p) /\ del' = [del EXCEPT ![d] = p]
            /\ DelOK(d)' /\ Keeps(d)

(* It does not tell its sender to see a previous reply.                    *)
Quiet(d) == del'[d].reply = "duplicate" => del[d].reply = "duplicate"

LEMMA DeliveryTypes ==
    ASSUME TypeOK, NEW d \in Deliveries PROVE Typed(del[d])
BY DEF TypeOK, Typed

LEMMA Becomes ==
    ASSUME TypeOK, NEW d \in Deliveries, NEW p, Typed(p), del' = [del EXCEPT ![d] = p]
    PROVE  /\ del' \in [Deliveries -> Delivery] /\ del'[d] = p
           /\ \A e \in Deliveries \ {d} : del'[e] = del[e]
           /\ \A e \in Deliveries : Typed(del'[e])
BY DEF TypeOK, Typed

LEMMA NewType == New \in Delivery /\ New.gw = "new" /\ New.reply = None /\ New.job = "none"
                 /\ New.msg = None /\ New.after = {}
BY DEF New, Delivery, Steps

(* What d adds to the table of tasks stands at its end.                    *)
TasksGrow ==
    /\ tasks' \in Seq(Task)
    /\ \A i \in DOMAIN tasks : i \in DOMAIN tasks' /\ tasks'[i] = tasks[i]

(* The rest of the world, for a delivery that does nothing.                *)
LEMMA OthersStay ==
    ASSUME TypeOK, NEW e \in Deliveries, DelOK(e), del'[e] = del[e],
           UNCHANGED <<binding, rank>>, TasksGrow
    PROVE  DelOK(e)' /\ Keeps(e)
<1>1. HasTask(e) => HasTask(e)'
  BY DEF HasTask, TasksGrow
<1>2. Keeps(e)
  BY DEF Keeps, Routed
<1>3. DelOK(e)'
  BY <1>1 DEF DelOK, Witnesses, Bound, Led, Of, RankOf
<1> QED BY <1>2, <1>3

-----------------------------------------------------------------------------
(* The handler.                                                            *)

LEMMA NewKeeps ==
    ASSUME NEW d \in Deliveries, DelOK(d), del[d].gw = "new" PROVE Keeps(d)
BY DEF DelOK, Keeps, Routed

LEMMA ReceiveOK ==
    ASSUME TypeOK, MemoryInv, NEW d \in Deliveries, DelOK(d),
           NEW m \in Messages, Receive(d, m)
    PROVE  Moves(d)
<1>1. del[d].gw = "new"
  BY DEF Receive, Turn
<1>2. CASE m \in seen /\ del' = [del EXCEPT ![d] = Told(m, "duplicate")]
  <2> DEFINE p == Told(m, "duplicate")
  <2>1. /\ Typed(p) /\ p.gw = "answered" /\ p.job = "none" /\ p.reply = "duplicate" /\ p.after = {}
    BY NewType, PeopleAssumption DEF Told, Arrival, New, Delivery, Typed, Steps
  <2> HIDE DEF p
  <2>2. del'[d] = p
    BY <1>2, <2>1, Becomes DEF p
  <2>3. DelOK(d)'
    BY <2>1, <2>2 DEF DelOK, Witnesses, Steps
  <2> QED BY <1>1, <1>2, <2>1, <2>2, <2>3, NewKeeps DEF Moves, p
<1>3. CASE m \notin seen /\ Mail[m].sender = None /\ del' = [del EXCEPT ![d] = Told(m, "invalid")]
  <2> DEFINE p == Told(m, "invalid")
  <2>1. /\ Typed(p) /\ p.gw = "answered" /\ p.job = "none" /\ p.reply = "invalid" /\ p.after = {}
    BY NewType, PeopleAssumption DEF Told, Arrival, New, Delivery, Typed, Steps
  <2> HIDE DEF p
  <2>2. del'[d] = p
    BY <1>3, <2>1, Becomes DEF p
  <2>3. DelOK(d)'
    BY <2>1, <2>2 DEF DelOK, Witnesses, Steps
  <2> QED BY <1>1, <1>3, <2>1, <2>2, <2>3, NewKeeps DEF Moves, p
<1>4. CASE m \notin seen /\ Mail[m].sender # None /\ del' = [del EXCEPT ![d] = TakenUp(m)]
  <2> DEFINE p == TakenUp(m)
  <2>1. Mail[m].sender \in People /\ Mail[m].chat \in Chats
    BY <1>4, MailAssumption
  <2>2. {e \in settled : del[e].msg = m} = {}
    BY <1>4 DEF MemoryInv
  <2>3. RanksOf(Mail[m].sender) \subseteq Hotels \X Ranks
    BY <2>1 DEF RanksOf, RankOf, TypeOK, Ranks
  <2>4. binding[Mail[m].chat] \in Hotels \cup {None}
    BY <2>1 DEF TypeOK
  <2>5. /\ p = [msg |-> m, gw |-> "member", reply |-> None, job |-> "none", hotel |-> None,
                verdict |-> None, after |-> {}, bound |-> {binding[Mail[m].chat]},
                held |-> RanksOf(Mail[m].sender)]
    <3>1. Arrival(m) = [msg |-> m, gw |-> "new", reply |-> None, job |-> "none", hotel |-> None,
                        verdict |-> None, after |-> {}, bound |-> {}, held |-> {}]
      BY DEF Arrival, New
    <3>2. TakenUp(m) = [f \in DOMAIN Arrival(m) |->
                          IF f = "gw" THEN "member" ELSE IF f = "after" THEN {}
                          ELSE IF f = "bound" THEN {binding[Mail[m].chat]}
                          ELSE IF f = "held" THEN RanksOf(Mail[m].sender) ELSE Arrival(m)[f]]
      BY <2>2, <3>1 DEF TakenUp
    <3> QED BY <3>1, <3>2
  <2>6. Typed(p)
    BY <2>3, <2>4, <2>5 DEF Typed, Delivery
  <2> HIDE DEF p
  <2>7. del'[d] = p
    BY <1>4, <2>6, Becomes DEF p
  <2>8. DelOK(d)'
    <3>1. UNCHANGED <<binding, rank>>
      BY DEF Receive
    <3>2. \A h \in Hotels : <<h, RankOf(Mail[m].sender, h)>> \in p.held
      BY <2>5 DEF RanksOf
    <3>3. p.msg = m /\ p.gw = "member" /\ p.job = "none" /\ p.reply = None /\ p.after = {}
          /\ binding[Mail[m].chat] \in p.bound
      BY <2>5
    <3>4. (\A h \in Hotels : <<h, RankOf(Of(d).sender, h)>> \in del[d].held)'
      BY <2>7, <3>1, <3>2, <3>3 DEF Of, RankOf
    <3> QED BY <2>1, <2>7, <3>1, <3>3, <3>4, PeopleAssumption DEF DelOK, Witnesses, Bound, Of, Steps
  <2> QED BY <1>1, <1>4, <2>6, <2>7, <2>8, NewKeeps DEF Moves, p
<1> QED BY <1>2, <1>3, <1>4 DEF Receive

LEMMA StartRouteOK ==
    ASSUME TypeOK, NEW d \in Deliveries, DelOK(d), StartRoute(d)
    PROVE  Moves(d) /\ Quiet(d)
<1> DEFINE p == [del[d] EXCEPT !.gw = "waiting", !.job = "scope"]
<1>1. Typed(del[d]) /\ del[d].gw = "member" /\ UNCHANGED <<binding, rank, tasks>>
  BY DeliveryTypes DEF StartRoute
<1>2. /\ Typed(p) /\ p.gw = "waiting" /\ p.job = "scope" /\ p.msg = del[d].msg
      /\ p.reply = del[d].reply /\ p.bound = del[d].bound /\ p.held = del[d].held
      /\ p.after = del[d].after
  BY <1>1 DEF Typed, Delivery, Steps
<1>3. del' = [del EXCEPT ![d] = p]
  BY DEF StartRoute, TypeOK
<1> HIDE DEF p
<1>4. del'[d] = p
  BY <1>2, <1>3, Becomes
<1>5. DelOK(d)'
  BY <1>1, <1>2, <1>4 DEF DelOK, Witnesses, Bound, Of, RankOf, Steps, Typed, HasTask
<1>6. Keeps(d)
  BY <1>1, <1>2, <1>4 DEF Keeps, Routed, DelOK
<1> QED BY <1>2, <1>3, <1>4, <1>5, <1>6 DEF Moves, Quiet

LEMMA AnswerOK ==
    ASSUME TypeOK, NEW d \in Deliveries, DelOK(d), Answer(d)
    PROVE  /\ Moves(d) /\ Quiet(d)
           /\ del'[d].msg = del[d].msg /\ del'[d].gw = "answered" /\ Settled(d)'
<1>1. Typed(del[d]) /\ del[d].gw = "waiting" /\ del[d].job = "exited"
      /\ UNCHANGED <<binding, rank, tasks>>
  BY DeliveryTypes DEF Answer
<1>2. del[d].verdict \in {"blocked", "created"}
  BY <1>1 DEF Typed, Delivery
<1>3. PICK text \in {del[d].verdict, "failure"} : del' = [del EXCEPT ![d] = Reply(d, text)]
  BY DEF Answer
<1> DEFINE p == Reply(d, text)
<1>4. /\ Typed(p) /\ p.gw = "answered" /\ p.job = "exited" /\ p.msg = del[d].msg
      /\ p.reply = text /\ p.verdict = del[d].verdict /\ p.bound = del[d].bound
      /\ p.held = del[d].held /\ p.after = del[d].after
  BY <1>1, <1>2, <1>3, PeopleAssumption DEF Typed, Delivery, Steps, Reply
<1>5. del' = [del EXCEPT ![d] = p]
  BY <1>3
<1> HIDE DEF p
<1>6. del'[d] = p
  BY <1>4, <1>5, Becomes
<1>7. HasTask(d)' = HasTask(d)
  BY <1>1 DEF HasTask
<1>8. DelOK(d)'
  BY <1>1, <1>3, <1>4, <1>6, <1>7 DEF DelOK, Witnesses, Bound, Of, RankOf, Steps
<1>9. Keeps(d)
  BY <1>1, <1>4, <1>6 DEF Keeps, Routed
<1>10. Moves(d) /\ Quiet(d)
  BY <1>2, <1>3, <1>4, <1>5, <1>6, <1>8, <1>9 DEF Moves, Quiet
<1> QED BY <1>4, <1>6, <1>10 DEF Settled, Routed

LEMMA RouteFailsOK ==
    ASSUME TypeOK, NEW d \in Deliveries, DelOK(d), RouteFails(d)
    PROVE  Moves(d) /\ Quiet(d)
<1> DEFINE p == [del[d] EXCEPT !.gw = "answered", !.reply = "failure", !.job = "dead"]
<1>1. Typed(del[d]) /\ del[d].gw = "waiting" /\ UNCHANGED <<binding, rank, tasks>>
  BY DeliveryTypes DEF RouteFails
<1>2. /\ Typed(p) /\ p.gw = "answered" /\ p.job = "dead" /\ p.msg = del[d].msg
      /\ p.reply = "failure" /\ p.bound = del[d].bound /\ p.held = del[d].held
      /\ p.after = del[d].after
  BY <1>1, PeopleAssumption DEF Typed, Delivery, Steps
<1>3. del' = [del EXCEPT ![d] = p]
  <2>1. [Reply(d, "failure") EXCEPT !.job = "dead"] = p
    BY <1>1 DEF Reply, Typed, Delivery
  <2> QED BY <2>1 DEF RouteFails
<1> HIDE DEF p
<1>4. del'[d] = p
  BY <1>2, <1>3, Becomes
<1>5. DelOK(d)'
  BY <1>1, <1>2, <1>4 DEF DelOK, Witnesses, Bound, Of, RankOf, Steps
<1>6. Keeps(d)
  BY <1>1, <1>2, <1>4 DEF Keeps, Routed
<1> QED BY <1>2, <1>3, <1>4, <1>5, <1>6 DEF Moves, Quiet

-----------------------------------------------------------------------------
(* The child.                                                              *)

(* A child that goes on, and one that exits with a refusal.                *)
LEMMA GoesOn ==
    ASSUME TypeOK, NEW d \in Deliveries, DelOK(d), del[d].job \in Steps,
           NEW step \in Steps, NEW h \in Hotels \cup {None},
           del' = [del EXCEPT ![d] = [del[d] EXCEPT !.job = step, !.hotel = h]],
           UNCHANGED <<binding, rank, tasks>>,
           step # "scope" /\ Of(d).group => Bound(d, Of(d).bot),
           step \in {"rank", "source", "insert"} => h \in Hotels /\ Bound(d, h),
           step \in {"source", "insert"} => Led(d, h),
           step = "insert" => Of(d).launch \in Listed[h]
    PROVE  Moves(d) /\ Quiet(d)
<1> DEFINE p == [del[d] EXCEPT !.job = step, !.hotel = h]
<1>1. Typed(del[d]) /\ del[d].gw \notin {"new", "member"}
  BY DeliveryTypes DEF DelOK, Steps
<1>2. /\ Typed(p) /\ p.gw = del[d].gw /\ p.job = step /\ p.msg = del[d].msg
      /\ p.reply = del[d].reply /\ p.bound = del[d].bound /\ p.held = del[d].held
      /\ p.after = del[d].after /\ p.hotel = h
  BY <1>1 DEF Typed, Delivery, Steps
<1> HIDE DEF p
<1>3. del'[d] = p
  BY <1>2, Becomes DEF p
<1>4. HasTask(d)' = HasTask(d)
  BY DEF HasTask
<1>5. DelOK(d)'
  BY <1>1, <1>2, <1>3, <1>4 DEF DelOK, Witnesses, Bound, Led, Of, RankOf, Steps
<1>6. Keeps(d)
  BY <1>1, <1>2, <1>3 DEF Keeps, Routed, Steps
<1> QED BY <1>2, <1>3, <1>5, <1>6 DEF Moves, Quiet, p

LEMMA Exits ==
    ASSUME TypeOK, NEW d \in Deliveries, DelOK(d), del[d].job \in Steps,
           NEW v \in {"blocked", "created"},
           del' = [del EXCEPT ![d] = Exit(d, v)],
           UNCHANGED <<binding, rank>>, TasksGrow, v = "created" => HasTask(d)'
    PROVE  /\ Moves(d) /\ Quiet(d)
           /\ del'[d].job = "exited" /\ del'[d].bound = del[d].bound
           /\ del'[d].held = del[d].held /\ del'[d].msg = del[d].msg
<1> DEFINE p == Exit(d, v)
<1>1. Typed(del[d]) /\ del[d].gw \notin {"new", "member"}
  BY DeliveryTypes DEF DelOK, Steps
<1>2. /\ Typed(p) /\ p.gw = del[d].gw /\ p.job = "exited" /\ p.msg = del[d].msg
      /\ p.reply = del[d].reply /\ p.bound = del[d].bound /\ p.held = del[d].held
      /\ p.after = del[d].after /\ p.verdict = v
  BY <1>1, PeopleAssumption DEF Typed, Delivery, Steps, Exit
<1> HIDE DEF p
<1>3. del'[d] = p
  BY <1>2, Becomes DEF p
<1>4. HasTask(d) => HasTask(d)'
  BY DEF HasTask, TasksGrow
<1>5. DelOK(d)'
  BY <1>1, <1>2, <1>3, <1>4 DEF DelOK, Witnesses, Bound, Led, Of, RankOf, Steps
<1>6. Keeps(d)
  BY <1>1, <1>2, <1>3 DEF Keeps, Routed, Steps
<1> QED BY <1>2, <1>3, <1>5, <1>6 DEF Moves, Quiet, p

LEMMA GoIs ==
    ASSUME TypeOK, NEW d \in Deliveries, NEW step \in Steps
    PROVE  /\ Go(d, step) = [del[d] EXCEPT !.job = step, !.hotel = del[d].hotel]
           /\ del[d].hotel \in Hotels \cup {None}
<1>1. del[d] \in Delivery
  BY DEF TypeOK
<1> QED BY <1>1 DEF Go, Delivery

LEMMA CheckScopeOK ==
    ASSUME TypeOK, NEW d \in Deliveries, DelOK(d), CheckScope(d)
    PROVE  Moves(d) /\ Quiet(d)
<1>1. del[d].job = "scope" /\ "scope" \in Steps /\ "binding" \in Steps /\ UNCHANGED <<binding, rank, tasks>>
  BY DEF CheckScope, OnlyJob, Steps
<1>2. CASE InScope(d) /\ del' = [del EXCEPT ![d] = Go(d, "binding")]
  <2>1. Of(d).group => Bound(d, Of(d).bot)
    BY <1>1, <1>2 DEF InScope, DelOK, Witnesses
  <2>2. del' = [del EXCEPT ![d] = [del[d] EXCEPT !.job = "binding", !.hotel = del[d].hotel]]
    BY <1>1, <1>2, GoIs
  <2> QED BY <1>1, <2>1, <2>2, GoIs, GoesOn
<1>3. CASE del' = [del EXCEPT ![d] = Exit(d, "blocked")]
  BY <1>1, <1>3, Exits DEF TasksGrow, TypeOK
<1> QED BY <1>2, <1>3 DEF CheckScope

LEMMA ReadBindingOK ==
    ASSUME TypeOK, NEW d \in Deliveries, DelOK(d), ReadBinding(d)
    PROVE  Moves(d) /\ Quiet(d)
<1>1. del[d].job = "binding" /\ "binding" \in Steps /\ "rank" \in Steps /\ UNCHANGED <<binding, rank, tasks>>
  BY DEF ReadBinding, OnlyJob, Steps
<1> DEFINE h == binding[Of(d).chat]
<1>2. CASE h # None /\ del' = [del EXCEPT ![d] = [Go(d, "rank") EXCEPT !.hotel = h]]
  <2>1. del[d].msg \in Messages
    BY <1>1 DEF DelOK
  <2>2. h \in Hotels
    BY <1>2, <2>1, MailAssumption DEF Of, TypeOK
  <2>3. Bound(d, h) /\ (Of(d).group => Bound(d, Of(d).bot))
    BY <1>1 DEF DelOK, Witnesses, Steps
  <2> HIDE DEF h
  <2>4. del' = [del EXCEPT ![d] = [del[d] EXCEPT !.job = "rank", !.hotel = h]]
    <3>1. [Go(d, "rank") EXCEPT !.hotel = h] = [del[d] EXCEPT !.job = "rank", !.hotel = h]
      BY DEF Go, Delivery, TypeOK
    <3> QED BY <1>2, <3>1
  <2> QED BY <1>1, <2>2, <2>3, <2>4, GoesOn
<1>3. CASE del' = [del EXCEPT ![d] = Exit(d, "blocked")]
  BY <1>1, <1>3, Exits DEF TasksGrow, TypeOK
<1> QED BY <1>2, <1>3 DEF ReadBinding

LEMMA ReadRankOK ==
    ASSUME TypeOK, NEW d \in Deliveries, DelOK(d), ReadRank(d)
    PROVE  Moves(d) /\ Quiet(d)
<1>1. del[d].job = "rank" /\ "rank" \in Steps /\ "source" \in Steps /\ UNCHANGED <<binding, rank, tasks>>
  BY DEF ReadRank, OnlyJob, Steps
<1>2. CASE Approves(RankOf(Of(d).sender, del[d].hotel)) /\ del' = [del EXCEPT ![d] = Go(d, "source")]
  <2>1. /\ del[d].hotel \in Hotels /\ Bound(d, del[d].hotel) /\ (Of(d).group => Bound(d, Of(d).bot))
        /\ <<del[d].hotel, RankOf(Of(d).sender, del[d].hotel)>> \in del[d].held
    BY <1>1 DEF DelOK, Witnesses, Steps
  <2>2. Led(d, del[d].hotel)
    BY <1>2, <2>1 DEF Led, Approves
  <2>3. del' = [del EXCEPT ![d] = [del[d] EXCEPT !.job = "source", !.hotel = del[d].hotel]]
    BY <1>1, <1>2, GoIs
  <2> QED BY <1>1, <2>1, <2>2, <2>3, GoesOn
<1>3. CASE del' = [del EXCEPT ![d] = Exit(d, "blocked")]
  BY <1>1, <1>3, Exits DEF TasksGrow, TypeOK
<1> QED BY <1>2, <1>3 DEF ReadRank

LEMMA ReadSourceOK ==
    ASSUME TypeOK, NEW d \in Deliveries, DelOK(d), ReadSource(d)
    PROVE  Moves(d) /\ Quiet(d)
<1>1. del[d].job = "source" /\ "source" \in Steps /\ "insert" \in Steps /\ UNCHANGED <<binding, rank, tasks>>
  BY DEF ReadSource, OnlyJob, Steps
<1>2. CASE Resolves(d) /\ del' = [del EXCEPT ![d] = Go(d, "insert")]
  <2>1. /\ del[d].hotel \in Hotels /\ Bound(d, del[d].hotel) /\ (Of(d).group => Bound(d, Of(d).bot))
        /\ Led(d, del[d].hotel)
    BY <1>1 DEF DelOK, Steps
  <2>2. Of(d).launch \in Listed[del[d].hotel]
    BY <1>2 DEF Resolves
  <2>3. del' = [del EXCEPT ![d] = [del[d] EXCEPT !.job = "insert", !.hotel = del[d].hotel]]
    BY <1>1, <1>2, GoIs
  <2> QED BY <1>1, <2>1, <2>2, <2>3, GoesOn
<1>3. CASE del' = [del EXCEPT ![d] = Exit(d, "blocked")]
  BY <1>1, <1>3, Exits DEF TasksGrow, TypeOK
<1> QED BY <1>2, <1>3 DEF ReadSource

(* The tasks of an insertion, or of none.                                  *)
LEMMA Inserted ==
    ASSUME TypeOK, NEW d \in Deliveries, NEW h \in Hotels,
           tasks' = Append(tasks, [delivery |-> d, hotel |-> h])
    PROVE  /\ TasksGrow /\ HasTask(d)'
           /\ \A i \in DOMAIN tasks' \ DOMAIN tasks :
                 i = Len(tasks) + 1 /\ tasks'[i] = [delivery |-> d, hotel |-> h]
<1>1. [delivery |-> d, hotel |-> h] \in Task /\ tasks \in Seq(Task) /\ Len(tasks) \in Nat
  BY DEF Task, TypeOK
<1>2. tasks' \in Seq(Task) /\ Len(tasks') = Len(tasks) + 1 /\ DOMAIN tasks' = 1..(Len(tasks) + 1)
      /\ DOMAIN tasks = 1..Len(tasks)
  BY <1>1
<1>3. \A i \in DOMAIN tasks : tasks'[i] = tasks[i]
  BY <1>1, <1>2
<1>4. tasks'[Len(tasks) + 1] = [delivery |-> d, hotel |-> h]
  BY <1>1
<1>5. TasksGrow
  BY <1>1, <1>2, <1>3 DEF TasksGrow
<1>6. HasTask(d)'
  <2>1. Len(tasks) + 1 \in DOMAIN tasks'
    BY <1>1, <1>2
  <2> QED BY <1>4, <2>1 DEF HasTask
<1> QED BY <1>1, <1>2, <1>4, <1>5, <1>6

LEMMA InsertTaskOK ==
    ASSUME TypeOK, NEW d \in Deliveries, DelOK(d), InsertTask(d)
    PROVE  /\ TasksGrow
           /\ Moves(d) /\ Quiet(d)
           /\ del'[d].job = "exited" /\ del'[d].bound = del[d].bound
           /\ del'[d].held = del[d].held /\ del'[d].msg = del[d].msg
<1>1. del[d].job = "insert" /\ "insert" \in Steps /\ UNCHANGED <<binding, rank>> /\ del[d].hotel \in Hotels
  BY DEF InsertTask, DelOK, Steps
<1>2. CASE /\ tasks' = Append(tasks, [delivery |-> d, hotel |-> TaskHotel(d)])
           /\ \E v \in {"created", "blocked"} : del' = [del EXCEPT ![d] = Exit(d, v)]
  <2>1. TasksGrow /\ HasTask(d)'
    BY <1>1, <1>2, Inserted DEF TaskHotel
  <2> QED BY <1>1, <1>2, <2>1, Exits
<1>3. CASE UNCHANGED tasks /\ del' = [del EXCEPT ![d] = Exit(d, "blocked")]
  <2>1. TasksGrow
    BY <1>3 DEF TasksGrow, TypeOK
  <2> QED BY <1>1, <1>3, <2>1, Exits
<1> QED BY <1>2, <1>3 DEF InsertTask

-----------------------------------------------------------------------------
(* The world around the deliveries.                                        *)

LEMMA ChangeOK ==
    ASSUME TypeOK, DelInv, NEW b \in [Chats -> Hotels \cup {None}],
           NEW r \in [People -> [Hotels -> Ranks \ {"admin"}]], Change(b, r), NEW d \in Deliveries
    PROVE  /\ Typed(del'[d]) /\ DelOK(d)' /\ Keeps(d) /\ Quiet(d)
           /\ del' \in [Deliveries -> Delivery]
<1>1. del' = Witnessed(b, r) /\ binding' = b /\ rank' = r /\ UNCHANGED tasks
  BY DEF Change
<1>2. Typed(del[d]) /\ DelOK(d)
  BY DeliveryTypes DEF DelInv
<1>3. ASSUME NEW e \in Deliveries PROVE del'[e] \in Delivery
  <2>0. del[e] \in Delivery /\ DelOK(e)
    BY DEF TypeOK, DelInv
  <2>1. CASE Witnesses(e)
    <3>1. Of(e).sender \in People /\ del[e].msg \in Messages
      BY <2>0, <2>1 DEF DelOK, Witnesses, Steps
    <3>2. b[Of(e).chat] \in Hotels \cup {None}
      BY <3>1, MailAssumption DEF Of
    <3>3. {<<h, r[Of(e).sender][h]>> : h \in {g \in Hotels : Of(e).sender \notin Admins}}
            \subseteq Hotels \X Ranks
      BY <3>1
    <3>4. del'[e] = [del[e] EXCEPT !.bound = del[e].bound \cup {b[Of(e).chat]},
                                   !.held = del[e].held \cup
              {<<h, r[Of(e).sender][h]>> : h \in {g \in Hotels : Of(e).sender \notin Admins}}]
      BY <1>1, <2>0, <2>1 DEF Witnessed, Witnesses, Delivery
    <3>5. PICK nb \in SUBSET (Hotels \cup {None}), nh \in SUBSET (Hotels \X Ranks) :
              del'[e] = [del[e] EXCEPT !.bound = nb, !.held = nh]
      <4>1. del[e].bound \cup {b[Of(e).chat]} \in SUBSET (Hotels \cup {None})
        BY <2>0, <3>2 DEF Delivery
      <4>2. del[e].held \cup {<<h, r[Of(e).sender][h]>> : h \in {g \in Hotels : Of(e).sender \notin Admins}}
            \in SUBSET (Hotels \X Ranks)
        BY <2>0, <3>3 DEF Delivery
      <4> QED BY <3>4, <4>1, <4>2
    <3> QED BY <2>0, <3>5 DEF Delivery
  <2>2. CASE ~ Witnesses(e)
    BY <1>1, <2>0, <2>2 DEF Witnessed, Witnesses
  <2> QED BY <2>1, <2>2
<1>4. del' \in [Deliveries -> Delivery]
  BY <1>1, <1>3 DEF Witnessed
<1>5. HasTask(d)' = HasTask(d)
  BY <1>1 DEF HasTask
<1>6. CASE Witnesses(d)
  <2> DEFINE new == {<<h, r[Of(d).sender][h]>> : h \in {g \in Hotels : Of(d).sender \notin Admins}}
  <2>1. del'[d] = [del[d] EXCEPT !.bound = del[d].bound \cup {b[Of(d).chat]},
                                 !.held = del[d].held \cup new]
    BY <1>1, <1>2, <1>6 DEF Witnessed, Witnesses, Delivery, Typed
  <2>2. \A h \in Hotels : Of(d).sender \notin Admins => <<h, r[Of(d).sender][h]>> \in new
    OBVIOUS
  <2> HIDE DEF new
  <2>3. /\ del'[d].gw = del[d].gw /\ del'[d].job = del[d].job /\ del'[d].msg = del[d].msg
        /\ del'[d].reply = del[d].reply /\ del'[d].verdict = del[d].verdict
        /\ del'[d].after = del[d].after /\ del'[d].hotel = del[d].hotel
        /\ del'[d].bound = del[d].bound \cup {b[Of(d).chat]}
        /\ del'[d].held = del[d].held \cup new
    BY <1>2, <2>1 DEF Typed, Delivery
  <2>4. Of(d)' = Of(d)
    BY <2>3 DEF Of
  <2>5. Typed(del'[d])
    BY <1>2, <1>3, <2>3 DEF Typed
  <2>6. ASSUME NEW h \in Hotels PROVE <<h, RankOf(Of(d).sender, h)'>> \in del'[d].held
    <3>1. CASE Of(d).sender \in Admins
      <4>1. RankOf(Of(d).sender, h)' = "admin" /\ RankOf(Of(d).sender, h) = "admin"
        BY <2>4, <3>1 DEF RankOf
      <4>2. <<h, RankOf(Of(d).sender, h)>> \in del[d].held
        BY <1>2, <1>6 DEF DelOK
      <4> QED BY <2>3, <4>1, <4>2
    <3>2. CASE Of(d).sender \notin Admins
      <4>1. RankOf(Of(d).sender, h)' = r[Of(d).sender][h]
        BY <1>1, <2>4, <3>2 DEF RankOf
      <4> QED BY <2>2, <2>3, <3>2, <4>1
    <3> QED BY <3>1, <3>2
  <2>7. /\ (Bound(d, binding[Of(d).chat]))'
        /\ (\A h \in Hotels : <<h, RankOf(Of(d).sender, h)>> \in del[d].held)'
    BY <1>1, <2>3, <2>4, <2>6 DEF Bound
  <2>8. Witnesses(d)' = Witnesses(d)
    BY <2>3 DEF Witnesses
  <2>9. DelOK(d)'
    BY <1>2, <1>5, <2>3, <2>4, <2>7, <2>8 DEF DelOK, Bound, Led
  <2> QED BY <1>4, <2>3, <2>5, <2>9 DEF Keeps, Routed, Quiet
<1>7. CASE ~ Witnesses(d)
  <2>1. del'[d] = del[d]
    BY <1>1, <1>7 DEF Witnessed, Witnesses
  <2> QED BY <1>2, <1>4, <1>5, <1>7, <2>1 DEF DelOK, Witnesses, Bound, Led, Of, Keeps, Routed, Quiet
<1> QED BY <1>6, <1>7

LEMMA RestartOK ==
    ASSUME TypeOK, DelInv, Restart, NEW d \in Deliveries
    PROVE  /\ Typed(del'[d]) /\ DelOK(d)' /\ Keeps(d) /\ Quiet(d)
           /\ del' \in [Deliveries -> Delivery]
<1>1. UNCHANGED <<binding, rank, tasks>>
  BY DEF Restart
<1>2. ASSUME NEW e \in Deliveries
      PROVE  /\ Typed(del'[e])
             /\ \/ del'[e] = del[e]
                \/ /\ del[e].gw \in {"member", "waiting"} /\ del'[e].gw = "lost"
                   /\ del'[e].job = del[e].job /\ del'[e].msg = del[e].msg
                   /\ del'[e].reply = del[e].reply /\ del'[e].verdict = del[e].verdict
                   /\ del'[e].after = del[e].after /\ del'[e].hotel = del[e].hotel
                   /\ del'[e].bound = del[e].bound /\ del'[e].held = del[e].held
  <2>1. del'[e] = IF del[e].gw \in {"member", "waiting"} THEN [del[e] EXCEPT !.gw = "lost"] ELSE del[e]
    BY DEF Restart
  <2> QED BY <2>1, DeliveryTypes DEF Typed, Delivery
<1>3. del' \in [Deliveries -> Delivery]
  BY <1>2 DEF Restart, Typed
<1>4. HasTask(d)' = HasTask(d)
  BY <1>1 DEF HasTask
<1>5. CASE del'[d] = del[d]
  BY <1>1, <1>2, <1>3, <1>4, <1>5 DEF DelInv, DelOK, Witnesses, Bound, Led, Of, RankOf, Keeps, Routed, Quiet
<1>6. CASE del'[d] # del[d]
  BY <1>1, <1>2, <1>3, <1>4, <1>6
  DEF DelInv, DelOK, Witnesses, Bound, Led, Of, RankOf, Keeps, Routed, Quiet, Steps
<1> QED BY <1>5, <1>6

-----------------------------------------------------------------------------
(* All deliveries.                                                         *)

LEMMA SameTasks == TypeOK /\ UNCHANGED tasks => TasksGrow
BY DEF TasksGrow, TypeOK

LEMMA LocalMoves ==
    ASSUME TypeOK, DelInv, MemoryInv, NEW d \in Deliveries, Handle(d) \/ Run(d)
    PROVE  Moves(d) /\ UNCHANGED <<binding, rank>> /\ TasksGrow
<1>0. DelOK(d)
  BY DEF DelInv
<1>1. CASE \E m \in Messages : Receive(d, m)
  BY <1>0, <1>1, ReceiveOK, SameTasks DEF Receive
<1>2. CASE StartRoute(d)
  BY <1>0, <1>2, StartRouteOK, SameTasks DEF StartRoute
<1>3. CASE Answer(d)
  BY <1>0, <1>3, AnswerOK, SameTasks DEF Answer
<1>4. CASE RouteFails(d)
  BY <1>0, <1>4, RouteFailsOK, SameTasks DEF RouteFails
<1>5. CASE CheckScope(d)
  BY <1>0, <1>5, CheckScopeOK, SameTasks DEF CheckScope, OnlyJob
<1>6. CASE ReadBinding(d)
  BY <1>0, <1>6, ReadBindingOK, SameTasks DEF ReadBinding, OnlyJob
<1>7. CASE ReadRank(d)
  BY <1>0, <1>7, ReadRankOK, SameTasks DEF ReadRank, OnlyJob
<1>8. CASE ReadSource(d)
  BY <1>0, <1>8, ReadSourceOK, SameTasks DEF ReadSource, OnlyJob
<1>9. CASE InsertTask(d)
  BY <1>0, <1>9, InsertTaskOK DEF InsertTask
<1> QED BY <1>1, <1>2, <1>3, <1>4, <1>5, <1>6, <1>7, <1>8, <1>9 DEF Handle, Run

LEMMA MoveMovesAll ==
    ASSUME TypeOK, DelInv, NEW d \in Deliveries, Moves(d), UNCHANGED <<binding, rank>>, TasksGrow
    PROVE  /\ del' \in [Deliveries -> Delivery]
           /\ \A e \in Deliveries : Typed(del'[e]) /\ DelOK(e)' /\ Keeps(e)
           /\ \A e \in Deliveries \ {d} : del'[e] = del[e]
<1>1. PICK p : Typed(p) /\ del' = [del EXCEPT ![d] = p]
  BY DEF Moves
<1>2. /\ del' \in [Deliveries -> Delivery] /\ \A e \in Deliveries : Typed(del'[e])
      /\ \A e \in Deliveries \ {d} : del'[e] = del[e]
  BY <1>1, Becomes
<1>3. \A e \in Deliveries \ {d} : DelOK(e)' /\ Keeps(e)
  BY <1>2, OthersStay DEF DelInv
<1>4. DelOK(d)' /\ Keeps(d)
  BY DEF Moves
<1> QED BY <1>2, <1>3, <1>4

(* The tables of the control plane keep their types, and change only with  *)
(* what the deliveries witness.                                            *)
LEMMA Changed ==
    ASSUME TypeOK,
           \/ \E c \in Chats, h \in Hotels \cup {None} : Bind(c, h)
           \/ \E p \in People, h \in Hotels, r \in Ranks \ {"admin"} : SetRank(p, h, r)
           \/ Bootstrap
    PROVE  \E b \in [Chats -> Hotels \cup {None}], r \in [People -> [Hotels -> Ranks \ {"admin"}]] :
              Change(b, r)
<1>0. binding \in [Chats -> Hotels \cup {None}] /\ rank \in [People -> [Hotels -> Ranks \ {"admin"}]]
  BY DEF TypeOK
<1>1. ASSUME NEW c \in Chats, NEW h \in Hotels \cup {None}, Bind(c, h)
      PROVE  \E b \in [Chats -> Hotels \cup {None}] : Change(b, rank)
  <2>1. [binding EXCEPT ![c] = h] \in [Chats -> Hotels \cup {None}]
    BY <1>0
  <2> QED BY <1>1, <2>1 DEF Bind
<1>2. ASSUME NEW p \in People, NEW h \in Hotels, NEW r \in Ranks \ {"admin"}, SetRank(p, h, r)
      PROVE  \E s \in [People -> [Hotels -> Ranks \ {"admin"}]] : Change(binding, s)
  <2>1. [rank EXCEPT ![p][h] = r] \in [People -> [Hotels -> Ranks \ {"admin"}]]
    BY <1>0
  <2> QED BY <1>2, <2>1 DEF SetRank
<1>3. ASSUME Bootstrap
      PROVE  \E b \in [Chats -> Hotels \cup {None}], r \in [People -> [Hotels -> Ranks \ {"admin"}]] :
                Change(b, r)
  <2>1. [c \in Chats |-> IF InitialBinding[c] = None THEN binding[c] ELSE InitialBinding[c]]
           \in [Chats -> Hotels \cup {None}]
    BY <1>0, PeopleAssumption
  <2>2. [p \in People |-> [h \in Hotels |->
               IF InitialRank[p][h] = "none" THEN rank[p][h] ELSE InitialRank[p][h]]]
           \in [People -> [Hotels -> Ranks \ {"admin"}]]
    BY <1>0, PeopleAssumption
  <2> QED BY <1>3, <2>1, <2>2 DEF Bootstrap
<1> QED BY <1>0, <1>1, <1>2, <1>3

(* The steps: of one delivery, of the control plane, or of the memory.     *)
World == \E b \in [Chats -> Hotels \cup {None}], r \in [People -> [Hotels -> Ranks \ {"admin"}]] :
            Change(b, r)

LEMMA NextIs ==
    ASSUME TypeOK, [Next]_vars
    PROVE  \/ \E d \in Deliveries : Handle(d) \/ Run(d)
           \/ Restart \/ \E m \in Messages : Expire(m)
           \/ World \/ UNCHANGED vars
BY Changed DEF Next, World

LEMMA AllKeep ==
    ASSUME TypeOK, DelInv, MemoryInv, [Next]_vars
    PROVE  /\ del' \in [Deliveries -> Delivery]
           /\ \A e \in Deliveries : Typed(del'[e]) /\ DelOK(e)' /\ Keeps(e)
<1>1. CASE \E d \in Deliveries : Handle(d) \/ Run(d)
  <2>1. PICK d \in Deliveries : Handle(d) \/ Run(d)
    BY <1>1
  <2>2. Moves(d) /\ UNCHANGED <<binding, rank>> /\ TasksGrow
    BY <2>1, LocalMoves
  <2> QED BY <2>2, MoveMovesAll
<1>2. CASE Restart
  <2>1. del' \in [Deliveries -> Delivery]
    <3>1. CASE Deliveries = {}
      BY <1>2, <3>1 DEF Restart
    <3>2. CASE Deliveries # {}
      BY <1>2, <3>2, RestartOK
    <3> QED BY <3>1, <3>2
  <2> QED BY <1>2, <2>1, RestartOK
<1>3. CASE UNCHANGED <<binding, rank, del, tasks>>
  <2>1. TasksGrow
    BY <1>3, SameTasks
  <2> QED BY <1>3, <2>1, OthersStay, DeliveryTypes DEF DelInv, TypeOK
<1>4. CASE World
  <2>1. PICK b \in [Chats -> Hotels \cup {None}], r \in [People -> [Hotels -> Ranks \ {"admin"}]] :
            Change(b, r)
    BY <1>4 DEF World
  <2>2. del' \in [Deliveries -> Delivery]
    <3>1. CASE Deliveries = {}
      BY <2>1, <3>1 DEF Change, Witnessed
    <3>2. CASE Deliveries # {}
      BY <2>1, <3>2, ChangeOK
    <3> QED BY <3>1, <3>2
  <2> QED BY <2>1, <2>2, ChangeOK
<1>5. (\E m \in Messages : Expire(m)) \/ UNCHANGED vars => UNCHANGED <<binding, rank, del, tasks>>
  BY DEF Expire, vars
<1> QED BY <1>1, <1>2, <1>3, <1>4, <1>5, NextIs

LEMMA TypeStep ==
    ASSUME TypeOK, DelInv, MemoryInv, [Next]_vars PROVE TypeOK'
<1>1. del' \in [Deliveries -> Delivery] /\ \A e \in Deliveries : Typed(del'[e])
  BY AllKeep
<1>2. CASE \E d \in Deliveries : Handle(d) \/ Run(d)
  <2>1. PICK d \in Deliveries : Handle(d) \/ Run(d)
    BY <1>2
  <2>2. UNCHANGED <<binding, rank>> /\ TasksGrow
    BY <2>1, LocalMoves
  <2>3. (\E m \in Messages : m \notin seen /\ seen' = seen \cup {m}) \/ seen' = seen
        \/ (Answer(d) /\ seen' = seen \cup {del[d].msg})
    BY <2>1 DEF Handle, Run, Receive, StartRoute, Answer, RouteFails, UnseenAfterFailure, Remembered,
                CheckScope, ReadBinding, ReadRank, ReadSource, InsertTask, OnlyJob
  <2>4. Answer(d) => del[d].msg \in Messages
    BY DEF Answer, DelInv, DelOK
  <2>5. settled' \subseteq settled \cup {d} /\ UNCHANGED <<changes, forgets>>
    BY <2>1 DEF Handle, Run, Receive, StartRoute, Answer, RouteFails,
                CheckScope, ReadBinding, ReadRank, ReadSource, InsertTask, OnlyJob
  <2>6. tasks' \in Seq(Task)
    BY <2>2 DEF TasksGrow
  <2>7. seen' \subseteq Messages
    BY <2>3, <2>4 DEF TypeOK
  <2> QED BY <1>1, <2>2, <2>5, <2>6, <2>7 DEF TypeOK, Typed
<1>3. CASE Restart
  BY <1>1, <1>3, MailAssumption DEF Restart, TypeOK, Typed
<1>4. CASE \E m \in Messages : Expire(m)
  BY <1>1, <1>4, MailAssumption DEF Expire, TypeOK, Typed
<1>5. CASE World
  BY <1>1, <1>5, MailAssumption DEF World, Change, TypeOK, Typed
<1>6. CASE UNCHANGED vars
  BY <1>1, <1>6 DEF vars, TypeOK, Typed
<1> QED BY <1>2, <1>3, <1>4, <1>5, <1>6, NextIs

-----------------------------------------------------------------------------
(* The tasks.                                                              *)

Authorized(d, h) ==
    /\ Bound(d, h) /\ Led(d, h)
    /\ Of(d).group => Bound(d, Of(d).bot)
    /\ Of(d).launch \in Listed[h]

LEMMA AuthorizedIs ==
    TasksAreAuthorized <=> \A i \in DOMAIN tasks : Authorized(tasks[i].delivery, tasks[i].hotel)
BY DEF TasksAreAuthorized, Authorized, Bound, Led

LEMMA TasksChange ==
    ASSUME TypeOK, [Next]_vars
    PROVE  tasks' = tasks \/ \E d \in Deliveries : InsertTask(d)
BY NextIs DEF Handle, Run, Receive, StartRoute, Answer, RouteFails, CheckScope, ReadBinding,
              ReadRank, ReadSource, OnlyJob, Restart, Expire, World, Change, vars

LEMMA TaskTypes ==
    ASSUME TypeOK PROVE \A i \in DOMAIN tasks : tasks[i].delivery \in Deliveries /\ tasks[i].hotel \in Hotels
<1>1. \A i \in DOMAIN tasks : tasks[i] \in Task
  BY DEF TypeOK
<1> QED BY <1>1 DEF Task

LEMMA OldTasks ==
    ASSUME TypeOK, DelInv, MemoryInv, TaskInv, TasksAreAuthorized, [Next]_vars, NEW i \in DOMAIN tasks
    PROVE  /\ del'[tasks[i].delivery].job \in {"exited", "dead"}
           /\ Authorized(tasks[i].delivery, tasks[i].hotel)'
               \/ tasks'[i] # tasks[i]
<1> DEFINE d == tasks[i].delivery
           h == tasks[i].hotel
<1>1. d \in Deliveries /\ DelOK(d) /\ Keeps(d) /\ del[d].job \in {"exited", "dead"}
  BY AllKeep, TaskTypes DEF DelInv, TaskInv
<1>2. del[d].gw # "new"
  BY <1>1 DEF DelOK
<1>3. Authorized(d, h)
  BY AuthorizedIs
<1>4. /\ del'[d].job \in {"exited", "dead"} /\ del'[d].msg = del[d].msg
      /\ del[d].bound \subseteq del'[d].bound /\ del[d].held \subseteq del'[d].held
  BY <1>1, <1>2 DEF Keeps, Routed
<1> HIDE DEF d, h
<1>5. ASSUME d' = d, h' = h PROVE Authorized(d, h)'
  BY <1>3, <1>4, <1>5 DEF Authorized, Bound, Led, Of
<1>6. tasks'[i] = tasks[i] => d' = d /\ h' = h
  BY DEF d, h
<1> QED BY <1>4, <1>5, <1>6 DEF d, h

LEMMA TaskStep ==
    ASSUME TypeOK, DelInv, MemoryInv, TaskInv, TasksAreAuthorized, [Next]_vars
    PROVE  TaskInv' /\ TasksAreAuthorized'
<1>1. CASE tasks' = tasks
  <2>1. \A i \in DOMAIN tasks' : /\ del'[tasks'[i].delivery].job \in {"exited", "dead"}
                                 /\ Authorized(tasks[i].delivery, tasks[i].hotel)'
    BY <1>1, OldTasks
  <2>2. TasksAreAuthorized'
    BY <1>1, <2>1, AuthorizedIs DEF TasksAreAuthorized, Authorized, Bound, Led
  <2> QED BY <1>1, <2>1, <2>2 DEF TaskInv
<1>2. ASSUME NEW d \in Deliveries, InsertTask(d), tasks' # tasks PROVE TaskInv' /\ TasksAreAuthorized'
  <2>1. DelOK(d) /\ del[d].job = "insert" /\ del[d].hotel \in Hotels
    BY <1>2 DEF DelInv, InsertTask, DelOK
  <2>2. tasks' = Append(tasks, [delivery |-> d, hotel |-> del[d].hotel])
    BY <1>2 DEF InsertTask, TaskHotel
  <2>3. /\ TasksGrow
        /\ \A i \in DOMAIN tasks' \ DOMAIN tasks :
              i = Len(tasks) + 1 /\ tasks'[i] = [delivery |-> d, hotel |-> del[d].hotel]
    BY <2>1, <2>2, Inserted
  <2>4. /\ del'[d].job = "exited" /\ del'[d].bound = del[d].bound
        /\ del'[d].held = del[d].held /\ del'[d].msg = del[d].msg
    BY <1>2, <2>1, InsertTaskOK
  <2>5. Authorized(d, del[d].hotel)
    BY <2>1 DEF DelOK, Authorized, Steps
  <2>6. ASSUME NEW i \in DOMAIN tasks'
        PROVE  /\ del'[tasks'[i].delivery].job \in {"exited", "dead"}
               /\ tasks'[i].hotel \in del'[tasks'[i].delivery].bound
               /\ \E r \in {"owner", "admin"} : <<tasks'[i].hotel, r>> \in del'[tasks'[i].delivery].held
               /\ Mail[del'[tasks'[i].delivery].msg].group =>
                     Mail[del'[tasks'[i].delivery].msg].bot \in del'[tasks'[i].delivery].bound
               /\ Mail[del'[tasks'[i].delivery].msg].launch \in Listed[tasks'[i].hotel]
    <3>1. CASE i \in DOMAIN tasks
      <4>1. tasks'[i] = tasks[i]
        BY <2>3, <3>1 DEF TasksGrow
      <4>2. Authorized(tasks[i].delivery, tasks[i].hotel)' /\ del'[tasks[i].delivery].job \in {"exited", "dead"}
        BY <3>1, <4>1, OldTasks
      <4> QED BY <4>1, <4>2 DEF Authorized, Bound, Led, Of
    <3>2. CASE i \notin DOMAIN tasks
      <4>1. tasks'[i].delivery = d /\ tasks'[i].hotel = del[d].hotel
        BY <2>3, <3>2
      <4> QED BY <2>4, <2>5, <4>1 DEF Authorized, Bound, Led, Of
    <3> QED BY <3>1, <3>2
  <2>7. ASSUME NEW i \in DOMAIN tasks', NEW j \in DOMAIN tasks', i # j
        PROVE  tasks'[i].delivery # tasks'[j].delivery
    <3>1. CASE i \in DOMAIN tasks /\ j \in DOMAIN tasks
      BY <2>3, <2>7, <3>1 DEF TasksGrow, TaskInv
    <3>2. \A k \in DOMAIN tasks : tasks'[k].delivery # d
      BY <2>1, <2>3 DEF TasksGrow, TaskInv
    <3>3. CASE i \notin DOMAIN tasks \/ j \notin DOMAIN tasks
      BY <2>3, <2>7, <3>2, <3>3
    <3> QED BY <3>1, <3>3
  <2>8. TasksAreAuthorized'
    BY <2>6 DEF TasksAreAuthorized, Of
  <2>9. TaskInv'
    BY <2>6, <2>7 DEF TaskInv
  <2> QED BY <2>8, <2>9
<1> QED BY <1>1, <1>2, TasksChange

-----------------------------------------------------------------------------
(* The memory of the gateway and its answers.                              *)

LEMMA AnswerIsKept ==
    ASSUME TypeOK, NEW e \in Deliveries, Keeps(e), del[e].reply # None
    PROVE  /\ del'[e].msg = del[e].msg /\ del'[e].gw = "answered" /\ del'[e].reply = del[e].reply
BY DeliveryTypes DEF Keeps, Routed, Typed

LEMMA MemoryStays ==
    ASSUME TypeOK, MemoryInv, \A e \in Deliveries : Keeps(e) /\ Quiet(e),
           seen' \subseteq seen, settled' \subseteq settled,
           \A e \in settled' : del[e].msg \in seen'
    PROVE  MemoryInv'
<1>0. \A e \in Deliveries : del[e].gw = "answered" => del[e].reply # None
  BY DeliveryTypes DEF Typed
<1>1. ASSUME NEW e \in settled' PROVE del'[e].gw = "answered" /\ del'[e].msg \in seen'
  <2>1. e \in Deliveries /\ del[e].gw = "answered"
    BY <1>1 DEF MemoryInv, TypeOK
  <2> QED BY <1>0, <1>1, <2>1, AnswerIsKept
<1>2. ASSUME NEW e \in Deliveries, Settled(e) \/ del[e].reply = "duplicate"
      PROVE  /\ del'[e].msg = del[e].msg /\ del'[e].reply = del[e].reply
             /\ Settled(e) => Settled(e)'
  <2>1. del[e].reply # None
    BY <1>0, <1>2, PeopleAssumption DEF Settled, Routed
  <2> QED BY <2>1, AnswerIsKept DEF Settled, Keeps
<1>3. \A m \in seen' : \E e \in Deliveries : del'[e].msg = m /\ Settled(e)'
  BY <1>2 DEF MemoryInv
<1>4. ASSUME NEW d \in Deliveries, del'[d].reply = "duplicate"
      PROVE  \E e \in Deliveries : del'[e].msg = del'[d].msg /\ e # d /\ Settled(e)'
  <2>1. del[d].reply = "duplicate"
    BY <1>4 DEF Quiet
  <2>2. PICK e \in Deliveries : del[e].msg = del[d].msg /\ e # d /\ Settled(e)
    BY <2>1 DEF MemoryInv
  <2> QED BY <1>2, <2>1, <2>2
<1> QED BY <1>1, <1>3, <1>4 DEF MemoryInv

LEMMA ReceiveMemory ==
    ASSUME TypeOK, DelInv, MemoryInv, NEW d \in Deliveries, NEW m \in Messages, Receive(d, m),
           \A e \in Deliveries : Keeps(e), \A e \in Deliveries \ {d} : del'[e] = del[e]
    PROVE  MemoryInv'
<1>1. del[d].gw = "new" /\ del[d].reply = None /\ settled' = settled
  BY DeliveryTypes DEF Receive, Turn, Typed
<1>2. d \notin settled /\ settled \subseteq Deliveries
  BY <1>1 DEF MemoryInv, TypeOK
<1>3. \A e \in settled : del'[e].gw = "answered" /\ del'[e].msg \in seen
  BY <1>2 DEF MemoryInv
<1>4. ASSUME NEW k \in seen PROVE \E e \in Deliveries \ {d} : del'[e].msg = k /\ Settled(e)'
  <2>1. PICK e \in Deliveries : del[e].msg = k /\ Settled(e)
    BY DEF MemoryInv
  <2>2. e # d
    BY <1>1, <2>1, PeopleAssumption DEF Settled, Routed
  <2> QED BY <2>1, <2>2 DEF Settled, Routed
<1>5. ASSUME NEW f \in Deliveries \ {d}, del'[f].reply = "duplicate"
      PROVE  \E e \in Deliveries : del'[e].msg = del'[f].msg /\ e # f /\ Settled(e)'
  <2>1. PICK e \in Deliveries : del[e].msg = del[f].msg /\ e # f /\ Settled(e)
    BY <1>5 DEF MemoryInv
  <2>2. e # d
    BY <1>1, <2>1, PeopleAssumption DEF Settled, Routed
  <2> QED BY <2>1, <2>2 DEF Settled, Routed
<1>6. CASE m \in seen /\ del' = [del EXCEPT ![d] = Told(m, "duplicate")] /\ UNCHANGED seen
  <2>1. del'[d].msg = m
    BY <1>6 DEF TypeOK, Told, Arrival, New
  <2>2. \E e \in Deliveries : del'[e].msg = del'[d].msg /\ e # d /\ Settled(e)'
    BY <1>4, <1>6, <2>1
  <2> QED BY <1>1, <1>3, <1>4, <1>5, <1>6, <2>2 DEF MemoryInv
<1>7. CASE /\ m \notin seen /\ Mail[m].sender = None
           /\ del' = [del EXCEPT ![d] = Told(m, "invalid")] /\ seen' = seen \cup {m}
  <2>1. del'[d].msg = m /\ del'[d].reply = "invalid"
    BY <1>7 DEF TypeOK, Told, Arrival, New
  <2> QED BY <1>1, <1>3, <1>4, <1>5, <1>7, <2>1 DEF MemoryInv, Settled
<1>8. CASE m \notin seen /\ Mail[m].sender # None /\ del' = [del EXCEPT ![d] = TakenUp(m)] /\ UNCHANGED seen
  <2>1. del'[d].reply = None
    BY <1>8 DEF TypeOK, TakenUp, Arrival, New
  <2> QED BY <1>1, <1>3, <1>4, <1>5, <1>8, <2>1, PeopleAssumption DEF MemoryInv
<1> QED BY <1>6, <1>7, <1>8 DEF Receive

LEMMA AnswerMemory ==
    ASSUME TypeOK, DelInv, MemoryInv, NEW d \in Deliveries, Answer(d),
           \A e \in Deliveries \ {d} : del'[e] = del[e]
    PROVE  MemoryInv'
<1>1. DelOK(d) /\ del[d].reply = None /\ del[d].gw = "waiting"
  BY DeliveryTypes DEF DelInv, Answer, Typed
<1>2. /\ del'[d].msg = del[d].msg /\ del'[d].gw = "answered" /\ Settled(d)'
      /\ del'[d].reply # "duplicate"
  BY <1>1, AnswerOK, PeopleAssumption DEF Quiet
<1>3. seen' = seen \cup {del[d].msg} /\ settled' = settled \cup {d} /\ settled \subseteq Deliveries
  BY DEF Answer, Remembered, TypeOK
<1>4. \A e \in settled' : del'[e].gw = "answered" /\ del'[e].msg \in seen'
  BY <1>2, <1>3 DEF MemoryInv
<1>5. \A k \in seen' : \E e \in Deliveries : del'[e].msg = k /\ Settled(e)'
  <2>1. ASSUME NEW k \in seen PROVE \E e \in Deliveries : del'[e].msg = k /\ Settled(e)'
    <3>1. PICK e \in Deliveries : del[e].msg = k /\ Settled(e)
      BY DEF MemoryInv
    <3>2. e # d
      BY <1>1, <3>1, PeopleAssumption DEF Settled, Routed
    <3> QED BY <3>1, <3>2 DEF Settled, Routed
  <2> QED BY <1>2, <1>3, <2>1
<1>6. ASSUME NEW f \in Deliveries, del'[f].reply = "duplicate"
      PROVE  \E e \in Deliveries : del'[e].msg = del'[f].msg /\ e # f /\ Settled(e)'
  <2>1. f # d
    BY <1>2, <1>6
  <2>2. PICK e \in Deliveries : del[e].msg = del[f].msg /\ e # f /\ Settled(e)
    BY <1>6, <2>1 DEF MemoryInv
  <2>3. e # d
    BY <1>1, <2>2, PeopleAssumption DEF Settled, Routed
  <2> QED BY <2>1, <2>2, <2>3 DEF Settled, Routed
<1> QED BY <1>4, <1>5, <1>6 DEF MemoryInv

LEMMA MemoryStep ==
    ASSUME TypeOK, DelInv, MemoryInv, [Next]_vars PROVE MemoryInv'
<1>1. \A e \in Deliveries : Keeps(e) /\ DelOK(e)
  BY AllKeep DEF DelInv
<1>2. ASSUME NEW d \in Deliveries, Handle(d) \/ Run(d) PROVE MemoryInv'
  <2>1. \A e \in Deliveries \ {d} : del'[e] = del[e]
    BY <1>2, LocalMoves, MoveMovesAll
  <2>2. CASE \E m \in Messages : Receive(d, m)
    BY <1>1, <2>1, <2>2, ReceiveMemory
  <2>3. CASE Answer(d)
    BY <2>1, <2>3, AnswerMemory
  <2>4. CASE ~ (\E m \in Messages : Receive(d, m)) /\ ~ Answer(d)
    <3>1. Quiet(d)
      BY <1>1, <1>2, <2>4, StartRouteOK, RouteFailsOK, CheckScopeOK, ReadBindingOK, ReadRankOK,
         ReadSourceOK, InsertTaskOK DEF Handle, Run
    <3>2. UNCHANGED <<seen, settled>>
      BY <1>2, <2>4 DEF Handle, Run, StartRoute, RouteFails, UnseenAfterFailure, CheckScope,
                        ReadBinding, ReadRank, ReadSource, InsertTask, OnlyJob
    <3>3. \A e \in Deliveries : Quiet(e)
      BY <2>1, <3>1 DEF Quiet
    <3> QED BY <1>1, <3>2, <3>3, MemoryStays DEF MemoryInv
  <2> QED BY <2>2, <2>3, <2>4
<1>3. CASE Restart
  <2>1. \A e \in Deliveries : Quiet(e)
    BY <1>3, RestartOK
  <2>2. seen' = {} /\ settled' = {}
    BY <1>3 DEF Restart
  <2> QED BY <1>1, <2>1, <2>2, MemoryStays
<1>4. ASSUME NEW m \in Messages, Expire(m) PROVE MemoryInv'
  <2>1. \A e \in Deliveries : Quiet(e)
    BY <1>4 DEF Expire, Quiet
  <2>2. seen' = seen \ {m} /\ settled' = {e \in settled : del[e].msg # m}
    BY <1>4 DEF Expire
  <2>3. \A e \in settled' : del[e].msg \in seen'
    BY <2>2 DEF MemoryInv
  <2> QED BY <1>1, <2>1, <2>2, <2>3, MemoryStays
<1>5. CASE World
  <2>1. \A e \in Deliveries : Quiet(e)
    BY <1>5, ChangeOK DEF World
  <2>2. UNCHANGED <<seen, settled>>
    BY <1>5 DEF World, Change
  <2> QED BY <1>1, <2>1, <2>2, MemoryStays DEF MemoryInv
<1>6. CASE UNCHANGED vars
  BY <1>6 DEF vars, MemoryInv, Settled, Routed
<1> QED BY <1>2, <1>3, <1>4, <1>5, <1>6, NextIs

-----------------------------------------------------------------------------
(* The invariant holds, and what follows from it.                          *)

LEMMA InitSafety ==
    ASSUME Init PROVE SafetyInv
<1>1. /\ del = [d \in Deliveries |-> New] /\ tasks = <<>> /\ seen = {} /\ settled = {}
      /\ binding = InitialBinding /\ rank = InitialRank /\ changes = 0 /\ forgets = 0
  BY DEF Init
<1>2. \A d \in Deliveries : del[d] = New
  BY <1>1
<1>3. TypeOK
  <2>1. Typed(New)
    BY NewType DEF Typed
  <2>2. tasks \in Seq(Task)
    BY <1>1
  <2> QED BY <1>1, <1>2, <2>1, <2>2, PeopleAssumption, MailAssumption DEF TypeOK, Typed
<1>4. DelInv
  BY <1>2, NewType, PeopleAssumption DEF DelInv, DelOK, Witnesses, Steps
<1>5. TaskInv /\ TasksAreAuthorized
  <2>1. DOMAIN tasks = {}
    BY <1>1
  <2> QED BY <2>1 DEF TaskInv, TasksAreAuthorized
<1>6. MemoryInv
  BY <1>1, <1>2, NewType, PeopleAssumption DEF MemoryInv
<1> QED BY <1>3, <1>4, <1>5, <1>6 DEF SafetyInv

LEMMA SafetyStep ==
    ASSUME SafetyInv, [Next]_vars PROVE SafetyInv'
<1>1. TypeOK /\ DelInv /\ TaskInv /\ TasksAreAuthorized /\ MemoryInv
  BY DEF SafetyInv
<1>2. TypeOK'
  BY <1>1, TypeStep
<1>3. \A e \in Deliveries : DelOK(e)'
  BY <1>1, AllKeep
<1>4. DelInv'
  BY <1>3 DEF DelInv
<1>5. TaskInv' /\ TasksAreAuthorized'
  BY <1>1, TaskStep
<1>6. MemoryInv'
  BY <1>1, MemoryStep
<1> QED BY <1>2, <1>4, <1>5, <1>6 DEF SafetyInv

(* The inductive invariant holds of every state the gateway can reach.     *)
THEOREM SafetyHolds == Spec => []SafetyInv
<1>1. Init => SafetyInv
  BY InitSafety
<1>2. SafetyInv /\ [Next]_vars => SafetyInv'
  BY SafetyStep
<1> QED BY <1>1, <1>2, PTL DEF Spec

(* Handlers, children and tables keep their types.                         *)
THEOREM TypeCorrect == Spec => []TypeOK
<1>1. SafetyInv => TypeOK
  BY DEF SafetyInv
<1> QED BY <1>1, SafetyHolds, PTL

(* A message makes a second task only if the delivery that made the first  *)
(* was not answered, or was forgotten, when the second arrived: what the   *)
(* memory of the gateway is worth where the table has no key.              *)
THEOREM RepeatsExplained == Spec => []RepeatsAreExplained
<1>1. SafetyInv => RepeatsAreExplained
  <2> SUFFICES ASSUME SafetyInv PROVE RepeatsAreExplained
    OBVIOUS
  <2>1. \A d \in Deliveries : del[d].after = {}
    BY DEF SafetyInv, DelInv, DelOK
  <2>2. \A i \in DOMAIN tasks : tasks[i].delivery \in Deliveries
    BY TaskTypes DEF SafetyInv
  <2> QED BY <2>1, <2>2 DEF SafetyInv, TaskInv, RepeatsAreExplained
<1> QED BY <1>1, SafetyHolds, PTL

(* A task is for a hotel the chat was bound to, and its sender led, while  *)
(* the message was served, however bindings and ranks change in between.   *)
THEOREM TasksAuthorized == Spec => []TasksAreAuthorized
<1>1. SafetyInv => TasksAreAuthorized
  BY DEF SafetyInv
<1> QED BY <1>1, SafetyHolds, PTL

(* "Created" has its task, and "see the previous reply" has one to see, of *)
(* a delivery that was routed or refused unread, never of one that failed, *)
(* after timeouts and restarts too.                                        *)
THEOREM RepliesTrue == Spec => []RepliesAreTrue
<1>1. SafetyInv => RepliesAreTrue
  <2> SUFFICES ASSUME SafetyInv, NEW d \in Deliveries
               PROVE  /\ del[d].reply = "created" => \E i \in DOMAIN tasks : tasks[i].delivery = d
                      /\ del[d].reply = "duplicate" =>
                            \E e \in Deliveries : /\ del[e].msg = del[d].msg /\ e # d
                                                  /\ Routed(e) \/ del[e].reply = "invalid"
    BY DEF RepliesAreTrue
  <2>1. del[d].reply = "created" => \E i \in DOMAIN tasks : tasks[i].delivery = d
    BY DEF SafetyInv, DelInv, DelOK, HasTask
  <2> QED BY <2>1 DEF SafetyInv, MemoryInv, Settled
<1> QED BY <1>1, SafetyHolds, PTL

=============================================================================
