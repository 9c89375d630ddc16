---------------------------- MODULE GatewayProofs ----------------------------
(***************************************************************************)
(* Proofs about the services of MCGateway: the binding sync, the command   *)
(* menu and the calendar, through their instances Sync, Menu and Cal, and  *)
(* what follows for the specification of all services in one run.  The     *)
(* proofs about the gateway and the diagnosis conversation are in modules  *)
(* of their own.                                                           *)
(***************************************************************************)
EXTENDS MCGateway, FeishuIngressProofs

-----------------------------------------------------------------------------
(***************************************************************************)
(* The binding sync, for any accounts, chats and hotels and any number of  *)
(* changes.                                                                *)
(***************************************************************************)

(* The inductive invariant.                                                *)

(* The types of what the sync reads and writes.                            *)
SyncShape ==
    /\ map \in [Accounts -> Hotels \cup {None}]
    /\ tables \in [Sync!Tables -> [BoundChats -> Hotels \cup {None}]]
    /\ records \in [Accounts \X BoundChats -> Hotels \cup {None, "other"}]
    /\ sync \in Sync!Sync /\ held \subseteq Sync!Triples

SyncBelonged(t) == <<t[1], t[3]>> \in past /\ <<t[2], t[3]>> \in past

(* The past has what the map, the tables and the sync name.                *)
SyncPastInv ==
    /\ \A a \in Accounts : map[a] \in Hotels => <<a, map[a]>> \in past
    /\ \A a \in Accounts : sync.map[a] \in Hotels => <<a, sync.map[a]>> \in past
    /\ Sync!Rows(tables) \subseteq past
    /\ \A t \in sync.todo \cup sync.now : SyncBelonged(t)
    /\ \A t \in Sync!Triples : records[<<t[1], t[2]>>] = t[3] => SyncBelonged(t)

SyncBound(t) == Sync!Owned(t) \/ <<t[1], t[2]>> \in lost

(* What was of a hotel all the while is still to do, is being done, or has *)
(* a record, unless the record was lost.                                   *)
SyncHeldInv ==
    /\ \A t \in held : map[t[1]] = t[3] /\ <<t[2], t[3]>> \in Sync!Rows(tables)
    /\ sync.pc = "rows" => \A t \in held : sync.map[t[1]] = t[3]
    /\ sync.pc # "create" => sync.now = {}
    /\ \A s, t \in sync.now : s = t
    /\ ~ sync.dry /\ sync.pc \in {"look", "create"} =>
          \A t \in held : t \in sync.todo \/ t \in sync.now \/ SyncBound(t)
    /\ ~ sync.dry /\ sync.pc = "done" => \A t \in held : SyncBound(t)

SyncSafetyInv == SyncShape /\ SyncPastInv /\ SyncHeldInv

-----------------------------------------------------------------------------
LEMMA SyncTripleParts ==
    ASSUME NEW t \in Sync!Triples
    PROVE  t[1] \in Accounts /\ t[2] \in BoundChats /\ t[3] \in Hotels
           /\ <<t[1], t[2]>> \in Accounts \X BoundChats
BY DEF Sync!Triples

LEMMA SyncRowsType == ASSUME NEW ts PROVE Sync!Rows(ts) \subseteq BoundChats \X Hotels
BY DEF Sync!Rows

LEMMA SyncSyncTypes ==
    ASSUME SyncShape
    PROVE  /\ sync.todo \subseteq Sync!Triples /\ sync.now \subseteq Sync!Triples /\ sync.dry \in BOOLEAN
           /\ sync.map \in [Accounts -> Hotels \cup {None}]
           /\ sync.pc \in {"idle", "rows", "look", "create", "done"}
BY DEF SyncShape, Sync!Sync

(* A step of the sync: it takes no hotel from the past, and the bindings   *)
(* stay as they are.                                                       *)
LEMMA SyncStartStep == ASSUME SyncSafetyInv, Sync!Start PROVE SyncSafetyInv'
<1>1. PICK dry \in BOOLEAN :
          sync' = [pc |-> "rows", dry |-> dry, map |-> map, todo |-> {}, now |-> {}]
  BY DEF Sync!Start
<1>2. UNCHANGED <<map, tables, records, past>> /\ lost' = {}
      /\ held' = {t \in Sync!Triples : map[t[1]] = t[3] /\ <<t[2], t[3]>> \in Sync!Rows(tables)}
  BY DEF Sync!Start, Sync!world
<1>3. SyncShape'
  BY <1>1, <1>2 DEF SyncSafetyInv, SyncShape, Sync!Sync
<1>4. SyncPastInv'
  BY <1>1, <1>2 DEF SyncSafetyInv, SyncPastInv, SyncBelonged
<1>5. SyncHeldInv'
  BY <1>1, <1>2 DEF SyncHeldInv
<1> QED BY <1>3, <1>4, <1>5 DEF SyncSafetyInv

(* A step after which the sync is at p.                                    *)
LEMMA SyncSyncStep ==
    ASSUME SyncSafetyInv, NEW p \in Sync!Sync, sync' = p, UNCHANGED <<map, tables, held, past>>,
           p.map = sync.map, p.dry = sync.dry, p.pc # "rows",
           records' \in [Accounts \X BoundChats -> Hotels \cup {None, "other"}],
           \A t \in p.todo \cup p.now : SyncBelonged(t),
           \A t \in Sync!Triples : records'[<<t[1], t[2]>>] = t[3] => SyncBelonged(t),
           p.pc # "create" => p.now = {}, \A s, t \in p.now : s = t,
           ~ p.dry /\ p.pc \in {"look", "create"} =>
              \A t \in held : t \in p.todo \/ t \in p.now \/ SyncBound(t)',
           ~ p.dry /\ p.pc = "done" => \A t \in held : SyncBound(t)'
    PROVE  SyncSafetyInv'
<1>1. SyncShape'
  BY DEF SyncSafetyInv, SyncShape
<1>2. SyncPastInv'
  BY DEF SyncSafetyInv, SyncPastInv, SyncBelonged
<1>3. \A t \in held : SyncBound(t)' <=> records'[<<t[1], t[2]>>] \in Hotels \/ <<t[1], t[2]>> \in lost'
  BY DEF SyncBound, Sync!Owned
<1>4. SyncHeldInv'
  BY <1>3 DEF SyncSafetyInv, SyncHeldInv, SyncBound, Sync!Owned
<1> QED BY <1>1, <1>2, <1>4 DEF SyncSafetyInv

(* Steps that leave the records alone.                                     *)
LEMMA SyncQuietStep ==
    ASSUME SyncSafetyInv, NEW p \in Sync!Sync, sync' = p, UNCHANGED <<map, tables, records, held, past>>,
           lost \subseteq lost', p.map = sync.map, p.dry = sync.dry, p.pc # "rows",
           \A t \in p.todo \cup p.now : SyncBelonged(t),
           p.pc # "create" => p.now = {}, \A s, t \in p.now : s = t,
           ~ p.dry /\ p.pc \in {"look", "create"} =>
              \A t \in held : t \in p.todo \/ t \in p.now \/ SyncBound(t) \/ <<t[1], t[2]>> \in lost',
           ~ p.dry /\ p.pc = "done" => \A t \in held : SyncBound(t)
    PROVE  SyncSafetyInv'
<1>1. \A t \in Sync!Triples : SyncBound(t) \/ <<t[1], t[2]>> \in lost' => SyncBound(t)'
  BY DEF SyncBound, Sync!Owned
<1>2. held \subseteq Sync!Triples /\ records' \in [Accounts \X BoundChats -> Hotels \cup {None, "other"}]
  BY DEF SyncSafetyInv, SyncShape
<1>3. \A t \in Sync!Triples : records'[<<t[1], t[2]>>] = t[3] => SyncBelonged(t)
  BY DEF SyncSafetyInv, SyncPastInv
<1>4. ~ p.dry /\ p.pc \in {"look", "create"} =>
         \A t \in held : t \in p.todo \/ t \in p.now \/ SyncBound(t)'
  BY <1>1, <1>2
<1>5. ~ p.dry /\ p.pc = "done" => \A t \in held : SyncBound(t)'
  BY <1>1, <1>2
<1> QED BY <1>2, <1>3, <1>4, <1>5, SyncSyncStep

LEMMA SyncReadRowsStep == ASSUME SyncSafetyInv, Sync!ReadRows PROVE SyncSafetyInv'
<1> DEFINE todo == Sync!OfHotel(sync.map, Sync!Rows(tables))
           p == [sync EXCEPT !.pc = "look", !.todo = todo]
<1>0. sync \in Sync!Sync /\ sync.pc = "rows" /\ sync.now = {} /\ held \subseteq Sync!Triples
  BY DEF SyncSafetyInv, SyncShape, SyncHeldInv, Sync!ReadRows
<1>1. todo \in SUBSET Sync!Triples
  BY DEF Sync!OfHotel
<1>2. \A t \in held : t \in todo
  BY <1>0 DEF SyncSafetyInv, SyncHeldInv, Sync!OfHotel
<1>3. \A t \in todo : SyncBelonged(t)
  <2> SUFFICES ASSUME NEW t \in todo PROVE SyncBelonged(t)
    OBVIOUS
  <2>1. t \in Sync!Triples /\ sync.map[t[1]] = t[3] /\ <<t[2], t[3]>> \in Sync!Rows(tables)
    BY DEF Sync!OfHotel
  <2>2. t[1] \in Accounts /\ t[3] \in Hotels
    BY <2>1, SyncTripleParts
  <2> QED BY <2>1, <2>2 DEF SyncSafetyInv, SyncPastInv, SyncBelonged
<1> HIDE DEF todo
<1>4. p \in Sync!Sync /\ p.pc = "look" /\ p.todo = todo /\ p.now = {} /\ p.map = sync.map
      /\ p.dry = sync.dry
  BY <1>0, <1>1 DEF Sync!Sync
<1>5. sync' = p /\ UNCHANGED <<map, tables, records, held, lost, past>>
  BY DEF Sync!ReadRows, Sync!world, todo
<1> HIDE DEF p
<1> QED BY <1>2, <1>3, <1>4, <1>5, SyncQuietStep

LEMMA SyncLookStep == ASSUME SyncSafetyInv, NEW t \in Sync!Triples, Sync!Look(t) PROVE SyncSafetyInv'
<1>0. sync \in Sync!Sync /\ sync.pc = "look" /\ sync.now = {} /\ t \in sync.todo
  BY DEF SyncSafetyInv, SyncShape, SyncHeldInv, Sync!Look
<1>1. UNCHANGED <<map, tables, records, held, lost, past>>
  BY DEF Sync!Look, Sync!world
<1>2. \A s \in sync.todo : SyncBelonged(s)
  BY DEF SyncSafetyInv, SyncPastInv
<1>3. ~ sync.dry => \A s \in held : s \in sync.todo \/ SyncBound(s)
  BY <1>0 DEF SyncSafetyInv, SyncHeldInv
<1>4. CASE Sync!Owned(t) \/ sync.dry
  <2> DEFINE p == [sync EXCEPT !.todo = sync.todo \ {t}, !.pc = "look", !.now = {}]
  <2>1. sync' = p
    BY <1>4 DEF Sync!Look
  <2>2. p \in Sync!Sync /\ p.pc = "look" /\ p.todo = sync.todo \ {t} /\ p.now = {} /\ p.map = sync.map
        /\ p.dry = sync.dry
    BY <1>0 DEF Sync!Sync
  <2> HIDE DEF p
  <2>3. ~ p.dry => \A s \in held : s \in p.todo \/ SyncBound(s)
    BY <1>3, <1>4, <2>2 DEF SyncBound
  <2> QED BY <1>1, <1>2, <2>1, <2>2, <2>3, SyncQuietStep
<1>5. CASE ~ (Sync!Owned(t) \/ sync.dry)
  <2> DEFINE p == [sync EXCEPT !.todo = sync.todo \ {t}, !.pc = "create", !.now = {t}]
  <2>1. sync' = p
    BY <1>5 DEF Sync!Look
  <2>2. p \in Sync!Sync /\ p.pc = "create" /\ p.todo = sync.todo \ {t} /\ p.now = {t} /\ p.map = sync.map
        /\ p.dry = sync.dry
    BY <1>0 DEF Sync!Sync
  <2> HIDE DEF p
  <2>3. ~ p.dry => \A s \in held : s \in p.todo \/ s \in p.now \/ SyncBound(s)
    BY <1>3, <2>2
  <2> QED BY <1>0, <1>1, <1>2, <2>1, <2>2, <2>3, SyncQuietStep
<1> QED BY <1>4, <1>5

LEMMA SyncCreateStep ==
    ASSUME SyncSafetyInv, NEW t \in Sync!Triples, Sync!Create(t) PROVE SyncSafetyInv'
<1> DEFINE p == [sync EXCEPT !.pc = "look", !.now = {}]
<1>0. sync \in Sync!Sync /\ sync.pc = "create" /\ t \in sync.now /\ held \subseteq Sync!Triples
      /\ records \in [Accounts \X BoundChats -> Hotels \cup {None, "other"}]
  BY DEF SyncSafetyInv, SyncShape, Sync!Create
<1>1. sync' = p /\ UNCHANGED <<map, tables, held, lost, past>>
      /\ records' = [records EXCEPT ![<<t[1], t[2]>>] = t[3]]
  BY DEF Sync!Create
<1>2. p \in Sync!Sync /\ p.pc = "look" /\ p.todo = sync.todo /\ p.now = {} /\ p.map = sync.map
      /\ p.dry = sync.dry
  BY <1>0 DEF Sync!Sync
<1> HIDE DEF p
<1>3. t[3] \in Hotels /\ <<t[1], t[2]>> \in Accounts \X BoundChats
  BY SyncTripleParts
<1>4. records' \in [Accounts \X BoundChats -> Hotels \cup {None, "other"}]
  BY <1>0, <1>1, <1>3
<1>5. ASSUME NEW s \in Sync!Triples
      PROVE  /\ SyncBound(s) => SyncBound(s)'
             /\ s = t => SyncBound(s)'
             /\ records'[<<s[1], s[2]>>] = s[3] => SyncBelonged(s)
  <2>1. <<s[1], s[2]>> \in Accounts \X BoundChats /\ s[3] \in Hotels
    BY SyncTripleParts
  <2>2. CASE <<s[1], s[2]>> = <<t[1], t[2]>>
    <3>1. records'[<<s[1], s[2]>>] = t[3]
      BY <1>0, <1>1, <1>3, <2>2
    <3>2. SyncBelonged(t) /\ s[1] = t[1] /\ s[2] = t[2]
      BY <1>0, <2>2 DEF SyncSafetyInv, SyncPastInv
    <3> QED BY <1>3, <3>1, <3>2 DEF SyncBound, Sync!Owned, SyncBelonged
  <2>3. CASE <<s[1], s[2]>> # <<t[1], t[2]>>
    <3>1. records'[<<s[1], s[2]>>] = records[<<s[1], s[2]>>]
      BY <1>0, <1>1, <2>1, <2>3
    <3> QED BY <1>1, <2>3, <3>1 DEF SyncBound, Sync!Owned, SyncSafetyInv, SyncPastInv
  <2> QED BY <2>2, <2>3
<1>6. ~ p.dry => \A s \in held : s \in p.todo \/ SyncBound(s)'
  BY <1>0, <1>2, <1>5 DEF SyncSafetyInv, SyncHeldInv
<1>7. \A s \in p.todo \cup p.now : SyncBelonged(s)
  BY <1>2 DEF SyncSafetyInv, SyncPastInv
<1> QED BY <1>1, <1>2, <1>4, <1>5, <1>6, <1>7, SyncSyncStep

LEMMA SyncFailStep == ASSUME SyncSafetyInv, NEW t \in Sync!Triples, Sync!Fail(t) PROVE SyncSafetyInv'
<1> DEFINE p == [sync EXCEPT !.pc = "look", !.now = {}, !.todo = sync.todo \ {t}]
<1>0. sync \in Sync!Sync /\ sync.pc \in {"look", "create"} /\ (sync.pc = "create" => t \in sync.now)
  BY DEF SyncSafetyInv, SyncShape, Sync!Fail
<1>1. sync' = p /\ UNCHANGED <<map, tables, records, held, past>> /\ lost' = lost \cup {<<t[1], t[2]>>}
  BY DEF Sync!Fail, Sync!LeftAfterError, Sync!world
<1>2. p \in Sync!Sync /\ p.pc = "look" /\ p.todo = sync.todo \ {t} /\ p.now = {} /\ p.map = sync.map
      /\ p.dry = sync.dry
  BY <1>0 DEF Sync!Sync
<1> HIDE DEF p
<1>3. \A s \in sync.now : s = t
  BY <1>0 DEF SyncSafetyInv, SyncHeldInv
<1>4. ~ p.dry => \A s \in held : s \in p.todo \/ SyncBound(s) \/ <<s[1], s[2]>> \in lost'
  BY <1>0, <1>1, <1>2, <1>3 DEF SyncSafetyInv, SyncHeldInv
<1>5. \A s \in p.todo \cup p.now : SyncBelonged(s)
  BY <1>2 DEF SyncSafetyInv, SyncPastInv
<1> QED BY <1>1, <1>2, <1>4, <1>5, SyncQuietStep

LEMMA SyncEndStep == ASSUME SyncSafetyInv, Sync!End PROVE SyncSafetyInv'
<1> DEFINE p == [sync EXCEPT !.pc = "done"]
<1>0. sync \in Sync!Sync /\ sync.pc = "look" /\ sync.todo = {} /\ sync.now = {}
  BY DEF SyncSafetyInv, SyncShape, SyncHeldInv, Sync!End
<1>1. sync' = p /\ UNCHANGED <<map, tables, records, held, lost, past>>
  BY DEF Sync!End, Sync!world
<1>2. p \in Sync!Sync /\ p.pc = "done" /\ p.todo = {} /\ p.now = {} /\ p.map = sync.map /\ p.dry = sync.dry
  BY <1>0 DEF Sync!Sync
<1> HIDE DEF p
<1>3. ~ p.dry => \A s \in held : SyncBound(s)
  BY <1>0, <1>2 DEF SyncSafetyInv, SyncHeldInv
<1> QED BY <1>1, <1>2, <1>3, SyncQuietStep

LEMMA SyncKillStep == ASSUME SyncSafetyInv, Sync!Kill PROVE SyncSafetyInv'
<1> DEFINE p == [sync EXCEPT !.pc = "idle", !.todo = {}, !.now = {}]
<1>0. sync \in Sync!Sync
  BY DEF SyncSafetyInv, SyncShape
<1>1. sync' = p /\ UNCHANGED <<map, tables, records, held, lost, past>>
  BY DEF Sync!Kill, Sync!world
<1>2. p \in Sync!Sync /\ p.pc = "idle" /\ p.todo = {} /\ p.now = {} /\ p.map = sync.map /\ p.dry = sync.dry
  BY <1>0 DEF Sync!Sync
<1> HIDE DEF p
<1> QED BY <1>1, <1>2, SyncQuietStep

-----------------------------------------------------------------------------
(* Meanwhile.                                                              *)

LEMMA SyncChangeStep ==
    ASSUME SyncSafetyInv, NEW m \in [Accounts -> Hotels \cup {None}],
           NEW ts \in [Sync!Tables -> [BoundChats -> Hotels \cup {None}]], Sync!Change(m, ts)
    PROVE  SyncSafetyInv'
<1>1. /\ map' = m /\ tables' = ts /\ held' = held \cap Sync!OfHotel(m, Sync!Rows(ts))
      /\ past' = past \cup {<<a, m[a]>> : a \in Accounts} \cup Sync!Rows(ts)
      /\ UNCHANGED <<records, sync, lost>>
  BY DEF Sync!Change
<1>2. SyncShape'
  BY <1>1 DEF SyncSafetyInv, SyncShape
<1>3. past \subseteq past' /\ Sync!Rows(ts) \subseteq past' /\ \A a \in Accounts : <<a, m[a]>> \in past'
  BY <1>1
<1>4. Sync!Rows(tables)' = Sync!Rows(ts)
  BY <1>1 DEF Sync!Rows
<1>5. \A t \in Sync!Triples : SyncBelonged(t) => SyncBelonged(t)'
  BY <1>3 DEF SyncBelonged
<1>6. sync.todo \cup sync.now \subseteq Sync!Triples
  BY SyncSyncTypes DEF SyncSafetyInv
<1>7. SyncPastInv'
  BY <1>1, <1>3, <1>4, <1>5, <1>6 DEF SyncSafetyInv, SyncPastInv
<1>8. \A t \in held : SyncBound(t)' <=> SyncBound(t)
  BY <1>1 DEF SyncBound, Sync!Owned
<1>9. SyncHeldInv'
  <2>1. \A t \in held' : t \in held /\ m[t[1]] = t[3] /\ <<t[2], t[3]>> \in Sync!Rows(ts)
    BY <1>1 DEF Sync!OfHotel
  <2> QED BY <1>1, <1>4, <1>8, <2>1 DEF SyncSafetyInv, SyncHeldInv
<1> QED BY <1>2, <1>7, <1>9 DEF SyncSafetyInv

LEMMA SyncDetachStep ==
    ASSUME SyncSafetyInv, None \notin Hotels, "other" \notin Hotels,
           NEW a \in Accounts, NEW c \in BoundChats, NEW to \in {None, "other"}, Sync!Detach(a, c, to)
    PROVE  SyncSafetyInv'
<1>1. /\ records' = [records EXCEPT ![<<a, c>>] = to] /\ lost' = lost \cup {<<a, c>>}
      /\ UNCHANGED <<map, tables, sync, held, past>>
  BY DEF Sync!Detach
<1>2. records \in [Accounts \X BoundChats -> Hotels \cup {None, "other"}] /\ held \subseteq Sync!Triples
  BY DEF SyncSafetyInv, SyncShape
<1>3. records' \in [Accounts \X BoundChats -> Hotels \cup {None, "other"}]
  BY <1>1, <1>2
<1>4. ASSUME NEW t \in Sync!Triples
      PROVE  /\ SyncBound(t) => SyncBound(t)'
             /\ records'[<<t[1], t[2]>>] = t[3] => records[<<t[1], t[2]>>] = t[3]
  <2>1. <<t[1], t[2]>> \in Accounts \X BoundChats /\ t[3] \in Hotels
    BY SyncTripleParts
  <2>2. CASE <<t[1], t[2]>> = <<a, c>>
    BY <1>1, <1>2, <2>1, <2>2 DEF SyncBound
  <2>3. CASE <<t[1], t[2]>> # <<a, c>>
    <3>1. records'[<<t[1], t[2]>>] = records[<<t[1], t[2]>>]
      BY <1>1, <1>2, <2>1, <2>3
    <3> QED BY <1>1, <3>1 DEF SyncBound, Sync!Owned
  <2> QED BY <2>2, <2>3
<1>5. SyncShape'
  BY <1>1, <1>3 DEF SyncSafetyInv, SyncShape
<1>6. SyncPastInv'
  BY <1>1, <1>4 DEF SyncSafetyInv, SyncPastInv, SyncBelonged
<1>7. SyncHeldInv'
  BY <1>1, <1>2, <1>4 DEF SyncSafetyInv, SyncHeldInv
<1> QED BY <1>5, <1>6, <1>7 DEF SyncSafetyInv

-----------------------------------------------------------------------------
LEMMA SyncSafetyStep ==
    ASSUME SyncSafetyInv, None \notin Hotels, "other" \notin Hotels, [Sync!Next]_(Sync!vars)
    PROVE  SyncSafetyInv'
<1>0. /\ map \in [Accounts -> Hotels \cup {None}]
      /\ tables \in [Sync!Tables -> [BoundChats -> Hotels \cup {None}]]
  BY DEF SyncSafetyInv, SyncShape
<1>1. ASSUME NEW a \in Accounts, NEW h \in Hotels \cup {None}, Sync!MapAccount(a, h) PROVE SyncSafetyInv'
  <2>1. [map EXCEPT ![a] = h] \in [Accounts -> Hotels \cup {None}]
    BY <1>0
  <2> QED BY <1>0, <1>1, <2>1, SyncChangeStep DEF Sync!MapAccount
<1>2. ASSUME NEW c \in BoundChats, NEW h \in Hotels, Sync!BindGroup(c, h) PROVE SyncSafetyInv'
  <2>1. [t \in Sync!Tables |-> [tables[t] EXCEPT ![c] = h]] \in [Sync!Tables -> [BoundChats -> Hotels \cup {None}]]
    BY <1>0
  <2> QED BY <1>0, <1>2, <2>1, SyncChangeStep DEF Sync!BindGroup
<1>3. ASSUME NEW c \in BoundChats, NEW h \in Hotels, Sync!BindDirect(c, h) PROVE SyncSafetyInv'
  <2>1. [tables EXCEPT !["chat_bindings"][c] = h] \in [Sync!Tables -> [BoundChats -> Hotels \cup {None}]]
    BY <1>0
  <2> QED BY <1>0, <1>3, <2>1, SyncChangeStep DEF Sync!BindDirect
<1>4. ASSUME NEW c \in BoundChats, Sync!Revoke(c) PROVE SyncSafetyInv'
  <2>1. [t \in Sync!Tables |-> [tables[t] EXCEPT ![c] = None]] \in [Sync!Tables -> [BoundChats -> Hotels \cup {None}]]
    BY <1>0
  <2> QED BY <1>0, <1>4, <2>1, SyncChangeStep DEF Sync!Revoke
<1>5. CASE UNCHANGED Sync!vars
  <2>1. \A t : SyncBound(t)' <=> SyncBound(t)
    BY <1>5 DEF Sync!vars, SyncBound, Sync!Owned
  <2>2. SyncShape' /\ SyncPastInv'
    BY <1>5 DEF Sync!vars, SyncSafetyInv, SyncShape, SyncPastInv, SyncBelonged, Sync!Rows
  <2>3. Sync!Rows(tables)' = Sync!Rows(tables)
    BY <1>5 DEF Sync!vars, Sync!Rows
  <2>4. SyncHeldInv'
    BY <1>5, <2>1, <2>3 DEF Sync!vars, SyncSafetyInv, SyncHeldInv
  <2> QED BY <2>2, <2>4 DEF SyncSafetyInv
<1> QED BY <1>1, <1>2, <1>3, <1>4, <1>5, SyncStartStep, SyncReadRowsStep, SyncLookStep, SyncCreateStep,
           SyncFailStep,
           SyncEndStep, SyncKillStep, SyncDetachStep DEF Sync!Next

LEMMA SyncInitSafety ==
    ASSUME None \notin Hotels, "other" \notin Hotels, Sync!Init PROVE SyncSafetyInv
<1>1. SyncShape
  BY DEF Sync!Init, SyncShape, Sync!Sync
<1>2. Sync!Rows(tables) = {}
  BY DEF Sync!Init, Sync!Rows
<1>3. \A t \in Sync!Triples : records[<<t[1], t[2]>>] = None /\ t[3] # None
  BY SyncTripleParts DEF Sync!Init
<1>4. SyncPastInv
  BY <1>2, <1>3 DEF Sync!Init, SyncPastInv
<1>5. SyncHeldInv
  BY DEF Sync!Init, SyncHeldInv
<1> QED BY <1>1, <1>4, <1>5 DEF SyncSafetyInv

(* A sync that ends has bound each account to each chat that was of its    *)
(* hotel all the while, and no conversation goes to an account of a hotel  *)
(* to which the account and the chat have not both belonged.               *)
THEOREM SyncRecordsFollow ==
    ASSUME None \notin Hotels, "other" \notin Hotels
    PROVE  Sync!Spec => []Sync!RecordsFollowBindings
<1>1. Sync!Init => SyncSafetyInv
  BY SyncInitSafety
<1>2. SyncSafetyInv /\ [Sync!Next]_(Sync!vars) => SyncSafetyInv'
  BY SyncSafetyStep
<1>3. SyncSafetyInv => Sync!RecordsFollowBindings
  BY DEF SyncSafetyInv, SyncPastInv, SyncHeldInv, SyncBound, SyncBelonged, Sync!RecordsFollowBindings
<1> QED BY <1>1, <1>2, <1>3, PTL DEF Sync!Spec

(* What the safety invariant leaves out of the types.                      *)
SyncRest ==
    /\ lost \subseteq Accounts \X BoundChats
    /\ past \subseteq (Accounts \cup BoundChats) \X (Hotels \cup {None})
    /\ edits \in 0..MaxEdits

LEMMA SyncRestStep ==
    ASSUME MaxEdits \in Nat, SyncSafetyInv, SyncRest, [Sync!Next]_(Sync!vars)
    PROVE  SyncRest'
<1>1. SyncShape
  BY DEF SyncSafetyInv
<1>2. ASSUME NEW m \in [Accounts -> Hotels \cup {None}], NEW ts, Sync!Change(m, ts) PROVE SyncRest'
  <2>1. {<<a, m[a]>> : a \in Accounts} \subseteq (Accounts \cup BoundChats) \X (Hotels \cup {None})
    OBVIOUS
  <2>2. Sync!Rows(ts) \subseteq (Accounts \cup BoundChats) \X (Hotels \cup {None})
    BY DEF Sync!Rows
  <2>3. past' \subseteq (Accounts \cup BoundChats) \X (Hotels \cup {None})
    BY <1>2, <2>1, <2>2 DEF Sync!Change, SyncRest
  <2>4. lost' = lost /\ edits' \in 0..MaxEdits
    BY <1>2 DEF Sync!Change, SyncRest
  <2> QED BY <2>3, <2>4 DEF SyncRest
<1>3. CASE Sync!Start \/ Sync!ReadRows \/ Sync!End \/ Sync!Kill \/ UNCHANGED Sync!vars
  <2>1. past' = past /\ edits' = edits /\ lost' \subseteq lost
    BY <1>3 DEF Sync!Start, Sync!ReadRows, Sync!End, Sync!Kill, Sync!vars, Sync!world
  <2> QED BY <2>1 DEF SyncRest
<1>4. ASSUME NEW t \in Sync!Triples, Sync!Look(t) \/ Sync!Create(t) \/ Sync!Fail(t) PROVE SyncRest'
  <2>1. past' = past /\ edits' = edits /\ lost' \subseteq lost \cup {<<t[1], t[2]>>}
    BY <1>4 DEF Sync!Look, Sync!Create, Sync!Fail, Sync!world
  <2> QED BY <2>1, SyncTripleParts DEF SyncRest
<1>5. ASSUME NEW a \in Accounts, NEW h \in Hotels \cup {None}, Sync!MapAccount(a, h) PROVE SyncRest'
  <2>1. [map EXCEPT ![a] = h] \in [Accounts -> Hotels \cup {None}]
    BY <1>1 DEF SyncShape
  <2> QED BY <1>2, <1>5, <2>1 DEF Sync!MapAccount
<1>6. map \in [Accounts -> Hotels \cup {None}]
  BY <1>1 DEF SyncShape
<1>7. ASSUME NEW c \in BoundChats, NEW h \in Hotels, Sync!BindGroup(c, h) \/ Sync!BindDirect(c, h)
      PROVE  SyncRest'
  BY <1>2, <1>6, <1>7 DEF Sync!BindGroup, Sync!BindDirect
<1>8. ASSUME NEW c \in BoundChats, Sync!Revoke(c) PROVE SyncRest'
  BY <1>2, <1>6, <1>8 DEF Sync!Revoke
<1>9. ASSUME NEW a \in Accounts, NEW c \in BoundChats, NEW to \in {None, "other"}, Sync!Detach(a, c, to)
      PROVE  SyncRest'
  BY <1>9 DEF Sync!Detach, SyncRest
<1> QED BY <1>3, <1>4, <1>5, <1>7, <1>8, <1>9 DEF Sync!Next

(* Records, rows and the state of the sync keep their types.               *)
THEOREM SyncTypeCorrect ==
    ASSUME None \notin Hotels, "other" \notin Hotels, MaxEdits \in Nat
    PROVE  Sync!Spec => []Sync!TypeOK
<1>1. Sync!Init => SyncSafetyInv /\ SyncRest
  <2>1. Sync!Init => SyncRest
    BY DEF Sync!Init, SyncRest
  <2> QED BY <2>1, SyncInitSafety
<1>2. SyncSafetyInv /\ SyncRest /\ [Sync!Next]_(Sync!vars) => (SyncSafetyInv /\ SyncRest)'
  BY SyncRestStep, SyncSafetyStep
<1>3. SyncSafetyInv /\ SyncRest => Sync!TypeOK
  BY DEF SyncSafetyInv, SyncShape, SyncRest, Sync!TypeOK
<1> QED BY <1>1, <1>2, <1>3, PTL DEF Sync!Spec

-----------------------------------------------------------------------------
(***************************************************************************)
(* The command menu, for any members and any number of menus, replies and  *)
(* lapses.                                                                 *)
(***************************************************************************)

(* The inductive invariant.                                                *)

MenuReplyShape == [pc: {"new", "update", "route", "done"}, menu: Nat, to: Menu!Closed \cup {"none"},
               ran: BOOLEAN, opened: Nat, after: SUBSET Menu!Replies]

(* The types, without the bounds.                                          *)
MenuShape ==
    /\ menus \in Seq(Menu!Menu)
    /\ replies \in [Menu!Replies -> MenuReplyShape]

(* The open menu of a member is the last one that member opened.           *)
MenuOpenIsLast ==
    \A i, j \in DOMAIN menus :
        menus[i].status = "active" /\ i < j => menus[j].owner # menus[i].owner

(* What a reply has read, and how far it has come.                         *)
MenuReplyOK(r) ==
    LET i == replies[r].menu IN
    /\ replies[r].pc = "new" => replies[r].to = "none" /\ ~ replies[r].ran
    /\ replies[r].pc = "update" => replies[r].to \in Menu!Closed /\ ~ replies[r].ran
    /\ replies[r].pc = "route" \/ replies[r].ran => replies[r].to = "executed"
    /\ replies[r].to # "none" =>
          /\ i \in DOMAIN menus /\ replies[r].opened <= Len(menus)
          /\ \A j \in (i+1)..replies[r].opened : menus[j].owner # menus[i].owner
          /\ \A s \in replies[r].after :
                replies[s].menu # i /\ replies[s].pc # "new"
          /\ replies[r].pc # "update" => menus[i].status \in Menu!Closed

MenuSafetyInv == MenuShape /\ MenuOpenIsLast /\ \A r \in Menu!Replies : MenuReplyOK(r)

-----------------------------------------------------------------------------
LEMMA MenuMenuTypes ==
    ASSUME MenuShape
    PROVE  /\ Len(menus) \in Nat /\ DOMAIN menus = 1..Len(menus)
           /\ \A i \in DOMAIN menus : menus[i] \in Menu!Menu
BY DEF MenuShape

LEMMA MenuOnlyOpen ==
    ASSUME MenuShape, MenuOpenIsLast, NEW p \in People, Menu!OpenOf(p) # {}
    PROVE  /\ Menu!Max(Menu!OpenOf(p)) \in DOMAIN menus
           /\ menus[Menu!Max(Menu!OpenOf(p))] = [owner |-> p, status |-> "active"]
<1>1. PICK i \in Menu!OpenOf(p) : TRUE
  OBVIOUS
<1>2. \A j \in Menu!OpenOf(p) : j = i
  <2> SUFFICES ASSUME NEW j \in Menu!OpenOf(p), j # i PROVE FALSE
    OBVIOUS
  <2>1. /\ i \in DOMAIN menus /\ menus[i].owner = p /\ menus[i].status = "active"
        /\ j \in DOMAIN menus /\ menus[j].owner = p /\ menus[j].status = "active"
    BY <1>1 DEF Menu!OpenOf
  <2>2. i < j \/ j < i
    BY <2>1, MenuMenuTypes
  <2> QED BY <2>1, <2>2 DEF MenuOpenIsLast
<1>3. i \in Nat
  BY <1>1, MenuMenuTypes DEF Menu!OpenOf
<1>4. i \in Menu!OpenOf(p) /\ \A y \in Menu!OpenOf(p) : i >= y
  BY <1>1, <1>2, <1>3
<1>5. Menu!Max(Menu!OpenOf(p)) \in Menu!OpenOf(p)
  BY <1>4 DEF Menu!Max
<1> QED BY <1>5 DEF Menu!OpenOf

(* The table of menus grows, a closed menu stays closed, and owners stay.  *)
MenuMenusGo ==
    /\ menus' \in Seq(Menu!Menu) /\ Len(menus) <= Len(menus')
    /\ \A i \in DOMAIN menus : /\ i \in DOMAIN menus' /\ menus'[i].owner = menus[i].owner
                               /\ menus[i].status \in Menu!Closed => menus'[i].status \in Menu!Closed

LEMMA MenuStartGoes ==
    ASSUME MenuShape, MenuOpenIsLast, NEW p \in People, Menu!Start(p)
    PROVE  MenuMenusGo /\ MenuOpenIsLast' /\ Len(menus') = Len(menus) + 1
<1> DEFINE c == Menu!CancelOpen(p)
           e == [owner |-> p, status |-> "active"]
<1>1. e \in Menu!Menu /\ e.owner = p
  BY DEF Menu!Menu
<1>2. /\ c \in Seq(Menu!Menu) /\ Len(c) = Len(menus) /\ DOMAIN c = DOMAIN menus
      /\ \A i \in DOMAIN menus :
            /\ c[i] \in Menu!Menu /\ c[i].owner = menus[i].owner
            /\ menus[i].status \in Menu!Closed => c[i].status \in Menu!Closed
            /\ c[i].status = "active" => menus[i].status = "active" /\ menus[i].owner # p
  <2>1. ASSUME NEW i \in DOMAIN menus
        PROVE  /\ c[i] \in Menu!Menu /\ c[i].owner = menus[i].owner
               /\ menus[i].status \in Menu!Closed => c[i].status \in Menu!Closed
               /\ c[i].status = "active" => menus[i].status = "active" /\ menus[i].owner # p
    <3>1. menus[i] \in Menu!Menu
      BY MenuMenuTypes
    <3>2. CASE menus[i] = e
      <4>1. c[i] = [menus[i] EXCEPT !.status = "cancelled"]
        BY <3>2 DEF Menu!CancelOpen
      <4> QED BY <3>1, <3>2, <4>1 DEF Menu!Menu, Menu!Closed
    <3>3. CASE menus[i] # e
      <4>1. c[i] = menus[i]
        BY <3>3 DEF Menu!CancelOpen
      <4>2. menus[i].status = "active" => menus[i].owner # p
        BY <3>1, <3>3 DEF Menu!Menu
      <4> QED BY <3>1, <4>1, <4>2
    <3> QED BY <3>2, <3>3
  <2>2. DOMAIN c = 1..Len(menus)
    BY MenuMenuTypes DEF Menu!CancelOpen
  <2> HIDE DEF c
  <2>3. c \in [1..Len(menus) -> Menu!Menu]
    <3>1. c = [i \in DOMAIN menus |-> c[i]]
      BY DEF c, Menu!CancelOpen
    <3> QED BY <2>1, <2>2, <3>1, MenuMenuTypes
  <2>4. c \in Seq(Menu!Menu) /\ Len(c) = Len(menus)
    BY <2>3, MenuMenuTypes
  <2> QED BY <2>1, <2>2, <2>4, MenuMenuTypes
<1>3. menus' = Append(c, e)
  BY DEF Menu!Start
<1> HIDE DEF c, e
<1>4. /\ menus' \in Seq(Menu!Menu) /\ Len(menus') = Len(menus) + 1 /\ Len(menus) \in Nat
      /\ DOMAIN menus' = 1..(Len(menus) + 1) /\ DOMAIN menus = 1..Len(menus)
      /\ \A i \in DOMAIN menus : menus'[i] = c[i]
      /\ menus'[Len(menus) + 1] = e
  BY <1>1, <1>2, <1>3, MenuMenuTypes
<1>5. MenuMenusGo
  BY <1>2, <1>4 DEF MenuMenusGo
<1>6. MenuOpenIsLast'
  <2> SUFFICES ASSUME NEW i \in DOMAIN menus', NEW j \in DOMAIN menus',
                      menus'[i].status = "active", i < j
               PROVE  menus'[j].owner # menus'[i].owner
    BY DEF MenuOpenIsLast
  <2>1. i \in DOMAIN menus /\ menus[i].status = "active" /\ menus'[i].owner = menus[i].owner
        /\ menus[i].owner # p
    BY <1>2, <1>4
  <2>2. CASE j \in DOMAIN menus
    BY <1>2, <1>4, <2>1, <2>2 DEF MenuOpenIsLast
  <2>3. CASE j \notin DOMAIN menus
    BY <1>1, <1>4, <2>1, <2>3
  <2> QED BY <2>2, <2>3
<1> QED BY <1>4, <1>5, <1>6

LEMMA MenuUpdateGoes ==
    ASSUME MenuShape, MenuOpenIsLast, NEW r \in Menu!Replies, MenuReplyOK(r), Menu!UpdateMenu(r)
    PROVE  /\ MenuMenusGo /\ MenuOpenIsLast' /\ menus'[replies[r].menu].status \in Menu!Closed
           /\ Len(menus') = Len(menus)
<1> DEFINE i == replies[r].menu
           e == [menus[i] EXCEPT !.status = replies[r].to]
<1>1. replies[r].to \in Menu!Closed /\ i \in DOMAIN menus
  BY DEF Menu!UpdateMenu, MenuReplyOK, Menu!Closed
<1>2. e \in Menu!Menu /\ e.owner = menus[i].owner /\ e.status = replies[r].to
  BY <1>1, MenuMenuTypes DEF Menu!Menu
<1>3. menus' = [menus EXCEPT ![i] = e]
  BY DEF Menu!UpdateMenu
<1> HIDE DEF e, i
<1>4. /\ menus' \in Seq(Menu!Menu) /\ Len(menus') = Len(menus) /\ DOMAIN menus' = DOMAIN menus
      /\ menus'[i] = e /\ \A j \in DOMAIN menus \ {i} : menus'[j] = menus[j]
      /\ Len(menus) \in Nat
  BY <1>1, <1>2, <1>3, MenuMenuTypes DEF MenuShape
<1>5. MenuMenusGo
  BY <1>1, <1>2, <1>4 DEF MenuMenusGo
<1>6. MenuOpenIsLast'
  <2>1. \A j \in DOMAIN menus : /\ menus'[j].owner = menus[j].owner
                                /\ menus'[j].status = "active" => menus[j].status = "active"
    BY <1>1, <1>2, <1>4 DEF Menu!Closed
  <2> QED BY <1>4, <2>1 DEF MenuOpenIsLast
<1> QED BY <1>1, <1>2, <1>4, <1>5, <1>6 DEF i

-----------------------------------------------------------------------------
(* The replies.                                                            *)

(* A message that was taken up stays so and keeps the menu it read.        *)
MenuRepliesGo ==
    /\ replies' \in [Menu!Replies -> MenuReplyShape]
    /\ \A s \in Menu!Replies : replies[s].pc # "new" =>
          replies'[s].pc # "new" /\ replies'[s].menu = replies[s].menu

LEMMA MenuReplyTypes ==
    ASSUME MenuShape, NEW r \in Menu!Replies PROVE replies[r] \in MenuReplyShape
BY DEF MenuShape

LEMMA MenuSet ==
    ASSUME MenuShape, NEW r \in Menu!Replies, NEW q \in MenuReplyShape,
           replies' = [replies EXCEPT ![r] = q],
           replies[r].pc # "new" => q.pc # "new" /\ q.menu = replies[r].menu
    PROVE  MenuRepliesGo /\ replies'[r] = q /\ \A s \in Menu!Replies \ {r} : replies'[s] = replies[s]
BY DEF MenuShape, MenuRepliesGo

(* What a reply that does nothing has read stays true.                     *)
LEMMA MenuStaysOK ==
    ASSUME MenuShape, NEW r \in Menu!Replies, MenuReplyOK(r), MenuMenusGo, MenuRepliesGo,
           replies'[r] = replies[r]
    PROVE  MenuReplyOK(r)'
<1>0. replies[r] \in MenuReplyShape /\ Len(menus) \in Nat /\ Len(menus') \in Nat
  BY MenuReplyTypes, MenuMenuTypes DEF MenuMenusGo
<1>1. CASE replies[r].to = "none"
  BY <1>1 DEF MenuReplyOK
<1>2. CASE replies[r].to # "none"
  <2> DEFINE i == replies[r].menu
             n == replies[r].opened
  <2>1. /\ i \in DOMAIN menus /\ i \in Nat /\ n \in Nat /\ n <= Len(menus)
        /\ \A j \in (i+1)..n : menus[j].owner # menus[i].owner
        /\ \A s \in replies[r].after : s \in Menu!Replies /\ replies[s].menu # i /\ replies[s].pc # "new"
        /\ replies[r].pc # "update" => menus[i].status \in Menu!Closed
    BY <1>0, <1>2 DEF MenuReplyOK, MenuReplyShape
  <2> HIDE DEF i, n
  <2>2. i \in DOMAIN menus' /\ n <= Len(menus') /\ menus'[i].owner = menus[i].owner
        /\ (replies[r].pc # "update" => menus'[i].status \in Menu!Closed)
    BY <1>0, <2>1 DEF MenuMenusGo
  <2>3. \A j \in (i+1)..n : menus'[j].owner # menus'[i].owner
    <3> SUFFICES ASSUME NEW j \in (i+1)..n PROVE menus'[j].owner # menus'[i].owner
      OBVIOUS
    <3>1. j \in DOMAIN menus
      BY <1>0, <2>1, MenuMenuTypes
    <3> QED BY <2>1, <2>2, <3>1 DEF MenuMenusGo
  <2>4. \A s \in replies[r].after : replies'[s].menu # i /\ replies'[s].pc # "new"
    BY <2>1 DEF MenuRepliesGo
  <2> QED BY <2>2, <2>3, <2>4 DEF MenuReplyOK, i, n
<1> QED BY <1>1, <1>2

LEMMA MenuSameMenus == MenuShape /\ UNCHANGED menus => MenuMenusGo
BY MenuMenuTypes DEF MenuMenusGo, MenuShape

LEMMA MenuNewShape == Menu!NewReply \in MenuReplyShape /\ Menu!NewReply.ran = FALSE
BY DEF Menu!NewReply, MenuReplyShape

LEMMA MenuReadIs ==
    ASSUME MenuShape, NEW r \in Menu!Replies, NEW i \in Nat, NEW to \in Menu!Closed \cup {"none"},
           Menu!Served(r, i, to)
    PROVE  \E q \in MenuReplyShape :
              /\ replies' = [replies EXCEPT ![r] = q]
              /\ q.pc = (IF to = "none" THEN "done" ELSE "update") /\ q.menu = i /\ q.to = to
              /\ ~ q.ran /\ q.opened = Len(menus) /\ q.after = Menu!Updated
<1>1. PICK step \in {"done", "update"} : step = IF to = "none" THEN "done" ELSE "update"
  OBVIOUS
<1>2. PICK n \in Nat : n = Len(menus)
  BY MenuMenuTypes
<1>3. PICK u \in SUBSET Menu!Replies : u = Menu!Updated
  BY DEF Menu!Updated
<1> DEFINE q == [Menu!NewReply EXCEPT !.pc = step, !.menu = i, !.to = to, !.opened = n, !.after = u]
<1>4. /\ q \in MenuReplyShape /\ q.pc = step /\ q.menu = i /\ q.to = to
      /\ ~ q.ran /\ q.opened = n /\ q.after = u
  BY MenuNewShape DEF MenuReplyShape
<1>5. replies' = [replies EXCEPT ![r] = q]
  BY <1>1, <1>2, <1>3 DEF Menu!Served
<1> HIDE DEF q
<1> QED BY <1>1, <1>2, <1>3, <1>4, <1>5

(* A message reads a menu, and no message that had closed it by then.      *)
LEMMA MenuServedOK ==
    ASSUME MenuSafetyInv, NEW r \in Menu!Replies, Menu!Turn(r), NEW i, NEW to \in Menu!Closed \cup {"none"},
           Menu!Served(r, i, to), UNCHANGED menus, i \in Nat,
           to # "none" => /\ i \in DOMAIN menus /\ menus[i].status = "active"
    PROVE  MenuRepliesGo /\ MenuReplyOK(r)' /\ \A s \in Menu!Replies \ {r} : replies'[s] = replies[s]
<1>0. MenuShape /\ MenuOpenIsLast /\ \A s \in Menu!Replies : MenuReplyOK(s)
  BY DEF MenuSafetyInv
<1>1. replies[r].pc = "new" /\ Len(menus) \in Nat
  BY <1>0, MenuMenuTypes DEF Menu!Turn
<1>2. PICK q \in MenuReplyShape :
         /\ replies' = [replies EXCEPT ![r] = q]
         /\ q.pc = (IF to = "none" THEN "done" ELSE "update") /\ q.menu = i /\ q.to = to
         /\ ~ q.ran /\ q.opened = Len(menus) /\ q.after = Menu!Updated
  BY <1>0, MenuReadIs
<1>6. MenuRepliesGo /\ replies'[r] = q /\ \A s \in Menu!Replies \ {r} : replies'[s] = replies[s]
  BY <1>0, <1>1, <1>2, MenuSet
<1>7. CASE to = "none"
  BY <1>2, <1>6, <1>7 DEF MenuReplyOK
<1>8. CASE to # "none"
  <2>1. i \in DOMAIN menus /\ menus[i].status = "active" /\ menus[i].status \notin Menu!Closed
    BY <1>8 DEF Menu!Closed
  <2>2. \A j \in (i+1)..Len(menus) : menus[j].owner # menus[i].owner
    <3> SUFFICES ASSUME NEW j \in (i+1)..Len(menus) PROVE menus[j].owner # menus[i].owner
      OBVIOUS
    <3>1. j \in DOMAIN menus /\ i < j
      BY <1>0, <2>1, MenuMenuTypes
    <3> QED BY <1>0, <2>1, <3>1 DEF MenuOpenIsLast
  <2>3. ASSUME NEW s \in Menu!Updated PROVE replies'[s].menu # i /\ replies'[s].pc # "new"
    <3>1. s \in Menu!Replies /\ MenuReplyOK(s) /\ replies[s].to # "none" /\ replies[s].pc # "update"
      BY <1>0 DEF Menu!Updated
    <3>2. replies[s].pc # "new" /\ menus[replies[s].menu].status \in Menu!Closed
      BY <3>1 DEF MenuReplyOK
    <3>3. replies[s].menu # i /\ s # r
      BY <1>1, <2>1, <3>2
    <3> QED BY <1>6, <3>1, <3>2, <3>3
  <2>4. q.pc = "update" /\ q.menu = i /\ q.to = to /\ ~ q.ran /\ q.opened = Len(menus)
        /\ q.after = Menu!Updated
    BY <1>2, <1>8
  <2> QED BY <1>1, <1>6, <1>8, <2>1, <2>2, <2>3, <2>4 DEF MenuReplyOK
<1> QED BY <1>6, <1>7, <1>8

-----------------------------------------------------------------------------
(* The invariant.                                                          *)

LEMMA MenuKept ==
    ASSUME MenuSafetyInv, MenuMenusGo, MenuRepliesGo, MenuOpenIsLast',
           \A s \in Menu!Replies : replies'[s] = replies[s] \/ MenuReplyOK(s)'
    PROVE  MenuSafetyInv'
<1>1. \A s \in Menu!Replies : MenuReplyOK(s)'
  BY MenuStaysOK DEF MenuSafetyInv
<1> QED BY <1>1 DEF MenuSafetyInv, MenuShape, MenuMenusGo, MenuRepliesGo

LEMMA MenuSameReplies == MenuShape /\ UNCHANGED replies => MenuRepliesGo
BY DEF MenuRepliesGo, MenuShape

LEMMA MenuServeStep ==
    ASSUME MenuSafetyInv, NEW r \in Menu!Replies, NEW p \in People,
           Menu!Answer(r, p) \/ Menu!Cancel(r, p) \/ Menu!Refuse(r, p)
    PROVE  MenuSafetyInv'
<1>0. MenuShape /\ MenuOpenIsLast
  BY DEF MenuSafetyInv
<1>1. Menu!Turn(r) /\ UNCHANGED menus
  BY DEF Menu!Answer, Menu!Cancel, Menu!Refuse
<1>2. PICK i \in Nat, to \in Menu!Closed \cup {"none"} :
         /\ Menu!Served(r, i, to)
         /\ to # "none" => i \in DOMAIN menus /\ menus[i].status = "active"
  <2>1. CASE Menu!OpenOf(p) # {}
    <3>1. Menu!Max(Menu!OpenOf(p)) \in DOMAIN menus /\ menus[Menu!Max(Menu!OpenOf(p))].status = "active"
      <4>1. /\ Menu!Max(Menu!OpenOf(p)) \in DOMAIN menus
            /\ menus[Menu!Max(Menu!OpenOf(p))] = [owner |-> p, status |-> "active"]
        BY <1>0, <2>1, MenuOnlyOpen
      <4> QED BY <4>1
    <3>2. Menu!Max(Menu!OpenOf(p)) \in Nat
      BY <1>0, <3>1, MenuMenuTypes
    <3>3. \E to \in Menu!Closed \cup {"none"} : Menu!Served(r, Menu!Max(Menu!OpenOf(p)), to)
      BY <2>1 DEF Menu!Answer, Menu!Cancel, Menu!Refuse, Menu!Closed
    <3> QED BY <3>1, <3>2, <3>3
  <2>2. CASE Menu!OpenOf(p) = {}
    <3>1. Menu!Served(r, 0, "none")
      BY <2>2 DEF Menu!Answer, Menu!Cancel, Menu!Refuse
    <3> QED BY <3>1
  <2> QED BY <2>1, <2>2
<1>3. MenuRepliesGo /\ MenuReplyOK(r)' /\ \A s \in Menu!Replies \ {r} : replies'[s] = replies[s]
  BY <1>1, <1>2, MenuServedOK
<1>4. MenuMenusGo /\ MenuOpenIsLast'
  BY <1>0, <1>1, MenuSameMenus DEF MenuOpenIsLast
<1> QED BY <1>3, <1>4, MenuKept

(* A step of a message that was taken up: it may drop what it would do.    *)
LEMMA MenuGoesOnOK ==
    ASSUME MenuSafetyInv, NEW r \in Menu!Replies, NEW q \in MenuReplyShape,
           replies' = [replies EXCEPT ![r] = q],
           MenuMenusGo, MenuOpenIsLast',
           replies[r].pc # "new", q.pc \in {"route", "done"}, q.menu = replies[r].menu,
           q.opened = replies[r].opened, q.after = replies[r].after,
           q.to = replies[r].to \/ (q.to = "none" /\ ~ q.ran),
           q.pc = "route" \/ q.ran => q.to = "executed",
           q.to # "none" => menus'[q.menu].status \in Menu!Closed
    PROVE  MenuSafetyInv'
<1>0. MenuShape /\ MenuReplyOK(r) /\ replies[r] \in MenuReplyShape
  BY MenuReplyTypes DEF MenuSafetyInv
<1>1. MenuRepliesGo /\ replies'[r] = q /\ \A s \in Menu!Replies \ {r} : replies'[s] = replies[s]
  BY <1>0, MenuSet
<1>2. MenuReplyOK(r)'
  <2>1. CASE q.to = "none"
    BY <1>1, <2>1 DEF MenuReplyOK
  <2>2. CASE q.to # "none"
    <3> DEFINE i == replies[r].menu
               n == replies[r].opened
    <3>1. /\ i \in DOMAIN menus /\ i \in Nat /\ n \in Nat /\ n <= Len(menus)
          /\ \A j \in (i+1)..n : menus[j].owner # menus[i].owner
          /\ \A s \in q.after : s \in Menu!Replies /\ replies[s].menu # i /\ replies[s].pc # "new"
          /\ Len(menus) \in Nat /\ Len(menus') \in Nat
      BY <1>0, <2>2, MenuMenuTypes DEF MenuReplyOK, MenuReplyShape, MenuMenusGo
    <3>2. q.menu = i /\ q.opened = n
      OBVIOUS
    <3> HIDE DEF i, n
    <3>3. i \in DOMAIN menus' /\ n <= Len(menus') /\ menus'[i].owner = menus[i].owner
      BY <3>1 DEF MenuMenusGo
    <3>4. ASSUME NEW j \in (i+1)..n PROVE menus'[j].owner # menus'[i].owner
      <4>1. j \in DOMAIN menus
        BY <1>0, <3>1, MenuMenuTypes
      <4> QED BY <3>1, <3>3, <4>1 DEF MenuMenusGo
    <3>5. \A s \in q.after : replies'[s].menu # i /\ replies'[s].pc # "new"
      BY <1>1, <3>1 DEF MenuRepliesGo
    <3> QED BY <1>1, <2>2, <3>2, <3>3, <3>4, <3>5 DEF MenuReplyOK
  <2> QED BY <2>1, <2>2
<1> QED BY <1>1, <1>2, MenuKept

LEMMA MenuUpdateStep ==
    ASSUME MenuSafetyInv, NEW r \in Menu!Replies, Menu!UpdateMenu(r) PROVE MenuSafetyInv'
<1> DEFINE q == [replies[r] EXCEPT !.pc = IF replies[r].to = "executed" THEN "route" ELSE "done"]
<1>0. MenuShape /\ MenuOpenIsLast /\ MenuReplyOK(r) /\ replies[r] \in MenuReplyShape
  BY MenuReplyTypes DEF MenuSafetyInv
<1>1. replies[r].pc = "update" /\ ~ replies[r].ran
  BY <1>0 DEF Menu!UpdateMenu, MenuReplyOK
<1>2. /\ q \in MenuReplyShape /\ q.menu = replies[r].menu /\ q.opened = replies[r].opened
      /\ q.after = replies[r].after /\ q.to = replies[r].to /\ q.ran = replies[r].ran
      /\ q.pc = IF replies[r].to = "executed" THEN "route" ELSE "done"
  BY <1>0 DEF MenuReplyShape
<1>3. replies' = [replies EXCEPT ![r] = q]
  BY DEF Menu!UpdateMenu
<1>4. MenuMenusGo /\ MenuOpenIsLast' /\ menus'[replies[r].menu].status \in Menu!Closed
  BY <1>0, MenuUpdateGoes
<1> HIDE DEF q
<1> QED BY <1>1, <1>2, <1>3, <1>4, MenuGoesOnOK

LEMMA MenuRouteStep ==
    ASSUME MenuSafetyInv, NEW r \in Menu!Replies, Menu!RouteSelected(r) PROVE MenuSafetyInv'
<1> DEFINE q == [replies[r] EXCEPT !.pc = "done", !.ran = TRUE]
<1>0. MenuShape /\ MenuOpenIsLast /\ MenuReplyOK(r) /\ replies[r] \in MenuReplyShape /\ UNCHANGED menus
  BY MenuReplyTypes DEF MenuSafetyInv, Menu!RouteSelected
<1>1. replies[r].pc = "route" /\ replies[r].to = "executed"
      /\ menus'[replies[r].menu].status \in Menu!Closed
  BY <1>0 DEF Menu!RouteSelected, MenuReplyOK
<1>2. /\ q \in MenuReplyShape /\ q.menu = replies[r].menu /\ q.opened = replies[r].opened
      /\ q.after = replies[r].after /\ q.to = replies[r].to /\ q.pc = "done"
  BY <1>0 DEF MenuReplyShape
<1>3. replies' = [replies EXCEPT ![r] = q]
  BY DEF Menu!RouteSelected, MenuShape
<1>4. MenuMenusGo /\ MenuOpenIsLast'
  BY <1>0, MenuSameMenus DEF MenuOpenIsLast
<1> HIDE DEF q
<1> QED BY <1>1, <1>2, <1>3, <1>4, MenuGoesOnOK

LEMMA MenuDieStep ==
    ASSUME MenuSafetyInv, NEW r \in Menu!Replies, Menu!Die(r) PROVE MenuSafetyInv'
<1> DEFINE q == [replies[r] EXCEPT !.pc = "done",
                                   !.to = IF replies[r].pc = "update" THEN "none" ELSE replies[r].to]
<1>0. MenuShape /\ MenuOpenIsLast /\ MenuReplyOK(r) /\ replies[r] \in MenuReplyShape /\ UNCHANGED menus
  BY MenuReplyTypes DEF MenuSafetyInv, Menu!Die
<1>1. /\ replies[r].pc \in {"update", "route"}
      /\ replies[r].pc = "update" => ~ replies[r].ran
      /\ replies[r].pc = "route" => /\ replies[r].to = "executed"
                                    /\ menus'[replies[r].menu].status \in Menu!Closed
  BY <1>0 DEF Menu!Die, MenuReplyOK
<1>2. /\ q \in MenuReplyShape /\ q.menu = replies[r].menu /\ q.opened = replies[r].opened
      /\ q.after = replies[r].after /\ q.pc = "done" /\ q.ran = replies[r].ran
      /\ q.to = IF replies[r].pc = "update" THEN "none" ELSE replies[r].to
  BY <1>0 DEF MenuReplyShape
<1>3. replies' = [replies EXCEPT ![r] = q]
  BY DEF Menu!Die, MenuShape
<1>4. MenuMenusGo /\ MenuOpenIsLast'
  BY <1>0, MenuSameMenus DEF MenuOpenIsLast
<1> HIDE DEF q
<1> QED BY <1>1, <1>2, <1>3, <1>4, MenuGoesOnOK

LEMMA MenuSafetyStep == MenuSafetyInv /\ [Menu!Next]_(Menu!vars) => MenuSafetyInv'
<1> SUFFICES ASSUME MenuSafetyInv, [Menu!Next]_(Menu!vars) PROVE MenuSafetyInv'
  OBVIOUS
<1>0. MenuShape /\ MenuOpenIsLast
  BY DEF MenuSafetyInv
<1>1. ASSUME NEW p \in People, Menu!Start(p) PROVE MenuSafetyInv'
  <2>1. MenuMenusGo /\ MenuOpenIsLast' /\ UNCHANGED replies
    BY <1>0, <1>1, MenuStartGoes DEF Menu!Start
  <2> QED BY <1>0, <2>1, MenuSameReplies, MenuKept
<1>2. CASE UNCHANGED <<menus, replies>>
  BY <1>0, <1>2, MenuSameMenus, MenuSameReplies, MenuKept DEF MenuOpenIsLast
<1>3. Menu!Lapse \/ Menu!Upgrade \/ UNCHANGED Menu!vars => UNCHANGED <<menus, replies>>
  BY DEF Menu!Lapse, Menu!Upgrade, Menu!vars
<1> QED BY <1>1, <1>2, <1>3, MenuServeStep, MenuUpdateStep, MenuRouteStep, MenuDieStep DEF Menu!Next

LEMMA MenuInitSafety == Menu!Init => MenuSafetyInv
<1> SUFFICES ASSUME Menu!Init PROVE MenuSafetyInv
  OBVIOUS
<1>1. Menu!NewReply \in MenuReplyShape /\ Menu!NewReply.pc = "new" /\ Menu!NewReply.to = "none"
      /\ Menu!NewReply.ran = FALSE
  BY DEF Menu!NewReply, MenuReplyShape
<1>2. menus = <<>> /\ \A r \in Menu!Replies : replies[r] = Menu!NewReply
  BY DEF Menu!Init
<1>3. MenuShape
  BY <1>1, <1>2 DEF MenuShape, Menu!Init
<1>4. \A r \in Menu!Replies : MenuReplyOK(r)
  BY <1>1, <1>2 DEF MenuReplyOK
<1> QED BY <1>2, <1>3, <1>4 DEF MenuSafetyInv, MenuOpenIsLast

(* A command runs from the last menu its member had opened, once among the *)
(* messages that read the menu after another had updated it, however the   *)
(* replies overlap and wherever their processes die.                       *)
THEOREM MenuRunOnce == Menu!Spec => []Menu!MenusRunOnce
<1>2. MenuSafetyInv => Menu!MenusRunOnce
  <2> SUFFICES ASSUME MenuSafetyInv, NEW r \in Menu!Replies, replies[r].ran
               PROVE  /\ menus[replies[r].menu].status \in Menu!Closed
                      /\ \A j \in (replies[r].menu+1)..replies[r].opened :
                            menus[j].owner # menus[replies[r].menu].owner
                      /\ \A s \in replies[r].after : replies[s].menu # replies[r].menu
    BY DEF Menu!MenusRunOnce
  <2>1. MenuReplyOK(r) /\ replies[r].to = "executed"
    BY DEF MenuSafetyInv, MenuReplyOK
  <2>2. replies[r].pc # "update"
    BY <2>1 DEF MenuReplyOK
  <2> QED BY <2>1, <2>2 DEF MenuReplyOK
<1> QED BY MenuInitSafety, <1>2, MenuSafetyStep, PTL DEF Menu!Spec
-----------------------------------------------------------------------------
(* The bounds that the types state.                                        *)

MenuReplyBound(r) == replies[r].menu \in 0..MaxMenus /\ replies[r].opened \in 0..MaxMenus

MenuBoundInv ==
    /\ Len(menus) <= MaxMenus /\ lapsed \in 0..Len(menus) /\ old \in 0..Len(menus)
    /\ \A r \in Menu!Replies : MenuReplyBound(r)

LEMMA MenuReplyBounds ==
    ASSUME MenuSafetyInv, MenuBoundInv, NEW r \in Menu!Replies, NEW q \in MenuReplyShape,
           replies' = [replies EXCEPT ![r] = q], q.menu \in 0..MaxMenus, q.opened \in 0..MaxMenus
    PROVE  \A s \in Menu!Replies : MenuReplyBound(s)'
BY DEF MenuSafetyInv, MenuShape, MenuBoundInv, MenuReplyBound

LEMMA MenuSameBounds ==
    ASSUME MenuSafetyInv, MenuBoundInv, NEW r \in Menu!Replies,
           Menu!UpdateMenu(r) \/ Menu!RouteSelected(r) \/ Menu!Die(r)
    PROVE  \A s \in Menu!Replies : MenuReplyBound(s)'
<1>1. replies \in [Menu!Replies -> MenuReplyShape]
  BY DEF MenuSafetyInv, MenuShape
<1>2. \A s \in Menu!Replies : replies'[s].menu = replies[s].menu /\ replies'[s].opened = replies[s].opened
  <2> SUFFICES ASSUME NEW s \in Menu!Replies
               PROVE  replies'[s].menu = replies[s].menu /\ replies'[s].opened = replies[s].opened
    OBVIOUS
  <2>1. replies[s] \in MenuReplyShape
    BY <1>1
  <2> QED BY <1>1, <2>1 DEF Menu!UpdateMenu, Menu!RouteSelected, Menu!Die, MenuReplyShape
<1> QED BY <1>2 DEF MenuBoundInv, MenuReplyBound

LEMMA MenuServeBounds ==
    ASSUME MaxMenus \in Nat, MenuSafetyInv, MenuBoundInv, NEW r \in Menu!Replies, NEW p \in People,
           Menu!Answer(r, p) \/ Menu!Cancel(r, p) \/ Menu!Refuse(r, p)
    PROVE  \A s \in Menu!Replies : MenuReplyBound(s)'
<1>0. MenuShape /\ MenuOpenIsLast /\ Len(menus) \in 0..MaxMenus
  BY MenuMenuTypes DEF MenuSafetyInv, MenuBoundInv
<1>1. PICK i \in 0..MaxMenus, to \in Menu!Closed \cup {"none"} : Menu!Served(r, i, to)
  <2>1. CASE Menu!OpenOf(p) # {}
    <3>1. Menu!Max(Menu!OpenOf(p)) \in 0..MaxMenus
      <4>1. Menu!Max(Menu!OpenOf(p)) \in DOMAIN menus
        BY <1>0, <2>1, MenuOnlyOpen
      <4> QED BY <1>0, <4>1, MenuMenuTypes
    <3>2. \E to \in Menu!Closed \cup {"none"} : Menu!Served(r, Menu!Max(Menu!OpenOf(p)), to)
      BY <2>1 DEF Menu!Answer, Menu!Cancel, Menu!Refuse, Menu!Closed
    <3> QED BY <3>1, <3>2
  <2>2. CASE Menu!OpenOf(p) = {}
    <3>1. Menu!Served(r, 0, "none")
      BY <2>2 DEF Menu!Answer, Menu!Cancel, Menu!Refuse
    <3> QED BY <3>1
  <2> QED BY <2>1, <2>2
<1>2. PICK q \in MenuReplyShape :
         replies' = [replies EXCEPT ![r] = q] /\ q.menu = i /\ q.opened = Len(menus)
  BY <1>0, <1>1, MenuReadIs
<1> QED BY <1>0, <1>2, MenuReplyBounds

LEMMA MenuBoundStep ==
    MaxMenus \in Nat /\ MenuSafetyInv /\ MenuBoundInv /\ [Menu!Next]_(Menu!vars) => MenuBoundInv'
<1> SUFFICES ASSUME MaxMenus \in Nat, MenuSafetyInv, MenuBoundInv, [Menu!Next]_(Menu!vars)
             PROVE  MenuBoundInv'
  OBVIOUS
<1>0. /\ MenuShape /\ MenuOpenIsLast /\ Len(menus) \in Nat /\ Len(menus) <= MaxMenus
      /\ lapsed \in 0..Len(menus) /\ old \in 0..Len(menus)
  BY MenuMenuTypes DEF MenuSafetyInv, MenuBoundInv
<1>1. ASSUME NEW p \in People, Menu!Start(p) PROVE MenuBoundInv'
  <2>1. Len(menus') = Len(menus) + 1 /\ Len(menus) < MaxMenus /\ UNCHANGED <<lapsed, old, replies>>
    BY <1>0, <1>1, MenuStartGoes DEF Menu!Start
  <2> QED BY <1>0, <2>1 DEF MenuBoundInv, MenuReplyBound
<1>2. ASSUME NEW r \in Menu!Replies, NEW p \in People,
             Menu!Answer(r, p) \/ Menu!Cancel(r, p) \/ Menu!Refuse(r, p)
      PROVE  MenuBoundInv'
  <2>1. UNCHANGED <<menus, lapsed, old>>
    BY <1>2 DEF Menu!Answer, Menu!Cancel, Menu!Refuse
  <2> QED BY <1>0, <1>2, <2>1, MenuServeBounds DEF MenuBoundInv
<1>3. ASSUME NEW r \in Menu!Replies, Menu!UpdateMenu(r) \/ Menu!RouteSelected(r) \/ Menu!Die(r)
      PROVE  MenuBoundInv'
  <2>1. MenuReplyOK(r)
    BY DEF MenuSafetyInv
  <2>2. Len(menus') = Len(menus) /\ UNCHANGED <<lapsed, old>>
    BY <1>0, <1>3, <2>1, MenuUpdateGoes DEF Menu!UpdateMenu, Menu!RouteSelected, Menu!Die
  <2> QED BY <1>0, <1>3, <2>2, MenuSameBounds DEF MenuBoundInv
<1>4. CASE Menu!Lapse \/ Menu!Upgrade \/ UNCHANGED Menu!vars
  BY <1>0, <1>4 DEF Menu!Lapse, Menu!Upgrade, Menu!vars, MenuBoundInv, MenuReplyBound
<1> QED BY <1>1, <1>2, <1>3, <1>4 DEF Menu!Next

LEMMA MenuInitBounds == MaxMenus \in Nat /\ Menu!Init => MenuBoundInv
<1> SUFFICES ASSUME MaxMenus \in Nat, Menu!Init PROVE MenuBoundInv
  OBVIOUS
<1>1. \A r \in Menu!Replies : replies[r].menu = 0 /\ replies[r].opened = 0
  BY DEF Menu!Init, Menu!NewReply
<1>2. Len(menus) = 0 /\ lapsed = 0 /\ old = 0
  BY DEF Menu!Init
<1> QED BY <1>1, <1>2 DEF MenuBoundInv, MenuReplyBound

(* A reply refers to a menu that was opened, and what has lapsed or has an *)
(* older contract is among the menus.                                      *)
THEOREM MenuTypeCorrect == ASSUME MaxMenus \in Nat PROVE Menu!Spec => []Menu!TypeOK
<1>1. MenuSafetyInv /\ MenuBoundInv => Menu!TypeOK
  <2> SUFFICES ASSUME MenuSafetyInv, MenuBoundInv PROVE Menu!TypeOK
    OBVIOUS
  <2>1. MenuShape /\ Len(menus) \in 0..MaxMenus
    BY MenuMenuTypes DEF MenuSafetyInv, MenuBoundInv
  <2>2. \A r \in Menu!Replies : replies[r] \in Menu!Reply
    BY <2>1, MenuReplyTypes DEF MenuBoundInv, MenuReplyBound, MenuReplyShape, Menu!Reply
  <2>3. replies \in [Menu!Replies -> Menu!Reply]
    BY <2>1, <2>2 DEF MenuShape
  <2> QED BY <2>1, <2>3 DEF Menu!TypeOK, MenuShape, MenuBoundInv
<1> QED BY <1>1, MenuInitSafety, MenuSafetyStep, MenuInitBounds, MenuBoundStep, PTL DEF Menu!Spec

-----------------------------------------------------------------------------
(***************************************************************************)
(* The calendar, for any dates, tags, holiday providers and processes.     *)
(***************************************************************************)

(* Types.                                                                  *)

LEMMA CalNothingType ==
    Cal!Nothing \in [Dates -> Cal!AtMostOne(Tags)] /\ Cal!Nothing \in [Dates -> Cal!AtMostOne(Providers)]
BY DEF Cal!Nothing, Cal!AtMostOne

LEMMA CalIdleType == Cal!Idle \in Cal!Process
BY CalNothingType DEF Cal!Idle, Cal!Process, Cal!AtMostOne

LEMMA CalRebuildType ==
    ASSUME NEW goal \in {"none", "write", "fetch", "overlay"}, NEW ds \in SUBSET Dates,
           NEW new \in Cal!AtMostOne(Tags), NEW from \in Cal!AtMostOne(Providers)
    PROVE  Cal!Rebuild(goal, ds, new, from) \in Cal!Process
BY CalNothingType DEF Cal!Rebuild, Cal!Process

LEMMA CalSetType ==
    ASSUME Cal!TypeOK, NEW w \in Workers, NEW p \in Cal!Process, Cal!Set(w, p)
    PROVE  wk' \in [Workers -> Cal!Process] /\ wk'[w] = p /\ \A v \in Workers \ {w} : wk'[v] = wk[v]
BY DEF Cal!Set, Cal!TypeOK

LEMMA CalStepType ==
    ASSUME Cal!TypeOK, NEW p \in Cal!Process
    PROVE  /\ \A k \in [Dates -> Cal!AtMostOne(Tags)] : [p EXCEPT !.pc = "seed", !.kept = k] \in Cal!Process
           /\ [p EXCEPT !.pc = "restore"] \in Cal!Process
           /\ Cal!AfterRebuild(p) \in Cal!Process
           /\ Cal!AfterRebuild(p).pc \in {"idle", "write", "fetch", "overlay"}
<1>1. \A k \in [Dates -> Cal!AtMostOne(Tags)] : [p EXCEPT !.pc = "seed", !.kept = k] \in Cal!Process
  BY DEF Cal!Process
<1>2. [p EXCEPT !.pc = "restore"] \in Cal!Process
  BY DEF Cal!Process
<1>3. CASE p.goal = "none"
  BY <1>1, <1>2, <1>3, CalIdleType DEF Cal!AfterRebuild, Cal!Idle
<1>4. CASE p.goal # "none"
  <2>1. p.goal \in {"write", "fetch", "overlay"}
    BY <1>4 DEF Cal!Process
  <2>2. [p EXCEPT !.pc = p.goal, !.kept = Cal!Nothing] \in Cal!Process
    BY <2>1, CalNothingType DEF Cal!Process
  <2>3. [p EXCEPT !.pc = p.goal, !.kept = Cal!Nothing].pc = p.goal
    BY DEF Cal!Process
  <2> QED BY <1>1, <1>2, <1>4, <2>1, <2>2, <2>3 DEF Cal!AfterRebuild
<1> QED BY <1>3, <1>4

LEMMA CalNextType == Cal!TypeOK /\ [Cal!Next]_(Cal!vars) => Cal!TypeOK'
<1> SUFFICES ASSUME Cal!TypeOK, [Cal!Next]_(Cal!vars) PROVE Cal!TypeOK'
  OBVIOUS
<1>1. CASE UNCHANGED Cal!vars
  BY <1>1 DEF Cal!vars, Cal!TypeOK
<1>2. ASSUME NEW w \in Workers, Cal!Ask(w) PROVE Cal!TypeOK'
  <2>1. \E p \in Cal!Process : Cal!Set(w, p)
    BY <1>2, CalRebuildType DEF Cal!Ask, Cal!AskForRebuild, Cal!AskForHolidays, Cal!AskForTag, Cal!AtMostOne
  <2>2. UNCHANGED <<tag, source, cache, last, disturbed>>
    BY <1>2 DEF Cal!Ask, Cal!AskForRebuild, Cal!AskForHolidays, Cal!AskForTag
  <2> QED BY <2>1, <2>2, CalSetType DEF Cal!TypeOK
<1>3. ASSUME NEW w \in Workers, Cal!Step(w) PROVE Cal!TypeOK'
  <2>0. wk[w] \in Cal!Process
    BY DEF Cal!TypeOK
  <2>1. CASE Cal!ReadTags(w)
    BY <2>0, <2>1, CalSetType, CalStepType DEF Cal!ReadTags, Cal!ManualTags, Cal!TypeOK
  <2>2. CASE Cal!SeedYear(w)
    BY <2>0, <2>2, CalSetType, CalStepType, CalNothingType DEF Cal!SeedYear, Cal!TypeOK
  <2>3. CASE Cal!RestoreTags(w)
    <3>1. tag' \in [Dates -> Cal!AtMostOne(Tags)]
      BY <2>0, <2>3 DEF Cal!RestoreTags, Cal!TypeOK, Cal!Process
    <3> QED BY <2>0, <2>3, <3>1, CalSetType, CalStepType DEF Cal!RestoreTags, Cal!TypeOK
  <2>4. CASE Cal!WriteTag(w)
    <3>1. tag' \in [Dates -> Cal!AtMostOne(Tags)] /\ last' \in [Dates -> Cal!AtMostOne(Tags)]
      BY <2>0, <2>4 DEF Cal!WriteTag, Cal!TypeOK, Cal!Process
    <3>2. disturbed' \subseteq Dates
      BY <2>0, <2>4 DEF Cal!WriteTag, Cal!TypeOK, Cal!Process
    <3> QED BY <2>4, <3>1, <3>2, CalSetType, CalIdleType DEF Cal!WriteTag, Cal!TypeOK
  <2>5. CASE Cal!Fetch(w)
    <3>1. \E p \in Cal!Process : Cal!Set(w, p)
      BY <2>5, CalRebuildType, CalIdleType DEF Cal!Fetch, Cal!AtMostOne
    <3> QED BY <2>5, <3>1, CalSetType DEF Cal!Fetch, Cal!TypeOK
  <2>6. CASE Cal!OverlayHolidays(w)
    <3>1. /\ tag' \in [Dates -> Cal!AtMostOne(Tags)]
          /\ source' \in [Dates -> Cal!AtMostOne(Providers)]
          /\ cache' \in [Dates -> Cal!AtMostOne(Providers)]
      BY <2>0, <2>6 DEF Cal!OverlayHolidays, Cal!TypeOK, Cal!Process, Cal!AtMostOne
    <3>2. disturbed' \subseteq Dates
      BY <2>0, <2>6 DEF Cal!OverlayHolidays, Cal!TypeOK, Cal!Process
    <3> QED BY <2>6, <3>1, <3>2, CalSetType, CalIdleType DEF Cal!OverlayHolidays, Cal!TypeOK
  <2>7. CASE Cal!Die(w)
    BY <2>7, CalSetType, CalIdleType DEF Cal!Die, Cal!TypeOK
  <2> QED BY <1>3, <2>1, <2>2, <2>3, <2>4, <2>5, <2>6, <2>7 DEF Cal!Step
<1> QED BY <1>1, <1>2, <1>3 DEF Cal!Next

(* The rows of a year, the cache and the processes keep their types.       *)
THEOREM CalTypeCorrect == Cal!Spec => []Cal!TypeOK
<1>1. Cal!Init => Cal!TypeOK
  BY CalNothingType, CalIdleType DEF Cal!Init, Cal!TypeOK
<1> QED BY <1>1, CalNextType, PTL DEF Cal!Spec

-----------------------------------------------------------------------------
(* The inductive invariant: of an undisturbed date, every rebuild holds    *)
(* the tag that the last command gave it, and the row has that tag, or     *)
(* the computed one while a rebuild is about to restore it.                *)
CalKeptInv ==
    \A d \in Dates \ disturbed :
        /\ \A w \in Workers : Cal!Rebuilding(w) => wk[w].kept[d] = last[d]
        /\ \/ tag[d] = last[d]
           \/ tag[d] = {} /\ \E w \in Workers : Cal!Missing(w) /\ wk[w].kept[d] = last[d]

CalCachedInv == \A d \in Dates : source[d] # {} => source[d] = cache[d]

LEMMA CalNextCached == Cal!TypeOK /\ CalCachedInv /\ [Cal!Next]_(Cal!vars) => CalCachedInv'
<1> SUFFICES ASSUME Cal!TypeOK, CalCachedInv, [Cal!Next]_(Cal!vars) PROVE CalCachedInv'
  OBVIOUS
<1>1. CASE UNCHANGED <<source, cache>>
  BY <1>1 DEF CalCachedInv
<1>2. ASSUME NEW w \in Workers, Cal!SeedYear(w) PROVE CalCachedInv'
  BY <1>2 DEF Cal!SeedYear, CalCachedInv, Cal!Nothing
<1>3. ASSUME NEW w \in Workers, Cal!OverlayHolidays(w) PROVE CalCachedInv'
  BY <1>3 DEF Cal!OverlayHolidays, CalCachedInv
<1> QED
  BY <1>1, <1>2, <1>3
  DEF Cal!Next, Cal!Ask, Cal!Step, Cal!vars, Cal!AskForRebuild, Cal!AskForHolidays, Cal!AskForTag,
      Cal!ReadTags, Cal!RestoreTags,
      Cal!WriteTag, Cal!Fetch, Cal!Die

(* A step that leaves the rows alone and neither starts nor ends the       *)
(* rebuild of a process preserves the invariant.                           *)
LEMMA CalQuietStep ==
    ASSUME Cal!TypeOK, CalKeptInv, NEW w \in Workers, NEW p \in Cal!Process, Cal!Set(w, p),
           ~ Cal!Rebuilding(w), p.pc \notin {"seed", "restore"},
           UNCHANGED <<tag, last, disturbed>>
    PROVE  CalKeptInv'
<1>1. wk'[w] = p /\ \A v \in Workers \ {w} : wk'[v] = wk[v]
  BY CalSetType
<1> QED BY <1>1 DEF CalKeptInv, Cal!Rebuilding, Cal!Missing

LEMMA CalNextKept == Cal!TypeOK /\ CalKeptInv /\ [Cal!Next]_(Cal!vars) => CalKeptInv'
<1> SUFFICES ASSUME Cal!TypeOK, CalKeptInv, [Cal!Next]_(Cal!vars) PROVE CalKeptInv'
  OBVIOUS
<1>1. CASE UNCHANGED Cal!vars
  BY <1>1 DEF Cal!vars, CalKeptInv, Cal!Rebuilding, Cal!Missing
<1>2. ASSUME NEW w \in Workers, Cal!Ask(w) PROVE CalKeptInv'
  <2>1. PICK goal \in {"none", "write", "fetch", "overlay"}, ds \in SUBSET Dates,
             new \in Cal!AtMostOne(Tags) : Cal!Set(w, Cal!Rebuild(goal, ds, new, {}))
    BY <1>2 DEF Cal!Ask, Cal!AskForRebuild, Cal!AskForHolidays, Cal!AskForTag, Cal!AtMostOne
  <2>2. ~ Cal!Rebuilding(w) /\ UNCHANGED <<tag, last, disturbed>>
    BY <1>2 DEF Cal!Ask, Cal!AskForRebuild, Cal!AskForHolidays, Cal!AskForTag, Cal!At, Cal!Rebuilding
  <2>3. Cal!Rebuild(goal, ds, new, {}) \in Cal!Process
    BY CalRebuildType DEF Cal!AtMostOne
  <2>4. Cal!Rebuild(goal, ds, new, {}).pc = "read"
    BY DEF Cal!Rebuild
  <2> QED BY <2>1, <2>2, <2>3, <2>4, CalQuietStep
<1>3. ASSUME NEW w \in Workers, Cal!Step(w) PROVE CalKeptInv'
  <2>0. wk[w] \in Cal!Process
    BY DEF Cal!TypeOK
  <2>1. CASE Cal!ReadTags(w)
    <3>1. Cal!Set(w, [wk[w] EXCEPT !.pc = "seed", !.kept = tag])
      BY <2>1 DEF Cal!ReadTags, Cal!ManualTags
    <3>2. /\ wk'[w].pc = "seed" /\ wk'[w].kept = tag
          /\ \A v \in Workers \ {w} : wk'[v] = wk[v]
      <4>1. [wk[w] EXCEPT !.pc = "seed", !.kept = tag] \in Cal!Process
        BY <2>0, CalStepType DEF Cal!TypeOK
      <4>2. /\ wk'[w] = [wk[w] EXCEPT !.pc = "seed", !.kept = tag]
            /\ \A v \in Workers \ {w} : wk'[v] = wk[v]
        BY <3>1, <4>1, CalSetType
      <4> QED BY <2>0, <4>2 DEF Cal!Process
    <3>3. SUFFICES ASSUME NEW d \in Dates \ disturbed'
                   PROVE  /\ \A v \in Workers : Cal!Rebuilding(v)' => wk'[v].kept[d] = last'[d]
                          /\ \/ tag'[d] = last'[d]
                             \/ /\ tag'[d] = {}
                                /\ \E v \in Workers : Cal!Missing(v)' /\ wk'[v].kept[d] = last'[d]
      BY DEF CalKeptInv
    <3>4. d \in Dates \ disturbed /\ \A v \in Workers : Cal!Missing(v) => wk[v].kept[d] = {}
      BY <2>1, <3>3 DEF Cal!ReadTags
    <3>5. tag[d] = last[d]
      BY <3>4 DEF CalKeptInv
    <3>6. UNCHANGED <<tag, last>>
      BY <2>1 DEF Cal!ReadTags
    <3>7. ASSUME NEW v \in Workers, Cal!Rebuilding(v)' PROVE wk'[v].kept[d] = last'[d]
      <4>1. CASE v = w
        BY <4>1, <3>2, <3>5, <3>6
      <4>2. CASE v # w
        BY <4>2, <3>2, <3>4, <3>6, <3>7 DEF CalKeptInv, Cal!Rebuilding
      <4> QED BY <4>1, <4>2
    <3> QED BY <3>5, <3>6, <3>7
  <2>2. CASE Cal!SeedYear(w)
    <3>1. /\ wk'[w].pc = "restore" /\ wk'[w].kept = wk[w].kept
          /\ \A v \in Workers \ {w} : wk'[v] = wk[v]
      <4>1. /\ wk'[w] = [wk[w] EXCEPT !.pc = "restore"]
            /\ \A v \in Workers \ {w} : wk'[v] = wk[v]
        BY <2>0, <2>2, CalSetType, CalStepType DEF Cal!SeedYear
      <4> QED BY <2>0, <4>1 DEF Cal!Process
    <3>2. Cal!Rebuilding(w) /\ tag' = Cal!Nothing /\ UNCHANGED <<last, disturbed>>
      BY <2>2 DEF Cal!SeedYear, Cal!At, Cal!Rebuilding
    <3>3. ASSUME NEW d \in Dates \ disturbed
          PROVE  /\ tag'[d] = {} /\ Cal!Missing(w)' /\ wk'[w].kept[d] = last'[d]
                 /\ \A v \in Workers : Cal!Rebuilding(v)' => wk'[v].kept[d] = last'[d]
      BY <3>1, <3>2 DEF CalKeptInv, Cal!Missing, Cal!Rebuilding, Cal!Nothing
    <3> QED BY <3>2, <3>3 DEF CalKeptInv
  <2>3. CASE Cal!RestoreTags(w)
    <3>1. /\ wk'[w].pc \notin {"seed", "restore"}
          /\ \A v \in Workers \ {w} : wk'[v] = wk[v]
      BY <2>0, <2>3, CalSetType, CalStepType DEF Cal!RestoreTags
    <3>2. Cal!Rebuilding(w) /\ UNCHANGED <<last, disturbed>>
      BY <2>3 DEF Cal!RestoreTags, Cal!At, Cal!Rebuilding
    <3>3. ASSUME NEW d \in Dates \ disturbed PROVE tag'[d] = last'[d]
      <4>1. wk[w].kept[d] = last[d] /\ (tag[d] = last[d] \/ tag[d] = {})
        BY <3>2 DEF CalKeptInv
      <4>2. tag'[d] = IF wk[w].kept[d] # {} THEN wk[w].kept[d] ELSE tag[d]
        BY <2>3 DEF Cal!RestoreTags
      <4> QED BY <3>2, <4>1, <4>2
    <3>4. ASSUME NEW d \in Dates \ disturbed, NEW v \in Workers, Cal!Rebuilding(v)'
          PROVE  wk'[v].kept[d] = last'[d]
      BY <3>1, <3>2, <3>4 DEF CalKeptInv, Cal!Rebuilding
    <3> QED BY <3>2, <3>3, <3>4 DEF CalKeptInv
  <2>4. CASE Cal!WriteTag(w)
    <3>1. wk'[w] = Cal!Idle /\ \A v \in Workers \ {w} : wk'[v] = wk[v]
      BY <2>4, CalSetType, CalIdleType DEF Cal!WriteTag
    <3>2. ~ Cal!Rebuilding(w) /\ ~ Cal!Rebuilding(w)'
      BY <2>4, <3>1 DEF Cal!WriteTag, Cal!At, Cal!Rebuilding, Cal!Idle
    <3>3. SUFFICES ASSUME NEW d \in Dates \ disturbed'
                   PROVE  /\ \A v \in Workers : Cal!Rebuilding(v)' => wk'[v].kept[d] = last'[d]
                          /\ \/ tag'[d] = last'[d]
                             \/ /\ tag'[d] = {}
                                /\ \E v \in Workers : Cal!Missing(v)' /\ wk'[v].kept[d] = last'[d]
      BY DEF CalKeptInv
    <3>4. CASE d \in wk[w].dates
      <4>1. ~ \E v \in Workers : Cal!Rebuilding(v)
        BY <2>4, <3>3, <3>4 DEF Cal!WriteTag
      <4>2. \A v \in Workers : ~ Cal!Rebuilding(v)'
        BY <3>1, <3>2, <4>1 DEF Cal!Rebuilding
      <4>3. tag'[d] = last'[d]
        BY <2>4, <3>4 DEF Cal!WriteTag
      <4> QED BY <4>2, <4>3
    <3>5. CASE d \notin wk[w].dates
      <4>1. d \in Dates \ disturbed /\ tag'[d] = tag[d] /\ last'[d] = last[d]
        BY <2>4, <3>3, <3>5 DEF Cal!WriteTag
      <4> QED BY <3>1, <3>2, <4>1 DEF CalKeptInv, Cal!Rebuilding, Cal!Missing
    <3> QED BY <3>4, <3>5
  <2>5. CASE Cal!Fetch(w)
    <3>1. PICK p \in Cal!Process : Cal!Set(w, p) /\ p.pc \in {"idle", "read"}
      <4>1. CASE Cal!Set(w, Cal!Idle)
        BY <4>1, CalIdleType DEF Cal!Idle
      <4>2. CASE Cal!Set(w, Cal!Rebuild("none", {}, {}, {}))
        <5>1. Cal!Rebuild("none", {}, {}, {}) \in Cal!Process
          BY CalRebuildType DEF Cal!AtMostOne
        <5> QED BY <4>2, <5>1 DEF Cal!Rebuild
      <4>3. ASSUME NEW q \in Providers, NEW ds \in SUBSET Dates,
                   Cal!Set(w, Cal!Rebuild("overlay", ds, {}, {q}))
            PROVE  \E p \in Cal!Process : Cal!Set(w, p) /\ p.pc \in {"idle", "read"}
        <5>1. Cal!Rebuild("overlay", ds, {}, {q}) \in Cal!Process
          BY CalRebuildType DEF Cal!AtMostOne
        <5> QED BY <4>3, <5>1 DEF Cal!Rebuild
      <4> QED BY <2>5, <4>1, <4>2, <4>3 DEF Cal!Fetch
    <3>2. ~ Cal!Rebuilding(w) /\ UNCHANGED <<tag, last, disturbed>>
      BY <2>5 DEF Cal!Fetch, Cal!At, Cal!Rebuilding
    <3> QED BY <3>1, <3>2, CalQuietStep
  <2>6. CASE Cal!OverlayHolidays(w)
    <3>1. wk'[w] = Cal!Idle /\ \A v \in Workers \ {w} : wk'[v] = wk[v]
      BY <2>6, CalSetType, CalIdleType DEF Cal!OverlayHolidays
    <3>2. ~ Cal!Rebuilding(w) /\ ~ Cal!Rebuilding(w)' /\ UNCHANGED last
      BY <2>6, <3>1 DEF Cal!OverlayHolidays, Cal!At, Cal!Rebuilding, Cal!Idle
    <3>3. SUFFICES ASSUME NEW d \in Dates \ disturbed'
                   PROVE  /\ \A v \in Workers : Cal!Rebuilding(v)' => wk'[v].kept[d] = last'[d]
                          /\ \/ tag'[d] = last'[d]
                             \/ /\ tag'[d] = {}
                                /\ \E v \in Workers : Cal!Missing(v)' /\ wk'[v].kept[d] = last'[d]
      BY DEF CalKeptInv
    <3>4. d \in Dates \ disturbed /\ \A v \in Workers : Cal!Rebuilding(v)' => wk'[v].kept[d] = last'[d]
      BY <2>6, <3>1, <3>2, <3>3 DEF Cal!OverlayHolidays, CalKeptInv, Cal!Rebuilding
    <3>5. CASE d \in wk[w].dates
      <4>1. last[d] = {} /\ tag'[d] = {}
        BY <2>6, <3>3, <3>5 DEF Cal!OverlayHolidays
      <4> QED BY <3>2, <3>4, <4>1
    <3>6. CASE d \notin wk[w].dates
      <4>1. tag'[d] = tag[d]
        BY <2>6, <3>6 DEF Cal!OverlayHolidays
      <4> QED BY <3>1, <3>2, <3>4, <4>1 DEF CalKeptInv, Cal!Rebuilding, Cal!Missing
    <3> QED BY <3>5, <3>6
  <2>7. CASE Cal!Die(w)
    <3>1. wk'[w] = Cal!Idle /\ \A v \in Workers \ {w} : wk'[v] = wk[v]
      BY <2>7, CalSetType, CalIdleType DEF Cal!Die
    <3>2. ~ Cal!Rebuilding(w)' /\ UNCHANGED <<tag, last>>
      BY <2>7, <3>1 DEF Cal!Die, Cal!Rebuilding, Cal!Idle
    <3>3. SUFFICES ASSUME NEW d \in Dates \ disturbed'
                   PROVE  /\ \A v \in Workers : Cal!Rebuilding(v)' => wk'[v].kept[d] = last'[d]
                          /\ \/ tag'[d] = last'[d]
                             \/ /\ tag'[d] = {}
                                /\ \E v \in Workers : Cal!Missing(v)' /\ wk'[v].kept[d] = last'[d]
      BY DEF CalKeptInv
    <3>4. d \in Dates \ disturbed /\ (Cal!Missing(w) => wk[w].kept[d] = {})
      BY <2>7, <3>3 DEF Cal!Die
    <3>5. \A v \in Workers : Cal!Rebuilding(v)' => wk'[v].kept[d] = last'[d]
      BY <3>1, <3>2, <3>4 DEF CalKeptInv, Cal!Rebuilding
    <3>6. CASE tag[d] = last[d]
      BY <3>2, <3>5, <3>6
    <3>7. CASE tag[d] # last[d]
      <4>1. PICK v \in Workers : Cal!Missing(v) /\ wk[v].kept[d] = last[d]
        BY <3>4, <3>7 DEF CalKeptInv
      <4>2. tag[d] = {} /\ v # w
        BY <3>4, <3>7, <4>1 DEF CalKeptInv
      <4> QED BY <3>1, <3>2, <3>5, <4>1, <4>2 DEF Cal!Missing
    <3> QED BY <3>6, <3>7
  <2> QED BY <1>3, <2>1, <2>2, <2>3, <2>4, <2>5, <2>6, <2>7 DEF Cal!Step
<1> QED BY <1>1, <1>2, <1>3 DEF Cal!Next

(* Whatever number of processes rebuild the year, ask and die: the tag of  *)
(* a date that nobody disturbed is the one that the last command gave it,  *)
(* or a process is about to restore it; and a day that names a provider is *)
(* the day in the cache.                                                   *)
THEOREM CalExplainedAlways == Cal!Spec => []Cal!DaysAreExplained
<1>1. Cal!Init => Cal!TypeOK /\ CalKeptInv /\ CalCachedInv
  BY CalNothingType, CalIdleType
  DEF Cal!Init, Cal!TypeOK, CalKeptInv, CalCachedInv, Cal!Nothing, Cal!Idle, Cal!Rebuilding
<1>2. Cal!TypeOK /\ CalKeptInv /\ CalCachedInv /\ [Cal!Next]_(Cal!vars)
        => (Cal!TypeOK /\ CalKeptInv /\ CalCachedInv)'
  BY CalNextType, CalNextKept, CalNextCached
<1>3. CalKeptInv /\ CalCachedInv => Cal!DaysAreExplained
  BY DEF CalKeptInv, CalCachedInv, Cal!DaysAreExplained, Cal!Stands
<1> QED BY <1>1, <1>2, <1>3, PTL DEF Cal!Spec

-----------------------------------------------------------------------------
(***************************************************************************)
(* The services in one run: a behaviour of all is one of each.             *)
(***************************************************************************)
LEMMA AllIsGateway == AllSpec => Spec
<1>1. AllInit => Init
  BY DEF AllInit
<1>2. [AllNext]_allvars => [Next]_vars
  BY DEF AllNext, InGateway, InSync, InMenu, InS14, InCalendar, allvars
<1> QED BY <1>1, <1>2, PTL DEF AllSpec, Spec

LEMMA AllIsSync == AllSpec => Sync!Spec
<1>1. AllInit => Sync!Init
  BY DEF AllInit
<1>2. [AllNext]_allvars => [Sync!Next]_(Sync!vars)
  BY DEF AllNext, InGateway, InSync, InMenu, InS14, InCalendar, allvars, bindings, Sync!vars
<1> QED BY <1>1, <1>2, PTL DEF AllSpec, Sync!Spec

LEMMA AllIsMenu == AllSpec => Menu!Spec
<1>1. AllInit => Menu!Init
  BY DEF AllInit
<1>2. [AllNext]_allvars => [Menu!Next]_(Menu!vars)
  BY DEF AllNext, InGateway, InSync, InMenu, InS14, InCalendar, allvars, menu, Menu!vars
<1> QED BY <1>1, <1>2, PTL DEF AllSpec, Menu!Spec

LEMMA AllIsS14 == AllSpec => S14!Spec
<1>1. AllInit => S14!Init
  BY DEF AllInit
<1>2. [AllNext]_allvars => [S14!Next]_(S14!vars)
  BY DEF AllNext, InGateway, InSync, InMenu, InS14, InCalendar, allvars, s14, S14!vars
<1> QED BY <1>1, <1>2, PTL DEF AllSpec, S14!Spec

LEMMA AllIsCal == AllSpec => Cal!Spec
<1>1. AllInit => Cal!Init
  BY DEF AllInit
<1>2. [AllNext]_allvars => [Cal!Next]_(Cal!vars)
  BY DEF AllNext, InGateway, InSync, InMenu, InS14, InCalendar, allvars, calendar, Cal!vars
<1> QED BY <1>1, <1>2, PTL DEF AllSpec, Cal!Spec

LEMMA Buttons14 == S14!Sources
BY ServicesAssumption DEF S14!Sources

(* Only one service runs, and each keeps the types of its state.           *)
THEOREM GatewayTypes == AllSpec => []TypesOK
<1>0. MaxMenus \in Nat /\ MaxEdits \in Nat /\ MaxEvents \in Nat /\ "other" \notin Hotels
      /\ None \notin Hotels
  BY ServicesAssumption, PeopleAssumption
<1>1. AllSpec => [](focus \in {"gateway", "sync", "menu", "s14", "calendar"})
  <2>1. AllInit => focus \in {"gateway", "sync", "menu", "s14", "calendar"}
    BY DEF AllInit
  <2>2. focus \in {"gateway", "sync", "menu", "s14", "calendar"} /\ [AllNext]_allvars
            => (focus \in {"gateway", "sync", "menu", "s14", "calendar"})'
    BY DEF AllNext, InGateway, InSync, InMenu, InS14, InCalendar, allvars
  <2> QED BY <2>1, <2>2, PTL DEF AllSpec
<1>2. AllSpec => []TypeOK
  BY AllIsGateway, TypeCorrect, PTL
<1>3. AllSpec => []Sync!TypeOK
  <2>1. Sync!Spec => []Sync!TypeOK
    BY <1>0, SyncTypeCorrect
  <2> QED BY <2>1, AllIsSync, PTL
<1>4. AllSpec => []Menu!TypeOK
  <2>1. Menu!Spec => []Menu!TypeOK
    BY <1>0, MenuTypeCorrect
  <2> QED BY <2>1, AllIsMenu, PTL
<1>5. AllSpec => []S14!TypeOK
  <2>1. S14!Spec => []S14!TypeOK
    BY <1>0, Buttons14, S14!TypeCorrect
  <2> QED BY <2>1, AllIsS14, PTL
<1>6. AllSpec => []Cal!TypeOK
  BY AllIsCal, CalTypeCorrect, PTL
<1>7. /\ focus \in {"gateway", "sync", "menu", "s14", "calendar"}
      /\ TypeOK /\ Sync!TypeOK /\ Menu!TypeOK /\ S14!TypeOK /\ Cal!TypeOK
      => TypesOK
  BY DEF TypesOK
<1> QED BY <1>1, <1>2, <1>3, <1>4, <1>5, <1>6, <1>7, PTL

(* The gateway keeps its promises while the others run.                    *)
THEOREM GatewayMessages ==
    AllSpec => /\ []RepeatsAreExplained /\ []TasksAreAuthorized /\ []RepliesAreTrue
BY AllIsGateway, RepeatsExplained, TasksAuthorized, RepliesTrue, PTL

(* A sync that ends has bound what was bound all the while, and no record  *)
(* goes to a hotel to which its account and its chat never belonged.       *)
THEOREM GatewayBindings == AllSpec => []RecordsFollowBindings
<1>0. "other" \notin Hotels /\ None \notin Hotels
  BY ServicesAssumption, PeopleAssumption
<1>1. Sync!Spec => []Sync!RecordsFollowBindings
  BY <1>0, SyncRecordsFollow
<1>2. Sync!RecordsFollowBindings => RecordsFollowBindings
  BY DEF RecordsFollowBindings
<1> QED BY <1>1, <1>2, AllIsSync, PTL

(* A command runs from the last menu its member had opened, once among the *)
(* messages that read the menu after another had updated it.               *)
THEOREM GatewayMenus == AllSpec => []MenusRunOnce
<1>1. Menu!MenusRunOnce => MenusRunOnce
  BY DEF MenusRunOnce
<1> QED BY <1>1, MenuRunOnce, AllIsMenu, PTL

(* A click on a card runs at most once within the memory of the callback   *)
(* server.                                                                 *)
THEOREM GatewayClicks == AllSpec => []ClicksRunOnce
<1>1. S14!Spec => []S14!ClicksRunOnce
  BY Buttons14, S14!RunOnce
<1>2. S14!ClicksRunOnce => ClicksRunOnce
  BY DEF ClicksRunOnce
<1> QED BY <1>1, <1>2, AllIsS14, PTL

(* A file sent after Excel was chosen is taken, unless its conversation    *)
(* was cancelled, lapsed or restarted.                                     *)
THEOREM GatewayUploads == AllSpec => []UploadsAreTaken
<1>1. S14!Spec => []S14!UploadsAreTaken
  BY Buttons14, S14!UploadsTaken
<1>2. S14!UploadsAreTaken => UploadsAreTaken
  BY DEF UploadsAreTaken
<1> QED BY <1>1, <1>2, AllIsS14, PTL

(* A manual tag stands unless another process was rebuilding the year, and *)
(* a day that names a provider is the cached one.                          *)
THEOREM GatewayDays == AllSpec => []DaysAreExplained
<1>1. Cal!DaysAreExplained => DaysAreExplained
  BY DEF DaysAreExplained
<1> QED BY <1>1, CalExplainedAlways, AllIsCal, PTL
=============================================================================
