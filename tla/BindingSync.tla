---------------------------- MODULE BindingSync ----------------------------
(***************************************************************************)
(* The conversation bindings of the Feishu gateway.  When the gateway      *)
(* starts it reads which hotel each bot account belongs to, reads the      *)
(* active chat bindings of the control database, and creates a binding     *)
(* record for every account and every chat of its hotel that has none, one *)
(* call of the host after another.  Bindings, the account map and the      *)
(* records change meanwhile.  Records are never removed or renewed.        *)
(***************************************************************************)
EXTENDS Naturals, FiniteSets

CONSTANTS
    Accounts, Chats, Hotels,
    MaxChanges,   \* bound: changes of the map, of bindings and of records
    None          \* no hotel, no record

VARIABLES
    map,       \* bot_account_hotel_map of the role map file
    tables,    \* the active rows of chat_bindings and of group_chat_bindings
    records,   \* the hotel that the record of an account and a chat names,
               \* "other" for the record of another plugin
    sync,      \* the run of runBindingSync
    held,      \* history: the accounts and chats of a hotel since the sync began
    lost,      \* history: those whose creation failed or whose record went since
    past,      \* history: every hotel that an account or a chat has had
    changes

vars == <<map, tables, records, sync, held, lost, past, changes>>
world == <<map, tables, records, changes>>

Triples == Accounts \X Chats \X Hotels
Tables == {"chat_bindings", "group_chat_bindings"}
Sync == [pc: {"idle", "rows", "look", "create", "done"}, dry: BOOLEAN,
         map: [Accounts -> Hotels \cup {None}],
         todo: SUBSET Triples, now: SUBSET Triples]

(* SQLITE_BINDING_QUERY and normalizeSQLiteBindingRows: the rows of both   *)
(* tables, which may differ, without duplicates.                           *)
Rows(ts) == {b \in Chats \X Hotels : \E t \in Tables : ts[t][b[1]] = b[2]}

(* The bindings of an account: those of the hotel it is mapped to.         *)
AnyHotel(m, rows) == {t \in Triples : m[t[1]] # None /\ <<t[2], t[3]>> \in rows}
OfHotel(m, rows) == {t \in Triples : m[t[1]] = t[3] /\ <<t[2], t[3]>> \in rows}

(* isOwnedPluginBinding                                                    *)
Owned(t) == records[<<t[1], t[2]>>] \in Hotels

(***************************************************************************)
(* runBindingSync                                                          *)
(***************************************************************************)
Start ==   \* loadAccountHotelMap
    /\ sync.pc \in {"idle", "done"}
    /\ \E dry \in BOOLEAN :
          sync' = [pc |-> "rows", dry |-> dry, map |-> map, todo |-> {}, now |-> {}]
    /\ held' = {t \in Triples : map[t[1]] = t[3] /\ <<t[2], t[3]>> \in Rows(tables)}
    /\ lost' = {}
    /\ UNCHANGED <<world, past>>

ReadRows ==
    /\ sync.pc = "rows"
    /\ sync' = [sync EXCEPT !.pc = "look", !.todo = OfHotel(sync.map, Rows(tables))]
    /\ UNCHANGED <<world, held, lost, past>>

Look(t) ==
    /\ sync.pc = "look" /\ t \in sync.todo
    /\ sync' = [sync EXCEPT !.todo = @ \ {t},
                            !.pc = IF Owned(t) \/ sync.dry THEN "look" ELSE "create",
                            !.now = IF Owned(t) \/ sync.dry THEN {} ELSE {t}]
    /\ UNCHANGED <<world, held, lost, past>>

Create(t) ==
    /\ sync.pc = "create" /\ t \in sync.now
    /\ records' = [records EXCEPT ![<<t[1], t[2]>>] = t[3]]
    /\ sync' = [sync EXCEPT !.pc = "look", !.now = {}]
    /\ UNCHANGED <<map, tables, held, lost, past, changes>>

(* An error of the host, in either call, is counted and passed over.       *)
LeftAfterGivingUp(t) == {}
LeftAfterError(t) == sync.todo \ {t}

Fail(t) ==
    /\ \/ sync.pc = "look" /\ t \in sync.todo
       \/ sync.pc = "create" /\ t \in sync.now
    /\ sync' = [sync EXCEPT !.pc = "look", !.now = {}, !.todo = LeftAfterError(t)]
    /\ lost' = lost \cup {<<t[1], t[2]>>}
    /\ UNCHANGED <<world, held, past>>

End ==
    /\ sync.pc = "look" /\ sync.todo = {}
    /\ sync' = [sync EXCEPT !.pc = "done"]
    /\ UNCHANGED <<world, held, lost, past>>

Kill ==
    /\ sync.pc \notin {"idle", "done"}
    /\ sync' = [sync EXCEPT !.pc = "idle", !.todo = {}, !.now = {}]
    /\ UNCHANGED <<world, held, lost, past>>

(***************************************************************************)
(* Meanwhile                                                               *)
(***************************************************************************)
Change(m, ts) ==
    /\ changes < MaxChanges /\ changes' = changes + 1
    /\ map' = m /\ tables' = ts
    /\ held' = held \cap OfHotel(m, Rows(ts))
    /\ past' = past \cup {<<a, m[a]>> : a \in Accounts} \cup Rows(ts)
    /\ UNCHANGED <<records, sync, lost>>

(* Somebody edits the role map file.                                       *)
MapAccount(a, h) == Change([map EXCEPT ![a] = h], tables)

(* The control plane binds a group in both tables and a direct chat in     *)
(* one; it revokes in both.                                                *)
BindGroup(c, h) == Change(map, [t \in Tables |-> [tables[t] EXCEPT ![c] = h]])
BindDirect(c, h) == Change(map, [tables EXCEPT !["chat_bindings"][c] = h])
Revoke(c) == Change(map, [t \in Tables |-> [tables[t] EXCEPT ![c] = None]])

(* The host detaches a conversation or gives it to another plugin.         *)
Detach(a, c, to) ==
    /\ changes < MaxChanges /\ changes' = changes + 1
    /\ records[<<a, c>>] # to
    /\ records' = [records EXCEPT ![<<a, c>>] = to]
    /\ lost' = lost \cup {<<a, c>>}
    /\ UNCHANGED <<map, tables, sync, held, past>>

Init ==
    /\ map = [a \in Accounts |-> None]
    /\ tables = [t \in Tables |-> [c \in Chats |-> None]]
    /\ records = [p \in Accounts \X Chats |-> None]
    /\ sync = [pc |-> "idle", dry |-> FALSE, map |-> map, todo |-> {}, now |-> {}]
    /\ held = {} /\ lost = {} /\ past = {} /\ changes = 0

Next ==
    \/ Start \/ ReadRows \/ End \/ Kill
    \/ \E t \in Triples : Look(t) \/ Create(t) \/ Fail(t)
    \/ \E a \in Accounts, h \in Hotels \cup {None} : MapAccount(a, h)
    \/ \E c \in Chats, h \in Hotels : BindGroup(c, h) \/ BindDirect(c, h)
    \/ \E c \in Chats : Revoke(c)
    \/ \E a \in Accounts, c \in Chats, to \in {None, "other"} : Detach(a, c, to)

Spec == Init /\ [][Next]_vars

TypeOK ==
    /\ map \in [Accounts -> Hotels \cup {None}]
    /\ tables \in [Tables -> [Chats -> Hotels \cup {None}]]
    /\ records \in [Accounts \X Chats -> Hotels \cup {None, "other"}]
    /\ sync \in Sync /\ held \subseteq Triples /\ lost \subseteq Accounts \X Chats
    /\ past \subseteq (Accounts \cup Chats) \X (Hotels \cup {None})
    /\ changes \in 0..MaxChanges

(* A sync that ends has bound, in whatever order and whatever failed, each *)
(* account to each chat that was one of its hotel's all the while, unless  *)
(* that very creation failed or the host took the conversation away.  And  *)
(* no conversation is handed to an account of a hotel to which the account *)
(* and the chat have not both belonged, at one time or another.            *)
RecordsFollowBindings ==
    /\ sync.pc = "done" /\ ~ sync.dry =>
          \A t \in held : Owned(t) \/ <<t[1], t[2]>> \in lost
    /\ \A t \in Triples : records[<<t[1], t[2]>>] = t[3] =>
          <<t[1], t[3]>> \in past /\ <<t[2], t[3]>> \in past
=============================================================================
