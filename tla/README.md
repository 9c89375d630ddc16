# Verification of hotel_ai

TLA+ models, model-checking instances and TLAPS proofs for the parts of hotel_ai that
change something outside a chat: what an operator confirms, what is written because of
it, and what the system says about it afterwards. Paths are relative to
`src/hotel-ota-ai/` unless they start with `ota-marketing-diagnosis/`.

## 1. The system

A hotel's staff talk to an assistant in Feishu. The gateway (OpenClaw, with the plugin
under `ops/openclaw-plugins`) starts one Python process per message, which routes the text
to one of 17 skills (S1 to S17). Nearly all skills read: they query a MySQL business
database filled by crawlers, apply rules and render an answer. A few skills *write*, and
always in the same way: the process inserts a row into an outbox table, and a browser
plugin on another machine picks the row up, performs the action on the OTA platform and
sets the row's status. Drafts, confirmations, roles and audit events live in a SQLite
*control database*. There is no daemon and no lock service: processes meet only in tables,
and what keeps them apart is one transaction at a time, a UNIQUE key, or an UPDATE with a
condition.

SQLite is used in its default mode: a SELECT is a transaction of its own, and a
transaction begins at the first INSERT or UPDATE of a connection. A function that reads,
decides and writes is therefore *two* steps unless it says `BEGIN IMMEDIATE`. Most of what
can go wrong in this code comes from that.

| Component | State | Operations | Talks to | Hard behaviour |
|---|---|---|---|---|
| S13 review reply (`runtime/s13/service.py`, `repository.py`) | `s13_review_refs`, `s13_reply_requests`, `s13_reply_events`, `s13_write_attempts` | list, draft, human draft, confirm, retry, reject, cancel | business database (review source), task outbox | every call is a transaction of its own; commands of one review interleave; crash between write and bookkeeping |
| S13 task outbox (`runtime/s13/task_outbox.py`) | `ota_review_reply_task` | `insert_pending`, `cas_retry`, `get_task` | browser plugin | lost statement or commit answer; the plugin is faster than the readback; compare-and-set on a row read earlier |
| S6 price confirmation (`runtime/s6_confirmation.py`, `runtime/feishu_command_router.py:2431-3010`) | `s6_price_confirmations`, `approvals` | previews (one, batch, rejected), confirm by token, plain confirm, finish | price outbox | claims race; a finish that asks for no status; a batch that stops half-way and is repeated |
| S6 price outbox (`runtime/adapters/zhiting_price_task_outbox.py`) | one task table per platform | insert a task, read its status | browser plugin | "no pending task" is checked and used in two statements |
| No-order watch (`scripts/no_order_watch.py`) | a state file | one run per half hour | collector, cron | stale data, midnight, a crash between the two writes |
| Control plane (`runtime/control_plane.py`, owner and role patches) | change requests, memberships, chat bindings, price guard policies, approvals, audit chain | create, confirm, cancel, approve, verify | authorization, router | read-check-write without a condition; expiry before status; MAX(version)+1; hash chain |
| Gateway and S11 promotion control (`ops/openclaw-plugins/hotel-ota-feishu-auth/index.mjs`, `lib/auth_ingress.mjs`, `runtime/safety/auth.py`, `runtime/s11_promotion_execution_patch.py`) | the memory for duplicates; bindings and memberships; `ota_promotion_control_task` | receive, look up members, route in a child, pause or resume | control plane, browser plugin | redelivery, a child killed after 90 s, authority read in several statements, an insert without a key |
| Binding sync (`lib/binding_sync.mjs`, `binding_startup.mjs`) | conversation bindings of the gateway | sync when the gateway starts | control database, role map file, host | one failure among many; bindings that change while it runs |
| Command menu (`runtime/decisions/command_menu.py`) | `command_menus` | open, reply, cancel | router | overlapping replies; expiry |
| S14 conversation and card callback (`ota-marketing-diagnosis/scripts/s14_feishu_entry.py`, `s14_feishu_card_callback.py`) | state file of a person, last Excel file of a chat, memory of clicks, two threads | choose a source, upload, reuse, click | report generator | redelivered clicks, restart, jobs that end late |
| Experience candidates (`runtime/experience`) | `experience_candidates`, a JSON file | review, promote | - | the last writer wins; two sources of one candidate |
| Sales baseline S15, progress report S16 (`runtime/decisions/baseline.py`, `deviation.py` and the S15/S16 patches) | `baselines`, a cache | query, prewarm, compare | calendar, history, forecast table | stale packages, cached failures, a collector that is inserting |
| Business calendar (`runtime/decisions/calendar.py`, `runtime/feishu_calendar_scope_patch.py`) | `calendar_days`, `holiday_calendar_cache` | rebuild a year, set or reset a tag, import holidays | S15, S16, router | read, overwrite and restore in three transactions |
| Capability results, S14 runs (`runtime/capability_results.py`) | rows inserted once | store, read | S14 | - |
| Analyses S1-S5, S7-S10, S12, S17, rendering, demo data, contracts, S14 reports | none of their own | pure functions of read-only data | database adapters | numerical rules, thread pools that only read |

Section 3 says what makes each modelled component correct.

## 2. Plan and order

The modules were written in the order of what can go wrong outside a chat: the review reply
protocol, because it is the most deliberate one (idempotency keys, readback,
reconciliation) and writes in public; price confirmation, because it writes money; the
watch, whose state is carried across runs by a file; the control plane, which decides who
may do all this; the gateway with the promotion tasks, where the authority meets a write;
then the smaller services that keep state: binding sync, command menu, the diagnosis
conversation, experience candidates, the sales baseline, the business calendar.

| Module | Composed with, refines | Proved |
|---|---|---|
| `S13ReviewReply` | implements `ReviewReplyOutbox` | everything but liveness |
| `S6PriceConfirm` | implements `S6PriceOutbox` | everything but liveness |
| `NoOrderWatch` | in `MCServices` | everything |
| `ControlPlane` | - | everything |
| `FeishuIngress` | gateway, authorization and S11 in one module; in `MCGateway`, `MCLiveness` | everything but liveness |
| `BusinessCalendar`, `BindingSync`, `CommandMenu`, `S14Diagnosis` | in `MCGateway` | everything |
| `Experience`, `SalesProgress` | in `MCServices` | everything |

Left for later: the maintenance that applies `role_map_apply_queue`; the bounds that the
strong pricing rules place on a price, against a reference definition. Modules that carry theorems use no RECURSIVE operator.

## 3. Modules

### S13ReviewReply, ReviewReplyOutbox, S13ReviewReplyDocs

*State.* `refs`, `requests`, `events`, `attempts` are the four tables of the control
database; `task` is `ota_review_reply_task` by its unique key; `source` is the latest
snapshot of each review in the business database; `now` is the clock. `wk[w]` is a serving
process: its program counter stands *between* two transactions of
`S13Service.generate_draft`, `confirm` or `retry`, its other fields are the local variables
it carries across them. `wrote` is a history variable: the idempotency keys whose INSERT or
UPDATE took effect.

*Actions.* One per transaction. `StartDraft`, `DraftReadTask`, `DraftReadPending`,
`DraftInvalidate`, `DraftReadVersion`, `DraftCreate` are `generate_draft` and
`submit_human_draft`; `StartConfirm`, `ExpireRequest`, `ReadTask`, `BeginWriteAttempt`,
`Reconcile`, `RecoverAttempt`, `InsertPending` or `CasRetry`, `Readback`, `VerifyAttempt` or
`FailAttempt`, `ConfirmRequest` are `confirm` and `retry`; `RejectOrCancel` and
`IssueReviewRef` are single transactions. `PluginUpdates`, `SourceChanges`, `Tick` and
`Crash` are the environment. A process whose writer is not configured
(`UnavailableReviewTaskOutbox`) is a member of `Unconfigured`.

*Abstractions.* Risk rules and templates decide whether a draft is blocked, so
`DraftReadTask` may block or not. Authorization may refuse any command; a refusal changes
nothing and is a command that did not start. Two reads that can only become stale in the
direction that refuses (the ref and the source row) are done when the command starts. An
exception in a repository call is a `Crash`: neither leaves a trace. The hash links of the
event log and the spelling of `platform` and `channel_source` are left out. The chat path
keeps the task table in SQLite and the CLI path in MySQL; the model has one table and the
failures of both.

*Correctness.* `ExclusiveWriter`, `ConfirmedWasWritten`, `WritesAccountedFor`,
`AuditMatchesStatus`, `SealedRequests`, `AttemptsResolve`, and
`OutboxContract`: the service implements `ReviewReplyOutbox`, the contract of the table with
the plugin (one row per review, only absent, failed or cancelled rows are written, each key
is spent once), under the mapping `row <- task`, `spent <- wrote`. `S13ReviewReplyDocs` has
the statements of the documents that the code does not keep.

### S6PriceConfirm, S6PriceOutbox, S6PriceConfirmDocs

*State.* `rows` is `s6_price_confirmations` in the order of creation; a token is a position
in it. All rows live for ten minutes, so they expire in the order they were created in:
`lapsed` is that frontier. `approvals` and `tasks` are the tables of those names; `wk[w]` is
a process serving a confirmation.

*Actions.* `PreviewOne`, `PreviewBatch`, `RecordRejectedPreview` store what a dry run ended
in. `ConfirmToken` and `ConfirmPlain` are `claim_confirmation` (one `BEGIN IMMEDIATE`
transaction); `StoreApproval`, `ExecutePrice`, `InsertTask`, `FinishConfirmation` are
`_write_s6_confirmation_fast` and the `execute_price` it calls; `RejectBatch`, `CreateChild`,
`ClaimChild`, `FinishBatch` are the loop of `_write_s6_batch_confirmation_fast`.

*Abstractions.* One hotel and one chat. A product is one platform product on one stay date,
and an item is named by the preview that first showed it. The price itself is not modelled:
the confirmed path writes what the row holds. Every local refusal (guard evidence, write
switch, connection, permission of the database) is a nondeterministic one.

*Correctness.* `ClaimsAreExclusive`, `TokensAreSingleUse`, `StatusTellsWritten`,
`BatchInOrder`, `TasksAreAuthorized`, `PreviewsAreSealed`, `ClaimsResolve`, and
`PriceContract`: confirmation implements `S6PriceOutbox`, where the token of a single price
goes from open to held and back, its one task is written while it is held, and it is spent
exactly when it has that task. The mapping is `claim <- ClaimOf` of each row (a batch row, a
rejected row and everything that happens to them are void) and `booked <-` the token and
status of each task.

### NoOrderWatch

*State.* `state` is the file `no_order_watch.json`; `run` is the run under way; `source` is
today's `PAY_ORDER_CNT` row with its snapshot time; `orders`, `unseen`, `days`, `now` are the
hotel and the clock, in ticks of half an hour. `checks` and `alerts` are histories.

*Actions.* `QueryPayOrders`, `SaveState`, `RememberAlert`, `PrintAlert` are the run;
`PayOrder`, `Collect`, `NextDay`, `Tick`, `Crash` the environment. A run outside the active
hours, or one whose query fails, leaves the file as it is, so it is a run that does not
happen. Runs do not overlap: a query is cut off after three minutes.

*Correctness.* `AlertsAreObserved` (an alert rests on checks that saw no growth for the
whole waiting time, and one silence is reported once), `AlertMeansNoOrders` if the silence
began and was reported on one business date, `SilenceIsReported` also over the change of
date: each silence has an alert of its own, since a growing number or a stale check ends
one. A `Crash` loses the run and marks its check as killed: the file is written before the
alert is printed, so a killed run may lose its
alert but does not repeat it. What a kill in one silence loses does not excuse the next.

### ControlPlane, ControlPlaneDocs

*State.* `requests` holds the rows of `config_change_requests`, `chat_binding_requests`,
`role_change_requests` and the formal rows of `approvals`, in the order of creation;
`lapsed` is the set of those past `expires_at`. `role` is `hotel_memberships`, `bound` the
binding of the chat, `policies` is `price_guard_policies`, `queue` is
`role_map_apply_queue`, `audit` is `configuration_audit_events` in the order of `rowid`.
`wk[w]` is a process serving a message, with the role of its actor
(`_control_plane_actor`), the request it will create or has read, and the last event it
will continue from.

*Actions.* `Ask` and `CreateRequest` are the functions that create a request: what they
read to decide, then their one transaction. `Command` starts a confirmation or a
cancellation; `ReadDirect` and `ReadOwner` are
`owner_role_permission_patch._confirm_owner_direct_replacement`, which sees a role change
before the function it wraps; `ReadRow`, `ReadMember` and `ReadPolicy` are the reads of
`confirm_chat_*`, `cancel_chat_*`, `approve_configuration_request` and
`approve_formal_price_approval`. `ConfirmRequest`, `CancelRequest` and `ExpireRequest` are
their transactions, with the policy, membership, binding or queue entry and the event;
`RollBack` is a UNIQUE key that is taken. A refusal that is logged is two steps,
`ReadHead` and `LogRefusal`, because its INSERT is the first statement that writes.

*Abstractions.* One hotel, one group chat, one room type. A request is what it asks for;
payloads are valid and their hashes stand for themselves. A confirmation from another chat,
or with a wrong nonce, hash or role, may be refused at any time. Card approvals and formal
approvals have no caller in the repository (the transport of cards is external), so any
user may call them. `approve_configuration_request` writes `approved` where the others
write `confirmed`: one status here. Not modelled: memberships asked for as chat
configuration requests, which no message creates; the checks against the private role map;
candidates; policies per channel or product; maintenance that applies the queue; reads.

*Correctness.* `EffectsHappenOnce` (every policy and every queued change was confirmed, on
record and once, and versions count them), `LogReplaysState` (memberships and the binding
are those of the last confirmed events), `StatusHasItsEvent`, `ApproversAreOnRecord`,
`ChangesAreChained` (only refusals can break the hash chain).
The conditions on the status do not give these, since two confirmations may both have read
a pending request: the UNIQUE keys and the write lock do.

### FeishuIngress

*State.* `binding` is the active hotel of a chat (`chat_bindings`, `group_chat_bindings`),
`rank` the active role of a person in a hotel (`hotel_memberships`), `seen` the plugin's
memory for duplicates, `tasks` is `ota_promotion_control_task`. A member of `Deliveries` is
one delivery of a message: `gw` is where its handler stands, `job` where its child process
stands, `verdict` what the child printed, `reply` what the chat was told. `after`, `bound`
and `held` are histories, as is `settled`.

*Actions.* `Receive`, `StartRoute`, `Answer`, `RouteFails` are the handler in
`auth_ingress.mjs` and `index.mjs`: duplicate or not, a sender or not, `memberInfo`, then
`execFile` with its limit of 90 seconds. `CheckScope`, `ReadBinding`, `ReadRank`,
`ReadSource`, `InsertTask` are the child: `safe_route_feishu_command`,
`_sqlite_auth_context` and `permission_gate`, `resolve_unique_launch`,
`_write_pending_task`. `Expire` and `Restart` empty the memory. `Bind`, `SetRank` and
`Bootstrap` are what `ControlPlane` and `auth-bootstrap-sync` do to the two tables: the
second sets every entry of the role map file active again, revoked ones too, and leaves
the others as they are.

*Abstractions.* A child that the gateway has given up is dead or runs to its end
(`Restart`), never half a statement. `Ranks` folds `frontdesk` into "operator": S11 does
not tell them apart. While SQLite is unavailable only reads fall back to the JSON role map,
so a message that writes is refused: one of the refusals that may happen at any time.
Promotions of a hotel are those of one snapshot. A direct chat is not compared with the
hotel of the bot, as in the code. Whether the renderer withholds a reply
(`send_allowed`) depends on its text and is a nondeterministic choice in `Answer`. Rows that only record what happened (audit log, chat
registry, route log) are left out.

*Correctness.* `RepeatsAreExplained`: the table has no key, so a message makes a second task
only if the memory of the gateway could not know of the first. `TasksAreAuthorized`: the
task is for a hotel the chat was bound to and in which the sender was owner while the
message was served. `RepliesAreTrue`: "created" has its task, and "see the previous reply"
is said only if another delivery was routed and answered. That answer may be the one for
failures, if its reply was withheld. And `MessagesAreAnswered` under fairness.

### BindingSync

*State.* `map` is the account map of the role map file, `tables` the two tables of chat
bindings, `records` the conversation bindings of the gateway, `sync` a run of
`runBindingSync` with the rows it read.

*Actions.* `Start`, `ReadRows`, `Look`, `Create`, `Fail`, `End`, `Kill` are the sync;
`MapAccount`, `BindGroup`, `BindDirect`, `Revoke`, `Detach` the world. Records are taken in
any order, one call of the host after another. The paths that name the role map and the
database are right: without them the sync does nothing.

*Correctness.* `RecordsFollowBindings`: a sync that ends has bound every account to each
chat that was its hotel's all the while, whatever failed in between, and no conversation
goes to an account of a hotel to which account and chat have not both belonged. Old records
stay when a binding is revoked; the scope check of `FeishuIngress` is what refuses then.

### CommandMenu

*State.* `menus` is `command_menus`; `lapsed` and `old` are frontiers, the menus past
`expires_at` and those of an older contract; `replies` are the processes of messages.

*Actions.* `Start` is `command_menu_start` (one transaction), `Answer`, `Cancel`, `Refuse`
the reads of `command_menu_reply` and `command_menu_cancel`, `UpdateMenu` their update by
id, `RouteSelected` the command, `Die` a kill.

*Correctness.* `MenusRunOnce`: a command comes from the last menu its member had opened, and
of two replies both run only if both read the menu before either updated it.

### S14Diagnosis

*State.* One person in one chat: `flow` is the state file, `excel` the last file of the
chat, `seen` the memory of `CardCallbackController`, `jobs` the clicks and messages.

*Actions.* `Accept` and `StartJob` are the callback server (look and remember under one
lock, two threads); `Choice`, `Upload`, `Save`, `Reuse`, `Names`, `WriteNames`, `Trigger`
are `main` of the entry script; `Choose`, `Run`, `ClearFlow`, `FailRun`, `Send` what both
do. `Restart`, `ForgetClick` and `LapseFlow` are the failures and times-to-live. A write of
the state file is one step; a report may fail for any reason. A message that asks for the
template, and a file with a wrong suffix, change no state and are left out.

*Correctness.* `ClicksRunOnce` and `UploadsAreTaken`.

### Experience

*State.* `rows` is the status of each candidate in the table, `wk` a command with what it
read, `log` a history of the writes.

*Actions.* `ReadFile` and `ReadTable` (the table hides the file as soon as it has a row),
`Review`, `Promote`, `End`. A row has no column for the data source or the source run, so a
command that reads it does not see them: `Valid`, `HasValue` and `Promotable` ask only what
the code can ask.

*Correctness.* `PromotionsAreApproved`: a promotion rests on the newest decision its command
could read, and that was an approval.

### SalesProgress

*State.* `cache` is the row of `baselines` for one hotel and date, `calendar`, `scoped` and
`batches` are what packages and reports are made from, `queries` the processes. `answer` is
what the last step answered.

*Actions.* The functions as they are after all patches are installed:
`s15_s16_responsibility_patch` gives the lookup and the prewarming,
`s15_s16_final_convergence_patch` and `s15_s16_current_batch_patch` the package and the
scope of rooms, `s15_s16_stale_batch_patch` the choice of the batch,
`s15_s16_prearrival_fact_patch` the last check. `Found` and `NotFound` look at the cache;
`ReadCalendar`, `Build`, `FailBuild`, `Persist`, `FailPersist` build a package and cache it;
`Latest`, `Forecast`, `NoForecast`, `Check` are S16. `NewBatch` and `CollectRoom` are the
collector, which is external.

*Abstractions.* What the curves and the diagnosis compute from the rows is left out; a
package is the calendar it was built from and whether it knows the rooms. A tick is longer
than a query may run (90 seconds), so no query sees two. A query may name the time it asks
for (`--as-of-time`), which for S15 also means that it does not look at the cache; the
model has times that have passed. One to come reads the same history as the present.

*Correctness.* `ChangesReachAnswers` (an answer misses a change by no more than the lifetime
of the cache and one query, except rooms that were not known at the time that the query
which built its package had named), `ReportsAreWhole`, `GoodPackagesAreKept`.

### BusinessCalendar

*State.* For each date of a year, `tag` is the season tag set by hand, `source` the holiday
provider in its row, `cache` the provider in `holiday_calendar_cache`; `wk` are the
processes. `last` and `disturbed` are histories.

*Actions.* `ReadTags`, `SeedYear`, `RestoreTags` are
`sync_calendar_year_preserving_manual_tags`, which wraps the rebuild that every question,
tag and import begins with; `WriteTag` is the update of `set_calendar_season_tag` and
`reset_calendar_season_tag`; `Fetch` and `OverlayHolidays` are
`sync_holiday_provider_cache`; `Die` is a kill.

*Correctness.* `DaysAreExplained`: a manual tag stands unless another process was rebuilding
the year, died while it did, or imported the date; a day that names a provider is in the
cache.

## 4. Runs

Every passing run terminates without a bound on the search; the bounds are in the guards
that name them. `MCGateway` and `MCServices` take the constants of their components as their own
and leave their values to the configuration, so that the theorems are about the specifications
that the runs check. Deadlock checking is off everywhere because the systems may stop: nobody
has to send a message, and the bounded clock runs out.

| Run | Instance | Shows |
|---|---|---|
| `s13_core` | 1 review, 2 requests with 2 texts, 2 processes, no crash | the interleavings of two drafts and two confirmations |
| `s13_one` | 1 request, 2 processes of which one has no writer, writer failures, crashes, a clock tick, one source change | every failure path, under `OutboxContract` |
| `s6_batch` | batches of 2 items or single prices, 4 rows, 2 processes, 1 expiry, crashes | batches that fail, are repeated, and are picked apart by plain confirmations; `PriceContract` |
| `control` | a bound chat with a price guard; an administrator, 2 owners, a newcomer, 2 role changes asked for by one owner and the newcomer; 2 requests of all 8 kinds, 4 events, 1 lapse, 2 processes, crashes | every pair of requests and of commands on them |
| `live` | S13 with 1 request and a writer that fails; S6 with batches of 2 items; the gateway with 2 deliveries of a message, a change, a restart; no crash of a process | `AttemptsResolve`, `ClaimsResolve`, `MessagesAreAnswered` |
| `gateway` | gateway: 3 messages, 2 deliveries, 2 chats, 2 hotels, 2 people; sync: 2 accounts, 1 chat, 4 changes; menu: 2 people, 2 menus, 3 replies; diagnosis: 1 button, 3 messages or clicks, 1 restart or lapse; calendar: 1 date, 2 tags, 1 provider, 2 processes | what a chat talks to |
| `services` | watch: limit 1 tick, 5 ticks, 1 order, 5 collections, one change of date, crashes; experience: a demonstration candidate, 2 processes, 4 writes; sales: 2 rooms, 2 queries of which 1 is S16, a hotel that history and collector know or neither does, a clock that passes midnight, S15 for time 0 and S16 for time 1, 1 change; prices: 2 operators, 1 owner, 2 single previews, 1 expiry, both results of the plugin, crashes | the services that answer to nobody else |

`live`, `gateway` and `services` check several components in one run. Those components share
no state there: `focus` is chosen at the start, only the component in focus moves and the
others keep their initial state, so the reachable states are the union of what each
component reaches by itself and nothing is hidden by the combination. Where components *do*
meet, the modules themselves hold both sides: S13 and S6 with their task tables, the gateway
with bindings and roles that the control plane changes, the sales baseline with the
calendar.

Why the bounds are enough. *S13*: keys are per review, so reviews do not interact and one
is enough; two requests are what a second draft, an invalidation and a second key need;
two processes are what a race needs; one failed write per key is all a key allows. Crashes
with two requests, and drafts that are copy-only, are beyond these instances; the theorems
of section 6 cover them. So an answer that reports a write is met in `s13_one`, as are
failing writers and crashes, and two writers on one key in `s13_core`. *S6*: a batch interacts with others only through its child rows and
through plain confirmations, so one batch of two items with two child rows, or two attempts
at its first item, has every pair. *Watch*: with a limit of one tick, five ticks hold a
silence, its alert, the order or the stale check that ends it, and a second silence that
needs an alert of its own. *Control*: requests meet only in what
they change and in the chain, so two of them and two processes have every pair; four events
are two requests and two commands, or one request and three. *Gateway*: a task of another
message cannot disturb one, so two deliveries, of one message or of two, have every race;
one change falls into any gap between two reads. *Sync*: four changes set up two accounts of
two hotels and take one away again during the sync. *Menu*: two menus of one member or of
two, and a reply more than a race needs. *Diagnosis*: three messages are a choice, an upload
and one that interferes. *Calendar*: dates are independent and a rebuild treats all alike,
so one date is enough, and the theorems of section 6 are for any number. *Experience*:
candidates meet only in `TableIsUsed`; four writes are two reviews and two promotions.
*Sales*: a package that is built by one query and replaced by another needs two, and with
a lifetime of one tick, three ticks let it expire and midnight pass. A package for time 0
misses the rooms learned later, and a report for time 1 is on the date. The hotel is new or
known at the start; the theorem is for any. Symmetry is declared
over values that no definition tells apart, and not in the runs that check liveness.

The remaining runs each refute one statement of a document or a comment, quoted in
`PROJECT.json`:

| Run | The code |
|---|---|
| `s13_doc_redelivery` | after a crash between write and bookkeeping, the same confirmation is told that another task is active |
| `s6_doc_duplicate` | two confirmations write two pending tasks of one product |
| `s6_doc_batch` | a batch token works again although its item is written |
| `watch_doc_reset` | a check that reads unchanged data resets the silence |
| `calendar_doc` | a tag that was set by hand and confirmed is gone after a rebuild that overlapped with it |

Further divergences were met while modelling and have no run of their own. Those that
begin with a name are stated as definitions of the `Docs` modules and are false of the
models:

* `OldDraftsAreLogged`: a draft is invalidated without an event, because the ids are read
  before the transaction begins (`runtime/s13/repository.py:177`).
* `OnePendingPerRef`: two overlapping drafts of a ref both wait for a confirmation
  (`runtime/s13/service.py:247`).
* `WrittenOnlyWhileStanding`: a request that is cancelled while it is being confirmed is
  written all the same (`runtime/s13/service.py:441`).
* `NewRequestMayRetry`: a new request may not retry what an earlier one left failed, because
  the key names neither the request nor its ref (`runtime/s13/service.py:59-72`).
* `ItemsAreWrittenOnce`: one previewed item of a batch becomes two tasks
  (`runtime/feishu_command_router.py:2888`).
* `PlainFollowsLatest`: a plain confirmation takes an older preview than the rejected one
  just shown (`runtime/s6_confirmation.py:118`).
* `CancelledNeverApplies`: a cancellation that was read before the confirmation is written
  after it, and an applied change is called cancelled (`runtime/control_plane.py:799`).
* `AuditChainVerifies`: two refusals, or a refusal and a change, continue from one event,
  and `verify_audit_chain` fails from then on (`runtime/control_plane.py:157`).
* `ConfirmedStays`: a request that is confirmed again after its time is marked expired
  (`runtime/control_plane.py:743`).
* `ApprovedOnActivePolicy`: a formal approval is given on a policy version that another
  confirmation has just replaced (`runtime/control_plane.py:1573`).
* `DemoIsNotPromoted` (in `Experience`): a candidate of demonstration data can be promoted
  once its row, which does not keep the data source, hides the file
  (`tests/experience/test_experience_safety.py:12-18`).
* `JudgedReportsAreOfTheDay` (in `SalesProgress`): while the first batch of the date is being
  collected, the report judges on the last batch of the day before
  (`runtime/s15_s16_prearrival_fact_patch.py:93`; `tests/test_s15_s16_prearrival_fact.py:68,81`).
* A package that was built for a past time goes into the same row with a fresh date of
  creation, and ordinary queries are answered from it for the whole lifetime of the cache,
  without the rooms learned since (`runtime/decisions/baseline.py:291`); the lookup does not
  compare its `as_of` (`runtime/s15_s16_responsibility_patch.py:317-361`).
* A duplicate is told to look at the previous reply, which may be the answer for failures,
  even when a task was made: a reply that the renderer withholds is remembered like any other
  (`ops/openclaw-plugins/hotel-ota-feishu-auth/lib/auth_ingress.mjs:377-381`).
* A contract lists changes that invalidate a cached baseline
  (`contracts/v27/s15-s16-responsibility-contract.yaml:15-20`); the code only asks for its age.
* Setting, resetting or asking for a season tag "does not rewrite the other fields of the
  calendar" (`TOOLS.md:179`); the rebuild that precedes it undoes holidays imported from a
  provider.
* Dianping replies are written although a document says only Meituan replies are
  (`runtime/s13/contracts.py:11`; a test expects the code's behaviour).
* An operator may confirm a preview of their own (`runtime/safety/approvals.py:99`).
* The first orders after midnight may count as silence, because the total of the new date is
  compared with that of the old (`scripts/no_order_watch.py:120`).

Each property of a passing run has a mutant: a change of one definition, of the kind a
plausible bug would be, under which the run finds the property violated. The mutated forms
stand beside the definitions they replace.

## 5. Fairness

`FairSpec` of S13 and of S6 has weak fairness of each process's own steps and nothing else.
A process is a Python interpreter that runs straight through its calls: once started, it
reaches its next transaction. Nothing makes a user send a message, the plugin answer, or the
clock move, and a process that dies has no further steps, so the liveness run excludes
crashes. With crashes the properties do not hold and are not claimed: a key stays `started`
and a token stays `processing` until someone repairs the row.

The gateway is fair in two places: the host answers `memberInfo` (`StartRoute`), and a child
that has exited is read or the timer of `execFile` goes off (`Answer` or `RouteFails`). The
child itself may hang: no step of it is fair, and `MessagesAreAnswered` holds because of the
timer. `LiveSpec` of `MCLiveness` states the same for the component in focus. No other
module promises that anything happens.

## 6. Proofs

`S13ReviewReplyProofs` proves, for every set of reviews, refs, requests, texts and processes
and for every value of the bounds:

| Theorem | States |
|---|---|
| `TypeCorrect` | `Spec => []TypeOK` |
| `ProcessesRely` | `Spec => []ProcessInv` |
| `WritersAreExclusive` | `Spec => []ExclusiveWriter` |
| `WritesAreAccountedFor` | `Spec => []WritesAccountedFor` |
| `ConfirmedIsWritten` | `Spec => []ConfirmedWasWritten` |
| `RequestsStaySealed` | `Spec => SealedRequests` |
| `AuditIsFaithful` | `Spec => []AuditMatchesStatus` |
| `ImplementsOutbox` | `Spec => OutboxContract` |

The assumptions are those of the module: the bounds are natural numbers and `None` is not a
value of the sets it is added to.

*The argument.* The properties are not inductive one by one: that a confirmed request was
written follows from what the confirming process knew before its last transaction, which
follows from its readback, which follows from its write under a key it alone held. The
inductive invariant is `SafetyInv`: the type invariant, `ExclusiveWriter`,
`WritesAccountedFor`, `ConfirmedWasWritten` and `ProcessInv`, which says for every program
counter what the process may rely on until its next transaction (its key is in the attempt
log, the key is not spent before the write, the reply is written before anything says so, a
retry replaces only a row it saw failed or cancelled). The proof is in the style of
rely and guarantee: `Stable` lists what no step of anybody takes away (a request keeps its
contents, a written key stays written, an attempt stays in the log), `OthersRely` shows that
a process at rest keeps its reliance over such a step, and `MoverRelies` with one lemma per
command shows it for the process that moves. `AuditIsFaithful` needs `DraftsRemember` in
addition: the ids a draft will log were pending requests of its own ref. `ImplementsOutbox`
maps `InsertPending` and `CasRetry` to `Write`, `PluginUpdates` to `Observe`, and every other
step to a stutter.

`S6PriceConfirmProofs` proves, for every set of users, owners, products and processes, every
set of batches of any length, and every value of the bounds:

| Theorem | States |
|---|---|
| `TypeCorrect` | `Spec => []TypeOK` |
| `ProcessesRely` | `Spec => []ProcessInv` |
| `ClaimsStayExclusive` | `Spec => []ClaimsAreExclusive` |
| `TokensWriteOnce` | `Spec => []TokensAreSingleUse` |
| `StatusIsTrue` | `Spec => []StatusTellsWritten` |
| `BatchesInOrder` | `Spec => []BatchInOrder` |
| `EveryTaskIsAuthorized` | `Spec => []TasksAreAuthorized` |
| `PreviewsStaySealed` | `Spec => PreviewsAreSealed` |
| `ImplementsPriceOutbox` | `Spec => PriceContract` |

The assumptions are those of the module: owners are users, `None` is not, batches are
nonempty sequences of products.

*The argument.* The inductive invariant, also called `SafetyInv`, is `TypeOK`,
`ClaimsAreExclusive`, `TokensAreSingleUse`, `StatusTellsWritten`, `TasksAreAuthorized`,
`ProcessInv` and two facts about the tables that the proofs add: `RowsInv` (a batch names
its items in order, and a row of one item exists only once the item before it in its batch
is written) and `TasksInv` (a task comes from a claimed or completed row, and the items of
its batch before it are written, which is `BatchInOrder`). Because `finish_confirmation`
asks for no status, exclusivity needs the reliance of the processes (a process works only
on a row it found pending and made processing), and `StatusTellsWritten` needs both.
`Grows` lists what no step takes away: rows keep everything but their status, tasks and
approvals stay. `StatusChanges` says who may change the status of which row and
`TaskChanges` who may write which task; from the three, `StillRelies` shows that a process
at rest keeps its reliance, and `MoverRelies`, with `MovesOn` and `Advances` for the end
of an item, that the process which moves gains its next one. `HeldGains` shows that a
process comes to hold only a row that was pending, hence held by nobody.
`ImplementsPriceOutbox` maps a preview and a child row to `Offer`, the claim of a single
row to `Take`, `InsertTask` to `WriteTask`, `FinishConfirmation` to `Settle`,
`PluginReport` to `Observe`, and every step on a batch row or on none to a stutter.

`NoOrderWatchProofs` proves, for every waiting time, every number of orders, collections and
business dates, with and without killed runs:

| Theorem | States |
|---|---|
| `TypeCorrect` | `Spec => []TypeOK` |
| `AlertsObserved` | `Spec => []AlertsAreObserved` |
| `AlertIsSilence` | `Spec => []AlertMeansNoOrders` |
| `SilenceReported` | `Spec => []SilenceIsReported` |

*The argument.* The properties speak of the whole history of checks, the script only sees
what its state file remembers; the invariant ties the two. `OrderInv` orders the checks in
time. `SourceInv` says that the rows the checks read are successive states of one source, so
that equal totals of one date mean that no order came between them. `StateInv` says what the
state file remembers: the last check, and a silence which began at a check, was ended by
none since (`SilentFrom`), and began no later than any stretch of fresh checks up to now. `AlertInv` is what is
known of each alert when it is printed and stays true of it; `OnceInv` is why a silence is
told once (`alerted` is saved before the alert is printed); `DueInv` and `ReportInv` say that
a long enough silence is noted as told unless a run was killed in it, first for the last check
and then for all earlier ones.

`ControlPlaneProofs` proves, for any users, roles at the start, kinds of request, role
changes and processes, with and without crashes:

| Theorem | States |
|---|---|
| `TypeCorrect` | `Spec => []TypeOK` |
| `EffectsOnce` | `Spec => []EffectsHappenOnce` |
| `LogReplays` | `Spec => []LogReplaysState` |
| `StatusOnRecord` | `Spec => []StatusHasItsEvent` |
| `ApproversOnRecord` | `Spec => []ApproversAreOnRecord` |
| `Chained` | `Spec => []ChangesAreChained` |

The assumptions are those of the module: administrators are users, `None` is not, and roles
are changed of users who are no administrators.

*The argument.* The inductive invariant is `TypeOK`, `HeldInv` and `DataInv`. `HeldInv` is all
that a process may rely on between its transactions, and it is little, since what it read may
be stale: it serves a request that exists, only a request of the chat is cancelled or expires,
and the last event it read is not beyond the log. `DataInv` relates the tables to the log. It
has the properties themselves and `LogInv` (events and policies name requests, a policy has
the version of its position and a request of its own), `OnceInv` (an effect has its
confirmation; of the kinds whose effect has a UNIQUE key, a confirmation has its effect and is
the only one) and `StatusInv`. The proof has two cases instead of one for every action. A step
without a confirmation is `Unconfirmed`: it may add a request, end one of the chat, or append
an event that confirms nothing (`RestIsUnconfirmed` shows it of every such action). A
confirmation `Confirms` appends event `n` as the last one, so that it becomes the latest of
every set of events it belongs to. The log properties speak of the latest or the first event
of a set; that a nonempty set of event numbers has both is `EndsInv`, an invariant that grows
with the log, because it could otherwise only be shown by induction over the log's length.

`FeishuIngressProofs` proves, for any hotels, chats, people, messages and promotions, and for
any number of deliveries, changes of bindings and ranks, and restarts:

| Theorem | States |
|---|---|
| `TypeCorrect` | `Spec => []TypeOK` |
| `RepeatsExplained` | `Spec => []RepeatsAreExplained` |
| `TasksAuthorized` | `Spec => []TasksAreAuthorized` |
| `RepliesTrue` | `Spec => []RepliesAreTrue` |

The assumptions are those of the module: `None` is no hotel, no person and no answer,
administrators are people, and the first bindings and ranks and the messages are well typed.

*The argument.* A delivery reads its binding, its role and its rank in separate statements, so
at no moment need all of them hold. `DelInv` says what a delivery may still count on at each
step: while it looks, the binding and the ranks of the moment are among those it has
witnessed; past the scope check the bot's hotel is, past the check of the rank the hotel was
led by the sender, and before the insert the promotion is listed there. `TasksAreAuthorized`
is then what is known at the insert, and it stays true because what was witnessed is never
taken away (`Keeps`). `TaskInv` says that a delivery with a task has no child under way, so a
delivery inserts once. `MemoryInv` ties the memory of the gateway to the answers: what the
runtime answered is remembered unless it was forgotten, and what is remembered was answered.
It is why a delivery never starts a child for a message that was settled and not forgotten,
which is `RepeatsAreExplained`, and why "see the previous reply" has an answer to a routed
delivery to point to. The proof has
one lemma per action for the delivery that moves, and `OthersStay` for all the others.

`S14DiagnosisProofs` proves, for any buttons, jobs and number of restarts and lapses:

| Theorem | States |
|---|---|
| `SafetyHolds` | `Spec => []SafetyInv` |
| `TypeCorrect` | `Spec => []TypeOK` |
| `RunOnce` | `Spec => []ClicksRunOnce` |
| `UploadsTaken` | `Spec => []UploadsAreTaken` |

The assumption is that a button names one of the two sources (and, for the types, that the bound
on restarts and lapses is a natural number).

*The argument.* `JobsInv` says how far a job of each kind can have come and what an answer of
it means; `OrderInv` that jobs are taken up in the order of their arrival. `MemoryInv` is
why a click runs once: the server remembers exactly the buttons of the clicks that it took and
has not forgotten, so a click that finds its button has an earlier one to point to. `WaitInv`
is why an upload is taken: as long as nothing excuses a refusal, the state file waits for a
file, and whatever is under way either was so before Excel was chosen or does not write the
file any more. Each step of a job is then `Careful` (it leaves the state file alone, or what it
does is an excuse), and one lemma, `AdvanceStep`, shows the invariant for all careful steps.

`GatewayProofs` and `ServicesProofs` prove the properties of the runs `gateway` and `services`
of the specification that the runs check, `AllSpec` of `MCGateway` and of `MCServices`, for all
values of their constants. The components are instances there, and the lemmas about them are
stated of the instance: `Sync!RecordsFollowBindings` with the constants and variables that
`MCGateway` gives to `BindingSync`, which are constants and variables without further
assumptions, so nothing of the component's generality is lost.

| Theorem of `GatewayProofs` | States | Rests on |
|---|---|---|
| `GatewayTypes` | `AllSpec => []TypesOK` | the five type theorems |
| `GatewayMessages` | `AllSpec => []RepeatsAreExplained`, `[]TasksAreAuthorized`, `[]RepliesAreTrue` | `FeishuIngressProofs` |
| `GatewayBindings` | `AllSpec => []RecordsFollowBindings` | `SyncRecordsFollow` |
| `GatewayMenus` | `AllSpec => []MenusRunOnce` | `MenuRunOnce` |
| `GatewayClicks`, `GatewayUploads` | `AllSpec => []ClicksRunOnce`, `[]UploadsAreTaken` | `S14DiagnosisProofs` |
| `GatewayDays` | `AllSpec => []DaysAreExplained` | `CalExplainedAlways` |

| Theorem of `ServicesProofs` | States | Rests on |
|---|---|---|
| `ServicesTypes` | `AllSpec => []TypesOK` | the four type theorems |
| `ServicesWatch` | `AllSpec => []AlertsAreObserved`, `[]AlertMeansNoOrders`, `[]SilenceIsReported` | `NoOrderWatchProofs` |
| `ServicesPromotions` | `AllSpec => []PromotionsAreApproved` | `LorePromotionsApproved` |
| `ServicesChanges`, `ServicesReports` | `AllSpec => []ChangesReachAnswers`, `[]ReportsAreWhole` | `SalesChangesReach`, `SalesWholeReports` |
| `ServicesPackages` | `AllSpec => GoodPackagesAreKept` | `SalesPackagesKept` |
| `ServicesTasks` | `AllSpec => []TasksAreAuthorized` | `S6PriceConfirmProofs` |

The step from a component to the whole is `AllIsSync`, `AllIsLore` and so on: a behaviour of
`AllSpec` is one of each component, because a step of another one leaves it as it is. The
assumptions are `ServicesAssumption` of each module (bounds are natural numbers, `"other"`,
which marks the record of another plugin, is no hotel, a button names a source, the hotel has
rooms, there is a candidate) with `PackageAssumption` (`None` is no package) and those of the
modules they extend.

*Binding sync.* `SyncPastInv` says that whatever a map, a table, a plan or a record names did
belong together at some time: rows are read at one moment, records are written at a later
one, and only the past makes the two comparable. `SyncHeldInv` follows what was of a hotel all
the while through the sync: once the rows were read it is still to do, being done, or has
its record, unless the record was lost to a failed command; when the sync is done there is
nothing left to do.

*Command menu.* `MenuOpenIsLast` says that the open menu of a member is the last one the member
opened, because opening one closes those before it in one transaction. A reply that read its
menu therefore read the last one (`MenuReplyOK`), and menus opened later do not change what it
knew then. A menu that was closed stays closed (`MenuMenusGo`), so a reply that reads after
another's update does not find the menu; those that read before it all run, which is what the
property allows and no more. `MenuBoundInv` adds the bounds that the types state.

*Calendar.* Between `SeedYear` and `RestoreTags` a tag is gone from its row, so the property
cannot be inductive. `CalKeptInv` finds the tag then: every rebuild of an undisturbed date holds
the tag its last command gave, and the row has it too or such a rebuild is about to restore it.
`CalCachedInv` is the half about holidays.

*Experience candidates.* `LoreRowsInv` says that a row has what the newest write of its candidate
says, `LoreReadInv` that a command which read the row knows the newest write there was, and
one that read the file found no decision. A promotion is written by a command that read an
approval, so the newest write it saw is one (`LorePromotedInv`); that the log only grows keeps
it so (`LoreAppendKeeps`).

*Sales packages.* What an answer may miss depends on when the calendar was read, when the
package was stored and when it was looked up, in up to two processes. `SalesKnows(pack, t)` says
that no change older than `t` is missing from a package, except rooms that were not known
at a time its query had named. `SalesPackOf` carries it through a
query: a package that is being built knows all changes up to the start of the query, because
the time it asks for is no earlier unless it was named (`SalesTimesOf`); `SalesCacheInv` says that a stored one
knows those before the last tick before it was stored; a package taken from the cache is no older than
its lifetime. Every query sees at most one tick (also `SalesTimesOf`), so the sum is the bound
that `ChangesReachAnswers` states. `SalesWholeOf` follows the batch: the one chosen is no older
than the newest whole batch the query could see, and batches are ordered by their time
(`SalesWorldInv`). `SalesBlindOf` is why a failure does not replace a good package: while a
baseline query builds its own there is none in the cache, unless the query is marked as one that
did not see the package. The steps of one
query use `SalesGoOnKeeps` and `SalesReplyKeeps`, those of the world `SalesWorldKeeps`. TLC
found no reachable state that violates the invariant on a small instance of `SalesProgress` before
it was proved. Two lemmas about numbers stand beside it: `LeastNat` and `MaxIndex`, that a bounded
set of integers has its `Max`.

Only model-checked are `AttemptsResolve`, `ClaimsResolve` and `MessagesAreAnswered`: liveness
under fairness is out of the prover's reach. Every other property of every passing run is the
statement of a theorem. No operator of the modules is recursive, so nothing was left to TLC for
that reason.

`PreviewsAreSealed` and the two `ProcessInv` are proved and have no run of their own: the
proofs say more than an instance would. `MCServices` and `MCGateway` instantiate `S6PriceConfirm`
and `S14Diagnosis` through the modules of their proofs, so that the theorems there can be cited
of the instance.

## 7. Not modelled

The modules cover the code that changes state. Most of the repository does not: of its
lines, the larger part are generated or versioned report code
(`_versioned_runtime.py` alone has twenty thousand), read-only queries, rules over their
results and rendering. Lines are mapped only where a definition translates them, so the
mapped share stays small.

* The analyses and everything that only reads (S1 to S5, S7 to S10, S12, S17, the advisories
  of S15 and S16, the curves behind the sales baseline). They have no state of their own; a
  wrong number there is a matter for tests against data.
* Rendering, routing of text to intents, contracts, registries, demo data and generated
  code.
* `capability_results` and the S14 runs: rows are inserted once per version and read as they
  are, and only exports and fixtures write them.
* The browser plugins, the crawlers, the holiday providers and the gateway's host, which are
  not in the repository. They appear as environment actions taken from how this code uses
  their tables and answers.
* Parts of modelled components, each named in section 3 and in `PROJECT.json`: the
  validation of payloads and of the private role map, candidates, policies per channel and
  maintenance (control plane); identity aliases and the choice of a hotel by name in a
  direct message (authorization); the product expansion of the price outbox; the
  candidates that `event_discover` appends (calendar), which nothing reads back.
