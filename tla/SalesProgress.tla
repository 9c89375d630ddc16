---------------------------- MODULE SalesProgress ----------------------------
(***************************************************************************)
(* The sales baseline (S15) and the progress report (S16) of one hotel and *)
(* one date, as they are once all patches of runtime/ are installed.  A    *)
(* query is a process.  S15 answers from the package cached in the table   *)
(* baselines, or builds one and caches it.  S16 caches one if there is     *)
(* none, takes it from the cache again, and compares it with the forecast  *)
(* that a collector inserts room by room.  The calendar and the rooms that *)
(* the history knows change while packages are built, cached and used.     *)
(* A tick is longer than the 90 seconds that a query may run.              *)
(***************************************************************************)
EXTENDS Integers, Sequences, FiniteSetsExt

CONSTANTS
    Rooms,        \* the number of room types of the hotel
    TTL,          \* CACHE_TTL_SECONDS in ticks
    Midnight,     \* the tick at which the date begins
    MaxTime,      \* bound: the clock stops here, before the date ends
    AsOfs,        \* bound: the times that a query of each kind may name (--as-of-time)
    MaxQueries,   \* bound: queries,
    MaxReports,   \* bound: and those of them that ask for S16
    MaxChanges,   \* bound: changes of the calendar, of the history, and batches
    None          \* no package, no time, no answer

VARIABLES
    clock,
    calendar,   \* the times at which the calendar was changed
    scoped,     \* when the history showed the rooms of the hotel, or None
    batches,    \* pms_room_type_forecast for the date: snapshot time and how many rooms
    cache,      \* the row of table baselines
    queries,
    answer,     \* the answer that the last step gave
    changes     \* changes of the world so far

vars == <<clock, calendar, scoped, batches, cache, queries, answer, changes>>
world == <<clock, calendar, scoped, batches, changes>>

Time == 0..MaxTime
Queries == 1..MaxQueries

(* A baseline package: the calendar it was built from, whether it knows    *)
(* the rooms of the hotel, and the time that its query had named, if any.  *)
Package == [calendar: 0..MaxChanges \cup {None}, scope: BOOLEAN, given: Time \cup {None}]
Row == [ok: BOOLEAN, pack: Package \cup {None}, created: Time]

Query == [pc: {"new", "calendar", "build", "persist", "latest", "calendar2", "build2",
               "forecast", "check", "done"},
          kind: {"s15", "s16"}, began: Time,
          given: Time \cup {None}, asof: Nat,       \* as_of_time, and what it comes to
          calendar: 0..MaxChanges \cup {None},       \* what load_calendar_contexts gave
          pack: Package \cup {None},                 \* the package it built or found
          blind: BOOLEAN,                            \* history: it has not seen the cache
          whole: Time \cup {-1},                     \* history: newest whole batch at asof
          snap: Time \cup {-1}, rooms: 0..Rooms]     \* the batch it selected
Replies == {"baseline", "gap", "not_applicable", "ok", "partial", "unjudged"}

Fresh == [pc |-> "new", kind |-> "s15", began |-> 0, given |-> None, asof |-> 0,
          calendar |-> None, pack |-> None, blind |-> FALSE, whole |-> -1, snap |-> -1, rooms |-> 0]

Running(q) == queries[q].pc \notin {"new", "done"}
Finished(p) == [Fresh EXCEPT !.pc = "done", !.kind = p.kind]

(* What an answer shows of its query, a gap nothing.                       *)
Answer == [began: Time, pack: Package \cup {None}, whole: Time \cup {-1},
           snap: Time \cup {-1}, rooms: 0..Rooms]
Shown(p) == [began |-> p.began, pack |-> p.pack, whole |-> p.whole, snap |-> p.snap,
             rooms |-> p.rooms]

(* The query goes on as p, or ends with the answer to p.                   *)
GoOn(q, p) == queries' = [queries EXCEPT ![q] = p] /\ answer' = None
Reply(q, p, text) ==
    /\ queries' = [queries EXCEPT ![q] = Finished(p)]
    /\ answer' = [reply |-> text, of |-> Shown(p)]

(***************************************************************************)
(* The cache                                                               *)
(***************************************************************************)
(* _cached_baseline, _valid_cached: any row that is good and young enough, *)
(* whatever happened to what it was built from.                            *)
HitAtAnyAge == cache # None /\ cache.ok
NeverHit == FALSE
Hit == cache # None /\ cache.ok /\ clock - cache.created <= TTL

(* A query may name a time that has passed; S16 does so in Latest.         *)
Named(kind) == {t \in AsOfs[kind] : t < clock} \cup {None}
AsOf(given) == IF given = None THEN clock ELSE given

Asked(kind, given) ==
    [Fresh EXCEPT !.kind = kind, !.began = clock, !.given = given, !.asof = AsOf(given)]
Turn(q, kind) ==
    /\ queries[q].pc = "new" /\ \A p \in 1..(q-1) : queries[p].pc # "new"
    /\ kind = "s16" => Cardinality({p \in Queries : queries[p].kind = "s16"}) < MaxReports

Found(q, kind) ==
    /\ Turn(q, kind) /\ Hit
    /\ IF kind = "s15" THEN Reply(q, [Asked(kind, None) EXCEPT !.pack = cache.pack], "baseline")
       ELSE GoOn(q, [Asked(kind, None) EXCEPT !.pc = "latest"])
    /\ UNCHANGED <<world, cache>>

(* An error while reading counts as a miss, and S15 does not look when it  *)
(* is given a time or told to rebuild.                                     *)
NotFound(q, kind) ==
    /\ Turn(q, kind)
    /\ \E given \in IF kind = "s15" THEN Named("s15") ELSE {None} :
          GoOn(q, [Asked(kind, given) EXCEPT !.pc = "calendar", !.blind = Hit /\ kind = "s15"])
    /\ UNCHANGED <<world, cache>>

(* load_calendar_contexts, which returns nothing if it fails.              *)
ReadCalendar(q) ==
    /\ queries[q].pc \in {"calendar", "calendar2"}
    /\ \E c \in {Len(calendar), None} :
          GoOn(q, [queries[q] EXCEPT !.pc = IF @ = "calendar" THEN "build" ELSE "build2",
                                     !.calendar = c])
    /\ UNCHANGED <<world, cache>>

(* build_baseline reads the history up to the time of the query; S16 in    *)
(* advance, up to the present.  What was learned within the tick of that   *)
(* time may be before it or after it.                                      *)
Advance(p) == p.kind = "s16" /\ p.pc = "build"
Shows(t) == IF scoped = None THEN {FALSE} ELSE {scoped < t, scoped <= t}
Built(p, pack) ==
    LET b == [p EXCEPT !.pack = pack, !.calendar = None, !.given = None]
    IN  IF p.pc = "build2" THEN [b EXCEPT !.pc = "forecast"]
        ELSE [b EXCEPT !.pc = "persist", !.asof = 0]

Build(q) ==
    /\ queries[q].pc \in {"build", "build2"}
    /\ \E known \in Shows(IF Advance(queries[q]) THEN clock ELSE queries[q].asof) :
          GoOn(q, Built(queries[q], [calendar |-> queries[q].calendar, scope |-> known,
                                     given |-> IF known THEN None ELSE queries[q].given]))
    /\ UNCHANGED <<world, cache>>

(* Without a connection or enough history: S15 caches the gap as well.     *)
FailBuild(q) ==
    /\ \/ /\ queries[q].pc \in {"calendar", "build"}
          /\ GoOn(q, [queries[q] EXCEPT !.calendar = None,
                        !.pc = IF queries[q].kind = "s15" THEN "persist" ELSE "latest"])
       \/ /\ queries[q].pc \in {"calendar2", "build2"}
          /\ Reply(q, Finished(queries[q]), "gap")
    /\ UNCHANGED <<world, cache>>

(* Who looked before and may still cache a failure has not seen this one.  *)
Unseeing(p) ==
    [p EXCEPT !.blind = @ \/ (p.kind = "s15" /\ p.pc \in {"calendar", "build", "persist"})]

Persist(q) ==
    /\ queries[q].pc = "persist"
    /\ cache' = [ok |-> queries[q].pack # None, pack |-> queries[q].pack, created |-> clock]
    /\ queries' = [p \in Queries |->
          IF p = q THEN IF queries[q].kind = "s15" THEN Finished(queries[q])
                        ELSE [queries[q] EXCEPT !.pc = "latest", !.pack = None]
          ELSE IF cache'.ok THEN Unseeing(queries[p]) ELSE queries[p]]
    /\ answer' = IF queries[q].kind = "s16" THEN None
                 ELSE [reply |-> IF cache'.ok THEN "baseline" ELSE "gap",
                       of |-> Shown(queries[q])]
    /\ UNCHANGED world

(* S16 goes on when its write fails; S15 ends with an error (Die).         *)
FailPersist(q) ==
    /\ queries[q].pc = "persist" /\ queries[q].kind = "s16"
    /\ GoOn(q, [queries[q] EXCEPT !.pc = "latest", !.pack = None])
    /\ UNCHANGED <<world, cache>>

(***************************************************************************)
(* The progress report                                                     *)
(***************************************************************************)
WholeBatches(t) ==
    {batches[i].snap : i \in {j \in DOMAIN batches : batches[j].rooms = Rooms
                                                    /\ batches[j].snap <= t}}

(* deviation: takes the time, if none is given, then the package of the    *)
(* cache.                                                                  *)
Latest(q) ==
    /\ queries[q].pc = "latest"
    /\ \E hit \in {Hit, FALSE}, given \in Named("s16") :
          GoOn(q, [queries[q] EXCEPT !.pc = IF hit THEN "forecast" ELSE "calendar2",
                                     !.pack = IF hit THEN cache.pack ELSE None,
                                     !.given = IF hit THEN None ELSE given,
                                     !.asof = AsOf(given),
                                     !.whole = Max(WholeBatches(AsOf(given)) \cup {-1})])
    /\ UNCHANGED <<world, cache>>

Known(q) == {i \in DOMAIN batches : batches[i].rooms > 0 /\ batches[i].snap <= queries[q].asof}

(* select_batch: of the batches that have every room the package expects,  *)
(* or else of all, the one collected last.                                 *)
AnyRooms(pack, rooms) == TRUE
Complete(pack, rooms) == pack.scope => rooms = Rooms

Selected(q) ==
    LET whole == {i \in Known(q) : Complete(queries[q].pack, batches[i].rooms)}
    IN  batches[Max(IF whole # {} THEN whole ELSE Known(q))]

Forecast(q) ==
    /\ queries[q].pc = "forecast" /\ queries[q].asof >= Midnight /\ Known(q) # {}
    /\ GoOn(q, [queries[q] EXCEPT !.pc = "check", !.snap = Selected(q).snap,
                                  !.rooms = Selected(q).rooms])
    /\ UNCHANGED <<world, cache>>

NoForecast(q) ==
    /\ queries[q].pc = "forecast"
    /\ Reply(q, Finished(queries[q]),
             IF queries[q].asof < Midnight THEN "not_applicable" ELSE "gap")
    /\ UNCHANGED <<world, cache>>

(* _wrap_deviation reads the forecast again: if the newest row is from     *)
(* before the date, the report judges nothing.  A failure changes nothing. *)
Newest(q) == Max({batches[i].snap : i \in Known(q)})

Check(q) ==
    /\ queries[q].pc = "check"
    /\ \/ Newest(q) < Midnight /\ Reply(q, queries[q], "unjudged")
       \/ Reply(q, queries[q], IF Complete(queries[q].pack, queries[q].rooms) THEN "ok"
                               ELSE "partial")
    /\ UNCHANGED <<world, cache>>

Die(q) ==
    /\ Running(q)
    /\ GoOn(q, Finished(queries[q]))
    /\ UNCHANGED <<world, cache>>

(***************************************************************************)
(* Meanwhile                                                               *)
(***************************************************************************)
Meanwhile == answer' = None /\ UNCHANGED <<cache, queries>>

CanChange == changes < MaxChanges /\ changes' = changes + 1

(* A query that runs on into a second tick is killed by its time limit.    *)
Tick ==
    /\ clock < MaxTime /\ \A q \in Queries : Running(q) => queries[q].began = clock
    /\ clock' = clock + 1
    /\ UNCHANGED <<calendar, scoped, batches, changes>> /\ Meanwhile

ChangeCalendar ==
    /\ CanChange
    /\ calendar' = Append(calendar, clock)
    /\ UNCHANGED <<clock, scoped, batches>> /\ Meanwhile

(* The third snapshot of the same rooms reaches the history.               *)
LearnRooms ==
    /\ CanChange /\ scoped = None
    /\ scoped' = clock
    /\ UNCHANGED <<clock, calendar, batches>> /\ Meanwhile

(* The collector (external) stamps a batch before it inserts its rows and  *)
(* may leave it incomplete.                                                *)
NewBatch ==
    /\ CanChange /\ \A i \in DOMAIN batches : batches[i].snap < clock
    /\ batches' = Append(batches, [snap |-> clock, rooms |-> 0])
    /\ UNCHANGED <<clock, calendar, scoped>> /\ Meanwhile

CollectRoom ==
    /\ batches # <<>> /\ batches[Len(batches)].rooms < Rooms
    /\ batches' = [batches EXCEPT ![Len(batches)].rooms = @ + 1]
    /\ UNCHANGED <<clock, calendar, scoped, changes>> /\ Meanwhile

Init ==
    /\ clock = 0 /\ calendar = <<>> /\ scoped \in {None, 0}
    /\ batches \in {<<>>, <<[snap |-> 0, rooms |-> Rooms]>>} /\ cache = None
    /\ queries = [q \in Queries |-> Fresh] /\ answer = None /\ changes = 0

Step(q) ==
    \/ \E kind \in {"s15", "s16"} : Found(q, kind) \/ NotFound(q, kind)
    \/ ReadCalendar(q) \/ Build(q) \/ FailBuild(q) \/ Persist(q) \/ FailPersist(q)
    \/ Latest(q) \/ Forecast(q) \/ NoForecast(q) \/ Check(q) \/ Die(q)

Next ==
    \/ \E q \in Queries : Step(q)
    \/ Tick \/ ChangeCalendar \/ LearnRooms \/ NewBatch \/ CollectRoom

Spec == Init /\ [][Next]_vars

TypeOK ==
    /\ clock \in Time /\ calendar \in Seq(Time) /\ scoped \in Time \cup {None}
    /\ batches \in Seq([snap: Time, rooms: 0..Rooms])
    /\ cache \in Row \cup {None} /\ queries \in [Queries -> Query]
    /\ answer \in [reply: Replies, of: Answer] \cup {None}

Answers(kinds) == answer # None /\ answer.reply \in kinds

(* An answer never rests on a package that misses a change of the calendar *)
(* by more than the cache's lifetime and the time one query takes, however *)
(* builds, writes and lookups of several queries interleave; unless the    *)
(* calendar could not be read when it was built.  The same is true of the  *)
(* rooms, but for a package that a query built for a time it named: that   *)
(* one is served to others as well, and may miss what came after the time. *)
Overdue(change) == answer.of.began - change > TTL + 1
ChangesReachAnswers ==
    Answers({"baseline", "ok", "partial", "unjudged"}) =>
        LET pack == answer.of.pack IN
        /\ pack.calendar # None =>
              \A v \in (pack.calendar + 1)..Len(calendar) : ~ Overdue(calendar[v])
        /\ ~ pack.scope /\ scoped # None =>
              ~ Overdue(scoped) \/ (pack.given # None /\ pack.given <= scoped)

(* A report never uses an older batch than the newest that was whole when  *)
(* it was asked for, while the collector inserts another one, and is "ok"  *)
(* for a part of the rooms only if its package did not know the rooms.     *)
ReportsAreWhole ==
    Answers({"ok", "partial", "unjudged"}) =>
        /\ answer.of.snap >= answer.of.whole
        /\ answer.reply = "ok" /\ answer.of.pack.scope => answer.of.rooms = Rooms

(* S15 caches failures too, but a failure replaces a good package of the   *)
(* last TTL only if its query had not seen it: it looked before the        *)
(* package was cached, could not read the cache, or was told not to look,  *)
(* by --force-rebuild or an explicit --as-of-time.                         *)
GoodPackagesAreKept ==
    [][cache # None /\ cache.ok /\ cache' # cache /\ ~ cache'.ok
         => \/ clock - cache.created > TTL
            \/ \E q \in Queries : queries[q].pc = "persist" /\ queries'[q].pc # "persist"
                                  /\ queries[q].blind]_vars

(* "A prearrival snapshot keeps the facts but disables the judgment of     *)
(* progress": also while the first batch of the date is being collected.   *)
JudgedReportsAreOfTheDay ==
    Answers({"ok"})
    /\ (\E i \in DOMAIN batches : batches[i].rooms > 0 /\ batches[i].snap >= Midnight)
        => answer.of.snap >= Midnight
=============================================================================
