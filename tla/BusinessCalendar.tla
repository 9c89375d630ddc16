-------------------------- MODULE BusinessCalendar --------------------------
(***************************************************************************)
(* The calendar of one year (table calendar_days).  Whoever asks for it,   *)
(* tags dates as peak or low season by hand, or imports holidays first     *)
(* rebuilds the year from the seed, which overwrites every row; the manual *)
(* tags are read before and written back after, so that a rebuild is three *)
(* transactions of a process that others may interrupt or that may die.    *)
(* The rows of the year exist from the first rebuild on and are never      *)
(* deleted.                                                                *)
(***************************************************************************)
EXTENDS Naturals

CONSTANTS
    Dates,
    Tags,        \* the tags set by hand (_MANUAL_SEASON_TAGS)
    Providers,   \* holiday providers that give days
    Workers      \* processes serving a message or a command line

VARIABLES
    tag,        \* of each date: its manual season_tag, a set of one, or {} for a computed one
    source,     \* of each date: the provider in its row, or {} for the seed
    cache,      \* table holiday_calendar_cache: the provider of each date, or {}
    wk,         \* the processes
    last,       \* history: the manual tag that the last command gave the date
    disturbed   \* history: the dates whose tag another process may have undone since

vars == <<tag, source, cache, wk, last, disturbed>>

AtMostOne(S) == {{}} \cup {{x} : x \in S}

Process == [pc: {"idle", "read", "seed", "restore", "write", "fetch", "overlay"},
            goal: {"none", "write", "fetch", "overlay"},   \* after its rebuild
            dates: SUBSET Dates,                           \* the dates it will change,
            new: AtMostOne(Tags),                          \* their manual tag
            from: AtMostOne(Providers),                    \* or their provider,
            kept: [Dates -> AtMostOne(Tags)]]              \* and the manual tags it read

Nothing == [d \in Dates |-> {}]
Idle == [pc |-> "idle", goal |-> "none", dates |-> {}, new |-> {}, from |-> {}, kept |-> Nothing]

At(w, step) == wk[w].pc = step
Set(w, p) == wk' = [wk EXCEPT ![w] = p]

Rebuild(goal, ds, new, from) ==
    [pc |-> "read", goal |-> goal, dates |-> ds, new |-> new, from |-> from, kept |-> Nothing]

(* Between its read and its last write a rebuild may undo what others do;  *)
(* after the seed, until the restore, the manual tags are missing.         *)
Rebuilding(w) == wk[w].pc \in {"seed", "restore"}
Missing(w) == wk[w].pc = "restore"

(***************************************************************************)
(* What is asked for                                                       *)
(***************************************************************************)
(* A question about the calendar, a look at a year without rows, or        *)
(* calendar-sync without a provider.                                       *)
AskForRebuild(w) ==
    /\ At(w, "idle") /\ Set(w, Rebuild("none", {}, {}, {}))
    /\ UNCHANGED <<tag, source, cache, last, disturbed>>

(* set_calendar_season_tag, and reset_calendar_season_tag with {}.         *)
AskForTag(w, ds, new) ==
    /\ At(w, "idle") /\ Set(w, Rebuild("write", ds, new, {}))
    /\ UNCHANGED <<tag, source, cache, last, disturbed>>

(* calendar-sync --sync-remote-holidays                                    *)
AskForHolidays(w) ==
    /\ At(w, "idle") /\ Set(w, Rebuild("fetch", {}, {}, {}))
    /\ UNCHANGED <<tag, source, cache, last, disturbed>>

(***************************************************************************)
(* A rebuild: sync_calendar_year_preserving_manual_tags                    *)
(***************************************************************************)
NoTags(w) == Nothing
ManualTags(w) == tag

(* A process that reads while another has yet to restore misses its tags.  *)
ReadTags(w) ==
    /\ At(w, "read")
    /\ Set(w, [wk[w] EXCEPT !.pc = "seed", !.kept = ManualTags(w)])
    /\ disturbed' = disturbed \cup {d \in Dates : \E v \in Workers : Missing(v) /\ wk[v].kept[d] # {}}
    /\ UNCHANGED <<tag, source, cache, last>>

(* The upsert of every date of the year.                                   *)
SeedYear(w) ==
    /\ At(w, "seed")
    /\ tag' = Nothing /\ source' = Nothing
    /\ Set(w, [wk[w] EXCEPT !.pc = "restore"])
    /\ UNCHANGED <<cache, last, disturbed>>

AfterRebuild(p) == IF p.goal = "none" THEN Idle ELSE [p EXCEPT !.pc = p.goal, !.kept = Nothing]

RestoreTags(w) ==
    /\ At(w, "restore")
    /\ tag' = [d \in Dates |-> IF wk[w].kept[d] # {} THEN wk[w].kept[d] ELSE tag[d]]
    /\ Set(w, AfterRebuild(wk[w]))
    /\ UNCHANGED <<source, cache, last, disturbed>>

(***************************************************************************)
(* What follows the rebuild                                                *)
(***************************************************************************)
(* The readback that follows decides only what the sender is told.         *)
WriteTag(w) ==
    /\ At(w, "write")
    /\ tag' = [d \in Dates |-> IF d \in wk[w].dates THEN wk[w].new ELSE tag[d]]
    /\ last' = [d \in Dates |-> IF d \in wk[w].dates THEN wk[w].new ELSE last[d]]
    /\ disturbed' = IF \E v \in Workers : Rebuilding(v) THEN disturbed \cup wk[w].dates
                    ELSE disturbed \ wk[w].dates
    /\ Set(w, Idle)
    /\ UNCHANGED <<source, cache>>

(* The provider gives days, or nothing; when several fail the year is      *)
(* rebuilt once more.                                                      *)
Fetch(w) ==
    /\ At(w, "fetch")
    /\ \/ \E p \in Providers, ds \in SUBSET Dates \ {{}} : Set(w, Rebuild("overlay", ds, {}, {p}))
       \/ Set(w, Rebuild("none", {}, {}, {}))
       \/ Set(w, Idle)
    /\ UNCHANGED <<tag, source, cache, last, disturbed>>

(* The second half of sync_holiday_provider_cache, one transaction: it     *)
(* computes the season tag anew, whatever it was.                          *)
OverlayHolidays(w) ==
    /\ At(w, "overlay")
    /\ tag' = [d \in Dates |-> IF d \in wk[w].dates THEN {} ELSE tag[d]]
    /\ source' = [d \in Dates |-> IF d \in wk[w].dates THEN wk[w].from ELSE source[d]]
    /\ cache' = [d \in Dates |-> IF d \in wk[w].dates THEN wk[w].from ELSE cache[d]]
    /\ disturbed' = disturbed \cup {d \in wk[w].dates : last[d] # {}}
    /\ Set(w, Idle)
    /\ UNCHANGED last

(* The process is killed, or a statement fails.                            *)
Die(w) ==
    /\ ~ At(w, "idle")
    /\ Set(w, Idle)
    /\ disturbed' = disturbed \cup {d \in Dates : Missing(w) /\ wk[w].kept[d] # {}}
    /\ UNCHANGED <<tag, source, cache, last>>

(***************************************************************************)
(* Specification                                                           *)
(***************************************************************************)
Init ==
    /\ tag = Nothing /\ source = Nothing /\ cache = Nothing
    /\ wk = [w \in Workers |-> Idle]
    /\ last = Nothing /\ disturbed = {}

Ask(w) ==
    \/ AskForRebuild(w) \/ AskForHolidays(w)
    \/ \E ds \in SUBSET Dates \ {{}}, new \in AtMostOne(Tags) : AskForTag(w, ds, new)

Step(w) ==
    \/ ReadTags(w) \/ SeedYear(w) \/ RestoreTags(w)
    \/ WriteTag(w) \/ Fetch(w) \/ OverlayHolidays(w) \/ Die(w)

Next == \E w \in Workers : Ask(w) \/ Step(w)

Spec == Init /\ [][Next]_vars

(***************************************************************************)
(* Correctness                                                             *)
(***************************************************************************)
TypeOK ==
    /\ tag \in [Dates -> AtMostOne(Tags)]
    /\ source \in [Dates -> AtMostOne(Providers)]
    /\ cache \in [Dates -> AtMostOne(Providers)]
    /\ wk \in [Workers -> Process]
    /\ last \in [Dates -> AtMostOne(Tags)]
    /\ disturbed \subseteq Dates

(* The tag of a date is what the last command made it, or a process is     *)
(* about to restore it.                                                    *)
Stands(d) == tag[d] = last[d] \/ \E w \in Workers : Missing(w) /\ wk[w].kept[d] = last[d]

(* Rebuilds and questions leave the manual tags as the last command made   *)
(* them, unless a rebuild was under way when it wrote, a rebuild began     *)
(* before another had restored the tags or died before it did, or a        *)
(* provider gave the date.  And a day that names a provider is the day in  *)
(* the cache of holidays.                                                  *)
DaysAreExplained ==
    /\ \A d \in Dates \ disturbed : Stands(d)
    /\ \A d \in Dates : source[d] # {} => source[d] = cache[d]

(* "Later calendar syncs keep the manual tags": TOOLS.md says it without   *)
(* an exception.                                                           *)
TagsAreKept == \A d \in Dates : Stands(d)
=============================================================================
