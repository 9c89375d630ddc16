---------------------------- MODULE NoOrderWatch ----------------------------
(***************************************************************************)
(* scripts/no_order_watch.py of hotel-ota-ai: a cron job that runs every   *)
(* half hour (a tick of the model's clock), compares the day's number of   *)
(* paid orders with what it saw last, and prints one alert when the number *)
(* has stood still for long enough.  Its memory is a state file.           *)
(***************************************************************************)
EXTENDS Integers, Sequences

CONSTANTS
    NO_NEW_ORDER,  \* NO_NEW_ORDER_MINUTES in ticks
    MaxTime,       \* bound: the clock stops here
    MaxOrders,     \* bound: orders of a day
    MaxSnapshot,   \* bound: runs of the collector
    MaxDays,       \* bound: times the business date changes
    CanCrash,      \* whether a run may die between two of its writes
    None           \* JSON null

ASSUME WatchAssumption ==
    /\ NO_NEW_ORDER \in Nat \ {0} /\ MaxTime \in Nat /\ MaxOrders \in Nat
    /\ MaxSnapshot \in Nat /\ MaxDays \in Nat /\ CanCrash \in BOOLEAN
    /\ None \notin Int

VARIABLES
    now,      \* the clock
    days,     \* business dates so far
    orders,   \* paid orders of the current business date
    unseen,   \* whether an order was paid since the collector last ran
    source,   \* today's PAY_ORDER_CNT row: count, snapshot time, newest order
    state,    \* the state file
    run,      \* the run of the watch that is under way
    checks,   \* history: what the runs that saved their state had read, and
              \* whether they were killed before their end
    alerts    \* the alerts that were printed

vars == <<now, days, orders, unseen, source, state, run, checks, alerts>>
world == <<now, days, orders, unseen, source>>

Time == 0..MaxTime
SourceRow == [date: Nat, pay: Nat \cup {None}, snap: Nat, newest: Nat]
StateFile == [pay: Nat \cup {None}, snap: Nat \cup {None},
              since: Nat \cup {None}, alerted: Nat \cup {None}]
NoState == [pay |-> None, snap |-> None, since |-> None, alerted |-> None]
Run == [pc: {"idle", "read", "remember", "print"}, read: SourceRow]

(***************************************************************************)
(* The hotel and the collector (external)                                  *)
(***************************************************************************)
Tick ==
    /\ now < MaxTime /\ run.pc = "idle"
    /\ now' = now + 1
    /\ UNCHANGED <<days, orders, unseen, source, state, run, checks, alerts>>

PayOrder ==
    /\ orders < MaxOrders
    /\ orders' = orders + 1 /\ unseen' = TRUE
    /\ UNCHANGED <<now, days, source, state, run, checks, alerts>>

Collect ==
    /\ source.snap < MaxSnapshot
    /\ source' = [date |-> days, pay |-> orders, snap |-> source.snap + 1,
                  newest |-> IF unseen THEN now ELSE source.newest]
    /\ unseen' = FALSE
    /\ UNCHANGED <<now, days, orders, state, run, checks, alerts>>

(* The count is cumulative within a day; the new date has no row yet. *)
NextDay ==
    /\ now < MaxTime /\ days < MaxDays /\ run.pc = "idle"
    /\ now' = now + 1 /\ days' = days + 1 /\ orders' = 0 /\ unseen' = FALSE
    /\ source' = [source EXCEPT !.date = days + 1, !.pay = None]
    /\ UNCHANGED <<state, run, checks, alerts>>

(***************************************************************************)
(* One run of the watch                                                    *)
(***************************************************************************)
CheckedAt(n) == checks[n].at

(* query_pay_orders; without the metric, or outside the active hours, the  *)
(* run ends and leaves the state file as it is.                            *)
QueryBlindly ==
    /\ run.pc = "idle"
    /\ \A n \in DOMAIN checks : CheckedAt(n) < now
    /\ run' = [pc |-> "read", read |-> source]
    /\ UNCHANGED <<world, state, checks, alerts>>
QueryPayOrders ==
    /\ run.pc = "idle" /\ source.pay # None
    /\ \A n \in DOMAIN checks : CheckedAt(n) < now
    /\ run' = [pc |-> "read", read |-> source]
    /\ UNCHANGED <<world, state, checks, alerts>>

SnapshotRefreshed(row) == state.snap = None \/ row.snap # state.snap

AnyNoGrowth(row) == state.pay # None /\ SnapshotRefreshed(row)
NoGrowth(row) == state.pay # None /\ SnapshotRefreshed(row) /\ row.pay <= state.pay

Since == IF state.since = None THEN now ELSE state.since

NextStateForgetful(row) ==
    [pay |-> row.pay, snap |-> row.snap, since |-> Since, alerted |-> None]
NextStateKeepsAlert(row) ==
    [pay |-> row.pay, snap |-> row.snap, alerted |-> state.alerted,
     since |-> IF NoGrowth(row) THEN Since ELSE None]
NextState(row) ==
    IF NoGrowth(row)
    THEN [pay |-> row.pay, snap |-> row.snap, since |-> Since, alerted |-> state.alerted]
    ELSE [pay |-> row.pay, snap |-> row.snap, since |-> None, alerted |-> None]

DueEarly(s) == s.since # None /\ s.alerted = None
Due(s) == s.since # None /\ now - s.since >= NO_NEW_ORDER /\ s.alerted = None

SaveState ==
    /\ run.pc = "read"
    /\ state' = NextState(run.read)
    /\ run' = [run EXCEPT !.pc = IF Due(state') THEN "remember" ELSE "idle"]
    /\ checks' = Append(checks, [at |-> now, row |-> run.read, killed |-> FALSE])
    /\ UNCHANGED <<world, alerts>>

(* The alert is noted in the state file before it is printed. *)
RememberAlert ==
    /\ run.pc = "remember"
    /\ state' = [state EXCEPT !.alerted = now]
    /\ run' = [run EXCEPT !.pc = "print"]
    /\ UNCHANGED <<world, checks, alerts>>

PrintAlert ==
    /\ run.pc = "print"
    /\ alerts' = Append(alerts, [at |-> now, since |-> state.since,
                                row |-> run.read])
    /\ run' = [run EXCEPT !.pc = "idle"]
    /\ UNCHANGED <<world, state, checks>>

Crash ==
    /\ CanCrash /\ run.pc # "idle"
    /\ run' = [run EXCEPT !.pc = "idle"]
    /\ checks' = [n \in DOMAIN checks |->
                     IF n = Len(checks) /\ run.pc # "read" THEN [checks[n] EXCEPT !.killed = TRUE]
                     ELSE checks[n]]
    /\ UNCHANGED <<world, state, alerts>>

Init ==
    /\ now = 0 /\ days = 0 /\ orders = 0 /\ unseen = FALSE
    /\ source = [date |-> 0, pay |-> None, snap |-> 0, newest |-> 0]
    /\ state = NoState
    /\ run = [pc |-> "idle", read |-> source]
    /\ checks = <<>> /\ alerts = <<>>

World == Tick \/ PayOrder \/ Collect \/ NextDay
Watch == QueryPayOrders \/ SaveState \/ RememberAlert \/ PrintAlert
Next == World \/ Watch \/ Crash

Spec == Init /\ [][Next]_vars

(***************************************************************************)
(* Correctness                                                             *)
(***************************************************************************)
TypeOK ==
    /\ now \in Time /\ days \in 0..MaxDays /\ orders \in 0..MaxOrders /\ unseen \in BOOLEAN
    /\ source \in SourceRow /\ state \in StateFile /\ run \in Run
    /\ checks \in Seq([at: Time, row: [date: Nat, pay: Nat, snap: Nat, newest: Nat],
                       killed: BOOLEAN])
    /\ alerts \in Seq([at: Time, since: Time, row: SourceRow])

Grew(n) == n > 1 /\ checks[n].row.pay > checks[n-1].row.pay
Stale(n) == n > 1 /\ checks[n].row.snap = checks[n-1].row.snap

(* An alert rests on what the checks saw: it names a check at which the    *)
(* number had not grown, no check since then saw it grow, and there is the *)
(* full waiting time between the two.  One period is reported once, also   *)
(* when runs are killed.                                                   *)
AlertsAreObserved ==
    /\ \A a, b \in DOMAIN alerts : alerts[a].since = alerts[b].since => a = b
    /\ \A a \in DOMAIN alerts :
          /\ alerts[a].at - alerts[a].since >= NO_NEW_ORDER
          /\ \E n \in DOMAIN checks : CheckedAt(n) = alerts[a].since
          /\ \A n \in DOMAIN checks :
                alerts[a].since <= CheckedAt(n) /\ CheckedAt(n) <= alerts[a].at => ~ Grew(n)

(* An alert is printed only if no order had reached the collected data for *)
(* the whole waiting time, as long as the check that began the silence     *)
(* read the same business date.                                            *)
SameDate(a) ==
    \E n \in DOMAIN checks :
        CheckedAt(n) = alerts[a].since /\ checks[n].row.date = alerts[a].row.date
AlertMeansNoOrders ==
    \A a \in DOMAIN alerts :
        SameDate(a) => alerts[a].at - alerts[a].row.newest >= NO_NEW_ORDER

(* No silence goes unreported: once two fresh checks that far apart, and   *)
(* the fresh checks between them, saw no growth, the alert of this silence *)
(* is out; the alert of a silence that a growing number or a stale check   *)
(* has ended since does not count.  Only a run that was killed during the  *)
(* same silence may have lost it.                                          *)
Ends(n) == Grew(n) \/ Stale(n)
Unbroken(t, i) ==
    \A n \in DOMAIN checks : t <= CheckedAt(n) /\ CheckedAt(n) <= CheckedAt(i) => ~ Ends(n)
FreshSilence(i, j) ==
    /\ i > 1 /\ i < j /\ CheckedAt(j) - CheckedAt(i) >= NO_NEW_ORDER
    /\ \A n \in i..j : ~ Ends(n)
    /\ \A n \in 1..j : checks[n].killed => \E m \in (n+1)..i : Ends(m)
ReportedBetween(i, j) ==
    \E a \in DOMAIN alerts :
        /\ alerts[a].since <= CheckedAt(i) /\ alerts[a].at <= CheckedAt(j)
        /\ Unbroken(alerts[a].since, i)
SilenceIsReported ==
    run.pc = "idle" =>
        \A i, j \in DOMAIN checks : FreshSilence(i, j) => ReportedBetween(i, j)

(***************************************************************************)
(* What the script says of itself and does not keep                        *)
(***************************************************************************)
(* "Without a refreshed snapshot it does not count as no new orders": a    *)
(* check that reads old data neither adds to a silence nor ends it; the    *)
(* reminder is reset when the number grows again.                          *)
StaleSilence(i, j) ==
    /\ i > 1 /\ i < j /\ CheckedAt(j) - CheckedAt(i) >= NO_NEW_ORDER
    /\ ~ Stale(i) /\ ~ Stale(j)
    /\ \A n \in i..j : ~ Grew(n)
ToldBetween(i, j) ==
    \E a \in DOMAIN alerts :
        /\ alerts[a].since <= CheckedAt(i) /\ alerts[a].at <= CheckedAt(j)
        /\ \A n \in DOMAIN checks :
              alerts[a].since <= CheckedAt(n) /\ CheckedAt(n) <= CheckedAt(i) => ~ Grew(n)
ResetOnlyByGrowth ==
    run.pc = "idle" =>
        \A i, j \in DOMAIN checks : StaleSilence(i, j) => ToldBetween(i, j)
=============================================================================
