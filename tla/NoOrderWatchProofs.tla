------------------------- MODULE NoOrderWatchProofs -------------------------
(***************************************************************************)
(* Proofs about NoOrderWatch, for every waiting time and every bound, with *)
(* and without crashes.                                                    *)
(***************************************************************************)
EXTENDS NoOrderWatch, TLAPS

-----------------------------------------------------------------------------
(* The inductive invariant.                                                *)

(* Checks are at different times, in order; a run that has saved its state *)
(* is the last check.                                                      *)
OrderInv ==
    /\ \A i, j \in DOMAIN checks : i < j => CheckedAt(i) < CheckedAt(j)
    /\ \A n \in DOMAIN checks : CheckedAt(n) <= now
    /\ run.pc = "read" => run.read.pay # None /\ \A n \in DOMAIN checks : CheckedAt(n) < now
    /\ run.pc \in {"remember", "print"} =>
          checks # <<>> /\ CheckedAt(Len(checks)) = now /\ checks[Len(checks)].row = run.read

(* A later row of the same date shows at least as many orders, and as many *)
(* only if no order came to it.                                            *)
Precedes(r, s) ==
    /\ r.date <= s.date
    /\ r.date = s.date =>
          /\ r.pay # None /\ s.pay # None
          /\ r.pay <= s.pay /\ (r.pay = s.pay => r.newest = s.newest)

(* The rows that the checks read are successive states of one source.      *)
SourceInv ==
    /\ source.date = days /\ source.newest <= now
    /\ source.pay # None => source.pay <= orders /\ (unseen => source.pay # orders)
    /\ \A n \in DOMAIN checks :
          checks[n].row.newest <= CheckedAt(n) /\ Precedes(checks[n].row, source)
    /\ \A i, j \in DOMAIN checks : i <= j => Precedes(checks[i].row, checks[j].row)
    /\ run.pc = "read" =>
          /\ run.read.newest <= now /\ Precedes(run.read, source)
          /\ \A n \in DOMAIN checks : Precedes(checks[n].row, run.read)

(* The silence in the state file began at a check; no check ended it since. *)
SilentFrom(m) ==
    /\ m > 1 /\ CheckedAt(m) = state.since
    /\ \A n \in m..Len(checks) : ~ Ends(n)
    /\ checks[Len(checks)].row.pay <= checks[m].row.pay

(* The state file remembers the last check, and a silence that began no    *)
(* later than any stretch of fresh checks that goes up to it.              *)
StateInv ==
    /\ checks = <<>> => state = NoState
    /\ checks # <<>> => /\ state.pay = checks[Len(checks)].row.pay
                        /\ state.snap = checks[Len(checks)].row.snap
    /\ state.since # None => \E m \in DOMAIN checks : SilentFrom(m)
    /\ state.alerted # None => state.since # None
    /\ \A i \in DOMAIN checks :
          i > 1 /\ (\A n \in i..Len(checks) : ~ Grew(n) /\ ~ Stale(n)) =>
              state.since # None /\ state.since <= CheckedAt(i)
    /\ run.pc = "remember" => Due(state)
    /\ run.pc = "print" =>
          state.since # None /\ state.alerted # None /\ now - state.since >= NO_NEW_ORDER

(* What is known of each alert.                                            *)
AlertInv ==
    \A a \in DOMAIN alerts :
        /\ alerts[a].at - alerts[a].since >= NO_NEW_ORDER
        /\ \E n \in DOMAIN checks : CheckedAt(n) = alerts[a].since
        /\ \E n \in DOMAIN checks : CheckedAt(n) = alerts[a].at
        /\ \A n \in DOMAIN checks :
              alerts[a].since <= CheckedAt(n) /\ CheckedAt(n) <= alerts[a].at => ~ Grew(n)
        /\ SameDate(a) => alerts[a].at - alerts[a].row.newest >= NO_NEW_ORDER

Told == \E a \in DOMAIN alerts : alerts[a].since = state.since

(* A silence has one alert, and it has it once the state file says so and  *)
(* no run was killed since it began.                                       *)
OnceInv ==
    /\ \A a, b \in DOMAIN alerts : alerts[a].since = alerts[b].since => a = b
    /\ state.since # None /\ (state.alerted = None \/ run.pc = "print") => ~ Told
    /\ state.alerted # None /\ run.pc # "print" =>
          Told \/ \E n \in DOMAIN checks : checks[n].killed /\ state.since <= CheckedAt(n)

(* Between runs, a silence that was long enough at the last check is noted *)
(* as told, unless that run was killed.                                    *)
DueInv ==
    /\ run.pc \in {"idle", "read"} /\ checks # <<>>
    /\ state.since # None /\ CheckedAt(Len(checks)) - state.since >= NO_NEW_ORDER
    => state.alerted # None \/ checks[Len(checks)].killed

ReportInv ==
    \A i, j \in DOMAIN checks : FreshSilence(i, j) /\ j < Len(checks) => ReportedBetween(i, j)

SafetyInv ==
    TypeOK /\ OrderInv /\ SourceInv /\ StateInv /\ AlertInv /\ OnceInv /\ DueInv /\ ReportInv

-----------------------------------------------------------------------------
(* Types.                                                                  *)

Check == [at: Time, row: [date: Nat, pay: Nat, snap: Nat, newest: Nat], killed: BOOLEAN]
Alert == [at: Time, since: Time, row: SourceRow]

LEMMA CheckTypes ==
    ASSUME TypeOK
    PROVE  /\ Len(checks) \in Nat /\ DOMAIN checks = 1..Len(checks)
           /\ \A n \in DOMAIN checks : checks[n] \in Check
           /\ \A n \in DOMAIN checks :
                 /\ CheckedAt(n) \in Nat
                 /\ checks[n].row.date \in Nat /\ checks[n].row.pay \in Nat
                 /\ checks[n].row.snap \in Nat /\ checks[n].row.newest \in Nat
<1>1. checks \in Seq(Check)
  BY DEF TypeOK, Check
<1>2. \A n \in DOMAIN checks : checks[n] \in Check
  BY <1>1
<1>3. Len(checks) \in Nat /\ DOMAIN checks = 1..Len(checks)
  BY <1>1
<1>4. \A c \in Check :
         /\ c.at \in Nat /\ c.row.date \in Nat /\ c.row.pay \in Nat
         /\ c.row.snap \in Nat /\ c.row.newest \in Nat
  BY WatchAssumption DEF Check, Time
<1> QED BY <1>2, <1>3, <1>4 DEF CheckedAt

LEMMA AlertTypes ==
    ASSUME TypeOK
    PROVE  /\ Len(alerts) \in Nat /\ DOMAIN alerts = 1..Len(alerts)
           /\ \A a \in DOMAIN alerts :
                 /\ alerts[a] \in Alert
                 /\ alerts[a].at \in Nat /\ alerts[a].since \in Nat
                 /\ alerts[a].row.newest \in Nat /\ alerts[a].row.date \in Nat
<1>1. alerts \in Seq(Alert)
  BY DEF TypeOK, Alert
<1>2. \A a \in DOMAIN alerts : alerts[a] \in Alert
  BY <1>1
<1>3. Len(alerts) \in Nat /\ DOMAIN alerts = 1..Len(alerts)
  BY <1>1
<1>4. \A x \in Alert :
         x.at \in Nat /\ x.since \in Nat /\ x.row.newest \in Nat /\ x.row.date \in Nat
  BY WatchAssumption DEF Alert, SourceRow, Time
<1> QED BY <1>2, <1>3, <1>4

LEMMA StateTypes ==
    ASSUME TypeOK
    PROVE  /\ now \in Nat /\ NO_NEW_ORDER \in Nat /\ None \notin Int
           /\ (state.since # None => state.since \in Nat)
           /\ (state.pay # None => state.pay \in Nat)
           /\ (state.snap # None => state.snap \in Nat)
           /\ source.date \in Nat /\ source.newest \in Nat /\ source.snap \in Nat
           /\ (source.pay # None => source.pay \in Nat)
           /\ run.read.date \in Nat /\ run.read.newest \in Nat /\ run.read.snap \in Nat
           /\ (run.read.pay # None => run.read.pay \in Nat)
           /\ orders \in Nat /\ days \in Nat
BY WatchAssumption DEF TypeOK, Time, StateFile, SourceRow, Run

(* What a check adds to the sequence of checks.                            *)
LEMMA Saved ==
    ASSUME TypeOK, SaveState, NEW L \in Nat, L = Len(checks)
    PROVE  /\ Len(checks') = L + 1 /\ DOMAIN checks' = 1..(L + 1)
           /\ \A n \in 1..L : checks'[n] = checks[n]
           /\ checks'[L + 1] = [at |-> now, row |-> run.read, killed |-> FALSE]
           /\ \A n \in 1..L : (Grew(n)' <=> Grew(n)) /\ (Stale(n)' <=> Stale(n))
           /\ Grew(L + 1)' <=> L > 0 /\ run.read.pay > checks[L].row.pay
           /\ Stale(L + 1)' <=> L > 0 /\ run.read.snap = checks[L].row.snap
<1>1. checks \in Seq(Check)
  BY DEF TypeOK, Check
<1>2. checks' = Append(checks, [at |-> now, row |-> run.read, killed |-> FALSE])
  BY DEF SaveState
<1>3. /\ Len(checks') = L + 1 /\ DOMAIN checks' = 1..(L + 1)
      /\ \A n \in 1..L : checks'[n] = checks[n]
      /\ checks'[L + 1] = [at |-> now, row |-> run.read, killed |-> FALSE]
  BY <1>1, <1>2
<1>4. \A n \in 1..L : (Grew(n)' <=> Grew(n)) /\ (Stale(n)' <=> Stale(n))
  BY <1>1, <1>3 DEF Grew, Stale
<1>5. Grew(L + 1)' <=> L > 0 /\ run.read.pay > checks[L].row.pay
  BY <1>1, <1>3 DEF Grew
<1>6. Stale(L + 1)' <=> L > 0 /\ run.read.snap = checks[L].row.snap
  BY <1>1, <1>3 DEF Stale
<1> QED BY <1>3, <1>4, <1>5, <1>6

(* A crash changes nothing of a check but that its run was killed.         *)
SameChecks ==
    /\ DOMAIN checks' = DOMAIN checks /\ Len(checks') = Len(checks)
    /\ checks' = <<>> <=> checks = <<>>
    /\ \A n \in DOMAIN checks :
          /\ checks'[n].at = checks[n].at /\ checks'[n].row = checks[n].row
          /\ checks[n].killed => checks'[n].killed
          /\ n # Len(checks) => checks'[n].killed = checks[n].killed
    /\ \A n \in DOMAIN checks : (Grew(n)' <=> Grew(n)) /\ (Stale(n)' <=> Stale(n))

LEMMA Crashed ==
    ASSUME TypeOK, Crash
    PROVE  /\ SameChecks /\ checks' \in Seq(Check)
           /\ run.pc # "read" /\ checks # <<>> => checks'[Len(checks)].killed
<1> DEFINE F(n) == IF n = Len(checks) /\ run.pc # "read" THEN [checks[n] EXCEPT !.killed = TRUE]
                   ELSE checks[n]
<1>1. checks' = [n \in 1..Len(checks) |-> F(n)] /\ Len(checks) \in Nat
  BY CheckTypes DEF Crash
<1>2. \A n \in 1..Len(checks) : F(n) \in Check
  BY CheckTypes DEF Check
<1>3. checks' \in Seq(Check) /\ DOMAIN checks' = 1..Len(checks) /\ Len(checks') = Len(checks)
  BY <1>1, <1>2
<1>4. \A n \in 1..Len(checks) :
         /\ checks'[n].at = checks[n].at /\ checks'[n].row = checks[n].row
         /\ checks[n].killed => checks'[n].killed
         /\ n # Len(checks) => checks'[n].killed = checks[n].killed
         /\ n = Len(checks) /\ run.pc # "read" => checks'[n].killed
  BY <1>1, CheckTypes DEF Check
<1>5. checks' = <<>> <=> checks = <<>>
  BY <1>3, CheckTypes DEF TypeOK, Check
<1>6. \A n \in DOMAIN checks : (Grew(n)' <=> Grew(n)) /\ (Stale(n)' <=> Stale(n))
  BY <1>1, <1>4, CheckTypes DEF Grew, Stale
<1>7. checks # <<>> => Len(checks) \in 1..Len(checks)
  BY CheckTypes DEF TypeOK
<1> QED BY <1>3, <1>4, <1>5, <1>6, <1>7, CheckTypes DEF SameChecks

LEMMA SameWhenUnchanged ==
    ASSUME TypeOK, UNCHANGED checks
    PROVE  SameChecks
BY DEF SameChecks, Grew, Stale

(* What an alert adds to the sequence of alerts.                           *)
LEMMA Printed ==
    ASSUME TypeOK, PrintAlert
    PROVE  LET A == Len(alerts) IN
           /\ DOMAIN alerts' = 1..(A + 1) /\ A \in Nat
           /\ \A a \in 1..A : alerts'[a] = alerts[a]
           /\ alerts'[A + 1] = [at |-> now, since |-> state.since, row |-> run.read]
BY AlertTypes DEF PrintAlert, TypeOK

LEMMA NextType == SafetyInv /\ [Next]_vars => TypeOK'
<1> SUFFICES ASSUME SafetyInv, [Next]_vars PROVE TypeOK'
  OBVIOUS
<1> USE WatchAssumption
<1>0. TypeOK
  BY DEF SafetyInv
<1>1. CASE UNCHANGED vars
  BY <1>0, <1>1 DEF vars, TypeOK
<1>2. CASE Tick
  BY <1>0, <1>2 DEF Tick, TypeOK, Time
<1>3. CASE PayOrder
  BY <1>0, <1>3 DEF PayOrder, TypeOK
<1>4. CASE Collect
  <2>1. source.newest \in Nat /\ source.snap + 1 \in Nat /\ now \in Nat /\ days \in Nat /\ orders \in Nat
    BY <1>0, StateTypes
  <2>2. source' \in SourceRow
    BY <1>4, <2>1 DEF Collect, SourceRow
  <2> QED BY <1>0, <1>4, <2>2 DEF Collect, TypeOK
<1>5. CASE NextDay
  <2>1. source' = [date |-> days + 1, pay |-> None, snap |-> source.snap, newest |-> source.newest]
    <3>1. source \in SourceRow
      BY <1>0 DEF TypeOK
    <3> QED BY <1>5, <3>1 DEF NextDay, SourceRow
  <2>2. source.newest \in Nat /\ source.snap \in Nat /\ days + 1 \in Nat
    BY <1>0, StateTypes
  <2>3. source' \in SourceRow
    BY <2>1, <2>2 DEF SourceRow
  <2>4. now' \in Time /\ days' \in 0..MaxDays /\ orders' \in 0..MaxOrders /\ unseen' \in BOOLEAN
    <3>1. /\ now < MaxTime /\ now' = now + 1
          /\ days < MaxDays /\ days' = days + 1 /\ orders' = 0 /\ unseen' = FALSE
      BY <1>5 DEF NextDay
    <3>2. days \in 0..MaxDays /\ now \in 0..MaxTime
      BY <1>0 DEF TypeOK, Time
    <3>3. now + 1 \in Time /\ days + 1 \in 0..MaxDays /\ 0 \in 0..MaxOrders
      BY <3>1, <3>2 DEF Time
    <3> QED BY <3>1, <3>3
  <2>5. UNCHANGED <<state, run, checks, alerts>>
    BY <1>5 DEF NextDay
  <2> QED BY <1>0, <2>3, <2>4, <2>5 DEF TypeOK
<1>6. CASE QueryPayOrders
  BY <1>0, <1>6 DEF QueryPayOrders, world, TypeOK, Run
<1>7. CASE SaveState
  <2>1. run.read.pay # None
    BY <1>7 DEF SafetyInv, OrderInv, SaveState
  <2>2. run.read \in [date: Nat, pay: Nat, snap: Nat, newest: Nat]
    BY <1>0, <2>1 DEF TypeOK, Run, SourceRow
  <2>3. state' \in StateFile
    BY <1>0, <1>7, <2>2 DEF SaveState, NextState, NoGrowth, Since, TypeOK, StateFile, Time
  <2>4. checks' \in Seq(Check)
    BY <1>0, <1>7, <2>2 DEF SaveState, TypeOK, Check
  <2>5. run' \in Run
    BY <1>0, <1>7 DEF SaveState, TypeOK, Run
  <2> QED BY <1>0, <1>7, <2>3, <2>4, <2>5 DEF SaveState, world, TypeOK, Check
<1>8. CASE RememberAlert
  <2>1. state' \in StateFile /\ run' \in Run
    BY <1>0, <1>8 DEF RememberAlert, TypeOK, StateFile, Run, Time
  <2> QED BY <1>0, <1>8, <2>1 DEF RememberAlert, world, TypeOK
<1>9. CASE PrintAlert
  <2>1. state.since \in Time
    <3>1. state.since # None /\ \E m \in DOMAIN checks : CheckedAt(m) = state.since
      BY <1>9 DEF SafetyInv, StateInv, PrintAlert, SilentFrom
    <3> QED BY <1>0, <3>1, CheckTypes DEF CheckedAt, Check
  <2>2. [at |-> now, since |-> state.since, row |-> run.read] \in Alert
    BY <1>0, <2>1 DEF TypeOK, Run, Alert
  <2>3. alerts' \in Seq(Alert)
    BY <1>0, <1>9, <2>2 DEF PrintAlert, TypeOK, Alert
  <2>4. run' \in Run
    BY <1>0, <1>9 DEF PrintAlert, TypeOK, Run
  <2> QED BY <1>0, <1>9, <2>3, <2>4 DEF PrintAlert, world, TypeOK, Alert
<1>10. CASE Crash
  <2>1. checks' \in Seq(Check)
    BY <1>0, <1>10, Crashed
  <2>2. run' \in Run
    BY <1>0, <1>10 DEF Crash, TypeOK, Run
  <2> QED BY <1>0, <1>10, <2>1, <2>2 DEF Crash, world, TypeOK, Check
<1> QED BY <1>1, <1>2, <1>3, <1>4, <1>5, <1>6, <1>7, <1>8, <1>9, <1>10 DEF Next, World, Watch

-----------------------------------------------------------------------------
(* The order of the checks.                                                *)
LEMMA NextOrder == SafetyInv /\ [Next]_vars => OrderInv'
<1> SUFFICES ASSUME SafetyInv, [Next]_vars PROVE OrderInv'
  OBVIOUS
<1>0. TypeOK /\ OrderInv
  BY DEF SafetyInv
<1>1. CASE UNCHANGED <<now, run, checks>>
  BY <1>1, <1>0 DEF OrderInv, CheckedAt
<1>2. CASE Tick \/ NextDay
  <2>1. now' = now + 1 /\ now \in Nat /\ run.pc = "idle" /\ UNCHANGED <<run, checks>>
    BY <1>2, <1>0, StateTypes DEF Tick, NextDay
  <2>2. \A n \in DOMAIN checks : CheckedAt(n) \in Nat /\ CheckedAt(n) <= now
    BY <1>0, CheckTypes DEF OrderInv
  <2> QED BY <1>0, <2>1, <2>2 DEF OrderInv, CheckedAt
<1>3. CASE QueryPayOrders
  BY <1>3, <1>0, CheckTypes, StateTypes DEF QueryPayOrders, world, OrderInv, CheckedAt
<1>4. CASE SaveState
  <2>1. PICK L \in Nat : L = Len(checks)
    BY <1>0, CheckTypes
  <2>2. /\ Len(checks') = L + 1 /\ DOMAIN checks' = 1..(L + 1) /\ DOMAIN checks = 1..L
        /\ \A n \in 1..L : checks'[n] = checks[n]
        /\ checks'[L + 1] = [at |-> now, row |-> run.read, killed |-> FALSE]
    BY <1>0, <1>4, <2>1, Saved, CheckTypes
  <2>3. run.pc = "read" /\ now' = now /\ run'.read = run.read /\ run'.pc \in {"idle", "remember"}
    BY <1>0, <1>4 DEF SaveState, world, TypeOK, Run
  <2>4. \A n \in 1..L : CheckedAt(n) \in Nat /\ CheckedAt(n) < now
    BY <1>0, <2>2, <2>3, CheckTypes DEF OrderInv
  <2>5. checks'[Len(checks')].at = now' /\ checks'[Len(checks')].row = run'.read /\ checks' # <<>>
    BY <2>2, <2>3
  <2>6. \A i, j \in 1..(L + 1) : i < j => checks'[i].at < checks'[j].at
    BY <1>0, <2>2, <2>4 DEF OrderInv, CheckedAt
  <2>7. \A n \in 1..(L + 1) : checks'[n].at <= now'
    <3>1. now \in Nat
      BY <1>0, StateTypes
    <3> QED BY <2>2, <2>3, <2>4, <3>1 DEF CheckedAt
  <2> QED BY <2>2, <2>3, <2>5, <2>6, <2>7 DEF OrderInv, CheckedAt
<1>5. CASE RememberAlert
  BY <1>5, <1>0 DEF RememberAlert, world, OrderInv, CheckedAt, TypeOK, Run
<1>6. CASE PrintAlert
  BY <1>6, <1>0 DEF PrintAlert, world, OrderInv, CheckedAt, TypeOK, Run
<1>7. CASE Crash
  <2>1. SameChecks
    BY <1>0, <1>7, Crashed
  <2>2. run'.pc = "idle" /\ now' = now
    BY <1>0, <1>7 DEF Crash, world, TypeOK, Run
  <2> QED BY <1>0, <2>1, <2>2 DEF OrderInv, SameChecks, CheckedAt
<1> QED
  BY <1>1, <1>2, <1>3, <1>4, <1>5, <1>6, <1>7
  DEF Next, World, Watch, PayOrder, Collect, vars

-----------------------------------------------------------------------------
(* The rows read are successive states of the source.                      *)

LEMMA PrecedesNext ==
    ASSUME SafetyInv, World,
           NEW r, r.date \in Nat, r.pay \in Nat, r.newest \in Nat, Precedes(r, source)
    PROVE  Precedes(r, source')
<1>0. TypeOK /\ SourceInv
  BY DEF SafetyInv
<1>1. CASE Collect
  <2>1. /\ source'.date = days /\ source'.pay = orders
        /\ source'.newest = IF unseen THEN now ELSE source.newest
    BY <1>1 DEF Collect
  <2>2. r.date <= source'.date
    BY <1>0, <2>1 DEF Precedes, SourceInv
  <2>3. ASSUME r.date = source'.date
        PROVE  /\ r.pay # None /\ source'.pay # None /\ r.pay <= source'.pay
               /\ r.pay = source'.pay => r.newest = source'.newest
    <3>1. r.date = source.date
      BY <1>0, <2>1, <2>3 DEF SourceInv
    <3>2. source.pay \in Nat /\ r.pay <= source.pay /\ (r.pay = source.pay => r.newest = source.newest)
      BY <1>0, <3>1, StateTypes DEF Precedes
    <3>3. source.pay <= orders /\ (unseen => source.pay # orders) /\ orders \in Nat
      BY <1>0, <3>2, StateTypes DEF SourceInv
    <3> QED BY <1>0, <2>1, <3>2, <3>3, StateTypes
  <2> QED BY <2>2, <2>3 DEF Precedes
<1>2. CASE NextDay
  <2>1. source'.date = days + 1 /\ days \in Nat /\ source.date = days
    <3>1. source \in SourceRow /\ source' = [source EXCEPT !.date = days + 1, !.pay = None]
      BY <1>0, <1>2 DEF NextDay, TypeOK
    <3>2. [source EXCEPT !.date = days + 1, !.pay = None].date = days + 1
      BY <3>1 DEF SourceRow
    <3> QED BY <1>0, <3>1, <3>2, StateTypes DEF SourceInv
  <2> QED BY <2>1 DEF Precedes
<1>3. CASE UNCHANGED source
  BY <1>3 DEF Precedes
<1> QED BY <1>1, <1>2, <1>3 DEF World, Tick, PayOrder

LEMMA NextSource == SafetyInv /\ [Next]_vars => SourceInv'
<1> SUFFICES ASSUME SafetyInv, [Next]_vars PROVE SourceInv'
  OBVIOUS
<1>0. TypeOK /\ OrderInv /\ SourceInv
  BY DEF SafetyInv
<1>1. CASE UNCHANGED <<world, checks>> /\ (run' = run \/ run'.pc # "read")
  BY <1>1, <1>0 DEF world, SourceInv, CheckedAt
<1>2. CASE World
  <2>1. /\ source'.date = days' /\ source'.newest <= now'
        /\ source'.pay # None => source'.pay <= orders' /\ (unseen' => source'.pay # orders')
        /\ now <= now'
    <3>1. CASE Tick
      BY <3>1, <1>0, StateTypes DEF Tick, SourceInv
    <3>2. CASE PayOrder
      BY <3>2, <1>0, StateTypes DEF PayOrder, SourceInv
    <3>3. CASE Collect
      BY <3>3, <1>0, StateTypes DEF Collect, SourceInv
    <3>4. CASE NextDay
      <4>1. source \in SourceRow /\ source' = [source EXCEPT !.date = days + 1, !.pay = None]
        BY <1>0, <3>4 DEF NextDay, TypeOK
      <4>2. source'.date = days + 1 /\ source'.pay = None /\ source'.newest = source.newest
        BY <4>1 DEF SourceRow
      <4>3. days' = days + 1 /\ now' = now + 1
        BY <3>4 DEF NextDay
      <4> QED BY <1>0, <4>2, <4>3, StateTypes DEF SourceInv
    <3> QED BY <1>2, <3>1, <3>2, <3>3, <3>4 DEF World
  <2>2. UNCHANGED <<run, checks>>
    BY <1>2 DEF World, Tick, PayOrder, Collect, NextDay
  <2>3. \A n \in DOMAIN checks : Precedes(checks[n].row, source')
    BY <1>0, <1>2, PrecedesNext, CheckTypes DEF SourceInv
  <2>4. run.pc = "read" => run.read.newest <= now' /\ Precedes(run.read, source')
    <3>1. SUFFICES ASSUME run.pc = "read"
                   PROVE  run.read.newest <= now' /\ Precedes(run.read, source')
      OBVIOUS
    <3>2. run.read.date \in Nat /\ run.read.pay \in Nat /\ run.read.newest \in Nat
      BY <1>0, <3>1, StateTypes DEF OrderInv
    <3>3. now \in Nat /\ now' \in Nat
      BY <1>2, <1>0, StateTypes DEF World, Tick, PayOrder, Collect, NextDay
    <3> QED BY <1>0, <1>2, <2>1, <3>1, <3>2, <3>3, PrecedesNext DEF SourceInv
  <2> QED BY <1>0, <2>1, <2>2, <2>3, <2>4 DEF SourceInv, CheckedAt
<1>3. CASE QueryPayOrders
  <2>1. run'.read = source /\ source.pay # None /\ UNCHANGED <<world, checks>>
    BY <1>3 DEF QueryPayOrders
  <2>2. Precedes(source, source)
    BY <1>0, <2>1, StateTypes DEF Precedes
  <2> QED BY <1>0, <2>1, <2>2 DEF SourceInv, world, CheckedAt
<1>4. CASE SaveState
  <2>1. PICK L \in Nat : L = Len(checks)
    BY <1>0, CheckTypes
  <2>2. /\ DOMAIN checks' = 1..(L + 1) /\ DOMAIN checks = 1..L
        /\ \A n \in 1..L : checks'[n] = checks[n]
        /\ checks'[L + 1].at = now /\ checks'[L + 1].row = run.read
    BY <1>0, <1>4, <2>1, Saved, CheckTypes
  <2>3. run.pc = "read" /\ run'.pc # "read" /\ UNCHANGED world
    BY <1>0, <1>4 DEF SaveState, TypeOK, Run
  <2>4. \A n \in 1..(L + 1) :
           checks'[n].row.newest <= checks'[n].at /\ Precedes(checks'[n].row, source)
    BY <1>0, <2>2, <2>3 DEF SourceInv, CheckedAt
  <2>5. Precedes(run.read, run.read)
    BY <1>0, <2>3, StateTypes DEF OrderInv, Precedes
  <2>6. \A i, j \in 1..(L + 1) : i <= j => Precedes(checks'[i].row, checks'[j].row)
    BY <1>0, <2>2, <2>3, <2>5 DEF SourceInv
  <2> QED BY <1>0, <2>2, <2>3, <2>4, <2>6 DEF SourceInv, world, CheckedAt
<1>5. CASE Crash
  <2>1. SameChecks
    BY <1>0, <1>5, Crashed
  <2>2. run'.pc = "idle" /\ UNCHANGED world
    BY <1>0, <1>5 DEF Crash, TypeOK, Run
  <2> QED BY <1>0, <2>1, <2>2 DEF SourceInv, SameChecks, world, CheckedAt
<1>6. CASE RememberAlert \/ PrintAlert
  <2>1. UNCHANGED <<world, checks>> /\ run'.pc # "read"
    BY <1>0, <1>6 DEF RememberAlert, PrintAlert, TypeOK, Run
  <2> QED BY <1>1, <2>1
<1>7. CASE UNCHANGED vars
  BY <1>1, <1>7 DEF vars, world
<1> QED BY <1>2, <1>3, <1>4, <1>5, <1>6, <1>7 DEF Next, Watch

-----------------------------------------------------------------------------
(* The state file.                                                         *)

(* A run that saves its state goes on with a silence, or saw the number    *)
(* grow, or read old data, or is the first.                                *)
LEMMA SavedState ==
    ASSUME SafetyInv, SaveState, NEW L \in Nat, L = Len(checks)
    PROVE  /\ run.pc = "read" /\ UNCHANGED world
           /\ state'.pay = run.read.pay /\ state'.snap = run.read.snap
           /\ \/ /\ L > 0 /\ ~ Grew(L + 1)' /\ ~ Stale(L + 1)'
                 /\ run.read.pay <= checks[L].row.pay
                 /\ state'.since = Since /\ state'.alerted = state.alerted
              \/ /\ L = 0 \/ Grew(L + 1)' \/ Stale(L + 1)'
                 /\ state'.since = None /\ state'.alerted = None
<1>0. TypeOK /\ OrderInv /\ StateInv
  BY DEF SafetyInv
<1>1. run.pc = "read" /\ UNCHANGED world /\ state' = NextState(run.read) /\ run.read.pay # None
  BY <1>0 DEF SaveState, OrderInv
<1>2. /\ Grew(L + 1)' <=> L > 0 /\ run.read.pay > checks[L].row.pay
      /\ Stale(L + 1)' <=> L > 0 /\ run.read.snap = checks[L].row.snap
  BY <1>0, Saved
<1>3. L > 0 => /\ state.pay = checks[L].row.pay /\ state.snap = checks[L].row.snap
               /\ checks[L].row.pay \in Nat /\ checks[L].row.snap \in Nat
  <2>1. L > 0 => checks # <<>> /\ L \in DOMAIN checks
    BY <1>0, CheckTypes
  <2> QED BY <1>0, <2>1, CheckTypes DEF StateInv
<1>4. L = 0 => state.pay = None
  <2>1. L = 0 => checks = <<>>
    <3>1. checks # <<>> => Len(checks) \in DOMAIN checks
      BY <1>0, CheckTypes DEF TypeOK
    <3> QED BY <1>0, <3>1, CheckTypes
  <2> QED BY <1>0, <2>1 DEF StateInv, NoState
<1>5. run.read.pay \in Nat /\ None \notin Int
  BY <1>0, <1>1, StateTypes
<1>6. CASE NoGrowth(run.read)
  <2>1. L > 0 /\ run.read.pay <= checks[L].row.pay /\ run.read.snap # checks[L].row.snap
    BY <1>3, <1>4, <1>5, <1>6 DEF NoGrowth, SnapshotRefreshed
  <2>2. /\ state'.pay = run.read.pay /\ state'.snap = run.read.snap
        /\ state'.since = Since /\ state'.alerted = state.alerted
    BY <1>1, <1>6 DEF NextState
  <2> QED BY <1>1, <1>2, <1>3, <1>5, <2>1, <2>2
<1>7. CASE ~ NoGrowth(run.read)
  <2>1. L = 0 \/ run.read.pay > checks[L].row.pay \/ run.read.snap = checks[L].row.snap
    BY <1>3, <1>5, <1>7 DEF NoGrowth, SnapshotRefreshed
  <2>2. /\ state'.pay = run.read.pay /\ state'.snap = run.read.snap
        /\ state'.since = None /\ state'.alerted = None
    BY <1>1, <1>7 DEF NextState
  <2> QED BY <1>1, <1>2, <2>1, <2>2
<1> QED BY <1>6, <1>7

LEMMA SaveKeepsState == SafetyInv /\ SaveState => StateInv'
<1> SUFFICES ASSUME SafetyInv, SaveState PROVE StateInv'
  OBVIOUS
<1>0. TypeOK /\ OrderInv /\ StateInv
  BY DEF SafetyInv
<1>1. PICK L \in Nat : L = Len(checks)
  BY <1>0, CheckTypes
<1>2. /\ Len(checks') = L + 1 /\ DOMAIN checks' = 1..(L + 1) /\ DOMAIN checks = 1..L
      /\ \A n \in 1..L : checks'[n] = checks[n]
      /\ checks'[L + 1].at = now /\ checks'[L + 1].row = run.read
      /\ \A n \in 1..L : (Grew(n)' <=> Grew(n)) /\ (Stale(n)' <=> Stale(n))
  <2>1. /\ Len(checks') = L + 1 /\ DOMAIN checks' = 1..(L + 1)
        /\ \A n \in 1..L : checks'[n] = checks[n]
        /\ checks'[L + 1] = [at |-> now, row |-> run.read, killed |-> FALSE]
    BY <1>0, <1>1, Saved
  <2>2. \A n \in 1..L : (Grew(n)' <=> Grew(n)) /\ (Stale(n)' <=> Stale(n))
    BY <1>0, <1>1, Saved
  <2> QED BY <1>0, <1>1, <2>1, <2>2, CheckTypes
<1>3. /\ run.pc = "read" /\ now' = now
      /\ state'.pay = run.read.pay /\ state'.snap = run.read.snap
      /\ \/ /\ L > 0 /\ ~ Grew(L + 1)' /\ ~ Stale(L + 1)'
            /\ run.read.pay <= checks[L].row.pay
            /\ state'.since = Since /\ state'.alerted = state.alerted
         \/ /\ L = 0 \/ Grew(L + 1)' \/ Stale(L + 1)'
            /\ state'.since = None /\ state'.alerted = None
  BY <1>1, SavedState DEF world
<1>4. checks' # <<>>
  BY <1>2
<1>5. now \in Nat /\ None \notin Int /\ now # None /\ run.read.pay \in Nat
  BY <1>0, <1>3, StateTypes DEF OrderInv
<1>6. ASSUME state'.since # None
      PROVE  \E m \in DOMAIN checks' : SilentFrom(m)'
  <2>1. /\ L > 0 /\ ~ Ends(L + 1)' /\ run.read.pay <= checks[L].row.pay
        /\ state'.since = Since
    BY <1>3, <1>6 DEF Ends
  <2>2. CASE state.since = None
    <3>1. state'.since = now
      BY <2>1, <2>2 DEF Since
    <3>2. SilentFrom(L + 1)'
      <4>1. \A n \in (L + 1)..Len(checks') : ~ Ends(n)'
        BY <1>2, <2>1
      <4>2. PICK m \in Nat : m = L + 1
        OBVIOUS
      <4>3. /\ m > 1 /\ checks'[m].at = state'.since
            /\ checks'[Len(checks')].row.pay <= checks'[m].row.pay
        BY <1>2, <1>5, <2>1, <3>1, <4>2
      <4> QED BY <1>1, <4>1, <4>2, <4>3 DEF SilentFrom, CheckedAt
    <3> QED BY <1>2, <3>2
  <2>3. CASE state.since # None
    <3>1. PICK m \in DOMAIN checks : SilentFrom(m)
      BY <1>0, <2>3 DEF StateInv
    <3>2. m \in 1..L /\ m > 1 /\ checks[m].at = state.since /\ state'.since = state.since
          /\ (\A n \in m..L : ~ Ends(n)) /\ checks[L].row.pay <= checks[m].row.pay
      BY <1>1, <1>2, <2>1, <2>3, <3>1 DEF SilentFrom, CheckedAt, Since
    <3>3. \A n \in m..Len(checks') : ~ Ends(n)'
      BY <1>2, <2>1, <3>2 DEF Ends
    <3>4. checks'[Len(checks')].row.pay <= checks'[m].row.pay
      <4>1. checks[L].row.pay \in Nat /\ checks[m].row.pay \in Nat
        BY <1>0, <1>2, <2>1, <3>2, CheckTypes
      <4> QED BY <1>2, <1>5, <2>1, <3>2, <4>1
    <3>5. SilentFrom(m)'
      BY <1>2, <3>2, <3>3, <3>4 DEF SilentFrom, CheckedAt
    <3> QED BY <1>2, <3>2, <3>5
  <2> QED BY <2>2, <2>3
<1>7. state'.alerted # None => state'.since # None
  BY <1>0, <1>3, <1>5 DEF StateInv, Since
<1>8. ASSUME NEW i \in DOMAIN checks', i > 1,
             \A n \in i..Len(checks') : ~ Grew(n)' /\ ~ Stale(n)'
      PROVE  state'.since # None /\ state'.since <= checks'[i].at
  <2>1. L > 0 /\ state'.since = Since
    BY <1>2, <1>3, <1>8
  <2>2. CASE i = L + 1
    <3>1. state.since # None => state.since \in Nat /\ state.since <= now
      BY <1>0, StateTypes DEF StateInv, SilentFrom, OrderInv
    <3> QED BY <1>2, <1>5, <2>1, <2>2, <3>1 DEF Since
  <2>3. CASE i # L + 1
    <3>1. i \in DOMAIN checks /\ \A n \in i..Len(checks) : ~ Grew(n) /\ ~ Stale(n)
      BY <1>1, <1>2, <1>8, <2>3
    <3>2. state.since # None /\ state.since <= CheckedAt(i)
      BY <1>0, <1>8, <3>1 DEF StateInv
    <3> QED BY <1>2, <2>1, <3>1, <3>2 DEF Since, CheckedAt
  <2> QED BY <2>2, <2>3
<1>9. (run'.pc = "remember" => Due(state)') /\ run'.pc # "print"
  BY <1>0, <1>3 DEF SaveState, TypeOK, Run, Due
<1>10. state'.pay = checks'[Len(checks')].row.pay /\ state'.snap = checks'[Len(checks')].row.snap
  BY <1>2, <1>3
<1> QED BY <1>4, <1>6, <1>7, <1>8, <1>9, <1>10 DEF StateInv, CheckedAt

LEMMA NextStateInv == SafetyInv /\ [Next]_vars => StateInv'
<1> SUFFICES ASSUME SafetyInv, [Next]_vars PROVE StateInv'
  OBVIOUS
<1>0. TypeOK /\ OrderInv /\ StateInv
  BY DEF SafetyInv
<1>1. ASSUME SameChecks, UNCHANGED <<state.pay, state.snap, state.since>>,
             checks = <<>> => state' = state,
             state'.alerted # None => state'.since # None,
             run'.pc = "remember" => Due(state)',
             run'.pc = "print" =>
                state'.since # None /\ state'.alerted # None /\ now' - state'.since >= NO_NEW_ORDER
      PROVE  StateInv'
  <2>1. /\ checks' = <<>> => state' = NoState
        /\ checks' # <<>> => /\ state'.pay = checks'[Len(checks')].row.pay
                             /\ state'.snap = checks'[Len(checks')].row.snap
    <3>1. checks # <<>> => Len(checks) \in DOMAIN checks
      BY <1>0, CheckTypes DEF TypeOK
    <3> QED BY <1>0, <1>1, <3>1 DEF StateInv, SameChecks
  <2>2. state'.since # None => \E m \in DOMAIN checks' : SilentFrom(m)'
    <3>1. SUFFICES ASSUME state'.since # None PROVE \E m \in DOMAIN checks' : SilentFrom(m)'
      OBVIOUS
    <3>2. PICK m \in DOMAIN checks : SilentFrom(m)
      BY <1>0, <1>1, <3>1 DEF StateInv
    <3>3. Len(checks) \in DOMAIN checks /\ m \in 1..Len(checks) /\ DOMAIN checks = 1..Len(checks)
      BY <1>0, <3>2, CheckTypes
    <3>4. \A n \in m..Len(checks) : ~ Ends(n)'
      BY <1>1, <3>2, <3>3 DEF SilentFrom, SameChecks, Ends
    <3>5. SilentFrom(m)'
      BY <1>1, <3>2, <3>3, <3>4 DEF SilentFrom, SameChecks, CheckedAt
    <3> QED BY <1>1, <3>2, <3>5 DEF SameChecks
  <2>3. ASSUME NEW i \in DOMAIN checks', i > 1,
               \A n \in i..Len(checks') : ~ Grew(n)' /\ ~ Stale(n)'
        PROVE  state'.since # None /\ state'.since <= checks'[i].at
    <3>1. i \in DOMAIN checks /\ \A n \in i..Len(checks) : ~ Grew(n) /\ ~ Stale(n)
      BY <1>0, <1>1, <2>3, CheckTypes DEF SameChecks
    <3> QED BY <1>0, <1>1, <2>3, <3>1 DEF StateInv, SameChecks, CheckedAt
  <2> QED BY <1>1, <2>1, <2>2, <2>3 DEF StateInv, CheckedAt
<1>2. CASE UNCHANGED <<now, state, run, checks>>
  <2>1. SameChecks
    BY <1>0, <1>2, SameWhenUnchanged
  <2> QED BY <1>0, <1>1, <1>2, <2>1 DEF StateInv, Due
<1>3. CASE Tick \/ NextDay
  <2>1. SameChecks
    BY <1>0, <1>3, SameWhenUnchanged DEF Tick, NextDay
  <2>2. run'.pc = "idle" /\ UNCHANGED state
    BY <1>3 DEF Tick, NextDay
  <2> QED BY <1>0, <1>1, <2>1, <2>2 DEF StateInv
<1>4. CASE QueryPayOrders
  <2>1. SameChecks
    BY <1>0, <1>4, SameWhenUnchanged DEF QueryPayOrders
  <2>2. run'.pc = "read" /\ UNCHANGED state
    BY <1>4 DEF QueryPayOrders
  <2> QED BY <1>0, <1>1, <2>1, <2>2 DEF StateInv
<1>5. CASE SaveState
  BY <1>5, SaveKeepsState
<1>6. CASE RememberAlert
  <2>1. SameChecks
    BY <1>0, <1>6, SameWhenUnchanged DEF RememberAlert
  <2>2. state \in StateFile /\ state' = [state EXCEPT !.alerted = now] /\ now' = now
    BY <1>0, <1>6 DEF RememberAlert, TypeOK, world
  <2>3. state'.pay = state.pay /\ state'.snap = state.snap /\ state'.since = state.since /\ state'.alerted = now
    BY <2>2 DEF StateFile
  <2>4. run'.pc = "print" /\ Due(state) /\ checks # <<>>
    BY <1>0, <1>6 DEF RememberAlert, TypeOK, Run, StateInv, OrderInv
  <2>5. now # None
    BY <1>0, StateTypes
  <2> QED BY <1>1, <2>1, <2>2, <2>3, <2>4, <2>5 DEF Due
<1>7. CASE PrintAlert
  <2>1. SameChecks
    BY <1>0, <1>7, SameWhenUnchanged DEF PrintAlert
  <2>2. run'.pc = "idle" /\ UNCHANGED state
    BY <1>0, <1>7 DEF PrintAlert, TypeOK, Run
  <2> QED BY <1>0, <1>1, <2>1, <2>2 DEF StateInv
<1>8. CASE Crash
  <2>1. SameChecks
    BY <1>0, <1>8, Crashed
  <2>2. run'.pc = "idle" /\ UNCHANGED state
    BY <1>0, <1>8 DEF Crash, TypeOK, Run
  <2> QED BY <1>0, <1>1, <2>1, <2>2 DEF StateInv
<1> QED
  BY <1>2, <1>3, <1>4, <1>5, <1>6, <1>7, <1>8
  DEF Next, World, Watch, PayOrder, Collect, vars

-----------------------------------------------------------------------------
(* The alerts.                                                             *)

LEMMA NextAlert == SafetyInv /\ [Next]_vars => AlertInv'
<1> SUFFICES ASSUME SafetyInv, [Next]_vars PROVE AlertInv'
  OBVIOUS
<1>0. TypeOK /\ OrderInv /\ SourceInv /\ StateInv /\ AlertInv
  BY DEF SafetyInv
<1>1. CASE UNCHANGED <<checks, alerts>>
  BY <1>0, <1>1 DEF AlertInv, SameDate, Grew, CheckedAt
<1>2. CASE SaveState
  <2>1. PICK L \in Nat : L = Len(checks)
    BY <1>0, CheckTypes
  <2>2. /\ DOMAIN checks' = 1..(L + 1) /\ DOMAIN checks = 1..L
        /\ \A n \in 1..L : checks'[n] = checks[n]
        /\ checks'[L + 1].at = now
    BY <1>0, <1>2, <2>1, Saved, CheckTypes
  <2>3. \A n \in 1..L : Grew(n)' <=> Grew(n)
    BY <1>0, <1>2, <2>1, Saved
  <2>4. UNCHANGED alerts /\ \A n \in 1..L : checks[n].at \in Nat /\ checks[n].at < now
    BY <1>0, <1>2, <2>2, CheckTypes DEF SaveState, OrderInv, CheckedAt
  <2>5. now \in Nat
    BY <1>0, StateTypes
  <2>6. ASSUME NEW a \in DOMAIN alerts
        PROVE  /\ alerts[a].at - alerts[a].since >= NO_NEW_ORDER
               /\ \E n \in DOMAIN checks' : checks'[n].at = alerts[a].since
               /\ \E n \in DOMAIN checks' : checks'[n].at = alerts[a].at
               /\ \A n \in DOMAIN checks' :
                     alerts[a].since <= checks'[n].at /\ checks'[n].at <= alerts[a].at => ~ Grew(n)'
               /\ SameDate(a)' => alerts[a].at - alerts[a].row.newest >= NO_NEW_ORDER
    <3>1. PICK s \in 1..L, t \in 1..L : checks[s].at = alerts[a].since /\ checks[t].at = alerts[a].at
      BY <1>0, <2>2 DEF AlertInv, CheckedAt
    <3>2. alerts[a].since < now /\ alerts[a].at < now
      BY <2>4, <3>1
    <3>3. SameDate(a)' => SameDate(a)
      BY <2>2, <2>4, <2>5, <3>2 DEF SameDate, CheckedAt
    <3>4. \A n \in 1..(L + 1) :
             alerts[a].since <= checks'[n].at /\ checks'[n].at <= alerts[a].at => ~ Grew(n)'
      <4>1. \A n \in 1..L :
               alerts[a].since <= checks[n].at /\ checks[n].at <= alerts[a].at => ~ Grew(n)
        BY <1>0, <2>2 DEF AlertInv, CheckedAt
      <4>2. ~ (checks'[L + 1].at <= alerts[a].at)
        BY <2>2, <2>4, <2>5, <3>1, <3>2
      <4> QED BY <2>2, <2>3, <4>1, <4>2
    <3>5. /\ alerts[a].at - alerts[a].since >= NO_NEW_ORDER
          /\ SameDate(a) => alerts[a].at - alerts[a].row.newest >= NO_NEW_ORDER
      BY <1>0 DEF AlertInv
    <3>6. \E n \in DOMAIN checks' : checks'[n].at = alerts[a].since
      BY <2>2, <3>1
    <3>7. \E n \in DOMAIN checks' : checks'[n].at = alerts[a].at
      BY <2>2, <3>1
    <3> QED BY <2>2, <3>3, <3>4, <3>5, <3>6, <3>7
  <2> QED BY <2>4, <2>6 DEF AlertInv, CheckedAt
<1>3. CASE PrintAlert
  <2>1. PICK A \in Nat : A = Len(alerts)
    BY <1>0, AlertTypes
  <2>2. /\ DOMAIN alerts' = 1..(A + 1) /\ DOMAIN alerts = 1..A
        /\ \A a \in 1..A : alerts'[a] = alerts[a]
        /\ alerts'[A + 1] = [at |-> now, since |-> state.since, row |-> run.read]
    BY <1>0, <1>3, <2>1, Printed, AlertTypes
  <2>3. UNCHANGED checks /\ run.pc = "print"
    BY <1>3 DEF PrintAlert
  <2>4. PICK m \in DOMAIN checks : SilentFrom(m)
    BY <1>0, <2>3 DEF StateInv
  <2>5. PICK L \in Nat : L = Len(checks)
    BY <1>0, CheckTypes
  <2>6. /\ DOMAIN checks = 1..L /\ L \in 1..L /\ m \in 1..L
        /\ checks[L].at = now /\ checks[L].row = run.read /\ checks[m].at = state.since
        /\ now - state.since >= NO_NEW_ORDER
        /\ \A n \in m..L : ~ Grew(n)
    BY <1>0, <2>3, <2>4, <2>5, CheckTypes DEF OrderInv, StateInv, SilentFrom, Ends, CheckedAt
  <2>11. /\ \A n \in 1..L : checks[n].at \in Nat
         /\ \A i, j \in 1..L : i < j => checks[i].at < checks[j].at
    BY <1>0, <2>6, CheckTypes DEF OrderInv, CheckedAt
  <2>7. \A n \in DOMAIN checks : state.since <= checks[n].at => n \in m..L
    BY <2>6, <2>11
  <2>8. ASSUME NEW n \in DOMAIN checks, checks[n].at = state.since, checks[n].row.date = run.read.date
        PROVE  now - run.read.newest >= NO_NEW_ORDER
    <3>1. n = m
      BY <2>6, <2>11, <2>8
    <3>2. checks[m].row.pay \in Nat /\ checks[L].row.pay \in Nat
      BY <1>0, <2>6, CheckTypes
    <3>3. checks[L].row.pay <= checks[m].row.pay
      BY <2>4, <2>5 DEF SilentFrom
    <3>4. Precedes(checks[m].row, checks[L].row)
      BY <1>0, <2>6 DEF SourceInv
    <3>5. checks[m].row.newest = run.read.newest
      BY <2>6, <2>8, <3>1, <3>2, <3>3, <3>4 DEF Precedes
    <3>6. checks[m].row.newest <= checks[m].at /\ checks[m].row.newest \in Nat /\ checks[m].at \in Nat
      BY <1>0, <2>6, CheckTypes DEF SourceInv, CheckedAt
    <3>7. now \in Nat /\ NO_NEW_ORDER \in Nat /\ run.read.newest \in Nat
      BY <1>0, StateTypes
    <3> QED BY <2>6, <3>5, <3>6, <3>7
  <2>9. ASSUME NEW a \in 1..(A + 1)
        PROVE  /\ alerts'[a].at - alerts'[a].since >= NO_NEW_ORDER
               /\ \E n \in DOMAIN checks : checks[n].at = alerts'[a].since
               /\ \E n \in DOMAIN checks : checks[n].at = alerts'[a].at
               /\ \A n \in DOMAIN checks :
                     alerts'[a].since <= checks[n].at /\ checks[n].at <= alerts'[a].at => ~ Grew(n)
               /\ (\E n \in DOMAIN checks :
                      checks[n].at = alerts'[a].since /\ checks[n].row.date = alerts'[a].row.date) =>
                     alerts'[a].at - alerts'[a].row.newest >= NO_NEW_ORDER
    <3>1. CASE a \in 1..A
      BY <1>0, <2>2, <3>1 DEF AlertInv, SameDate, CheckedAt
    <3>2. CASE a = A + 1
      <4>1. alerts'[a].at = now /\ alerts'[a].since = state.since /\ alerts'[a].row = run.read
        BY <2>2, <3>2
      <4> QED BY <2>6, <2>7, <2>8, <4>1
    <3> QED BY <3>1, <3>2
  <2>10. \A n \in DOMAIN checks : Grew(n)' <=> Grew(n)
    BY <2>3 DEF Grew
  <2> QED BY <2>2, <2>3, <2>9, <2>10 DEF AlertInv, SameDate, CheckedAt
<1>4. CASE Crash
  <2>1. SameChecks /\ UNCHANGED alerts
    BY <1>0, <1>4, Crashed DEF Crash
  <2>2. \A a \in DOMAIN alerts : SameDate(a)' <=> SameDate(a)
    BY <2>1 DEF SameChecks, SameDate, CheckedAt
  <2> QED BY <1>0, <2>1, <2>2 DEF AlertInv, SameChecks, CheckedAt
<1> QED
  BY <1>1, <1>2, <1>3, <1>4
  DEF Next, World, Watch, Tick, PayOrder, Collect, NextDay, QueryPayOrders, RememberAlert, vars

LEMMA NextOnce == SafetyInv /\ [Next]_vars => OnceInv'
<1> SUFFICES ASSUME SafetyInv, [Next]_vars PROVE OnceInv'
  OBVIOUS
<1>0. TypeOK /\ OrderInv /\ StateInv /\ AlertInv /\ OnceInv
  BY DEF SafetyInv
<1>1. CASE UNCHANGED <<state, checks, alerts>> /\ (run' = run \/ (run.pc # "print" /\ run'.pc # "print"))
  BY <1>0, <1>1 DEF OnceInv, Told, CheckedAt
<1>2. CASE SaveState
  <2>1. PICK L \in Nat : L = Len(checks)
    BY <1>0, CheckTypes
  <2>2. /\ run.pc = "read"
        /\ \/ state'.since = Since /\ state'.alerted = state.alerted
           \/ state'.since = None /\ state'.alerted = None
    BY <1>2, <2>1, SavedState
  <2>3. /\ DOMAIN checks' = 1..(L + 1) /\ DOMAIN checks = 1..L
        /\ \A n \in 1..L : checks'[n] = checks[n]
    BY <1>0, <1>2, <2>1, Saved, CheckTypes
  <2>4. UNCHANGED alerts /\ run'.pc # "print"
    BY <1>0, <1>2 DEF SaveState, TypeOK, Run
  <2>5. \A a \in DOMAIN alerts : alerts[a].since # now
    <3>1. \A n \in DOMAIN checks : CheckedAt(n) \in Nat /\ CheckedAt(n) < now
      BY <1>0, <2>2, CheckTypes DEF OrderInv
    <3> QED BY <1>0, <3>1, StateTypes DEF AlertInv
  <2>6. state'.since # None /\ state'.alerted = None => ~ Told'
    <3>1. SUFFICES ASSUME state'.since # None, state'.alerted = None
                   PROVE  \A a \in DOMAIN alerts : alerts[a].since # state'.since
      BY <2>4 DEF Told
    <3>2. state'.since = Since /\ state.alerted = None
      BY <2>2, <3>1
    <3> QED BY <1>0, <2>5, <3>2 DEF OnceInv, Told, Since
  <2>7. state'.alerted # None => Told' \/ \E n \in DOMAIN checks' : checks'[n].killed /\ state'.since <= checks'[n].at
    <3>1. SUFFICES ASSUME state'.alerted # None
                   PROVE  Told' \/ \E n \in DOMAIN checks' : checks'[n].killed /\ state'.since <= checks'[n].at
      OBVIOUS
    <3>2. state'.since = state.since /\ state.alerted # None
      BY <1>0, <2>2, <3>1 DEF StateInv, Since
    <3>3. Told \/ \E n \in DOMAIN checks : checks[n].killed /\ state.since <= checks[n].at
      BY <1>0, <2>2, <3>2 DEF OnceInv, CheckedAt
    <3>4. Told => Told'
      BY <2>4, <3>2 DEF Told
    <3> QED BY <2>3, <3>2, <3>3, <3>4
  <2> QED BY <1>0, <2>4, <2>6, <2>7 DEF OnceInv, CheckedAt
<1>3. CASE RememberAlert
  <2>1. state \in StateFile /\ state' = [state EXCEPT !.alerted = now] /\ Due(state) /\ now # None
    BY <1>0, <1>3, StateTypes DEF RememberAlert, TypeOK, StateInv
  <2>2. state'.since = state.since /\ state'.alerted = now
    BY <2>1 DEF StateFile
  <2>3. run'.pc = "print" /\ UNCHANGED <<checks, alerts>>
    BY <1>0, <1>3 DEF RememberAlert, TypeOK, Run
  <2>4. ~ Told
    BY <1>0, <2>1 DEF OnceInv, Due
  <2>5. ~ Told'
    BY <2>2, <2>3, <2>4 DEF Told
  <2> QED BY <1>0, <2>3, <2>5 DEF OnceInv
<1>4. CASE PrintAlert
  <2>1. PICK A \in Nat : A = Len(alerts)
    BY <1>0, AlertTypes
  <2>2. /\ DOMAIN alerts' = 1..(A + 1) /\ DOMAIN alerts = 1..A
        /\ \A a \in 1..A : alerts'[a] = alerts[a]
        /\ alerts'[A + 1].since = state.since
    BY <1>0, <1>4, <2>1, Printed, AlertTypes
  <2>3. run.pc = "print" /\ run'.pc = "idle" /\ UNCHANGED <<state, checks>>
    BY <1>0, <1>4 DEF PrintAlert, TypeOK, Run
  <2>4. state.since # None /\ state.alerted # None
    BY <1>0, <2>3 DEF StateInv
  <2>5. \A a \in 1..A : alerts[a].since # state.since
    BY <1>0, <2>2, <2>3, <2>4 DEF OnceInv, Told
  <2>6. \A a, b \in 1..(A + 1) : alerts'[a].since = alerts'[b].since => a = b
    BY <1>0, <2>2, <2>5 DEF OnceInv
  <2>7. Told'
    BY <2>2, <2>3 DEF Told
  <2> QED BY <2>2, <2>3, <2>4, <2>6, <2>7 DEF OnceInv
<1>5. CASE Crash
  <2>1. SameChecks /\ UNCHANGED <<state, alerts>> /\ run'.pc = "idle"
    BY <1>0, <1>5, Crashed DEF Crash, TypeOK, Run
  <2>2. Told' <=> Told
    BY <2>1 DEF Told
  <2>3. state.alerted # None => Told' \/ \E n \in DOMAIN checks' : checks'[n].killed /\ state'.since <= checks'[n].at
    <3>1. CASE run.pc = "print"
      <4>1. Len(checks) \in DOMAIN checks /\ checks # <<>> /\ checks[Len(checks)].at = now
        BY <1>0, <3>1, CheckTypes DEF OrderInv, TypeOK, CheckedAt
      <4>2. state.since <= now
        BY <1>0, <3>1 DEF StateInv, SilentFrom, OrderInv
      <4> QED BY <1>0, <1>5, <2>1, <3>1, <4>1, <4>2, Crashed DEF SameChecks
    <3>2. CASE run.pc # "print"
      BY <1>0, <2>1, <2>2, <3>2 DEF OnceInv, SameChecks, CheckedAt
    <3> QED BY <3>1, <3>2
  <2> QED BY <1>0, <2>1, <2>2, <2>3 DEF OnceInv, CheckedAt
<1>6. CASE World \/ UNCHANGED vars
  BY <1>1, <1>6 DEF World, Tick, PayOrder, Collect, NextDay, vars
<1>7. CASE QueryPayOrders
  <2>1. run.pc # "print" /\ run'.pc # "print" /\ UNCHANGED <<state, checks, alerts>>
    BY <1>7 DEF QueryPayOrders
  <2> QED BY <1>1, <2>1
<1> QED BY <1>2, <1>3, <1>4, <1>5, <1>6, <1>7 DEF Next, Watch

-----------------------------------------------------------------------------
(* No silence goes unreported.                                             *)

LEMMA NextDue == SafetyInv /\ [Next]_vars => DueInv'
<1> SUFFICES ASSUME SafetyInv, [Next]_vars PROVE DueInv'
  OBVIOUS
<1>0. TypeOK /\ OrderInv /\ StateInv /\ DueInv
  BY DEF SafetyInv
<1>1. CASE UNCHANGED <<state, checks>> /\ (run'.pc \in {"idle", "read"} => run.pc \in {"idle", "read"})
  BY <1>0, <1>1 DEF DueInv, CheckedAt
<1>2. CASE World \/ UNCHANGED vars
  BY <1>1, <1>2 DEF World, Tick, PayOrder, Collect, NextDay, vars
<1>3. CASE QueryPayOrders
  <2>1. UNCHANGED <<state, checks>> /\ run.pc = "idle"
    BY <1>3 DEF QueryPayOrders
  <2> QED BY <1>1, <2>1
<1>4. CASE SaveState
  <2>1. PICK L \in Nat : L = Len(checks)
    BY <1>0, CheckTypes
  <2>2. Len(checks') = L + 1 /\ checks'[L + 1].at = now
    BY <1>0, <1>4, <2>1, Saved
  <2>3. run'.pc = IF Due(state') THEN "remember" ELSE "idle"
    BY <1>0, <1>4 DEF SaveState, TypeOK, Run
  <2> QED BY <2>2, <2>3 DEF DueInv, Due, CheckedAt
<1>5. CASE RememberAlert
  BY <1>0, <1>5 DEF RememberAlert, TypeOK, Run, DueInv
<1>6. CASE PrintAlert
  <2>1. UNCHANGED state /\ run.pc = "print"
    BY <1>6 DEF PrintAlert
  <2> QED BY <1>0, <2>1 DEF StateInv, DueInv
<1>7. CASE Crash
  <2>1. SameChecks /\ UNCHANGED state
    BY <1>0, <1>7, Crashed DEF Crash
  <2>2. checks # <<>> => Len(checks) \in DOMAIN checks
    BY <1>0, CheckTypes DEF TypeOK
  <2>3. CASE run.pc = "read"
    BY <1>0, <2>1, <2>2, <2>3 DEF DueInv, SameChecks, CheckedAt
  <2>4. CASE run.pc # "read"
    BY <1>0, <1>7, <2>1, <2>4, Crashed DEF DueInv, SameChecks
  <2> QED BY <2>3, <2>4
<1> QED BY <1>2, <1>3, <1>4, <1>5, <1>6, <1>7 DEF Next, Watch

(* The silence in the state file goes on from its first check to the last. *)
LEMMA SilenceGoesOn ==
    ASSUME SafetyInv, state.since # None, NEW n \in DOMAIN checks, state.since <= CheckedAt(n)
    PROVE  ~ Ends(n)
<1>0. TypeOK /\ OrderInv /\ StateInv
  BY DEF SafetyInv
<1>1. PICK m \in DOMAIN checks : SilentFrom(m)
  BY <1>0 DEF StateInv
<1>2. DOMAIN checks = 1..Len(checks) /\ CheckedAt(n) \in Nat /\ CheckedAt(m) \in Nat
  BY <1>0, <1>1, CheckTypes
<1>3. ~ (n < m)
  BY <1>0, <1>1, <1>2 DEF OrderInv, SilentFrom
<1>4. n \in m..Len(checks)
  BY <1>1, <1>2, <1>3
<1> QED BY <1>1, <1>4 DEF SilentFrom

(* Between runs, the stretches of fresh checks up to the last check are    *)
(* reported.                                                               *)
LEMMA LastReported ==
    ASSUME SafetyInv, run.pc \in {"idle", "read"},
           NEW i \in DOMAIN checks, FreshSilence(i, Len(checks))
    PROVE  ReportedBetween(i, Len(checks))
<1> DEFINE L == Len(checks)
<1>0. TypeOK /\ OrderInv /\ StateInv /\ AlertInv /\ OnceInv /\ DueInv
  BY DEF SafetyInv
<1>1. L \in Nat /\ DOMAIN checks = 1..L /\ i \in 1..L /\ L \in 1..L /\ checks # <<>>
  BY <1>0, CheckTypes
<1>2. state.since # None /\ state.since <= CheckedAt(i)
  BY <1>0, <1>1 DEF StateInv, FreshSilence, Ends
<1>3. /\ CheckedAt(L) - CheckedAt(i) >= NO_NEW_ORDER /\ i < L
      /\ \A n \in DOMAIN checks : checks[n].killed => \E m \in (n+1)..i : Ends(m)
  BY <1>1 DEF FreshSilence
<1>4. ~ checks[L].killed
  BY <1>1, <1>3
<1>5. ASSUME NEW n \in DOMAIN checks, checks[n].killed PROVE ~ (state.since <= CheckedAt(n))
  <2>1. PICK m \in (n+1)..i : Ends(m)
    BY <1>3, <1>5
  <2>2. n \in 1..L /\ m \in DOMAIN checks /\ n < m
    BY <1>1, <2>1
  <2>3. CheckedAt(n) < CheckedAt(m) /\ CheckedAt(n) \in Nat /\ CheckedAt(m) \in Nat
    BY <1>0, <2>2, CheckTypes DEF OrderInv
  <2>4. state.since \in Nat
    BY <1>0, <1>2, StateTypes
  <2> QED BY <1>2, <2>1, <2>2, <2>3, <2>4, SilenceGoesOn
<1>6. state.since \in Nat /\ NO_NEW_ORDER \in Nat /\ CheckedAt(i) \in Nat /\ CheckedAt(L) \in Nat
  BY <1>0, <1>1, <1>2, CheckTypes, StateTypes
<1>7. CheckedAt(L) - state.since >= NO_NEW_ORDER
  BY <1>2, <1>3, <1>6
<1>8. state.alerted # None
  BY <1>0, <1>1, <1>2, <1>7, <1>4 DEF DueInv
<1>9. PICK a \in DOMAIN alerts : alerts[a].since = state.since
  BY <1>0, <1>8, <1>5 DEF OnceInv, Told
<1>10. PICK n \in DOMAIN checks : CheckedAt(n) = alerts[a].at
  BY <1>0, <1>9 DEF AlertInv
<1>11. CheckedAt(n) <= CheckedAt(L)
  <2>1. CASE n = L
    BY <1>6, <2>1
  <2>2. CASE n # L
    <3>1. n < L
      BY <1>1, <1>10, <2>2
    <3>2. CheckedAt(n) < CheckedAt(L)
      BY <1>0, <1>1, <1>10, <3>1 DEF OrderInv
    <3>3. CheckedAt(n) \in Nat
      BY <1>0, <1>10, CheckTypes
    <3> QED BY <1>6, <3>2, <3>3
  <2> QED BY <2>1, <2>2
<1>12. Unbroken(alerts[a].since, i)
  BY <1>2, <1>9, SilenceGoesOn DEF Unbroken
<1> QED BY <1>2, <1>9, <1>10, <1>11, <1>12 DEF ReportedBetween

LEMMA NextReport == SafetyInv /\ [Next]_vars => ReportInv'
<1> SUFFICES ASSUME SafetyInv, [Next]_vars PROVE ReportInv'
  OBVIOUS
<1>0. TypeOK /\ OrderInv /\ ReportInv
  BY DEF SafetyInv
<1>1. CASE UNCHANGED <<checks, alerts>>
  BY <1>0, <1>1 DEF ReportInv, FreshSilence, ReportedBetween, Unbroken, Ends, Grew, Stale, CheckedAt
<1>2. CASE SaveState
  <2>1. PICK L \in Nat : L = Len(checks)
    BY <1>0, CheckTypes
  <2>2. /\ Len(checks') = L + 1 /\ DOMAIN checks' = 1..(L + 1) /\ DOMAIN checks = 1..L
        /\ \A n \in 1..L : checks'[n] = checks[n]
        /\ checks'[L + 1].at = now
    BY <1>0, <1>2, <2>1, Saved, CheckTypes
  <2>3. \A n \in 1..L : Ends(n)' <=> Ends(n)
    BY <1>0, <1>2, <2>1, Saved DEF Ends
  <2>4. run.pc = "read" /\ UNCHANGED alerts
    BY <1>2 DEF SaveState
  <2>5. ASSUME NEW i \in DOMAIN checks', NEW j \in DOMAIN checks', FreshSilence(i, j)', j < Len(checks')
        PROVE  ReportedBetween(i, j)'
    <3>1. i \in 1..L /\ j \in 1..L /\ i < j
      BY <2>2, <2>5 DEF FreshSilence
    <3>2. FreshSilence(i, j)
      <4>1. i > 1 /\ i < j /\ checks'[j].at - checks'[i].at >= NO_NEW_ORDER
        BY <2>5 DEF FreshSilence, CheckedAt
      <4>2. \A n \in i..j : ~ Ends(n)'
        BY <2>5 DEF FreshSilence
      <4>3. \A n \in 1..j : checks'[n].killed => \E m \in (n+1)..i : Ends(m)'
        BY <2>5 DEF FreshSilence
      <4>4. \A n \in i..j : n \in 1..L
        BY <3>1
      <4>5. \A n \in 1..j : n \in 1..L /\ \A m \in (n+1)..i : m \in 1..L
        BY <3>1
      <4>6. \A n \in 1..j : checks[n].killed => \E m \in (n+1)..i : Ends(m)
        BY <2>2, <2>3, <4>3, <4>5
      <4>7. \A n \in i..j : ~ Ends(n)
        BY <2>3, <4>2, <4>4
      <4> QED BY <2>2, <3>1, <4>1, <4>6, <4>7 DEF FreshSilence, CheckedAt
    <3>3. ReportedBetween(i, j)
      <4>1. CASE j < L
        BY <1>0, <2>1, <2>2, <3>1, <3>2, <4>1 DEF ReportInv
      <4>2. CASE j = L
        BY <2>1, <2>2, <2>4, <3>1, <3>2, <4>2, LastReported
      <4> QED BY <3>1, <4>1, <4>2
    <3>4. PICK a \in DOMAIN alerts :
             /\ alerts[a].since <= CheckedAt(i) /\ alerts[a].at <= CheckedAt(j)
             /\ Unbroken(alerts[a].since, i)
      BY <3>3 DEF ReportedBetween
    <3>5. CheckedAt(i) < now /\ CheckedAt(i) \in Nat /\ now \in Nat
      BY <1>0, <2>2, <2>4, <3>1, CheckTypes, StateTypes DEF OrderInv
    <3>6. ASSUME NEW n \in DOMAIN checks', checks'[n].at <= CheckedAt(i) PROVE n \in 1..L
      BY <2>2, <3>5, <3>6
    <3>7. Unbroken(alerts[a].since, i)'
      BY <2>2, <2>3, <2>4, <3>1, <3>4, <3>6 DEF Unbroken, CheckedAt
    <3> QED BY <2>2, <2>4, <3>1, <3>4, <3>7 DEF ReportedBetween, CheckedAt
  <2> QED BY <2>5 DEF ReportInv
<1>3. CASE PrintAlert
  <2>1. PICK A \in Nat : A = Len(alerts)
    BY <1>0, AlertTypes
  <2>2. /\ DOMAIN alerts' = 1..(A + 1) /\ DOMAIN alerts = 1..A
        /\ \A a \in 1..A : alerts'[a] = alerts[a]
    BY <1>0, <1>3, <2>1, Printed, AlertTypes
  <2>3. UNCHANGED checks
    BY <1>3 DEF PrintAlert
  <2>4. \A i, j \in DOMAIN checks : ReportedBetween(i, j) => ReportedBetween(i, j)'
    BY <2>2, <2>3 DEF ReportedBetween, Unbroken, Ends, Grew, Stale, CheckedAt
  <2>5. \A i, j \in DOMAIN checks : FreshSilence(i, j)' => FreshSilence(i, j)
    BY <2>3 DEF FreshSilence, Ends, Grew, Stale, CheckedAt
  <2> QED BY <1>0, <2>3, <2>4, <2>5 DEF ReportInv
<1>4. CASE Crash
  <2>1. SameChecks /\ UNCHANGED alerts
    BY <1>0, <1>4, Crashed DEF Crash
  <2>2. ASSUME NEW i \in DOMAIN checks, NEW j \in DOMAIN checks, FreshSilence(i, j)'
        PROVE  FreshSilence(i, j)
    <3>1. DOMAIN checks = 1..Len(checks) /\ Len(checks) \in Nat
      BY <1>0, CheckTypes
    <3>2. \A n \in i..j : n \in DOMAIN checks
      BY <3>1
    <3>3. \A n \in 1..j : n \in DOMAIN checks /\ \A m \in (n+1)..i : m \in DOMAIN checks
      BY <3>1
    <3>4. \A n \in i..j : ~ Ends(n)
      BY <2>1, <2>2, <3>2 DEF FreshSilence, SameChecks, Ends
    <3>5. \A n \in 1..j : checks[n].killed => \E m \in (n+1)..i : Ends(m)
      BY <2>1, <2>2, <3>3 DEF FreshSilence, SameChecks, Ends
    <3> QED BY <2>1, <2>2, <3>4, <3>5 DEF FreshSilence, SameChecks, CheckedAt
  <2>3. \A i, j \in DOMAIN checks : ReportedBetween(i, j) <=> ReportedBetween(i, j)'
    BY <2>1 DEF ReportedBetween, Unbroken, Ends, SameChecks, CheckedAt
  <2> QED BY <1>0, <2>1, <2>2, <2>3 DEF ReportInv, SameChecks
<1> QED
  BY <1>1, <1>2, <1>3, <1>4
  DEF Next, World, Watch, Tick, PayOrder, Collect, NextDay, QueryPayOrders, RememberAlert, vars

-----------------------------------------------------------------------------
(* Theorems.                                                               *)

LEMMA InitSafety == Init => SafetyInv
<1> SUFFICES ASSUME Init PROVE SafetyInv
  OBVIOUS
<1> USE WatchAssumption
<1>1. TypeOK
  <2>1. source \in SourceRow /\ state \in StateFile
    BY DEF Init, SourceRow, StateFile, NoState
  <2>2. run \in Run
    BY <2>1 DEF Init, Run
  <2>3. now \in Time /\ days \in 0..MaxDays /\ orders \in 0..MaxOrders /\ unseen \in BOOLEAN
    <3>1. now = 0 /\ days = 0 /\ orders = 0 /\ unseen = FALSE
      BY DEF Init
    <3>2. 0 \in Time /\ 0 \in 0..MaxDays /\ 0 \in 0..MaxOrders
      BY DEF Time
    <3> QED BY <3>1, <3>2
  <2>4. checks \in Seq(Check) /\ alerts \in Seq(Alert)
    BY DEF Init
  <2> QED BY <2>1, <2>2, <2>3, <2>4 DEF TypeOK, Check, Alert
<1>2. checks = <<>> /\ alerts = <<>> /\ DOMAIN checks = {} /\ DOMAIN alerts = {}
  BY DEF Init
<1>3. OrderInv /\ SourceInv /\ AlertInv /\ DueInv /\ ReportInv
  BY <1>2 DEF Init, OrderInv, SourceInv, AlertInv, DueInv, ReportInv
<1>4. StateInv /\ OnceInv
  BY <1>2 DEF Init, NoState, StateInv, OnceInv, Told
<1> QED BY <1>1, <1>3, <1>4 DEF SafetyInv

LEMMA SafetyHolds == Spec => []SafetyInv
<1>1. SafetyInv /\ [Next]_vars => SafetyInv'
  BY NextType, NextOrder, NextSource, NextStateInv, NextAlert, NextOnce, NextDue, NextReport
  DEF SafetyInv
<1> QED BY <1>1, InitSafety, PTL DEF Spec

(* The clock, the source, the state file, the checks and the alerts keep   *)
(* their types.                                                            *)
THEOREM TypeCorrect == Spec => []TypeOK
<1>1. SafetyInv => TypeOK
  BY DEF SafetyInv
<1> QED BY <1>1, SafetyHolds, PTL

(* Every alert rests on a silence that the checks observed, and a silence  *)
(* is told once.                                                           *)
THEOREM AlertsObserved == Spec => []AlertsAreObserved
<1>1. SafetyInv => AlertsAreObserved
  BY DEF SafetyInv, AlertInv, OnceInv, AlertsAreObserved
<1> QED BY <1>1, SafetyHolds, PTL

(* An alert means that for the whole waiting time no order had come to the *)
(* data, when the silence lies within one business date.                   *)
THEOREM AlertIsSilence == Spec => []AlertMeansNoOrders
<1>1. SafetyInv => AlertMeansNoOrders
  BY DEF SafetyInv, AlertInv, AlertMeansNoOrders
<1> QED BY <1>1, SafetyHolds, PTL

(* Each silence that fresh checks saw is told, in time and by an alert of  *)
(* its own, unless a run was killed in that very silence.                  *)
THEOREM SilenceReported == Spec => []SilenceIsReported
<1>1. SafetyInv => SilenceIsReported
  <2> SUFFICES ASSUME SafetyInv, run.pc = "idle",
                      NEW i \in DOMAIN checks, NEW j \in DOMAIN checks, FreshSilence(i, j)
               PROVE  ReportedBetween(i, j)
    BY DEF SilenceIsReported
  <2>1. j \in 1..Len(checks) /\ Len(checks) \in Nat
    BY CheckTypes DEF SafetyInv
  <2>2. CASE j < Len(checks)
    BY <2>2 DEF SafetyInv, ReportInv
  <2>3. CASE j = Len(checks)
    BY <2>3, LastReported
  <2> QED BY <2>1, <2>2, <2>3
<1> QED BY <1>1, SafetyHolds, PTL
=============================================================================
