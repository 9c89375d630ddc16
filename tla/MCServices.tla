----------------------------- MODULE MCServices -----------------------------
(* The services that answer to nobody else's state, in one run: the        *)
(* no-order watch (EXTENDS), the experience candidates, the sales progress *)
(* and confirmations of single prices with kills, which the batches leave  *)
(* out.  A behaviour is one of the service in focus while the others stay  *)
(* where they begin.                                                       *)
EXTENDS NoOrderWatch

CONSTANTS
    Candidates, Demo, Worthless, MaxWrites,                                   \* experience
    Rooms, TTL, Midnight, MaxClock, AsOfs, Hotels,
    MaxQueries, MaxReports, MaxChanges,                                       \* sales progress
    Users, Owners, Products, Batches, MaxTokens, MaxLapsed, Requesters, Previews,
    PluginResults,                                                            \* price confirmation
    Workers                                                                   \* processes of both

(* What the services assume of their constants.                            *)
ASSUME ServicesAssumption ==
    /\ Candidates # {} /\ MaxWrites \in Nat
    /\ Rooms \in Nat \ {0} /\ TTL \in Nat /\ Midnight \in Nat /\ MaxClock \in Nat
    /\ AsOfs \in [{"s15", "s16"} -> SUBSET Nat]
    /\ MaxQueries \in Nat /\ MaxReports \in Nat /\ MaxChanges \in Nat
    /\ Owners \subseteq Users /\ None \notin Users
    /\ Batches \subseteq Seq(Products) /\ <<>> \notin Batches
    /\ MaxTokens \in Nat /\ MaxLapsed \in Nat
    /\ Requesters \subseteq Users /\ Previews \subseteq [{"one", "batch", "rejected"} -> Nat]
    /\ PluginResults \subseteq {"SUCCESS", "FAILED"}

VARIABLES
    focus,                                                              \* the service that runs
    candidates, log, reviewing,                                         \* experience
    clock, calendar, scoped, batches, cache, queries, answer, changes,  \* sales progress
    rows, lapsed, approvals, tasks, wk                                  \* price confirmation

Lore == INSTANCE Experience WITH rows <- candidates, wk <- reviewing
Sales == INSTANCE SalesProgress WITH MaxTime <- MaxClock
S6 == INSTANCE S6PriceConfirmProofs   \* S6PriceConfirm and its theorems

ASSUME PackageAssumption == None \notin Sales!Package

(* For the instance: two previews of one price each.                       *)
SinglePreviews == {[one |-> 2, batch |-> 0, rejected |-> 0]}

(* and times before and on the date, that the past holds.                  *)
NamedTimes == [s15 |-> {0}, s16 |-> {1}]

(* and a hotel that history and collector know, or neither does.           *)
NewOrKnown == {<<None, <<>>>>, <<0, <<[snap |-> 0, rooms |-> Rooms]>>>>}

lore == <<candidates, log, reviewing>>
sales == <<clock, calendar, scoped, batches, cache, queries, answer, changes>>
s6 == <<rows, lapsed, approvals, tasks, wk>>
allvars == <<focus, vars, lore, sales, s6>>

AllInit ==
    /\ focus \in {"watch", "lore", "sales", "s6"}
    /\ Init /\ Lore!Init /\ Sales!Init /\ S6!Init
    /\ IF focus = "sales" THEN <<scoped, batches>> \in Hotels
       ELSE scoped = None /\ batches = <<>>

InWatch(A) == focus = "watch" /\ A /\ UNCHANGED <<focus, lore, sales, s6>>
InLore(A) == focus = "lore" /\ A /\ UNCHANGED <<focus, vars, sales, s6>>
InSales(A) == focus = "sales" /\ A /\ UNCHANGED <<focus, vars, lore, s6>>
InS6(A) == focus = "s6" /\ A /\ UNCHANGED <<focus, vars, lore, sales>>

AllNext == InWatch(Next) \/ InLore(Lore!Next) \/ InSales(Sales!Next) \/ InS6(S6!Next)

AllSpec == AllInit /\ [][AllNext]_allvars

(* The type invariants of the four services.                               *)
TypesOK ==
    CASE focus = "watch" -> TypeOK
      [] focus = "lore" -> Lore!TypeOK
      [] focus = "sales" -> Sales!TypeOK
      [] focus = "s6" -> S6!TypeOK

(* A promotion rests on the newest decision, an approval (Experience).     *)
PromotionsAreApproved == Lore!PromotionsAreApproved

(* An answer shows the calendar and the rooms as they were at most a TTL   *)
(* ago (SalesProgress).                                                    *)
ChangesReachAnswers == Sales!ChangesReachAnswers

(* A progress report compares whole batches (SalesProgress).               *)
ReportsAreWhole == Sales!ReportsAreWhole

(* A build without data does not replace a package that is still good      *)
(* (SalesProgress).                                                        *)
GoodPackagesAreKept == Sales!GoodPackagesAreKept

(* A price task has an actor who may confirm it and an approval of that    *)
(* actor (S6PriceConfirm).                                                 *)
TasksAreAuthorized == S6!TasksAreAuthorized
=============================================================================
