---------------------------- MODULE ServicesProofs ----------------------------
(***************************************************************************)
(* Proofs about the services of MCServices: the experience candidates and  *)
(* the sales packages, through their instances Lore and Sales, and what    *)
(* follows for the specification of all services in one run.  The proofs   *)
(* about the watch and the price confirmation are in modules of their own. *)
(***************************************************************************)
EXTENDS MCServices, NoOrderWatchProofs, WellFoundedInduction

-----------------------------------------------------------------------------
(***************************************************************************)
(* The experience candidates, for any candidates, processes and number of  *)
(* writes.                                                                 *)
(***************************************************************************)

(* An entry of the history.                                                *)
LoreWrite == [candidate: Candidates, to: Lore!Statuses, seen: 0..MaxWrites]

(* The newest of the first n of the writes that is of candidate c is m.    *)
LoreNewestOf(writes, c, n, m) ==
    /\ m \in 1..n /\ writes[m].candidate = c
    /\ \A j \in (m+1)..n : writes[j].candidate # c

(* A write at the end of the table's history leaves the older ones.        *)
LEMMA LoreAppendKeeps ==
    ASSUME NEW S, NEW s \in Seq(S), NEW e \in S
    PROVE  /\ Append(s, e) \in Seq(S) /\ Len(Append(s, e)) = Len(s) + 1 /\ Append(s, e)[Len(s) + 1] = e
           /\ DOMAIN s = 1..Len(s) /\ DOMAIN Append(s, e) = 1..(Len(s) + 1) /\ Len(s) \in Nat
           /\ \A i \in 1..Len(s) : s[i] \in S /\ Append(s, e)[i] = s[i]
           /\ \A c, n, m : n \in 0..Len(s) /\ LoreNewestOf(s, c, n, m) =>
                 /\ m \in DOMAIN Append(s, e) /\ Append(s, e)[m] = s[m]
                 /\ LoreNewestOf(Append(s, e), c, n, m)
<1>1. /\ Append(s, e) \in Seq(S) /\ Len(Append(s, e)) = Len(s) + 1 /\ Append(s, e)[Len(s) + 1] = e
      /\ DOMAIN s = 1..Len(s) /\ DOMAIN Append(s, e) = 1..(Len(s) + 1) /\ Len(s) \in Nat
      /\ \A i \in 1..Len(s) : s[i] \in S /\ Append(s, e)[i] = s[i]
  OBVIOUS
<1> DEFINE t == Append(s, e)
<1> HIDE DEF t
<1>2. ASSUME NEW c, NEW n \in 0..Len(s), NEW m, LoreNewestOf(s, c, n, m)
      PROVE  m \in DOMAIN t /\ t[m] = s[m] /\ LoreNewestOf(t, c, n, m)
  <2>1. m \in 1..n /\ m \in 1..Len(s) /\ \A j \in (m+1)..n : j \in 1..Len(s)
    BY <1>1, <1>2 DEF LoreNewestOf
  <2>2. \A i \in 1..Len(s) : t[i] = s[i]
    BY <1>1 DEF t
  <2>3. m \in DOMAIN t
    BY <1>1, <2>1 DEF t
  <2> QED BY <1>2, <2>1, <2>2, <2>3 DEF LoreNewestOf
<1> QED BY <1>1, <1>2 DEF t

LEMMA LoreElementOf == ASSUME NEW S, NEW s \in Seq(S), NEW i \in DOMAIN s PROVE s[i] \in S
OBVIOUS

(* A row has what the newest write of it says.                             *)
LoreRowsInv ==
    \A c \in Candidates : candidates[c] # "none" =>
        \E m \in DOMAIN log : LoreNewestOf(log, c, Len(log), m) /\ log[m].to = candidates[c]

(* A command that read the table knows the newest write at that time; one  *)
(* that read the file found no decision.                                   *)
LoreReadInv ==
    \A w \in Workers : reviewing[w].pc = "read" =>
        /\ reviewing[w].seen <= Len(log)
        /\ reviewing[w].from = "file" => reviewing[w].status = "candidate"
        /\ reviewing[w].from = "table" =>
              \E m \in DOMAIN log : LoreNewestOf(log, reviewing[w].candidate, reviewing[w].seen, m)
                  /\ log[m].to = reviewing[w].status

(* A promotion saw an approval.                                            *)
LorePromotedInv ==
    \A i \in DOMAIN log :
        /\ log[i].seen < i
        /\ log[i].to = "promoted" =>
              \E m \in DOMAIN log : LoreNewestOf(log, log[i].candidate, log[i].seen, m)
                  /\ log[m].to = "approved"

LoreSafetyInv == Lore!TypeOK /\ Len(log) <= MaxWrites /\ LoreRowsInv /\ LoreReadInv /\ LorePromotedInv

LEMMA LoreInitSafety == ASSUME Candidates # {}, MaxWrites \in Nat PROVE Lore!Init => LoreSafetyInv
<1> SUFFICES ASSUME Lore!Init PROVE LoreSafetyInv
  OBVIOUS
<1>1. (CHOOSE c \in Candidates : TRUE) \in Candidates
  OBVIOUS
<1>2. Lore!TypeOK /\ Len(log) <= MaxWrites
  BY <1>1 DEF Lore!Init, Lore!TypeOK, Lore!Process, Lore!Statuses, Lore!Commands
<1>3. LoreRowsInv /\ LorePromotedInv
  BY DEF Lore!Init, LoreRowsInv, LorePromotedInv
<1>4. \A w \in Workers : reviewing[w].pc = "idle"
  BY DEF Lore!Init
<1>5. LoreReadInv
  BY <1>4 DEF LoreReadInv
<1> QED BY <1>2, <1>3, <1>5 DEF LoreSafetyInv

LEMMA LoreFoundStep ==
    ASSUME LoreSafetyInv, MaxWrites \in Nat, NEW w \in Workers, NEW cmd \in Lore!Commands,
           NEW c \in Candidates,
           Lore!ReadFile(w, cmd, c) \/ Lore!ReadTable(w, cmd, c)
    PROVE  LoreSafetyInv'
<1>1. PICK from \in {"file", "table"}, status \in Lore!Statuses :
          /\ Lore!Found(w, cmd, c, from, status)
          /\ from = "file" => status = "candidate"
          /\ from = "table" => candidates[c] # "none" /\ status = candidates[c]
  BY DEF Lore!ReadFile, Lore!ReadTable, LoreSafetyInv, Lore!TypeOK, Lore!Statuses
<1> DEFINE p == [pc |-> "read", command |-> cmd, candidate |-> c, from |-> from,
                 status |-> status, seen |-> Len(log)]
<1>2. UNCHANGED <<candidates, log>> /\ reviewing' = [reviewing EXCEPT ![w] = p]
  BY <1>1 DEF Lore!ReadFile, Lore!ReadTable, Lore!Found
<1>3. Len(log) \in 0..MaxWrites
  BY DEF LoreSafetyInv, Lore!TypeOK
<1>4. p \in Lore!Process
  BY <1>3 DEF Lore!Process
<1>5. Lore!TypeOK' /\ Len(log') <= MaxWrites
  BY <1>2, <1>4 DEF LoreSafetyInv, Lore!TypeOK
<1>6. LoreRowsInv' /\ LorePromotedInv'
  BY <1>2 DEF LoreSafetyInv, LoreRowsInv, LorePromotedInv, LoreNewestOf
<1>7. LoreReadInv'
  <2> SUFFICES ASSUME NEW v \in Workers, reviewing'[v].pc = "read"
               PROVE  /\ reviewing'[v].seen <= Len(log)
                      /\ reviewing'[v].from = "file" => reviewing'[v].status = "candidate"
                      /\ reviewing'[v].from = "table" =>
                            \E m \in DOMAIN log : LoreNewestOf(log, reviewing'[v].candidate, reviewing'[v].seen, m)
                                                  /\ log[m].to = reviewing'[v].status
    BY <1>2 DEF LoreReadInv, LoreNewestOf
  <2>1. CASE v # w
    BY <1>2, <2>1 DEF LoreSafetyInv, Lore!TypeOK, LoreReadInv
  <2>2. CASE v = w
    <3>1. reviewing'[v] = p
      BY <1>2, <2>2 DEF LoreSafetyInv, Lore!TypeOK
    <3>2. from = "table" => \E m \in DOMAIN log : LoreNewestOf(log, c, Len(log), m) /\ log[m].to = status
      BY <1>1 DEF LoreSafetyInv, LoreRowsInv
    <3> QED BY <1>1, <1>3, <3>1, <3>2
  <2> QED BY <2>1, <2>2
<1> QED BY <1>5, <1>6, <1>7 DEF LoreSafetyInv

LEMMA LoreStoreStep ==
    ASSUME LoreSafetyInv, MaxWrites \in Nat, NEW w \in Workers, reviewing[w].pc = "read",
           NEW status \in Lore!Statuses, Lore!Store(w, status),
           status = "promoted" => reviewing[w].status = "approved"
    PROVE  LoreSafetyInv'
<1> DEFINE e == [candidate |-> reviewing[w].candidate, to |-> status, seen |-> reviewing[w].seen]
           n == Len(log)
<1>1. /\ log \in Seq(LoreWrite)
      /\ reviewing[w] \in Lore!Process /\ n \in Nat /\ n < MaxWrites
  BY DEF LoreSafetyInv, Lore!TypeOK, Lore!Store, LoreWrite
<1>2. e \in LoreWrite
  BY <1>1 DEF Lore!Process, LoreWrite
<1>3. /\ log' = Append(log, e) /\ candidates' = [candidates EXCEPT ![reviewing[w].candidate] = status]
      /\ reviewing' = [reviewing EXCEPT ![w] = [reviewing[w] EXCEPT !.pc = "idle"]]
  BY DEF Lore!Store
<1>10. \A c, k, m : k \in 0..n /\ LoreNewestOf(log, c, k, m) =>
          m \in DOMAIN log' /\ log'[m] = log[m] /\ LoreNewestOf(log', c, k, m)
  BY <1>1, <1>2, <1>3, LoreAppendKeeps
<1> HIDE DEF e
<1>4. /\ log' \in Seq(LoreWrite)
      /\ DOMAIN log' = 1..(n+1) /\ DOMAIN log = 1..n /\ Len(log') = n + 1
      /\ log'[n+1] = e /\ \A i \in 1..n : log'[i] = log[i]
  BY <1>1, <1>2, <1>3, LoreAppendKeeps
<1>9. \A i \in 1..n : log[i].seen \in Nat
  <2>1. \A i \in 1..n : log[i] \in LoreWrite
    BY <1>1, <1>4, LoreElementOf
  <2> QED BY <2>1 DEF LoreWrite
<1>5. Lore!TypeOK' /\ Len(log') <= MaxWrites
  <2>1. [reviewing[w] EXCEPT !.pc = "idle"] \in Lore!Process
    BY <1>1 DEF Lore!Process
  <2>2. candidates' \in [Candidates -> Lore!Statuses \cup {"none"}]
    BY <1>3 DEF LoreSafetyInv, Lore!TypeOK
  <2>3. reviewing' \in [Workers -> Lore!Process]
    BY <1>3, <2>1 DEF LoreSafetyInv, Lore!TypeOK
  <2> QED BY <1>1, <1>4, <2>2, <2>3 DEF Lore!TypeOK, LoreWrite
<1>6. LoreRowsInv'
  <2> SUFFICES ASSUME NEW c \in Candidates, candidates'[c] # "none"
               PROVE  \E m \in DOMAIN log' : LoreNewestOf(log', c, n+1, m) /\ log'[m].to = candidates'[c]
    BY <1>4 DEF LoreRowsInv, LoreNewestOf
  <2>1. CASE c = reviewing[w].candidate
    <3>1. LoreNewestOf(log', c, n+1, n+1) /\ log'[n+1].to = candidates'[c]
      BY <1>1, <1>3, <1>4, <2>1 DEF LoreNewestOf, e, LoreSafetyInv, Lore!TypeOK
    <3> QED BY <1>1, <1>4, <3>1
  <2>2. CASE c # reviewing[w].candidate
    <3>1. candidates'[c] = candidates[c]
      BY <1>3, <2>2 DEF LoreSafetyInv, Lore!TypeOK
    <3>2. PICK m \in DOMAIN log : LoreNewestOf(log, c, n, m) /\ log[m].to = candidates[c]
      BY <3>1 DEF LoreSafetyInv, LoreRowsInv
    <3>3. log'[n+1].candidate # c
      BY <1>4, <2>2 DEF e
    <3>4. LoreNewestOf(log', c, n+1, m)
      <4>1. LoreNewestOf(log', c, n, m)
        BY <1>1, <1>10, <3>2
      <4> QED BY <1>1, <3>3, <4>1 DEF LoreNewestOf
    <3> QED BY <1>4, <3>1, <3>2, <3>4
  <2> QED BY <2>1, <2>2
<1>7. LoreReadInv'
  <2> SUFFICES ASSUME NEW v \in Workers, reviewing'[v].pc = "read"
               PROVE  /\ reviewing'[v].seen <= n + 1
                      /\ reviewing'[v].from = "file" => reviewing'[v].status = "candidate"
                      /\ reviewing'[v].from = "table" =>
                            \E m \in DOMAIN log' : LoreNewestOf(log', reviewing'[v].candidate, reviewing'[v].seen, m)
                                                  /\ log'[m].to = reviewing'[v].status
    BY <1>4 DEF LoreReadInv, LoreNewestOf
  <2>1. v # w /\ reviewing'[v] = reviewing[v] /\ reviewing[v] \in Lore!Process
    BY <1>1, <1>3 DEF LoreSafetyInv, Lore!TypeOK, Lore!Process
  <2>2. reviewing[v].seen \in 0..n /\ (reviewing[v].from = "file" => reviewing[v].status = "candidate")
    BY <1>1, <2>1 DEF LoreSafetyInv, LoreReadInv, Lore!Process
  <2>3. ASSUME reviewing[v].from = "table"
        PROVE  \E m \in DOMAIN log' : LoreNewestOf(log', reviewing[v].candidate, reviewing[v].seen, m)
                                      /\ log'[m].to = reviewing[v].status
    <3>1. PICK m \in DOMAIN log : LoreNewestOf(log, reviewing[v].candidate, reviewing[v].seen, m)
              /\ log[m].to = reviewing[v].status
      BY <2>1, <2>3 DEF LoreSafetyInv, LoreReadInv
    <3>2. LoreNewestOf(log', reviewing[v].candidate, reviewing[v].seen, m) /\ m \in DOMAIN log'
          /\ log'[m] = log[m]
      BY <1>10, <2>2, <3>1
    <3> QED BY <3>1, <3>2
  <2> QED BY <1>1, <2>1, <2>2, <2>3
<1>8. LorePromotedInv'
  <2> SUFFICES ASSUME NEW i \in DOMAIN log'
               PROVE  /\ log'[i].seen < i
                      /\ log'[i].to = "promoted" =>
                            \E m \in DOMAIN log' : LoreNewestOf(log', log'[i].candidate, log'[i].seen, m)
                                                   /\ log'[m].to = "approved"
    BY DEF LorePromotedInv, LoreNewestOf
  <2>1. CASE i \in 1..n
    <3>1. log'[i] = log[i] /\ log[i].seen \in Nat /\ log[i].seen < i /\ log[i].seen <= n
      <4>1. log'[i] = log[i] /\ log[i].seen \in Nat
        BY <1>4, <1>9, <2>1
      <4>2. log[i].seen < i
        BY <1>4, <2>1 DEF LoreSafetyInv, LorePromotedInv
      <4> QED BY <1>1, <2>1, <4>1, <4>2
    <3>2. ASSUME log[i].to = "promoted"
          PROVE  \E m \in DOMAIN log' : LoreNewestOf(log', log[i].candidate, log[i].seen, m)
                                         /\ log'[m].to = "approved"
      <4>1. PICK m \in DOMAIN log : LoreNewestOf(log, log[i].candidate, log[i].seen, m)
                /\ log[m].to = "approved"
        BY <1>4, <2>1, <3>2 DEF LoreSafetyInv, LorePromotedInv
      <4>2. LoreNewestOf(log', log[i].candidate, log[i].seen, m) /\ m \in DOMAIN log' /\ log'[m] = log[m]
        <5>1. log[i].seen \in 0..n
          BY <1>1, <3>1
        <5> QED BY <1>10, <4>1, <5>1
      <4> QED BY <4>1, <4>2
    <3> QED BY <3>1, <3>2
  <2>2. CASE i = n + 1
    <3>1. log'[i] = e /\ e.seen = reviewing[w].seen /\ e.candidate = reviewing[w].candidate /\ e.to = status
      BY <1>4, <2>2 DEF e
    <3>2. reviewing[w].seen \in 0..n
      BY <1>1 DEF LoreSafetyInv, LoreReadInv, Lore!Process
    <3>3. ASSUME status = "promoted"
          PROVE  \E m \in DOMAIN log' : LoreNewestOf(log', reviewing[w].candidate, reviewing[w].seen, m)
                                         /\ log'[m].to = "approved"
      <4>1. reviewing[w].from = "table" /\ reviewing[w].status = "approved"
        BY <1>1, <3>3 DEF LoreSafetyInv, LoreReadInv, Lore!Process
      <4>2. PICK m \in DOMAIN log : LoreNewestOf(log, reviewing[w].candidate, reviewing[w].seen, m)
                /\ log[m].to = "approved"
        BY <4>1 DEF LoreSafetyInv, LoreReadInv
      <4>3. LoreNewestOf(log', reviewing[w].candidate, reviewing[w].seen, m) /\ m \in DOMAIN log'
            /\ log'[m] = log[m]
        BY <1>10, <3>2, <4>2
      <4> QED BY <4>2, <4>3
    <3>4. log'[i].seen < i
      BY <1>1, <2>2, <3>1, <3>2
    <3> QED BY <3>1, <3>3, <3>4
  <2> QED BY <1>1, <1>4, <2>1, <2>2
<1> QED BY <1>5, <1>6, <1>7, <1>8 DEF LoreSafetyInv

LEMMA LoreSafetyStep ==
    ASSUME MaxWrites \in Nat PROVE LoreSafetyInv /\ [Lore!Next]_(Lore!vars) => LoreSafetyInv'
<1> SUFFICES ASSUME LoreSafetyInv, [Lore!Next]_(Lore!vars) PROVE LoreSafetyInv'
  OBVIOUS
<1>1. ASSUME NEW w \in Workers, Lore!Review(w) PROVE LoreSafetyInv'
  <2>1. Lore!ReviewStatus(reviewing[w]) \in Lore!Statuses /\ Lore!ReviewStatus(reviewing[w]) # "promoted"
    BY DEF Lore!ReviewStatus, Lore!Statuses
  <2> QED BY <1>1, <2>1, LoreStoreStep DEF Lore!Review
<1>2. ASSUME NEW w \in Workers, Lore!Promote(w) PROVE LoreSafetyInv'
  BY <1>2, LoreStoreStep DEF Lore!Promote, Lore!Promotable, Lore!Statuses
<1>3. ASSUME NEW w \in Workers, Lore!End(w) PROVE LoreSafetyInv'
  <2>1. reviewing[w] \in Lore!Process
    BY DEF LoreSafetyInv, Lore!TypeOK
  <2>2. [reviewing[w] EXCEPT !.pc = "idle"] \in Lore!Process
        /\ [reviewing[w] EXCEPT !.pc = "idle"].pc = "idle"
    BY <2>1 DEF Lore!Process
  <2>3. /\ UNCHANGED <<candidates, log>>
           /\ reviewing' = [reviewing EXCEPT ![w] = [reviewing[w] EXCEPT !.pc = "idle"]]
    BY <1>3 DEF Lore!End
  <2>4. Lore!TypeOK' /\ Len(log') <= MaxWrites
    BY <2>2, <2>3 DEF LoreSafetyInv, Lore!TypeOK
  <2>5. \A v \in Workers : reviewing'[v].pc = "read" => reviewing'[v] = reviewing[v]
    BY <2>2, <2>3 DEF LoreSafetyInv, Lore!TypeOK
  <2>6. LoreRowsInv' /\ LorePromotedInv' /\ LoreReadInv'
    BY <2>3, <2>5 DEF LoreSafetyInv, LoreRowsInv, LorePromotedInv, LoreReadInv, LoreNewestOf
  <2> QED BY <2>4, <2>6 DEF LoreSafetyInv
<1>4. CASE UNCHANGED Lore!vars
  BY <1>4 DEF Lore!vars, LoreSafetyInv, Lore!TypeOK, LoreRowsInv, LorePromotedInv, LoreReadInv, LoreNewestOf
<1> QED BY <1>1, <1>2, <1>3, <1>4, LoreFoundStep DEF Lore!Next

(* The newest write that a command saw is the last of those it saw.        *)
LEMMA LoreNewestIsMax ==
    ASSUME NEW i \in DOMAIN log, log[i].seen \in Nat,
           NEW m \in DOMAIN log, LoreNewestOf(log, log[i].candidate, log[i].seen, m)
    PROVE  Lore!WritesSeen(i) # {} /\ Lore!Max(Lore!WritesSeen(i)) = m
<1>1. Lore!WritesSeen(i) \subseteq Int /\ m \in Lore!WritesSeen(i) /\ \A y \in Lore!WritesSeen(i) : m >= y
  BY DEF Lore!WritesSeen, LoreNewestOf
<1> QED BY <1>1 DEF Lore!Max

(* A promotion rests on the newest decision its command could read, which  *)
(* was an approval, however reviews and promotions overlap.                *)
THEOREM LorePromotionsApproved ==
    ASSUME Candidates # {}, MaxWrites \in Nat PROVE Lore!Spec => []Lore!PromotionsAreApproved
<1>1. LoreSafetyInv => Lore!PromotionsAreApproved
  <2> SUFFICES ASSUME LoreSafetyInv, NEW i \in DOMAIN log, log[i].to = "promoted"
               PROVE  Lore!WritesSeen(i) # {} /\ log[Lore!Max(Lore!WritesSeen(i))].to = "approved"
    BY DEF Lore!PromotionsAreApproved
  <2>1. PICK m \in DOMAIN log : LoreNewestOf(log, log[i].candidate, log[i].seen, m)
            /\ log[m].to = "approved"
    BY DEF LoreSafetyInv, LorePromotedInv
  <2>2. log[i] \in LoreWrite
    <3>1. log \in Seq(LoreWrite)
      BY DEF LoreSafetyInv, Lore!TypeOK, LoreWrite
    <3> QED BY <3>1, LoreElementOf
  <2>3. log[i].seen \in Nat
    BY <2>2 DEF LoreWrite
  <2> QED BY <2>1, <2>3, LoreNewestIsMax
<1> QED BY <1>1, LoreInitSafety, LoreSafetyStep, PTL DEF Lore!Spec

THEOREM LoreTypeCorrect == ASSUME Candidates # {}, MaxWrites \in Nat PROVE Lore!Spec => []Lore!TypeOK
<1>1. LoreSafetyInv => Lore!TypeOK
  BY DEF LoreSafetyInv
<1> QED BY <1>1, LoreInitSafety, LoreSafetyStep, PTL DEF Lore!Spec

-----------------------------------------------------------------------------
(***************************************************************************)
(* The sales packages, for any rooms, clock, number of queries, batches    *)
(* and changes.                                                            *)
(***************************************************************************)

(* What SalesProgress assumes of its constants.                            *)
SalesConstants ==
    /\ Rooms \in Nat \ {0} /\ TTL \in Nat /\ Midnight \in Nat /\ MaxClock \in Nat /\ MaxQueries \in Nat
    /\ MaxReports \in Nat /\ MaxChanges \in Nat /\ None \notin Sales!Package
    /\ AsOfs \in [{"s15", "s16"} -> SUBSET Nat]

(* A set of numbers has a least one.                                       *)
LEMMA LeastNat == ASSUME NEW T, T \subseteq Nat, T # {} PROVE \E x \in T : \A y \in T : x <= y
<1> DEFINE R == OpToRel(<, Nat)
<1>1. IsWellFoundedOn(R, Nat)
  BY NatLessThanWellFounded
<1>2. \A x, y \in Nat : x < y => <<x, y>> \in R
  BY DEF OpToRel
<1> HIDE DEF R
<1>3. PICK x \in T : \A y \in T : ~ (<<y, x>> \in R)
  BY <1>1, WFMin, Zenon
<1>4. ASSUME NEW y \in T PROVE x <= y
  <2>1. x \in Nat /\ y \in Nat
    OBVIOUS
  <2>2. ~ (y < x)
    BY <1>2, <1>3, <2>1
  <2> QED BY <2>1, <2>2
<1> QED BY <1>4

(* A set of integers with an upper bound has a largest one.                *)
LEMMA MaxIndex ==
    ASSUME NEW n \in Int, NEW S, S \subseteq Int, S # {}, \A x \in S : x <= n
    PROVE  Sales!Max(S) \in S /\ \A y \in S : Sales!Max(S) >= y
<1> DEFINE T == {n - y : y \in S}
<1>1. T \subseteq Nat
  <2>1. \A y \in S : n - y \in Nat
    OBVIOUS
  <2> QED BY <2>1
<1>5. T # {}
  OBVIOUS
<1>2. PICK x \in T : \A y \in T : x <= y
  BY <1>1, <1>5, LeastNat
<1>3. PICK s \in S : x = n - s
  BY <1>2
<1>4. ASSUME NEW y \in S PROVE s >= y
  <2>1. n - y \in T
    OBVIOUS
  <2>2. n - s <= n - y
    BY <1>2, <1>3, <2>1
  <2> QED BY <2>2
<1> QED BY <1>3, <1>4 DEF Sales!Max

(* No change of the calendar that a package misses is older than t.        *)
SalesCalendarSince(c, t) == c # None => \A v \in (c+1)..Len(calendar) : calendar[v] >= t
(* It misses no rooms that were learned before t, unless its query named a *)
(* time before they were.                                                  *)
SalesKnows(pack, t) ==
    /\ SalesCalendarSince(pack.calendar, t)
    /\ ~ pack.scope /\ scoped # None => scoped >= t \/ (pack.given # None /\ pack.given <= scoped)

(* What a query in each of its steps can rely on.                          *)
SalesTimesOf(p) ==
    p.pc \notin {"new", "done"} =>
        /\ p.began <= clock /\ clock <= p.began + 1 /\ p.asof <= clock
        /\ p.given # None => p.asof = p.given
        /\ p.given = None /\ p.pc \in {"calendar", "build", "calendar2", "build2"} => p.began <= p.asof
SalesPackOf(p) ==
    /\ p.pc \in {"calendar", "build"} => p.pack = None
    /\ p.pc = "build" => SalesCalendarSince(p.calendar, p.began)
    /\ p.pc = "build2" => SalesCalendarSince(p.calendar, p.began)
    /\ p.pc = "persist" => /\ p.pack # None => SalesKnows(p.pack, p.began)
                           /\ p.kind = "s16" => p.pack # None
    /\ p.pc \in {"forecast", "check"} => p.pack \in Sales!Package /\ SalesKnows(p.pack, p.began - TTL - 1)
SalesWholeOf(p) ==
    /\ p.pc \in {"calendar2", "build2", "forecast"} =>
          \/ p.whole = -1
          \/ \E i \in DOMAIN batches :
                batches[i].rooms = Rooms /\ batches[i].snap = p.whole /\ p.whole <= p.asof
    /\ p.pc = "check" => p.snap >= p.whole
SalesBlindOf(p) == p.kind = "s15" /\ p.pc \in {"calendar", "build", "persist"} /\ ~ p.blind => ~ Sales!Hit
SalesQueryOK(p) == SalesTimesOf(p) /\ SalesPackOf(p) /\ SalesWholeOf(p) /\ SalesBlindOf(p)

SalesWorldInv ==
    /\ Len(calendar) <= changes /\ changes \in 0..MaxChanges
    /\ \A v \in 1..Len(calendar) : calendar[v] <= clock
    /\ scoped # None => scoped <= clock
    /\ \A i \in 1..Len(batches) : batches[i].snap <= clock
    /\ \A i, j \in 1..Len(batches) : i < j => batches[i].snap < batches[j].snap
SalesCacheInv ==
    cache # None =>
        /\ cache.created <= clock
        /\ cache.ok => cache.pack \in Sales!Package /\ SalesKnows(cache.pack, cache.created - 1)
SalesAnswerInv ==
    /\ Sales!Answers({"baseline", "ok", "partial", "unjudged"}) =>
          answer.of.pack \in Sales!Package /\ SalesKnows(answer.of.pack, answer.of.began - TTL - 1)
    /\ Sales!Answers({"ok", "partial", "unjudged"}) => answer.of.snap >= answer.of.whole
    /\ Sales!Answers({"ok"}) => Sales!Complete(answer.of.pack, answer.of.rooms)
SalesSafetyInv ==
    /\ Sales!TypeOK /\ SalesWorldInv /\ SalesCacheInv /\ SalesAnswerInv
    /\ \A q \in Sales!Queries : SalesQueryOK(queries[q])

(* What the query must be for the answer it gets.                          *)
SalesAnswerOK(p, text) ==
    /\ text \in {"baseline", "ok", "partial", "unjudged"} =>
          p.pack \in Sales!Package /\ SalesKnows(p.pack, p.began - TTL - 1)
    /\ text \in {"ok", "partial", "unjudged"} => p.snap >= p.whole
    /\ text = "ok" => Sales!Complete(p.pack, p.rooms)

LEMMA SalesFreshTypes == ASSUME SalesConstants PROVE Sales!Fresh \in Sales!Query
BY DEF SalesConstants, Sales!Fresh, Sales!Query, Sales!Time

LEMMA SalesFinishedTypes ==
    ASSUME SalesConstants, NEW p \in Sales!Query
    PROVE  Sales!Finished(p) \in Sales!Query /\ Sales!Finished(p).pc = "done"
<1>1. p.kind \in {"s15", "s16"}
  BY DEF Sales!Query
<1> QED BY <1>1, SalesFreshTypes DEF Sales!Finished, Sales!Query, Sales!Fresh

LEMMA SalesShownTypes ==
    ASSUME NEW p \in Sales!Query
    PROVE  /\ Sales!Shown(p) \in Sales!Answer
           /\ Sales!Shown(p).began = p.began /\ Sales!Shown(p).pack = p.pack
           /\ Sales!Shown(p).whole = p.whole /\ Sales!Shown(p).snap = p.snap
           /\ Sales!Shown(p).rooms = p.rooms
BY DEF Sales!Query, Sales!Shown, Sales!Answer

LEMMA SalesDoneIsOK == ASSUME NEW p, p.pc \in {"new", "done"} PROVE SalesQueryOK(p) /\ SalesQueryOK(p)'
BY DEF SalesQueryOK, SalesTimesOf, SalesPackOf, SalesWholeOf, SalesBlindOf

(* A step of a query leaves the world and the cache alone.                 *)
LEMMA SalesSameWorld ==
    ASSUME UNCHANGED <<Sales!world, cache>>
    PROVE  /\ \A p : SalesQueryOK(p) => SalesQueryOK(p)'
           /\ \A p, text : SalesAnswerOK(p, text) => SalesAnswerOK(p, text)'
           /\ SalesWorldInv => SalesWorldInv'
           /\ SalesCacheInv => SalesCacheInv'
<1>1. /\ clock' = clock /\ calendar' = calendar /\ scoped' = scoped /\ batches' = batches
      /\ changes' = changes /\ cache' = cache
  BY DEF Sales!world
<1>2. ASSUME NEW pack, NEW t PROVE SalesKnows(pack, t)' <=> SalesKnows(pack, t)
  BY <1>1 DEF SalesKnows, SalesCalendarSince
<1>3. ASSUME NEW p PROVE SalesQueryOK(p) => SalesQueryOK(p)'
  BY <1>1
  DEF SalesQueryOK, SalesTimesOf, SalesPackOf, SalesWholeOf, SalesBlindOf, Sales!Hit, SalesKnows,
      SalesCalendarSince
<1>4. ASSUME NEW p, NEW text PROVE SalesAnswerOK(p, text) => SalesAnswerOK(p, text)'
  BY <1>2 DEF SalesAnswerOK
<1>5. SalesWorldInv => SalesWorldInv'
  BY <1>1 DEF SalesWorldInv
<1>6. SalesCacheInv => SalesCacheInv'
  BY <1>1 DEF SalesCacheInv, SalesKnows, SalesCalendarSince
<1> QED BY <1>3, <1>4, <1>5, <1>6

LEMMA SalesGoOnKeeps ==
    ASSUME SalesSafetyInv, NEW q \in Sales!Queries, NEW p \in Sales!Query, SalesQueryOK(p),
           UNCHANGED <<Sales!world, cache>>, Sales!GoOn(q, p)
    PROVE  SalesSafetyInv'
<1>1. answer' = None /\ queries' = [queries EXCEPT ![q] = p]
  BY DEF Sales!GoOn
<1>2. Sales!TypeOK'
  BY <1>1 DEF SalesSafetyInv, Sales!TypeOK, Sales!world
<1>3. SalesAnswerInv'
  BY <1>1 DEF SalesAnswerInv, Sales!Answers
<1>4. \A r \in Sales!Queries : SalesQueryOK(queries'[r])
  BY <1>1 DEF SalesSafetyInv, Sales!TypeOK
<1>5. \A r \in Sales!Queries : SalesQueryOK(queries[r])'
  BY <1>4, SalesSameWorld
<1> QED BY <1>2, <1>3, <1>5, SalesSameWorld DEF SalesSafetyInv

LEMMA SalesReplyKeeps ==
    ASSUME SalesSafetyInv, SalesConstants, NEW q \in Sales!Queries, NEW p \in Sales!Query,
           NEW text \in Sales!Replies,
           SalesAnswerOK(p, text), UNCHANGED <<Sales!world, cache>>, Sales!Reply(q, p, text)
    PROVE  SalesSafetyInv'
<1> DEFINE f == Sales!Finished(p)
           shown == Sales!Shown(p)
<1>1. answer' = [reply |-> text, of |-> shown] /\ queries' = [queries EXCEPT ![q] = f]
  BY DEF Sales!Reply
<1>2. /\ f \in Sales!Query /\ f.pc = "done"
      /\ shown \in Sales!Answer /\ shown.began = p.began /\ shown.pack = p.pack
      /\ shown.whole = p.whole /\ shown.snap = p.snap /\ shown.rooms = p.rooms
  BY SalesFinishedTypes, SalesShownTypes
<1> HIDE DEF f, shown
<1>3. Sales!TypeOK'
  BY <1>1, <1>2 DEF SalesSafetyInv, Sales!TypeOK, Sales!world
<1>4. SalesAnswerInv'
  <2>1. SalesAnswerOK(p, text)'
    BY SalesSameWorld
  <2> QED BY <1>1, <1>2, <2>1 DEF SalesAnswerInv, Sales!Answers, SalesAnswerOK
<1>5. \A r \in Sales!Queries : SalesQueryOK(queries'[r])
  BY <1>1, <1>2, SalesDoneIsOK DEF SalesSafetyInv, Sales!TypeOK
<1>6. \A r \in Sales!Queries : SalesQueryOK(queries[r])'
  BY <1>5, SalesSameWorld
<1> QED BY <1>3, <1>4, <1>6, SalesSameWorld DEF SalesSafetyInv

LEMMA SalesInitSafety == ASSUME SalesConstants PROVE Sales!Init => SalesSafetyInv
<1> SUFFICES ASSUME Sales!Init PROVE SalesSafetyInv
  OBVIOUS
<1>1. Sales!TypeOK
  <2>1. clock \in Sales!Time /\ calendar \in Seq(Sales!Time) /\ scoped \in Sales!Time \cup {None}
    BY DEF Sales!Init, Sales!Time, SalesConstants
  <2>2. batches \in Seq([snap: Sales!Time, rooms: 0..Rooms])
    <3>1. [snap |-> 0, rooms |-> Rooms] \in [snap: Sales!Time, rooms: 0..Rooms]
      BY DEF Sales!Time, SalesConstants
    <3>2. ASSUME NEW S, NEW e \in S PROVE <<>> \in Seq(S) /\ <<e>> \in Seq(S)
      OBVIOUS
    <3> QED BY <3>1, <3>2 DEF Sales!Init
  <2>3. cache \in Sales!Row \cup {None} /\ answer \in [reply: Sales!Replies, of: Sales!Answer] \cup {None}
    BY DEF Sales!Init
  <2>4. queries \in [Sales!Queries -> Sales!Query]
    BY SalesFreshTypes DEF Sales!Init
  <2> QED BY <2>1, <2>2, <2>3, <2>4 DEF Sales!TypeOK
<1>2. SalesWorldInv
  BY DEF Sales!Init, SalesWorldInv, SalesConstants
<1>3. SalesCacheInv /\ SalesAnswerInv
  BY DEF Sales!Init, SalesCacheInv, SalesAnswerInv, Sales!Answers
<1>4. \A q \in Sales!Queries : queries[q].pc = "new"
  BY DEF Sales!Init, Sales!Fresh
<1> QED BY <1>1, <1>2, <1>3, <1>4, SalesDoneIsOK DEF SalesSafetyInv

(* A query begins.                                                         *)
LEMMA SalesAskedTypes ==
    ASSUME SalesSafetyInv, SalesConstants, NEW kind \in {"s15", "s16"},
           NEW given \in Sales!Time \cup {None}
    PROVE  LET p == Sales!Asked(kind, given) IN
           /\ p \in Sales!Query /\ p.pc = "new" /\ p.kind = kind /\ p.pack = None
           /\ p.began = clock /\ p.given = given /\ p.asof = Sales!AsOf(given)
           /\ p.snap = -1 /\ p.whole = -1
<1>1. clock \in Sales!Time /\ Sales!AsOf(given) \in Nat
  BY DEF SalesSafetyInv, Sales!TypeOK, Sales!AsOf, Sales!Time, SalesConstants
<1> QED BY <1>1, SalesFreshTypes DEF Sales!Asked, Sales!Query, Sales!Fresh

(* A query names no time, or one that has passed.                          *)
LEMMA SalesNamedTypes ==
    ASSUME SalesSafetyInv, SalesConstants, NEW kind \in {"s15", "s16"}, NEW given \in Sales!Named(kind)
    PROVE  /\ given \in Sales!Time \cup {None} /\ Sales!AsOf(given) \in Nat
           /\ Sales!AsOf(given) <= clock
           /\ given = None => Sales!AsOf(given) = clock
           /\ given # None => Sales!AsOf(given) = given
<1>1. clock \in Nat /\ clock <= MaxClock /\ MaxClock \in Nat
  BY DEF SalesSafetyInv, Sales!TypeOK, Sales!Time, SalesConstants
<1>2. AsOfs[kind] \subseteq Nat
  BY DEF SalesConstants
<1>3. given # None => given \in Nat /\ given < clock
  BY <1>2 DEF Sales!Named
<1> QED BY <1>1, <1>3 DEF Sales!AsOf, Sales!Time

(* What a package knows is known of any earlier time.                      *)
LEMMA SalesKnowsLess ==
    ASSUME SalesSafetyInv, SalesConstants, NEW pack \in Sales!Package, NEW t \in Int, NEW u \in Int, u <= t,
           SalesKnows(pack, t)
    PROVE  SalesKnows(pack, u)
<1>1. /\ \A v \in 1..Len(calendar) : calendar[v] \in Nat
      /\ Len(calendar) \in Nat /\ scoped # None => scoped \in Nat
  BY DEF SalesSafetyInv, Sales!TypeOK, Sales!Time, SalesConstants
<1>2. pack.calendar # None => pack.calendar \in Nat
  BY DEF Sales!Package, SalesConstants
<1>3. SalesCalendarSince(pack.calendar, u)
  <2> SUFFICES ASSUME pack.calendar # None, NEW v \in (pack.calendar + 1)..Len(calendar)
               PROVE  calendar[v] >= u
    BY DEF SalesCalendarSince
  <2>1. v \in 1..Len(calendar)
    BY <1>1, <1>2
  <2>2. calendar[v] >= t
    BY DEF SalesKnows, SalesCalendarSince
  <2> QED BY <1>1, <2>1, <2>2
<1>4. ~ pack.scope /\ scoped # None => scoped >= u \/ (pack.given # None /\ pack.given <= scoped)
  BY <1>1 DEF SalesKnows
<1> QED BY <1>3, <1>4 DEF SalesKnows

LEMMA SalesFoundStep ==
    ASSUME SalesSafetyInv, SalesConstants, NEW q \in Sales!Queries, NEW kind \in {"s15", "s16"},
           Sales!Found(q, kind)
    PROVE  SalesSafetyInv'
<1>1. Sales!Hit /\ cache \in Sales!Row /\ cache.pack \in Sales!Package
      /\ SalesKnows(cache.pack, cache.created - 1)
      /\ clock \in Sales!Time /\ UNCHANGED <<Sales!world, cache>>
  BY DEF Sales!Found, Sales!Hit, SalesSafetyInv, Sales!TypeOK, SalesCacheInv
<1>2. clock \in Nat /\ cache.created \in Nat /\ TTL \in Nat /\ clock - cache.created <= TTL
  BY <1>1 DEF Sales!Hit, Sales!Row, Sales!Time, SalesConstants
<1>3. CASE kind = "s15"
  <2> DEFINE p == [Sales!Asked(kind, None) EXCEPT !.pack = cache.pack]
  <2>1. p \in Sales!Query /\ p.pack = cache.pack /\ p.began = clock
    BY <1>1, SalesAskedTypes DEF Sales!Query
  <2>2. Sales!Reply(q, p, "baseline")
    BY <1>3 DEF Sales!Found
  <2> HIDE DEF p
  <2>3. SalesKnows(cache.pack, clock - TTL - 1)
    BY <1>1, <1>2, SalesKnowsLess
  <2>4. SalesAnswerOK(p, "baseline")
    BY <1>1, <2>1, <2>3 DEF SalesAnswerOK
  <2> QED BY <1>1, <2>1, <2>2, <2>4, SalesReplyKeeps DEF Sales!Replies
<1>4. CASE kind = "s16"
  <2> DEFINE p == [Sales!Asked(kind, None) EXCEPT !.pc = "latest"]
  <2>1. p \in Sales!Query /\ p.pc = "latest" /\ p.began = clock /\ p.asof = clock /\ p.given = None
    BY SalesAskedTypes DEF Sales!Query, Sales!AsOf
  <2>2. Sales!GoOn(q, p)
    BY <1>4 DEF Sales!Found
  <2> HIDE DEF p
  <2>3. SalesQueryOK(p)
    BY <1>2, <2>1 DEF SalesQueryOK, SalesTimesOf, SalesPackOf, SalesWholeOf, SalesBlindOf
  <2> QED BY <1>1, <2>1, <2>2, <2>3, SalesGoOnKeeps
<1> QED BY <1>3, <1>4

LEMMA SalesNotFoundStep ==
    ASSUME SalesSafetyInv, SalesConstants, NEW q \in Sales!Queries, NEW kind \in {"s15", "s16"},
           Sales!NotFound(q, kind)
    PROVE  SalesSafetyInv'
<1>1. PICK given \in IF kind = "s15" THEN Sales!Named("s15") ELSE {None} :
        Sales!GoOn(q, [Sales!Asked(kind, given) EXCEPT !.pc = "calendar",
                                                       !.blind = Sales!Hit /\ kind = "s15"])
  BY DEF Sales!NotFound
<1>2. given \in Sales!Named(kind)
  BY <1>1 DEF Sales!Named
<1> DEFINE asked == Sales!Asked(kind, given)
           blind == Sales!Hit /\ kind = "s15"
           p == [asked EXCEPT !.pc = "calendar", !.blind = blind]
<1>3. blind \in BOOLEAN /\ (~ blind /\ kind = "s15" => ~ Sales!Hit)
  BY DEF Sales!Hit
<1>4. /\ asked \in Sales!Query /\ asked.kind = kind /\ asked.began = clock
      /\ asked.given = given /\ asked.asof = Sales!AsOf(given)
      /\ asked.pack = None /\ asked.whole = -1
  BY <1>2, SalesAskedTypes, SalesNamedTypes
<1> HIDE DEF asked, blind
<1>5. /\ p \in Sales!Query /\ p.pc = "calendar" /\ p.kind = kind /\ p.began = clock
      /\ p.given = given /\ p.asof = Sales!AsOf(given)
      /\ p.pack = None /\ p.whole = -1 /\ p.blind = blind
  BY <1>3, <1>4 DEF Sales!Query
<1>6. Sales!GoOn(q, p) /\ UNCHANGED <<Sales!world, cache>> /\ clock \in Nat
  BY <1>1 DEF Sales!NotFound, SalesSafetyInv, Sales!TypeOK, Sales!Time, asked, blind
<1> HIDE DEF p
<1>7. SalesQueryOK(p)
  <2>1. SalesTimesOf(p) /\ SalesPackOf(p) /\ SalesWholeOf(p)
    BY <1>5, <1>6, <1>2, SalesNamedTypes DEF SalesTimesOf, SalesPackOf, SalesWholeOf
  <2>2. SalesBlindOf(p)
    BY <1>5, <1>3 DEF SalesBlindOf
  <2> QED BY <2>1, <2>2 DEF SalesQueryOK
<1> QED BY <1>5, <1>6, <1>7, SalesGoOnKeeps

(* The builds.                                                             *)
LEMMA SalesReadCalendarStep ==
    ASSUME SalesSafetyInv, SalesConstants, NEW q \in Sales!Queries, Sales!ReadCalendar(q)
    PROVE  SalesSafetyInv'
<1> DEFINE r == queries[q]
<1>1. r \in Sales!Query /\ SalesQueryOK(r) /\ r.pc \in {"calendar", "calendar2"}
      /\ UNCHANGED <<Sales!world, cache>>
      /\ Len(calendar) \in Nat /\ Len(calendar) \in 0..MaxChanges
  BY DEF SalesSafetyInv, Sales!TypeOK, Sales!ReadCalendar, SalesWorldInv, SalesConstants
<1>2. PICK c \in {Len(calendar), None} :
          Sales!GoOn(q, [r EXCEPT !.pc = IF @ = "calendar" THEN "build" ELSE "build2", !.calendar = c])
  BY DEF Sales!ReadCalendar
<1> DEFINE p == [r EXCEPT !.pc = IF @ = "calendar" THEN "build" ELSE "build2", !.calendar = c]
<1>3. /\ p \in Sales!Query /\ p.pc = (IF r.pc = "calendar" THEN "build" ELSE "build2") /\ p.calendar = c
      /\ p.pack = r.pack /\ p.began = r.began /\ p.asof = r.asof /\ p.whole = r.whole
      /\ p.kind = r.kind /\ p.blind = r.blind /\ p.given = r.given
  BY <1>1 DEF Sales!Query
<1>4. Sales!GoOn(q, p)
  BY <1>2
<1> HIDE DEF p, r
<1>5. \A t : SalesCalendarSince(c, t)
  BY <1>1, <1>2 DEF SalesCalendarSince
<1>6. SalesQueryOK(p)
  <2>1. SalesTimesOf(p) /\ SalesPackOf(p)
    BY <1>1, <1>3, <1>5 DEF SalesQueryOK, SalesTimesOf, SalesPackOf
  <2>2. SalesWholeOf(p) /\ SalesBlindOf(p)
    BY <1>1, <1>3 DEF SalesQueryOK, SalesWholeOf, SalesBlindOf
  <2> QED BY <2>1, <2>2 DEF SalesQueryOK
<1> QED BY <1>1, <1>3, <1>4, <1>6, SalesGoOnKeeps

LEMMA SalesBuildStep ==
    ASSUME SalesSafetyInv, SalesConstants, NEW q \in Sales!Queries, Sales!Build(q)
    PROVE  SalesSafetyInv'
<1> DEFINE r == queries[q]
           t == IF Sales!Advance(r) THEN clock ELSE r.asof
<1>1. /\ r \in Sales!Query /\ SalesQueryOK(r) /\ r.pc \in {"build", "build2"}
         /\ UNCHANGED <<Sales!world, cache>>
      /\ r.began \in Nat /\ r.asof \in Nat /\ clock \in Nat /\ r.given \in Sales!Time \cup {None}
      /\ scoped # None => scoped \in Nat
  BY DEF SalesSafetyInv, Sales!TypeOK, Sales!Build, Sales!Query, Sales!Time, SalesConstants
<1>2. PICK known \in Sales!Shows(t) :
          Sales!GoOn(q, Sales!Built(r, [calendar |-> r.calendar, scope |-> known,
                                        given |-> IF known THEN None ELSE r.given]))
  BY DEF Sales!Build
<1> DEFINE pack == [calendar |-> r.calendar, scope |-> known, given |-> IF known THEN None ELSE r.given]
           p == Sales!Built(r, pack)
<1>3. known \in BOOLEAN
  <2>1. (scoped < t) \in BOOLEAN /\ (scoped <= t) \in BOOLEAN
    OBVIOUS
  <2> HIDE DEF t
  <2>2. known = FALSE \/ known = (scoped < t) \/ known = (scoped <= t)
    BY Zenon DEF Sales!Shows
  <2> QED BY <2>1, <2>2, Zenon
<1>4. pack \in Sales!Package /\ pack # None
  <2>1. pack \in Sales!Package
    BY <1>1, <1>3 DEF Sales!Query, Sales!Package
  <2> QED BY <2>1 DEF SalesConstants
<1>5. Sales!GoOn(q, p)
  BY <1>2
<1>6. pack.calendar = r.calendar /\ pack.scope = known /\ (~ known => pack.given = r.given)
  OBVIOUS
<1> HIDE DEF pack
<1>7. /\ p \in Sales!Query /\ p.pc = (IF r.pc = "build2" THEN "forecast" ELSE "persist") /\ p.pack = pack
      /\ p.began = r.began /\ p.asof = (IF r.pc = "build2" THEN r.asof ELSE 0) /\ p.given = None
      /\ p.whole = r.whole /\ p.kind = r.kind /\ p.blind = r.blind
  <2> DEFINE b == [r EXCEPT !.pack = pack, !.calendar = None, !.given = None]
  <2> HIDE DEF r
  <2>1. /\ b \in Sales!Query /\ b.pack = pack /\ b.given = None
        /\ b.began = r.began /\ b.asof = r.asof
        /\ b.whole = r.whole /\ b.kind = r.kind /\ b.blind = r.blind
    BY <1>1, <1>4 DEF Sales!Query
  <2>2. p = IF r.pc = "build2" THEN [b EXCEPT !.pc = "forecast"]
            ELSE [b EXCEPT !.pc = "persist", !.asof = 0]
    BY DEF Sales!Built
  <2> HIDE DEF b, p
  <2> QED BY <2>1, <2>2 DEF Sales!Query
<1> HIDE DEF p, r, t
<1>8. ~ known /\ scoped # None => scoped >= t
  <2>1. t \in Nat
    BY <1>1 DEF t
  <2>2. scoped # None => known = (scoped < t) \/ known = (scoped <= t)
    BY <1>2, Zenon DEF Sales!Shows
  <2>3. scoped # None /\ ~ (scoped < t) => scoped >= t
    BY <1>1, <2>1
  <2>4. scoped # None /\ ~ (scoped <= t) => scoped >= t
    BY <1>1, <2>1
  <2> QED BY <2>2, <2>3, <2>4
(* Its query named the time, or it is no earlier than the query.           *)
<1>9. t >= r.began \/ (r.given # None /\ t = r.given)
  BY <1>1 DEF t, Sales!Advance, SalesQueryOK, SalesTimesOf
<1>10. SalesKnows(pack, r.began)
  <2>1. SalesCalendarSince(pack.calendar, r.began)
    BY <1>1, <1>6 DEF SalesQueryOK, SalesPackOf
  <2>2. ASSUME ~ pack.scope, scoped # None
        PROVE  scoped >= r.began \/ (pack.given # None /\ pack.given <= scoped)
    <3>1. scoped >= t /\ pack.given = r.given
      BY <1>6, <1>8, <2>2
    <3>2. t \in Nat
      BY <1>1 DEF t
    <3> QED BY <1>1, <1>9, <2>2, <3>1, <3>2
  <2> QED BY <2>1, <2>2 DEF SalesKnows
<1>11. SalesKnows(pack, r.began - TTL - 1)
  <2>1. r.began - TTL - 1 \in Int /\ r.began - TTL - 1 <= r.began /\ r.began \in Int
    BY <1>1 DEF SalesConstants
  <2> QED BY <1>4, <1>10, <2>1, SalesKnowsLess
<1>12. SalesQueryOK(p)
  <2>1. SalesTimesOf(p)
    BY <1>1, <1>7 DEF SalesQueryOK, SalesTimesOf
  <2>2. SalesPackOf(p)
    BY <1>1, <1>4, <1>7, <1>10, <1>11 DEF SalesPackOf
  <2>3. SalesWholeOf(p) /\ SalesBlindOf(p)
    BY <1>1, <1>7 DEF SalesQueryOK, SalesWholeOf, SalesBlindOf
  <2> QED BY <2>1, <2>2, <2>3 DEF SalesQueryOK
<1> QED BY <1>1, <1>5, <1>7, <1>12, SalesGoOnKeeps

LEMMA SalesFailBuildStep ==
    ASSUME SalesSafetyInv, SalesConstants, NEW q \in Sales!Queries, Sales!FailBuild(q)
    PROVE  SalesSafetyInv'
<1> DEFINE r == queries[q]
<1>1. r \in Sales!Query /\ SalesQueryOK(r) /\ UNCHANGED <<Sales!world, cache>>
  BY DEF SalesSafetyInv, Sales!TypeOK, Sales!FailBuild
<1>2. CASE r.pc \in {"calendar", "build"}
  <2> DEFINE p == [r EXCEPT !.calendar = None, !.pc = IF r.kind = "s15" THEN "persist" ELSE "latest"]
  <2>1. Sales!GoOn(q, p)
    BY <1>2 DEF Sales!FailBuild
  <2>2. /\ p \in Sales!Query /\ p.pc = (IF r.kind = "s15" THEN "persist" ELSE "latest") /\ p.pack = r.pack
        /\ p.began = r.began /\ p.asof = r.asof /\ p.kind = r.kind /\ p.blind = r.blind
        /\ p.given = r.given
    BY <1>1 DEF Sales!Query
  <2> HIDE DEF p, r
  <2>3. SalesQueryOK(p)
    <3>1. SalesTimesOf(p) /\ SalesPackOf(p)
      BY <1>1, <1>2, <2>2 DEF SalesQueryOK, SalesTimesOf, SalesPackOf
    <3>2. SalesWholeOf(p) /\ SalesBlindOf(p)
      BY <1>1, <1>2, <2>2 DEF SalesQueryOK, SalesWholeOf, SalesBlindOf
    <3> QED BY <3>1, <3>2 DEF SalesQueryOK
  <2> QED BY <1>1, <2>1, <2>2, <2>3, SalesGoOnKeeps
<1>3. CASE r.pc \in {"calendar2", "build2"}
  <2> DEFINE f == Sales!Finished(r)
  <2>1. Sales!Reply(q, f, "gap")
    BY <1>3 DEF Sales!FailBuild
  <2>2. SalesAnswerOK(f, "gap") /\ "gap" \in Sales!Replies /\ f \in Sales!Query
    BY <1>1, SalesFinishedTypes DEF SalesAnswerOK, Sales!Replies
  <2> QED BY <1>1, <2>1, <2>2, SalesReplyKeeps
<1> QED BY <1>2, <1>3 DEF Sales!FailBuild

LEMMA SalesFailPersistStep ==
    ASSUME SalesSafetyInv, SalesConstants, NEW q \in Sales!Queries, Sales!FailPersist(q)
    PROVE  SalesSafetyInv'
<1> DEFINE r == queries[q]
           p == [r EXCEPT !.pc = "latest", !.pack = None]
<1>1. r \in Sales!Query /\ SalesQueryOK(r) /\ r.pc = "persist" /\ UNCHANGED <<Sales!world, cache>>
      /\ Sales!GoOn(q, p)
  BY DEF SalesSafetyInv, Sales!TypeOK, Sales!FailPersist
<1>2. p \in Sales!Query /\ p.pc = "latest" /\ p.began = r.began /\ p.asof = r.asof
      /\ p.given = r.given
  BY <1>1 DEF Sales!Query
<1> HIDE DEF p, r
<1>3. SalesQueryOK(p)
  BY <1>1, <1>2 DEF SalesQueryOK, SalesTimesOf, SalesPackOf, SalesWholeOf, SalesBlindOf
<1> QED BY <1>1, <1>2, <1>3, SalesGoOnKeeps

(* The write of a package, or of a failure, into the cache.                *)
LEMMA SalesPersistStep ==
    ASSUME SalesSafetyInv, SalesConstants, NEW q \in Sales!Queries, Sales!Persist(q)
    PROVE  SalesSafetyInv'
<1> DEFINE r == queries[q]
           shown == Sales!Shown(r)
           row == [ok |-> r.pack # None, pack |-> r.pack, created |-> clock]
           later == [r EXCEPT !.pc = "latest", !.pack = None]
<1>1. /\ r \in Sales!Query /\ SalesQueryOK(r) /\ r.pc = "persist" /\ UNCHANGED Sales!world
         /\ clock \in Sales!Time
      /\ clock \in Nat /\ r.kind \in {"s15", "s16"} /\ r.pack \in Sales!Package \cup {None}
      /\ r.began \in Nat /\ r.asof \in Nat
  BY DEF SalesSafetyInv, Sales!TypeOK, Sales!Persist, Sales!Query, Sales!Time, SalesConstants
<1>2. /\ cache' = row
      /\ queries' = [p \in Sales!Queries |->
            IF p = q THEN IF r.kind = "s15" THEN Sales!Finished(r) ELSE later
            ELSE IF cache'.ok THEN Sales!Unseeing(queries[p]) ELSE queries[p]]
      /\ answer' = IF r.kind = "s16" THEN None
                   ELSE [reply |-> IF cache'.ok THEN "baseline" ELSE "gap", of |-> shown]
  BY DEF Sales!Persist
<1>3. row \in Sales!Row /\ row.ok = (r.pack # None) /\ row.pack = r.pack /\ row.created = clock
  BY <1>1 DEF Sales!Row
<1>4. later \in Sales!Query /\ later.pc = "latest" /\ later.began = r.began /\ later.asof = r.asof
      /\ later.given = r.given
  BY <1>1 DEF Sales!Query
<1>5. /\ Sales!Finished(r) \in Sales!Query /\ Sales!Finished(r).pc = "done"
      /\ shown \in Sales!Answer /\ shown.began = r.began /\ shown.pack = r.pack
  BY <1>1, SalesFinishedTypes, SalesShownTypes
<1> HIDE DEF r, row, later, shown
<1>6. ASSUME NEW p \in Sales!Query
      PROVE  /\ Sales!Unseeing(p) \in Sales!Query /\ Sales!Unseeing(p).pc = p.pc
                /\ Sales!Unseeing(p).pack = p.pack
             /\ Sales!Unseeing(p).began = p.began /\ Sales!Unseeing(p).asof = p.asof
                /\ Sales!Unseeing(p).whole = p.whole /\ Sales!Unseeing(p).given = p.given
             /\ Sales!Unseeing(p).snap = p.snap /\ Sales!Unseeing(p).kind = p.kind
                /\ Sales!Unseeing(p).calendar = p.calendar
             /\ p.kind = "s15" /\ p.pc \in {"calendar", "build", "persist"} => Sales!Unseeing(p).blind
  <2> DEFINE b == p.blind \/ (p.kind = "s15" /\ p.pc \in {"calendar", "build", "persist"})
  <2>1. b \in BOOLEAN /\ Sales!Unseeing(p) = [p EXCEPT !.blind = b]
    BY DEF Sales!Unseeing
  <2>2. p.kind = "s15" /\ p.pc \in {"calendar", "build", "persist"} => b
    OBVIOUS
  <2> HIDE DEF b
  <2>3. Sales!Unseeing(p).blind = b
    BY <2>1 DEF Sales!Query
  <2> QED BY <2>1, <2>2, <2>3 DEF Sales!Query
<1>7. r.pack # None => /\ r.pack \in Sales!Package /\ SalesKnows(r.pack, clock - 1)
                       /\ SalesKnows(r.pack, r.began - TTL - 1)
  <2> SUFFICES ASSUME r.pack # None
               PROVE  r.pack \in Sales!Package /\ SalesKnows(r.pack, clock - 1)
                      /\ SalesKnows(r.pack, r.began - TTL - 1)
    OBVIOUS
  <2>1. r.pack \in Sales!Package /\ SalesKnows(r.pack, r.began)
    BY <1>1 DEF SalesQueryOK, SalesPackOf
  <2>2. clock <= r.began + 1 /\ TTL \in Nat
    BY <1>1 DEF SalesQueryOK, SalesTimesOf, SalesConstants
  <2>3. /\ clock - 1 <= r.began /\ clock - 1 \in Int /\ r.began - TTL - 1 <= r.began
        /\ r.began - TTL - 1 \in Int /\ r.began \in Int
    BY <1>1, <2>2
  <2> QED BY <2>1, <2>3, SalesKnowsLess
<1>8. /\ clock' = clock /\ calendar' = calendar /\ scoped' = scoped /\ batches' = batches
      /\ changes' = changes
  BY <1>1 DEF Sales!world
<1>9. \A pack, t : SalesKnows(pack, t)' <=> SalesKnows(pack, t)
  BY <1>8 DEF SalesKnows, SalesCalendarSince
<1>10. Sales!TypeOK'
  <2>1. \A p \in Sales!Queries : queries[p] \in Sales!Query
    BY DEF SalesSafetyInv, Sales!TypeOK
  <2>2. queries' \in [Sales!Queries -> Sales!Query]
    BY <1>2, <1>4, <1>5, <1>6, <2>1
  <2>3. answer' \in [reply: Sales!Replies, of: Sales!Answer] \cup {None}
    <3>1. {"baseline", "gap"} \subseteq Sales!Replies
      BY DEF Sales!Replies
    <3> QED BY <1>2, <1>5, <3>1
  <2>4. cache' \in Sales!Row \cup {None}
    BY <1>2, <1>3
  <2> QED BY <1>8, <2>2, <2>3, <2>4 DEF SalesSafetyInv, Sales!TypeOK
<1>11. SalesWorldInv'
  BY <1>8 DEF SalesSafetyInv, SalesWorldInv
<1>12. SalesCacheInv'
  <2>1. cache'.ok => cache'.pack = r.pack /\ r.pack # None /\ cache'.created = clock
    BY <1>2, <1>3
  <2>2. cache'.ok => SalesKnows(cache'.pack, cache'.created - 1)
    BY <1>7, <2>1
  <2>3. cache'.ok => SalesKnows(cache.pack, cache.created - 1)'
    BY <1>8, <2>2 DEF SalesKnows, SalesCalendarSince
  <2>4. cache'.created <= clock'
    BY <1>1, <1>2, <1>3, <1>8
  <2> QED BY <1>7, <2>1, <2>3, <2>4 DEF SalesCacheInv
<1>13. SalesAnswerInv'
  BY <1>2, <1>3, <1>5, <1>7, <1>9 DEF SalesAnswerInv, Sales!Answers
<1>14. ASSUME NEW p \in Sales!Queries PROVE SalesQueryOK(queries[p])'
  <2>1. queries[p] \in Sales!Query /\ SalesQueryOK(queries[p])
    BY DEF SalesSafetyInv, Sales!TypeOK
  <2>2. CASE p = q /\ r.kind = "s15"
    <3>1. queries'[p] = Sales!Finished(r)
      BY <1>2, <2>2
    <3> QED BY <1>5, <3>1 DEF SalesQueryOK, SalesTimesOf, SalesPackOf, SalesWholeOf, SalesBlindOf
  <2>3. CASE p = q /\ r.kind # "s15"
    <3>1. queries'[p] = later
      BY <1>2, <2>3
    <3> QED BY <1>1, <1>4, <1>8, <3>1
            DEF SalesQueryOK, SalesTimesOf, SalesPackOf, SalesWholeOf, SalesBlindOf
  <2>4. CASE p # q
    <3> DEFINE s == queries[p]
    <3>1. PICK u : u = queries'[p]
      OBVIOUS
    <3>2. s \in Sales!Query /\ SalesQueryOK(s)
      BY <2>1
    <3> HIDE DEF s
    <3>3. u = IF r.pack # None THEN Sales!Unseeing(s) ELSE s
      BY <1>2, <1>3, <2>4, <3>1 DEF s
    <3>4. /\ u.pc = s.pc /\ u.pack = s.pack /\ u.began = s.began /\ u.asof = s.asof
          /\ u.whole = s.whole /\ u.snap = s.snap /\ u.kind = s.kind /\ u.calendar = s.calendar
          /\ u.given = s.given
      BY <1>6, <3>2, <3>3
    <3>5. SalesTimesOf(u)'
      BY <1>8, <3>2, <3>4 DEF SalesQueryOK, SalesTimesOf
    <3>6. SalesPackOf(u)'
      BY <1>8, <3>2, <3>4 DEF SalesQueryOK, SalesPackOf, SalesKnows, SalesCalendarSince
    <3>7. SalesWholeOf(u)'
      BY <1>8, <3>2, <3>4 DEF SalesQueryOK, SalesWholeOf
    <3>8. SalesBlindOf(u)'
      <4>1. CASE r.pack # None
        <5>1. u.kind = "s15" /\ u.pc \in {"calendar", "build", "persist"} => u.blind
          BY <1>6, <3>2, <3>3, <3>4, <4>1
        <5> QED BY <5>1 DEF SalesBlindOf
      <4>2. CASE r.pack = None
        <5>1. ~ Sales!Hit'
          BY <1>2, <1>3, <4>2 DEF Sales!Hit
        <5> QED BY <5>1 DEF SalesBlindOf
      <4> QED BY <4>1, <4>2
    <3>9. SalesQueryOK(u)'
      BY <3>5, <3>6, <3>7, <3>8 DEF SalesQueryOK
    <3> QED BY <3>1, <3>9
  <2> QED BY <2>2, <2>3, <2>4
<1> QED BY <1>10, <1>11, <1>12, <1>13, <1>14 DEF SalesSafetyInv

(* The report.                                                             *)
LEMMA SalesBatchTypes ==
    ASSUME SalesSafetyInv, SalesConstants
    PROVE  /\ Len(batches) \in Nat /\ DOMAIN batches = 1..Len(batches)
           /\ \A i \in 1..Len(batches) :
                 /\ batches[i] \in [snap: Sales!Time, rooms: 0..Rooms]
                 /\ batches[i].snap \in Nat /\ batches[i].rooms \in Nat /\ batches[i].snap <= clock
           /\ clock \in Nat
<1> DEFINE S == [snap: Sales!Time, rooms: 0..Rooms]
<1>1. batches \in Seq(S) /\ clock \in Nat
  BY DEF SalesSafetyInv, Sales!TypeOK, Sales!Time, SalesConstants
<1> HIDE DEF S
<1>2. Len(batches) \in Nat /\ DOMAIN batches = 1..Len(batches)
      /\ \A i \in 1..Len(batches) : batches[i] \in S
  BY <1>1
<1>3. \A i \in 1..Len(batches) : batches[i].snap <= clock
  BY DEF SalesSafetyInv, SalesWorldInv
<1>4. ASSUME NEW e \in S PROVE e.snap \in Nat /\ e.rooms \in Nat
  BY DEF S, Sales!Time, SalesConstants
<1> QED BY <1>1, <1>2, <1>3, <1>4 DEF S

LEMMA SalesNewestWhole ==
    ASSUME SalesSafetyInv, SalesConstants, NEW t \in Nat, t <= clock,
           NEW m, m = Sales!Max(Sales!WholeBatches(t) \cup {-1})
    PROVE  /\ m \in Sales!Time \cup {-1}
           /\ \/ m = -1
              \/ \E i \in DOMAIN batches :
                    batches[i].rooms = Rooms /\ batches[i].snap = m /\ m <= t
<1> DEFINE S == Sales!WholeBatches(t) \cup {-1}
<1>1. \A x \in Sales!WholeBatches(t) :
          \E i \in 1..Len(batches) : batches[i].rooms = Rooms /\ batches[i].snap = x /\ x <= t
  BY SalesBatchTypes DEF Sales!WholeBatches
<1>2. \A x \in Sales!WholeBatches(t) : x \in Sales!Time /\ x \in Nat /\ x <= clock
  BY <1>1, SalesBatchTypes
<1>3. S \subseteq Int /\ \A x \in S : x <= clock
  BY <1>2, SalesBatchTypes
<1>4. S # {} /\ clock \in Int
  BY SalesBatchTypes
<1> HIDE DEF S
<1>5. Sales!Max(S) \in S
  BY <1>3, <1>4, MaxIndex
<1>6. m \in Sales!WholeBatches(t) \cup {-1}
  BY <1>5 DEF S
<1> QED BY <1>1, <1>2, <1>6, SalesBatchTypes

LEMMA SalesLatestStep ==
    ASSUME SalesSafetyInv, SalesConstants, NEW q \in Sales!Queries, Sales!Latest(q)
    PROVE  SalesSafetyInv'
<1> DEFINE r == queries[q]
<1>1. /\ r \in Sales!Query /\ SalesQueryOK(r) /\ r.pc = "latest" /\ UNCHANGED <<Sales!world, cache>>
         /\ clock \in Sales!Time
      /\ clock \in Nat
  BY DEF SalesSafetyInv, Sales!TypeOK, Sales!Latest, Sales!Time, SalesConstants
<1>2. PICK hit \in {Sales!Hit, FALSE}, given \in Sales!Named("s16") :
          Sales!GoOn(q, [r EXCEPT !.pc = IF hit THEN "forecast" ELSE "calendar2",
                            !.pack = IF hit THEN cache.pack ELSE None,
                            !.given = IF hit THEN None ELSE given,
                            !.asof = Sales!AsOf(given),
                            !.whole = Sales!Max(Sales!WholeBatches(Sales!AsOf(given)) \cup {-1})])
  BY DEF Sales!Latest
<1> DEFINE m == Sales!Max(Sales!WholeBatches(Sales!AsOf(given)) \cup {-1})
           p == [r EXCEPT !.pc = IF hit THEN "forecast" ELSE "calendar2",
                          !.pack = IF hit THEN cache.pack ELSE None,
                          !.given = IF hit THEN None ELSE given,
                          !.asof = Sales!AsOf(given), !.whole = m]
<1>3. /\ given \in Sales!Time \cup {None} /\ Sales!AsOf(given) \in Nat /\ Sales!AsOf(given) <= clock
      /\ given = None => Sales!AsOf(given) = clock
      /\ given # None => Sales!AsOf(given) = given
  BY SalesNamedTypes
<1>4. PICK whole \in Sales!Time \cup {-1} : whole = m
  BY <1>3, SalesNewestWhole
<1>5. hit => /\ Sales!Hit /\ cache \in Sales!Row /\ cache.pack \in Sales!Package
                /\ SalesKnows(cache.pack, cache.created - 1)
  BY <1>2 DEF Sales!Hit, SalesSafetyInv, Sales!TypeOK, SalesCacheInv
<1>6. /\ p \in Sales!Query /\ p.pc = (IF hit THEN "forecast" ELSE "calendar2")
         /\ p.asof = Sales!AsOf(given) /\ p.given = (IF hit THEN None ELSE given) /\ p.whole = whole
      /\ p.pack = (IF hit THEN cache.pack ELSE None) /\ p.began = r.began
  BY <1>1, <1>3, <1>4, <1>5 DEF Sales!Query
<1>7. Sales!GoOn(q, p)
  BY <1>2
<1> HIDE DEF p, r
<1>8. hit => SalesKnows(cache.pack, p.began - TTL - 1)
  <2> SUFFICES ASSUME hit PROVE SalesKnows(cache.pack, p.began - TTL - 1)
    OBVIOUS
  <2>1. cache.created \in Nat /\ TTL \in Nat /\ clock - cache.created <= TTL
    BY <1>5 DEF Sales!Hit, Sales!Row, Sales!Time, SalesConstants
  <2>2. p.began \in Nat /\ p.began <= clock
    BY <1>1, <1>6 DEF Sales!Query, Sales!Time, SalesConstants, SalesQueryOK, SalesTimesOf
  <2>3. /\ p.began - TTL - 1 <= cache.created - 1 /\ p.began - TTL - 1 \in Int
        /\ cache.created - 1 \in Int
    BY <1>1, <2>1, <2>2
  <2> QED BY <1>5, <2>3, SalesKnowsLess
<1>9. SalesQueryOK(p)
  <2>1. SalesTimesOf(p)
    BY <1>1, <1>3, <1>6 DEF SalesQueryOK, SalesTimesOf
  <2>2. SalesPackOf(p)
    BY <1>5, <1>6, <1>8 DEF SalesPackOf
  <2>3. SalesWholeOf(p)
    BY <1>3, <1>4, <1>6, SalesNewestWhole DEF SalesWholeOf
  <2>4. SalesBlindOf(p)
    BY <1>6 DEF SalesBlindOf
  <2> QED BY <2>1, <2>2, <2>3, <2>4 DEF SalesQueryOK
<1> QED BY <1>1, <1>6, <1>7, <1>9, SalesGoOnKeeps

(* The batch that a report takes is none older than the newest that was    *)
(* whole.                                                                  *)
LEMMA SalesSelectedIsWhole ==
    ASSUME SalesSafetyInv, SalesConstants, NEW q \in Sales!Queries, queries[q].pc = "forecast",
           Sales!Known(q) # {}
    PROVE  /\ Sales!Selected(q).snap \in Sales!Time /\ Sales!Selected(q).rooms \in 0..Rooms
           /\ Sales!Selected(q).snap >= queries[q].whole
<1> DEFINE r == queries[q]
           K == Sales!Known(q)
           W == {i \in K : Sales!Complete(r.pack, batches[i].rooms)}
           S == IF W # {} THEN W ELSE K
<1>1. r \in Sales!Query /\ SalesQueryOK(r) /\ r.pc = "forecast"
  BY DEF SalesSafetyInv, Sales!TypeOK
<1>2. K \subseteq 1..Len(batches) /\ W \subseteq K
  BY SalesBatchTypes DEF Sales!Known
<1>3. S \subseteq Int /\ S # {} /\ S \subseteq K /\ \A x \in S : x <= Len(batches)
  BY <1>2, SalesBatchTypes
<1>4. Sales!Selected(q) = batches[Sales!Max(S)]
  BY DEF Sales!Selected
<1>5. Sales!Max(S) \in S /\ \A y \in S : Sales!Max(S) >= y
  <2>1. Len(batches) \in Int
    BY SalesBatchTypes
  <2> HIDE DEF S
  <2> QED BY <1>3, <2>1, MaxIndex
<1>6. PICK n : n = Sales!Max(S)
  OBVIOUS
<1>7. n \in 1..Len(batches) /\ Sales!Selected(q) = batches[n]
  BY <1>2, <1>3, <1>4, <1>5, <1>6
<1>8. Sales!Selected(q).snap \in Sales!Time /\ Sales!Selected(q).rooms \in 0..Rooms
      /\ Sales!Selected(q).snap \in Nat
  <2>1. batches[n] \in [snap: Sales!Time, rooms: 0..Rooms] /\ batches[n].snap \in Nat
    BY <1>7, SalesBatchTypes
  <2> QED BY <1>7, <2>1
<1>9. Sales!Selected(q).snap >= r.whole
  <2>1. CASE r.whole = -1
    BY <1>8, <2>1
  <2>2. CASE r.whole # -1
    <3>1. PICK i \in 1..Len(batches) : batches[i].rooms = Rooms /\ batches[i].snap = r.whole
              /\ r.whole <= r.asof
      BY <1>1, <2>2, SalesBatchTypes DEF SalesQueryOK, SalesWholeOf
    <3>2. i \in W
      <4>1. Sales!Complete(r.pack, batches[i].rooms)
        BY <3>1 DEF Sales!Complete
      <4>2. batches[i].rooms > 0
        BY <3>1, SalesBatchTypes DEF SalesConstants
      <4> QED BY <3>1, <4>1, <4>2, SalesBatchTypes DEF Sales!Known
    <3>3. n >= i
      BY <1>5, <1>6, <3>2
    <3>4. i < n => batches[i].snap < batches[n].snap
      BY <1>7, <3>1 DEF SalesSafetyInv, SalesWorldInv
    <3>5. batches[i].snap \in Nat /\ batches[n].snap \in Nat
      BY <1>7, <3>1, SalesBatchTypes
    <3>6. CASE i = n
      BY <1>7, <3>1, <3>5, <3>6
    <3>7. CASE i < n
      BY <1>7, <3>1, <3>4, <3>5, <3>7
    <3> QED BY <1>7, <3>1, <3>3, <3>6, <3>7
  <2> QED BY <2>1, <2>2
<1> QED BY <1>8, <1>9

LEMMA SalesForecastStep ==
    ASSUME SalesSafetyInv, SalesConstants, NEW q \in Sales!Queries, Sales!Forecast(q)
    PROVE  SalesSafetyInv'
<1> DEFINE r == queries[q]
<1>1. /\ r \in Sales!Query /\ SalesQueryOK(r) /\ r.pc = "forecast" /\ Sales!Known(q) # {}
         /\ UNCHANGED <<Sales!world, cache>>
  BY DEF SalesSafetyInv, Sales!TypeOK, Sales!Forecast
<1>2. PICK b : b = Sales!Selected(q)
  OBVIOUS
<1>3. b.snap \in Sales!Time /\ b.rooms \in 0..Rooms /\ b.snap >= r.whole
  BY <1>1, <1>2, SalesSelectedIsWhole
<1> DEFINE p == [r EXCEPT !.pc = "check", !.snap = b.snap, !.rooms = b.rooms]
<1>4. Sales!GoOn(q, p)
  BY <1>2 DEF Sales!Forecast
<1>5. /\ p \in Sales!Query /\ p.pc = "check" /\ p.snap = b.snap /\ p.whole = r.whole /\ p.pack = r.pack
      /\ p.asof = r.asof /\ p.began = r.began /\ p.given = r.given
  BY <1>1, <1>3 DEF Sales!Query
<1> HIDE DEF p, r
<1>6. SalesQueryOK(p)
  BY <1>1, <1>3, <1>5 DEF SalesQueryOK, SalesTimesOf, SalesPackOf, SalesWholeOf, SalesBlindOf
<1> QED BY <1>1, <1>4, <1>5, <1>6, SalesGoOnKeeps

LEMMA SalesEndStep ==
    ASSUME SalesSafetyInv, SalesConstants, NEW q \in Sales!Queries,
           Sales!NoForecast(q) \/ Sales!Check(q) \/ Sales!Die(q)
    PROVE  SalesSafetyInv'
<1> DEFINE r == queries[q]
<1>1. r \in Sales!Query /\ SalesQueryOK(r)
  BY DEF SalesSafetyInv, Sales!TypeOK
<1>2. CASE Sales!NoForecast(q)
  <2> DEFINE f == Sales!Finished(r)
  <2>1. PICK text \in {"not_applicable", "gap"} : Sales!Reply(q, f, text)
    BY <1>2 DEF Sales!NoForecast
  <2>2. SalesAnswerOK(f, text) /\ text \in Sales!Replies /\ f \in Sales!Query
    BY <1>1, <2>1, SalesFinishedTypes DEF SalesAnswerOK, Sales!Replies
  <2>3. UNCHANGED <<Sales!world, cache>>
    BY <1>2 DEF Sales!NoForecast
  <2> QED BY <1>1, <2>1, <2>2, <2>3, SalesReplyKeeps
<1>3. CASE Sales!Check(q)
  <2>1. PICK text \in {"unjudged", "ok", "partial"} :
            Sales!Reply(q, r, text) /\ (text = "ok" => Sales!Complete(r.pack, r.rooms))
    BY <1>3 DEF Sales!Check
  <2>2. r.pc = "check" /\ UNCHANGED <<Sales!world, cache>>
    BY <1>3 DEF Sales!Check
  <2>3. SalesAnswerOK(r, text) /\ text \in Sales!Replies
    BY <1>1, <2>1, <2>2 DEF SalesAnswerOK, Sales!Replies, SalesQueryOK, SalesPackOf, SalesWholeOf
  <2> QED BY <1>1, <2>1, <2>2, <2>3, SalesReplyKeeps
<1>4. CASE Sales!Die(q)
  <2>1. Sales!GoOn(q, Sales!Finished(r)) /\ UNCHANGED <<Sales!world, cache>>
    BY <1>4 DEF Sales!Die
  <2>2. Sales!Finished(r) \in Sales!Query /\ SalesQueryOK(Sales!Finished(r))
    BY <1>1, SalesFinishedTypes, SalesDoneIsOK
  <2> QED BY <2>1, <2>2, SalesGoOnKeeps
<1> QED BY <1>2, <1>3, <1>4

(* A change of the world disturbs no query, no package and no answer.      *)
LEMMA SalesWorldKeeps ==
    ASSUME SalesSafetyInv, SalesConstants, Sales!TypeOK', SalesWorldInv', Sales!Meanwhile,
           clock <= clock',
           \A c \in 0..MaxChanges \cup {None}, t \in Int :
              t <= clock /\ SalesCalendarSince(c, t) => SalesCalendarSince(c, t)',
           scoped' = scoped \/ (scoped = None /\ scoped' = clock),
           \A i \in DOMAIN batches :
              batches[i].rooms = Rooms => i \in DOMAIN batches' /\ batches'[i] = batches[i],
           \A q \in Sales!Queries : SalesTimesOf(queries[q])',
           Sales!Hit' => Sales!Hit
    PROVE  SalesSafetyInv'
<1>1. answer' = None /\ cache' = cache /\ queries' = queries /\ clock \in Nat /\ clock' \in Nat
      /\ TTL \in Nat
  BY DEF Sales!Meanwhile, SalesSafetyInv, Sales!TypeOK, Sales!Time, SalesConstants
<1>2. ASSUME NEW pack \in Sales!Package, NEW t \in Int, t <= clock, SalesKnows(pack, t)
      PROVE  SalesKnows(pack, t)'
  <2>1. pack.calendar \in 0..MaxChanges \cup {None}
    BY DEF Sales!Package
  <2>2. SalesCalendarSince(pack.calendar, t)'
    BY <1>2, <2>1 DEF SalesKnows
  <2>3. ~ pack.scope /\ scoped' # None
            => scoped' >= t \/ (pack.given # None /\ pack.given <= scoped')
    BY <1>1, <1>2 DEF SalesKnows
  <2> QED BY <2>2, <2>3 DEF SalesKnows
<1>3. SalesCacheInv'
  <2> SUFFICES ASSUME cache # None
               PROVE  /\ cache.created <= clock'
                      /\ cache.ok => cache.pack \in Sales!Package
                         /\ SalesKnows(cache.pack, cache.created - 1)'
    BY <1>1 DEF SalesCacheInv, SalesKnows, SalesCalendarSince
  <2>1. cache.created \in Nat /\ cache.created <= clock
    BY DEF SalesSafetyInv, Sales!TypeOK, SalesCacheInv, Sales!Row, Sales!Time, SalesConstants
  <2>2. cache.created - 1 \in Int /\ cache.created - 1 <= clock /\ cache.created <= clock'
    BY <1>1, <2>1
  <2>3. ASSUME cache.ok PROVE cache.pack \in Sales!Package /\ SalesKnows(cache.pack, cache.created - 1)'
    <3>1. cache.pack \in Sales!Package /\ SalesKnows(cache.pack, cache.created - 1)
      BY <2>3 DEF SalesSafetyInv, SalesCacheInv
    <3>2. PICK pack \in Sales!Package, t \in Int : pack = cache.pack /\ t = cache.created - 1
      BY <2>2, <3>1
    <3>3. SalesKnows(pack, t)'
      BY <1>2, <2>2, <3>1, <3>2
    <3> QED BY <1>1, <3>1, <3>2, <3>3 DEF SalesKnows, SalesCalendarSince
  <2> QED BY <2>2, <2>3
<1>4. SalesAnswerInv'
  BY <1>1 DEF SalesAnswerInv, Sales!Answers
<1>5. ASSUME NEW q \in Sales!Queries PROVE SalesQueryOK(queries[q])'
  <2>1. PICK p \in Sales!Query : p = queries[q]
    BY DEF SalesSafetyInv, Sales!TypeOK
  <2>2. SalesQueryOK(p) /\ queries'[q] = p /\ SalesTimesOf(p)'
    BY <1>1, <2>1 DEF SalesSafetyInv, SalesTimesOf
  <2>3. p.began \in Int /\ p.began - TTL - 1 \in Int /\ p.began - TTL - 1 <= p.began
    BY <1>1 DEF Sales!Query, Sales!Time, SalesConstants
  <2>4. p.calendar \in 0..MaxChanges \cup {None} /\ p.pack \in Sales!Package \cup {None}
    BY DEF Sales!Query
  <2>5. p.pc \notin {"new", "done"} => p.began <= clock /\ p.began - TTL - 1 <= clock
    <3>1. p.pc \notin {"new", "done"} => p.began <= clock
      BY <1>1, <2>2, <2>3 DEF SalesQueryOK, SalesTimesOf
    <3> QED BY <1>1, <2>3, <3>1
  <2>6. SalesPackOf(p)'
    <3>1. p.pc \in {"build", "build2"} => SalesCalendarSince(p.calendar, p.began)'
      BY <2>2, <2>3, <2>4, <2>5 DEF SalesQueryOK, SalesPackOf
    <3>2. p.pc = "persist" /\ p.pack # None => SalesKnows(p.pack, p.began)'
      BY <1>2, <2>2, <2>3, <2>4, <2>5 DEF SalesQueryOK, SalesPackOf
    <3>3. p.pc \in {"forecast", "check"}
            => p.pack \in Sales!Package /\ SalesKnows(p.pack, p.began - TTL - 1)'
      <4>1. p.pc \in {"forecast", "check"} =>
               p.pack \in Sales!Package /\ SalesKnows(p.pack, p.began - TTL - 1) /\ p.began - TTL - 1 <= clock
        BY <2>2, <2>5 DEF SalesQueryOK, SalesPackOf
      <4>2. PICK t \in Int : t = p.began - TTL - 1
        BY <2>3
      <4>3. p.pc \in {"forecast", "check"} => p.pack \in Sales!Package /\ SalesKnows(p.pack, t)'
        BY <1>2, <4>1, <4>2
      <4> QED BY <4>2, <4>3
    <3> QED BY <2>2, <3>1, <3>2, <3>3 DEF SalesQueryOK, SalesPackOf
  <2>7. SalesWholeOf(p)'
    BY <2>2 DEF SalesQueryOK, SalesWholeOf
  <2>8. SalesBlindOf(p)'
    BY <2>2 DEF SalesQueryOK, SalesBlindOf
  <2>9. SalesQueryOK(p)'
    BY <2>2, <2>6, <2>7, <2>8 DEF SalesQueryOK
  <2> QED BY <1>1, <2>1, <2>9
<1> QED BY <1>3, <1>4, <1>5 DEF SalesSafetyInv

LEMMA SalesTickStep == ASSUME SalesSafetyInv, SalesConstants, Sales!Tick PROVE SalesSafetyInv'
<1>1. /\ clock' = clock + 1 /\ clock < MaxClock /\ Sales!Meanwhile
      /\ calendar' = calendar /\ scoped' = scoped /\ batches' = batches /\ changes' = changes
      /\ clock \in Nat /\ clock' \in Sales!Time
      /\ cache' = cache /\ queries' = queries /\ answer' = None
  BY DEF Sales!Tick, Sales!Meanwhile, SalesSafetyInv, Sales!TypeOK, Sales!Time, SalesConstants
<1>2. Sales!TypeOK'
  BY <1>1 DEF SalesSafetyInv, Sales!TypeOK
<1>3. SalesWorldInv'
  <2>1. \A v \in 1..Len(calendar) : calendar[v] \in Nat
    BY DEF SalesSafetyInv, Sales!TypeOK, Sales!Time, SalesConstants
  <2>2. scoped # None => scoped \in Nat
    BY DEF SalesSafetyInv, Sales!TypeOK, Sales!Time, SalesConstants
  <2> QED BY <1>1, <2>1, <2>2, SalesBatchTypes DEF SalesSafetyInv, SalesWorldInv
<1>4. ASSUME NEW q \in Sales!Queries PROVE SalesTimesOf(queries[q])'
  <2>1. queries[q] \in Sales!Query /\ SalesQueryOK(queries[q])
    BY DEF SalesSafetyInv, Sales!TypeOK
  <2>2. queries[q].pc \notin {"new", "done"} => queries[q].began = clock
    BY DEF Sales!Tick, Sales!Running
  <2>3. queries[q].began \in Nat /\ queries[q].asof \in Nat
    BY <2>1 DEF Sales!Query, Sales!Time, SalesConstants
  <2> QED BY <1>1, <2>1, <2>2, <2>3 DEF SalesQueryOK, SalesTimesOf
<1>5. Sales!Hit' => Sales!Hit
  <2>1. cache # None => cache.created \in Nat
    BY DEF SalesSafetyInv, Sales!TypeOK, Sales!Row, Sales!Time, SalesConstants
  <2> QED BY <1>1, <2>1 DEF Sales!Hit, SalesConstants
<1>6. \A c, t : SalesCalendarSince(c, t) => SalesCalendarSince(c, t)'
  BY <1>1 DEF SalesCalendarSince
<1>7. clock <= clock'
  BY <1>1
<1> QED BY <1>1, <1>2, <1>3, <1>4, <1>5, <1>6, <1>7, SalesWorldKeeps

LEMMA SalesChangeCalendarStep ==
    ASSUME SalesSafetyInv, SalesConstants, Sales!ChangeCalendar PROVE SalesSafetyInv'
<1>1. /\ clock' = clock /\ calendar' = Append(calendar, clock) /\ Sales!Meanwhile /\ changes' = changes + 1
      /\ changes < MaxChanges /\ scoped' = scoped /\ batches' = batches
      /\ cache' = cache /\ queries' = queries /\ answer' = None
      /\ clock \in Nat /\ clock \in Sales!Time /\ calendar \in Seq(Sales!Time) /\ Len(calendar) \in Nat
  BY
  DEF Sales!ChangeCalendar, Sales!CanChange, Sales!Meanwhile, SalesSafetyInv, Sales!TypeOK, Sales!Time,
      SalesConstants
<1>2. /\ calendar' \in Seq(Sales!Time) /\ Len(calendar') = Len(calendar) + 1
      /\ \A v \in 1..Len(calendar) : calendar'[v] = calendar[v] /\ calendar[v] \in Sales!Time
      /\ calendar'[Len(calendar) + 1] = clock
  <2>1. ASSUME NEW S, NEW s \in Seq(S), NEW e \in S
        PROVE  /\ Append(s, e) \in Seq(S) /\ Len(Append(s, e)) = Len(s) + 1
               /\ \A v \in 1..Len(s) : Append(s, e)[v] = s[v] /\ s[v] \in S
               /\ Append(s, e)[Len(s) + 1] = e
    OBVIOUS
  <2> QED BY <1>1, <2>1
<1>3. Sales!TypeOK'
  BY <1>1, <1>2 DEF SalesSafetyInv, Sales!TypeOK
<1>4. SalesWorldInv'
  <2>1. Len(calendar') <= changes' /\ changes' \in 0..MaxChanges
    BY <1>1, <1>2 DEF SalesSafetyInv, SalesWorldInv, SalesConstants
  <2>2. ASSUME NEW v \in 1..Len(calendar') PROVE calendar'[v] <= clock'
    <3>1. v \in 1..Len(calendar) \/ v = Len(calendar) + 1
      BY <1>1, <1>2
    <3>2. \A u \in 1..Len(calendar) : calendar[u] <= clock
      BY DEF SalesSafetyInv, SalesWorldInv
    <3> QED BY <1>1, <1>2, <3>1, <3>2
  <2> QED BY <1>1, <2>1, <2>2 DEF SalesSafetyInv, SalesWorldInv
<1>5. ASSUME NEW c \in 0..MaxChanges \cup {None}, NEW t \in Int, t <= clock, SalesCalendarSince(c, t)
      PROVE  SalesCalendarSince(c, t)'
  <2> SUFFICES ASSUME c # None, NEW v \in (c+1)..Len(calendar') PROVE calendar'[v] >= t
    BY DEF SalesCalendarSince
  <2>1. c \in Nat
    BY DEF SalesConstants
  <2>2. (v \in (c+1)..Len(calendar) /\ v \in 1..Len(calendar)) \/ v = Len(calendar) + 1
    BY <1>1, <1>2, <2>1
  <2>3. CASE v = Len(calendar) + 1
    BY <1>1, <1>2, <1>5, <2>3
  <2>4. CASE v \in (c+1)..Len(calendar) /\ v \in 1..Len(calendar)
    BY <1>2, <1>5, <2>4 DEF SalesCalendarSince
  <2> QED BY <2>2, <2>3, <2>4
<1>6. ASSUME NEW q \in Sales!Queries PROVE SalesTimesOf(queries[q])'
  BY <1>1 DEF SalesSafetyInv, SalesQueryOK, SalesTimesOf
<1>7. (Sales!Hit' => Sales!Hit) /\ clock <= clock'
  BY <1>1 DEF Sales!Hit
<1> QED BY <1>1, <1>3, <1>4, <1>5, <1>6, <1>7, SalesWorldKeeps

LEMMA SalesLearnRoomsStep == ASSUME SalesSafetyInv, SalesConstants, Sales!LearnRooms PROVE SalesSafetyInv'
<1>1. /\ clock' = clock /\ scoped = None /\ scoped' = clock /\ Sales!Meanwhile /\ changes' = changes + 1
      /\ changes < MaxChanges /\ calendar' = calendar /\ batches' = batches
      /\ cache' = cache /\ queries' = queries /\ answer' = None
      /\ clock \in Nat /\ clock \in Sales!Time /\ Len(calendar) \in Nat
  BY
  DEF Sales!LearnRooms, Sales!CanChange, Sales!Meanwhile, SalesSafetyInv, Sales!TypeOK, Sales!Time,
      SalesConstants
<1>2. Sales!TypeOK'
  BY <1>1 DEF SalesSafetyInv, Sales!TypeOK
<1>3. SalesWorldInv'
  BY <1>1 DEF SalesSafetyInv, SalesWorldInv, SalesConstants
<1>4. \A c, t : SalesCalendarSince(c, t) => SalesCalendarSince(c, t)'
  BY <1>1 DEF SalesCalendarSince
<1>5. ASSUME NEW q \in Sales!Queries PROVE SalesTimesOf(queries[q])'
  BY <1>1 DEF SalesSafetyInv, SalesQueryOK, SalesTimesOf
<1>6. (Sales!Hit' => Sales!Hit) /\ clock <= clock'
  BY <1>1 DEF Sales!Hit
<1> QED BY <1>1, <1>2, <1>3, <1>4, <1>5, <1>6, SalesWorldKeeps

LEMMA SalesNewBatchStep == ASSUME SalesSafetyInv, SalesConstants, Sales!NewBatch PROVE SalesSafetyInv'
<1> DEFINE S == [snap: Sales!Time, rooms: 0..Rooms]
           b == [snap |-> clock, rooms |-> 0]
<1>1. /\ clock' = clock /\ scoped' = scoped /\ Sales!Meanwhile /\ changes' = changes + 1
      /\ changes < MaxChanges /\ calendar' = calendar /\ batches' = Append(batches, b)
      /\ cache' = cache /\ queries' = queries /\ answer' = None
      /\ clock \in Nat /\ clock \in Sales!Time /\ Len(calendar) \in Nat /\ batches \in Seq(S)
      /\ \A i \in DOMAIN batches : batches[i].snap < clock
  BY
  DEF Sales!NewBatch, Sales!CanChange, Sales!Meanwhile, SalesSafetyInv, Sales!TypeOK, Sales!Time,
      SalesConstants
<1>2. b \in S /\ b.snap = clock
  BY <1>1 DEF SalesConstants
<1> HIDE DEF S, b
<1>3. /\ batches' \in Seq(S) /\ Len(batches') = Len(batches) + 1
      /\ DOMAIN batches' = 1..Len(batches')
      /\ \A v \in 1..Len(batches) : batches'[v] = batches[v]
      /\ batches'[Len(batches) + 1] = b
  <2>1. ASSUME NEW T, NEW s \in Seq(T), NEW e \in T
        PROVE  /\ Append(s, e) \in Seq(T) /\ Len(Append(s, e)) = Len(s) + 1
               /\ DOMAIN Append(s, e) = 1..(Len(s) + 1)
               /\ \A v \in 1..Len(s) : Append(s, e)[v] = s[v]
               /\ Append(s, e)[Len(s) + 1] = e
    OBVIOUS
  <2> QED BY <1>1, <1>2, <2>1
<1>4. Sales!TypeOK'
  BY <1>1, <1>3 DEF SalesSafetyInv, Sales!TypeOK, S
<1>5. SalesWorldInv'
  <2>1. Len(calendar') <= changes' /\ changes' \in 0..MaxChanges
    BY <1>1 DEF SalesSafetyInv, SalesWorldInv, SalesConstants
  <2>2. ASSUME NEW i \in 1..Len(batches') PROVE batches'[i].snap <= clock'
    <3>1. i \in 1..Len(batches) \/ i = Len(batches) + 1
      BY <1>3, SalesBatchTypes
    <3>2. CASE i \in 1..Len(batches)
      BY <1>1, <1>3, <3>2, SalesBatchTypes
    <3>3. CASE i = Len(batches) + 1
      BY <1>1, <1>2, <1>3, <3>3
    <3> QED BY <3>1, <3>2, <3>3
  <2>3. ASSUME NEW i \in 1..Len(batches'), NEW j \in 1..Len(batches'), i < j
        PROVE  batches'[i].snap < batches'[j].snap
    <3>1. i \in 1..Len(batches) /\ (j \in 1..Len(batches) \/ j = Len(batches) + 1)
      <4>1. Len(batches) \in Nat /\ Len(batches') = Len(batches) + 1
        BY <1>3, SalesBatchTypes
      <4> QED BY <2>3, <4>1
    <3>2. CASE j \in 1..Len(batches)
      BY <1>3, <2>3, <3>1, <3>2 DEF SalesSafetyInv, SalesWorldInv
    <3>3. CASE j = Len(batches) + 1
      BY <1>1, <1>2, <1>3, <3>1, <3>3, SalesBatchTypes
    <3> QED BY <3>1, <3>2, <3>3
  <2> QED BY <1>1, <2>1, <2>2, <2>3 DEF SalesSafetyInv, SalesWorldInv
<1>6. \A c, t : SalesCalendarSince(c, t) => SalesCalendarSince(c, t)'
  BY <1>1 DEF SalesCalendarSince
<1>7. ASSUME NEW q \in Sales!Queries PROVE SalesTimesOf(queries[q])'
  BY <1>1 DEF SalesSafetyInv, SalesQueryOK, SalesTimesOf
<1>8. (Sales!Hit' => Sales!Hit) /\ clock <= clock'
  BY <1>1 DEF Sales!Hit
<1>9. \A i \in DOMAIN batches : i \in DOMAIN batches' /\ batches'[i] = batches[i]
  BY <1>3, SalesBatchTypes
<1> QED BY <1>1, <1>4, <1>5, <1>6, <1>7, <1>8, <1>9, SalesWorldKeeps

LEMMA SalesCollectRoomStep == ASSUME SalesSafetyInv, SalesConstants, Sales!CollectRoom PROVE SalesSafetyInv'
<1> DEFINE S == [snap: Sales!Time, rooms: 0..Rooms]
           n == Len(batches)
           b == [batches[n] EXCEPT !.rooms = @ + 1]
<1>1. /\ clock' = clock /\ scoped' = scoped /\ Sales!Meanwhile /\ changes' = changes
      /\ calendar' = calendar /\ batches' = [batches EXCEPT ![n] = b]
      /\ cache' = cache /\ queries' = queries /\ answer' = None
      /\ batches \in Seq(S) /\ batches # <<>> /\ batches[n].rooms < Rooms
  BY DEF Sales!CollectRoom, Sales!Meanwhile, SalesSafetyInv, Sales!TypeOK
<1>2. n \in 1..n /\ DOMAIN batches = 1..n /\ n \in Nat
  BY <1>1
<1>3. b \in S /\ b.snap = batches[n].snap
  <2>1. batches[n] \in S /\ batches[n].rooms \in Nat
    BY <1>2, SalesBatchTypes
  <2>2. batches[n].rooms + 1 \in 0..Rooms
    BY <1>1, <2>1 DEF SalesConstants
  <2> QED BY <2>1, <2>2
<1> HIDE DEF S, b
<1>4. /\ batches' \in Seq(S) /\ Len(batches') = n /\ DOMAIN batches' = 1..n
      /\ \A v \in 1..n : v # n => batches'[v] = batches[v]
      /\ batches'[n] = b
  <2>1. ASSUME NEW T, NEW s \in Seq(T), NEW e \in T, NEW k \in 1..Len(s)
        PROVE  /\ [s EXCEPT ![k] = e] \in Seq(T) /\ Len([s EXCEPT ![k] = e]) = Len(s)
               /\ DOMAIN [s EXCEPT ![k] = e] = 1..Len(s)
               /\ \A v \in 1..Len(s) : v # k => [s EXCEPT ![k] = e][v] = s[v]
               /\ [s EXCEPT ![k] = e][k] = e
    OBVIOUS
  <2> QED BY <1>1, <1>2, <1>3, <2>1
<1>5. \A v \in 1..n : batches'[v].snap = batches[v].snap
  BY <1>3, <1>4
<1>6. Sales!TypeOK'
  BY <1>1, <1>4 DEF SalesSafetyInv, Sales!TypeOK, S
<1>7. SalesWorldInv'
  BY <1>1, <1>4, <1>5 DEF SalesSafetyInv, SalesWorldInv
<1>8. \A c, t : SalesCalendarSince(c, t) => SalesCalendarSince(c, t)'
  BY <1>1 DEF SalesCalendarSince
<1>9. ASSUME NEW q \in Sales!Queries PROVE SalesTimesOf(queries[q])'
  BY <1>1 DEF SalesSafetyInv, SalesQueryOK, SalesTimesOf
<1>10. (Sales!Hit' => Sales!Hit) /\ clock <= clock'
  BY <1>1, SalesBatchTypes DEF Sales!Hit
<1>11. \A i \in DOMAIN batches : batches[i].rooms = Rooms
             => i \in DOMAIN batches' /\ batches'[i] = batches[i]
  <2>1. ASSUME NEW i \in DOMAIN batches, batches[i].rooms = Rooms PROVE i # n
    BY <1>1, <2>1, SalesBatchTypes DEF SalesConstants
  <2> QED BY <1>2, <1>4, <2>1
<1> QED BY <1>1, <1>6, <1>7, <1>8, <1>9, <1>10, <1>11, SalesWorldKeeps

LEMMA SalesStutterStep == ASSUME SalesSafetyInv, UNCHANGED Sales!vars PROVE SalesSafetyInv'
<1>1. UNCHANGED <<Sales!world, cache>> /\ queries' = queries /\ answer' = answer
  BY DEF Sales!vars, Sales!world
<1>2. Sales!TypeOK' /\ SalesAnswerInv'
  BY <1>1
  DEF SalesSafetyInv, Sales!TypeOK, Sales!world, SalesAnswerInv, Sales!Answers, SalesKnows,
      SalesCalendarSince
<1>3. \A q \in Sales!Queries : SalesQueryOK(queries[q])'
  BY <1>1, SalesSameWorld DEF SalesSafetyInv
<1> QED BY <1>1, <1>2, <1>3, SalesSameWorld DEF SalesSafetyInv

LEMMA SalesSafetyStep ==
    ASSUME SalesConstants PROVE SalesSafetyInv /\ [Sales!Next]_(Sales!vars) => SalesSafetyInv'
<1> SUFFICES ASSUME SalesSafetyInv, [Sales!Next]_(Sales!vars) PROVE SalesSafetyInv'
  OBVIOUS
<1>1. ASSUME NEW q \in Sales!Queries, Sales!Step(q) PROVE SalesSafetyInv'
  BY <1>1, SalesFoundStep, SalesNotFoundStep, SalesReadCalendarStep, SalesBuildStep, SalesFailBuildStep,
     SalesPersistStep,
     SalesFailPersistStep, SalesLatestStep, SalesForecastStep, SalesEndStep DEF Sales!Step
<1> QED BY <1>1, SalesTickStep, SalesChangeCalendarStep, SalesLearnRoomsStep, SalesNewBatchStep,
           SalesCollectRoomStep,
           SalesStutterStep DEF Sales!Next

(* No answer rests on a package that misses a change for too long, but for *)
(* the rooms that a package misses whose query named a time before them.   *)
THEOREM SalesChangesReach == ASSUME SalesConstants PROVE Sales!Spec => []Sales!ChangesReachAnswers
<1>1. SalesSafetyInv => Sales!ChangesReachAnswers
  <2> SUFFICES ASSUME SalesSafetyInv, Sales!Answers({"baseline", "ok", "partial", "unjudged"})
               PROVE  LET pack == answer.of.pack IN
                      /\ pack.calendar # None =>
                            \A v \in (pack.calendar + 1)..Len(calendar) : ~ Sales!Overdue(calendar[v])
                      /\ ~ pack.scope /\ scoped # None =>
                            ~ Sales!Overdue(scoped) \/ (pack.given # None /\ pack.given <= scoped)
    BY DEF Sales!ChangesReachAnswers
  <2> DEFINE pack == answer.of.pack
             t == answer.of.began - TTL - 1
  <2>1. pack \in Sales!Package /\ SalesKnows(pack, t)
    BY DEF SalesSafetyInv, SalesAnswerInv
  <2>2. answer.of \in Sales!Answer
    BY DEF SalesSafetyInv, Sales!TypeOK, Sales!Answers
  <2>3. answer.of.began \in Nat /\ TTL \in Nat
    BY <2>2 DEF Sales!Answer, Sales!Time, SalesConstants
  <2>4. ASSUME NEW u \in Nat, u >= t PROVE ~ Sales!Overdue(u)
    BY <2>3, <2>4 DEF Sales!Overdue
  <2>5. ASSUME pack.calendar # None, NEW v \in (pack.calendar + 1)..Len(calendar)
        PROVE  ~ Sales!Overdue(calendar[v])
    <3>1. pack.calendar \in Nat
      BY <2>1, <2>5 DEF Sales!Package, SalesConstants
    <3>2. calendar[v] >= t
      BY <2>1, <2>5 DEF SalesKnows, SalesCalendarSince
    <3>3. calendar \in Seq(Sales!Time)
      BY DEF SalesSafetyInv, Sales!TypeOK
    <3>4. calendar[v] \in Sales!Time
      BY <3>1, <3>3
    <3>5. calendar[v] \in Nat
      BY <3>4 DEF Sales!Time, SalesConstants
    <3> QED BY <2>4, <3>2, <3>5
  <2>6. ASSUME ~ pack.scope, scoped # None
        PROVE  ~ Sales!Overdue(scoped) \/ (pack.given # None /\ pack.given <= scoped)
    <3>1. scoped \in Nat
      BY <2>6 DEF SalesSafetyInv, Sales!TypeOK, Sales!Time, SalesConstants
    <3> QED BY <2>1, <2>4, <2>6, <3>1 DEF SalesKnows
  <2> QED BY <2>5, <2>6
<1> QED BY <1>1, SalesInitSafety, SalesSafetyStep, PTL DEF Sales!Spec

(* No report uses an older batch than the newest whole one, and "ok" is    *)
(* about all rooms that its package knows.                                 *)
THEOREM SalesWholeReports == ASSUME SalesConstants PROVE Sales!Spec => []Sales!ReportsAreWhole
<1>1. SalesSafetyInv => Sales!ReportsAreWhole
  BY DEF SalesSafetyInv, SalesAnswerInv, Sales!ReportsAreWhole, Sales!Answers, Sales!Complete
<1> QED BY <1>1, SalesInitSafety, SalesSafetyStep, PTL DEF Sales!Spec

THEOREM SalesTypeCorrect == ASSUME SalesConstants PROVE Sales!Spec => []Sales!TypeOK
<1>1. SalesSafetyInv => Sales!TypeOK
  BY DEF SalesSafetyInv
<1> QED BY <1>1, SalesInitSafety, SalesSafetyStep, PTL DEF Sales!Spec

(* A failure replaces a young good package only if its query had not seen  *)
(* the package.                                                            *)
SalesKeptStep ==
    cache # None /\ cache.ok /\ cache' # cache /\ ~ cache'.ok
        => \/ clock - cache.created > TTL
           \/ \E q \in Sales!Queries : queries[q].pc = "persist" /\ queries'[q].pc # "persist"
                                 /\ queries[q].blind

THEOREM SalesPackagesKept == ASSUME SalesConstants PROVE Sales!Spec => Sales!GoodPackagesAreKept
<1>1. SalesSafetyInv /\ [Sales!Next]_(Sales!vars) => [SalesKeptStep]_(Sales!vars)
  <2> SUFFICES ASSUME SalesSafetyInv, [Sales!Next]_(Sales!vars), cache # None, cache.ok, cache' # cache,
                      ~ cache'.ok
               PROVE  \/ clock - cache.created > TTL
                      \/ \E q \in Sales!Queries : queries[q].pc = "persist" /\ queries'[q].pc # "persist"
                                            /\ queries[q].blind
    BY DEF SalesKeptStep
  <2>1. PICK q \in Sales!Queries : Sales!Persist(q)
    BY DEF Sales!Next, Sales!Step, Sales!vars, Sales!Found, Sales!NotFound, Sales!ReadCalendar, Sales!Build,
           Sales!FailBuild, Sales!FailPersist, Sales!Latest, Sales!Forecast, Sales!NoForecast, Sales!Check,
           Sales!Die, Sales!Tick, Sales!ChangeCalendar, Sales!LearnRooms, Sales!NewBatch,
           Sales!CollectRoom, Sales!Meanwhile
  <2> DEFINE r == queries[q]
  <2>2. r \in Sales!Query /\ SalesQueryOK(r) /\ r.pc = "persist" /\ r.kind \in {"s15", "s16"}
    BY <2>1 DEF SalesSafetyInv, Sales!TypeOK, Sales!Persist, Sales!Query
  <2>3. r.pack = None
    BY <2>1 DEF Sales!Persist
  <2>4. r.kind = "s15"
    BY <2>2, <2>3 DEF SalesQueryOK, SalesPackOf
  <2>5. queries'[q] = Sales!Finished(r)
    BY <2>1, <2>4 DEF Sales!Persist
  <2>6. queries'[q].pc # "persist"
    BY <2>2, <2>5, SalesFinishedTypes
  <2>7. CASE r.blind
    BY <2>2, <2>6, <2>7
  <2>8. CASE ~ r.blind
    <3>1. ~ Sales!Hit
      BY <2>2, <2>4, <2>8 DEF SalesQueryOK, SalesBlindOf
    <3>2. clock \in Nat /\ cache.created \in Nat
      BY DEF SalesSafetyInv, Sales!TypeOK, Sales!Row, Sales!Time, SalesConstants
    <3> QED BY <3>1, <3>2 DEF Sales!Hit, SalesConstants
  <2> QED BY <2>7, <2>8
<1>2. [][SalesKeptStep]_(Sales!vars) => Sales!GoodPackagesAreKept
  BY PTL DEF Sales!GoodPackagesAreKept, SalesKeptStep
<1> QED BY <1>1, <1>2, SalesInitSafety, SalesSafetyStep, PTL DEF Sales!Spec

-----------------------------------------------------------------------------
(***************************************************************************)
(* The services in one run: a behaviour of all is one of each.             *)
(***************************************************************************)
LEMMA AllIsWatch == AllSpec => Spec
<1>1. AllInit => Init
  BY DEF AllInit
<1>2. [AllNext]_allvars => [Next]_vars
  BY DEF AllNext, InWatch, InLore, InSales, InS6, allvars
<1> QED BY <1>1, <1>2, PTL DEF AllSpec, Spec

LEMMA AllIsLore == AllSpec => Lore!Spec
<1>1. AllInit => Lore!Init
  BY DEF AllInit
<1>2. [AllNext]_allvars => [Lore!Next]_(Lore!vars)
  BY DEF AllNext, InWatch, InLore, InSales, InS6, allvars, lore, Lore!vars
<1> QED BY <1>1, <1>2, PTL DEF AllSpec, Lore!Spec

LEMMA AllIsSales == AllSpec => Sales!Spec
<1>1. AllInit => Sales!Init
  BY DEF AllInit
<1>2. [AllNext]_allvars => [Sales!Next]_(Sales!vars)
  BY DEF AllNext, InWatch, InLore, InSales, InS6, allvars, sales, Sales!vars
<1> QED BY <1>1, <1>2, PTL DEF AllSpec, Sales!Spec

LEMMA AllIsS6 == AllSpec => S6!Spec
<1>1. AllInit => S6!Init
  BY DEF AllInit
<1>2. [AllNext]_allvars => [S6!Next]_(S6!vars)
  BY DEF AllNext, InWatch, InLore, InSales, InS6, allvars, s6, S6!vars
<1> QED BY <1>1, <1>2, PTL DEF AllSpec, S6!Spec

LEMMA S6Assumes == S6!UsersAssumption /\ S6!BatchesAssumption /\ S6!BoundsAssumption
BY ServicesAssumption, WatchAssumption
DEF S6!UsersAssumption, S6!BatchesAssumption, S6!BoundsAssumption

LEMMA SalesAssumes == SalesConstants
BY ServicesAssumption, PackageAssumption DEF SalesConstants

(* Only one service runs, and each keeps the types of its state.           *)
THEOREM ServicesTypes == AllSpec => []TypesOK
<1>1. AllSpec => [](focus \in {"watch", "lore", "sales", "s6"})
  <2>1. AllInit => focus \in {"watch", "lore", "sales", "s6"}
    BY DEF AllInit
  <2>2. focus \in {"watch", "lore", "sales", "s6"} /\ [AllNext]_allvars
            => (focus \in {"watch", "lore", "sales", "s6"})'
    BY DEF AllNext, InWatch, InLore, InSales, InS6, allvars
  <2> QED BY <2>1, <2>2, PTL DEF AllSpec
<1>2. AllSpec => []TypeOK
  BY AllIsWatch, TypeCorrect, PTL
<1>3. AllSpec => []Lore!TypeOK
  <2>1. Lore!Spec => []Lore!TypeOK
    BY ServicesAssumption, LoreTypeCorrect
  <2> QED BY <2>1, AllIsLore, PTL
<1>4. AllSpec => []Sales!TypeOK
  <2>1. Sales!Spec => []Sales!TypeOK
    BY SalesAssumes, SalesTypeCorrect
  <2> QED BY <2>1, AllIsSales, PTL
<1>5. AllSpec => []S6!TypeOK
  <2>1. S6!Spec => []S6!TypeOK
    BY S6Assumes, S6!TypeCorrect
  <2> QED BY <2>1, AllIsS6, PTL
<1>6. /\ focus \in {"watch", "lore", "sales", "s6"} /\ TypeOK /\ Lore!TypeOK /\ Sales!TypeOK /\ S6!TypeOK
      => TypesOK
  BY DEF TypesOK
<1> QED BY <1>1, <1>2, <1>3, <1>4, <1>5, <1>6, PTL

(* The watch keeps its promises while the others run.                      *)
THEOREM ServicesWatch ==
    AllSpec => /\ []AlertsAreObserved /\ []AlertMeansNoOrders /\ []SilenceIsReported
BY AllIsWatch, AlertsObserved, AlertIsSilence, SilenceReported, PTL

(* A promotion rests on the newest decision, an approval.                  *)
THEOREM ServicesPromotions == AllSpec => []PromotionsAreApproved
<1>1. Lore!Spec => []Lore!PromotionsAreApproved
  BY ServicesAssumption, LorePromotionsApproved
<1>2. Lore!PromotionsAreApproved => PromotionsAreApproved
  BY DEF PromotionsAreApproved
<1> QED BY <1>1, <1>2, AllIsLore, PTL

(* An answer of the sales baseline or of the progress report rests on no   *)
(* package that misses a change for too long, but for the rooms that a     *)
(* package misses whose query named a time before they were learned.       *)
THEOREM ServicesChanges == AllSpec => []ChangesReachAnswers
<1>1. Sales!Spec => []Sales!ChangesReachAnswers
  BY SalesAssumes, SalesChangesReach
<1>2. Sales!ChangesReachAnswers => ChangesReachAnswers
  BY DEF ChangesReachAnswers
<1> QED BY <1>1, <1>2, AllIsSales, PTL

(* A report uses no older batch than the newest whole one, and is "ok"     *)
(* only for all rooms that its package knows.                              *)
THEOREM ServicesReports == AllSpec => []ReportsAreWhole
<1>1. Sales!Spec => []Sales!ReportsAreWhole
  BY SalesAssumes, SalesWholeReports
<1>2. Sales!ReportsAreWhole => ReportsAreWhole
  BY DEF ReportsAreWhole
<1> QED BY <1>1, <1>2, AllIsSales, PTL

(* A failure replaces a young good package only if its query had not seen  *)
(* the package.                                                            *)
THEOREM ServicesPackages == AllSpec => GoodPackagesAreKept
<1>1. Sales!Spec => Sales!GoodPackagesAreKept
  BY SalesAssumes, SalesPackagesKept
<1> QED BY <1>1, AllIsSales, PTL DEF GoodPackagesAreKept

(* A price task was confirmed by an actor who may, under an approval of    *)
(* that actor.                                                             *)
THEOREM ServicesTasks == AllSpec => []TasksAreAuthorized
<1>1. S6!Spec => []S6!TasksAreAuthorized
  BY S6Assumes, S6!EveryTaskIsAuthorized
<1>2. S6!TasksAreAuthorized => TasksAreAuthorized
  BY DEF TasksAreAuthorized
<1> QED BY <1>1, <1>2, AllIsS6, PTL
=============================================================================
