-------------------------- MODULE S14DiagnosisProofs --------------------------
(***************************************************************************)
(* Proofs about S14Diagnosis, for any buttons, and any number of clicks,   *)
(* messages, restarts and lapses.                                          *)
(***************************************************************************)
EXTENDS S14Diagnosis, TLAPS

-----------------------------------------------------------------------------
(* The inductive invariant.                                                *)

(* The types, without the bound on restarts and lapses.                    *)
Shape ==
    /\ flow \in States \cup {"none"} /\ excel \in BOOLEAN
    /\ seen \subseteq Clicks /\ kept \subseteq Jobs /\ jobs \in [Jobs -> Job]
    /\ excuse \in [now: BOOLEAN, early: SUBSET Jobs]

(* How far a click or a message of each kind may have come.                *)
Along(p) ==
    /\ p.pc = "new" <=> p.kind = "none"
    /\ p.kind = "click" => p.click \in Clicks
    /\ p.kind = "upload" => p.pc \in {"save", "run", "clear", "fail", "send", "done"}
    /\ p.kind = "reuse" => p.pc \in {"run", "fail", "send", "done"}
    /\ p.pc = "save" => p.kind = "upload"
    /\ p.reply = "duplicate" => p.pc = "done"
    /\ p.reply = "refused" => p.kind # "upload" \/ p.excused

ClickOK(j) ==
    jobs[j].kind = "click" =>
        IF jobs[j].reply = "duplicate" THEN \E i \in jobs[j].after : i < j
        ELSE jobs[j].after = {}

JobsInv == \A j \in Jobs : Along(jobs[j]) /\ ClickOK(j)

(* Clicks and messages are taken up in the order of their arrival.         *)
OrderInv == \A i, j \in Jobs : i < j /\ jobs[i].pc = "new" => jobs[j].pc = "new"

(* What the callback service remembers are the buttons of the clicks that  *)
(* it took and has not forgotten.                                          *)
MemoryInv ==
    /\ \A i \in kept : jobs[i].kind = "click" /\ jobs[i].click \in seen
    /\ \A c \in seen : \E i \in kept : jobs[i].click = c

(* As long as nothing excuses a refusal the state waits for a file, and    *)
(* what is under way was so before Excel was chosen, or cannot change it.  *)
Harmless(j) == jobs[j].kind \in {"upload", "reuse"} \/ jobs[j].pc = "send"
WaitInv ==
    ~ excuse.now =>
        /\ flow = "awaiting_excel"
        /\ \A j \in Jobs : UnderWay(j) => j \in excuse.early \/ Harmless(j)

SafetyInv == Shape /\ JobsInv /\ OrderInv /\ MemoryInv /\ WaitInv

(* The sources that the buttons name.                                      *)
Sources == SourceOf \in [Clicks -> {"database", "excel"}]

-----------------------------------------------------------------------------
(* Steps of one click or message.                                          *)

(* A click or message that was taken up goes on as p.                      *)
Advance(j, p) ==
    /\ jobs' = [jobs EXCEPT ![j] = p]
    /\ p \in Job /\ Along(p) /\ p.pc # "new" /\ jobs[j].pc # "new"
    /\ p.kind = jobs[j].kind /\ p.click = jobs[j].click /\ p.after = jobs[j].after
    /\ p.reply # "duplicate" /\ jobs[j].reply # "duplicate"
    /\ UNCHANGED <<seen, kept>>

(* It leaves the state as it is, or what it does excuses a refusal.        *)
Careful(j, p) ==
    \/ /\ UNCHANGED <<flow, excuse>>
       /\ \/ UnderWay(j) /\ (Harmless(j) => p.kind \in {"upload", "reuse"} \/ p.pc = "send")
          \/ p.pc \in {"send", "done", "lost"}
    \/ flow' \in States \cup {"none"} /\ excuse' = Excused
    \/ flow' \in States \cup {"none"} /\ excuse' = EndOf(j) /\ UnderWay(j) /\ ~ Harmless(j)
    \/ flow' = "awaiting_excel" /\ excuse' = Chosen(j) /\ p.pc = "send"

LEMMA AdvanceStep ==
    ASSUME SafetyInv, NEW j \in Jobs, NEW p, Advance(j, p), Careful(j, p), excel' \in BOOLEAN
    PROVE  SafetyInv'
<1>0. /\ jobs \in [Jobs -> Job] /\ jobs' \in [Jobs -> Job]
      /\ jobs'[j] = p /\ \A i \in Jobs \ {j} : jobs'[i] = jobs[i]
  BY DEF SafetyInv, Shape, Advance
<1>a. excuse \in [now: BOOLEAN, early: SUBSET Jobs]
  BY DEF SafetyInv, Shape
<1>b. excuse' \in [now: BOOLEAN, early: SUBSET Jobs] /\ flow' \in States \cup {"none"}
  <2>1. Excused \in [now: BOOLEAN, early: SUBSET Jobs]
    BY <1>a DEF Excused
  <2>2. EndOf(j) \in [now: BOOLEAN, early: SUBSET Jobs]
    BY <1>a, <2>1 DEF EndOf
  <2>3. Chosen(j) \in [now: BOOLEAN, early: SUBSET Jobs]
    BY DEF Chosen
  <2>4. "awaiting_excel" \in States /\ flow \in States \cup {"none"}
    BY DEF States, SafetyInv, Shape
  <2> QED BY <1>a, <2>1, <2>2, <2>3, <2>4 DEF Careful
<1>1. Shape'
  BY <1>0, <1>b DEF SafetyInv, Shape, Advance
<1>2. JobsInv'
  <2> SUFFICES ASSUME NEW i \in Jobs PROVE Along(jobs'[i]) /\ ClickOK(i)'
    BY DEF JobsInv
  <2>1. CASE i = j
    BY <1>0, <2>1 DEF SafetyInv, JobsInv, ClickOK, Advance
  <2>2. CASE i # j
    BY <1>0, <2>2 DEF SafetyInv, JobsInv, ClickOK
  <2> QED BY <2>1, <2>2
<1>3. OrderInv'
  BY <1>0 DEF SafetyInv, OrderInv, Advance
<1>4. MemoryInv'
  <2>1. \A i \in Jobs : jobs'[i].kind = jobs[i].kind /\ jobs'[i].click = jobs[i].click
    BY <1>0 DEF Advance
  <2>2. kept \subseteq Jobs /\ UNCHANGED <<seen, kept>>
    BY DEF SafetyInv, Shape, Advance
  <2> QED BY <2>1, <2>2 DEF SafetyInv, MemoryInv
<1>5. WaitInv'
  <2>1. CASE /\ UNCHANGED <<flow, excuse>>
             /\ \/ UnderWay(j) /\ (Harmless(j) => p.kind \in {"upload", "reuse"} \/ p.pc = "send")
                \/ p.pc \in {"send", "done", "lost"}
    BY <1>0, <2>1 DEF SafetyInv, WaitInv, UnderWay, Harmless
  <2>2. CASE excuse' = Excused
    BY <1>a, <2>2 DEF WaitInv, Excused
  <2>3. CASE excuse' = EndOf(j) /\ UnderWay(j) /\ ~ Harmless(j)
    BY <1>a, <2>3 DEF SafetyInv, WaitInv, Excused, EndOf
  <2>4. CASE flow' = "awaiting_excel" /\ excuse' = Chosen(j) /\ p.pc = "send"
    BY <1>0, <1>a, <2>4 DEF WaitInv, Chosen, UnderWay, Harmless
  <2> QED BY <2>1, <2>2, <2>3, <2>4 DEF Careful
<1> QED BY <1>1, <1>2, <1>3, <1>4, <1>5 DEF SafetyInv

(* The actions of a click or message that was taken up.                    *)
LEMMA TakenUp ==
    ASSUME SafetyInv, NEW j \in Jobs, jobs[j].pc # "new"
    PROVE  jobs[j] \in Job /\ Along(jobs[j]) /\ (jobs[j].pc # "done" => jobs[j].reply # "duplicate")
BY DEF SafetyInv, Shape, JobsInv, Along

LEMMA SaveStep == ASSUME SafetyInv, NEW j \in Jobs, Save(j) PROVE SafetyInv'
<1> DEFINE p == [jobs[j] EXCEPT !.pc = "run"]
<1>1. jobs[j] \in Job /\ Along(jobs[j]) /\ jobs[j].reply # "duplicate" /\ jobs[j].kind = "upload"
  BY TakenUp DEF Save, Along
<1>2. Advance(j, p)
  BY <1>1 DEF Save, Advance, Along, Job
<1>3. Careful(j, p) /\ excel' \in BOOLEAN
  BY <1>1 DEF Save, Careful, UnderWay, Job
<1> QED BY <1>2, <1>3, AdvanceStep

LEMMA StartJobStep == ASSUME SafetyInv, NEW j \in Jobs, StartJob(j) PROVE SafetyInv'
<1> DEFINE p == [jobs[j] EXCEPT !.pc = "choose"]
<1>1. jobs[j] \in Job /\ Along(jobs[j]) /\ jobs[j].reply # "duplicate" /\ jobs[j].pc = "queued"
  BY TakenUp DEF StartJob
<1>2. Advance(j, p)
  BY <1>1 DEF StartJob, Advance, Along, Job
<1>3. Careful(j, p) /\ excel' \in BOOLEAN
  BY <1>1 DEF StartJob, Careful, UnderWay, Harmless, Along, Job, SafetyInv, Shape
<1> QED BY <1>2, <1>3, AdvanceStep

LEMMA WriteNamesStep == ASSUME SafetyInv, NEW j \in Jobs, WriteNames(j) PROVE SafetyInv'
<1> DEFINE p == [jobs[j] EXCEPT !.pc = "send", !.reply = "noted"]
<1>1. jobs[j] \in Job /\ Along(jobs[j]) /\ jobs[j].reply # "duplicate" /\ jobs[j].pc = "write"
  BY TakenUp DEF WriteNames
<1>2. Advance(j, p)
  BY <1>1 DEF WriteNames, Advance, Along, Job
<1>3. flow' \in States \cup {"none"}
  BY DEF WriteNames, States
<1>4. Careful(j, p) /\ excel' \in BOOLEAN
  BY <1>1, <1>3 DEF WriteNames, Careful, UnderWay, Harmless, Along, SafetyInv, Shape
<1> QED BY <1>2, <1>4, AdvanceStep

LEMMA ChooseStep == ASSUME SafetyInv, NEW j \in Jobs, Choose(j) PROVE SafetyInv'
<1>1. jobs[j] \in Job /\ Along(jobs[j]) /\ jobs[j].reply # "duplicate" /\ jobs[j].pc = "choose"
  BY TakenUp DEF Choose
<1>2. excel' \in BOOLEAN
  BY DEF Choose, SafetyInv, Shape
<1>3. CASE jobs[j].source = "database"
  <2> DEFINE p == [jobs[j] EXCEPT !.pc = "run"]
  <2>1. Advance(j, p)
    BY <1>1, <1>3 DEF Choose, Advance, Along, Job
  <2>2. Careful(j, p)
    BY <1>1, <1>3 DEF Choose, Careful, UnderWay, Harmless, Along, States
  <2> QED BY <1>2, <2>1, <2>2, AdvanceStep
<1>4. CASE jobs[j].source # "database"
  <2> DEFINE p == [jobs[j] EXCEPT !.pc = "send", !.reply = "waiting"]
  <2>1. Advance(j, p)
    BY <1>1, <1>4 DEF Choose, Advance, Along, Job
  <2>2. Careful(j, p)
    BY <1>1, <1>4 DEF Choose, Careful, Job
  <2> QED BY <1>2, <2>1, <2>2, AdvanceStep
<1> QED BY <1>3, <1>4

LEMMA RunStep == ASSUME SafetyInv, NEW j \in Jobs, Run(j) PROVE SafetyInv'
<1>1. jobs[j] \in Job /\ Along(jobs[j]) /\ jobs[j].reply # "duplicate" /\ jobs[j].pc = "run"
  BY TakenUp DEF Run
<1>2. PICK end \in {IF jobs[j].kind = "reuse" THEN "send" ELSE "clear", "fail"} :
          jobs' = [jobs EXCEPT ![j] = [jobs[j] EXCEPT !.pc = end,
                         !.reply = IF end = "fail" THEN jobs[j].reply ELSE "report"]]
  BY <1>1 DEF Run
<1> DEFINE p == [jobs[j] EXCEPT !.pc = end, !.reply = IF end = "fail" THEN jobs[j].reply ELSE "report"]
<1>3. p \in Job
  BY <1>1 DEF Job
<1>4. Along(p)
  BY <1>1 DEF Along, Job
<1>a. /\ p.pc = end /\ p.reply = (IF end = "fail" THEN jobs[j].reply ELSE "report")
      /\ p.kind = jobs[j].kind /\ p.click = jobs[j].click /\ p.after = jobs[j].after
      /\ p.reply # "duplicate" /\ p.pc # "new"
  BY <1>1 DEF Job
<1> HIDE DEF p
<1>5. Advance(j, p)
  BY <1>1, <1>2, <1>3, <1>4, <1>a DEF Run, Advance, p
<1> USE DEF p
<1>6. Careful(j, p) /\ excel' \in BOOLEAN
  BY <1>1 DEF Run, Careful, UnderWay, Harmless, Along, Job, SafetyInv, Shape
<1> QED BY <1>5, <1>6, AdvanceStep

LEMMA ClearStep == ASSUME SafetyInv, NEW j \in Jobs, ClearFlow(j) PROVE SafetyInv'
<1> DEFINE p == [jobs[j] EXCEPT !.pc = "send"]
<1>1. jobs[j] \in Job /\ Along(jobs[j]) /\ jobs[j].reply # "duplicate" /\ jobs[j].pc = "clear"
  BY TakenUp DEF ClearFlow
<1>2. Advance(j, p)
  BY <1>1 DEF ClearFlow, Advance, Along, Job
<1>3. Careful(j, p) /\ excel' \in BOOLEAN
  BY <1>1 DEF ClearFlow, Careful, UnderWay, Harmless, Along, Job, SafetyInv, Shape
<1> QED BY <1>2, <1>3, AdvanceStep

LEMMA FailRunStep == ASSUME SafetyInv, NEW j \in Jobs, FailRun(j) PROVE SafetyInv'
<1> DEFINE p == [jobs[j] EXCEPT !.pc = "send", !.reply = "failed"]
<1>1. jobs[j] \in Job /\ Along(jobs[j]) /\ jobs[j].reply # "duplicate" /\ jobs[j].pc = "fail"
  BY TakenUp DEF FailRun
<1>2. Advance(j, p)
  BY <1>1 DEF FailRun, Advance, Along, Job
<1>3. excel' \in BOOLEAN /\ flow \in States \cup {"none"} /\ "awaiting_source" \in States
  BY DEF FailRun, SafetyInv, Shape, States
<1>4. Careful(j, p)
  BY <1>1, <1>3 DEF FailRun, AfterFailure, Careful, UnderWay, Harmless, Along, EndOf
<1> QED BY <1>2, <1>3, <1>4, AdvanceStep

LEMMA SendStep == ASSUME SafetyInv, NEW j \in Jobs, Send(j) PROVE SafetyInv'
<1>1. jobs[j] \in Job /\ Along(jobs[j]) /\ jobs[j].reply # "duplicate" /\ jobs[j].pc = "send"
  BY TakenUp DEF Send
<1>2. PICK text \in IF jobs[j].kind = "click" THEN {jobs[j].reply, "failed", "none"} ELSE {jobs[j].reply} :
          jobs' = [jobs EXCEPT ![j] = [jobs[j] EXCEPT !.pc = "done", !.reply = text]]
  BY <1>1 DEF Send
<1> DEFINE p == [jobs[j] EXCEPT !.pc = "done", !.reply = text]
<1>3. p \in Job
  BY <1>1 DEF Job
<1>a. /\ p.pc = "done" /\ p.reply = text /\ text # "duplicate" /\ text \in {jobs[j].reply, "failed", "none"}
      /\ p.kind = jobs[j].kind /\ p.click = jobs[j].click /\ p.after = jobs[j].after
      /\ p.excused = jobs[j].excused
  BY <1>1 DEF Job
<1>b. Along(p)
  BY <1>1, <1>a DEF Along
<1> HIDE DEF p
<1>4. Advance(j, p)
  BY <1>1, <1>2, <1>3, <1>a, <1>b DEF Send, Advance, p
<1> USE DEF p
<1>5. Careful(j, p) /\ excel' \in BOOLEAN
  BY <1>1 DEF Send, Careful, Job, SafetyInv, Shape
<1> QED BY <1>4, <1>5, AdvanceStep

-----------------------------------------------------------------------------
(* Clicks and messages that arrive.                                        *)

LEMMA ArriveStep ==
    ASSUME SafetyInv, NEW j \in Jobs, Turn(j),
           NEW p \in Job, jobs' = [jobs EXCEPT ![j] = p], UNCHANGED <<flow, excel>>,
           Along(p), p.pc # "new",
           p.kind = "click" =>
               IF p.reply = "duplicate" THEN \E i \in p.after : i < j ELSE p.after = {},
           \/ UNCHANGED <<seen, kept>>
           \/ p.kind = "click" /\ seen' = seen \cup {p.click} /\ kept' = kept \cup {j},
           \/ excuse' = Excused
           \/ UNCHANGED excuse /\ (p.kind \in {"upload", "reuse"} \/ p.pc = "done")
    PROVE  SafetyInv'
<1>0. /\ jobs \in [Jobs -> Job] /\ jobs' \in [Jobs -> Job]
      /\ jobs'[j] = p /\ \A i \in Jobs \ {j} : jobs'[i] = jobs[i]
  BY DEF SafetyInv, Shape
<1>a. excuse \in [now: BOOLEAN, early: SUBSET Jobs]
  BY DEF SafetyInv, Shape
<1>b. jobs[j].pc = "new" /\ \A i \in 1..(j-1) : jobs[i].pc # "new"
  BY DEF Turn
<1>c. kept \subseteq Jobs /\ j \notin kept
  BY <1>b DEF SafetyInv, Shape, MemoryInv, JobsInv, Along
<1>1. Shape'
  <2>1. excuse' \in [now: BOOLEAN, early: SUBSET Jobs]
    BY <1>a DEF Excused
  <2>2. seen' \subseteq Clicks /\ kept' \subseteq Jobs
    BY DEF SafetyInv, Shape, Along
  <2> QED BY <1>0, <2>1, <2>2 DEF SafetyInv, Shape
<1>2. JobsInv'
  <2> SUFFICES ASSUME NEW i \in Jobs PROVE Along(jobs'[i]) /\ ClickOK(i)'
    BY DEF JobsInv
  <2>1. CASE i = j
    BY <1>0, <2>1 DEF ClickOK
  <2>2. CASE i # j
    BY <1>0, <2>2 DEF SafetyInv, JobsInv, ClickOK
  <2> QED BY <2>1, <2>2
<1>3. OrderInv'
  <2> SUFFICES ASSUME NEW i \in Jobs, NEW k \in Jobs, i < k, jobs'[i].pc = "new"
               PROVE  jobs'[k].pc = "new"
    BY DEF OrderInv
  <2>1. i # j /\ jobs[i].pc = "new"
    BY <1>0
  <2>2. jobs[k].pc = "new"
    BY <2>1 DEF SafetyInv, OrderInv
  <2>3. k # j
    BY <1>b, <2>1 DEF Jobs
  <2> QED BY <1>0, <2>2, <2>3
<1>4. MemoryInv'
  <2>1. \A i \in kept : jobs'[i] = jobs[i]
    BY <1>0, <1>c
  <2>2. CASE UNCHANGED <<seen, kept>>
    BY <2>1, <2>2 DEF SafetyInv, MemoryInv
  <2>3. CASE p.kind = "click" /\ seen' = seen \cup {p.click} /\ kept' = kept \cup {j}
    BY <1>0, <2>1, <2>3 DEF SafetyInv, MemoryInv
  <2> QED BY <2>2, <2>3
<1>5. WaitInv'
  <2>1. CASE excuse' = Excused
    BY <1>a, <2>1 DEF WaitInv, Excused
  <2>2. CASE UNCHANGED excuse /\ (p.kind \in {"upload", "reuse"} \/ p.pc = "done")
    BY <1>0, <2>2 DEF SafetyInv, WaitInv, UnderWay, Harmless
  <2> QED BY <2>1, <2>2
<1> QED BY <1>1, <1>2, <1>3, <1>4, <1>5 DEF SafetyInv

(* What a click or message is when it arrives.                             *)
LEMMA ArrivalType ==
    ASSUME SafetyInv, NEW k \in Kinds, NEW s \in {"database", "excel", "none"},
           NEW c \in Clicks \cup {None},
           NEW step \in {"queued", "choose", "save", "write", "run", "done"}
    PROVE  /\ Arrival(k, s, c, step) \in Job
           /\ Arrival(k, s, c, step).kind = k /\ Arrival(k, s, c, step).pc = step
           /\ Arrival(k, s, c, step).click = c /\ Arrival(k, s, c, step).reply = "none"
           /\ Arrival(k, s, c, step).excused = excuse.now
           /\ Arrival(k, s, c, step).after = {i \in kept : jobs[i].click = c}
<1>1. excuse.now \in BOOLEAN /\ {i \in kept : jobs[i].click = c} \in SUBSET Jobs
  BY DEF SafetyInv, Shape
<1> QED BY <1>1 DEF Arrival, NewJob, Job, Kinds

LEMMA AcceptStep == ASSUME SafetyInv, Sources, NEW j \in Jobs, NEW c \in Clicks, Accept(j, c) PROVE SafetyInv'
<1>1. SourceOf[c] \in {"database", "excel", "none"} /\ "click" \in Kinds
  BY DEF Sources, Kinds
<1>2. CASE c \in seen
  <2> DEFINE a == Arrival("click", SourceOf[c], c, "done")
             p == [a EXCEPT !.reply = "duplicate"]
  <2>1. /\ a \in Job /\ a.kind = "click" /\ a.pc = "done" /\ a.click = c
        /\ a.after = {i \in kept : jobs[i].click = c}
    BY <1>1, ArrivalType
  <2>2. jobs' = [jobs EXCEPT ![j] = p] /\ UNCHANGED <<flow, excel, seen, kept, excuse>> /\ Turn(j)
    BY <1>2 DEF Accept
  <2> HIDE DEF a
  <2>3. /\ p \in Job /\ p.kind = "click" /\ p.pc = "done" /\ p.click = c /\ p.reply = "duplicate"
        /\ p.after = {i \in kept : jobs[i].click = c}
    BY <2>1 DEF Job
  <2>4. PICK i \in kept : jobs[i].click = c /\ jobs[i].kind = "click"
    BY <1>2 DEF SafetyInv, MemoryInv
  <2>5. i \in Jobs /\ jobs[i].pc # "new" /\ jobs[j].pc = "new"
    BY <2>2, <2>4 DEF SafetyInv, Shape, JobsInv, Along, Turn
  <2>6. i < j
    BY <2>5 DEF SafetyInv, OrderInv, Jobs
  <2>7. Along(p)
    BY <2>3 DEF Along
  <2> HIDE DEF p
  <2> QED BY <2>2, <2>3, <2>4, <2>6, <2>7, ArriveStep
<1>3. CASE c \notin seen
  <2> DEFINE p == Arrival("click", SourceOf[c], c, "queued")
  <2>1. /\ p \in Job /\ p.kind = "click" /\ p.pc = "queued" /\ p.click = c /\ p.reply = "none"
        /\ p.after = {i \in kept : jobs[i].click = c}
    BY <1>1, ArrivalType
  <2>2. /\ jobs' = [jobs EXCEPT ![j] = p] /\ UNCHANGED <<flow, excel>> /\ Turn(j)
        /\ seen' = seen \cup {c} /\ kept' = kept \cup {j} /\ excuse' = Excused
    BY <1>3 DEF Accept, Remember
  <2> HIDE DEF p
  <2>3. p.after = {}
    BY <1>3, <2>1 DEF SafetyInv, MemoryInv
  <2>4. Along(p)
    BY <2>1 DEF Along
  <2> QED BY <2>1, <2>2, <2>3, <2>4, ArriveStep
<1> QED BY <1>2, <1>3

(* A message arrives.                                                      *)
LEMMA MessageStep ==
    ASSUME SafetyInv, NEW j \in Jobs, Turn(j),
           NEW k \in Kinds \ {"click"}, NEW s \in {"database", "excel", "none"},
           NEW step \in {"choose", "save", "write", "run", "done"},
           NEW p, \/ p = Arrival(k, s, None, step)
                  \/ p = [Arrival(k, s, None, step) EXCEPT !.reply = "refused"]
                     /\ excuse.now /\ step = "done"
                  \/ p = [Arrival(k, s, None, step) EXCEPT !.was = flow],
           k = "upload" => step \in {"save", "done"}, k = "reuse" => step = "run",
           step = "save" => k = "upload",
           jobs' = [jobs EXCEPT ![j] = p], UNCHANGED <<flow, excel, seen, kept>>,
           \/ excuse' = Excused
           \/ UNCHANGED excuse /\ (k \in {"upload", "reuse"} \/ step = "done")
    PROVE  SafetyInv'
<1> DEFINE a == Arrival(k, s, None, step)
<1>1. /\ a \in Job /\ a.kind = k /\ a.pc = step /\ a.reply = "none" /\ a.excused = excuse.now
  BY ArrivalType
<1> HIDE DEF a
<1>2. flow \in States \cup {"none"}
  BY DEF SafetyInv, Shape
<1>3. /\ p \in Job /\ p.kind = k /\ p.pc = step /\ p.excused = excuse.now
      /\ p.reply = "none" \/ (p.reply = "refused" /\ excuse.now)
  <2>1. CASE p = a
    BY <1>1, <2>1
  <2>2. CASE p = [a EXCEPT !.reply = "refused"] /\ excuse.now
    BY <1>1, <2>2 DEF Job
  <2>3. CASE p = [a EXCEPT !.was = flow]
    BY <1>1, <1>2, <2>3 DEF Job
  <2> QED BY <2>1, <2>2, <2>3 DEF a
<1>4. Along(p)
  BY <1>3 DEF Along, Kinds
<1> QED BY <1>3, <1>4, ArriveStep

LEMMA MessagesStep ==
    ASSUME SafetyInv, NEW j \in Jobs,
           \/ \E s \in {"database", "excel"} : Choice(j, s)
           \/ Upload(j) \/ Reuse(j) \/ Names(j)
    PROVE  SafetyInv'
<1>0. {"choice", "upload", "reuse", "names"} \subseteq Kinds \ {"click"}
  BY DEF Kinds
<1>1. ASSUME NEW s \in {"database", "excel"}, Choice(j, s) PROVE SafetyInv'
  BY <1>0, <1>1, MessageStep DEF Choice
<1>2. CASE Upload(j)
  <2>1. CASE flow = "awaiting_excel"
    <3>1. jobs' = [jobs EXCEPT ![j] = Arrival("upload", "excel", None, "save")]
      BY <1>2, <2>1 DEF Upload
    <3>2. "upload" \in Kinds \ {"click"} /\ Turn(j) /\ UNCHANGED <<flow, excel, seen, kept, excuse>>
      BY <1>0, <1>2 DEF Upload
    <3> QED BY <3>1, <3>2, MessageStep
  <2>2. CASE flow # "awaiting_excel"
    <3>1. excuse.now
      BY <2>2 DEF SafetyInv, WaitInv
    <3>2. jobs' = [jobs EXCEPT ![j] =
                     [Arrival("upload", "excel", None, "done") EXCEPT !.reply = "refused"]]
      BY <1>2, <2>2 DEF Upload
    <3> DEFINE p == [Arrival("upload", "excel", None, "done") EXCEPT !.reply = "refused"]
    <3>3. "upload" \in Kinds \ {"click"} /\ Turn(j) /\ UNCHANGED <<flow, excel, seen, kept, excuse>>
      BY <1>0, <1>2 DEF Upload
    <3>4. p = [Arrival("upload", "excel", None, "done") EXCEPT !.reply = "refused"]
      OBVIOUS
    <3> HIDE DEF p
    <3> QED BY <3>1, <3>2, <3>3, <3>4, MessageStep
  <2> QED BY <2>1, <2>2
<1>3. CASE Reuse(j)
  <2>1. /\ "reuse" \in Kinds \ {"click"} /\ Turn(j) /\ UNCHANGED <<flow, excel, seen, kept, excuse>>
        /\ jobs' = [jobs EXCEPT ![j] = Arrival("reuse", "excel", None, "run")]
    BY <1>0, <1>3 DEF Reuse
  <2> QED BY <2>1, MessageStep
<1>4. CASE Names(j)
  <2> DEFINE p == [Arrival("names", "none", None, "write") EXCEPT !.was = flow]
  <2>1. /\ "names" \in Kinds \ {"click"} /\ Turn(j) /\ UNCHANGED <<flow, excel, seen, kept>>
        /\ jobs' = [jobs EXCEPT ![j] = p] /\ excuse' = Excused
    BY <1>0, <1>4 DEF Names
  <2>2. p = [Arrival("names", "none", None, "write") EXCEPT !.was = flow]
    OBVIOUS
  <2> HIDE DEF p
  <2> QED BY <2>1, <2>2, MessageStep
<1> QED BY <1>1, <1>2, <1>3, <1>4

-----------------------------------------------------------------------------
(* Restarts and lapses.                                                    *)

LEMMA RestartStep == ASSUME SafetyInv, Restart PROVE SafetyInv'
<1>0. jobs \in [Jobs -> Job]
  BY DEF SafetyInv, Shape
<1>1. ASSUME NEW i \in Jobs
      PROVE  /\ jobs'[i] \in Job /\ jobs'[i].kind = jobs[i].kind /\ jobs'[i].click = jobs[i].click
             /\ jobs'[i].reply = jobs[i].reply /\ jobs'[i].after = jobs[i].after
             /\ jobs'[i].excused = jobs[i].excused
             /\ \/ jobs'[i].pc = jobs[i].pc
                \/ jobs[i].kind = "click" /\ UnderWay(i) /\ jobs'[i].pc = "lost"
  <2>1. CASE jobs[i].kind = "click" /\ UnderWay(i)
    <3>1. jobs'[i] = [jobs[i] EXCEPT !.pc = "lost"]
      BY <2>1 DEF Restart
    <3> QED BY <1>0, <2>1, <3>1 DEF Job
  <2>2. CASE ~ (jobs[i].kind = "click" /\ UnderWay(i))
    BY <1>0, <2>2 DEF Restart
  <2> QED BY <2>1, <2>2
<1>2. Shape'
  <2>1. jobs' = [i \in Jobs |-> jobs'[i]]
    BY DEF Restart
  <2>2. jobs' \in [Jobs -> Job]
    BY <1>1, <2>1
  <2> QED BY <2>2 DEF Restart, SafetyInv, Shape
<1>3. JobsInv'
  BY <1>1 DEF SafetyInv, JobsInv, Along, ClickOK, UnderWay
<1>4. OrderInv'
  BY <1>1 DEF SafetyInv, OrderInv, UnderWay
<1>5. MemoryInv'
  BY DEF Restart, MemoryInv
<1>6. WaitInv'
  BY <1>1 DEF Restart, SafetyInv, WaitInv, UnderWay, Harmless
<1> QED BY <1>2, <1>3, <1>4, <1>5, <1>6 DEF SafetyInv

LEMMA ForgetStep == ASSUME SafetyInv, NEW c \in Clicks, ForgetClick(c) PROVE SafetyInv'
<1>1. /\ UNCHANGED <<flow, excel, jobs, excuse>> /\ seen' = seen \ {c}
      /\ kept' = {j \in kept : jobs[j].click # c}
  BY DEF ForgetClick
<1>2. Shape'
  BY <1>1 DEF SafetyInv, Shape
<1>3. JobsInv' /\ OrderInv' /\ WaitInv'
  BY <1>1 DEF SafetyInv, JobsInv, OrderInv, WaitInv, ClickOK, UnderWay, Harmless
<1>4. MemoryInv'
  BY <1>1 DEF SafetyInv, MemoryInv
<1> QED BY <1>2, <1>3, <1>4 DEF SafetyInv

LEMMA OtherStep == ASSUME SafetyInv, Trigger \/ LapseFlow \/ UNCHANGED vars PROVE SafetyInv'
<1>1. /\ UNCHANGED <<excel, jobs, seen, kept>> /\ flow' \in States \cup {"none"}
      /\ excuse' = Excused \/ UNCHANGED <<flow, excuse>>
  BY DEF Trigger, LapseFlow, vars, States, SafetyInv, Shape
<1>2. excuse \in [now: BOOLEAN, early: SUBSET Jobs]
  BY DEF SafetyInv, Shape
<1>3. Shape'
  BY <1>1, <1>2 DEF SafetyInv, Shape, Excused
<1>4. JobsInv' /\ OrderInv' /\ MemoryInv'
  BY <1>1 DEF SafetyInv, JobsInv, OrderInv, MemoryInv, ClickOK
<1>5. WaitInv'
  BY <1>1, <1>2 DEF SafetyInv, WaitInv, UnderWay, Harmless, Excused
<1> QED BY <1>3, <1>4, <1>5 DEF SafetyInv

-----------------------------------------------------------------------------
(* The theorems.                                                           *)

LEMMA InitSafety == Init => SafetyInv
<1> SUFFICES ASSUME Init PROVE SafetyInv
  OBVIOUS
<1>1. NewJob \in Job
  BY DEF NewJob, Job
<1>2. Shape
  BY <1>1 DEF Init, Shape
<1>3. \A j \in Jobs : jobs[j] = NewJob
  BY DEF Init
<1>4. JobsInv
  BY <1>3 DEF JobsInv, Along, ClickOK, NewJob
<1>5. OrderInv /\ MemoryInv /\ WaitInv
  BY <1>3 DEF Init, OrderInv, MemoryInv, WaitInv, NewJob
<1> QED BY <1>2, <1>4, <1>5 DEF SafetyInv

LEMMA SafetyStep == ASSUME Sources PROVE SafetyInv /\ [Next]_vars => SafetyInv'
<1> SUFFICES ASSUME SafetyInv, [Next]_vars PROVE SafetyInv'
  OBVIOUS
<1>1. ASSUME NEW j \in Jobs, Arrive(j) PROVE SafetyInv'
  BY <1>1, AcceptStep, MessagesStep DEF Arrive
<1>2. ASSUME NEW j \in Jobs, Step(j) PROVE SafetyInv'
  BY <1>2, StartJobStep, SaveStep, WriteNamesStep, ChooseStep, RunStep, ClearStep, FailRunStep,
     SendStep DEF Step
<1> QED BY <1>1, <1>2, RestartStep, ForgetStep, OtherStep DEF Next

(* The inductive invariant holds of every state of the conversation.       *)
THEOREM SafetyHolds == ASSUME Sources PROVE Spec => []SafetyInv
BY InitSafety, SafetyStep, PTL DEF Spec

(* The files, the memory of the callback service and what is under way     *)
(* keep their types.                                                       *)
THEOREM TypeCorrect == ASSUME Sources, MaxEvents \in Nat PROVE Spec => []TypeOK
<1>1. Init => past \in 0..MaxEvents
  BY DEF Init
<1>2. past \in 0..MaxEvents /\ [Next]_vars => (past \in 0..MaxEvents)'
  <2> SUFFICES ASSUME past \in 0..MaxEvents, [Next]_vars PROVE (past \in 0..MaxEvents)'
    OBVIOUS
  <2>1. UNCHANGED past \/ Past
    BY DEF Next, vars, Arrive, Accept, Choice, Upload, Reuse, Names, Step, StartJob, Save, WriteNames,
           Choose, Run, ClearFlow, FailRun, Send, Trigger, Restart, ForgetClick, LapseFlow
  <2> QED BY <2>1 DEF Past
<1>3. SafetyInv /\ past \in 0..MaxEvents => TypeOK
  BY DEF SafetyInv, Shape, TypeOK
<1> QED BY <1>1, <1>2, <1>3, SafetyHolds, PTL DEF Spec

(* A button runs twice only if the callback service forgot its first       *)
(* click, and a click is called a repetition only of one that it took:     *)
(* whatever order clicks, threads, restarts and lapses come in.            *)
THEOREM RunOnce == ASSUME Sources PROVE Spec => []ClicksRunOnce
<1>1. SafetyInv => ClicksRunOnce
  BY DEF SafetyInv, JobsInv, Along, ClickOK, ClicksRunOnce
<1> QED BY <1>1, SafetyHolds, PTL

(* Once Excel was chosen no file is refused, until the state lapses, the   *)
(* sender sends something else, or something that was under way before the *)
(* choice ends.                                                            *)
THEOREM UploadsTaken == ASSUME Sources PROVE Spec => []UploadsAreTaken
<1>1. SafetyInv => UploadsAreTaken
  BY DEF SafetyInv, JobsInv, Along, UploadsAreTaken
<1> QED BY <1>1, SafetyHolds, PTL
=============================================================================
