---------------------------- MODULE ViewsProofs ----------------------------
(***************************************************************************)
(* Proofs about what is read from a plan, for every instance of Plan.      *)
(***************************************************************************)
EXTENDS Views, PlanProofs, ProgressProofs, FiniteSetTheorems

\* Two ways of counting today's open tasks.  build_home reads rows and entries of
\* the active plan one by one, build_gantt day by day and milestone by milestone.
THEOREM HomeAndChartAgree == Spec => []HomeAgreesWithChart
  <1>1. ASSUME IInv PROVE HomeAgreesWithChart
    <2> DEFINE codes(d) == {c \in Codes : active # None /\ On(active, c, d)}
    <2>1. /\ active # None => active \in Gens /\ rows[active] \subseteq Rows
          /\ today \in Int
      BY <1>1, ConstantsAssumption DEF IInv, TypeOK, ConstantsAssumption
    <2>2. \A d : Cell(Codes, d) = IF ~Shown \/ codes(d) = {} THEN "none"
                                  ELSE CellStatus(codes(d), d)
      BY DEF Cell
    <2>3. \A d, c : c \in codes(d) <=> \E r \in ActiveRows : r.code = c /\ r.day = d
      BY <2>1 DEF ActiveRows, On, Rows
    <2>4. Cell(Codes, today) = "done"
            <=> Shown /\ codes(today) # {} /\ \A c \in codes(today) : entry[active][<<c, today>>] = "done"
      <3> HIDE DEF codes
      <3>1. QED
        BY <2>1, <2>2 DEF CellStatus
    <2>5. TodayTasks # {} <=> Shown /\ codes(today) # {}
      <3>1. TodayTasks # {} <=> Shown /\ \E r \in ActiveRows : r.day = today
        BY DEF TodayTasks
      <3> HIDE DEF codes
      <3>2. QED
        BY <2>3, <3>1
    <2>6. Shown => ((\A t \in TodayTasks : t.status = "done")
                      <=> \A c \in codes(today) : entry[active][<<c, today>>] = "done")
      <3> SUFFICES ASSUME Shown
                   PROVE  (\A t \in TodayTasks : t.status = "done")
                            <=> \A c \in codes(today) : entry[active][<<c, today>>] = "done"
        OBVIOUS
      <3>1. \A t : t \in TodayTasks <=> \E r \in ActiveRows : r.day = today /\
              t = [code |-> r.code,
                   status |-> IF entry[active][<<r.code, today>>] = "none" THEN "pending"
                              ELSE entry[active][<<r.code, today>>]]
        BY DEF TodayTasks
      <3> HIDE DEF codes
      <3>2. ASSUME \A t \in TodayTasks : t.status = "done", NEW c \in codes(today)
            PROVE  entry[active][<<c, today>>] = "done"
        <4>1. PICK r \in ActiveRows : r.code = c /\ r.day = today
          BY <2>3, <3>2
        <4>2. [code |-> c, status |-> IF entry[active][<<c, today>>] = "none" THEN "pending"
                                      ELSE entry[active][<<c, today>>]] \in TodayTasks
          BY <3>1, <4>1
        <4>3. QED
          BY <3>2, <4>2
      <3>3. ASSUME \A c \in codes(today) : entry[active][<<c, today>>] = "done",
                   NEW t \in TodayTasks
            PROVE  t.status = "done"
        <4>1. PICK r \in ActiveRows : r.day = today /\
              t = [code |-> r.code,
                   status |-> IF entry[active][<<r.code, today>>] = "none" THEN "pending"
                              ELSE entry[active][<<r.code, today>>]]
          BY <3>1
        <4>2. r.code \in codes(today)
          BY <2>3, <4>1
        <4>3. QED
          BY <3>3, <4>1, <4>2
      <3>4. QED
        BY <3>2, <3>3
    <2>7. ASSUME NEW d \in (today + 1)..WeekSunday(today)
          PROVE  Cell(Codes, d) = "pending" <=> \E r \in RestOfWeek : r.day = d
      <3>1. d > today /\ d <= WeekSunday(today) /\ d \in Int
        BY <2>1
      <3>2. Cell(Codes, d) = "pending" <=> Shown /\ codes(d) # {}
        <4> HIDE DEF codes
        <4>1. QED
          BY <2>2, <3>1 DEF CellStatus
      <3>3. (\E r \in RestOfWeek : r.day = d) <=> Shown /\ \E r \in ActiveRows : r.day = d
        BY <3>1 DEF RestOfWeek
      <3>4. QED
        <4> HIDE DEF codes
        <4>1. QED
          BY <2>3, <3>2, <3>3
    <2>8. QED
      BY <2>4, <2>5, <2>6, <2>7 DEF HomeAgreesWithChart
  <1>2. QED
    BY <1>1, Inductive, PTL

-----------------------------------------------------------------------------
(***************************************************************************)
(* What is finished stays finished.  Progress is stored when a day is      *)
(* closed and read by replans, confirmations and closes much later, for    *)
(* the active plan and, copied, for drafts.                                *)
(***************************************************************************)

\* A task has one row a day: _stack_assignment looks for one before it adds one,
\* and a draft takes past and future from different places.
OneRowADay ==
    \A g \in Gens : \A r, s \in rows[g] : r.code = s.code /\ r.day = s.day => r = s

\* Nothing is reported of days to come.
NoEarlyReports ==
    \A g \in Gens, x \in Slots : x[2] > today => entry[g][x] = "none"

\* The row r of a day that is over, or of today after today's close.
Over(r) == r.day < today \/ (r.day = today /\ closed[today] # 0)

NothingLeft ==
    \A g \in Gens : \A c \in finished[g] : \A r \in rows[g] : r.code = c => Over(r)

NewAreUnfinished == \A g \in Gens : status[g] = "none" => finished[g] = {}

FInv == IInv /\ OneRowADay /\ NoEarlyReports /\ NothingLeft /\ NewAreUnfinished

\* Fewer than 200 rows and 100 % make all of them done.
LEMMA FullMeansAllDone ==
    ASSUME NEW rs \in SUBSET Rows, NEW es, NEW g \in Gens, NEW c \in FinishedOf(g, rs, es),
           \A r, s \in rs : r.code = s.code /\ r.day = s.day => r = s,
           Horizon <= 199
    PROVE  \A r \in rs : r.code = c => es[<<c, r.day>>] = "done"
  <1> DEFINE planned == {r \in rs : r.code = c}
             done == {r \in planned : es[<<c, r.day>>] = "done"}
             n == Cardinality(planned)
             d == Cardinality(done)
             f == [r \in planned |-> r.day]
  <1>1. Pct(d, n) = 100
    BY DEF FinishedOf
  <1>2. Horizon \in Nat /\ IsFiniteSet(Days) /\ Cardinality(Days) <= 199
    <2>1. Horizon \in Nat /\ 1 <= Horizon
      BY ConstantsAssumption DEF ConstantsAssumption
    <2>2. IsFiniteSet(1..Horizon) /\ Cardinality(1..Horizon) = Horizon
      BY <2>1, FS_Interval
    <2>3. QED
      BY <2>1, <2>2 DEF Days
  <1>3. f \in Injection(planned, Days)
    BY DEF Injection, IsInjective, Rows
  <1>4. IsFiniteSet(planned) /\ n <= 199 /\ n \in Nat
    <2>1. IsFiniteSet(planned) /\ n <= Cardinality(Days)
      BY <1>2, <1>3, FS_Injection
    <2>2. n \in Nat /\ Cardinality(Days) \in Nat
      BY <1>2, <2>1, FS_CardinalityType
    <2>3. QED
      BY <1>2, <2>1, <2>2
  <1>5. d \in 0..n /\ (n = d => planned = done)
    <2>1. done \in SUBSET planned
      OBVIOUS
    <2>2. IsFiniteSet(done) /\ d <= n /\ (n = d => planned = done)
      BY <1>4, <2>1, FS_Subset
    <2>3. d \in Nat
      BY <2>2, FS_CardinalityType
    <2>4. QED
      BY <1>4, <2>2, <2>3
  <1> HIDE DEF n, d
  <1>6. n # 0
    BY <1>1 DEF Pct
  <1>7. n \in 1..199
    BY <1>4, <1>6
  <1>8. d = n
    BY <1>1, <1>5, <1>7, FullMeansFinished
  <1>9. QED
    BY <1>5, <1>8

\* A step that adds no rows, reports nothing early and finishes nothing.
LEMMA QuietStep ==
    ASSUME FInv, IInv', today' = today, closed' = closed, finished' = finished,
           \A g \in Gens : rows'[g] \subseteq rows[g],
           \A g \in Gens : status'[g] = "none" => status[g] = "none",
           \A g \in Gens, x \in Slots : x[2] > today => entry'[g][x] = "none"
    PROVE  FInv'
  BY DEF FInv, OneRowADay, NoEarlyReports, NothingLeft, Over, NewAreUnfinished

LEMMA InitFInv == ASSUME Init PROVE FInv
  <1>1. IInv
    BY InitIInv
  <1>2. OneRowADay /\ NothingLeft /\ NewAreUnfinished
    BY DEF Init, OneRowADay, NothingLeft, NewAreUnfinished
  <1>3. NoEarlyReports
    BY DEF Init, NoEarlyReports, Blank
  <1>4. QED
    BY <1>1, <1>2, <1>3 DEF FInv

LEMMA NextDayF == ASSUME FInv, IInv', NextDay PROVE FInv'
  <1>1. today \in Int /\ today' = today + 1 /\ UNCHANGED <<planVars, closed>>
    BY ConstantsAssumption DEF NextDay, FInv, IInv, TypeOK, ConstantsAssumption
  <1>2. \A g \in Gens : \A r \in rows[g] : r.day \in Int
    BY ConstantsAssumption DEF FInv, IInv, TypeOK, Rows, Days, ConstantsAssumption
  <1>3. \A x \in Slots : x[2] \in Int
    BY ConstantsAssumption DEF Slots, Days, ConstantsAssumption
  <1>4. NothingLeft'
    BY <1>1, <1>2 DEF FInv, NothingLeft, Over, planVars
  <1>5. NoEarlyReports'
    BY <1>1, <1>3 DEF FInv, NoEarlyReports, planVars
  <1>6. OneRowADay' /\ NewAreUnfinished'
    BY <1>1 DEF FInv, OneRowADay, NewAreUnfinished, planVars
  <1>7. QED
    BY <1>4, <1>5, <1>6 DEF FInv

LEMMA DayStepF ==
    ASSUME FInv, IInv', NEW g \in Gens, NEW c \in Codes, DayStep(g, c)
    PROVE  FInv'
  <1>1. PICK s \in {"done", "pending", "not_done"} :
          /\ entry' = [entry EXCEPT ![g] = [@ EXCEPT ![<<c, today>>] = s]]
          /\ UNCHANGED <<today, closed, finished, rows, status>>
    BY DEF DayStep, CompleteToday, UncompleteToday, IncompleteToday, Report
  <1>2. ASSUME NEW h \in Gens, NEW x \in Slots, x[2] > today PROVE entry'[h][x] = "none"
    <2>1. entry[h][x] = "none"
      BY <1>2 DEF FInv, NoEarlyReports
    <2>2. entry \in [Gens -> [Slots -> {"none", "pending", "not_done", "done"}]]
      BY DEF FInv, IInv, TypeOK
    <2>3. x # <<c, today>>
      <3>1. today \in Int
        BY ConstantsAssumption DEF FInv, IInv, TypeOK, ConstantsAssumption
      <3>2. QED
        BY <1>2, <3>1
    <2>4. QED
      BY <1>1, <2>1, <2>2, <2>3
  <1>3. QED
    BY <1>1, <1>2, QuietStep

\* Requests, jobs that fail, drafts that are dropped.
LEMMA FrameF ==
    ASSUME FInv, IInv',
           \/ JobFails \/ Regenerate \/ Archive \/ UNCHANGED vars
           \/ \E new \in Days : PlanEdit(new) \/ AskDeadline(new)
           \/ \E i \in Changes : ConfirmDeadline(i) \/ CancelDeadline(i)
    PROVE  FInv'
  <1>1. UNCHANGED <<planVars, today, closed>>
    BY DEF vars, JobFails, Regenerate, Archive, PlanEdit, AskDeadline, ConfirmDeadline,
           CancelDeadline
  <1>2. QED
    BY <1>1, QuietStep DEF planVars, FInv, NoEarlyReports

LEMMA CancelDraftF == ASSUME FInv, IInv', NEW g \in Gens, CancelDraft(g) PROVE FInv'
  <1>1. /\ UNCHANGED <<today, closed, finished, entry>>
        /\ rows' = [rows EXCEPT ![g] = {}]
        /\ status' = [status EXCEPT ![g] = "cancelled"]
    BY DEF CancelDraft
  <1>2. \A h \in Gens : rows'[h] \subseteq rows[h] /\ (status'[h] = "none" => status[h] = "none")
    BY <1>1 DEF FInv, IInv, TypeOK
  <1>3. QED
    BY <1>1, <1>2, QuietStep DEF FInv, NoEarlyReports

LEMMA ConfirmF == ASSUME FInv, IInv', NEW g \in Gens, Confirm(g) PROVE FInv'
  <1>1. /\ g # active
        /\ status' = [h \in Gens |-> IF h = g THEN "active"
                                     ELSE IF h = active THEN "superseded" ELSE status[h]]
        /\ \A h \in Gens : rows'[h] \subseteq rows[h]
    BY ConfirmEffect DEF FInv, IInv
  <1>2. UNCHANGED <<today, closed, finished>>
    BY DEF Confirm
  <1>3. ASSUME NEW h \in Gens, NEW x \in Slots, x[2] > today PROVE entry'[h][x] = "none"
    <2>1. \A k \in Gens : entry[k][x] = "none"
      BY <1>3 DEF FInv, NoEarlyReports
    <2>2. CASE Replaced = {}
      BY <2>1, <2>2 DEF Confirm
    <2>3. CASE Replaced # {}
      <3>1. active \in Gens /\ entry' = MigratedEntries(active, g)
        BY <2>3 DEF Confirm, Replaced, FInv, IInv, TypeOK
      <3>2. entry \in [Gens -> [Slots -> {"none", "pending", "not_done", "done"}]]
        BY DEF FInv, IInv, TypeOK
      <3>3. QED
        BY <1>1, <2>1, <3>1, <3>2 DEF MigratedEntries
    <2>4. QED
      BY <2>2, <2>3
  <1>4. QED
    BY <1>1, <1>2, <1>3, QuietStep

\* A generated plan: one task a day, nothing finished.
LEMMA GenerateF == ASSUME FInv, IInv', GeneratePlan PROVE FInv'
  <1>1. PICK g \in Gens, codes \in SUBSET Codes :
          /\ NewGen(g)
          /\ \E s \in Schedules(StartDay..planEnd, codes) :
               rows' = [rows EXCEPT ![g] = RowsOn(s, StartDay..planEnd, "plan")]
          /\ status' = [status EXCEPT ![g] = "suggested"]
    BY DEF GeneratePlan
  <1>2. PICK s : rows' = [rows EXCEPT ![g] = RowsOn(s, StartDay..planEnd, "plan")]
    BY <1>1
  <1>3. UNCHANGED <<today, closed, entry, finished>> /\ finished[g] = {}
    BY <1>1 DEF GeneratePlan, NewGen, FInv, NewAreUnfinished
  <1>4. \A h \in Gens : rows'[h] = IF h = g THEN RowsOn(s, StartDay..planEnd, "plan") ELSE rows[h]
    BY <1>2 DEF FInv, IInv, TypeOK
  <1>5. OneRowADay'
    <2> SUFFICES ASSUME NEW h \in Gens, NEW r \in rows'[h], NEW t \in rows'[h],
                        r.code = t.code, r.day = t.day
                 PROVE  r = t
      BY DEF OneRowADay
    <2>1. CASE h = g
      <3>1. \A p \in RowsOn(s, StartDay..planEnd, "plan") :
              p = [code |-> s[p.day], day |-> p.day, source |-> "plan"]
        BY DEF RowsOn
      <3>2. rows'[h] = RowsOn(s, StartDay..planEnd, "plan")
        BY <1>4, <2>1
      <3>3. /\ r = [code |-> s[r.day], day |-> r.day, source |-> "plan"]
            /\ t = [code |-> s[t.day], day |-> t.day, source |-> "plan"]
        BY <3>1, <3>2
      <3>4. QED
        BY <3>3
    <2>2. CASE h # g
      BY <1>4, <2>2 DEF FInv, OneRowADay
    <2>3. QED
      BY <2>1, <2>2
  <1>6. NoEarlyReports'
    BY <1>3 DEF FInv, NoEarlyReports
  <1>7. NothingLeft'
    BY <1>3, <1>4 DEF FInv, NothingLeft, Over
  <1>8. NewAreUnfinished'
    BY <1>1, <1>3 DEF FInv, NewAreUnfinished, IInv, TypeOK
  <1>9. QED
    BY <1>5, <1>6, <1>7, <1>8 DEF FInv

\* The future a replan writes: one row a day and task, none for what is finished.
LEMMA NewFutureRows ==
    ASSUME FInv, active \in Gens, NEW req, NEW sug, NEW future \in NewFuture(req, sug)
    PROVE  /\ \A r, s \in future : r.code = s.code /\ r.day = s.day => r = s
           /\ \A r \in future : r.day > today /\ r.code \notin finished[active]
  <1>1. today \in Int /\ \A r \in rows[active] : r.day \in Int
    BY ConstantsAssumption DEF FInv, IInv, TypeOK, Rows, Days, ConstantsAssumption
  <1>2. CASE sug > req
    <2>1. future = {[code |-> r.code, day |-> r.day, source |-> "held"] :
                       r \in Future(active, today)}
      BY <1>2 DEF NewFuture
    <2>2. \A r \in Future(active, today) : r.day > today /\ r.code \notin finished[active]
      BY <1>1 DEF Future, FInv, NothingLeft, Over
    <2>3. QED
      BY <2>1, <2>2
  <1>3. CASE ~(sug > req)
    <2>1. PICK s \in Schedules((today + 1)..sug, Incomplete(active, finished[active])) :
            future = RowsOn(s, (today + 1)..sug, "plan")
      BY <1>3 DEF NewFuture
    <2>2. \A d \in (today + 1)..sug : d > today /\ s[d] \notin finished[active]
      BY <1>1, <2>1 DEF Schedules, Incomplete
    <2>3. QED
      BY <2>1, <2>2 DEF RowsOn
  <1>4. QED
    BY <1>2, <1>3

LEMMA ReplanF == ASSUME FInv, IInv', ReplanDeadline PROVE FInv'
  <1>1. active \in Gens
    BY DEF ReplanDeadline, FInv, IInv, TypeOK
  <1>2. PICK g \in Gens, sug \in 1..Horizon :
          /\ \E future \in NewFuture(change[job.change].new, sug) :
               rows' = [h \in Gens |->
                   IF h = g THEN UpTo(rows[active], today) \cup future
                   ELSE IF h \in OpenReplanDrafts THEN {} ELSE rows[h]]
          /\ status' = [h \in Gens |->
                 IF h = g THEN "suggested"
                 ELSE IF h \in OpenReplanDrafts THEN "superseded" ELSE status[h]]
          /\ finished' = [finished EXCEPT ![g] = finished[active]]
    BY DEF ReplanDeadline
  <1>3. PICK future \in NewFuture(change[job.change].new, sug) :
          rows' = [h \in Gens |->
              IF h = g THEN UpTo(rows[active], today) \cup future
              ELSE IF h \in OpenReplanDrafts THEN {} ELSE rows[h]]
    BY <1>2
  <1>4. UNCHANGED <<today, closed, entry>>
    BY DEF ReplanDeadline
  <1>5. /\ \A r, s \in future : r.code = s.code /\ r.day = s.day => r = s
        /\ \A r \in future : r.day > today /\ r.code \notin finished[active]
    BY <1>1, NewFutureRows
  <1>6. \A r \in UpTo(rows[active], today) : r \in rows[active] /\ ~(r.day > today)
    BY <1>1, ConstantsAssumption DEF UpTo, FInv, IInv, TypeOK, Rows, Days, ConstantsAssumption
  <1>7. \A h \in Gens : finished'[h] = IF h = g THEN finished[active] ELSE finished[h]
    BY <1>2 DEF FInv, IInv, TypeOK
  <1>8. OneRowADay'
    <2> SUFFICES ASSUME NEW h \in Gens, NEW r \in rows'[h], NEW s \in rows'[h],
                        r.code = s.code, r.day = s.day
                 PROVE  r = s
      BY DEF OneRowADay
    <2>1. CASE h = g
      <3>1. rows'[h] = UpTo(rows[active], today) \cup future
        BY <1>3, <2>1
      <3>2. QED
        BY <1>1, <1>5, <1>6, <3>1 DEF FInv, OneRowADay
    <2>2. CASE h # g
      BY <1>3, <2>2 DEF FInv, OneRowADay
    <2>3. QED
      BY <2>1, <2>2
  <1>9. NothingLeft'
    <2> SUFFICES ASSUME NEW h \in Gens, NEW r \in rows'[h], r.code \in finished'[h]
                 PROVE  Over(r)
      BY <1>4 DEF NothingLeft, Over
    <2>1. CASE h = g
      <3>1. r \in UpTo(rows[active], today) \cup future /\ r.code \in finished[active]
        BY <1>3, <1>7, <2>1
      <3>2. QED
        BY <1>1, <1>5, <1>6, <3>1 DEF FInv, NothingLeft
    <2>2. CASE h # g
      BY <1>3, <1>7, <2>2 DEF FInv, NothingLeft
    <2>3. QED
      BY <2>1, <2>2
  <1>10. NewAreUnfinished'
    BY <1>2, <1>7 DEF FInv, NewAreUnfinished
  <1>11. NoEarlyReports'
    BY <1>4 DEF FInv, NoEarlyReports
  <1>12. QED
    BY <1>8, <1>9, <1>10, <1>11 DEF FInv

\* What the close of today adds: tomorrow's rows of tasks that are not finished
\* and have none.
LEMMA DeferredRows ==
    ASSUME FInv, closed[today] = 0, NEW g \in Gens, NEW r \in Deferred(g, today)
    PROVE  /\ r.day = today + 1 /\ ~On(g, r.code, today + 1)
           /\ r.code \in Codes \ finished[g]
           /\ entry[g][<<r.code, today>>] # "done" /\ On(g, r.code, today)
           /\ r.source = "defer"
  <1>1. PICK c \in Undone(g, today) :
          ~On(g, c, today + 1) /\ r = [code |-> c, day |-> today + 1, source |-> "defer"]
    BY DEF Deferred
  <1>2. c \in Codes /\ On(g, c, today) /\ entry[g][<<c, today>>] # "done"
    BY <1>1 DEF Undone
  <1>3. PICK p \in rows[g] : p.code = c /\ p.day = today
    BY <1>2 DEF On
  <1>4. today \in Int
    BY ConstantsAssumption DEF FInv, IInv, TypeOK, ConstantsAssumption
  <1>5. c \notin finished[g]
    BY <1>3, <1>4 DEF FInv, NothingLeft, Over
  <1>6. QED
    BY <1>1, <1>2, <1>5

\* A day closed on the day itself finishes only what has no day left, and plans
\* nothing that is finished.
LEMMA CloseF ==
    ASSUME FInv, IInv', CloseDay(today), Horizon <= 199
    PROVE  FInv'
  <1> DEFINE kept == [g \in Gens |-> rows[g] \cup Deferred(g, today)]
             fin  == IF active = None THEN finished
                     ELSE [finished EXCEPT ![active] =
                             FinishedOf(active, kept[active], ClosedEntries(today)[active])]
  <1>1. today \in Int /\ today \in Days /\ closed[today] = 0
    BY ConstantsAssumption
       DEF CloseDay, FInv, IInv, TypeOK, Days, ConstantsAssumption
  <1>2. /\ entry' = ClosedEntries(today) /\ finished' = fin /\ today' = today
        /\ closed'[today] # 0 /\ status' = status /\ draft' = draft
        /\ active' = active
        /\ \/ rows' = kept
           \/ /\ active # None
              /\ \E s \in Schedules((today + 1)..planEnd, Incomplete(active, fin[active])) :
                   rows' = [kept EXCEPT ![active] =
                       UpTo(@, today) \cup RowsOn(s, (today + 1)..planEnd, "plan")]
    <2>1. closed'[today] = today /\ today # 0
      BY <1>1, ConstantsAssumption DEF CloseDay, FInv, IInv, TypeOK, ConstantsAssumption
    <2>2. QED
      BY <2>1 DEF CloseDay
  <1>3. \A g \in Gens : rows[g] \subseteq Rows /\ finished[g] \subseteq Codes
    BY DEF FInv, IInv, TypeOK
  <1>4. \A r \in Rows : r.day \in Int
    BY ConstantsAssumption DEF Rows, Days, ConstantsAssumption
  <1>5. \A g \in Gens : kept[g] = rows[g] \cup Deferred(g, today)
    OBVIOUS
  <1>6. \A g \in Gens : kept[g] \subseteq Rows
    <2> SUFFICES ASSUME NEW g \in Gens, NEW r \in Deferred(g, today) PROVE r \in Rows
      BY <1>3, <1>5
    <2>1. PICK c \in Codes : r = [code |-> c, day |-> today + 1, source |-> "defer"]
      BY DEF Deferred, Undone
    <2>2. today + 1 \in Days
      BY ConstantsAssumption DEF FInv, IInv, TypeOK, Days, ConstantsAssumption
    <2>3. QED
      BY <2>1, <2>2 DEF Rows
  <1>7. ASSUME NEW g \in Gens, NEW r \in kept[g], NEW s \in kept[g],
               r.code = s.code, r.day = s.day
        PROVE  r = s
    <2>1. CASE r \in rows[g] /\ s \in rows[g]
      BY <1>7, <2>1 DEF FInv, OneRowADay
    <2>2. ASSUME NEW p \in rows[g], NEW q \in Deferred(g, today), p.code = q.code, p.day = q.day
          PROVE  FALSE
      <3>1. q.day = today + 1 /\ ~On(g, q.code, today + 1)
        BY <1>1, <2>2, DeferredRows
      <3>2. QED
        BY <2>2, <3>1 DEF On
    <2>3. ~(r \in rows[g] /\ s \in Deferred(g, today)) /\ ~(s \in rows[g] /\ r \in Deferred(g, today))
      BY <1>7, <2>2
    <2>4. CASE r \in Deferred(g, today) /\ s \in Deferred(g, today)
      BY <1>1, <1>7, <2>4 DEF Deferred
    <2>5. r \in rows[g] \cup Deferred(g, today) /\ s \in rows[g] \cup Deferred(g, today)
      BY <1>5, <1>7
    <2>6. QED
      BY <2>1, <2>3, <2>4, <2>5
  <1>8. ASSUME NEW g \in Gens, NEW r \in kept[g], r.code \in fin[g]
        PROVE  ~(r.day > today)
    <2>1. CASE g = active
      <3>1. active # None /\ fin[g] = FinishedOf(g, kept[g], ClosedEntries(today)[g])
        BY <2>1 DEF Gens, None, FInv, IInv, TypeOK
      <3>2. ClosedEntries(today)[g][<<r.code, r.day>>] = "done"
        <4> DEFINE rs == kept[g]
                   es == ClosedEntries(today)[g]
        <4>1. rs \in SUBSET Rows /\ r \in rs /\ r.code \in FinishedOf(g, rs, es)
          BY <1>6, <1>8, <3>1
        <4>2. \A p, q \in rs : p.code = q.code /\ p.day = q.day => p = q
          BY <1>7
        <4> HIDE DEF rs, es
        <4>3. es[<<r.code, r.day>>] = "done"
          BY <4>1, <4>2, FullMeansAllDone
        <4>4. QED
          BY <4>3 DEF es
      <3>3. <<r.code, r.day>> \in Slots
        BY <1>6 DEF Slots, Rows
      <3>4. entry[g][<<r.code, r.day>>] = "done"
        BY <3>2, <3>3 DEF ClosedEntries
      <3>5. QED
        BY <3>3, <3>4 DEF FInv, NoEarlyReports
    <2>2. CASE g # active
      <3>1. fin[g] = finished[g]
        BY <2>2 DEF FInv, IInv, TypeOK
      <3>2. r \in rows[g]
        BY <1>1, <1>5, <1>8, <3>1, DeferredRows
      <3>3. QED
        BY <1>1, <1>3, <1>4, <1>8, <3>1, <3>2 DEF FInv, NothingLeft, Over
    <2>3. QED
      BY <2>1, <2>2
  <1>9. NoEarlyReports'
    <2> SUFFICES ASSUME NEW g \in Gens, NEW x \in Slots, x[2] > today
                 PROVE  ClosedEntries(today)[g][x] = "none"
      BY <1>2 DEF NoEarlyReports
    <2>1. x[2] # today
      BY <1>1
    <2>2. QED
      BY <2>1 DEF ClosedEntries, FInv, NoEarlyReports
  <1>10. NewAreUnfinished'
    <2>1. \A g \in Gens : g # active => fin[g] = finished[g]
      BY DEF FInv, IInv, TypeOK
    <2>2. active # None => status[active] = "active"
      BY DEF FInv, IInv, OneActivePlan
    <2>3. \A g \in Gens : g # None
      BY DEF Gens, None
    <2> HIDE DEF fin
    <2>4. QED
      BY <1>2, <2>1, <2>2, <2>3 DEF FInv, NewAreUnfinished
  <1> HIDE DEF kept, fin
  <1>11. CASE rows' = kept
    <2>1. OneRowADay'
      BY <1>7, <1>11 DEF OneRowADay
    <2>2. NothingLeft'
      <3> SUFFICES ASSUME NEW g \in Gens, NEW r \in kept[g], r.code \in fin[g]
                   PROVE  r.day < today \/ r.day = today
        BY <1>2, <1>11 DEF NothingLeft, Over
      <3>1. r.day \in Int
        BY <1>4, <1>6
      <3>2. QED
        BY <1>1, <1>8, <3>1
    <2>3. QED
      BY <1>9, <1>10, <2>1, <2>2 DEF FInv
  <1>12. CASE rows' # kept
    <2>1. PICK s \in Schedules((today + 1)..planEnd, Incomplete(active, fin[active])) :
            rows' = [kept EXCEPT ![active] =
                UpTo(@, today) \cup RowsOn(s, (today + 1)..planEnd, "plan")]
      BY <1>2, <1>12
    <2> DEFINE new == RowsOn(s, (today + 1)..planEnd, "plan")
    <2>2. /\ \A r, t \in new : r.code = t.code /\ r.day = t.day => r = t
          /\ \A r \in new : r.day > today /\ r.code \notin fin[active]
      <3>1. \A e \in (today + 1)..planEnd : e > today /\ s[e] \notin fin[active]
        BY <1>1, <2>1 DEF Schedules, Incomplete
      <3>2. QED
        BY <3>1 DEF RowsOn
    <2> HIDE DEF new
    <2>3. \A g \in Gens : rows'[g] =
            IF g = active THEN {r \in kept[g] : r.day <= today} \cup new ELSE kept[g]
      <3>1. kept = [g \in Gens |-> rows[g] \cup Deferred(g, today)]
        BY DEF kept
      <3>2. QED
        BY <2>1, <3>1 DEF UpTo, new
    <2>4. OneRowADay'
      <3> SUFFICES ASSUME NEW g \in Gens, NEW r \in rows'[g], NEW t \in rows'[g],
                          r.code = t.code, r.day = t.day
                   PROVE  r = t
        BY DEF OneRowADay
      <3>1. \A p \in kept[g] : p.day \in Int
        BY <1>4, <1>6
      <3>2. CASE g = active
        <4>1. /\ r \in {p \in kept[g] : p.day <= today} \cup new
              /\ t \in {p \in kept[g] : p.day <= today} \cup new
          BY <2>3, <3>2
        <4>2. QED
          BY <1>1, <1>7, <2>2, <3>1, <4>1
      <3>3. CASE g # active
        BY <1>7, <2>3, <3>3
      <3>4. QED
        BY <3>2, <3>3
    <2>5. NothingLeft'
      <3> SUFFICES ASSUME NEW g \in Gens, NEW r \in rows'[g], r.code \in fin[g]
                   PROVE  r.day < today \/ r.day = today
        BY <1>2 DEF NothingLeft, Over
      <3>1. r \in kept[g]
        BY <2>2, <2>3
      <3>2. r.day \in Int
        BY <1>4, <1>6, <3>1
      <3>3. QED
        BY <1>1, <1>8, <3>1, <3>2
    <2>6. QED
      BY <1>9, <1>10, <2>4, <2>5 DEF FInv
  <1>13. QED
    BY <1>11, <1>12

\* A day closed late, or early, stays so.
LEMMA OnTimeBefore ==
    ASSUME TypeOK, OnTime', [Next]_vars
    PROVE  OnTime /\ \A d \in Days : CloseDay(d) => d = today
  <1>1. ASSUME NEW d \in Days, CloseDay(d) PROVE OnTime /\ d = today
    <2>1. closed[d] = 0 /\ closed' = [closed EXCEPT ![d] = today] /\ today # 0
      BY <1>1, ConstantsAssumption DEF CloseDay, TypeOK, ConstantsAssumption
    <2>2. closed'[d] = today /\ \A e \in Days : e # d => closed'[e] = closed[e]
      BY <2>1 DEF TypeOK
    <2>3. QED
      BY <2>1, <2>2 DEF OnTime
  <1>2. CASE closed' = closed
    BY <1>1, <1>2 DEF OnTime
  <1>3. closed' = closed \/ \E d \in Days : CloseDay(d)
    BY DEF Next, vars, GeneratePlan, ReplanDeadline, JobFails, Regenerate, Archive, NextDay,
           DraftStep, Confirm, CancelDraft, PlanEdit, AskDeadline, ConfirmDeadline,
           CancelDeadline, DayStep, CompleteToday, UncompleteToday, IncompleteToday, Report
  <1>4. QED
    BY <1>1, <1>2, <1>3

\* With fewer than 200 days, and as long as every day is closed on the day itself, a task
\* that counts as finished has no day left (FinishedHasNothingLeft): progress read by a
\* replan, a confirmation or a close hides no open work.
THEOREM FinishedStaysFinished ==
    ASSUME Horizon <= 199
    PROVE  Spec => []FinishedHasNothingLeft
  <1>1. ASSUME FInv, IInv', [Next]_vars, \A d \in Days : CloseDay(d) => d = today PROVE FInv'
    <2>1. CASE GeneratePlan
      BY <1>1, <2>1, GenerateF
    <2>2. CASE ReplanDeadline
      BY <1>1, <2>2, ReplanF
    <2>3. ASSUME NEW g \in Gens, DraftStep(g) PROVE FInv'
      BY <1>1, <2>3, ConfirmF, CancelDraftF DEF DraftStep
    <2>4. ASSUME NEW d \in Days, CloseDay(d) PROVE FInv'
      BY <1>1, <2>4, CloseF
    <2>5. ASSUME NEW g \in Gens, NEW c \in Codes, DayStep(g, c) PROVE FInv'
      BY <1>1, <2>5, DayStepF
    <2>6. CASE NextDay
      BY <1>1, <2>6, NextDayF
    <2>7. CASE \/ JobFails \/ Regenerate \/ Archive \/ UNCHANGED vars
               \/ \E new \in Days : PlanEdit(new) \/ AskDeadline(new)
               \/ \E i \in Changes : ConfirmDeadline(i) \/ CancelDeadline(i)
      BY <1>1, <2>7, FrameF
    <2>8. QED
      BY <1>1, <2>1, <2>2, <2>3, <2>4, <2>5, <2>6, <2>7 DEF Next
  <1>2. IInv /\ (OnTime => FInv) => FinishedHasNothingLeft
    <2> SUFFICES ASSUME FInv, active # None, NEW c \in finished[active]
                 PROVE  RemainingDays(c) = 0 \/ (closed[today] # 0 /\ RemainingDays(c) = 1)
      BY DEF FinishedHasNothingLeft
    <2> DEFINE left == {r \in ActiveRows : r.code = c /\
               (r.day > today \/ (r.day = today /\ entry[active][<<c, today>>] # "done"))}
    <2>1. active \in Gens /\ ActiveRows = rows[active] /\ today \in Int
      BY ConstantsAssumption DEF FInv, IInv, TypeOK, ActiveRows, ConstantsAssumption
    <2>2. \A r \in rows[active] : r.day \in Int
      BY <2>1, ConstantsAssumption DEF FInv, IInv, TypeOK, Rows, Days, ConstantsAssumption
    <2>3. \A r \in left : r.day = today /\ closed[today] # 0
      BY <2>1, <2>2 DEF FInv, NothingLeft, Over
    <2>4. RemainingDays(c) = Cardinality(left)
      BY DEF RemainingDays
    <2>5. CASE left = {}
      BY <2>4, <2>5, FS_EmptySet
    <2>6. ASSUME NEW r \in left
          PROVE  RemainingDays(c) = 1 /\ closed[today] # 0
      <3>1. left = {r}
        BY <2>1, <2>3, <2>6 DEF FInv, OneRowADay
      <3> HIDE DEF left
      <3>2. Cardinality(left) = 1
        BY <3>1, FS_Singleton
      <3>3. QED
        BY <2>3, <2>4, <2>6, <3>2
    <2>7. QED
      BY <2>5, <2>6
  <1>3. IInv /\ IInv' /\ (OnTime => FInv) /\ [Next]_vars => (OnTime' => FInv')
    BY <1>1, OnTimeBefore DEF IInv
  <1>4. QED
    BY InitFInv, <1>2, <1>3, Inductive, PTL DEF Spec

-----------------------------------------------------------------------------
\* Reports of the active plan: only the user's own, of today, make a task that is
\* done another thing, while the plan stays the same.
LEMMA DoneStaysDone ==
    ASSUME IInv, [Next]_vars, active # None, active' = active,
           NEW c \in Codes, NEW d \in Days,
           entry[active][<<c, d>>] = "done", entry'[active][<<c, d>>] # "done"
    PROVE  d = today /\ closed' = closed /\ rows' = rows
  <1>1. active \in Gens /\ <<c, d>> \in Slots
    BY DEF IInv, TypeOK, Slots
  <1>2. entry \in [Gens -> [Slots -> {"none", "pending", "not_done", "done"}]]
    BY DEF IInv, TypeOK
  <1>3. \/ entry' = entry
        \/ \E g \in Gens : Confirm(g)
        \/ \E e \in Days : CloseDay(e)
        \/ \E g \in Gens, k \in Codes : DayStep(g, k)
    BY DEF Next, vars, planVars, DraftStep, CancelDraft, GeneratePlan, ReplanDeadline,
           JobFails, Regenerate, Archive, NextDay, PlanEdit, AskDeadline, ConfirmDeadline,
           CancelDeadline
  <1>4. ASSUME NEW g \in Gens, Confirm(g) PROVE FALSE
    BY <1>4, ConfirmEffect DEF IInv, Confirm
  <1>5. ASSUME NEW e \in Days, CloseDay(e) PROVE FALSE
    <2>1. entry' = ClosedEntries(e)
      BY <1>5 DEF CloseDay
    <2>2. QED
      BY <1>1, <2>1 DEF ClosedEntries, Undone
  <1>6. ASSUME NEW g \in Gens, NEW k \in Codes, DayStep(g, k)
        PROVE  d = today /\ closed' = closed /\ rows' = rows
    <2>1. PICK s : /\ entry' = [entry EXCEPT ![g] = [@ EXCEPT ![<<k, today>>] = s]]
                   /\ closed' = closed /\ rows' = rows
      BY <1>6 DEF DayStep, CompleteToday, UncompleteToday, IncompleteToday, Report
    <2>2. <<c, d>> = <<k, today>>
      BY <1>1, <1>2, <2>1
    <2>3. QED
      BY <2>1, <2>2
  <1>7. QED
    BY <1>3, <1>4, <1>5, <1>6

\* No cell of the chart that is done becomes another thing behind the user's back, but
\* for the last days, which a late close of the day before them may add to.
THEOREM DoneCellsAreKept == Spec => DoneCellsStay
  <1> DEFINE Kept == active # None /\ active' = active =>
        {r \in rows'[active] : r.day <= today - MaxLag}
          = {r \in rows[active] : r.day <= today - MaxLag}
             Stay == active' = active /\ Shown /\ Shown' =>
        \A milestone \in SUBSET Codes, d \in 1..(today - MaxLag) :
          Cell(milestone, d) = "done" /\ Cell(milestone, d)' # "done"
            => d = today /\ closed' = closed /\ rows' = rows
  <1>1. ASSUME IInv, [Next]_vars, [Kept]_vars PROVE [Stay]_vars
    <2> SUFFICES ASSUME vars' # vars, active' = active, Shown, Shown',
                        NEW milestone \in SUBSET Codes, NEW d \in 1..(today - MaxLag),
                        Cell(milestone, d) = "done", Cell(milestone, d)' # "done"
                 PROVE  d = today /\ closed' = closed /\ rows' = rows
      OBVIOUS
    <2> DEFINE codes == {c \in milestone : active # None /\ On(active, c, d)}
    <2>1. /\ codes # {} /\ \A c \in codes : entry[active][<<c, d>>] = "done"
          /\ active # None
      BY DEF Cell, CellStatus
    <2>2. /\ today \in Int /\ today' \in Int /\ today <= today' /\ d \in Days
          /\ MaxLag \in Nat /\ d <= today - MaxLag /\ d <= today
      <3>1. today \in 1..LastToday /\ LastToday \in 1..(Horizon - 1) /\ Horizon \in Nat /\ MaxLag \in Nat
        BY <1>1, ConstantsAssumption DEF IInv, TypeOK, ConstantsAssumption
      <3>2. today' \in {today, today + 1}
        BY <1>1 DEF Next, vars, DraftStep, Confirm, CancelDraft, GeneratePlan, ReplanDeadline,
             JobFails, Regenerate, Archive, NextDay, PlanEdit, AskDeadline, ConfirmDeadline,
             CancelDeadline, DayStep, CompleteToday, UncompleteToday, IncompleteToday,
             Report, CloseDay
      <3>3. QED
        BY <3>1, <3>2 DEF Days
    <2>3. codes' = codes
      <3>1. {r \in rows'[active] : r.day <= today - MaxLag}
              = {r \in rows[active] : r.day <= today - MaxLag}
        BY <1>1, <2>1
      <3>2. \A c \in milestone : On(active, c, d)' <=> On(active, c, d)
        BY <2>2, <3>1 DEF On
      <3>3. QED
        BY <3>2
    <2>4. PICK c \in codes : entry'[active][<<c, d>>] # "done"
      <3>1. Cell(milestone, d)' = CellStatus(codes, d)'
        BY <2>1, <2>3 DEF Cell
      <3>2. CellStatus(codes, d)' = IF codes # {} /\ \A c \in codes : entry'[active][<<c, d>>] = "done"
                                    THEN "done" ELSE "not_done"
        BY <2>2, <2>3 DEF CellStatus
      <3>3. QED
        BY <2>1, <3>1, <3>2
    <2>5. QED
      BY <1>1, <2>1, <2>2, <2>4, DoneStaysDone
  <1>2. QED
    BY Inductive, PastIsKept, <1>1, PTL DEF Spec, HistoryKept, DoneCellsStay

=============================================================================
