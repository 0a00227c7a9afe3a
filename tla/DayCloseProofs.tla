--------------------------- MODULE DayCloseProofs ---------------------------
(***************************************************************************)
(* Proofs about DayClose, for any number of goals, days, processes,        *)
(* failures and runs of the internal route.                                *)
(*                                                                         *)
(* A batch decides by its snapshot, and the snapshot ages.  The inductive  *)
(* invariant says what stays true of an old snapshot (Snapshots) and what  *)
(* the unique key of job_runs makes true of the goals a batch has already  *)
(* flushed (Flushed): no other open batch has flushed the same day of the  *)
(* same goal, and none has committed it.  The days a batch finds out, user *)
(* by user, are found out before the user's goals are flushed (Entered)    *)
(* and never go back (InOrder).                                            *)
(***************************************************************************)
EXTENDS DayClose, TLAPS

\* What a snapshot says is there is still there.
Snapshots ==
    \A b \in Batches : Open(b) => \A g \in Goals :
        /\ \A d \in Days : snap[b].closes[g][d] > 0 => Ran(g, d)
        /\ \A d \in Days : snap[b].entry[g][d] # "none" => entry[g][d] # "none"
        /\ \A d \in Planned : snap[b].rows[g][d] # "none" => rows[g][d] # "none"

\* Whose goal is flushed has had his day found out.
Entered == \A b \in Batches, g \in Goals : Done(b, g) => Day(b, g) # NoDay

\* Users have their days found out one after the other, and until the last of them has
\* his, which as_of gives to all at once, no day is one to come.
InOrder ==
    \A b \in Batches, u, v \in Users :
        /\ u < v /\ day[b][v] # NoDay => day[b][u] # NoDay /\ day[b][u] <= day[b][v]
        /\ day[b][v] = NoDay => day[b][u] <= today

\* The day b closes for goal g's user is b's to close.
Closing(b, g) == Done(b, g) /\ Closes(b, g)

Flushed ==
    \A b \in Batches, g \in Goals : Closing(b, g) =>
        /\ ~Ran(g, Day(b, g))
        /\ \A c \in Batches \ {b} : Closing(c, g) => Day(c, g) # Day(b, g)

IInv ==
    /\ TypeOK
    /\ Snapshots
    /\ Entered
    /\ InOrder
    /\ Flushed
    /\ ClosedOnce
    /\ NobodyIsLeftOut
    /\ DeferredMeansClosed

USE DEF Goals, Users, Days, Planned, NoTick, NoDay

-----------------------------------------------------------------------------
(* Type correctness.                                                       *)

LEMMA InitTypeOK == Init => TypeOK
  BY ConstantsAssumption
  DEF ConstantsAssumption, Init, TypeOK, Statuses, Committed, Nothing, Unknown

\* A batch that begins has a well-formed snapshot.
LEMMA BeginTypeOK ==
    ASSUME TypeOK, NEW b \in Batches, NEW days \in [Users -> Days \cup {NoDay}], Begin(b, days)
    PROVE  /\ pc' \in [Batches -> {"idle", "open", "ack"}]
           /\ day' \in [Batches -> [Users -> Days \cup {NoDay}]]
           /\ next' \in [Batches -> 1..(NumGoals + 1)]
           /\ snap' \in [Batches -> Committed]
           /\ \A c \in Batches : pc'[c] = "idle" => c # b /\ pc[c] = "idle"
  <1> USE ConstantsAssumption DEF ConstantsAssumption, TypeOK
  <1>1. [rows |-> rows, entry |-> entry, closes |-> closes] \in Committed
    BY DEF Committed
  <1>2. snap' \in [Batches -> Committed]
    BY <1>1 DEF Begin
  <1>3. QED
    BY <1>2 DEF Begin

LEMMA RestTypeOK ==
    ASSUME TypeOK, NEW b \in Batches, Rest(b)
    PROVE  /\ pc' \in [Batches -> {"idle", "open", "ack"}]
           /\ tick' \in [Batches -> Days \cup {NoTick}]
           /\ day' \in [Batches -> [Users -> Days \cup {NoDay}]]
           /\ snap' \in [Batches -> Committed]
           /\ next' \in [Batches -> 1..(NumGoals + 1)]
           /\ \A c \in Batches : pc'[c] = "idle" => tick'[c] = NoTick
  <1>1. Nothing \in Committed
    BY DEF Nothing, Committed, Statuses
  <1>2. Unknown \in [Users -> Days \cup {NoDay}]
    BY DEF Unknown
  <1>3. 1 \in 1..(NumGoals + 1)
    BY ConstantsAssumption DEF ConstantsAssumption
  <1>4. QED
    BY <1>1, <1>2, <1>3 DEF TypeOK, Rest

LEMMA CountedStaysCount ==
    ASSUME NEW f \in [Days -> Nat], NEW d
    PROVE  [f EXCEPT ![d] = @ + 1] \in [Days -> Nat]
  <1>1. CASE d \in Days
    <2>1. f[d] + 1 \in Nat
      BY <1>1
    <2>2. QED
      BY <2>1
  <1>2. CASE d \notin Days
    <2>1. [f EXCEPT ![d] = @ + 1] = f
      BY <1>2
    <2>2. QED
      BY <2>1
  <1>3. QED
    BY <1>1, <1>2

\* Every step of a batch keeps the shape of the state.
LEMMA BatchTypeOK ==
    ASSUME TypeOK, NEW b \in Batches, BatchStep(b)
    PROVE  TypeOK'
  <1> USE ConstantsAssumption DEF ConstantsAssumption, data, batch, bounds
  <1>1. CASE BeginTask(b)
    <2>1. Unknown \in [Users -> Days \cup {NoDay}]
      BY DEF Unknown
    <2>2. PICK t \in ticks : ticks' = ticks \ {t} /\ tick' = [tick EXCEPT ![b] = t]
      BY <1>1 DEF BeginTask
    <2>3. QED
      BY <1>1, <2>1, <2>2, BeginTypeOK DEF BeginTask, TypeOK
  <1>2. CASE BeginRoute(b)
    <2>1. PICK d \in Days \cup {NoDay} : Begin(b, [u \in Users |-> d])
      BY <1>2 DEF BeginRoute
    <2>2. [u \in Users |-> d] \in [Users -> Days \cup {NoDay}]
      OBVIOUS
    <2>3. manual' \in 0..MaxManual
      BY <1>2 DEF BeginRoute, TypeOK
    <2>4. tick' \in [Batches -> Days \cup {NoTick}]
          /\ \A c \in Batches : c # b => tick'[c] = tick[c]
      BY <1>2 DEF BeginRoute, TypeOK
    <2>5. QED
      BY <1>2, <2>1, <2>2, <2>3, <2>4, BeginTypeOK DEF BeginRoute, TypeOK
  <1>3. CASE CloseGoal(b)
    <2>1. next[b] + 1 \in 1..(NumGoals + 1)
      BY <1>3 DEF CloseGoal
    <2>2. next' \in [Batches -> 1..(NumGoals + 1)]
      BY <1>3, <2>1 DEF CloseGoal, TypeOK
    <2>3. QED
      BY <1>3, <2>2 DEF CloseGoal, TypeOK
  <1>4. CASE Collide(b)
    BY <1>4 DEF Collide, Abort, Open, TypeOK
  <1>5. CASE Fail(b)
    BY <1>5 DEF Fail, Fault, Abort, Open, TypeOK
  <1>6. CASE Commit(b)
    <2> USE DEF TypeOK
    <2>2. closes' \in [Goals -> [Days -> Nat]]
      BY <1>6, CountedStaysCount DEF Commit
    <2>3. entry' \in [Goals -> [Days -> Statuses]]
      BY <1>6 DEF Commit, Statuses
    <2>4. rows' \in [Goals -> [Planned -> {"none", "plan", "defer"}]]
      BY <1>6 DEF Commit
    <2>5. QED
      BY <1>6, <2>2, <2>3, <2>4 DEF Commit, Open
  <1>7. CASE Ack(b)
    BY <1>7, RestTypeOK DEF Ack, TypeOK
  <1>8. CASE Lose(b)
    <2>1. faults' \in 0..MaxFaults
      BY <1>8 DEF Lose, Fault, TypeOK
    <2>2. tick[b] # NoTick => tick[b] \in Days
      BY DEF TypeOK
    <2>3. ticks' \subseteq Days
      BY <1>8, <2>2 DEF Lose, TypeOK
    <2>4. QED
      BY <1>8, <2>1, <2>3, RestTypeOK DEF Lose, TypeOK
  <1>9. CASE Redeliver(b)
    <2>1. faults' \in 0..MaxFaults
      BY <1>9 DEF Redeliver, Fault, TypeOK
    <2>2. tick[b] \in Days
      BY <1>9 DEF Redeliver, TypeOK
    <2>3. QED
      BY <1>9, <2>1, <2>2 DEF Redeliver, TypeOK
  <1>10. CASE NextUser(b)
    <2>1. today \in Days
      BY DEF TypeOK
    <2>2. day' \in [Batches -> [Users -> Days \cup {NoDay}]]
      BY <1>10, <2>1 DEF NextUser, TypeOK
    <2>3. QED
      BY <1>10, <2>2 DEF NextUser, TypeOK
  <1>11. QED
    BY <1>1, <1>2, <1>3, <1>4, <1>5, <1>6, <1>7, <1>8, <1>9, <1>10 DEF BatchStep

LEMMA ReportTypeOK ==
    ASSUME TypeOK, NEW g \in Goals, NEW s \in Statuses, Report(g, s)
    PROVE  TypeOK'
  BY DEF TypeOK, Report, batch, bounds

LEMMA StepTypeOK == TypeOK /\ [Next]_vars => TypeOK'
  <1> SUFFICES ASSUME TypeOK, [Next]_vars PROVE TypeOK'
    OBVIOUS
  <1> USE ConstantsAssumption DEF ConstantsAssumption, data, batch, bounds
  <1>1. CASE Beat
    BY <1>1 DEF Beat, TypeOK
  <1>2. CASE NextDay
    <2>1. today' \in Days
      BY <1>2 DEF NextDay, TypeOK
    <2>2. QED
      BY <1>2, <2>1 DEF NextDay, TypeOK
  <1>3. ASSUME NEW b \in Batches, BatchStep(b) PROVE TypeOK'
    BY <1>3, BatchTypeOK
  <1>4. ASSUME NEW g \in Goals, UserStep(g) PROVE TypeOK'
    BY <1>4, ReportTypeOK
    DEF UserStep, CompleteToday, UncompleteToday, IncompleteToday, Statuses
  <1>5. CASE UNCHANGED vars
    BY <1>5 DEF vars, TypeOK
  <1>6. QED
    BY <1>1, <1>2, <1>3, <1>4, <1>5 DEF Next

\* The state of the day close keeps its shape (TypeOK).
THEOREM TypeCorrect == Spec => []TypeOK
  BY InitTypeOK, StepTypeOK, PTL DEF Spec

-----------------------------------------------------------------------------
(* What a step does to the batches and to the committed data.              *)

Same(c) == /\ pc'[c] = pc[c] /\ day'[c] = day[c]
           /\ snap'[c] = snap[c] /\ next'[c] = next[c]

\* A batch begins, comes to a user, flushes a goal, commits, ends without a trace, or
\* goes on.
Begins(b) ==
    \E d \in Days \cup {NoDay} : Begin(b, [u \in Users |-> d]) /\ UNCHANGED <<data, today>>
Ends(b) == pc'[b] # "open" /\ day'[b] \in {day[b], Unknown} /\ UNCHANGED <<data, today>>

LEMMA BatchCases ==
    ASSUME TypeOK, NEW b \in Batches, BatchStep(b)
    PROVE  /\ \A c \in Batches \ {b} : Same(c)
           /\ \/ Begins(b) \/ NextUser(b) \/ CloseGoal(b) \/ Commit(b) \/ Ends(b)
              \/ UNCHANGED <<data, batch, today>>
  <1> USE DEF TypeOK, Same
  <1>1. CASE BeginTask(b)
    BY <1>1 DEF BeginTask, Begin, Begins, Unknown
  <1>2. CASE BeginRoute(b)
    BY <1>2 DEF BeginRoute, Begin, Begins
  <1>3. CASE CloseGoal(b)
    BY <1>3 DEF CloseGoal
  <1>4. CASE Collide(b) \/ Fail(b)
    BY <1>4 DEF Collide, Fail, Abort, Ends
  <1>5. CASE Commit(b)
    BY <1>5 DEF Commit
  <1>6. CASE Ack(b) \/ Lose(b)
    BY <1>6 DEF Ack, Lose, Rest, Ends
  <1>7. CASE Redeliver(b)
    BY <1>7 DEF Redeliver, batch
  <1>8. CASE NextUser(b)
    BY <1>8 DEF NextUser
  <1>9. QED
    BY <1>1, <1>2, <1>3, <1>4, <1>5, <1>6, <1>7, <1>8 DEF BatchStep

\* Nothing that is committed disappears.
Grows ==
    \A g \in Goals : 
        /\ \A d \in Planned : rows[g][d] # "none" => rows'[g][d] # "none"
        /\ \A d \in Days : entry[g][d] # "none" => entry'[g][d] # "none"
        /\ \A d \in Days : Ran(g, d) => Ran(g, d)'

LEMMA CommitGrows ==
    ASSUME TypeOK, NEW b \in Batches, Commit(b)
    PROVE  Grows
  <1> USE ConstantsAssumption DEF ConstantsAssumption, TypeOK
  <1>1. \A g \in Goals, d \in Planned : rows[g][d] # "none" => rows'[g][d] # "none"
    BY DEF Commit
  <1>2. \A g \in Goals, d \in Days : entry[g][d] # "none" => entry'[g][d] # "none"
    BY DEF Commit
  <1>3. ASSUME NEW g \in Goals, NEW d \in Days, Ran(g, d) PROVE Ran(g, d)'
    <2>1. closes'[g] \in {closes[g], [closes[g] EXCEPT ![Day(b, g)] = @ + 1]}
      BY DEF Commit
    <2>2. closes[g] \in [Days -> Nat] /\ closes[g][d] > 0
      BY <1>3 DEF Ran
    <2>3. closes'[g][d] \in {closes[g][d], closes[g][d] + 1}
      BY <2>1, <2>2
    <2>4. QED
      BY <2>2, <2>3 DEF Ran
  <1>4. QED
    BY <1>1, <1>2, <1>3 DEF Grows

LEMMA ReportGrows ==
    ASSUME TypeOK, NEW g \in Goals, NEW s \in Statuses \ {"none"}, Report(g, s)
    PROVE  Grows
  BY DEF TypeOK, Report, Grows, Ran

LEMMA StepGrows ==
    ASSUME TypeOK, [Next]_vars
    PROVE  Grows
  <1>1. ASSUME NEW b \in Batches, BatchStep(b) PROVE Grows
    <2>1. CASE UNCHANGED data
      BY <2>1 DEF data, Grows, Ran
    <2>2. CASE Commit(b)
      BY <2>2, CommitGrows
    <2>3. QED
      BY <1>1, <2>1, <2>2, BatchCases DEF Begins, Ends, CloseGoal, NextUser
  <1>2. ASSUME NEW g \in Goals, UserStep(g) PROVE Grows
    BY <1>2, ReportGrows
    DEF UserStep, CompleteToday, UncompleteToday, IncompleteToday, Statuses
  <1>3. CASE Beat \/ NextDay \/ UNCHANGED vars
    BY <1>3 DEF Beat, NextDay, vars, data, Grows, Ran
  <1>4. QED
    BY <1>1, <1>2, <1>3 DEF Next

\* A step that is no batch's leaves the batches alone, and what is closed.
LEMMA OtherSteps ==
    ASSUME TypeOK, [Next]_vars, \A b \in Batches : ~BatchStep(b)
    PROVE  UNCHANGED <<batch, rows, closes>>
  BY DEF Next, Beat, NextDay, UserStep, CompleteToday, UncompleteToday, IncompleteToday,
         Report, vars, data

-----------------------------------------------------------------------------
(* The parts of the inductive invariant, one by one.                       *)

LEMMA BatchSnapshots ==
    ASSUME TypeOK, Snapshots, NEW b \in Batches, BatchStep(b), Grows
    PROVE  Snapshots'
  <1> SUFFICES ASSUME NEW c \in Batches, Open(c)', NEW g \in Goals
               PROVE  /\ \A d \in Days : snap'[c].closes[g][d] > 0 => Ran(g, d)'
                      /\ \A d \in Days : snap'[c].entry[g][d] # "none" => entry'[g][d] # "none"
                      /\ \A d \in Planned : snap'[c].rows[g][d] # "none" => rows'[g][d] # "none"
    BY DEF Snapshots, Open, Ran
  <1>1. CASE snap'[c] = snap[c] /\ Open(c)
    BY <1>1 DEF Snapshots, Grows
  <1>2. CASE Same(c)
    BY <1>1, <1>2 DEF Same, Open
  <1>3. CASE c = b /\ Begins(b)
    <2>1. snap'[b] = [rows |-> rows, entry |-> entry, closes |-> closes] /\ UNCHANGED data
      BY <1>3 DEF Begins, Begin, TypeOK
    <2>2. snap'[b].rows = rows /\ snap'[b].entry = entry /\ snap'[b].closes = closes
      BY <2>1
    <2>3. QED
      BY <1>3, <2>1, <2>2 DEF data, Ran
  <1>4. CASE c = b /\ (CloseGoal(b) \/ NextUser(b))
    BY <1>1, <1>4 DEF CloseGoal, NextUser
  <1>5. CASE c = b /\ (Commit(b) \/ Ends(b))
    BY <1>5 DEF Commit, Ends, Open, TypeOK
  <1>6. CASE UNCHANGED <<data, batch>>
    BY <1>2, <1>6 DEF batch, Same
  <1>7. QED
    BY <1>2, <1>3, <1>4, <1>5, <1>6, BatchCases

LEMMA StepSnapshots ==
    ASSUME TypeOK, Snapshots, [Next]_vars
    PROVE  Snapshots'
  <1>1. Grows
    BY StepGrows
  <1>2. CASE \E b \in Batches : BatchStep(b)
    BY <1>1, <1>2, BatchSnapshots
  <1>3. CASE UNCHANGED batch
    BY <1>1, <1>3 DEF Snapshots, Grows, batch, Open
  <1>4. QED
    BY <1>2, <1>3, OtherSteps

\* Coming to a user is nothing to those whose days are known.
LEMMA NextUserDays ==
    ASSUME TypeOK, NEW b \in Batches, NextUser(b)
    PROVE  \E u \in Users :
               /\ day[b][u] = NoDay /\ day'[b][u] = today
               /\ \A v \in Users : v # u => day'[b][v] = day[b][v]
               /\ \A v \in Users : v < u => day[b][v] # NoDay
               /\ \A c \in Batches \ {b} : day'[c] = day[c]
  <1>1. PICK u \in Users :
            /\ day[b][u] = NoDay /\ \A v \in Users : v < u => day[b][v] # NoDay
            /\ day' = [day EXCEPT ![b] = [@ EXCEPT ![u] = today]]
    BY DEF NextUser
  <1>2. day \in [Batches -> [Users -> Days \cup {NoDay}]]
    BY DEF TypeOK
  <1>3. QED
    BY <1>1, <1>2

LEMMA KnownDaysStay ==
    ASSUME TypeOK, NEW b \in Batches, NextUser(b), NEW c \in Batches, NEW g \in Goals,
           Day(c, g) # NoDay
    PROVE  Day(c, g)' = Day(c, g)
  <1>1. Owner[g] \in Users
    BY ConstantsAssumption DEF ConstantsAssumption
  <1>2. QED
    BY <1>1, NextUserDays DEF Day

LEMMA StepEntered ==
    ASSUME TypeOK, Entered, [Next]_vars
    PROVE  Entered'
  <1> USE DEF TypeOK
  <1>1. ASSUME NEW b \in Batches, BatchStep(b) PROVE Entered'
    <2> SUFFICES ASSUME NEW c \in Batches, NEW g \in Goals, Done(c, g)'
                 PROVE  Day(c, g)' # NoDay
      BY DEF Entered
    <2>1. CASE Same(c)
      BY <2>1 DEF Same, Entered, Done, Open, Day
    <2>2. CASE c = b /\ CloseGoal(b)
      <3>1. next[b] \in Nat /\ next'[b] = next[b] + 1 /\ day' = day /\ Open(b)
        BY <2>2, ConstantsAssumption DEF ConstantsAssumption, CloseGoal
      <3>2. g < next[b] \/ g = next[b]
        BY <2>2, <3>1 DEF Done
      <3>3. QED
        BY <2>2, <3>1, <3>2 DEF CloseGoal, Entered, Done, Day
    <2>3. CASE c = b /\ NextUser(b)
      <3>1. Done(b, g)
        BY <2>3 DEF NextUser, Done, Open
      <3>2. QED
        BY <2>3, <3>1, KnownDaysStay DEF Entered
    <2>4. CASE c = b /\ (Begins(b) \/ Commit(b) \/ Ends(b))
      BY <2>4 DEF Begins, Begin, Commit, Ends, Done, Open
    <2>5. CASE UNCHANGED <<data, batch, today>>
      BY <2>1, <2>5 DEF batch, Same
    <2>6. QED
      BY <1>1, <2>1, <2>2, <2>3, <2>4, <2>5, BatchCases
  <1>2. CASE UNCHANGED <<batch, rows, closes>>
    BY <1>2 DEF batch, Entered, Done, Open, Day
  <1>3. QED
    BY <1>1, <1>2, OtherSteps

\* What InOrder says of one batch.
OrderOf(days, t) ==
    \A u, v \in Users :
        /\ u < v /\ days[v] # NoDay => days[u] # NoDay /\ days[u] <= days[v]
        /\ days[v] = NoDay => days[u] <= t

LEMMA StepInOrder ==
    ASSUME TypeOK, InOrder, [Next]_vars
    PROVE  InOrder'
  <1> USE DEF TypeOK
  <1>1. today \in Nat /\ today' \in Nat /\ today <= today'
    <2>1. \A b \in Batches : BatchStep(b) => UNCHANGED today
      BY BatchCases DEF Begins, NextUser, CloseGoal, Commit, Ends
    <2>2. \A g \in Goals : UserStep(g) => UNCHANGED today
      BY DEF UserStep, CompleteToday, UncompleteToday, IncompleteToday, Report
    <2>3. QED
      BY <2>1, <2>2 DEF Next, Beat, NextDay, vars
  <1>2. SUFFICES ASSUME NEW c \in Batches PROVE OrderOf(day'[c], today')
    BY DEF InOrder, OrderOf
  <1>3. day[c] \in [Users -> Nat] /\ OrderOf(day[c], today)
    BY ConstantsAssumption DEF ConstantsAssumption, InOrder, OrderOf
  <1>4. CASE day'[c] = day[c]
    BY <1>1, <1>3, <1>4 DEF OrderOf
  <1>5. ASSUME NEW b \in Batches, BatchStep(b) PROVE OrderOf(day'[c], today')
    <2>1. CASE c = b /\ Begins(b)
      <3>1. PICK d \in Days \cup {NoDay} : day'[b] = [u \in Users |-> d]
        BY <2>1 DEF Begins, Begin
      <3>2. d \in Nat
        BY ConstantsAssumption DEF ConstantsAssumption
      <3>3. QED
        BY <1>1, <2>1, <3>1, <3>2 DEF OrderOf
    <2>2. CASE c = b /\ NextUser(b)
      <3>1. PICK u \in Users :
                /\ day[b][u] = NoDay /\ day'[b][u] = today
                /\ \A v \in Users : v # u => day'[b][v] = day[b][v]
                /\ \A v \in Users : v < u => day[b][v] # NoDay
        BY <2>2, NextUserDays
      <3>2. today' = today /\ today # NoDay
        BY <2>2 DEF NextUser
      <3>3. \A v \in Users : day[b][v] <= today
        BY <1>3, <2>2, <3>1 DEF OrderOf
      <3>4. \A v \in Users : u < v => day[b][v] = NoDay
        BY <1>3, <2>2, <3>1 DEF OrderOf
      <3>5. \A v \in Users : u < v \/ v < u \/ u = v
        BY ConstantsAssumption DEF ConstantsAssumption
      <3>6. QED
        BY <1>1, <1>3, <2>2, <3>1, <3>2, <3>3, <3>4, <3>5 DEF OrderOf
    <2>3. CASE c = b /\ Ends(b)
      <3>1. OrderOf(Unknown, today')
        BY <1>1 DEF Unknown, OrderOf
      <3>2. QED
        BY <1>4, <2>3, <3>1 DEF Ends
    <2>4. CASE c = b /\ (CloseGoal(b) \/ Commit(b))
      BY <1>4, <2>4 DEF CloseGoal, Commit
    <2>5. CASE Same(c) \/ UNCHANGED batch
      BY <1>4, <2>5 DEF Same, batch
    <2>6. QED
      BY <1>5, <2>1, <2>2, <2>3, <2>4, <2>5, BatchCases
  <1>6. QED
    BY <1>4, <1>5, OtherSteps DEF batch

\* A goal is flushed by one batch only: the key of job_runs is unique.
LEMMA CloseGoalFlushed ==
    ASSUME TypeOK, Flushed, NEW b \in Batches, CloseGoal(b)
    PROVE  Flushed'
  <1> USE DEF TypeOK
  <1>1. \A c \in Batches \ {b}, g \in Goals : Closing(c, g)' <=> Closing(c, g)
    BY DEF CloseGoal, Closing, Done, Open, Closes, Day
  <1>2. \A g \in Goals : Closing(b, g)' <=> Closing(b, g) \/ (g = next[b] /\ Closes(b, g))
    <2>1. next[b] \in Nat /\ next'[b] = next[b] + 1 /\ Open(b) /\ Open(b)'
      BY ConstantsAssumption DEF ConstantsAssumption, CloseGoal, Open
    <2>2. snap' = snap /\ day' = day
      BY DEF CloseGoal
    <2>3. \A g \in Goals : g < next[b] + 1 <=> g < next[b] \/ g = next[b]
      BY <2>1
    <2>4. QED
      BY <2>1, <2>2, <2>3 DEF Closing, Done, Closes, Day
  <1>3. Closes(b, next[b]) => /\ ~Ran(next[b], Day(b, next[b]))
                              /\ \A c \in Batches \ {b} :
                                     Closing(c, next[b]) => Day(c, next[b]) # Day(b, next[b])
    BY DEF CloseGoal, Claimed, Collides, Closing
  <1>4. closes' = closes /\ day' = day
    BY DEF CloseGoal, data
  <1>5. QED
    BY <1>1, <1>2, <1>3, <1>4 DEF Flushed, CloseGoal, Ran, Day

\* Whoever commits has flushed every goal, so that what the others have flushed
\* is of another day.
LEMMA CommitFlushed ==
    ASSUME TypeOK, Flushed, NEW b \in Batches, Commit(b)
    PROVE  Flushed'
  <1> USE ConstantsAssumption DEF ConstantsAssumption, TypeOK
  <1>1. \A c \in Batches \ {b}, g \in Goals : Closing(c, g)' <=> Closing(c, g)
    BY DEF Commit, Closing, Done, Open, Closes, Day
  <1>2. \A g \in Goals : ~Closing(b, g)'
    BY DEF Commit, Closing, Done, Open
  <1>3. \A g \in Goals : Closes(b, g) => Closing(b, g)
    BY DEF Commit, Closing, Done
  <1>4. ASSUME NEW c \in Batches \ {b}, NEW g \in Goals, Closing(c, g)
        PROVE  ~(closes'[g][Day(c, g)] > 0)
    <2>1. ~Ran(g, Day(c, g))
      BY <1>4 DEF Flushed
    <2>2. Closes(b, g) => Day(c, g) # Day(b, g)
      BY <1>3, <1>4 DEF Flushed
    <2>3. closes'[g][Day(c, g)] = closes[g][Day(c, g)]
      BY <2>2 DEF Commit
    <2>4. QED
      BY <2>1, <2>3 DEF Ran, Commit
  <1>5. day' = day
    BY DEF Commit
  <1>6. QED
    BY <1>1, <1>2, <1>4, <1>5 DEF Flushed, Ran, Day

LEMMA StepFlushed ==
    ASSUME TypeOK, Entered, Flushed, [Next]_vars
    PROVE  Flushed'
  <1> USE DEF TypeOK
  <1>1. ASSUME NEW b \in Batches, BatchStep(b) PROVE Flushed'
    <2>1. CASE CloseGoal(b)
      BY <2>1, CloseGoalFlushed
    <2>2. CASE Commit(b)
      BY <2>2, CommitFlushed
    <2>3. CASE Begins(b) \/ Ends(b)
      <3>1. \A g \in Goals : ~Closing(b, g)'
        BY <2>3 DEF Begins, Begin, Ends, Closing, Done, Open
      <3>2. \A c \in Batches, g \in Goals :
                Closing(c, g)' => Closing(c, g) /\ Day(c, g)' = Day(c, g)
        BY <1>1, <3>1, BatchCases DEF Same, Closing, Done, Open, Closes, Day
      <3>3. closes' = closes
        BY <2>3 DEF Begins, Ends, data
      <3>4. QED
        BY <3>2, <3>3 DEF Flushed, Ran
    <2>4. CASE NextUser(b)
      <3>1. \A c \in Batches, g \in Goals :
                Closing(c, g)' => Done(c, g) /\ Day(c, g)' = Day(c, g)
        BY <2>4, KnownDaysStay DEF NextUser, Entered, Closing, Done, Open
      <3>2. \A c \in Batches, g \in Goals :
                Closing(c, g)' => Closing(c, g) /\ Day(c, g)' = Day(c, g)
        BY <2>4, <3>1 DEF NextUser, Closing, Closes
      <3>3. closes' = closes
        BY <2>4 DEF NextUser, data
      <3>4. QED
        BY <3>2, <3>3 DEF Flushed, Ran
    <2>5. CASE UNCHANGED <<data, batch, today>>
      BY <2>5 DEF data, batch, Flushed, Closing, Done, Open, Closes, Ran, Day
    <2>6. QED
      BY <1>1, <2>1, <2>2, <2>3, <2>4, <2>5, BatchCases
  <1>2. CASE UNCHANGED <<batch, rows, closes>>
    BY <1>2 DEF batch, Flushed, Closing, Done, Open, Closes, Ran, Day
  <1>3. QED
    BY <1>1, <1>2, OtherSteps

LEMMA ClosesNat == TypeOK => \A g \in Goals, d \in Days : closes[g][d] \in Nat
  BY DEF TypeOK

\* What a commit leaves in closes and in rows.
LEMMA CommitEffect ==
    ASSUME TypeOK, NEW b \in Batches, Commit(b), NEW g \in Goals
    PROVE  /\ \A d \in Days : closes'[g][d] =
                  IF Closes(b, g) /\ d = Day(b, g) THEN closes[g][d] + 1 ELSE closes[g][d]
           /\ \A d \in Planned : rows'[g][d] =
                  IF Defers(b, g) /\ d = Day(b, g) + 1 THEN "defer" ELSE rows[g][d]
  <1> USE ConstantsAssumption DEF ConstantsAssumption, TypeOK
  <1>1. closes'[g] =
            IF Closes(b, g) THEN [closes[g] EXCEPT ![Day(b, g)] = @ + 1] ELSE closes[g]
    BY DEF Commit
  <1>2. rows'[g] = IF Defers(b, g) THEN [rows[g] EXCEPT ![Day(b, g) + 1] = "defer"] ELSE rows[g]
    BY DEF Commit
  <1>3. closes[g] \in [Days -> Nat] /\ rows[g] \in [Planned -> {"none", "plan", "defer"}]
    OBVIOUS
  <1>4. \A d \in Days : closes'[g][d] =
            IF Closes(b, g) /\ d = Day(b, g) THEN closes[g][d] + 1 ELSE closes[g][d]
    BY <1>1, <1>3
  <1>5. \A d \in Planned : rows'[g][d] =
            IF Defers(b, g) /\ d = Day(b, g) + 1 THEN "defer" ELSE rows[g][d]
    BY <1>2, <1>3
  <1>6. QED
    BY <1>4, <1>5

LEMMA StepClosedOnce ==
    ASSUME TypeOK, Flushed, ClosedOnce, [Next]_vars
    PROVE  ClosedOnce'
  <1>1. ASSUME NEW b \in Batches, Commit(b) PROVE ClosedOnce'
    <2> SUFFICES ASSUME NEW g \in Goals, NEW d \in Days
                 PROVE  closes'[g][d] <= 1
      BY DEF ClosedOnce
    <2>1. CASE Closes(b, g) /\ d = Day(b, g)
      <3>1. Closing(b, g)
        BY <1>1, <2>1, ConstantsAssumption
        DEF ConstantsAssumption, Commit, Closing, Done
      <3>2. closes[g][d] = 0
        <4>1. closes[g][d] \in Nat
          BY ClosesNat
        <4>2. ~(closes[g][d] > 0)
          BY <2>1, <3>1 DEF Flushed, Ran
        <4>3. QED
          BY <4>1, <4>2
      <3>3. QED
        BY <1>1, <2>1, <3>2, CommitEffect
    <2>2. CASE ~(Closes(b, g) /\ d = Day(b, g))
      BY <1>1, <2>2, CommitEffect DEF ClosedOnce
    <2>3. QED
      BY <2>1, <2>2
  <1>2. CASE UNCHANGED closes
    BY <1>2 DEF ClosedOnce
  <1>3. QED
    BY <1>1, <1>2, BatchCases, OtherSteps DEF Begins, Ends, CloseGoal, NextUser, data

\* What a batch commits is closed for every goal, on the day it found out for its user.
LEMMA CommitClosesAll ==
    ASSUME TypeOK, Snapshots, Entered, NEW b \in Batches, Commit(b), NEW g \in Goals
    PROVE  Day(b, g) \in Days /\ closes'[g][Day(b, g)] > 0
  <1>1. Day(b, g) \in Days
    <2>1. Owner[g] \in Users
      BY ConstantsAssumption DEF ConstantsAssumption
    <2>2. Done(b, g)
      BY ConstantsAssumption DEF ConstantsAssumption, Commit, Done
    <2>3. day \in [Batches -> [Users -> Days \cup {NoDay}]]
      BY DEF TypeOK
    <2>4. QED
      BY <2>1, <2>2, <2>3 DEF Entered, Day
  <1>2. CASE Closes(b, g)
    <2>1. closes[g][Day(b, g)] \in Nat
      BY <1>1, ClosesNat
    <2>2. closes'[g][Day(b, g)] = closes[g][Day(b, g)] + 1
      BY <1>1, <1>2, CommitEffect
    <2>3. QED
      BY <1>1, <2>1, <2>2
  <1>3. CASE ~Closes(b, g)
    <2>1. snap[b].closes \in [Goals -> [Days -> Nat]]
      BY DEF TypeOK, Committed
    <2>2. snap[b].closes[g][Day(b, g)] \in Nat
      BY <1>1, <2>1
    <2>3. snap[b].closes[g][Day(b, g)] > 0
      BY <1>3, <2>2 DEF Closes
    <2>4. Ran(g, Day(b, g))
      BY <1>1, <2>3 DEF Commit, Snapshots
    <2>5. QED
      BY <1>1, <1>3, <2>4, CommitEffect DEF Ran
  <1>4. QED
    BY <1>2, <1>3

LEMMA StepNobodyIsLeftOut ==
    ASSUME TypeOK, Snapshots, Entered, InOrder, NobodyIsLeftOut, [Next]_vars
    PROVE  NobodyIsLeftOut'
  <1>1. ASSUME NEW b \in Batches, Commit(b) PROVE NobodyIsLeftOut'
    <2> SUFFICES ASSUME NEW g \in Goals, NEW h \in Goals, NEW d \in Days, Ran(g, d)'
                 PROVE  \E e \in Days : /\ Ran(h, e)'
                                        /\ Owner[g] <= Owner[h] => d <= e
                                        /\ Owner[h] <= Owner[g] => e <= d
      BY DEF NobodyIsLeftOut
    <2>1. CASE Ran(g, d)
      BY <1>1, <2>1, CommitGrows DEF NobodyIsLeftOut, Grows
    <2>2. CASE ~Ran(g, d)
      <3>1. d = Day(b, g)
        BY <1>1, <2>2, CommitEffect DEF Ran
      <3>2. Day(b, h) \in Days /\ closes'[h][Day(b, h)] > 0
        BY <1>1, CommitClosesAll
      <3>3. \A k, l \in Goals : Owner[k] <= Owner[l] => Day(b, k) <= Day(b, l)
        <4> SUFFICES ASSUME NEW k \in Goals, NEW l \in Goals, Owner[k] <= Owner[l]
                     PROVE  Day(b, k) <= Day(b, l)
          OBVIOUS
        <4>1. Owner[k] \in Users /\ Owner[l] \in Users
          BY ConstantsAssumption DEF ConstantsAssumption
        <4>2. Day(b, k) \in Days /\ Day(b, l) \in Days
          BY <1>1, CommitClosesAll
        <4>3. CASE Owner[k] = Owner[l]
          BY <4>2, <4>3 DEF Day
        <4>4. CASE Owner[k] < Owner[l]
          BY <4>1, <4>2, <4>4 DEF Day, InOrder
        <4>5. QED
          BY <4>1, <4>3, <4>4, ConstantsAssumption DEF ConstantsAssumption
      <3>4. QED
        BY <3>1, <3>2, <3>3 DEF Ran
    <2>3. QED
      BY <2>1, <2>2
  <1>2. CASE UNCHANGED closes
    BY <1>2 DEF NobodyIsLeftOut, Ran
  <1>3. QED
    BY <1>1, <1>2, BatchCases, OtherSteps DEF Begins, Ends, CloseGoal, NextUser, data

\* A row is deferred by the commit that puts the close on record and leaves a
\* report: the task had none, or a pending one, and is marked, or it had another.
LEMMA StepDeferredMeansClosed ==
    ASSUME TypeOK, Snapshots, Entered, DeferredMeansClosed, [Next]_vars
    PROVE  DeferredMeansClosed'
  <1>1. Grows
    BY StepGrows
  <1> SUFFICES ASSUME NEW g \in Goals, NEW d \in Days, rows'[g][d + 1] = "defer"
               PROVE  /\ d \notin Sundays
                      /\ Ran(g, d)'
                      /\ rows'[g][d] # "none"
                      /\ entry'[g][d] # "none"
    BY DEF DeferredMeansClosed
  <1>2. d \in Planned /\ d + 1 \in Planned
    BY ConstantsAssumption DEF ConstantsAssumption
  <1>3. CASE rows[g][d + 1] = "defer"
    BY <1>1, <1>2, <1>3 DEF DeferredMeansClosed, Grows
  <1>4. ASSUME NEW b \in Batches, Commit(b), rows[g][d + 1] # "defer"
        PROVE  /\ d \notin Sundays
               /\ closes'[g][d] > 0
               /\ rows'[g][d] # "none"
               /\ entry'[g][d] # "none"
    <2>1. Defers(b, g) /\ d = Day(b, g)
      <3>1. Day(b, g) \in Days
        BY <1>4, CommitClosesAll
      <3>2. Defers(b, g) /\ d + 1 = Day(b, g) + 1
        BY <1>2, <1>4, CommitEffect
      <3>3. QED
        BY <3>1, <3>2
    <2>2. closes'[g][d] > 0
      <3>1. closes[g][d] \in Nat
        BY ClosesNat
      <3>2. closes'[g][d] = closes[g][d] + 1
        BY <1>4, <2>1, CommitEffect DEF Defers
      <3>3. QED
        BY <3>1, <3>2
    <2>3. rows'[g][d] # "none"
      BY <1>1, <1>2, <1>4, <2>1 DEF Commit, Defers, HasRow, Snapshots, Grows
    <2>4. entry'[g][d] # "none"
      <3>1. CASE Marks(b, g)
        BY <1>4, <2>1, <3>1 DEF Commit, TypeOK
      <3>2. CASE ~Marks(b, g)
        BY <1>1, <1>4, <2>1, <3>2 DEF Commit, Marks, Defers, HasRow, Reported, Snapshots, Grows
      <3>3. QED
        BY <3>1, <3>2
    <2>5. QED
      BY <2>1, <2>2, <2>3, <2>4 DEF Defers
  <1>5. CASE UNCHANGED rows
    BY <1>3, <1>5
  <1>6. QED
    BY <1>3, <1>4, <1>5, BatchCases, OtherSteps DEF Begins, Ends, CloseGoal, NextUser, data, Ran

-----------------------------------------------------------------------------
(* The theorems.                                                           *)

LEMMA InitInv == Init => IInv
  <1> SUFFICES ASSUME Init PROVE IInv
    OBVIOUS
  <1>1. TypeOK
    BY InitTypeOK
  <1>2. \A b \in Batches : ~Open(b)
    BY DEF Init, Open
  <1>3. \A g \in Goals, d \in Days : closes[g][d] = 0
    BY DEF Init
  <1>4. \A g \in Goals, d \in Planned : rows[g][d] # "defer"
    BY DEF Init
  <1>5. \A d \in Days : d + 1 \in Planned
    BY ConstantsAssumption DEF ConstantsAssumption
  <1>6. InOrder
    BY DEF Init, InOrder, Unknown
  <1>7. QED
    BY <1>1, <1>2, <1>3, <1>4, <1>5, <1>6
    DEF IInv, Snapshots, Entered, Flushed, Closing, Done, ClosedOnce, NobodyIsLeftOut, Ran,
        DeferredMeansClosed

LEMMA StepInv == IInv /\ [Next]_vars => IInv'
  BY StepTypeOK, StepSnapshots, StepEntered, StepInOrder, StepFlushed, StepClosedOnce,
     StepNobodyIsLeftOut, StepDeferredMeansClosed
  DEF IInv

LEMMA Invariance == Spec => []IInv
  BY InitInv, StepInv, PTL DEF Spec

\* For any number of goals, processes, redeliveries and overlapping runs of the
\* internal route, a day of a goal is closed at most once (ClosedOnce).
THEOREM DayClosedOnce == Spec => []ClosedOnce
  BY Invariance, PTL DEF IInv

\* No failure leaves a goal behind for which a batch closed no day, and of two goals the
\* batch takes, the later one has the same day closed or a later one (NobodyIsLeftOut).
THEOREM ClosedForEverybody == Spec => []NobodyIsLeftOut
  BY Invariance, PTL DEF IInv

\* A task is moved to the next day only with a close and a report of its day on
\* record (DeferredMeansClosed).
THEOREM DeferralHasClose == Spec => []DeferredMeansClosed
  BY Invariance, PTL DEF IInv

LEMMA StepDoneLost ==
    ASSUME TypeOK, [Next]_vars, NEW g \in Goals, NEW d \in Days,
           entry[g][d] = "done", entry'[g][d] = "not_done"
    PROVE  \E b \in Batches : /\ Open(b) /\ pc'[b] = "ack" /\ Day(b, g) = d
                              /\ snap[b].entry[g][d] \in {"none", "pending"}
  <1>1. ASSUME NEW b \in Batches, BatchStep(b)
        PROVE  Open(b) /\ pc'[b] = "ack" /\ Day(b, g) = d /\ snap[b].entry[g][d] \in {"none", "pending"}
    <2>1. Commit(b)
      BY <1>1, BatchCases DEF Begins, CloseGoal, NextUser, Ends, data
    <2>2. Marks(b, g) /\ Day(b, g) = d
      BY <2>1 DEF Commit, TypeOK
    <2>3. QED
      BY <2>1, <2>2 DEF Commit, Marks, Reported, TypeOK
  <1>2. ASSUME NEW h \in Goals, UserStep(h) PROVE FALSE
    <2>1. \A s \in Statuses : Report(h, s) => 
              entry'[g][d] = IF g = h /\ d = today THEN s ELSE entry[g][d]
      BY DEF Report, TypeOK
    <2>2. QED
      BY <1>2, <2>1
      DEF UserStep, CompleteToday, UncompleteToday, IncompleteToday, Statuses
  <1>3. CASE Beat \/ NextDay \/ UNCHANGED vars
    BY <1>3 DEF Beat, NextDay, vars, data
  <1>4. QED
    BY <1>1, <1>2, <1>3 DEF Next

\* The only step that turns a completed task into "not_done" is the commit of a
\* batch that had read it before it was completed (DoneLostToStaleCloseOnly).
THEOREM DoneLostOnlyToStaleClose == Spec => DoneLostToStaleCloseOnly
  <1>1. TypeOK /\ [Next]_vars =>
            [\A g \in Goals, d \in Days :
                entry[g][d] = "done" /\ entry'[g][d] = "not_done" =>
                    \E b \in Batches : /\ Open(b) /\ pc'[b] = "ack" /\ Day(b, g) = d
                                       /\ snap[b].entry[g][d] \in {"none", "pending"}]_vars
    BY StepDoneLost
  <1>2. QED
    BY <1>1, TypeCorrect, PTL DEF Spec, DoneLostToStaleCloseOnly

=============================================================================
