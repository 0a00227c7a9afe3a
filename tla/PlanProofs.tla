----------------------------- MODULE PlanProofs -----------------------------
(***************************************************************************)
(* Proofs about Plan, for any codes, any calendar and any number of days,  *)
(* generations and changes of the deadline.                                *)
(***************************************************************************)
EXTENDS Plan, TLAPS

\* A queued replan has a change of the deadline, which the user may have taken
\* back, and no open draft was made for the same one.
JobsHaveChanges ==
    job.type = "deadline_replan" =>
        /\ job.change \in Changes
        /\ change[job.change].status \in {"confirmed", "cancelled"}
        /\ \A g \in Gens : IsOpenReplan(g) => draft[g].change # job.change

\* Where the change of a generation stands.
DraftsHaveChanges ==
    \A g \in Gens :
        /\ status[g] \in {"suggested", "active"} => draft[g].source # "none"
        /\ draft[g].source = "deadline_replan" => draft[g].change \in Changes
        /\ draft[g].source = "ai" => draft[g].change = None
        /\ IsOpenReplan(g) => change[draft[g].change].status \in {"confirmed", "cancelled"}
        /\ status[g] = "active" /\ draft[g].source = "deadline_replan"
             => change[draft[g].change].status \in {"applied", "cancelled"}

\* An open draft that may be confirmed would move the deadline to a later day.
DraftsGoFurther ==
    \A g \in Gens :
        IsOpenReplan(g) /\ draft[g].sug <= draft[g].req => draft[g].sug > planEnd

\* What has been applied, and what has not.
Applied ==
    /\ FirstEnd <= planEnd
    /\ planEnd = FirstEnd \/ \E i \in Changes : change[i].applied = planEnd
    /\ \A i \in Changes :
        /\ change[i].applied <= planEnd
        /\ change[i].status # "applied" => change[i].applied = 0

\* The tasks of generation g, those moved on excepted, end by day d.
EndsBy(g, d) == \A r \in rows[g] : r.source # "defer" => r.day <= d

\* Generation g gives the days to come, up to d, something to do.
Reaches(g, d) == \A e \in (today + 1)..d : \E r \in rows[g] : r.day = e

DraftsFit ==
    \A g \in Gens :
        /\ status[g] = "suggested" /\ draft[g].source = "ai" => EndsBy(g, planEnd)
        /\ IsOpenReplan(g) /\ Confirmable(g) => EndsBy(g, draft[g].sug)
        /\ IsOpenReplan(g) /\ Confirmable(g) => Reaches(g, draft[g].sug)

IInv ==
    /\ TypeOK
    /\ OneActivePlan
    /\ OneReplanDraft
    /\ RetiredPlansAreEmpty
    /\ JobsHaveChanges
    /\ DraftsHaveChanges
    /\ DraftsGoFurther
    /\ Applied
    /\ DraftsFit
    /\ PlanFitsDeadline
    /\ PlanReachesDeadline

-----------------------------------------------------------------------------
(* Type correctness.                                                       *)

ChangeType == [status : {"none", "pending", "confirmed", "applied", "cancelled"},
               new : 0..Horizon, applied : 0..Horizon]
DraftType == [source : {"none", "ai", "deadline_replan"}, codes : SUBSET Codes,
              req : 0..Horizon, sug : 0..(Horizon + 1), change : Changes \cup {None}]

\* A new goal has the shape.
LEMMA InitTypeOK == Init => TypeOK
  <1> SUFFICES ASSUME Init PROVE TypeOK
    OBVIOUS
  <1> USE ConstantsAssumption DEF ConstantsAssumption, Init, None, Days
  <1>1. NoDraft \in DraftType
    BY DEF NoDraft, DraftType
  <1>2. NoChange \in ChangeType
    BY DEF NoChange, ChangeType
  <1>3. Blank \in [Slots -> {"none", "pending", "not_done", "done"}]
    BY DEF Blank
  <1>4. QED
    BY <1>1, <1>2, <1>3 DEF TypeOK, DraftType, ChangeType, Rows

\* Rows made from a schedule are rows.
LEMMA RowsOnType ==
    ASSUME NEW D, D \subseteq Days, NEW C, C \subseteq Codes,
           NEW s \in Schedules(D, C), NEW source \in {"plan", "held", "defer"}
    PROVE  RowsOn(s, D, source) \subseteq Rows
  BY DEF RowsOn, Schedules, Rows

\* A change with another status, one in use, is still a change.
LEMMA MarkedType ==
    ASSUME NEW ch \in ChangeType, NEW st \in {"pending", "confirmed", "applied", "cancelled"}
    PROVE  Marked(ch, st) \in ChangeType
  BY DEF Marked, ChangeType

-----------------------------------------------------------------------------
(* What the larger actions do to the plan, without the schedules.          *)

\* A generated plan: a new generation whose tasks end by the deadline.
LEMMA GenerateEffect ==
    ASSUME TypeOK, GeneratePlan
    PROVE  \E g \in Gens, rs \in SUBSET Rows, dr \in DraftType :
              /\ NewGen(g)
              /\ rows' = [rows EXCEPT ![g] = rs]
              /\ status' = [status EXCEPT ![g] = "suggested"]
              /\ draft' = [draft EXCEPT ![g] = dr]
              /\ dr.source = "ai" /\ dr.change = None
              /\ \A r \in rs : r.day <= planEnd
  <1> USE ConstantsAssumption DEF ConstantsAssumption, TypeOK, Days, None
  <1>1. PICK g \in Gens, codes \in SUBSET Codes, sug \in {planEnd, planEnd + 1} :
          /\ NewGen(g)
          /\ \E s \in Schedules(StartDay..planEnd, codes) :
               rows' = [rows EXCEPT ![g] = RowsOn(s, StartDay..planEnd, "plan")]
          /\ status' = [status EXCEPT ![g] = "suggested"]
          /\ draft' = [draft EXCEPT ![g] = [source |-> "ai", codes |-> codes,
                           req |-> planEnd, sug |-> sug, change |-> None]]
    BY DEF GeneratePlan
  <1>2. PICK s \in Schedules(StartDay..planEnd, codes) :
          rows' = [rows EXCEPT ![g] = RowsOn(s, StartDay..planEnd, "plan")]
    BY <1>1
  <1> DEFINE rs == RowsOn(s, StartDay..planEnd, "plan")
             dr == [source |-> "ai", codes |-> codes, req |-> planEnd, sug |-> sug,
                    change |-> None]
  <1>3. StartDay..planEnd \subseteq Days
    OBVIOUS
  <1>4. rs \in SUBSET Rows
    BY <1>3, RowsOnType
  <1>5. \A r \in rs : r.day <= planEnd
    BY DEF RowsOn
  <1>6. dr \in DraftType
    BY DEF DraftType
  <1>7. dr.source = "ai" /\ dr.change = None
    OBVIOUS
  <1> HIDE DEF rs, dr
  <1>8. rows' = [rows EXCEPT ![g] = rs] /\ draft' = [draft EXCEPT ![g] = dr]
    BY <1>1, <1>2 DEF rs, dr
  <1>9. QED
    BY <1>1, <1>4, <1>5, <1>6, <1>7, <1>8

\* A replan: a new generation for the job's change, in the place of every open
\* draft.  If it may be confirmed, its tasks end by the day it suggests, which is
\* after the deadline, and leave no day before it empty.
LEMMA ReplanEffect ==
    ASSUME TypeOK, JobsHaveChanges, ReplanDeadline
    PROVE  \E g \in Gens, rs \in SUBSET Rows, dr \in DraftType :
              /\ NewGen(g)
              /\ rows' = [h \in Gens |->
                     IF h = g THEN rs ELSE IF h \in OpenReplanDrafts THEN {} ELSE rows[h]]
              /\ status' = [h \in Gens |->
                     IF h = g THEN "suggested"
                     ELSE IF h \in OpenReplanDrafts THEN "superseded" ELSE status[h]]
              /\ draft' = [draft EXCEPT ![g] = dr]
              /\ dr.source = "deadline_replan" /\ dr.change = job.change
              /\ dr.sug <= dr.req => dr.sug > planEnd
              /\ dr.sug <= dr.req =>
                   /\ \A r \in rs : r.source # "defer" => r.day <= dr.sug
                   /\ \A e \in (today + 1)..dr.sug : \E r \in rs : r.day = e
  <1> USE ConstantsAssumption DEF ConstantsAssumption, TypeOK, Days, None
  <1> DEFINE req == change[job.change].new
  <1>1. job.change \in Changes /\ req \in 0..Horizon /\ active \in Gens
    BY DEF ReplanDeadline, JobsHaveChanges
  <1>2. PICK g \in Gens, sug \in 1..Horizon :
          /\ NewGen(g)
          /\ sug > planEnd \/ sug = req + 1
          /\ sug > req \/ today + 1 <= sug
          /\ \E future \in NewFuture(req, sug) :
               rows' = [h \in Gens |->
                   IF h = g THEN UpTo(rows[active], today) \cup future
                   ELSE IF h \in OpenReplanDrafts THEN {} ELSE rows[h]]
          /\ status' = [h \in Gens |->
                 IF h = g THEN "suggested"
                 ELSE IF h \in OpenReplanDrafts THEN "superseded" ELSE status[h]]
          /\ draft' = [draft EXCEPT ![g] = [source |-> "deadline_replan",
                           codes |-> draft[active].codes,
                           req |-> req, sug |-> sug, change |-> job.change]]
    BY DEF ReplanDeadline
  <1>3. PICK future \in NewFuture(req, sug) :
          rows' = [h \in Gens |->
              IF h = g THEN UpTo(rows[active], today) \cup future
              ELSE IF h \in OpenReplanDrafts THEN {} ELSE rows[h]]
    BY <1>2
  <1> DEFINE rs == UpTo(rows[active], today) \cup future
             dr == [source |-> "deadline_replan", codes |-> draft[active].codes,
                    req |-> req, sug |-> sug, change |-> job.change]
  <1>4. UpTo(rows[active], today) \subseteq Rows /\ \A r \in UpTo(rows[active], today) : r.day <= today
    BY <1>1 DEF UpTo
  <1>5. /\ rs \in SUBSET Rows
        /\ sug <= req => /\ \A r \in rs : r.source # "defer" => r.day <= sug
                         /\ \A e \in (today + 1)..sug : \E r \in rs : r.day = e
    <2>1. CASE sug > req
      <3>1. future = {[code |-> r.code, day |-> r.day, source |-> "held"] :
                         r \in Future(active, today)}
        BY <2>1, <1>3 DEF NewFuture
      <3>2. Future(active, today) \subseteq Rows
        BY <1>1 DEF Future
      <3>3. future \subseteq Rows
        BY <3>1, <3>2 DEF Rows
      <3>4. QED
        BY <1>1, <1>4, <2>1, <3>3
    <2>2. CASE ~(sug > req)
      <3>1. PICK s \in Schedules((today + 1)..sug, Incomplete(active, finished[active])) :
              future = RowsOn(s, (today + 1)..sug, "plan")
        BY <1>3, <2>2 DEF NewFuture
      <3>2. (today + 1)..sug \subseteq Days /\ Incomplete(active, finished[active]) \subseteq Codes
        BY <1>1 DEF Incomplete
      <3>3. future \subseteq Rows
        BY <3>1, <3>2, RowsOnType
      <3>4. \A r \in future : r.day <= sug
        BY <3>1 DEF RowsOn
      <3>5. ASSUME NEW e \in (today + 1)..sug
            PROVE  \E r \in future : r.day = e
        <4>1. [code |-> s[e], day |-> e, source |-> "plan"] \in future
          BY <3>1, <3>5 DEF RowsOn
        <4>2. QED
          BY <4>1
      <3>6. today < sug
        BY <1>2, <2>2, <1>1
      <3>7. \A r \in rs : r.day <= sug
        <4> SUFFICES ASSUME NEW r \in rs PROVE r.day <= sug
          OBVIOUS
        <4>1. CASE r \in UpTo(rows[active], today)
          <5>1. r.day <= today /\ r.day \in Days
            BY <1>4, <4>1 DEF Rows
          <5>2. QED
            BY <5>1, <3>6
        <4>2. CASE r \in future
          BY <3>4, <4>2
        <4>3. QED
          BY <4>1, <4>2
      <3>8. QED
        BY <1>4, <3>3, <3>5, <3>7
    <2>3. QED
      BY <2>1, <2>2
  <1>6. dr \in DraftType
    BY <1>1 DEF DraftType
  <1>7. /\ dr.source = "deadline_replan" /\ dr.change = job.change
        /\ dr.sug = sug /\ dr.req = req
    OBVIOUS
  <1> HIDE DEF rs, dr, req
  <1>8. draft' = [draft EXCEPT ![g] = dr]
    BY <1>2 DEF dr, req
  <1>9. rows' = [h \in Gens |->
           IF h = g THEN rs ELSE IF h \in OpenReplanDrafts THEN {} ELSE rows[h]]
    BY <1>3 DEF rs
  <1>10. /\ dr.sug <= dr.req => dr.sug > planEnd
         /\ dr.sug <= dr.req =>
              /\ \A r \in rs : r.source # "defer" => r.day <= dr.sug
              /\ \A e \in (today + 1)..dr.sug : \E r \in rs : r.day = e
    <2>1. req \in Int
      BY <1>1
    <2>2. sug > planEnd \/ sug = req + 1
      BY <1>2
    <2>3. sug <= req => sug > planEnd
      BY <2>1, <2>2
    <2>4. QED
      BY <1>5, <1>7, <2>3
  <1>11. QED
    <2>1. rs \in SUBSET Rows
      BY <1>5
    <2>2. NewGen(g)
      BY <1>2
    <2>3. status' = [h \in Gens |->
             IF h = g THEN "suggested"
             ELSE IF h \in OpenReplanDrafts THEN "superseded" ELSE status[h]]
      BY <1>2
    <2> USE <1>6, <1>7, <1>8, <1>9, <1>10, <2>1, <2>2, <2>3
    <2>4. QED
      OBVIOUS

\* The close of day d: nothing appears in an empty generation; every generation
\* keeps its rows and may get deferred ones, but for the active one, whose days
\* after d may be planned anew, each with a task, up to the deadline.
LEMMA CloseEffect ==
    ASSUME TypeOK, NEW d \in Days, CloseDay(d)
    PROVE  /\ rows' \in [Gens -> SUBSET Rows]
           /\ \A g \in Gens \ {active} :
                /\ rows[g] = {} => rows'[g] = {}
                /\ rows[g] \subseteq rows'[g]
                /\ \A r \in rows'[g] : r.source # "defer" => r \in rows[g]
           /\ active # None =>
                /\ \A r \in rows'[active] :
                     r.source # "defer" => r \in rows[active] \/ r.day <= planEnd
                /\ \A e \in Days : e <= planEnd /\ (\E r \in rows[active] : r.day = e)
                     => \E r \in rows'[active] : r.day = e
                /\ \A r \in Rows : r.day <= d => (r \in rows'[active] <=> r \in rows[active])
  <1> USE ConstantsAssumption DEF ConstantsAssumption, TypeOK, Days
  <1> DEFINE kept == [g \in Gens |-> rows[g] \cup Deferred(g, d)]
             fin  == IF active = None THEN finished
                     ELSE [finished EXCEPT ![active] =
                             FinishedOf(active, kept[active], ClosedEntries(d)[active])]
  <1>1. d + 1 \in Days
    BY DEF CloseDay
  <1>2. ASSUME NEW g \in Gens
        PROVE  /\ Deferred(g, d) \subseteq Rows
               /\ \A r \in Deferred(g, d) : r.source = "defer" /\ r.day = d + 1
               /\ rows[g] = {} => Deferred(g, d) = {}
    <2>1. \A r \in Deferred(g, d) : \E c \in Codes :
            /\ On(g, c, d)
            /\ r = [code |-> c, day |-> d + 1, source |-> "defer"]
      BY <1>2 DEF Deferred, Undone
    <2>2. \A c \in Codes : rows[g] = {} => ~On(g, c, d)
      BY DEF On
    <2>3. QED
      BY <1>1, <2>1, <2>2 DEF Rows
  <1>3. /\ kept \in [Gens -> SUBSET Rows]
        /\ \A g \in Gens : /\ rows[g] \subseteq kept[g]
                           /\ \A r \in kept[g] : r \in rows[g] \/ (r.source = "defer" /\ r.day = d + 1)
                           /\ rows[g] = {} => kept[g] = {}
    BY <1>2
  <1> HIDE DEF kept
  <1>4. \/ rows' = kept
        \/ /\ active # None
           /\ \E s \in Schedules((d + 1)..planEnd, Incomplete(active, fin[active])) :
                rows' = [kept EXCEPT ![active] =
                           UpTo(@, d) \cup RowsOn(s, (d + 1)..planEnd, "plan")]
    BY DEF CloseDay, kept, fin
  <1>5. CASE rows' = kept
    <2>1. d \in Nat /\ (active # None => active \in Gens)
      OBVIOUS
    <2>2. \A g \in Gens : \A r \in kept[g] : r.day <= d => r \in rows[g]
      BY <1>3, <2>1
    <2>3. QED
      BY <1>3, <1>5, <2>1, <2>2
  <1>6. CASE active # None /\ rows' # kept
    <2>1. active \in Gens
      BY <1>6
    <2>2. PICK s \in Schedules((d + 1)..planEnd, Incomplete(active, fin[active])) :
            rows' = [kept EXCEPT ![active] =
                       UpTo(@, d) \cup RowsOn(s, (d + 1)..planEnd, "plan")]
      BY <1>4, <1>6
    <2> DEFINE new == RowsOn(s, (d + 1)..planEnd, "plan")
    <2>3. new \subseteq Rows
      <3>1. (d + 1)..planEnd \subseteq Days /\ Incomplete(active, fin[active]) \subseteq Codes
        BY <2>1 DEF Incomplete
      <3>2. QED
        BY <3>1, <2>2, RowsOnType
    <2>4. \A r \in new : d < r.day /\ r.day <= planEnd
      BY DEF RowsOn
    <2>5. ASSUME NEW e \in (d + 1)..planEnd
          PROVE  \E r \in new : r.day = e
      <3>1. [code |-> s[e], day |-> e, source |-> "plan"] \in new
        BY <2>5 DEF RowsOn
      <3>2. QED
        BY <3>1
    <2> HIDE DEF new
    <2>6. /\ rows'[active] = UpTo(kept[active], d) \cup new
          /\ \A g \in Gens \ {active} : rows'[g] = kept[g]
      BY <2>1, <2>2, <1>3 DEF new
    <2>7. rows' \in [Gens -> SUBSET Rows]
      BY <2>1, <2>2, <2>3, <1>3 DEF new, UpTo
    <2>8. \A g \in Gens \ {active} :
            /\ rows[g] = {} => rows'[g] = {}
            /\ rows[g] \subseteq rows'[g]
            /\ \A r \in rows'[g] : r.source # "defer" => r \in rows[g]
      BY <2>6, <1>3
    <2>9. \A r \in rows'[active] : r.source # "defer" => r \in rows[active] \/ r.day <= planEnd
      BY <2>1, <2>4, <2>6, <1>3 DEF UpTo
    <2>10. ASSUME NEW e \in Days, e <= planEnd, NEW r \in rows[active], r.day = e
           PROVE  \E q \in rows'[active] : q.day = e
      <3>1. CASE e <= d
        BY <3>1, <2>1, <2>6, <2>10, <1>3 DEF UpTo
      <3>2. CASE ~(e <= d)
        <4>1. e \in (d + 1)..planEnd
          BY <3>2, <2>10
        <4>2. PICK q \in new : q.day = e
          BY <4>1, <2>5
        <4>3. QED
          BY <4>2, <2>6
      <3>3. QED
        BY <3>1, <3>2
    <2>11. ASSUME NEW r \in Rows, r.day <= d
           PROVE  r \in rows'[active] <=> r \in rows[active]
      BY <2>1, <2>4, <2>6, <2>11, <1>1, <1>3 DEF UpTo, Rows
    <2>12. QED
      BY <2>7, <2>8, <2>9, <2>10, <2>11
  <1>7. QED
    BY <1>4, <1>5, <1>6

\* The deadline that confirming a draft sets is the day the draft suggests.
LEMMA AppliesSug ==
    ASSUME TypeOK, DraftsHaveChanges, DraftsGoFurther,
           NEW g \in Gens, Confirmable(g), AppliesChange(g)
    PROVE  AppliedEnd(g) = draft[g].sug /\ draft[g].sug \in Days /\ draft[g].change \in Changes
  <1>1. draft[g].sug > planEnd /\ draft[g].sug <= draft[g].req
    BY DEF DraftsGoFurther, IsOpenReplan, AppliesChange, Confirmable
  <1>2. draft[g].sug \in Int /\ draft[g].req \in 0..Horizon /\ planEnd \in 1..Horizon
    BY DEF TypeOK, Days
  <1>3. AppliedEnd(g) = draft[g].sug
    BY <1>1, <1>2 DEF AppliedEnd
  <1>4. draft[g].sug \in Days
    BY <1>1, <1>2, ConstantsAssumption DEF ConstantsAssumption, Days
  <1>5. draft[g].change \in Changes
    BY DEF DraftsHaveChanges, AppliesChange
  <1>6. QED
    BY <1>3, <1>4, <1>5

\* Confirming draft g: it takes the active plan's place, whose rows go; the
\* others lose at most rows after the day g suggests; and if g's change was not
\* taken back, that day is the new deadline.
LEMMA ConfirmEffect ==
    ASSUME TypeOK, OneActivePlan, DraftsHaveChanges, DraftsGoFurther,
           NEW g \in Gens, Confirm(g)
    PROVE  /\ g # active /\ status[g] = "suggested" /\ draft[g].sug <= draft[g].req
           /\ status' = [h \in Gens |-> IF h = g THEN "active"
                                        ELSE IF h = active THEN "superseded" ELSE status[h]]
           /\ active' = g
           /\ rows' \in [Gens -> SUBSET Rows]
           /\ \A h \in Gens : rows'[h] \subseteq rows[h]
           /\ active # None => rows'[active] = {}
           /\ \A h \in Gens \ {active} : \A r \in rows[h] :
                draft[g].source = "ai" \/ r.day <= draft[g].sug => r \in rows'[h]
           /\ IF AppliesChange(g)
              THEN /\ planEnd' = draft[g].sug /\ draft[g].sug \in Days
                   /\ change' = [change EXCEPT ![draft[g].change] =
                          [status |-> "applied", new |-> @.new, applied |-> draft[g].sug]]
              ELSE planEnd' = planEnd /\ change' = change
  <1> USE DEF TypeOK, Confirm, Confirmable, None
  <1>1. g # active
    <2>1. g # None
      BY ConstantsAssumption DEF ConstantsAssumption, Gens
    <2>2. QED
      BY <2>1 DEF OneActivePlan
  <1>2. \A h \in Gens : h \in Replaced <=> h = active
    BY DEF Replaced, Gens
  <1>3. \A r \in UNION {rows[h] : h \in Gens} :
          draft[g].source = "ai" \/ r.day <= draft[g].sug => r.day \notin PurgedTail(g)
    <2> SUFFICES ASSUME NEW h \in Gens, NEW r \in rows[h],
                        draft[g].source = "ai" \/ r.day <= draft[g].sug
                 PROVE  r.day \notin PurgedTail(g)
      OBVIOUS
    <2>1. r.day \in Int /\ draft[g].sug \in Int
      BY DEF Rows, Days
    <2>2. QED
      BY <2>1 DEF PurgedTail
  <1>4. CASE Replaced = {}
    <2>1. active = None
      BY <1>4 DEF Replaced
    <2>2. rows' = rows
      BY <1>4
    <2>3. QED
      BY <1>1, <1>2, <2>1, <2>2, AppliesSug DEF Gens
  <1>5. CASE Replaced # {}
    <2>1. rows' = [h \in Gens |-> IF h = active THEN {}
                                  ELSE {r \in rows[h] : r.day \notin PurgedTail(g)}]
      BY <1>2, <1>5
    <2>2. QED
      BY <1>1, <1>2, <1>3, <2>1, AppliesSug
  <1>6. QED
    BY <1>4, <1>5

-----------------------------------------------------------------------------
(* The invariant is inductive.                                             *)

\* A new goal satisfies the invariant.
LEMMA InitIInv == Init => IInv
  <1> SUFFICES ASSUME Init PROVE IInv
    OBVIOUS
  <1> USE ConstantsAssumption DEF ConstantsAssumption, Init, None
  <1>1. TypeOK
    BY InitTypeOK
  <1>2. OneActivePlan /\ OneReplanDraft /\ RetiredPlansAreEmpty
    BY DEF OneActivePlan, OneReplanDraft, RetiredPlansAreEmpty, IsOpenReplan
  <1>3. JobsHaveChanges /\ DraftsHaveChanges /\ DraftsGoFurther /\ DraftsFit
    BY DEF JobsHaveChanges, DraftsHaveChanges, DraftsGoFurther, DraftsFit, IsOpenReplan, NoDraft
  <1>4. Applied
    BY DEF Applied, NoChange
  <1>5. PlanFitsDeadline /\ PlanReachesDeadline
    BY DEF PlanFitsDeadline, PlanReachesDeadline
  <1>6. QED
    BY <1>1, <1>2, <1>3, <1>4, <1>5 DEF IInv

\* A step that leaves the plan alone and takes no change of the deadline back
\* from where a draft needs it.
LEMMA ChangeStep ==
    ASSUME IInv, TypeOK', JobsHaveChanges', today' >= today,
           UNCHANGED <<planEnd, active, status, draft, rows>>,
           \A i \in Changes :
              /\ change'[i].applied = change[i].applied
              /\ change'[i].status = "applied" <=> change[i].status = "applied"
              /\ change[i].status = "cancelled" => change'[i].status = "cancelled"
              /\ change[i].status = "confirmed"
                   => change'[i].status \in {"confirmed", "cancelled"}
    PROVE  IInv'
  <1> USE DEF IInv
  <1>1. OneActivePlan' /\ OneReplanDraft' /\ RetiredPlansAreEmpty' /\ DraftsGoFurther'
    BY DEF OneActivePlan, OneReplanDraft, RetiredPlansAreEmpty, DraftsGoFurther, IsOpenReplan
  <1>2. DraftsHaveChanges'
    BY DEF DraftsHaveChanges, IsOpenReplan
  <1>3. Applied'
    BY DEF Applied
  <1>4. today \in Int /\ today' \in Int
    BY ConstantsAssumption DEF TypeOK, ConstantsAssumption
  <1>5. DraftsFit'
    <2> SUFFICES ASSUME NEW g \in Gens
                 PROVE  /\ status[g] = "suggested" /\ draft[g].source = "ai"
                             => EndsBy(g, planEnd)'
                        /\ IsOpenReplan(g) /\ Confirmable(g)
                             => EndsBy(g, draft[g].sug)' /\ Reaches(g, draft[g].sug)'
      BY DEF DraftsFit, IsOpenReplan, Confirmable
    <2>1. status[g] = "suggested" /\ draft[g].source = "ai" => EndsBy(g, planEnd)'
      BY DEF DraftsFit, EndsBy
    <2>2. IsOpenReplan(g) /\ Confirmable(g) => EndsBy(g, draft[g].sug)'
      BY DEF DraftsFit, EndsBy
    <2>3. (today' + 1)..draft[g].sug \subseteq (today + 1)..draft[g].sug
      BY <1>4 DEF TypeOK
    <2>4. IsOpenReplan(g) /\ Confirmable(g) => Reaches(g, draft[g].sug)'
      BY <2>3 DEF DraftsFit, Reaches
    <2>5. QED
      BY <2>1, <2>2, <2>4
  <1>6. PlanFitsDeadline'
    <2>1. active # None => draft[active].change \in Changes \cup {None}
      BY DEF TypeOK
    <2>2. QED
      BY <2>1 DEF PlanFitsDeadline
  <1>7. PlanReachesDeadline'
    BY <1>4 DEF PlanReachesDeadline
  <1>8. QED
    BY <1>1, <1>2, <1>3, <1>5, <1>6, <1>7

\* The steps that touch neither generations nor changes of the deadline.
LEMMA FrameStep ==
    ASSUME IInv, \/ JobFails \/ Regenerate \/ Archive \/ NextDay
                 \/ \E g \in Gens, c \in Codes : DayStep(g, c)
                 \/ UNCHANGED vars
    PROVE  IInv'
  <1> USE DEF IInv, vars, planVars
  <1>1. CASE JobFails \/ Regenerate \/ Archive
    <2>1. TypeOK'
      BY <1>1 DEF JobFails, Regenerate, Archive, NoJob, TypeOK
    <2>2. JobsHaveChanges'
      BY <1>1 DEF JobFails, Regenerate, Archive, NoJob, JobsHaveChanges, IsOpenReplan
    <2>3. today' >= today
      BY <1>1, ConstantsAssumption DEF JobFails, Regenerate, Archive, TypeOK, ConstantsAssumption
    <2>4. QED
      BY <1>1, <2>1, <2>2, <2>3, ChangeStep DEF JobFails, Regenerate, Archive
  <1>2. CASE NextDay
    <2>1. TypeOK' /\ today' >= today
      BY <1>2, ConstantsAssumption DEF NextDay, TypeOK, ConstantsAssumption
    <2>2. JobsHaveChanges'
      BY <1>2 DEF NextDay, JobsHaveChanges, IsOpenReplan
    <2>3. QED
      BY <1>2, <2>1, <2>2, ChangeStep DEF NextDay
  <1>3. ASSUME NEW g \in Gens, NEW c \in Codes, DayStep(g, c)
        PROVE  IInv'
    <2>1. PICK s \in {"done", "pending", "not_done"} : Report(g, c, s)
      BY <1>3 DEF DayStep, CompleteToday, UncompleteToday, IncompleteToday
    <2>2. entry' \in [Gens -> [Slots -> {"none", "pending", "not_done", "done"}]]
      <3>1. entry' = [entry EXCEPT ![g] = [@ EXCEPT ![<<c, today>>] = s]]
        BY <2>1 DEF Report
      <3>2. [entry[g] EXCEPT ![<<c, today>>] = s]
              \in [Slots -> {"none", "pending", "not_done", "done"}]
        BY <2>1 DEF TypeOK
      <3>3. QED
        BY <3>1, <3>2 DEF TypeOK
    <2>3. TypeOK'
      BY <2>1, <2>2 DEF Report, TypeOK
    <2>4. JobsHaveChanges'
      BY <2>1 DEF Report, JobsHaveChanges, IsOpenReplan
    <2>5. today' >= today
      BY <2>1, ConstantsAssumption DEF Report, TypeOK, ConstantsAssumption
    <2>6. QED
      BY <2>1, <2>3, <2>4, <2>5, ChangeStep DEF Report
  <1>4. CASE UNCHANGED vars
    <2>1. TypeOK'
      BY <1>4 DEF TypeOK
    <2>2. JobsHaveChanges'
      BY <1>4 DEF JobsHaveChanges, IsOpenReplan
    <2>3. today' >= today
      BY <1>4, ConstantsAssumption DEF TypeOK, ConstantsAssumption
    <2>4. QED
      BY <1>4, <2>1, <2>2, <2>3, ChangeStep
  <1>5. QED
    BY <1>1, <1>2, <1>3, <1>4

\* Asking for another deadline, confirming that and taking it back.
LEMMA RequestStep ==
    ASSUME IInv, \/ \E new \in Days : PlanEdit(new) \/ AskDeadline(new)
                 \/ \E i \in Changes : ConfirmDeadline(i) \/ CancelDeadline(i)
    PROVE  IInv'
  <1> USE DEF IInv, planVars
  <1>1. change \in [Changes -> ChangeType]
    BY DEF TypeOK, ChangeType
  <1>2. today' = today /\ today' >= today
    BY ConstantsAssumption
       DEF PlanEdit, AskDeadline, ConfirmDeadline, CancelDeadline, TypeOK, ConstantsAssumption
  <1>3. ASSUME NEW i \in Changes, NEW new \in Days, NEW st \in {"pending", "confirmed"},
               change[i].status = "none",
               change' = [change EXCEPT ![i] = [status |-> st, new |-> new, applied |-> 0]],
               job' = job \/ (st = "confirmed" /\ job' = [type |-> "deadline_replan", change |-> i]),
               UNCHANGED <<today, goal, planEnd, active, planVars, closed>>
        PROVE  IInv'
    <2>1. [status |-> st, new |-> new, applied |-> 0] \in ChangeType
      BY ConstantsAssumption DEF ChangeType, Days, ConstantsAssumption
    <2>2. change' \in [Changes -> ChangeType]
      BY <1>1, <1>3, <2>1
    <2>3. TypeOK'
      BY <1>3, <2>2 DEF TypeOK, ChangeType
    <2>4. change'[i].applied = change[i].applied
      BY <1>3, <1>1 DEF Applied
    <2>5. JobsHaveChanges'
      BY <1>1, <1>3 DEF JobsHaveChanges, DraftsHaveChanges, IsOpenReplan
    <2>6. QED
      BY <1>1, <1>2, <1>3, <2>3, <2>4, <2>5, ChangeStep
  <1>4. ASSUME NEW i \in Changes, NEW st \in {"confirmed", "cancelled"},
               change[i].status \in {"pending", "confirmed"},
               st = "confirmed" => change[i].status = "pending",
               change' = [change EXCEPT ![i] = Marked(@, st)],
               job' = job \/ (st = "confirmed" /\ job' = [type |-> "deadline_replan", change |-> i]),
               st = "confirmed" => job' = [type |-> "deadline_replan", change |-> i],
               UNCHANGED <<today, goal, planEnd, active, planVars, closed>>
        PROVE  IInv'
    <2>1. change' \in [Changes -> ChangeType]
      BY <1>1, <1>4, MarkedType
    <2>2. TypeOK'
      BY <1>4, <2>1 DEF TypeOK, ChangeType
    <2>3. change'[i].status = st /\ change'[i].applied = change[i].applied
      BY <1>1, <1>4 DEF Marked
    <2>4. \A k \in Changes \ {i} : change'[k] = change[k]
      BY <1>1, <1>4
    <2>5. JobsHaveChanges'
      BY <1>4, <2>3, <2>4 DEF JobsHaveChanges, DraftsHaveChanges, IsOpenReplan
    <2>6. QED
      BY <1>2, <1>4, <2>2, <2>3, <2>4, <2>5, ChangeStep
  <1>5. ASSUME NEW new \in Days, PlanEdit(new) \/ AskDeadline(new) PROVE IInv'
    BY <1>3, <1>5 DEF PlanEdit, AskDeadline, NewChange
  <1>6. ASSUME NEW i \in Changes, ConfirmDeadline(i) \/ CancelDeadline(i) PROVE IInv'
    <2>1. change[i].status # "failed"
      BY <1>1 DEF ChangeType
    <2>2. QED
      BY <1>4, <1>6, <2>1 DEF ConfirmDeadline, CancelDeadline
  <1>7. QED
    BY <1>5, <1>6

\* run_wbs_generate: the new draft has a row only up to the deadline.
LEMMA GenerateStep == ASSUME IInv, GeneratePlan PROVE IInv'
  <1> USE DEF IInv
  <1>1. PICK g \in Gens, rs \in SUBSET Rows, dr \in DraftType :
           /\ NewGen(g)
           /\ rows' = [rows EXCEPT ![g] = rs]
           /\ status' = [status EXCEPT ![g] = "suggested"]
           /\ draft' = [draft EXCEPT ![g] = dr]
           /\ dr.source = "ai" /\ dr.change = None
           /\ \A r \in rs : r.day <= planEnd
    BY GenerateEffect
  <1>2. status[g] = "none" /\ g # active
    <2>1. g # None
      BY ConstantsAssumption DEF ConstantsAssumption, Gens, None
    <2>2. QED
      BY <1>1, <2>1 DEF NewGen, OneActivePlan
  <1>3. UNCHANGED <<today, goal, planEnd, active, entry, finished, change, closed>> /\ job' = NoJob
    BY DEF GeneratePlan
  <1>4. TypeOK'
    BY <1>1, <1>3 DEF TypeOK, NoJob, DraftType
  <1>5. /\ rows'[g] = rs /\ status'[g] = "suggested" /\ draft'[g] = dr
        /\ \A h \in Gens \ {g} :
             rows'[h] = rows[h] /\ status'[h] = status[h] /\ draft'[h] = draft[h]
    BY <1>1 DEF TypeOK
  <1>6. \A h \in Gens : IsOpenReplan(h)' => h # g /\ IsOpenReplan(h)
    BY <1>1, <1>5 DEF IsOpenReplan
  <1>7. active # None => active \in Gens \ {g}
    BY <1>2 DEF TypeOK
  <1>8. OneActivePlan' /\ OneReplanDraft' /\ RetiredPlansAreEmpty'
    BY <1>2, <1>3, <1>5, <1>6, <1>7 DEF OneActivePlan, OneReplanDraft, RetiredPlansAreEmpty
  <1>9. JobsHaveChanges' /\ Applied'
    BY <1>3 DEF JobsHaveChanges, NoJob, Applied
  <1>10. DraftsHaveChanges'
    BY <1>1, <1>3, <1>5, <1>6 DEF DraftsHaveChanges
  <1>11. DraftsGoFurther'
    BY <1>3, <1>5, <1>6 DEF DraftsGoFurther
  <1>12. DraftsFit'
    BY <1>1, <1>3, <1>5, <1>6 DEF DraftsFit, EndsBy, Reaches, Confirmable
  <1>13. PlanFitsDeadline' /\ PlanReachesDeadline'
    BY <1>3, <1>5, <1>7 DEF PlanFitsDeadline, PlanReachesDeadline
  <1>14. QED
    BY <1>4, <1>8, <1>9, <1>10, <1>11, <1>12, <1>13

\* run_llm_replan: the new draft is the only open one, and the job's change is its own.
LEMMA ReplanStep == ASSUME IInv, ReplanDeadline PROVE IInv'
  <1> USE DEF IInv
  <1>1. PICK g \in Gens, rs \in SUBSET Rows, dr \in DraftType :
           /\ NewGen(g)
           /\ rows' = [h \in Gens |->
                  IF h = g THEN rs ELSE IF h \in OpenReplanDrafts THEN {} ELSE rows[h]]
           /\ status' = [h \in Gens |->
                  IF h = g THEN "suggested"
                  ELSE IF h \in OpenReplanDrafts THEN "superseded" ELSE status[h]]
           /\ draft' = [draft EXCEPT ![g] = dr]
           /\ dr.source = "deadline_replan" /\ dr.change = job.change
           /\ dr.sug <= dr.req => dr.sug > planEnd
           /\ dr.sug <= dr.req =>
                /\ \A r \in rs : r.source # "defer" => r.day <= dr.sug
                /\ \A e \in (today + 1)..dr.sug : \E r \in rs : r.day = e
    BY ReplanEffect
  <1>2. /\ job.type = "deadline_replan" /\ active # None /\ job' = NoJob
        /\ UNCHANGED <<today, goal, planEnd, active, entry, change, closed>>
        /\ finished' \in [Gens -> SUBSET Codes]
    BY DEF ReplanDeadline, TypeOK
  <1>3. /\ job.change \in Changes
        /\ change[job.change].status \in {"confirmed", "cancelled"}
    BY <1>2 DEF JobsHaveChanges
  <1>4. /\ active \in Gens /\ status[active] = "active" /\ g # active
        /\ active \notin OpenReplanDrafts
    BY <1>1, <1>2 DEF TypeOK, OneActivePlan, NewGen, OpenReplanDrafts, IsOpenReplan
  <1>5. TypeOK'
    BY <1>1, <1>2 DEF TypeOK, NoJob, DraftType
  <1>6. /\ rows'[g] = rs /\ status'[g] = "suggested" /\ draft'[g] = dr
        /\ \A h \in Gens \ {g} :
             /\ draft'[h] = draft[h]
             /\ ~IsOpenReplan(h) => rows'[h] = rows[h] /\ status'[h] = status[h]
             /\ IsOpenReplan(h) => rows'[h] = {} /\ status'[h] = "superseded"
    BY <1>1 DEF TypeOK, OpenReplanDrafts
  <1>7. \A h \in Gens : IsOpenReplan(h)' => h = g
    BY <1>6 DEF IsOpenReplan
  <1>8. \A h \in Gens \ {g} : status'[h] \in {"suggested", "active"}
          => rows'[h] = rows[h] /\ status'[h] = status[h] /\ draft'[h] = draft[h]
    BY <1>6
  <1>9. OneActivePlan' /\ OneReplanDraft' /\ RetiredPlansAreEmpty'
    BY <1>2, <1>4, <1>6, <1>7
       DEF OneActivePlan, OneReplanDraft, RetiredPlansAreEmpty, OpenReplanDrafts
  <1>10. JobsHaveChanges' /\ Applied'
    BY <1>2 DEF JobsHaveChanges, NoJob, Applied
  <1>11. DraftsHaveChanges'
    BY <1>1, <1>2, <1>3, <1>6, <1>7, <1>8 DEF DraftsHaveChanges
  <1>12. DraftsGoFurther'
    BY <1>1, <1>2, <1>6, <1>7 DEF DraftsGoFurther
  <1>13. DraftsFit'
    BY <1>1, <1>2, <1>6, <1>7, <1>8 DEF DraftsFit, EndsBy, Reaches, Confirmable
  <1>14. /\ active' = active /\ draft'[active] = draft[active]
         /\ rows'[active] = rows[active]
    BY <1>2, <1>4, <1>6 DEF OpenReplanDrafts
  <1>15. PlanFitsDeadline' /\ PlanReachesDeadline'
    BY <1>2, <1>14 DEF PlanFitsDeadline, PlanReachesDeadline
  <1>16. QED
    BY <1>5, <1>9, <1>10, <1>11, <1>12, <1>13, <1>15

\* cancel_generation: a draft that is not the active plan goes, with its rows.
LEMMA CancelDraftStep == ASSUME IInv, NEW g \in Gens, CancelDraft(g) PROVE IInv'
  <1> USE DEF IInv
  <1>1. /\ status[g] = "suggested"
        /\ UNCHANGED <<today, goal, planEnd, active, draft, entry, finished, change, job, closed>>
    BY DEF CancelDraft, IsOpenReplan
  <1>2. /\ rows'[g] = {} /\ status'[g] = "cancelled"
        /\ \A h \in Gens \ {g} : rows'[h] = rows[h] /\ status'[h] = status[h]
    BY DEF CancelDraft, TypeOK
  <1>3. TypeOK'
    BY DEF CancelDraft, TypeOK
  <1>4. active # None => active \in Gens \ {g}
    BY <1>1 DEF TypeOK, OneActivePlan
  <1>5. \A h \in Gens : IsOpenReplan(h)' => h # g /\ IsOpenReplan(h)
    BY <1>1, <1>2 DEF IsOpenReplan
  <1>6. OneActivePlan' /\ OneReplanDraft' /\ RetiredPlansAreEmpty'
    BY <1>1, <1>2, <1>4, <1>5 DEF OneActivePlan, OneReplanDraft, RetiredPlansAreEmpty
  <1>7. JobsHaveChanges' /\ DraftsHaveChanges' /\ DraftsGoFurther' /\ Applied'
    BY <1>1, <1>2, <1>5 DEF JobsHaveChanges, DraftsHaveChanges, DraftsGoFurther, Applied
  <1>8. DraftsFit'
    BY <1>1, <1>2, <1>5 DEF DraftsFit, EndsBy, Reaches, Confirmable
  <1>9. PlanFitsDeadline' /\ PlanReachesDeadline'
    BY <1>1, <1>2, <1>4 DEF PlanFitsDeadline, PlanReachesDeadline
  <1>10. QED
    BY <1>3, <1>6, <1>7, <1>8, <1>9

\* _close_goal_day: only the active plan is planned anew, and then to the deadline.
LEMMA CloseStep == ASSUME IInv, NEW d \in Days, CloseDay(d) PROVE IInv'
  <1> USE DEF IInv
  <1>1. UNCHANGED <<today, goal, planEnd, active, status, draft, change, job>>
    BY DEF CloseDay
  <1>2. TypeOK'
    <2>1. rows' \in [Gens -> SUBSET Rows]
      BY CloseEffect
    <2>2. entry' \in [Gens -> [Slots -> {"none", "pending", "not_done", "done"}]]
      BY DEF CloseDay, ClosedEntries, TypeOK
    <2>3. finished' \in [Gens -> SUBSET Codes]
      <3>1. ASSUME NEW rs, NEW es, active # None
            PROVE  FinishedOf(active, rs, es) \subseteq Codes
        BY <3>1 DEF FinishedOf, TypeOK
      <3>2. QED
        BY <3>1 DEF CloseDay, TypeOK
    <2>4. closed' \in [Days -> 0..LastToday]
      BY DEF CloseDay, TypeOK
    <2>5. QED
      BY <1>1, <2>1, <2>2, <2>3, <2>4 DEF TypeOK
  <1>3. \A g \in Gens : status[g] # "active" => g \in Gens \ {active}
    BY ConstantsAssumption DEF ConstantsAssumption, OneActivePlan, Gens, None
  <1>4. OneActivePlan' /\ OneReplanDraft'
    BY <1>1 DEF OneActivePlan, OneReplanDraft, IsOpenReplan
  <1>5. RetiredPlansAreEmpty'
    BY <1>1, <1>3, CloseEffect DEF RetiredPlansAreEmpty
  <1>6. JobsHaveChanges' /\ DraftsHaveChanges' /\ DraftsGoFurther' /\ Applied'
    BY <1>1 DEF JobsHaveChanges, DraftsHaveChanges, DraftsGoFurther, Applied, IsOpenReplan
  <1>7. DraftsFit'
    <2> SUFFICES ASSUME NEW g \in Gens, status[g] = "suggested"
                 PROVE  /\ draft[g].source = "ai" => EndsBy(g, planEnd)'
                        /\ IsOpenReplan(g) /\ Confirmable(g)
                             => EndsBy(g, draft[g].sug)' /\ Reaches(g, draft[g].sug)'
      BY <1>1 DEF DraftsFit, IsOpenReplan, Confirmable
    <2>1. /\ rows[g] \subseteq rows'[g]
          /\ \A r \in rows'[g] : r.source # "defer" => r \in rows[g]
      BY <1>3, CloseEffect
    <2>2. QED
      BY <1>1, <2>1 DEF DraftsFit, EndsBy, Reaches
  <1>8. PlanFitsDeadline'
    BY <1>1, CloseEffect DEF PlanFitsDeadline
  <1>9. PlanReachesDeadline'
    <2>1. ASSUME NEW e \in (today + 1)..planEnd PROVE e \in Days /\ e <= planEnd
      BY <2>1, ConstantsAssumption DEF TypeOK, Days, ConstantsAssumption
    <2>2. QED
      BY <1>1, <2>1, CloseEffect DEF PlanReachesDeadline
  <1>10. QED
    BY <1>2, <1>4, <1>5, <1>6, <1>7, <1>8, <1>9

\* confirm_generation: the deadline moves to where the draft's rows end, or, when its
\* change was taken back, stays before that day; no other open draft is left to contradict it.
LEMMA ConfirmStep == ASSUME IInv, NEW g \in Gens, Confirm(g) PROVE IInv'
  <1> USE DEF IInv
  <1>1. /\ g # active /\ status[g] = "suggested" /\ draft[g].sug <= draft[g].req
        /\ status' = [h \in Gens |-> IF h = g THEN "active"
                                     ELSE IF h = active THEN "superseded" ELSE status[h]]
        /\ active' = g
        /\ rows' \in [Gens -> SUBSET Rows]
        /\ \A h \in Gens : rows'[h] \subseteq rows[h]
        /\ active # None => rows'[active] = {}
        /\ \A h \in Gens \ {active} : \A r \in rows[h] :
             draft[g].source = "ai" \/ r.day <= draft[g].sug => r \in rows'[h]
    BY ConfirmEffect
  <1>2. IF AppliesChange(g)
        THEN /\ planEnd' = draft[g].sug /\ draft[g].sug \in Days
             /\ change' = [change EXCEPT ![draft[g].change] =
                    [status |-> "applied", new |-> @.new, applied |-> draft[g].sug]]
        ELSE planEnd' = planEnd /\ change' = change
    BY ConfirmEffect
  <1>3. UNCHANGED <<today, draft, finished, job, closed>>
    BY DEF Confirm
  <1>4. g # None
    BY ConstantsAssumption DEF ConstantsAssumption, Gens, None
  <1>5. AppliesChange(g) =>
          /\ IsOpenReplan(g) /\ draft[g].change \in Changes
          /\ change'[draft[g].change].status = "applied"
          /\ change'[draft[g].change].applied = draft[g].sug
          /\ change[draft[g].change].status = "confirmed"
          /\ \A i \in Changes \ {draft[g].change} : change'[i] = change[i]
    <2> SUFFICES ASSUME AppliesChange(g)
                 PROVE  /\ IsOpenReplan(g) /\ draft[g].change \in Changes
                        /\ change'[draft[g].change].status = "applied"
                        /\ change'[draft[g].change].applied = draft[g].sug
                        /\ change[draft[g].change].status = "confirmed"
                        /\ \A i \in Changes \ {draft[g].change} : change'[i] = change[i]
      OBVIOUS
    <2>1. IsOpenReplan(g) /\ draft[g].change \in Changes
      BY <1>1 DEF IsOpenReplan, AppliesChange, DraftsHaveChanges
    <2>2. QED
      BY <1>2, <2>1 DEF AppliesChange, TypeOK
  <1>6. draft[g].sug > planEnd \/ ~IsOpenReplan(g)
    BY <1>1 DEF DraftsGoFurther
  <1>7. planEnd \in Int /\ planEnd' \in Int /\ planEnd' >= planEnd
    BY <1>2, <1>5, <1>6, ConstantsAssumption DEF TypeOK, Days, ConstantsAssumption
  <1>8. TypeOK'
    <2>1. planEnd' \in Days /\ change' \in [Changes -> ChangeType]
      <3>1. CASE AppliesChange(g)
        <4>1. [status |-> "applied", new |-> change[draft[g].change].new,
               applied |-> draft[g].sug] \in ChangeType
          BY <1>2, <1>5, <3>1, ConstantsAssumption
             DEF TypeOK, ChangeType, Days, ConstantsAssumption
        <4>2. QED
          BY <1>2, <3>1, <4>1 DEF TypeOK, ChangeType
      <3>2. CASE ~AppliesChange(g)
        BY <1>2, <3>2 DEF TypeOK, ChangeType
      <3>3. QED
        BY <3>1, <3>2
    <2>2. entry' \in [Gens -> [Slots -> {"none", "pending", "not_done", "done"}]]
      <3>1. CASE entry' = entry
        BY <3>1 DEF TypeOK
      <3>2. CASE entry' = MigratedEntries(active, g) /\ active \in Gens
        <4> DEFINE Reports == [Slots -> {"none", "pending", "not_done", "done"}]
                   shared == draft[active].codes \cap draft[g].codes
                   left == [x \in Slots |-> IF x[1] \in shared THEN "none" ELSE entry[active][x]]
                   taken == [x \in Slots |-> IF x[1] \in shared /\ entry[g][x] = "none"
                                            THEN entry[active][x] ELSE entry[g][x]]
        <4>1. entry[active] \in Reports /\ entry[g] \in Reports
          BY <3>2 DEF TypeOK
        <4>2. left \in Reports /\ taken \in Reports
          BY <4>1
        <4>3. entry' = [entry EXCEPT ![active] = left, ![g] = taken]
          BY <1>1, <3>2 DEF MigratedEntries, TypeOK
        <4> HIDE DEF left, taken
        <4>4. QED
          BY <4>2, <4>3 DEF TypeOK
      <3>3. Replaced # {} => active \in Gens
        BY DEF Replaced, TypeOK
      <3>4. QED
        BY <3>1, <3>2, <3>3 DEF Confirm
    <2>3. status' \in [Gens -> {"none", "suggested", "active", "superseded", "cancelled"}]
      BY <1>1 DEF TypeOK
    <2>4. goal' \in {"draft", "planning", "active", "cancelled"}
      BY DEF Confirm
    <2>5. QED
      BY <1>1, <1>3, <2>1, <2>2, <2>3, <2>4 DEF TypeOK, ChangeType
  <1>9. \A h \in Gens : IsOpenReplan(h)' =>
          /\ IsOpenReplan(h) /\ h # g /\ h # active
          /\ ~IsOpenReplan(g)
    BY <1>1, <1>3 DEF IsOpenReplan, OneReplanDraft
  <1>10. ~IsOpenReplan(g) => draft[g].source = "ai"
    BY <1>1 DEF IsOpenReplan, DraftsHaveChanges, TypeOK
  <1>11. ~IsOpenReplan(g) => planEnd' = planEnd /\ change' = change
    BY <1>2, <1>5
  <1>12. OneActivePlan' /\ OneReplanDraft'
    BY <1>1, <1>9 DEF OneActivePlan, OneReplanDraft
  <1>13. RetiredPlansAreEmpty'
    <2>1. ASSUME NEW h \in Gens, status'[h] \in {"none", "superseded", "cancelled"}
          PROVE  rows'[h] = {}
      <3>1. h = active \/ status[h] \in {"none", "superseded", "cancelled"}
        BY <1>1, <2>1
      <3>2. h = active => active # None
        BY ConstantsAssumption DEF ConstantsAssumption, Gens, None
      <3>3. QED
        BY <1>1, <3>1, <3>2 DEF RetiredPlansAreEmpty
    <2>2. QED
      BY <2>1 DEF RetiredPlansAreEmpty
  <1>14. JobsHaveChanges'
    BY <1>2, <1>3, <1>5, <1>9 DEF JobsHaveChanges
  <1>15. DraftsHaveChanges'
    <2>1. \A h \in Gens : /\ status'[h] \in {"suggested", "active"} => draft[h].source # "none"
                          /\ draft[h].source = "deadline_replan" => draft[h].change \in Changes
                          /\ draft[h].source = "ai" => draft[h].change = None
      BY <1>1 DEF DraftsHaveChanges
    <2>2. \A h \in Gens : IsOpenReplan(h)'
            => change'[draft[h].change].status \in {"confirmed", "cancelled"}
      BY <1>9, <1>11 DEF DraftsHaveChanges
    <2>3. draft[g].source = "deadline_replan"
            => change'[draft[g].change].status \in {"applied", "cancelled"}
      BY <1>1, <1>2, <1>5 DEF DraftsHaveChanges, IsOpenReplan, AppliesChange
    <2>4. \A h \in Gens : status'[h] = "active" => h = g
      BY <1>1 DEF OneActivePlan
    <2>5. QED
      BY <1>3, <2>1, <2>2, <2>3, <2>4 DEF DraftsHaveChanges
  <1>16. DraftsGoFurther'
    BY <1>3, <1>9, <1>11 DEF DraftsGoFurther
  <1>17. Applied'
    <2>1. CASE AppliesChange(g)
      <3>1. \A i \in Changes : change[i].applied \in Int
        BY DEF TypeOK
      <3>2. QED
        BY <1>2, <1>5, <1>6, <1>7, <2>1, <3>1, ConstantsAssumption
           DEF Applied, Days, ConstantsAssumption
    <2>2. CASE ~AppliesChange(g)
      BY <1>2, <2>2 DEF Applied
    <2>3. QED
      BY <2>1, <2>2
  <1>18. DraftsFit'
    <2> SUFFICES ASSUME NEW h \in Gens, status'[h] = "suggested"
                 PROVE  /\ draft[h].source = "ai" => EndsBy(h, planEnd)'
                        /\ IsOpenReplan(h)' /\ Confirmable(h)'
                             => EndsBy(h, draft[h].sug)' /\ Reaches(h, draft[h].sug)'
      BY <1>3 DEF DraftsFit, IsOpenReplan
    <2>1. h # g /\ h # active /\ status[h] = "suggested" /\ rows'[h] \subseteq rows[h]
      BY <1>1
    <2>2. draft[h].source = "ai" => EndsBy(h, planEnd)'
      <3>1. \A r \in rows[h] : r.day \in Int
        BY DEF TypeOK, Rows, Days
      <3>2. QED
        BY <1>7, <2>1, <3>1 DEF DraftsFit, EndsBy
    <2>3. IsOpenReplan(h)' => rows'[h] = rows[h]
      BY <1>1, <1>9, <1>10, <2>1
    <2>4. QED
      BY <1>3, <1>9, <2>1, <2>2, <2>3 DEF DraftsFit, EndsBy, Reaches, Confirmable
  <1>19. PlanFitsDeadline'
    <2>1. CASE draft[g].source = "ai"
      BY <1>1, <1>3, <1>11, <2>1 DEF PlanFitsDeadline, DraftsFit, EndsBy, IsOpenReplan
    <2>2. CASE draft[g].source # "ai"
      <3>1. IsOpenReplan(g) /\ Confirmable(g)
        BY <1>1, <1>10, <2>2 DEF Confirmable
      <3>2. EndsBy(g, draft[g].sug)
        BY <3>1 DEF DraftsFit
      <3>3. CASE AppliesChange(g)
        BY <1>1, <1>2, <3>2, <3>3 DEF PlanFitsDeadline, EndsBy
      <3>4. CASE ~AppliesChange(g)
        <4>1. draft[g].change # None /\ change'[draft[g].change].status = "cancelled"
          BY <1>2, <3>1, <3>4, ConstantsAssumption
             DEF DraftsHaveChanges, AppliesChange, IsOpenReplan, Changes, None, ConstantsAssumption
        <4>2. QED
          BY <1>1, <1>3, <4>1 DEF PlanFitsDeadline
      <3>5. QED
        BY <3>3, <3>4
    <2>3. QED
      BY <2>1, <2>2
  <1>20. PlanReachesDeadline'
    <2> SUFFICES ASSUME draft[g].source = "deadline_replan",
                        NEW e \in (today + 1)..planEnd'
                 PROVE  \E r \in rows'[g] : r.day = e
      BY <1>1, <1>3 DEF PlanReachesDeadline
    <2>1. IsOpenReplan(g) /\ Confirmable(g)
      BY <1>1 DEF IsOpenReplan, Confirmable
    <2>2. draft[g].sug \in Int /\ planEnd' <= draft[g].sug
      BY <1>2, <1>6, <1>7, <2>1 DEF TypeOK, Days
    <2>3. e \in (today + 1)..draft[g].sug /\ e <= draft[g].sug
      BY <1>7, <2>2
    <2>4. PICK r \in rows[g] : r.day = e
      BY <2>1, <2>3 DEF DraftsFit, Reaches
    <2>5. QED
      BY <1>1, <2>3, <2>4
  <1>21. QED
    BY <1>8, <1>12, <1>13, <1>14, <1>15, <1>16, <1>17, <1>18, <1>19, <1>20

\* Every transaction of the goal's plan preserves the invariant.
THEOREM Inductive == Spec => []IInv
  <1>1. ASSUME IInv, [Next]_vars PROVE IInv'
    <2>1. CASE GeneratePlan
      BY <1>1, <2>1, GenerateStep
    <2>2. CASE ReplanDeadline
      BY <1>1, <2>2, ReplanStep
    <2>3. ASSUME NEW g \in Gens, DraftStep(g) PROVE IInv'
      BY <1>1, <2>3, ConfirmStep, CancelDraftStep DEF DraftStep
    <2>4. ASSUME NEW d \in Days, CloseDay(d) PROVE IInv'
      BY <1>1, <2>4, CloseStep
    <2>5. CASE \/ \E new \in Days : PlanEdit(new) \/ AskDeadline(new)
               \/ \E i \in Changes : ConfirmDeadline(i) \/ CancelDeadline(i)
      BY <1>1, <2>5, RequestStep
    <2>6. CASE \/ JobFails \/ Regenerate \/ Archive \/ NextDay
               \/ \E g \in Gens, c \in Codes : DayStep(g, c)
               \/ UNCHANGED vars
      BY <1>1, <2>6, FrameStep
    <2>7. QED
      BY <1>1, <2>1, <2>2, <2>3, <2>4, <2>5, <2>6 DEF Next
  <1>2. QED
    BY InitIInv, <1>1, PTL DEF Spec

-----------------------------------------------------------------------------
(* What must hold, for every instance.                                     *)

\* No step takes the variables out of their shape; in particular no change of the
\* deadline is ever left "failed", although run_llm_replan says so of one.
THEOREM TypeCorrect == Spec => []TypeOK
  BY Inductive, PTL DEF IInv

\* confirm_generation leaves the goal with one active generation.
THEOREM ActivePlanIsOne == Spec => []OneActivePlan
  BY Inductive, PTL DEF IInv

\* supersede_suggested_replan_generations leaves one open replan.
THEOREM ReplanDraftIsOne == Spec => []OneReplanDraft
  BY Inductive, PTL DEF IInv

\* Superseded and cancelled generations keep no assignments, whatever closes of
\* days come after.
THEOREM RetiredPlansStayEmpty == Spec => []RetiredPlansAreEmpty
  BY Inductive, PTL DEF IInv

\* What a confirmed plan asks of the user ends by the deadline, unless the user
\* took back the change of the deadline it was made for.
THEOREM PlansFit == Spec => []PlanFitsDeadline
  BY Inductive, PTL DEF IInv

\* A confirmed replan has a task on every day to come, through every Sunday.
THEOREM PlansReach == Spec => []PlanReachesDeadline
  BY Inductive, PTL DEF IInv

\* The goal's end is its first one or the latest that a change applied.
THEOREM DeadlineFollowsChanges == Spec => []DeadlineIsApplied
  <1>1. IInv => DeadlineIsApplied
    <2> SUFFICES ASSUME IInv PROVE DeadlineIsApplied
      OBVIOUS
    <2> DEFINE S == {FirstEnd} \cup {change[i].applied : i \in Changes}
    <2>1. planEnd \in Int /\ \A x \in S : x \in Int
      BY ConstantsAssumption DEF IInv, TypeOK, Days, ConstantsAssumption
    <2>2. planEnd \in S /\ \A x \in S : planEnd >= x
      BY <2>1 DEF IInv, Applied
    <2> HIDE DEF S
    <2>3. \A x \in S : (\A y \in S : x >= y) => x = planEnd
      BY <2>1, <2>2
    <2>4. planEnd = Max(S)
      BY <2>2, <2>3 DEF Max
    <2>5. QED
      BY <2>4 DEF DeadlineIsApplied, S
  <1>2. QED
    BY Inductive, <1>1, PTL

\* No step moves the deadline earlier, and a change that was applied or taken
\* back stays what it is.
THEOREM DeadlineOnlyLater == Spec => DeadlineMovesLater
  <1> DEFINE Later == /\ planEnd' >= planEnd
                      /\ \A i \in Changes :
                           change[i].status \in {"applied", "cancelled"} => change'[i] = change[i]
  <1>1. ASSUME IInv, [Next]_vars PROVE [Later]_vars
    <2>1. planEnd \in Int
      BY <1>1, ConstantsAssumption DEF IInv, TypeOK, Days, ConstantsAssumption
    <2>2. CASE UNCHANGED <<planEnd, change>>
      BY <2>1, <2>2
    <2>3. ASSUME NEW g \in Gens, Confirm(g) PROVE Later
      <3>1. IF AppliesChange(g)
            THEN /\ planEnd' = draft[g].sug /\ draft[g].sug \in Days
                 /\ change' = [change EXCEPT ![draft[g].change] =
                        [status |-> "applied", new |-> @.new, applied |-> draft[g].sug]]
            ELSE planEnd' = planEnd /\ change' = change
        BY <1>1, <2>3, ConfirmEffect DEF IInv
      <3>2. CASE AppliesChange(g)
        <4>1. draft[g].sug > planEnd /\ change[draft[g].change].status = "confirmed"
          BY <1>1, <2>3, <3>2
             DEF IInv, DraftsGoFurther, IsOpenReplan, AppliesChange, Confirm, Confirmable
        <4>2. QED
          BY <1>1, <2>1, <3>1, <3>2, <4>1, ConstantsAssumption
             DEF IInv, TypeOK, Days, ConstantsAssumption
      <3>3. CASE ~AppliesChange(g)
        BY <2>1, <3>1, <3>3
      <3>4. QED
        BY <3>2, <3>3
    <2>4. ASSUME NEW i \in Changes, NEW new \in Days, PlanEdit(new) \/ AskDeadline(new)
          PROVE  Later
      BY <1>1, <2>1, <2>4 DEF IInv, TypeOK, PlanEdit, AskDeadline, NewChange
    <2>5. ASSUME NEW i \in Changes, ConfirmDeadline(i) \/ CancelDeadline(i) PROVE Later
      BY <1>1, <2>1, <2>5 DEF IInv, TypeOK, ConfirmDeadline, CancelDeadline
    <2>6. QED
      <3>1. \/ UNCHANGED <<planEnd, change>>
            \/ \E g \in Gens : Confirm(g)
            \/ \E new \in Days : PlanEdit(new) \/ AskDeadline(new)
            \/ \E i \in Changes : ConfirmDeadline(i) \/ CancelDeadline(i)
        BY <1>1 DEF Next, vars, DraftStep, CancelDraft, GeneratePlan, ReplanDeadline, JobFails,
                    Regenerate, Archive, NextDay, CloseDay, DayStep, CompleteToday,
                    UncompleteToday, IncompleteToday, Report
      <3>2. ASSUME NEW new \in Days, PlanEdit(new) \/ AskDeadline(new) PROVE Later
        <4>1. PICK i \in Changes : NewChange(i)
          BY <3>2 DEF PlanEdit, AskDeadline
        <4>2. QED
          BY <2>4, <3>2, <4>1
      <3>3. QED
        BY <2>2, <2>3, <2>5, <3>1, <3>2
  <1>2. QED
    BY Inductive, <1>1, PTL DEF Spec, DeadlineMovesLater

-----------------------------------------------------------------------------
(* The answers jobs get are those that AnswerContract allows.              *)

\* A schedule as the contract has it.
Filling(s, D) == {[day |-> d, code |-> s[d]] : d \in D}

\* The dated rows of a schedule.
LEMMA DatedSchedule ==
    ASSUME NEW D, NEW s, NEW source
    PROVE  Dated(RowsOn(s, D, source)) = Filling(s, D)
  <1> DEFINE A == Dated(RowsOn(s, D, source))
             B == Filling(s, D)
             Row(d) == [code |-> s[d], day |-> d, source |-> source]
  <1>1. \A x : x \in RowsOn(s, D, source) <=> \E d \in D : x = Row(d)
    BY DEF RowsOn
  <1>2. \A d : Row(d).day = d /\ Row(d).code = s[d]
    OBVIOUS
  <1> HIDE DEF Row
  <1>3. \A x : x \in A <=> \E d \in D : x = [day |-> Row(d).day, code |-> Row(d).code]
    BY <1>1 DEF Dated
  <1>4. \A x : x \in A <=> x \in B
    BY <1>2, <1>3 DEF Filling
  <1>5. A = B
    BY <1>4
  <1>6. QED
    BY <1>5

\* They are one of the contract's fillings of its days.
LEMMA ScheduleFills ==
    ASSUME NEW first, NEW last, NEW C, NEW s \in Schedules(first..last, C), NEW source, NEW g
    PROVE  Dated(RowsOn(s, first..last, source)) \in Contract(g)!OneEach(first, last, C)
  <1>1. s \in [first..last -> C]
    BY DEF Schedules
  <1>2. Filling(s, first..last) \in Contract(g)!OneEach(first, last, C)
    BY <1>1 DEF Contract!OneEach, Filling
  <1>3. QED
    BY <1>2, DatedSchedule

\* A generated plan is a new plan in the contract's sense.
LEMMA GenerateAnswered ==
    ASSUME IInv, GeneratePlan
    PROVE  \E g \in Gens :
              status[g] = "none" /\ status'[g] = "suggested" /\ Contract(g)!NewPlan
  <1> USE ConstantsAssumption DEF ConstantsAssumption, Days
  <1>1. TypeOK /\ planEnd \in Nat
    BY DEF IInv, TypeOK
  <1>2. PICK g \in Gens, codes \in SUBSET Codes, sug \in {planEnd, planEnd + 1} :
          /\ NewGen(g)
          /\ \E s \in Schedules(StartDay..planEnd, codes) :
               rows' = [rows EXCEPT ![g] = RowsOn(s, StartDay..planEnd, "plan")]
          /\ status' = [status EXCEPT ![g] = "suggested"]
          /\ draft' = [draft EXCEPT ![g] = [source |-> "ai", codes |-> codes,
                           req |-> planEnd, sug |-> sug, change |-> None]]
    BY DEF GeneratePlan
  <1>3. PICK s \in Schedules(StartDay..planEnd, codes) :
          rows' = [rows EXCEPT ![g] = RowsOn(s, StartDay..planEnd, "plan")]
    BY <1>2
  <1>4. status[g] = "none" /\ status'[g] = "suggested"
    BY <1>1, <1>2 DEF NewGen, TypeOK
  <1>5. /\ draft'[g].source = "ai" /\ draft'[g].req = planEnd /\ draft'[g].sug = sug
        /\ rows'[g] = RowsOn(s, StartDay..planEnd, "plan")
    BY <1>1, <1>2, <1>3 DEF TypeOK
  <1>6. /\ Answered(g)'.sug = sug
        /\ Answered(g)'.confirmable <=> sug = planEnd
        /\ Answered(g)'.rows = Dated(RowsOn(s, StartDay..planEnd, "plan"))
    <2>1. Answered(g)'.confirmable <=> sug <= planEnd
      BY <1>4, <1>5 DEF Answered, Confirmable
    <2>2. {r \in rows'[g] : draft'[g].source = "ai" \/ r.day > today'} = rows'[g]
      BY <1>5
    <2>3. Answered(g)'.rows = Dated(rows'[g])
      BY <2>2 DEF Answered, Dated
    <2>4. QED
      BY <1>1, <1>5, <2>1, <2>3 DEF Answered
  <1>7. Answered(g)'.rows \in Contract(g)!OneEach(StartDay, planEnd, Codes)
    <2>1. s \in Schedules(StartDay..planEnd, Codes)
      BY DEF Schedules
    <2>2. QED
      BY <1>6, <2>1, ScheduleFills
  <1>8. UNCHANGED (IF active = None THEN {} ELSE Dated(Future(active, today)))
    <2>1. active # None => rows'[active] = rows[active]
      BY <1>1, <1>3, <1>4 DEF IInv, TypeOK, OneActivePlan
    <2>2. UNCHANGED <<active, today>>
      BY DEF GeneratePlan
    <2>3. QED
      BY <2>1, <2>2 DEF Future, Dated
  <1>9. Question.kind = "wbs_generate" /\ Question.first = StartDay /\ Question.requested = planEnd
    BY DEF GeneratePlan, Question
  <1>10. Contract(g)!NewPlan
    BY <1>1, <1>6, <1>7, <1>8, <1>9 DEF Contract!NewPlan
  <1>11. QED
    BY <1>4, <1>10

\* A replan is a shift that fills its days, or the active plan again.
LEMMA ReplanAnswered ==
    ASSUME IInv, ReplanDeadline
    PROVE  \E g \in Gens :
              /\ status[g] = "none" /\ status'[g] = "suggested"
              /\ Contract(g)!Shift \/ Contract(g)!Hold
  <1> USE ConstantsAssumption DEF ConstantsAssumption, Days
  <1> DEFINE req == change[job.change].new
             open == Incomplete(active, finished[active])
             held == {[code |-> r.code, day |-> r.day, source |-> "held"] :
                         r \in Future(active, today)}
  <1>1. /\ TypeOK /\ planEnd \in Nat /\ today \in Nat /\ req \in Nat
        /\ active \in Gens /\ active # None /\ status[active] = "active"
    BY DEF IInv, TypeOK, JobsHaveChanges, OneActivePlan, ReplanDeadline, None
  <1>2. PICK g \in Gens, sug \in 1..Horizon :
          /\ NewGen(g)
          /\ sug > planEnd \/ sug = req + 1
          /\ sug > req \/ today + 1 <= sug
          /\ \E future \in NewFuture(req, sug) :
               rows' = [h \in Gens |->
                   IF h = g THEN UpTo(rows[active], today) \cup future
                   ELSE IF h \in OpenReplanDrafts THEN {} ELSE rows[h]]
          /\ status' = [h \in Gens |->
                 IF h = g THEN "suggested"
                 ELSE IF h \in OpenReplanDrafts THEN "superseded" ELSE status[h]]
          /\ draft' = [draft EXCEPT ![g] = [source |-> "deadline_replan",
                           codes |-> draft[active].codes,
                           req |-> req, sug |-> sug, change |-> job.change]]
    BY DEF ReplanDeadline
  <1>3. PICK future \in NewFuture(req, sug) :
          rows' = [h \in Gens |->
              IF h = g THEN UpTo(rows[active], today) \cup future
              ELSE IF h \in OpenReplanDrafts THEN {} ELSE rows[h]]
    BY <1>2
  <1>4. UNCHANGED <<today, active>> /\ job.type = "deadline_replan"
    BY DEF ReplanDeadline
  <1>5. status[g] = "none" /\ status'[g] = "suggested" /\ g # active
    BY <1>1, <1>2 DEF NewGen
  <1>6. /\ draft'[g].source = "deadline_replan" /\ draft'[g].req = req /\ draft'[g].sug = sug
        /\ rows'[g] = UpTo(rows[active], today) \cup future
    BY <1>1, <1>2, <1>3 DEF TypeOK
  <1>7. /\ Question.kind = "deadline_replan" /\ Question.first = today + 1
        /\ Question.current = planEnd /\ Question.requested = req /\ Question.open = open
    BY <1>4 DEF Question, Incomplete
  <1> HIDE DEF req, open
  <1>8. UNCHANGED (IF active = None THEN {} ELSE Dated(Future(active, today)))
    <2>1. rows'[active] = rows[active]
      BY <1>1, <1>3, <1>5 DEF OpenReplanDrafts, IsOpenReplan
    <2>2. QED
      BY <1>4, <2>1 DEF Future, Dated
  <1>9. Answered(g)'.sug = sug /\ (Answered(g)'.confirmable <=> sug <= req)
    BY <1>5, <1>6 DEF Answered, Confirmable
  <1>10. ASSUME \A r \in future : r.day \in Int /\ r.day > today
         PROVE  Answered(g)'.rows = Dated(future)
    <2>1. rows[active] \subseteq Rows
      BY <1>1 DEF TypeOK
    <2>2. \A r \in UpTo(rows[active], today) : ~(r.day > today)
      BY <1>1, <2>1 DEF UpTo, Rows
    <2>3. {r \in rows'[g] : draft'[g].source = "ai" \/ r.day > today'} = future
      BY <1>4, <1>6, <1>10, <2>2
    <2>4. QED
      BY <2>3 DEF Answered, Dated
  <1>11. CASE sug > req
    <2>1. future = held
      BY <1>3, <1>11 DEF NewFuture
    <2>2. rows[active] \subseteq Rows
      BY <1>1 DEF TypeOK
    <2>3. \A r \in future : r.day \in Int /\ r.day > today
      BY <2>1, <2>2 DEF Future, Rows
    <2>4. Dated(held) = Dated(Future(active, today))
      <3> DEFINE Held(r) == [code |-> r.code, day |-> r.day, source |-> "held"]
      <3>1. \A x : x \in held <=> \E r \in Future(active, today) : x = Held(r)
        OBVIOUS
      <3>2. \A r : Held(r).day = r.day /\ Held(r).code = r.code
        OBVIOUS
      <3> HIDE DEF Held, held
      <3>3. \A x : x \in Dated(held)
               <=> \E r \in Future(active, today) :
                      x = [day |-> Held(r).day, code |-> Held(r).code]
        BY <3>1 DEF Dated
      <3>4. \A x : x \in Dated(held) <=> x \in Dated(Future(active, today))
        BY <3>2, <3>3 DEF Dated
      <3>5. QED
        BY <3>4
    <2> HIDE DEF held
    <2>5. Answered(g)'.rows = IF active = None THEN {} ELSE Dated(Future(active, today))
      BY <1>1, <1>10, <2>1, <2>3, <2>4
    <2>6. ~(sug <= req)
      BY <1>1, <1>11
    <2>7. Contract(g)!Hold
      BY <1>7, <1>8, <1>9, <1>11, <2>5, <2>6 DEF Contract!Hold
    <2>8. QED
      BY <1>5, <2>7
  <1>12. CASE ~(sug > req)
    <2>1. PICK s \in Schedules((today + 1)..sug, open) :
            future = RowsOn(s, (today + 1)..sug, "plan")
      BY <1>3, <1>12 DEF NewFuture, open
    <2>2. \A r \in future : r.day \in Int /\ r.day > today
      BY <1>1, <2>1 DEF RowsOn
    <2>3. Answered(g)'.rows \in Contract(g)!OneEach(today + 1, sug, open)
      BY <1>10, <2>1, <2>2, ScheduleFills
    <2>4. sug > planEnd /\ sug <= req /\ sug \in (today + 1)..req
      BY <1>1, <1>2, <1>12
    <2>5. Contract(g)!Shift
      BY <1>7, <1>8, <1>9, <2>3, <2>4 DEF Contract!Shift
    <2>6. QED
      BY <1>5, <2>5
  <1>13. QED
    BY <1>11, <1>12

\* However a job ends, what becomes of the answer is what AnswerContract allows: the
\* window filled with what is still to be done, the active plan again, or nothing.
THEOREM JobsGetTheAnswersAllowed == Spec => AnswersKeepContract
  <1> DEFINE Allowed ==
        Busy /\ ~Busy' =>
         \/ UNCHANGED planVars
         \/ \E g \in Gens :
              /\ status[g] = "none" /\ status'[g] = "suggested"
              /\ Contract(g)!NewPlan \/ Contract(g)!Shift \/ Contract(g)!Hold
  <1>1. ASSUME IInv, [Next]_vars PROVE [Allowed]_vars
    <2>1. CASE GeneratePlan
      BY <1>1, <2>1, GenerateAnswered
    <2>2. CASE ReplanDeadline
      BY <1>1, <2>2, ReplanAnswered
    <2>3. CASE JobFails
      BY <2>3 DEF JobFails
    <2>4. CASE job' = job
      BY <2>4 DEF Busy
    <2>5. CASE Busy' \/ ~Busy
      BY <2>5
    <2>6. QED
      <3>1. \/ GeneratePlan \/ ReplanDeadline \/ JobFails \/ job' = job \/ Busy' \/ ~Busy
        BY <1>1 DEF Next, vars, DraftStep, Confirm, CancelDraft, Regenerate, Archive, NextDay,
                    PlanEdit, AskDeadline, ConfirmDeadline, CancelDeadline, DayStep, Report,
                    CompleteToday, UncompleteToday, IncompleteToday, CloseDay
      <3>2. QED
        BY <2>1, <2>2, <2>3, <2>4, <2>5, <3>1
  <1>2. QED
    BY Inductive, <1>1, PTL DEF Spec, AnswersKeepContract

\* The other way round: no filling of the window that AnswerContract allows a replan
\* is missing among those ReplanDeadline chooses from, nor any of a whole plan among
\* GeneratePlan's.
THEOREM EveryAnswerIsTaken ==
    ASSUME NEW g \in Gens
    PROVE  /\ \A req \in Nat, sug \in Nat :
                sug <= req =>
                  \A answer \in Contract(g)!OneEach(today + 1, sug,
                                    Incomplete(active, finished[active])) :
                    \E future \in NewFuture(req, sug) : Dated(future) = answer
           /\ \A answer \in Contract(g)!OneEach(StartDay, planEnd, Codes) :
                \E codes \in SUBSET Codes :
                  \E s \in Schedules(StartDay..planEnd, codes) :
                    Dated(RowsOn(s, StartDay..planEnd, "plan")) = answer
  <1>1. ASSUME NEW req \in Nat, NEW sug \in Nat, sug <= req,
               NEW answer \in Contract(g)!OneEach(today + 1, sug,
                                  Incomplete(active, finished[active]))
        PROVE  \E future \in NewFuture(req, sug) : Dated(future) = answer
    <2> DEFINE D == (today + 1)..sug
               open == Incomplete(active, finished[active])
    <2>1. PICK s \in [D -> open] : answer = Filling(s, D)
      BY <1>1 DEF Contract!OneEach, Filling
    <2>2. ~(sug > req)
      BY <1>1
    <2>3. RowsOn(s, D, "plan") \in NewFuture(req, sug)
      BY <2>1, <2>2 DEF NewFuture, Schedules
    <2>4. Dated(RowsOn(s, D, "plan")) = answer
      BY <2>1, DatedSchedule
    <2>5. QED
      BY <2>3, <2>4
  <1>2. ASSUME NEW answer \in Contract(g)!OneEach(StartDay, planEnd, Codes)
        PROVE  \E codes \in SUBSET Codes :
                 \E s \in Schedules(StartDay..planEnd, codes) :
                   Dated(RowsOn(s, StartDay..planEnd, "plan")) = answer
    <2>1. PICK s \in [StartDay..planEnd -> Codes] : answer = Filling(s, StartDay..planEnd)
      BY <1>2 DEF Contract!OneEach, Filling
    <2>2. s \in Schedules(StartDay..planEnd, Codes) /\ Codes \in SUBSET Codes
      BY <2>1 DEF Schedules
    <2>3. Dated(RowsOn(s, StartDay..planEnd, "plan")) = answer
      BY <2>1, DatedSchedule
    <2>4. QED
      BY <2>2, <2>3
  <1>3. QED
    BY <1>1, <1>2

-----------------------------------------------------------------------------
(* What days that are over keep.                                           *)

\* However late days are closed, only confirming a plan touches what of the active
\* plan is too old to be closed any more: _stack_assignment and the Sunday replan write
\* days after the one that is closed.
THEOREM PastIsKept == Spec => HistoryKept
  <1> DEFINE Past(rs) == {r \in rs : r.day <= today - MaxLag}
             Kept == active # None /\ active' = active =>
        Past(rows'[active]) = Past(rows[active])
  <1>1. ASSUME IInv, [Next]_vars PROVE [Kept]_vars
    <2> SUFFICES ASSUME active # None, active' = active
                 PROVE  Past(rows'[active]) = Past(rows[active])
      OBVIOUS
    <2>1. active \in Gens /\ status[active] = "active"
      BY <1>1 DEF IInv, TypeOK, OneActivePlan
    <2>2. CASE rows' = rows
      BY <2>2
    <2>3. CASE GeneratePlan
      <3>1. PICK g \in Gens, rs \in SUBSET Rows : NewGen(g) /\ rows' = [rows EXCEPT ![g] = rs]
        BY <1>1, <2>3, GenerateEffect DEF IInv
      <3>2. g # active
        BY <2>1, <3>1 DEF NewGen
      <3>3. rows'[active] = rows[active]
        BY <1>1, <2>1, <3>1, <3>2 DEF IInv, TypeOK
      <3>4. QED
        BY <3>3
    <2>4. CASE ReplanDeadline
      <3>1. PICK g \in Gens, rs \in SUBSET Rows :
              /\ NewGen(g)
              /\ rows' = [h \in Gens |->
                     IF h = g THEN rs ELSE IF h \in OpenReplanDrafts THEN {} ELSE rows[h]]
        BY <1>1, <2>4, ReplanEffect DEF IInv
      <3>2. g # active /\ active \notin OpenReplanDrafts
        BY <2>1, <3>1 DEF NewGen, OpenReplanDrafts, IsOpenReplan
      <3>3. rows'[active] = rows[active]
        BY <2>1, <3>1, <3>2
      <3>4. QED
        BY <3>3
    <2>5. ASSUME NEW g \in Gens, DraftStep(g) PROVE rows'[active] = rows[active]
      <3>1. CASE Confirm(g)
        BY <1>1, <3>1, ConfirmEffect DEF IInv
      <3>2. CASE CancelDraft(g)
        BY <1>1, <2>1, <3>2 DEF CancelDraft, IsOpenReplan, IInv, TypeOK
      <3>3. QED
        BY <2>5, <3>1, <3>2 DEF DraftStep
    <2>6. ASSUME NEW d \in Days, CloseDay(d)
          PROVE  Past(rows'[active]) = Past(rows[active])
      <3>1. today - MaxLag <= d /\ d \in Int /\ today - MaxLag \in Int
        BY <1>1, <2>6, ConstantsAssumption
           DEF CloseDay, IInv, TypeOK, Days, ConstantsAssumption
      <3>2. rows'[active] \subseteq Rows /\ rows[active] \subseteq Rows
        BY <1>1, <2>1, <2>6, CloseEffect DEF IInv, TypeOK
      <3>3. \A r \in Rows : r.day <= d => (r \in rows'[active] <=> r \in rows[active])
        BY <1>1, <2>6, CloseEffect DEF IInv
      <3>4. \A r \in Rows : r.day <= today - MaxLag => r.day <= d
        BY <3>1, ConstantsAssumption DEF Rows, Days, ConstantsAssumption
      <3>5. QED
        BY <3>2, <3>3, <3>4
    <2>7. QED
      <3>1. \/ rows' = rows \/ GeneratePlan \/ ReplanDeadline
            \/ \E g \in Gens : DraftStep(g)
            \/ \E d \in Days : CloseDay(d)
        BY <1>1 DEF Next, vars, planVars, JobFails, Regenerate, Archive, NextDay, PlanEdit,
                    AskDeadline, ConfirmDeadline, CancelDeadline, DayStep, CompleteToday,
                    UncompleteToday, IncompleteToday, Report
      <3>2. QED
        BY <2>2, <2>3, <2>4, <2>5, <2>6, <3>1
  <1>2. QED
    BY Inductive, <1>1, PTL DEF Spec, HistoryKept

\* migrate_day_entries_for_generation_swap leaves no reported day of a task that
\* keeps its code without a report, and nothing else deletes one.
THEOREM ReportsAreKept == Spec => ReportsSurvive
  <1> DEFINE Survive == \A c \in Codes, d \in Days :
        /\ active # None /\ c \in draft[active].codes \cap draft'[active'].codes
        /\ entry[active][<<c, d>>] # "none"
        => entry'[active'][<<c, d>>] # "none"
  <1>1. ASSUME IInv, [Next]_vars PROVE [Survive]_vars
    <2> SUFFICES ASSUME NEW c \in Codes, NEW d \in Days, active # None,
                        c \in draft[active].codes \cap draft'[active'].codes,
                        entry[active][<<c, d>>] # "none"
                 PROVE  entry'[active'][<<c, d>>] # "none"
      OBVIOUS
    <2>1. active \in Gens /\ <<c, d>> \in Slots
      BY <1>1 DEF IInv, TypeOK, Slots
    <2>2. /\ entry \in [Gens -> [Slots -> {"none", "pending", "not_done", "done"}]]
          /\ entry[active] \in [Slots -> {"none", "pending", "not_done", "done"}]
      BY <1>1, <2>1 DEF IInv, TypeOK
    <2>3. CASE UNCHANGED <<entry, active>>
      BY <2>3
    <2>4. ASSUME NEW g \in Gens, Confirm(g) PROVE entry'[active'][<<c, d>>] # "none"
      <3>1. g # active /\ active' = g /\ draft' = draft
        BY <1>1, <2>4, ConfirmEffect DEF IInv, Confirm
      <3>2. entry' = MigratedEntries(active, g)
        BY <2>4 DEF Confirm, Replaced
      <3>3. c \in draft[active].codes \cap draft[g].codes
        BY <3>1
      <3>4. entry[g] \in [Slots -> {"none", "pending", "not_done", "done"}]
        BY <2>2, <2>4
      <3>5. entry'[g][<<c, d>>] =
              IF entry[g][<<c, d>>] = "none" THEN entry[active][<<c, d>>] ELSE entry[g][<<c, d>>]
        BY <2>1, <2>2, <3>1, <3>2, <3>3, <3>4 DEF MigratedEntries
      <3>6. QED
        BY <3>1, <3>5
    <2>5. ASSUME NEW e \in Days, CloseDay(e) PROVE entry'[active'][<<c, d>>] # "none"
      <3>1. active' = active /\ entry' = ClosedEntries(e)
        BY <2>5 DEF CloseDay
      <3>2. QED
        BY <2>1, <3>1 DEF ClosedEntries
    <2>6. ASSUME NEW g \in Gens, NEW k \in Codes, DayStep(g, k)
          PROVE  entry'[active'][<<c, d>>] # "none"
      <3>1. PICK s \in {"done", "pending", "not_done"} :
              active' = active /\ entry' = [entry EXCEPT ![g] = [@ EXCEPT ![<<k, today>>] = s]]
        BY <2>6 DEF DayStep, CompleteToday, UncompleteToday, IncompleteToday, Report
      <3>2. entry'[active] = IF g = active THEN [entry[active] EXCEPT ![<<k, today>>] = s]
                             ELSE entry[active]
        BY <2>1, <2>2, <3>1
      <3>3. entry'[active][<<c, d>>] \in {s, entry[active][<<c, d>>]}
        BY <2>1, <2>2, <3>2
      <3>4. QED
        BY <3>1, <3>3
    <2>7. QED
      <3>1. \/ UNCHANGED <<entry, active>>
            \/ \E g \in Gens : Confirm(g)
            \/ \E e \in Days : CloseDay(e)
            \/ \E g \in Gens, k \in Codes : DayStep(g, k)
        BY <1>1 DEF Next, vars, planVars, DraftStep, CancelDraft, GeneratePlan, ReplanDeadline,
                    JobFails, Regenerate, Archive, NextDay, PlanEdit, AskDeadline,
                    ConfirmDeadline, CancelDeadline
      <3>2. QED
        BY <2>3, <2>4, <2>5, <2>6, <3>1
  <1>2. QED
    BY Inductive, <1>1, PTL DEF Spec, ReportsSurvive

=============================================================================
