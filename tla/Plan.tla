-------------------------------- MODULE Plan --------------------------------
(***************************************************************************)
(* The plan of one goal: its generations of tasks, the days the tasks are  *)
(* assigned to, what the user did on each day, its deadline and the        *)
(* requests to change it.  One action is one committed transaction of      *)
(*   src/app/routers/goals.py   an HTTP request of the goal's owner,       *)
(*   src/app/services/jobs.py   a job that succeeds, or is given up,       *)
(*   src/app/services/day_close.py  the end of a day.                      *)
(* Transactions are serial here and a goal has one job at a time; what     *)
(* happens to jobs when neither is granted is the subject of JobQueue.     *)
(* A task of generation g is the pair of g and its code: the rows of a     *)
(* generation belong to its own tasks and to no other's.                   *)
(***************************************************************************)
EXTENDS Progress, Integers, FiniteSets, FiniteSetsExt

CONSTANTS
    Codes,        \* codes of tasks
    StartDay,     \* goal.plan_start_date
    FirstEnd,     \* goal.plan_end_date when the goal is created
    Horizon,      \* bound on days
    LastToday,    \* bound on the passing of days
    Sundays,      \* the days that are Sundays
    MaxLag,       \* bound on how many days late a day is closed
    MaxLead,      \* bound on how many days early
    MaxGens,      \* bound on generations
    MaxChanges    \* bound on deadline changes

ASSUME ConstantsAssumption ==
    /\ StartDay \in Nat /\ FirstEnd \in Nat /\ Horizon \in Nat
    /\ 1 <= StartDay /\ StartDay <= FirstEnd /\ FirstEnd < Horizon
    /\ LastToday \in Nat \ {0} /\ MaxLag \in Nat /\ MaxLead \in Nat
    /\ LastToday + MaxLead < Horizon
    /\ Sundays \subseteq 1..Horizon
    /\ MaxGens \in Nat /\ MaxChanges \in Nat

Days == 1..Horizon
Gens == 1..MaxGens
Changes == 1..MaxChanges
None == 0     \* no generation, no change

VARIABLES
    today,      \* user_today
    goal,       \* goal.status; "cancelled" is also deleted_at
    planEnd,    \* goal.plan_end_date
    active,     \* goal.active_wbs_generation_id
    status,     \* status[g] of WbsGeneration g ("none": no row)
    draft,      \* draft[g]: what g was made of, never changed afterwards
    rows,       \* rows[g]: the DayAssignments of g's tasks
    entry,      \* entry[g]: the DayEntry of each task of g on each day
    finished,   \* finished[g]: the codes of g with progress_pct = 100
    change,     \* change[i].status, .new, .applied of DeadlineChange i
    job,        \* the goal's queued job
    closed      \* closed[d]: when day d was closed, JobRun.finished_at (0: not yet)

planVars == <<status, draft, rows, entry, finished>>
vars == <<today, goal, planEnd, active, planVars, change, job, closed>>

Rows == [code : Codes, day : Days, source : {"plan", "held", "defer"}]
Slots == Codes \X Days
Blank == [x \in Slots |-> "none"]
NoJob == [type |-> "none", change |-> None]
NoDraft == [source |-> "none", codes |-> {}, req |-> 0, sug |-> 0, change |-> None]
NoChange == [status |-> "none", new |-> 0, applied |-> 0]

Marked(ch, s) == [status |-> s, new |-> ch.new, applied |-> ch.applied]

Owned == goal # "cancelled"                  \* get_owned_goal finds the goal
Busy == job # NoJob                          \* assert_goal_not_busy raises

\* Mutant: yesterday is where the past ends.
UpToYesterday(rs, d) == {r \in rs : r.day < d}

UpTo(rs, d) == {r \in rs : r.day <= d}
On(g, c, d) == \E r \in rows[g] : r.code = c /\ r.day = d
RowsOn(s, days, source) == {[code |-> s[d], day |-> d, source |-> source] : d \in days}

\* An LLM answer that validates has exactly one task on each day of its window.
Schedules(days, codes) == [days -> codes]

Init ==
    /\ today = 1
    /\ goal = "draft"
    /\ planEnd = FirstEnd
    /\ active = None
    /\ status = [g \in Gens |-> "none"]
    /\ draft = [g \in Gens |-> NoDraft]
    /\ rows = [g \in Gens |-> {}]
    /\ entry = [g \in Gens |-> Blank]
    /\ finished = [g \in Gens |-> {}]
    /\ change = [i \in Changes |-> NoChange]
    /\ job = [type |-> "wbs_generate", change |-> None]
    /\ closed = [d \in Days |-> 0]

-----------------------------------------------------------------------------
(* Jobs.                                                                   *)

\* _next_version: the lowest unused number.
NewGen(g) == status[g] = "none" /\ \A h \in 1..(g - 1) : status[h] # "none"

IsOpenReplan(g) == status[g] = "suggested" /\ draft[g].source = "deadline_replan"

\* Mutant: older drafts are left open.
NoReplanDrafts == {}

\* supersede_suggested_replan_generations
OpenReplanDrafts == {g \in Gens : IsOpenReplan(g)}

\* run_wbs_generate: the plan covers the whole window; the LLM may also answer
\* that the window is too short (suggested_deadline_change), which is kept as a
\* suggested end after the requested one.
GeneratePlan ==
    /\ job.type = "wbs_generate"
    /\ \E g \in Gens, codes \in SUBSET Codes, sug \in {planEnd, planEnd + 1} :
        /\ NewGen(g)
        /\ \E s \in Schedules(StartDay..planEnd, codes) :
            rows' = [rows EXCEPT ![g] = RowsOn(s, StartDay..planEnd, "plan")]
        /\ status' = [status EXCEPT ![g] = "suggested"]
        /\ draft' = [draft EXCEPT ![g] = [source |-> "ai", codes |-> codes,
                         req |-> planEnd, sug |-> sug, change |-> None]]
    /\ job' = NoJob
    /\ UNCHANGED <<today, goal, planEnd, active, entry, finished, change, closed>>

\* Mutant: tasks that are finished count.
IncompleteOrNot(g, fin) == draft[g].codes

Incomplete(g, fin) == draft[g].codes \ fin

Future(g, d) == {r \in rows[g] : r.day > d}

\* What the draft plans for the days to come: the answer's assignments, or, when
\* the answer is "longer" and cannot be confirmed, the active plan's own.
NewFuture(req, sug) ==
    IF sug > req
    THEN {{[code |-> r.code, day |-> r.day, source |-> "held"] : r \in Future(active, today)}}
    ELSE {RowsOn(s, (today + 1)..sug, "plan") :
             s \in Schedules((today + 1)..sug, Incomplete(active, finished[active]))}

\* run_llm_replan for a deadline change: the active plan's tasks and its rows up
\* to today are copied, the future is the LLM's.  Whoever cancelled the change
\* while the job was queued is not asked.
ReplanDeadline ==
    /\ job.type = "deadline_replan"
    /\ active # None
    /\ \/ Incomplete(active, finished[active]) # {}
       \/ Future(active, today) # {}
    /\ \E g \in Gens, sug \in 1..Horizon :
        LET req == change[job.change].new IN
        /\ NewGen(g)
        /\ sug > planEnd \/ sug = req + 1
        /\ sug > req \/ today + 1 <= sug
        /\ \E future \in NewFuture(req, sug) :
            rows' = [h \in Gens |->
                IF h = g THEN UpTo(rows[active], today) \cup future
                ELSE IF h \in OpenReplanDrafts THEN {} ELSE rows[h]]
        /\ status' = [h \in Gens |->
               IF h = g THEN "suggested"
               ELSE IF h \in OpenReplanDrafts THEN "superseded" ELSE status[h]]
        /\ draft' = [draft EXCEPT ![g] = [source |-> "deadline_replan",
                         codes |-> draft[active].codes,
                         req |-> req, sug |-> sug, change |-> job.change]]
        /\ finished' = [finished EXCEPT ![g] = finished[active]]
    /\ job' = NoJob
    /\ UNCHANGED <<today, goal, planEnd, active, entry, change, closed>>

\* Mutant: run_llm_replan's change.status = "failed" survives the rollback.
JobFailsWithChange ==
    /\ Busy
    /\ job' = NoJob
    /\ change' = IF job.change = None THEN change
                 ELSE [change EXCEPT ![job.change] = Marked(@, "failed")]
    /\ UNCHANGED <<today, goal, planEnd, active, planVars, closed>>

\* A job ends without a generation: its dispatch failed.
JobFails ==
    /\ Busy
    /\ job' = NoJob
    /\ UNCHANGED <<today, goal, planEnd, active, planVars, change, closed>>

-----------------------------------------------------------------------------
(* Drafts: confirm and cancel.                                             *)

\* Mutant: a draft that asks for more time can be confirmed.
ConfirmableAny(g) == status[g] = "suggested"

\* generation_confirmable, and the same refusal of an AI plan that asks for time
Confirmable(g) == status[g] = "suggested" /\ draft[g].sug <= draft[g].req

\* _apply_pending_deadline: the end that confirming g makes the goal's.
AppliedEnd(g) == IF draft[g].sug < draft[g].req THEN draft[g].sug ELSE draft[g].req

\* Mutant: the status of the change is not looked at.
AppliesAnyChange(g) == draft[g].source = "deadline_replan"

\* Mutant: a change that is still to be confirmed is looked for.
AppliesPendingChange(g) ==
    /\ draft[g].source = "deadline_replan"
    /\ change[draft[g].change].status = "pending"

AppliesChange(g) ==
    /\ draft[g].source = "deadline_replan"
    /\ change[draft[g].change].status = "confirmed"

\* Mutant: entries stay with the old tasks.
EntriesStay(old, new) == entry

\* migrate_day_entries_for_generation_swap: by code; where the new task has an
\* entry of that day already, the old task's is deleted.
MigratedEntries(old, new) ==
    LET shared == draft[old].codes \cap draft[new].codes IN
    [entry EXCEPT
        ![old] = [x \in Slots |-> IF x[1] \in shared THEN "none" ELSE @[x]],
        ![new] = [x \in Slots |->
            IF x[1] \in shared /\ @[x] = "none" THEN entry[old][x] ELSE @[x]]]

\* Mutant: the tail starts a day early.
PurgedTailEarly(g) == {d \in Days : draft[g].sug <= d /\ d <= draft[g].req /\ d > today}

\* _purge_shorter_tail_assignments: rows of the goal, of whatever generation.
PurgedTail(g) ==
    IF draft[g].source = "deadline_replan"
    THEN {d \in Days : draft[g].sug < d /\ d <= draft[g].req /\ d > today}
    ELSE {}

\* Mutant: the old plan is not retired.
NothingReplaced == {}

Replaced == {active} \ {None}

\* confirm_generation
Confirm(g) ==
    /\ Owned
    /\ Confirmable(g)
    /\ status' = [h \in Gens |->
           IF h = g THEN "active" ELSE IF h \in Replaced THEN "superseded" ELSE status[h]]
    /\ IF Replaced = {}
       THEN UNCHANGED <<entry, rows>>
       ELSE /\ entry' = MigratedEntries(active, g)
            /\ rows' = [h \in Gens |->
                   IF h \in Replaced THEN {}
                   ELSE {r \in rows[h] : r.day \notin PurgedTail(g)}]
    /\ IF AppliesChange(g)
       THEN /\ planEnd' = AppliedEnd(g)
            /\ change' = [change EXCEPT ![draft[g].change] =
                   [status |-> "applied", new |-> @.new, applied |-> AppliedEnd(g)]]
       ELSE UNCHANGED <<planEnd, change>>
    /\ active' = g
    /\ goal' = IF today < StartDay THEN "planning" ELSE "active"
    /\ UNCHANGED <<today, draft, finished, job, closed>>

\* Mutant: the draft's rows are left behind.
CancelDraftOnly(g) ==
    /\ Owned
    /\ IsOpenReplan(g)
    /\ status' = [status EXCEPT ![g] = "cancelled"]
    /\ UNCHANGED <<today, goal, planEnd, active, draft, rows, entry, finished, change, job,
                   closed>>

\* cancel_generation
CancelDraft(g) ==
    /\ Owned
    /\ IsOpenReplan(g)
    /\ status' = [status EXCEPT ![g] = "cancelled"]
    /\ rows' = [rows EXCEPT ![g] = {}]
    /\ UNCHANGED <<today, goal, planEnd, active, draft, entry, finished, change, job, closed>>

-----------------------------------------------------------------------------
(* Requests to change the deadline, to plan anew, and to archive.          *)

NewChange(i) ==
    change[i].status = "none" /\ \A k \in 1..(i - 1) : change[k].status # "none"

\* Both ways of asking want a later end, three days away or more.
Postpones(new) == new > planEnd /\ new >= today + 3

\* goals.plan_edit: the change is born confirmed, and its job queued.
PlanEdit(new) ==
    /\ goal \in {"active", "planning"}
    /\ Postpones(new)
    /\ ~Busy
    /\ \E i \in Changes :
        /\ NewChange(i)
        /\ change' = [change EXCEPT ![i] =
               [status |-> "confirmed", new |-> new, applied |-> 0]]
        /\ job' = [type |-> "deadline_replan", change |-> i]
    /\ UNCHANGED <<today, goal, planEnd, active, planVars, closed>>

\* deadline_change: the goal's status is not looked at.
AskDeadline(new) ==
    /\ Owned
    /\ Postpones(new)
    /\ \E i \in Changes :
        /\ NewChange(i)
        /\ change' = [change EXCEPT ![i] =
               [status |-> "pending", new |-> new, applied |-> 0]]
    /\ UNCHANGED <<today, goal, planEnd, active, planVars, job, closed>>

\* deadline_confirm: the change's dates are not looked at again.
ConfirmDeadline(i) ==
    /\ Owned
    /\ change[i].status = "pending"
    /\ ~Busy
    /\ change' = [change EXCEPT ![i] = Marked(@, "confirmed")]
    /\ job' = [type |-> "deadline_replan", change |-> i]
    /\ UNCHANGED <<today, goal, planEnd, active, planVars, closed>>

\* deadline_cancel
CancelDeadline(i) ==
    /\ Owned
    /\ change[i].status \in {"pending", "confirmed", "failed"}
    /\ change' = [change EXCEPT ![i] = Marked(@, "cancelled")]
    /\ UNCHANGED <<today, goal, planEnd, active, planVars, job, closed>>

\* regenerate_wbs
Regenerate ==
    /\ Owned
    /\ ~Busy
    /\ job' = [type |-> "wbs_generate", change |-> None]
    /\ UNCHANGED <<today, goal, planEnd, active, planVars, change, closed>>

\* archive_goal
Archive ==
    /\ Owned
    /\ goal' = "cancelled"
    /\ UNCHANGED <<today, planEnd, active, planVars, change, job, closed>>

-----------------------------------------------------------------------------
(* The day: what the user reports, and the close.                          *)

\* The DayEntry of a task that has a row today, of whatever generation.
Report(g, c, s) ==
    /\ Owned
    /\ On(g, c, today)
    /\ entry' = [entry EXCEPT ![g] = [@ EXCEPT ![<<c, today>>] = s]]
    /\ UNCHANGED <<today, goal, planEnd, active, status, draft, rows, finished, change, job,
                   closed>>

CompleteToday(g, c) == Report(g, c, "done")
UncompleteToday(g, c) == Report(g, c, "pending")
IncompleteToday(g, c) == entry[g][<<c, today>>] # "done" /\ Report(g, c, "not_done")

\* Mutant: reports are not looked at.
PlannedOn(g, d) == {c \in Codes : On(g, c, d)}

\* What is not done at the close of day d is "not_done" from then on.
Undone(g, d) == {c \in Codes : On(g, c, d) /\ entry[g][<<c, d>>] # "done"}

ClosedEntries(d) ==
    [g \in Gens |-> [x \in Slots |->
        IF x[2] = d /\ x[1] \in Undone(g, d) THEN "not_done" ELSE entry[g][x]]]

\* _stack_assignment: tomorrow again, unless it is there already; not on Sundays.
Deferred(g, d) ==
    IF d \in Sundays THEN {}
    ELSE {[code |-> c, day |-> d + 1, source |-> "defer"] :
             c \in {c \in Undone(g, d) : ~On(g, c, d + 1)}}

\* _recompute_progress, as far as replanning reads it: the tasks at 100 %.
FinishedOf(g, rs, es) ==
    LET planned(c) == {r \in rs : r.code = c}
        done(c)    == {r \in planned(c) : es[<<c, r.day>>] = "done"}
    IN {c \in draft[g].codes : Pct(Cardinality(done(c)), Cardinality(planned(c))) = 100}

\* _close_goal_day, of any day as_of names: on a Sunday the LLM plans anew from tomorrow to the end, or
\* its answer is unusable and the plan stays.
CloseDay(d) ==
    LET kept == [g \in Gens |-> rows[g] \cup Deferred(g, d)]
        fin  == IF active = None THEN finished
                ELSE [finished EXCEPT ![active] =
                        FinishedOf(active, kept[active], ClosedEntries(d)[active])]
    IN
    /\ goal \in {"active", "planning"}
    /\ closed[d] = 0
    /\ today - MaxLag <= d /\ d <= today + MaxLead
    /\ closed' = [closed EXCEPT ![d] = today]
    /\ entry' = ClosedEntries(d)
    /\ finished' = fin
    /\ \/ rows' = kept
       \/ /\ d \in Sundays /\ active # None /\ d < planEnd
          /\ \E s \in Schedules((d + 1)..planEnd, Incomplete(active, fin[active])) :
              rows' = [kept EXCEPT ![active] =
                  UpTo(@, d) \cup RowsOn(s, (d + 1)..planEnd, "plan")]
    /\ UNCHANGED <<today, goal, planEnd, active, status, draft, change, job>>

NextDay ==
    /\ today < LastToday
    /\ today' = today + 1
    /\ UNCHANGED <<goal, planEnd, active, planVars, change, job, closed>>

-----------------------------------------------------------------------------
DraftStep(g) == Confirm(g) \/ CancelDraft(g)
DayStep(g, c) == CompleteToday(g, c) \/ UncompleteToday(g, c) \/ IncompleteToday(g, c)

Next ==
    \/ GeneratePlan \/ ReplanDeadline \/ JobFails \/ Regenerate \/ Archive \/ NextDay
    \/ \E g \in Gens : DraftStep(g)
    \/ \E new \in Days : PlanEdit(new) \/ AskDeadline(new)
    \/ \E i \in Changes : ConfirmDeadline(i) \/ CancelDeadline(i)
    \/ \E g \in Gens, c \in Codes : DayStep(g, c)
    \/ \E d \in Days : CloseDay(d)

Spec == Init /\ [][Next]_vars

-----------------------------------------------------------------------------
(* What must hold.                                                         *)

\* Every variable keeps its shape; no change of deadline ever becomes "failed".
TypeOK ==
    /\ today \in 1..LastToday
    /\ goal \in {"draft", "planning", "active", "cancelled"}
    /\ planEnd \in Days
    /\ active \in Gens \cup {None}
    /\ status \in [Gens -> {"none", "suggested", "active", "superseded", "cancelled"}]
    /\ draft \in [Gens -> [source : {"none", "ai", "deadline_replan"}, codes : SUBSET Codes,
                           req : 0..Horizon, sug : 0..(Horizon + 1),
                           change : Changes \cup {None}]]
    /\ rows \in [Gens -> SUBSET Rows]
    /\ entry \in [Gens -> [Slots -> {"none", "pending", "not_done", "done"}]]
    /\ finished \in [Gens -> SUBSET Codes]
    /\ change \in [Changes -> [status : {"none", "pending", "confirmed", "applied", "cancelled"},
                               new : 0..Horizon, applied : 0..Horizon]]
    /\ job \in [type : {"none", "wbs_generate", "deadline_replan"}, change : Changes \cup {None}]
    /\ closed \in [Days -> 0..LastToday]

\* The generation the goal points at is active and no other is.
OneActivePlan ==
    /\ active # None => status[active] = "active"
    /\ \A g \in Gens : status[g] = "active" => g = active

\* A new replan supersedes the draft of the one before it, so that no draft made
\* for an older deadline can be confirmed after a newer one.
OneReplanDraft == \A g, h \in Gens : IsOpenReplan(g) /\ IsOpenReplan(h) => g = h

\* A generation that was superseded or cancelled leaves no assignment behind:
\* the day close and the progress read the goal's rows whatever their generation.
RetiredPlansAreEmpty ==
    \A g \in Gens : status[g] \in {"none", "superseded", "cancelled"} => rows[g] = {}

\* The deadline is the first one or the latest applied change's.
DeadlineIsApplied ==
    planEnd = Max({FirstEnd} \cup {change[i].applied : i \in Changes})

\* The deadline moves only later, and never because of a change the user took
\* back: applied and cancelled are final.
DeadlineMovesLater ==
    [][/\ planEnd' >= planEnd
       /\ \A i \in Changes :
            change[i].status \in {"applied", "cancelled"} => change'[i] = change[i]]_vars

\* An active plan whose change was not taken back ends by the deadline, but for
\* the tasks the day close moved on.
PlanFitsDeadline ==
    active # None /\ (draft[active].change # None =>
                        change[draft[active].change].status # "cancelled")
      => \A r \in rows[active] : r.source # "defer" => r.day <= planEnd

\* An active plan made for a deadline gives every day to come, up to the
\* deadline, something to do.
PlanReachesDeadline ==
    active # None /\ draft[active].source = "deadline_replan"
      => \A d \in (today + 1)..planEnd : \E r \in rows[active] : r.day = d

\* Nothing but confirming a plan touches the days that are over, today among them
\* when no day is closed late: replans, drafts that come and go, and closing a day,
\* MaxLag days late at most, leave that part of the active plan alone.
HistoryKept ==
    [][active # None /\ active' = active =>
        {r \in rows'[active] : r.day <= today - MaxLag}
          = {r \in rows[active] : r.day <= today - MaxLag}]_vars

\* A day the user or the close reported about is never blank again: whatever
\* plan replaces another, a task that keeps its code keeps having a report.
ReportsSurvive ==
    [][\A c \in Codes, d \in Days :
        /\ active # None /\ c \in draft[active].codes \cap draft'[active'].codes
        /\ entry[active][<<c, d>>] # "none"
        => entry'[active'][<<c, d>>] # "none"]_vars

-----------------------------------------------------------------------------
(* What a job asks the LLM, and what becomes of the answer.                *)

Dated(rs) == {[day |-> r.day, code |-> r.code] : r \in rs}

\* The window a job asks to be filled, and the tasks that are still to be done.
Question ==
    IF job.type = "wbs_generate"
    THEN [kind |-> job.type, first |-> StartDay, current |-> planEnd, requested |-> planEnd,
          open |-> {}]
    ELSE [kind |-> job.type, first |-> today + 1, current |-> planEnd,
          requested |-> change[job.change].new,
          open |-> draft[active].codes \ finished[active]]

\* The part of generation g that the LLM wrote.
Answered(g) ==
    [rows |-> Dated({r \in rows[g] : draft[g].source = "ai" \/ r.day > today}),
     sug |-> draft[g].sug, confirmable |-> Confirmable(g)]

Contract(g) == INSTANCE AnswerContract WITH
    ask <- Question, over <- ~Busy, draft <- Answered(g),
    rows <- IF active = None THEN {} ELSE Dated(Future(active, today))

\* A job ends as AnswerContract says, which Answers implements: with a new generation
\* that fills its window, with the active plan again, or with nothing; and it leaves
\* the days to come of the active plan alone (generate.py, replan_run.py).
AnswersKeepContract ==
    [][Busy /\ ~Busy' =>
         \/ UNCHANGED planVars
         \/ \E g \in Gens :
              /\ status[g] = "none" /\ status'[g] = "suggested"
              /\ Contract(g)!NewPlan \/ Contract(g)!Shift \/ Contract(g)!Hold]_vars

-----------------------------------------------------------------------------
(* What a comment or a test says and the code does not do.                 *)

\* assignments.py:69: on confirming a replan the entries move to the new tasks,
\* by code.  So a task the user completed is completed in the new plan, too.
DoneSurvivesReplan ==
    [][\A c \in Codes, d \in Days :
        /\ active # None /\ active' # active /\ draft[active'].source = "deadline_replan"
        /\ c \in draft[active].codes \cap draft[active'].codes
        /\ entry[active][<<c, d>>] = "done"
        => entry'[active'][<<c, d>>] = "done"]_vars

=============================================================================
