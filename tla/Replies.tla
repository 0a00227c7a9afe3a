------------------------------ MODULE Replies ------------------------------
(***************************************************************************)
(* What the LLM may answer and which answers pass:                         *)
(*   src/app/llm/validate.py         a new plan (wbs_generate),            *)
(*   src/app/llm/replan_validate.py  a replan of the active plan for a new *)
(*   src/app/llm/replan_deadline.py  deadline, or on a Sunday.             *)
(* The codes of the active plan's tasks are 1..NumTasks, in the order of   *)
(* sort_order; a date that cannot be parsed is Bad, one that is missing    *)
(* NoDate.  An answer that is no JSON, has a forbidden field, another      *)
(* shape or a code twice is no member of the sets here: it never passes.   *)
(***************************************************************************)
EXTENDS Progress, FiniteSets, FiniteSetsExt

CONSTANTS NumTasks, Milestones, MilestoneOf

ASSUME RepliesAssumption ==
    /\ NumTasks \in Nat \ {0}
    /\ MilestoneOf \in [1..NumTasks -> Milestones]

Tasks == 1..NumTasks
Bad == 0
NoDate == -1

(***************************************************************************)
(* A question q says: its kind, the first day to plan, the goal's deadline *)
(* ("current"), the one that is asked for ("requested"), how much of each  *)
(* task is done ("worked"), where each task starts ("starts") and the days *)
(* on which other goals have rows ("busy").                                *)
(***************************************************************************)
Window(q) == q.first..q.requested

PctOf(q, c) == Pct(q.worked[c].done, q.worked[c].planned)

\* build_replan_context: completed_tasks and incomplete_tasks
Completed(q) == {c \in Tasks : PctOf(q, c) >= 100}
Incomplete(q) == Tasks \ Completed(q)

\* Exactly one row on each day from first to last, and none on another day.
OneADay(rows, first, last) ==
    /\ \A r \in rows : r.day \in first..last
    /\ \A d \in first..last : \E r \in rows : {s \in rows : s.day = d} = {r}

-----------------------------------------------------------------------------
(* A new plan: milestones, tasks, rows.                                    *)

ValidTask(q, a, t) ==
    LET m == a.mils[t.mil] IN
    m.start <= t.start /\ t.start <= t.end /\ t.end <= m.end

\* validate_wbs_payload
ValidPlan(q, a) ==
    /\ q.first <= q.requested
    /\ \A m \in DOMAIN a.mils : LET w == a.mils[m] IN
         q.first <= w.start /\ w.start <= w.end /\ w.end <= q.requested
    /\ DOMAIN a.mils # {}
    /\ \A m \in DOMAIN a.mils : \E c \in DOMAIN a.tasks : a.tasks[c].mil = m
    /\ \A c \in DOMAIN a.tasks : ValidTask(q, a, a.tasks[c])
    /\ OneADay(a.rows, q.first, q.requested)
    /\ \A r \in a.rows : /\ r.code \in DOMAIN a.tasks
                         /\ a.tasks[r.code].start <= r.day /\ r.day <= a.tasks[r.code].end

-----------------------------------------------------------------------------
(* A replan: rows, a suggested end, new dates of tasks and milestones.     *)

RowDays(a) == {r.day : r \in a.rows}

\* Time is asked for without saying until when.
AsksVaguely(a) == a.says /\ a.end = NoDate /\ a.rows = {}

\* compute_replan_deadline_meta
SuggestedEnd(q, a) ==
    IF AsksVaguely(a) THEN q.requested + 1
    ELSE IF a.end # NoDate THEN a.end
    ELSE IF a.rows # {} THEN Max(RowDays(a))
    ELSE q.requested

LaterThanCurrent(q, a) == AsksVaguely(a) \/ SuggestedEnd(q, a) > q.current

Adjustment(q, a) ==
    LET sug == SuggestedEnd(q, a) IN
    IF sug > q.requested THEN "longer" ELSE IF sug < q.requested THEN "shorter" ELSE "none"

\* effective_end: where the answer has to end.
Cap(q, a) == IF q.kind = "deadline_replan" THEN SuggestedEnd(q, a) ELSE q.requested

ValidUpdates(q, a) ==
    /\ \A c \in DOMAIN a.tasks : LET w == a.tasks[c] IN
         /\ c \in Incomplete(q)
         /\ w.start # Bad /\ w.start <= w.end /\ w.end <= Cap(q, a)
         /\ MilestoneOf[c] \in DOMAIN a.mils =>
              w.end <= a.mils[MilestoneOf[c]].end
    /\ \A m \in DOMAIN a.mils :
         m \in Milestones /\ a.mils[m].end # Bad /\ a.mils[m].end <= Cap(q, a)

\* Mutant: any code of the plan may be planned again.
ValidRowsAnyCode(q, a) ==
    /\ OneADay(a.rows, q.first, Cap(q, a))
    /\ \A r \in a.rows : r.code \in Tasks

ValidRows(q, a) ==
    /\ OneADay(a.rows, q.first, Cap(q, a))
    /\ \A r \in a.rows : r.code \in Incomplete(q)

\* The dates that compute_replan_deadline_meta parses.
MetaParses(a) == a.end # Bad /\ Bad \notin RowDays(a)

\* validate_replan_payload for an answer that asks for more time: it returns
\* before it looks at updates and rows.
AsksForTime(q, a) ==
    /\ q.kind = "deadline_replan"
    /\ MetaParses(a) /\ LaterThanCurrent(q, a)
    /\ Adjustment(q, a) = "longer"

\* ... and for one that does not.
ValidReplan(q, a) ==
    /\ q.kind = "deadline_replan" =>
         MetaParses(a) /\ LaterThanCurrent(q, a) /\ Adjustment(q, a) # "longer"
    /\ q.first <= Cap(q, a)
    /\ ValidUpdates(q, a)
    /\ ValidRows(q, a)

=============================================================================
