------------------------------- MODULE Views -------------------------------
(***************************************************************************)
(* What is read from a plan: the home page (src/app/services/home.py), the *)
(* Gantt chart (gantt.py), the preview of a draft (wbs.py) and the context *)
(* of a replan (src/app/llm/replan_context.py).  A milestone is the set of *)
(* its tasks' codes.                                                       *)
(***************************************************************************)
EXTENDS Plan

\* The goals that home and chart show.
Shown == goal \in {"active", "planning"}

\* active_task_ids_by_goal: rows of drafts are not shown.
ActiveRows == IF active = None THEN {} ELSE rows[active]

\* timeutil.week_sunday
WeekSunday(d) == Min({s \in Sundays : s >= d} \cup {Horizon})

\* build_home: today's tasks with what is reported of them, and the rest of the week.
TodayTasks ==
    IF Shown
    THEN {[code |-> r.code, status |-> IF entry[active][<<r.code, today>>] = "none" THEN "pending"
                                       ELSE entry[active][<<r.code, today>>]] :
             r \in {r \in ActiveRows : r.day = today}}
    ELSE {}

RestOfWeek ==
    IF Shown THEN {r \in ActiveRows : today < r.day /\ r.day <= WeekSunday(today)} ELSE {}

\* Mutant: one task that is done is enough.
CellStatusOfAny(codes, d) ==
    IF d > today THEN "pending"
    ELSE IF \E c \in codes : entry[active][<<c, d>>] = "done" THEN "done" ELSE "not_done"

\* cell_status
CellStatus(codes, d) ==
    IF d > today THEN "pending"
    ELSE IF codes # {} /\ \A c \in codes : entry[active][<<c, d>>] = "done" THEN "done"
    ELSE "not_done"

\* build_gantt: a milestone has a cell on the days one of its tasks is planned.
Cell(milestone, d) ==
    LET codes == {c \in milestone : active # None /\ On(active, c, d)}
    IN  IF ~Shown \/ codes = {} THEN "none" ELSE CellStatus(codes, d)

\* _remaining_days
RemainingDays(c) ==
    Cardinality({r \in ActiveRows : r.code = c /\
        (r.day > today \/ (r.day = today /\ entry[active][<<c, today>>] # "done"))})

-----------------------------------------------------------------------------
(* What must hold of them.                                                 *)

\* Every day that is closed was closed on the day itself, as Beat means it.
OnTime == \A d \in Days : closed[d] \in {0, d}

\* A task the plan counts as finished has nothing left to do: no day to come, which
\* replan_validate.py:117 refuses and the prompts forbid, though progress is stored at
\* a day's close and read by replans, confirms and closes much later.  The exception is
\* a day the user reopens after its close: it stays open and counts as finished.  A close
\* of yesterday, late, counts what is reported of today, which the user may take back.
FinishedHasNothingLeft ==
    active # None /\ OnTime =>
      \A c \in finished[active] \cap draft[active].codes :
        RemainingDays(c) = 0 \/ (closed[today] # 0 /\ RemainingDays(c) = 1)

\* While the plan stays the same, only the user, and only today, turns a done cell of
\* the chart into another one: closing the day, replans and drafts leave it alone.  A
\* close that is late adds to the days after the one it closes, so that the cells of
\* the last MaxLag days may still change.
DoneCellsStay ==
    [][active' = active /\ Shown /\ Shown' =>
        \A milestone \in SUBSET Codes, d \in 1..(today - MaxLag) :
          Cell(milestone, d) = "done" /\ Cell(milestone, d)' # "done"
            => d = today /\ closed' = closed /\ rows' = rows]_vars

\* Home page and chart, which compute it apart, agree on whether today is done and on
\* which of the week's days still have work, whatever drafts lie about.
HomeAgreesWithChart ==
    /\ Cell(Codes, today) = "done"
         <=> TodayTasks # {} /\ \A t \in TodayTasks : t.status = "done"
    /\ \A d \in (today + 1)..WeekSunday(today) :
         Cell(Codes, d) = "pending" <=> \E r \in RestOfWeek : r.day = d

=============================================================================
