------------------------------ MODULE Answers ------------------------------
(***************************************************************************)
(* One question to the LLM, from the first call to the end of the          *)
(* transaction that asks: run_wbs_generate (src/app/llm/generate.py) and   *)
(* run_llm_replan (src/app/llm/replan_run.py), with what their callers do  *)
(* with an exception: a job is rolled back (src/app/services/jobs.py), the *)
(* day close goes on as if nothing had happened (day_close.py).            *)
(* The active plan is its rows from the first day of the question on and   *)
(* the windows of its milestones.                                          *)
(***************************************************************************)
EXTENDS MockLlm, Sequences

CONSTANTS
    Questions,     \* what may be asked
    PlanReplies,   \* answers to wbs_generate
    ReplanReplies, \* answers to deadline_replan and sunday_replan
    HeldRows,      \* the rows the active plan may have from the first day on
    Codes          \* codes an answer may use

\* A row that names a day and a task, whichever they are.
ReplyRows == [day : Int, code : Codes]

\* A question is about days of the calendar (Bad is none), and a goal has a day at
\* least (goals.py:32).  An answer is finite: its rows have a last day.
ASSUME AnswersAssumption ==
    /\ \A q \in Questions :
         /\ q.kind \in {"wbs_generate", "deadline_replan", "sunday_replan"}
         /\ {q.first, q.current, q.requested} \subseteq Nat /\ q.first # Bad
         /\ q.kind = "wbs_generate" => q.first <= q.requested
         /\ \A c \in Tasks : LET w == q.worked[c] IN
              w.planned \in Nat /\ w.done \in Nat /\ q.starts[c] \in Int
    /\ \A a \in PlanReplies : a.rows \subseteq ReplyRows /\ a.says \in BOOLEAN
    /\ \A a \in ReplanReplies :
         /\ a.rows \subseteq ReplyRows /\ a.end \in Int
         /\ a.rows = {} \/ Max(RowDays(a)) \in Int
         /\ \A m \in DOMAIN a.mils : a.mils[m].start \in Int /\ a.mils[m].end \in Int
    /\ \A h \in HeldRows : h \subseteq ReplyRows
    /\ 1..3 \subseteq Codes /\ Tasks \subseteq Codes

VARIABLES
    ask,     \* the question
    mode,    \* LLM_MODE
    calls,   \* calls of the LLM so far
    logs,    \* LlmCallLog: the status of each row
    over,    \* the transaction is over
    rows,    \* the active plan's DayAssignments from ask.first on
    windows, \* start_date and end_date of the active plan's milestones
    draft    \* the WbsGeneration that was made

vars == <<ask, mode, calls, logs, over, rows, windows, draft>>

IsReplan == ask.kind \in {"deadline_replan", "sunday_replan"}

Contract == INSTANCE AnswerContract WITH
    ask <- [kind |-> ask.kind, first |-> ask.first, current |-> ask.current,
            requested |-> ask.requested,
            open |-> IF IsReplan THEN Incomplete(ask) ELSE {}]

MaxCalls == 2

Init ==
    /\ ask \in Questions
    /\ mode \in {"mock", "deepseek"}
    /\ calls = 0
    /\ logs = <<>>
    /\ over = FALSE
    /\ rows \in IF IsReplan THEN HeldRows ELSE {{}}
    /\ windows = [m \in Milestones |-> [start |-> 1, end |-> ask.current]]
    /\ draft = Contract!NoDraft

-----------------------------------------------------------------------------
(* Calls.                                                                  *)

\* run_llm_replan does not ask when there is nothing to plan.
NothingToAsk == IsReplan /\ Incomplete(ask) = {} /\ rows = {}

\* Mutant: the LLM is asked once more.
CalledAgain(status) ==
    /\ ~over /\ ~NothingToAsk /\ calls <= MaxCalls
    /\ calls' = calls + 1
    /\ logs' = Append(logs, status)
    /\ UNCHANGED <<ask, mode>>

Called(status) ==
    /\ ~over /\ ~NothingToAsk /\ calls < MaxCalls
    /\ calls' = calls + 1
    /\ logs' = Append(logs, status)
    /\ UNCHANGED <<ask, mode>>

\* A call fails (timeout, network, HTTP status, no content), or its answer does not
\* pass: that is logged and, the first time, the LLM is asked again.
AnswerFails ==
    /\ mode = "deepseek"
    /\ Called("failed")
    /\ UNCHANGED <<over, rows, windows, draft>>

\* The answers that may come.
Answer ==
    IF mode = "deepseek" THEN IF IsReplan THEN ReplanReplies ELSE PlanReplies
    ELSE {IF IsReplan THEN MockReplan(ask) ELSE MockPlan(ask)}

-----------------------------------------------------------------------------
(* Answers that pass, and those that pass and cannot be stored.            *)

\* persist_succeeded_generation: a plan that says the window is too short is kept like
\* any other, and refused when it is to be confirmed (wbs.py:122).
MakePlan(a) ==
    /\ ask.kind = "wbs_generate" /\ ValidPlan(ask, a)
    /\ Called("succeeded") /\ over' = TRUE
    /\ draft' = [rows |-> a.rows, confirmable |-> ~a.says,
                 sug |-> IF a.says THEN ask.requested + 1 ELSE ask.requested]
    /\ UNCHANGED <<rows, windows>>

\* Milestones and tasks of the plan that the answer gives a date that cannot be
\* parsed; of a milestone the validation has looked at the end only, and of an
\* answer that asks for time at none of them.
BadMilestones(a) == {m \in Milestones \cap DOMAIN a.mils : Bad \in {a.mils[m].start, a.mils[m].end}}
BadTasks(a) == {c \in Tasks \cap DOMAIN a.tasks : Bad \in {a.tasks[c].start, a.tasks[c].end}}

Stored(a) == BadMilestones(a) = {} /\ BadTasks(a) = {}

\* persist_suggested_replan
MakeDraft(a) ==
    /\ ask.kind = "deadline_replan" /\ Stored(a)
    /\ Called("succeeded") /\ over' = TRUE
    /\ \/ /\ ValidReplan(ask, a)
          /\ draft' = [rows |-> a.rows, sug |-> SuggestedEnd(ask, a), confirmable |-> TRUE]
       \/ /\ AsksForTime(ask, a)
          /\ draft' = [rows |-> rows, sug |-> SuggestedEnd(ask, a), confirmable |-> FALSE]
    /\ UNCHANGED <<rows, windows>>

\* A milestone with the dates an answer gives it.
Updated(w, u) == [start |-> IF u.start = NoDate THEN w.start ELSE u.start, end |-> u.end]

\* persist_active_replan
RewritePlan(a) ==
    /\ ask.kind = "sunday_replan" /\ ValidReplan(ask, a) /\ Stored(a)
    /\ Called("succeeded") /\ over' = TRUE
    /\ rows' = a.rows
    /\ windows' = [m \in Milestones |->
           IF m \in DOMAIN a.mils THEN Updated(windows[m], a.mils[m]) ELSE windows[m]]
    /\ UNCHANGED draft

\* ... stops at a milestone's start: the milestones before it have their new dates,
\* it has its new end, and run_day_close commits them.
RewriteBreaks(a) ==
    /\ ask.kind = "sunday_replan" /\ ValidReplan(ask, a)
    /\ Called("succeeded") /\ over' = TRUE
    /\ \E m \in BadMilestones(a) :
       \E before \in SUBSET (DOMAIN a.mils \ BadMilestones(a)) :
         windows' = [n \in Milestones |->
             CASE n \in before -> Updated(windows[n], a.mils[n])
               [] n = m -> [windows[n] EXCEPT !.end = a.mils[n].end]
               [] OTHER -> windows[n]]
    /\ UNCHANGED <<rows, draft>>

-----------------------------------------------------------------------------
(* Questions that come to nothing.                                         *)

\* The exception rolls back the job that asks, and with it the failed generation and
\* the log rows that were flushed to keep the answers (JobQueue, FailureIsRecorded);
\* the day close swallows it.
Drops ==
    /\ over' = TRUE
    /\ logs' = IF ask.kind = "sunday_replan" THEN logs ELSE <<>>
    /\ UNCHANGED <<rows, windows, draft>>

\* persist_suggested_replan stops at a date that cannot be parsed.
DraftBreaks(a) ==
    /\ ask.kind = "deadline_replan"
    /\ ValidReplan(ask, a) \/ AsksForTime(ask, a)
    /\ ~Stored(a)
    /\ ~over /\ ~NothingToAsk /\ calls < MaxCalls
    /\ calls' = calls + 1
    /\ Drops
    /\ UNCHANGED <<ask, mode>>

\* A mock answer that does not pass is not asked for again.
MockFails(a) ==
    /\ mode = "mock"
    /\ ~IF IsReplan THEN ValidReplan(ask, a) \/ AsksForTime(ask, a) ELSE ValidPlan(ask, a)
    /\ ~over /\ ~NothingToAsk
    /\ Drops
    /\ UNCHANGED <<ask, mode, calls>>

GiveUp ==
    /\ ~over
    /\ NothingToAsk \/ calls = MaxCalls
    /\ Drops
    /\ UNCHANGED <<ask, mode, calls>>

Next ==
    \/ AnswerFails
    \/ GiveUp
    \/ \E a \in Answer :
         \/ MakePlan(a)
         \/ MakeDraft(a)
         \/ RewritePlan(a)
         \/ RewriteBreaks(a)
         \/ DraftBreaks(a)
         \/ MockFails(a)

Spec == Init /\ [][Next]_vars

-----------------------------------------------------------------------------
(* Properties.                                                             *)

\* Types and sizes: a question has at most two calls, and a log row for each at most.
TypeOK ==
    /\ ask \in Questions
    /\ mode \in {"mock", "deepseek"}
    /\ calls \in 0..MaxCalls
    /\ logs \in Seq({"failed", "succeeded"}) /\ Len(logs) <= calls
    /\ over \in BOOLEAN
    /\ rows \subseteq ReplyRows
    /\ windows \in [Milestones -> [start : Int, end : Int]]
    /\ draft \in [rows : SUBSET ReplyRows, sug : Int, confirmable : BOOLEAN]

\* Whatever the LLM answers, the question comes to what AnswerContract says: rows that
\* give each day of the window one unfinished task (validate_wbs_payload,
\* validate_replan_payload), the active plan again when more time is asked for, or
\* nothing; in particular no part of an answer's rows, and a draft that can be
\* confirmed never ends on the goal's deadline or before it.
KeepsContract == Contract!Spec

\* build_mock_plan's thirds pass validate_wbs_payload for windows of every length, and
\* the plan can be confirmed.
MockPlansPass ==
    over /\ mode = "mock" /\ ask.kind = "wbs_generate" => draft.confirmable

\* build_mock_replan leaves out the days other goals have rows on, which
\* validate_replan_payload wants filled, and ends every unfinished task on the last
\* day, however late it starts: a mock replan passes exactly when there is something to
\* plan, every day is free and no task starts too late; or, for a deadline that no free
\* day is left before, as one that asks for time.
MockReplansPass ==
    over /\ mode = "mock" /\ IsReplan =>
      (logs # <<>> <=>
         /\ Incomplete(ask) # {}
         /\ IF Free(ask) = {} THEN ask.kind = "deadline_replan"
            ELSE /\ Free(ask) = Window(ask)
                 /\ \A c \in Incomplete(ask) : ask.starts[c] <= ask.requested
                 /\ ask.kind = "deadline_replan" => ask.current < ask.requested)

\* A task of less than 200 planned days can be planned again until all its days are
\* done: the rounding of its progress does not finish it early (day_close.py:174).
UnfinishedCanBePlanned ==
    IsReplan => \A c \in Tasks :
      ask.worked[c].planned < 200 /\ ask.worked[c].done < ask.worked[c].planned
        => c \in Incomplete(ask)

\* Claim of day_close.py:114: when the LLM fails on a Sunday, the active plan stays as
\* it is.  A replan that has not replaced the rows has left the milestones alone.
SundayFailureKeepsPlan ==
    [][ask.kind = "sunday_replan" /\ rows' = rows => windows' = windows]_vars

=============================================================================
