--------------------------- MODULE AnswerContract ---------------------------
(***************************************************************************)
(* What asking the LLM for a plan promises to those who ask (GeneratePlan, *)
(* ReplanDeadline and CloseDay of Plan, and the users who confirm): either *)
(* nothing comes of it, or rows that give every day of the window exactly  *)
(* one task that is still to be done.  Answers implements it.              *)
(***************************************************************************)
EXTENDS Integers

CONSTANT Codes   \* codes an answer may use

VARIABLES
    ask,         \* the question: kind, first, current, requested, open (unfinished tasks)
    over,        \* it has been dealt with
    rows,        \* what the active plan has on the days to come
    draft        \* the suggested generation that was made, if any

vars == <<ask, over, rows, draft>>

NoDraft == [rows |-> {}, sug |-> 0, confirmable |-> FALSE]

OneEach(first, last, codes) ==
    {{[day |-> d, code |-> s[d]] : d \in first..last} : s \in [first..last -> codes]}

\* A new plan fills the goal's days; one that asks for more may not be confirmed.
NewPlan ==
    /\ ask.kind = "wbs_generate"
    /\ draft'.sug >= ask.requested
    /\ draft'.confirmable <=> draft'.sug = ask.requested
    /\ draft'.rows \in OneEach(ask.first, ask.requested, Codes)
    /\ UNCHANGED rows

\* A replan that may be confirmed ends later than the goal does now and not later
\* than asked, and fills the days until then with unfinished tasks.
Shift ==
    /\ ask.kind = "deadline_replan"
    /\ draft'.confirmable
    /\ draft'.sug > ask.current /\ draft'.sug \in ask.first..ask.requested
    /\ draft'.rows \in OneEach(ask.first, draft'.sug, ask.open)
    /\ UNCHANGED rows

\* One that may not be confirmed is the active plan again.
Hold ==
    /\ ask.kind = "deadline_replan"
    /\ ~draft'.confirmable
    /\ draft'.sug > ask.requested
    /\ draft'.rows = rows
    /\ UNCHANGED rows

\* A Sunday's replan replaces the active plan's days to come.
Rewrite ==
    /\ ask.kind = "sunday_replan"
    /\ rows' \in OneEach(ask.first, ask.requested, ask.open)
    /\ UNCHANGED draft

Refuse == UNCHANGED <<rows, draft>>

Next ==
    /\ ~over /\ over'
    /\ NewPlan \/ Shift \/ Hold \/ Rewrite \/ Refuse
    /\ UNCHANGED ask

Init == ~over /\ draft = NoDraft

Spec == Init /\ [][Next]_vars

=============================================================================
