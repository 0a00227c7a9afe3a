----------------------------- MODULE MCAnswers -----------------------------
(* Instances of Answers for TLC: two tasks, each with a milestone.  Today  *)
(* is 1, the first day of a question 2.                                    *)
EXTENDS Answers, TLC

\* The third task of an answer is one the plan does not have.
TwoMilestones == <<1, 2>>

Work(d1, p1, d2, p2) == <<[done |-> d1, planned |-> p1], [done |-> d2, planned |-> p2]>>

Ask(kind, current, requested, worked, busy) ==
    [kind |-> kind, first |-> 2, current |-> current, requested |-> requested,
     worked |-> worked, starts |-> <<1, 3>>, busy |-> busy]

\* New plans of one to eight days; deadlines moved by one to four days, of goals that
\* are overdue, due or not, and two that are too late or have been overtaken by another
\* change; Sundays before, on and after the last day; a task that starts after the end.
QuestionsDef ==
    {Ask("wbs_generate", r, r, Work(0, 0, 0, 0), {}) : r \in 2..9}
    \cup {Ask("deadline_replan", p[1], p[2], w, {}) :
            p \in {<<1, 3>>, <<2, 3>>, <<2, 4>>, <<3, 4>>, <<1, 5>>, <<1, 1>>, <<4, 3>>},
            w \in {Work(0, 2, 0, 0), Work(2, 2, 1, 2), Work(198, 199, 1, 1),
                   Work(199, 200, 1, 1)}}
    \cup {Ask("deadline_replan", 2, 4, Work(1, 2, 0, 1), b) : b \in SUBSET (2..4)}
    \cup {Ask("sunday_replan", e, e, w, b) :
            e \in {1, 3, 4}, w \in {Work(0, 2, 0, 1), Work(2, 2, 1, 2), Work(1, 1, 2, 2)},
            b \in {{}, {3}, {2, 3, 4}}}
    \cup {[Ask(k, 2, 4, Work(1, 2, 0, 1), b) EXCEPT !.starts = <<2, 5>>] :
            k \in {"deadline_replan", "sunday_replan"}, b \in {{}, {2, 3, 4}}}

\* No rows to come, or an unfinished task put on top of another one's day.
HeldRowsDef ==
    {{}, {[day |-> 2, code |-> 1], [day |-> 3, code |-> 1], [day |-> 3, code |-> 2]}}

RowsOf(s) == {[day |-> d, code |-> s[d]] : d \in DOMAIN s}
Filled == {RowsOf(s) : s \in UNION {[2..n -> 1..2] : n \in 1..5}}

\* Rows of which one is too many, too early, or has no date or task.
Spoilt == {RowsOf([d \in 2..3 |-> 1]) \cup {r} :
    r \in {[day |-> 3, code |-> 2], [day |-> 1, code |-> 1], [day |-> Bad, code |-> 1],
           [day |-> 4, code |-> 3], [day |-> 5, code |-> 1]}}

Win(s, e) == [start |-> s, end |-> e]
None == [c \in {} |-> Bad]

Updates ==
    {[tasks |-> t, mils |-> None] :
        t \in {None, 1 :> Win(2, 3), 1 :> Win(2, 5), 1 :> Win(3, 2), 1 :> Win(Bad, 3),
               2 :> Win(2, 3), 3 :> Win(2, 3)}}
    \cup {[tasks |-> t, mils |-> m] :
        t \in {None, 2 :> Win(2, 3)},
        m \in {2 :> Win(NoDate, 2), 2 :> Win(2, 3), 1 :> Win(NoDate, Bad), 3 :> Win(2, 3),
               1 :> Win(Bad, 3), (1 :> Win(2, 3)) @@ (2 :> Win(Bad, 3))}}

ReplanRepliesDef ==
    {[rows |-> r, end |-> e, says |-> s, tasks |-> u.tasks, mils |-> u.mils] :
        r \in Filled \cup Spoilt, e \in {NoDate, Bad} \cup 2..6, s \in BOOLEAN, u \in Updates}

TaskIn(m, s, e) == [mil |-> m, start |-> s, end |-> e]

PlanRepliesDef ==
    {[mils |-> m, tasks |-> t, rows |-> r, says |-> s] :
        m \in {<<Win(2, 3)>>, <<Win(2, 5), Win(2, 5)>>, <<Win(2, 3), Win(3, 5)>>,
               <<Win(2, 4), Win(1, 4)>>, <<Win(2, 4), Win(3, 2)>>},
        t \in {<<TaskIn(1, 2, 3)>>, <<TaskIn(1, 2, 3), TaskIn(1, 2, 5)>>,
               <<TaskIn(1, 3, 4), TaskIn(1, 2, 3)>>, <<TaskIn(1, 3, 2)>>, <<>>},
        r \in Filled \cup Spoilt,
        s \in BOOLEAN}

=============================================================================
