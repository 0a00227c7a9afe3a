------------------------------ MODULE MockLlm ------------------------------
(***************************************************************************)
(* The answers of LLM_MODE = mock (src/app/llm/mock.py), which go through  *)
(* the same validation as the LLM's.                                       *)
(***************************************************************************)
EXTENDS Replies

Larger(x, y) == IF x > y THEN x ELSE y
Smaller(x, y) == IF x < y THEN x ELSE y

-----------------------------------------------------------------------------
(* build_mock_plan: three thirds with a milestone and a task each.         *)

\* The last days of the first and of the second third.
FirstCut(q) ==
    LET t1 == q.first + Larger(1, (q.requested - q.first + 1) \div 3) - 1
    IN  IF t1 >= q.requested THEN q.first ELSE t1

SecondCut(q) ==
    LET t2 == q.first + Larger(2, (2 * (q.requested - q.first + 1)) \div 3) - 1
        t3 == IF t2 <= FirstCut(q) THEN Smaller(q.requested, FirstCut(q) + 1) ELSE t2
    IN  IF t3 >= q.requested THEN q.requested - 1 ELSE t3

\* Mutant: each third starts where the one before it ends.
OverlappingThird(q, i) ==
    [start |-> CASE i = 1 -> q.first [] i = 2 -> FirstCut(q) [] i = 3 -> SecondCut(q),
     end   |-> CASE i = 1 -> FirstCut(q) [] i = 2 -> SecondCut(q) [] i = 3 -> q.requested]

Third(q, i) ==
    [start |-> CASE i = 1 -> q.first [] i = 2 -> FirstCut(q) + 1 [] i = 3 -> SecondCut(q) + 1,
     end   |-> CASE i = 1 -> FirstCut(q) [] i = 2 -> SecondCut(q) [] i = 3 -> q.requested]

\* Below three days there is one part; of three, none starts after the end.
Parts(q) ==
    IF q.requested - q.first + 1 < 3 THEN {1}
    ELSE {i \in 1..3 : Third(q, i).start <= q.requested}

Part(q, i) ==
    IF q.requested - q.first + 1 < 3 THEN [start |-> q.first, end |-> q.requested]
    ELSE [start |-> Third(q, i).start,
          end   |-> Smaller(Larger(Third(q, i).end, Third(q, i).start), q.requested)]

MockPlan(q) ==
    [mils  |-> [i \in Parts(q) |-> Part(q, i)],
     tasks |-> [i \in Parts(q) |->
                   [mil |-> i, start |-> Part(q, i).start, end |-> Part(q, i).end]],
     rows  |-> UNION {{[day |-> d, code |-> i] : d \in Part(q, i).start..Part(q, i).end} :
                         i \in Parts(q)},
     says  |-> FALSE]

-----------------------------------------------------------------------------
(* build_mock_replan: the unfinished tasks in turns, on the free days.     *)

Free(q) == Window(q) \ q.busy

\* The k-th element of a set of numbers, from 0 on.
Element(S, k) == CHOOSE x \in S : Cardinality({y \in S : y < x}) = k

Turn(q, d) ==
    LET before == Cardinality({e \in Free(q) : e < d})
    IN  Element(Incomplete(q), before % Cardinality(Incomplete(q)))

WindowsOfTasks(q) ==
    [c \in Incomplete(q) |-> [start |-> Larger(q.first, q.starts[c]), end |-> q.requested]]

MilestonePct(q, m) ==
    LET kids == {c \in Tasks : MilestoneOf[c] = m}
        pct(c) == PctOf(q, c)
    IN  Mean(MapThenSumSet(pct, kids), Cardinality(kids))

OpenMilestones(q) == {m \in Milestones : MilestonePct(q, m) < 100}

NoUpdates == [c \in {} |-> Bad]

\* Mutant: busy days are planned as well.
MockRowsEveryDay(q) == {[day |-> d, code |-> Turn(q, d)] : d \in Window(q)}

MockRows(q) == {[day |-> d, code |-> Turn(q, d)] : d \in Free(q)}

MockReplan(q) ==
    IF Incomplete(q) = {} \/ q.first > q.requested
    THEN [rows |-> {}, end |-> NoDate, tasks |-> NoUpdates, mils |-> NoUpdates,
          says |-> Incomplete(q) # {}]
    ELSE [rows |-> MockRows(q), end |-> NoDate, tasks |-> WindowsOfTasks(q),
          mils |-> IF Free(q) = Window(q)
                   THEN [m \in OpenMilestones(q) |-> [start |-> NoDate, end |-> q.requested]]
                   ELSE NoUpdates,
          says |-> Free(q) # Window(q)]

=============================================================================
