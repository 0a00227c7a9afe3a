----------------------------- MODULE MCDayClose -----------------------------
(* The goals of two users for TLC: the first has all but the last of them; *)
(* the last, which a batch may reach after midnight, is planned on day 1.  *)
EXTENDS DayClose, TLC

CONSTANTS b1, b2

Owners == [g \in 1..NumGoals |-> IF g < NumGoals THEN 1 ELSE 2]
Plans == [g \in 1..NumGoals |-> IF g = NumGoals THEN {1} ELSE {}]

BatchSymmetry == Permutations(Batches)

=============================================================================
