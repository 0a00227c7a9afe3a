----------------------------- MODULE MCJobQueue -----------------------------
(* Instances of JobQueue for TLC: up to three jobs on one or two goals.    *)
EXTENDS JobQueue, TLC

CONSTANTS j1, j2, j3, g1, g2, w1, w2, w3

OneGoal == [j \in Jobs |-> g1]
TwoGoals == [j \in Jobs |-> IF j = j3 THEN g2 ELSE g1]

=============================================================================
