----------------------------- MODULE MCJobSweep -----------------------------
(* One job and one goal are enough for the sweep to miss an overdue run.   *)
EXTENDS JobSweep

CONSTANTS j1, g1, w1

OneGoal == [j \in Jobs |-> g1]

=============================================================================
