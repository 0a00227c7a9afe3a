---------------------------- MODULE JobContract ----------------------------
(***************************************************************************)
(* What the job API promises to a client that polls GET /jobs/{id}:        *)
(* a request that was accepted is a queued job; a queued job ends at most  *)
(* once, either with one new version of its goal's plan ("succeeded") or   *)
(* with none ("failed"); what has ended never changes.  Of a doubtful job, *)
(* whose dispatch raised although the broker took it, less is promised: it *)
(* may be failed after it succeeded and succeed after it was failed.       *)
(* JobQueue is shown to implement it.                                      *)
(***************************************************************************)
EXTENDS Sequences

CONSTANTS Jobs, Goals, GoalOf, Doubtful

VARIABLES status, gens

vars == <<status, gens>>

Init ==
    /\ status = [j \in Jobs |-> "none"]
    /\ gens = [g \in Goals |-> <<>>]

Accept(j) ==
    /\ status[j] = "none"
    /\ status' = [status EXCEPT ![j] = "queued"]
    /\ UNCHANGED gens

Succeed(j) ==
    /\ status[j] = "queued" \/ (j \in Doubtful /\ status[j] = "failed")
    /\ status' = [status EXCEPT ![j] = "succeeded"]
    /\ gens' = [gens EXCEPT ![GoalOf[j]] = Append(@, j)]

Refuse(j) ==
    /\ status[j] = "queued" \/ (j \in Doubtful /\ status[j] = "succeeded")
    /\ status' = [status EXCEPT ![j] = "failed"]
    /\ UNCHANGED gens

Next == \E j \in Jobs : Accept(j) \/ Succeed(j) \/ Refuse(j)

Spec == Init /\ [][Next]_vars

=============================================================================
