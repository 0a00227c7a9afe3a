------------------------------ MODULE JobSweep ------------------------------
(***************************************************************************)
(* JobQueue with Celery Beat's llm_timeout_sweep_task: every 300 s it      *)
(* fails the jobs whose row says "running" and was updated more than       *)
(* LLM_RUNNING_TIMEOUT_SECONDS ago.  Time is abstracted: a run becomes     *)
(* overdue when its 90 s are over, which may happen to any run (two LLM    *)
(* calls of up to 60 s each, or a lost network).                           *)
(***************************************************************************)
EXTENDS JobQueue

CONSTANT MaxSweeps   \* bound on the ticks of Beat

VARIABLES
    overdue,   \* workers whose run has taken more than 90 s
    sweeps     \* ticks of llm-timeout-sweep so far

sweepVars == <<vars, overdue, sweeps>>

SweepInit == Init /\ overdue = {} /\ sweeps = 0

Running == {w \in Workers : pc[w] = "running"}

Overrun ==
    /\ \E w \in Running \ overdue : overdue' = overdue \cup {w}
    /\ UNCHANGED <<vars, sweeps>>

\* sweep_stale_llm_jobs: a session of its own sees committed rows only.
Sweep ==
    /\ sweeps < MaxSweeps
    /\ sweeps' = sweeps + 1
    /\ status' = [j \in Jobs |->
           IF status[j] = "running" /\ \E w \in overdue : JobAt(w) = j
           THEN "failed" ELSE status[j]]
    /\ UNCHANGED <<req, queue, gens, pc, msg, seen, faults, overdue>>

SweepNext ==
    \/ Next /\ overdue' = overdue \cap Running' /\ UNCHANGED sweeps
    \/ Overrun
    \/ Sweep

SweepSpec == SweepInit /\ [][SweepNext]_sweepVars

\* jobs.py:17 and the docstring of llm_timeout_sweep_task (celery_app.py:95): a
\* sweep marks failed every job whose run has been going on for more than 90 s.
SweepFailsOverdueRuns ==
    [][sweeps' # sweeps => \A w \in overdue : status'[JobAt(w)] = "failed"]_sweepVars

=============================================================================
