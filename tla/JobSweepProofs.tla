--------------------------- MODULE JobSweepProofs ---------------------------
(***************************************************************************)
(* What Celery Beat's sweep changes, for any number of jobs and workers,   *)
(* of failures and of ticks: nothing.  A worker's "running" is never       *)
(* committed (JobQueue, TypeOK), so that the sweep's query, which sees     *)
(* committed rows, never finds a job; the queue with the sweep is the      *)
(* queue without it, and keeps what the queue keeps.                       *)
(***************************************************************************)
EXTENDS JobSweep, JobQueueProofs

\* A row that says one of the committed statuses is one the sweep leaves alone.
LEMMA SweepIsStutter ==
    ASSUME TypeOK, Sweep
    PROVE  UNCHANGED vars
  <1>1. \A j \in Jobs : status[j] # "running"
    BY DEF TypeOK, Statuses
  <1>2. status' = [j \in Jobs |-> status[j]]
    BY <1>1 DEF Sweep
  <1>3. status' = status
    BY <1>2 DEF TypeOK
  <1>4. QED
    BY <1>3 DEF Sweep, vars

LEMMA SweepStep ==
    ASSUME TypeOK, [SweepNext]_sweepVars
    PROVE  [Next]_vars /\ TypeOK'
  <1>1. [Next]_vars
    BY SweepIsStutter DEF SweepNext, Overrun, sweepVars
  <1>2. QED
    BY <1>1, StepTypeOK

LEMMA SweepTypeCorrect == SweepSpec => []TypeOK
  <1>1. SweepInit => TypeOK
    BY InitTypeOK DEF SweepInit
  <1>2. TypeOK /\ [SweepNext]_sweepVars => TypeOK'
    BY SweepStep
  <1>3. QED
    BY <1>1, <1>2, PTL DEF SweepSpec

\* The job queue with the sweep implements the job queue: each of its steps is one of
\* the queue's or leaves every row, message and worker as it is.
THEOREM SweepKeepsQueue == SweepSpec => Spec
  <1>1. SweepInit => Init
    BY DEF SweepInit
  <1>2. TypeOK /\ [SweepNext]_sweepVars => [Next]_vars
    BY SweepStep
  <1>3. QED
    BY <1>1, <1>2, SweepTypeCorrect, PTL DEF SweepSpec, Spec

\* No tick of the sweep ever fails a job, however long its run has been going on: what
\* jobs.py:17 says of it holds in no instance (the run JobSweepMissed shows it in one).
THEOREM SweepChangesNothing ==
    SweepSpec => [][sweeps' # sweeps => UNCHANGED vars]_sweepVars
  <1>1. TypeOK /\ [SweepNext]_sweepVars => [sweeps' # sweeps => UNCHANGED vars]_sweepVars
    BY SweepIsStutter DEF SweepNext, Overrun, sweepVars
  <1>2. QED
    BY <1>1, SweepTypeCorrect, PTL DEF SweepSpec

\* With the sweep as without it, a job makes one version of the plan at most, it says
\* "succeeded" when that is there and only then, and a failed job is never run.
THEOREM SweepKeepsPromises ==
    SweepSpec => [](OneGenerationPerJob /\ SucceededIffGeneration /\ FailedIsNeverRun)
  BY SweepKeepsQueue, OneGeneration, SucceededHasGeneration, FailedNeverRun, PTL

=============================================================================
