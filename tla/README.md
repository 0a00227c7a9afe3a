# personal_milestone: a verification project

`personal_milestone` is a backend (FastAPI, SQLAlchemy, MySQL, Celery over
RabbitMQ) that has an LLM turn a goal into a plan of one task a day, follows what
the user does each day, moves on what was not done, and replans when the
deadline changes or a week ends. This directory holds TLA+ models of its
protocols, the TLC runs that check them and proofs TLAPS checks. Paths below are
relative to `src/app` unless they say otherwise.

## 1. The system

| Component | Code | State | Operations | Talks to |
|---|---|---|---|---|
| LLM job queue | `services/jobs.py`, `celery_app.py` | `jobs` rows; broker messages; a worker's transaction | accept, dispatch after commit, deliver, run, retry, mark failed | plan persistence, broker |
| Stale job sweep | `services/jobs.py:272` | `jobs` rows | Beat, every 300 s | job queue (shared rows) |
| Plan generations | `llm/persist.py`, `llm/replan_run.py`, `llm/replan_persist.py`, `services/wbs.py`, `services/assignments.py` | `wbs_generations`, `task_nodes`, `day_assignments` | generate, replan, confirm, cancel, supersede | jobs, deadline changes, day entries |
| Deadline changes | `routers/goals.py:158-319`, `services/goals.py:78` | `deadline_changes`, `goals.plan_end_date` | ask, confirm, cancel, edit, apply | jobs, generations |
| Today's tasks | `services/today.py` | `day_entries` | complete, uncomplete, incomplete | assignments |
| Day close | `services/day_close.py`, `celery_app.py:75`, `routers/internal.py` | `job_runs`, entries, assignments, progress | Beat at 23:50, or by hand for any day; all users and goals in one transaction | everything a plan has; on Sundays the LLM |
| Goals | `services/goals.py` | `goals` | create, archive, edit | jobs |
| Asking the LLM | `llm/generate.py`, `llm/replan_run.py`, `llm/replan_persist.py`, `llm/persist.py` | `llm_call_logs`, failed generations, what an answer changes | first call, second call, store, give up | validation, the job or the close that asks |
| Answer validation | `llm/validate.py`, `llm/replan_validate.py`, `llm/replan_deadline.py`, `llm/schema.py` | none | pure | asking the LLM |
| Prompts and context | `llm/prompt.py`, `llm/replan_prompt.py`, `llm/replan_context.py` | none | read the plan | replan |
| Rule-based replan | `llm/replan.py` | none | pure; tests only | - |
| Mock answers | `llm/mock.py` | none | pure | asking the LLM, validation |
| DeepSeek client | `llm/deepseek.py` | none | HTTP with a 60 s timeout | - |
| Home, Gantt | `services/home.py`, `services/gantt.py` | none | read-only views | - |
| Login, config, start-up, migrations, preview | the rest | - | - | - |

**What is hard here.** A request commits and only then publishes, in an
`after_commit` hook; a delivery may be repeated (`acks_late`) and runs of one
goal may overlap, each in a REPEATABLE READ snapshot taken before an LLM call
that lasts up to two minutes. The only thing that stops two runs is the busy
check, which locks nothing, and `UNIQUE(goal_id, version)`. A plan is changed by
three parties, the user, the jobs and the day close, and what one wrote
(entries of a draft's copied tasks, a change the user cancelled) meets what
another assumed. `PROJECT.json` lists every such hazard at its line.

**What makes each component correct.**

- *Job queue*: one plan version per job at most; "succeeded" exactly when the
  version is there; "failed" only when the dispatch failed; every accepted job
  ends; a goal has one job at a time.
- *Sweep*: a run of more than 90 s is failed.
- *Generations*: the goal points at its one active generation; one open draft;
  what is retired leaves no rows; past days and reports survive.
- *Deadlines*: the deadline is the latest applied change's, moves only later, and
  the active plan reaches it and does not go beyond it.
- *Day close*: a day is closed once; a batch leaves out nobody and closes one day
  per user, the same or a later one for users it comes to later; what is undone is
  moved once and only by a close on record; no report is overwritten that the
  close could have seen; every day is closed (it is not: see findings).
- *Asking the LLM and validation*: what comes of a question is a plan with one
  unfinished task on each day of its window, the old plan again, or nothing; what
  failed is on record (it is not: see findings).
- *Mock answers*: a plan passes the validation that real ones have to pass, and a
  replan does exactly when every day of its window is free for it.
- *Progress*: 100 % means done.
- *Views*: home page and chart agree; what is done stays green; what is finished
  has nothing left to do.

## 2. Modules and plan

| Module | Content | State |
|---|---|---|
| `JobQueue` | jobs, API process, broker, workers | done |
| `JobContract` | what a polling client may rely on; `JobQueue` implements it | done |
| `JobSweep` | composes `JobQueue` with Beat's sweep | done |
| `JobQueueProofs` | two inductive invariants, seven theorems | done |
| `JobSweepProofs` | the queue with the sweep is still the queue, three theorems | done |
| `Plan` | one goal: generations, deadlines, reports, day close | done |
| `PlanProofs` | inductive invariant, thirteen theorems | done |
| `DayClose` | the close of all users' goals in one transaction, beside their reports and other closes | done |
| `DayCloseProofs` | inductive invariant, five theorems | done |
| `Progress` | percentages with Python's rounding, used by `Plan` and `Replies` | done |
| `ProgressProofs` | when 100 % means done, three theorems | done |
| `Replies` | the validators and the deadline's arithmetic, as operators on answers | done |
| `MockLlm` | the mock's answers, as operators | done |
| `MockLlmProofs` | its plans pass, and its replans exactly when all days are free, two theorems | done |
| `Answers` | one question to the LLM, from the first call to what is stored | done |
| `AnswerContract` | what the asker may rely on; `Answers` implements it | done |
| `AnswersProofs` | five theorems, the refinement among them | done |
| `Views` | home page, chart and what a replan is told, on top of `Plan` | done |
| `ViewsProofs` | what is finished and what is done stays so, three theorems | done |
| `MCJobQueue`, `MCJobSweep`, `MCPlan`, `MCDayClose`, `MCAnswers` | instances for TLC | done |

`JobSweep` composes the queue with Beat's sweep, `Views` composes the plan with what
reads it, `Answers` the mock, the validators and the two askers. `Plan` uses the
result of `Answers` and not its detail, and `AnswerContract` stands between the two:
`AnswersProofs` proves that what a question leaves is what the contract says, and
`PlanProofs` that how a job ends in `Plan` is what the contract says
(`AnswersKeepContract`, with `Plan`'s own state in the place of the contract's) and
that none of its fillings is missing among those `Plan` chooses from. In the same way
`DayClose` treats a goal as one task and `Plan` treats a batch as one goal's
`CloseDay`.

What is left of the plan: confirmations, replans and closes of one goal whose
transactions overlap. `Plan` serialises them, and what `confirm_generation` would
do in a stale snapshot is listed as a hazard without a property.

## 3. How the models correspond to the code

### JobQueue

`status` holds **committed** rows only. A worker in `running` has flushed
`job.status = "running"` and holds the row lock; nobody else sees that value,
which is what the sweep's finding is about. `req[j]` is the request that creates
job j: `checked` (past `assert_goal_not_busy`), `committed`, then the hook:
`sent`, or `raised`, `read`, `marked` (`_mark_dispatch_failed`), or `crashed`.
`gens[g]` is the sequence of jobs that made versions 1, 2, ... of goal g's plan;
`seen[w]` is the last version in the snapshot worker w's transaction took when it
read the job, so that `Persist` inserts `seen[w] + 1` and `VersionConflict` is
the UNIQUE constraint refusing it.

| Action | Code |
|---|---|
| `Check`, `CommitJob` | `enqueue_job` in a request, then `db.commit()` |
| `Publish`, `PublishRaises` | the `after_commit` hook: `process_job_task.delay` |
| `ReadForMark`, `WriteMark`, `MarkFails` | `_mark_dispatch_failed` |
| `Receive` | `db.get(Job)`, the tests of "no row" and "succeeded" |
| `Lock`, `LockTimeout` | the flush of "running" |
| `Persist`, `VersionConflict`, `LlmFails` | the run and its commit, or its exception, `rollback`, and `autoretry_for` |
| `Ack`, `WorkerLost`, `Redeliver` | `task_acks_late` and the broker |
| `ApiCrash` | the API process dies before the hook |

`Lossy` allows failures that lose a message for good; `Redeliveries` allows the broker
to repeat a delivery that is still going on or over already; `AmbiguousPublish` is the
set of jobs whose `delay` may raise although the broker has the message; `MaxFaults`
bounds failures of the environment. A job of an ambiguous dispatch is the one that can
be marked failed and run all the same. `WriteMark` overwrites whatever the row says by
then, and if that is "succeeded", a repeated delivery runs the job again. The
properties say so for these jobs and nothing weaker for the others, and `JobContract`
is told of them by its constant `Doubtful`. Retries are immediate: the back-off
changes no order that the model does not already allow.

### JobSweep

`JobQueue` plus `overdue` (runs that have taken more than 90 s) and Beat's
`Sweep`. `Sweep` tests `status[j] = "running"` as the code does.

### Plan

One goal; an action is one committed transaction. A task of generation g is the
pair (g, code), because each generation inserts nodes of its own. `rows[g]` are
the assignments of g's tasks, `entry[g]` the reports, `finished[g]` the codes
whose progress is 100, `draft[g]` what g was made of: the end requested when
the replan ran and the end the answer suggested. `sug < req` is the code's
"shorter", `sug > req` "longer" (cannot be confirmed), `sug = req` "none". For
the first plan `sug > req` stands for an answer with `suggested_deadline_change`.

The LLM is any answer that `AnswerContract` lets through: one task on each day of
the window, among the unfinished ones. `Postpones` is the check of both ways of
asking for a later end. `CloseDay(d)` allows `d` from `MaxLag` days before today to
`MaxLead` days after: the internal route takes any `as_of`. `closed[d]` is the day on
which `d` was closed. `finished` is computed by `Progress!Pct`, with
the code's rounding. Milestones' dates, notes and sort orders do not affect any of
this and are left out. A goal has one job at a time and a job runs at once, in one
transaction: what happens otherwise is `JobQueue`'s subject.

### DayClose

`Begin` takes the snapshot `snap[b]` of a REPEATABLE READ transaction. `NextUser`
finds out the day `day[b][u]` to close for the next user, and `CloseGoal` takes the
user's goals, one by one, as the two loops of `run_day_close` do; `Commit` writes what
the snapshot decided (`Marks`, `Defers`) onto the rows as they are then. A Sunday's
LLM calls may take a batch past midnight, so `NextDay` may happen between two users.
All users live in one time zone, `routers/auth.py:24` creates each with
`Asia/Shanghai` and nothing changes it. What a batch has flushed follows from
`snap[b]`, `day[b]` and `next[b]`, so no variable holds it; other batches meet it as a
lock (`Claimed`, `EntryLocked`) and, once it is committed, as a unique key that
refuses theirs (`Collides`). `Collide` and `Fail` are the exceptions that leave the
loop: everything is rolled back, the message is acknowledged (`Ack`) and not sent
again. `Lose` and `Redeliver` are Celery and the broker with `acks_late`. `BeginTask`
leaves every day to be found out; `BeginRoute` does so too or is given one, past or
future, for all users. Users go on reporting (`CompleteToday`, `UncompleteToday`,
`IncompleteToday`) while a batch is open. InnoDB's locks are modelled as far as they
decide who waits for whom on the same row.

### Replies, MockLlm, Answers

A question `q` is a record: the first day, the current and the requested end, how much
of each task is done, which days other goals occupy. An answer is a record of rows and
of new windows of tasks and milestones; a date that cannot be parsed is `Bad`; `says`
is a new plan's `suggested_deadline_change`. `ValidPlan`, `ValidReplan` and
`AsksForTime` are the validators, check by check, and `SuggestedEnd`,
`LaterThanCurrent` and `Adjustment` are `compute_replan_deadline_meta`. Answers that
are no JSON, have another shape or a forbidden field are `AnswerFails`, which any
answer may be.

| Action of `Answers` | Code |
|---|---|
| `AnswerFails` | a call or an answer fails; it is logged, and asked again once |
| `MakePlan` | `persist_succeeded_generation`; a plan that asks for time is kept, and `confirm_generation` refuses it (`services/wbs.py:122`) |
| `MakeDraft` | `persist_suggested_replan`, also for an answer that asks for time |
| `RewritePlan` | `persist_active_replan` on a Sunday |
| `RewriteBreaks` | ... which stops in the middle at a date it cannot parse, and the close commits |
| `DraftBreaks` | the same in a job, which is rolled back |
| `MockFails` | a mock answer that does not pass is not asked for again |
| `GiveUp` | the second call failed too, or there is nothing to ask |

A failure stores a failed generation and a log of each call (`persist.py`), but the
job that asked raises then and rolls both back; what a failure leaves behind is
therefore `JobQueue`'s question (`FailureIsRecorded`) and not one of this module.

### Views

Operators over `Plan`'s state: `TodayTasks` and `RestOfWeek` (`build_home`), `Cell`
(`build_gantt` and `cell_status`), `RemainingDays` (`_remaining_days`). A milestone is
the set of its tasks' codes, and the properties quantify over all of them.

## 4. Runs

| Run | Instance | Shows |
|---|---|---|
| `JobQueueFaults` | 3 jobs, one of which may have an ambiguous dispatch, 2 goals, 2 workers, 2 retries, 3 faults | one version per job, two at most for the ambiguous one; "succeeded" tells the truth and a failed job is never run, but for it; the queue implements `JobContract`, whatever is lost or repeated |
| `JobQueueLive` | 2 jobs, both with ambiguous dispatches, 1 goal, 3 workers, 3 retries, 2 faults; nothing lost, nothing delivered twice | every accepted job ends, and none is stranded on the way |
| `JobQueueBusy` | 2 jobs, no fault | *violation*: two queued jobs of a goal |
| `JobQueueExhausted` | 1 job, 4 faults | *violation*: after the last attempt the row is queued for ever, and the failed generation is lost too |
| `JobSweepMissed` | 1 job, 1 sweep | *violation*: the sweep misses an overdue run |
| `PlanDeadlines` | 1 task, 3 generations, 2 changes, 1 day | generations and deadline agree, in every order of requests; a job ends as `AnswerContract` says, and so does one whose answer asks for more time |
| `PlanDays` | 2 tasks, 3 days with a Sunday, each closed on the day or the day after, 2 generations, 1 change | the plan covers the future to the deadline; the past, its reports and its green cells are kept; what is finished has nothing left; home and chart agree; a job ends as `AnswerContract` says |
| `PlanDoneLost` | 1 task, 3 days, 2 generations, 1 change | *violation*: a completed task is undone by confirming a draft |
| `DayCloseOverlap` | 3 goals of 2 users, 2 processes, 2 days, 1 fault, 1 manual run | closed once; nobody left out, and one day per user; what a close moves and overwrites |
| `DayCloseUnclosed` | 3 goals of 2 users, no fault | *violation*: a day nobody closes |
| `Answers` | 8 new plans, 28 replans, 27 Sundays; some ten thousand answers; both modes | what is stored is one unfinished task a day, the old plan or nothing; a mock plan passes, a mock replan when all days are free |
| `AnswersSundayPart` | the same | *violation*: a Sunday answer that breaks off changes milestones |

**Why these bounds.** Two jobs of one goal and two workers give every overlap of two
runs, of a run and a marking, and of two deliveries of one job; the third job brings a
second goal. One ambiguous dispatch meets two jobs without. Two retries and three
faults let a job be repeated, fail and be repeated again. Three generations and two
changes are the fewest that have an active plan, an open draft and the one that
supersedes it, each with a change of its own; three days with a Sunday in the middle
have a past, a today and a future on both sides of the weekly replan, and two tasks
let one be finished while the other goes on. Two batches and three goals give every
overlap of two closes at every point of their loops: within a user's goals, and
between two users, where midnight may pass; a fault can kill one batch or repeat a
message to the other. The mock's thirds depend on the window's length only, and from
nine days on they are apart; the replans have ends before, on and after the requested
one, tasks that are finished, started and untouched, and the two sides of the rounding
(198 of 199, 199 of 200). `CHECK_DEADLOCK FALSE` everywhere: requests are optional and
bounded, so every instance comes to rest when all are served.

`MaxLag` is 1 in `PlanDays`: a day may be closed late, by hand, which changes days that
have begun and, on a Sunday, rewrites them; that is the purpose of `as_of`.
`HistoryKept` and `DoneCellsStay` are about the days too old to be closed, and are
proved for every `MaxLag` and `MaxLead`; days closed before they come (`MaxLead`) are in
the proofs only. `FinishedHasNothingLeft` is about histories in which every close was
on the day itself (`OnTime`, by `closed`), and false otherwise: closing yesterday late
counts a task reported done today, and when the user takes that report back, the
task that counts as finished has today before it again.

**Liveness is tight.** `EveryJobEnds` holds with two jobs of a goal and two failures,
with three workers. One failure more, or one delivery repeated, and version conflicts
and lock timeouts use up the three retries that are meant for LLM failures: a job ends
"queued" though nothing went wrong with its own answer. `NobodyIsStranded` proves the
bound behind it: jobs of the goal and failures together may be `MaxRetries + 1` at
most.

**Fairness.** `FairSpec` asks that the API process carries an accepted request
to the end of its hook, and that a worker that is up takes deliveries and
finishes what it took: the LLM call has a timeout (`llm/deepseek.py:9`), a wait
for a row lock has one, and Celery workers loop for ever. It is weak fairness
per job and per worker; nothing obliges a user or a failure.

## 5. Proofs

`JobQueueProofs` proves, for any jobs, goals, workers, retries and failures:

- `TypeCorrect`: the type invariant.
- `OneGeneration`: `OneGenerationPerJob`.
- `SucceededHasGeneration`: `SucceededIffGeneration`.
- `FailedNeverRun`: `FailedIsNeverRun`.
- `ContractKept`: `JobQueue` implements `JobContract` (initial states and every step,
  by refinement), ambiguous dispatches included.
- `StrandedOnlyByFailures` and `NobodyIsStranded`: `NoStrandedJob`, if nothing is
  lost and nothing delivered twice, and each goal's jobs and the failures are
  `MaxRetries + 1` together at most.

The argument is one inductive invariant, `IInv`. `OneGenerationPerJob` alone is not
inductive: nothing in it keeps a second run of a job from committing. `IInv` adds
where messages come from (`Deliveries`, `Requests`), that a version belongs to a job
that was delivered (`Lineage`), and the reason the constraint works (`Snapshots`):
once its job says "succeeded", a run that has not committed yet has a snapshot older
than the goal's last version, and cannot commit. `Receive` establishes it (a run
starts only if the row does not say "succeeded"), `Persist` of another worker keeps it
(it makes the goal's last version newer), and `Persist` itself uses it. An ambiguous
dispatch is marked once, so that a job it failed in between makes one version more and
no third. The only assumption of the first five is `ConstantsAssumption`.

That nobody is stranded needs a count, which `SInv` makes without induction. A job
has one delivery (`OneDelivery`), of a job that has made nothing yet (`NotYetMade`),
and `Attempts` bounds its retries by the versions of the goal plus the failures so
far; for a running worker, by the version its snapshot has seen. So a version
conflict, which costs a retry, is paid by the version that made it, an LLM failure
by itself, and `Served` follows: a queued job without message or worker has had
more of them than `MaxRetries`. The versions of a goal are made by different jobs,
none of them queued (`FewerVersions`), which turns `Served` into `NoStrandedJob`.

`JobSweepProofs` shows that the queue with the sweep beside it is the queue
(`SweepKeepsQueue`), so that all of the above holds with it too
(`SweepKeepsPromises`), for a bad reason: no sweep ever changes anything
(`SweepChangesNothing`), since the status it looks for is never committed.

`PlanProofs` proves, for any codes, calendar, days, lateness or earliness of closes,
generations and changes, every property of `Plan` that the runs `PlanDeadlines` and
`PlanDays` check: `TypeCorrect`, `ActivePlanIsOne`, `ReplanDraftIsOne`,
`RetiredPlansStayEmpty`, `DeadlineFollowsChanges`, `DeadlineOnlyLater`, `PlansFit`,
`PlansReach`, `PastIsKept`, `ReportsAreKept` and `JobsGetTheAnswersAllowed`; nothing
is assumed but `ConstantsAssumption`.

`JobsGetTheAnswersAllowed` instantiates `AnswerContract` with `Plan`'s state, once for
every generation a job may make (`Contract(g)`): a new plan is the contract's
`NewPlan`, a replan its `Shift` or, when the answer asks for more time, its `Hold`.
`EveryAnswerIsTaken` is the converse for the fillings of a window. Together with
`ContractKept` of `AnswersProofs` they are what allows the two modules to be
checked apart. Writing the statement down corrected `Answers`, in which a new plan
that asks for more time could be confirmed, while `Plan` and the code refuse it.

Here the invariant is needed because a confirmation relies on what several
earlier transactions left. A draft is made for a change and confirmed much later:
the change may have been taken back, another replan may have run, days may have
been closed. `DraftsHaveChanges` says where the change of each draft can stand,
`JobsHaveChanges` that the queued replan's change is not an open draft's,
`DraftsGoFurther` that the draft still ends after the deadline (only confirming
the single open draft moves it), `DraftsFit` that its rows end on, and leave no
day to come empty before, the day it suggests, and `Applied` that an applied end
is never after the deadline. With these, `ConfirmStep` shows that the new
active plan fits and reaches the new deadline. The lemmas `GenerateEffect`,
`ReplanEffect`, `CloseEffect` and `ConfirmEffect` first take the schedules out of
the larger actions, and there is one lemma for the step of each of them. Every
part of both invariants was model-checked before it was proved.

`DayCloseProofs` proves the five properties of `DayCloseOverlap` for any number of
users, goals, days, processes, faults and manual runs: `TypeCorrect`, `DayClosedOnce`,
`ClosedForEverybody`, `DeferralHasClose`, `DoneLostOnlyToStaleClose`. That a day is
closed once is no invariant by itself: two open batches may both have read that no
`JobRun` is there. The strengthening (`Flushed`) says that a goal a batch has passed
and closes is not closed yet and that no other open batch has passed it for the same
day: the second meets the first one's key, or waits for it. `ClosedForEverybody` also needs
that a batch has found out the day of every user it has come to (`Entered`) and that
these days do not go back from one user to the next (`InOrder`). `Snapshots` says that
what a snapshot has seen is still there, and is what the deferred rows rest on.

`ProgressProofs` has no state: up to 199 planned days 100 % means all of them done
(`FullMeansFinished`), and with 200 it does not (`FullMayBeUnfinished`). The mean over
n tasks shows 100 exactly when no more than n/2 points are missing in all
(`FullMean`), so that two tasks at 99 and 100 show 100.

`MockLlmProofs` shows `MockPlanIsValid`: the thirds, mended at their ends, are
consecutive, not empty and cover the window, whatever its length, so that the mock's
plan passes every check of `validate_wbs_payload`. `MockReplanPassesWhenFree` says
exactly which of its replans pass. Its rows take turns by the number of free days
before each; the proof needs no induction, because all that matters of a turn is
that it is one of the tasks.

`AnswersProofs` proves, for all sets of questions, answers and active plans that
`AnswersAssumption` admits: `TypeCorrect`, `MockPlansAlwaysPass` (from
`MockPlanIsValid`), `MockReplansPassWhenFree` (from `MockReplanPassesWhenFree`),
`UnfinishedStaysOpen` (from `FullMeansFinished`) and `ContractKept`, that `Answers`
implements `AnswerContract`: `MakePlan` is its `NewPlan`, `MakeDraft` its `Shift` or
`Hold`, `RewritePlan` its `Rewrite`; what ends a question otherwise is its `Refuse`,
and a call that fails a stutter. The work is in `OneADay` (the validators count rows)
being the same as a function from days to tasks (what the contract promises).

`ViewsProofs` rests on `PlanProofs`. `HomeAndChartAgree` needs its invariant only.
`FinishedStaysFinished` needs more: `FInv` adds that a task has one row a day, that
nothing is reported of days to come, and that a finished task's rows, in every
generation and not just the active one, are over, as long as `OnTime` holds. It
assumes fewer than 200 days, which is where the rounding of progress starts to lie.
`DoneCellsAreKept` combines `PastIsKept` with a lemma on reports.

Only model-checked: `EveryJobEnds`, since liveness under fairness is not for this
prover; `NobodyIsStranded` is its safety part. Every other property of a passing run
is a theorem, as far as its assumptions above go.

## 6. Findings

Seven disagreements between the code and what it says of itself, each with the run
that shows it, are in `PROJECT.json` ("findings"): the unlocked busy check
(`JobQueueBusy`), the failure lost in the rollback and with it the failed generation
and the logs that were to keep the answer (both `JobQueueExhausted`), the sweep that
sees nothing (`JobSweepMissed`), the report deleted on confirming (`PlanDoneLost`), the
days nobody closes (`DayCloseUnclosed`) and the Sunday answer that is stored in part
(`AnswersSundayPart`).

## 7. Not modelled

- Login, configuration, start-up, migrations and the preview page have no protocol.
- The text of prompts is wording. What they say of the plan is in `Replies` (finished
  and unfinished tasks, busy days) and `Views` (`RemainingDays`).
- The DeepSeek client is I/O; its failures are actions of `JobQueue` and `Answers`.
- The eager mode of `enqueue_job` (tests) runs the job inside the request and has
  no interleaving.
- The rule-based replan (`llm/replan.py`) is called by tests only.
- Of the views, the current milestone, titles, the order of lists and the shape of
  the payloads.
- Overlapping transactions on one goal's plan (section 2).
- The preview of a new plan that asks for time says `confirmable`
  (`generation_confirmable`, `llm/replan_persist.py:295`) although confirming it is
  refused; the models say what confirming does.
- A goal deleted while a job of it runs still gets a generation (`Plan` models
  this; no property says what should happen).
