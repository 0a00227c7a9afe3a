------------------------------ MODULE DayClose ------------------------------
(***************************************************************************)
(* The end of a day, for all goals at once: Celery Beat's day_close_task   *)
(* (src/app/celery_app.py) and the internal route that runs the same       *)
(* run_day_close (src/app/services/day_close.py), beside users who go on   *)
(* reporting and beside each other.                                        *)
(*                                                                         *)
(* A batch is one transaction over every goal.  It reads from the snapshot *)
(* it took at its start (MySQL, REPEATABLE READ), writes to the rows as    *)
(* they are, and may stay open for long: on Sundays it calls the LLM for   *)
(* one goal after the other, so that midnight may pass: the day to close   *)
(* is found out for each user when the batch comes to him.  What a batch   *)
(* has flushed and not yet committed follows from its snapshot and from    *)
(* how far it got, so only committed data is kept in rows, entry, closes.  *)
(*                                                                         *)
(* All users are in one time zone: routers/auth.py:24 creates every user   *)
(* with Asia/Shanghai and nothing changes it.                              *)
(*                                                                         *)
(* A goal here is active or planning all the time and has one task; what   *)
(* closing does to a goal's generations is Plan's CloseDay.                *)
(***************************************************************************)
EXTENDS Integers, FiniteSets

CONSTANTS
    NumUsers,    \* number of users
    NumGoals,    \* number of goals
    Owner,       \* Owner[g]: the user goal g belongs to
    FirstPlan,   \* FirstPlan[g]: the days g's task is planned on at first
    Batches,     \* processes that may run a batch
    LastDay,     \* bound on the passing of days
    Sundays,     \* the days that are Sundays
    MaxFaults,   \* bound on failures of the environment
    MaxManual    \* bound on runs of the internal route

ASSUME ConstantsAssumption ==
    /\ NumUsers \in Nat /\ NumGoals \in Nat /\ LastDay \in Nat \ {0}
    /\ Owner \in [1..NumGoals -> 1..NumUsers]
    /\ \A g, h \in 1..NumGoals : g < h => Owner[g] <= Owner[h]
    /\ FirstPlan \in [1..NumGoals -> SUBSET (1..LastDay)]
    /\ MaxFaults \in Nat /\ MaxManual \in Nat

Users == 1..NumUsers          \* in the order the batch takes them
Goals == 1..NumGoals          \* so are these, user by user
Days == 1..LastDay
Planned == 1..(LastDay + 1)   \* days that may have a row
NoTick == 0                   \* run by the internal route
NoDay == 0

VARIABLES
    today,    \* user_today
    fired,    \* days on which Beat has sent day_close_task
    ticks,    \* those messages of Beat that wait at the broker
    rows,     \* rows[g][d]: source of the DayAssignment of g's task on day d
    entry,    \* entry[g][d]: status of the DayEntry of g's task on day d
    closes,   \* closes[g][d]: how often a committed batch closed day d of g
    pc,       \* pc[b]: "idle", "open" or "ack" (over, not yet acknowledged)
    tick,     \* tick[b]: the message b is working on
    day,      \* day[b][u]: the day b closes for user u, once it has found out
    snap,     \* snap[b]: the committed data b reads
    next,     \* next[b]: the goal b takes next
    faults,   \* failures of the environment so far
    manual    \* runs of the internal route so far

data == <<rows, entry, closes>>
batch == <<pc, tick, day, snap, next>>
bounds == <<faults, manual>>
vars == <<today, fired, ticks, data, batch, bounds>>

Statuses == {"none", "pending", "not_done", "done"}
Unknown == [u \in Users |-> NoDay]
Committed == [rows : [Goals -> [Planned -> {"none", "plan", "defer"}]],
              entry : [Goals -> [Days -> Statuses]], closes : [Goals -> [Days -> Nat]]]
Nothing == [rows |-> [g \in Goals |-> [d \in Planned |-> "none"]],
            entry |-> [g \in Goals |-> [d \in Days |-> "none"]],
            closes |-> [g \in Goals |-> [d \in Days |-> 0]]]

\* job_runs has a succeeded row day_close:{goal}:{day}.
Ran(g, d) == closes[g][d] > 0

Open(b) == pc[b] = "open"

Fault == faults < MaxFaults /\ faults' = faults + 1

Init ==
    /\ today = 1
    /\ fired = {} /\ ticks = {}
    /\ rows = [g \in Goals |-> [d \in Planned |->
                  IF d \in FirstPlan[g] THEN "plan" ELSE "none"]]
    /\ entry = [g \in Goals |-> [d \in Days |-> "none"]]
    /\ closes = [g \in Goals |-> [d \in Days |-> 0]]
    /\ pc = [b \in Batches |-> "idle"]
    /\ tick = [b \in Batches |-> NoTick]
    /\ day = [b \in Batches |-> Unknown]
    /\ snap = [b \in Batches |-> Nothing]
    /\ next = [b \in Batches |-> 1]
    /\ faults = 0 /\ manual = 0

-----------------------------------------------------------------------------
(* What batch b does to goal g, decided by its snapshot.                   *)

\* The day b closes for g's user.
Day(b, g) == day[b][Owner[g]]

\* Goals that have a succeeded JobRun are skipped.
Closes(b, g) == snap[b].closes[g][Day(b, g)] = 0

HasRow(b, g, d) == snap[b].rows[g][d] # "none"
Reported(b, g) == snap[b].entry[g][Day(b, g)]

\* Mutant: whatever is not "not_done" yet becomes it.
MarksAll(b, g) == Closes(b, g) /\ HasRow(b, g, Day(b, g)) /\ Reported(b, g) # "not_done"

\* _close_goal_day: no entry, or a pending one, becomes "not_done".
Marks(b, g) ==
    Closes(b, g) /\ HasRow(b, g, Day(b, g)) /\ Reported(b, g) \in {"none", "pending"}

\* _stack_assignment: what is not done is planned again tomorrow, not on Sundays.
Defers(b, g) ==
    /\ Closes(b, g) /\ HasRow(b, g, Day(b, g)) /\ Reported(b, g) # "done"
    /\ Day(b, g) \notin Sundays
    /\ ~HasRow(b, g, Day(b, g) + 1)

Done(b, g) == Open(b) /\ g < next[b]     \* b has flushed what it does to g

\* UNIQUE(job_type, biz_key): whoever inserted the JobRun first holds its lock.
Claimed(b, g) ==
    \E c \in Batches \ {b} : Done(c, g) /\ Closes(c, g) /\ Day(c, g) = Day(b, g)

\* Mutant: no UNIQUE(job_type, biz_key), nor UNIQUE(task_id, work_date).
NeverCollides(b, g) == FALSE

\* An INSERT finds a row that was committed after b's snapshot: of job_runs, of
\* day_entries UNIQUE(task_id, work_date), of day_assignments UNIQUE(.., plan_date).
Collides(b, g) ==
    /\ Closes(b, g)
    /\ \/ Ran(g, Day(b, g))
       \/ Marks(b, g) /\ Reported(b, g) = "none" /\ entry[g][Day(b, g)] # "none"
       \/ Defers(b, g) /\ rows[g][Day(b, g) + 1] # "none"

-----------------------------------------------------------------------------
(* The batch.                                                              *)

\* The first query, for the users, opens the snapshot all later ones read from.
Begin(b, days) ==
    /\ pc' = [pc EXCEPT ![b] = "open"]
    /\ day' = [day EXCEPT ![b] = days]
    /\ next' = [next EXCEPT ![b] = 1]
    /\ snap' = [snap EXCEPT ![b] = [rows |-> rows, entry |-> entry, closes |-> closes]]

\* day_close_task, without as_of
BeginTask(b) ==
    /\ pc[b] = "idle"
    /\ \E t \in ticks : ticks' = ticks \ {t} /\ tick' = [tick EXCEPT ![b] = t]
    /\ Begin(b, Unknown)
    /\ UNCHANGED <<today, fired, data, bounds>>

\* POST /internal/jobs/day-close/run: as_of is any day, for all users the same, or
\* left out.
BeginRoute(b) ==
    /\ pc[b] = "idle"
    /\ manual < MaxManual
    /\ manual' = manual + 1
    /\ tick' = [tick EXCEPT ![b] = NoTick]
    /\ \E d \in Days \cup {NoDay} : Begin(b, [u \in Users |-> d])
    /\ UNCHANGED <<today, fired, ticks, data, faults>>

\* The next user, once the goals of the users before him are flushed: without as_of,
\* his day is the one it is by now.
NextUser(b) ==
    /\ Open(b)
    /\ \E u \in Users :
        /\ day[b][u] = NoDay /\ \A v \in Users : v < u => day[b][v] # NoDay
        /\ \A g \in Goals : Owner[g] < u => Done(b, g)
        /\ day' = [day EXCEPT ![b] = [@ EXCEPT ![u] = today]]
    /\ UNCHANGED <<today, fired, ticks, data, pc, tick, snap, next, bounds>>

\* The user's next goal: skipped, or its JobRun, entry and deferred row are flushed.
CloseGoal(b) ==
    /\ Open(b) /\ next[b] \in Goals /\ Day(b, next[b]) # NoDay
    /\ Closes(b, next[b]) => ~Claimed(b, next[b])
    /\ ~Collides(b, next[b])
    /\ next' = [next EXCEPT ![b] = @ + 1]
    /\ UNCHANGED <<today, fired, ticks, data, pc, tick, day, snap, bounds>>

\* The exception leaves run_day_close and the caller rolls back: the run's
\* status = "failed" is gone like everything else, and nobody tries again.
Abort(b) ==
    /\ pc' = [pc EXCEPT ![b] = "ack"]
    /\ UNCHANGED <<today, fired, ticks, data, tick, day, snap, next, manual>>

Collide(b) ==
    /\ Open(b) /\ next[b] \in Goals /\ Day(b, next[b]) # NoDay
    /\ ~Claimed(b, next[b])
    /\ Collides(b, next[b])
    /\ Abort(b)
    /\ UNCHANGED faults

\* Mutant: a failure keeps what was flushed for the goals before it.
FailCommits(b) ==
    /\ Open(b) /\ Fault
    /\ pc' = [pc EXCEPT ![b] = "ack"]
    /\ closes' = [g \in Goals |-> IF g < next[b] /\ Closes(b, g)
                                  THEN [closes[g] EXCEPT ![Day(b, g)] = @ + 1] ELSE closes[g]]
    /\ UNCHANGED <<today, fired, ticks, rows, entry, tick, day, snap, next, manual>>

\* Mutant: _stack_assignment commits the deferred row itself.
FailKeepsDeferred(b) ==
    /\ Open(b) /\ Fault
    /\ pc' = [pc EXCEPT ![b] = "ack"]
    /\ rows' = [g \in Goals |-> IF g < next[b] /\ Defers(b, g)
                                THEN [rows[g] EXCEPT ![Day(b, g) + 1] = "defer"] ELSE rows[g]]
    /\ UNCHANGED <<today, fired, ticks, entry, closes, tick, day, snap, next, manual>>

\* Any other exception: a lock that is waited for too long, a lost connection.
Fail(b) == Open(b) /\ Fault /\ Abort(b)

\* The entry is written whatever it says by then.
Commit(b) ==
    /\ Open(b) /\ next[b] = NumGoals + 1
    /\ pc' = [pc EXCEPT ![b] = "ack"]
    /\ closes' = [g \in Goals |->
           IF Closes(b, g) THEN [closes[g] EXCEPT ![Day(b, g)] = @ + 1] ELSE closes[g]]
    /\ entry' = [g \in Goals |->
           IF Marks(b, g) THEN [entry[g] EXCEPT ![Day(b, g)] = "not_done"] ELSE entry[g]]
    /\ rows' = [g \in Goals |->
           IF Defers(b, g) THEN [rows[g] EXCEPT ![Day(b, g) + 1] = "defer"] ELSE rows[g]]
    /\ UNCHANGED <<today, fired, ticks, tick, day, snap, next, bounds>>

\* Mutant: the message is still the process's when it takes the next one.
RestUnacknowledged(b) ==
    /\ pc' = [pc EXCEPT ![b] = "idle"]
    /\ day' = [day EXCEPT ![b] = Unknown]
    /\ snap' = [snap EXCEPT ![b] = Nothing]
    /\ next' = [next EXCEPT ![b] = 1]
    /\ UNCHANGED tick

Rest(b) ==
    /\ pc' = [pc EXCEPT ![b] = "idle"]
    /\ tick' = [tick EXCEPT ![b] = NoTick]
    /\ day' = [day EXCEPT ![b] = Unknown]
    /\ snap' = [snap EXCEPT ![b] = Nothing]
    /\ next' = [next EXCEPT ![b] = 1]

Ack(b) == pc[b] = "ack" /\ Rest(b) /\ UNCHANGED <<today, fired, ticks, data, bounds>>

\* acks_late: the message of a worker that died is delivered again, or, when
\* only its child process died, is gone.
Lose(b) ==
    /\ pc[b] # "idle"
    /\ Fault
    /\ \/ tick[b] # NoTick /\ ticks' = ticks \cup {tick[b]}
       \/ UNCHANGED ticks
    /\ Rest(b)
    /\ UNCHANGED <<today, fired, data, manual>>

\* The connection to the broker breaks while the worker goes on.
Redeliver(b) ==
    /\ pc[b] # "idle" /\ tick[b] # NoTick
    /\ Fault
    /\ ticks' = ticks \cup {tick[b]}
    /\ UNCHANGED <<today, fired, data, batch, manual>>

-----------------------------------------------------------------------------
(* Beat, the users and the calendar.                                       *)

\* 23:50 Asia/Shanghai.
Beat ==
    /\ today \notin fired
    /\ fired' = fired \cup {today}
    /\ ticks' = ticks \cup {today}
    /\ UNCHANGED <<today, data, batch, bounds>>

NextDay ==
    /\ today < LastDay
    /\ today' = today + 1
    /\ UNCHANGED <<fired, ticks, data, batch, bounds>>

\* A user's request waits for an entry that a batch has written and not committed.
EntryLocked(g) == \E b \in Batches : Done(b, g) /\ Marks(b, g) /\ Day(b, g) = today

Report(g, s) ==
    /\ rows[g][today] # "none"
    /\ ~EntryLocked(g)
    /\ entry' = [entry EXCEPT ![g] = [@ EXCEPT ![today] = s]]
    /\ UNCHANGED <<today, fired, ticks, rows, closes, batch, bounds>>

CompleteToday(g) == Report(g, "done")
UncompleteToday(g) == Report(g, "pending")

IncompleteToday(g) == entry[g][today] # "done" /\ Report(g, "not_done")

-----------------------------------------------------------------------------
BatchStep(b) ==
    \/ BeginTask(b) \/ BeginRoute(b) \/ NextUser(b) \/ CloseGoal(b) \/ Collide(b)
    \/ Fail(b) \/ Commit(b) \/ Ack(b) \/ Lose(b) \/ Redeliver(b)

UserStep(g) == CompleteToday(g) \/ UncompleteToday(g) \/ IncompleteToday(g)

Next ==
    \/ Beat \/ NextDay
    \/ \E b \in Batches : BatchStep(b)
    \/ \E g \in Goals : UserStep(g)

Spec == Init /\ [][Next]_vars

-----------------------------------------------------------------------------
(* What must hold.                                                         *)

\* Every variable keeps its shape; an idle process holds no message.
TypeOK ==
    /\ today \in Days
    /\ fired \subseteq Days /\ ticks \subseteq Days
    /\ rows \in [Goals -> [Planned -> {"none", "plan", "defer"}]]
    /\ entry \in [Goals -> [Days -> Statuses]]
    /\ closes \in [Goals -> [Days -> Nat]]
    /\ pc \in [Batches -> {"idle", "open", "ack"}]
    /\ tick \in [Batches -> Days \cup {NoTick}]
    /\ day \in [Batches -> [Users -> Days \cup {NoDay}]]
    /\ snap \in [Batches -> Committed]
    /\ next \in [Batches -> 1..(NumGoals + 1)]
    /\ faults \in 0..MaxFaults /\ manual \in 0..MaxManual
    /\ \A b \in Batches : pc[b] = "idle" => tick[b] = NoTick

\* However often Beat's message is delivered, and whatever runs of the internal
\* route overlap with it, a day of a goal is closed at most once: nothing is
\* deferred twice.
ClosedOnce == \A g \in Goals, d \in Days : closes[g][d] <= 1

\* A batch closes a day for everybody or for nobody.  The day is the same for all
\* goals of a user; of two users, the one the batch comes to later, which may be after
\* midnight, has the same day closed or a later one.
NobodyIsLeftOut ==
    \A g, h \in Goals, d \in Days : Ran(g, d) =>
        \E e \in Days :
            /\ Ran(h, e)
            /\ Owner[g] <= Owner[h] => d <= e
            /\ Owner[h] <= Owner[g] => e <= d

\* A task has been moved to a day only by a close of the day before that is on
\* record, that was no Sunday's and that left a report: a batch that failed or
\* was killed moves nothing.
DeferredMeansClosed ==
    \A g \in Goals, d \in Days :
        rows[g][d + 1] = "defer" =>
            d \notin Sundays /\ Ran(g, d) /\ rows[g][d] # "none" /\ entry[g][d] # "none"

\* A task the user completed becomes "not_done" in one way only: by the commit of
\* a batch that closes this day and read the entry before the user completed it.
\* That update is lost to the user; no other step takes a "done" away but his own.
DoneLostToStaleCloseOnly ==
    [][\A g \in Goals, d \in Days :
        entry[g][d] = "done" /\ entry'[g][d] = "not_done" =>
            \E b \in Batches : /\ Open(b) /\ pc'[b] = "ack" /\ Day(b, g) = d
                               /\ snap[b].entry[g][d] \in {"none", "pending"}]_vars

-----------------------------------------------------------------------------
(* What a docstring says and the code does not do.                         *)

\* day_close.py:14: every day is closed (reports completed, progress computed).
\* Once Beat's messages have all been dealt with, each of their days is closed.
EveryDayIsClosed ==
    ticks = {} /\ (\A b \in Batches : pc[b] = "idle") =>
        \A g \in Goals, d \in fired : Ran(g, d)

=============================================================================
