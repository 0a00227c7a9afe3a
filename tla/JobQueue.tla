------------------------------ MODULE JobQueue ------------------------------
(***************************************************************************)
(* The life of an LLM job, from the HTTP request that accepts it to the    *)
(* Celery worker that executes it: src/app/services/jobs.py and            *)
(* src/app/celery_app.py, over a MySQL database (REPEATABLE READ) and a    *)
(* RabbitMQ broker (at-least-once delivery, acks_late).                    *)
(*                                                                         *)
(* Only committed data is kept in status and gens.  What a transaction has *)
(* flushed and not yet committed is kept in the control state of the       *)
(* process that runs it: a worker in "running" has flushed                 *)
(* job.status = "running" and holds the lock of that row.                  *)
(***************************************************************************)
EXTENDS Integers, Sequences

CONSTANTS
    Jobs,              \* job rows, one for each request that may be accepted
    Goals,             \* goals
    GoalOf,            \* GoalOf[j] is job j's goal_id
    Workers,           \* Celery worker processes
    MaxRetries,        \* process_job_task(max_retries = 3)
    MaxFaults,         \* bound on failures of the environment
    Lossy,             \* may a crash lose a dispatch or a delivery?
    AmbiguousPublish,  \* jobs whose delay() may raise although the broker has the message
    Redeliveries,      \* may a delivery be made again that is going on, or over?
    Nil                \* no message

ASSUME ConstantsAssumption ==
    /\ GoalOf \in [Jobs -> Goals]
    /\ MaxRetries \in Nat
    /\ MaxFaults \in Nat
    /\ Lossy \in BOOLEAN
    /\ AmbiguousPublish \subseteq Jobs
    /\ Redeliveries \in BOOLEAN
    /\ Nil \notin [job : Jobs, retries : 0..MaxRetries]

VARIABLES
    status,   \* status[j]: the committed status of row j ("none": no row)
    req,      \* req[j]: where the request that creates j stands
    queue,    \* messages at the broker, ready for delivery
    gens,     \* gens[g]: the jobs that made versions 1, 2, ... of g's plan
    pc,       \* pc[w]: where worker w stands in process_job_task
    msg,      \* msg[w]: the message w is working on
    seen,     \* seen[w]: the highest plan version in w's snapshot
    faults    \* failures of the environment so far

vars == <<status, req, queue, gens, pc, msg, seen, faults>>

Statuses == {"none", "queued", "succeeded", "failed"}

\* The request: before assert_goal_not_busy, after it, after COMMIT, then the
\* after_commit hook: sent, or raised and on its way through
\* _mark_dispatch_failed ("read" the row, "marked" when that is over), or gone
\* with the API process before the hook ran ("crashed").
RequestStates ==
    {"idle", "checked", "committed", "sent", "raised", "read", "marked", "crashed"}

Messages == [job : Jobs, retries : 0..MaxRetries]

\* A worker: idle; begun, its snapshot taken; running, the row locked; ack, the
\* transaction over and the delivery not yet acknowledged.
WorkerStates == {"idle", "begun", "running", "ack"}

Raised(j) == req[j] \in {"raised", "read", "marked"}

JobAt(w) == msg[w].job

Holds(w) == pc[w] \in {"begun", "running"}

\* The row lock that process_job's flush takes, held until COMMIT or ROLLBACK.
RowLocked(j) == \E w \in Workers : pc[w] = "running" /\ JobAt(w) = j

HasGeneration(j) == \E i \in DOMAIN gens[GoalOf[j]] : gens[GoalOf[j]][i] = j

\* assert_goal_not_busy's query, on committed rows.
Busy(g) == \E j \in Jobs : GoalOf[j] = g /\ status[j] = "queued"

Fault == faults < MaxFaults /\ faults' = faults + 1

Init ==
    /\ status = [j \in Jobs |-> "none"]
    /\ req = [j \in Jobs |-> "idle"]
    /\ queue = {}
    /\ gens = [g \in Goals |-> <<>>]
    /\ pc = [w \in Workers |-> "idle"]
    /\ msg = [w \in Workers |-> Nil]
    /\ seen = [w \in Workers |-> 0]
    /\ faults = 0

-----------------------------------------------------------------------------
(* The API process: enqueue_job inside a request, COMMIT, after_commit hook. *)

api == <<status, req>>
worker == <<pc, msg, seen>>

\* enqueue_job passes assert_goal_not_busy.  A request that finds the goal busy
\* answers 409 LLM_BUSY, is rolled back, and leaves no trace.
Check(j) ==
    /\ req[j] = "idle"
    /\ ~Busy(GoalOf[j])
    /\ req' = [req EXCEPT ![j] = "checked"]
    /\ UNCHANGED <<status, queue, gens, worker, faults>>

\* The request's transaction commits the row it inserted.
CommitJob(j) ==
    /\ req[j] = "checked"
    /\ req' = [req EXCEPT ![j] = "committed"]
    /\ status' = [status EXCEPT ![j] = "queued"]
    /\ UNCHANGED <<queue, gens, worker, faults>>

FirstDelivery(j) == [job |-> j, retries |-> 0]

\* The hook: process_job_task.delay(job_id).
Publish(j) ==
    /\ req[j] = "committed"
    /\ req' = [req EXCEPT ![j] = "sent"]
    /\ queue' = queue \cup {FirstDelivery(j)}
    /\ UNCHANGED <<status, gens, worker, faults>>

\* delay raises: the broker is unreachable, or it took the message and the
\* connection broke before delay returned.
PublishRaises(j) ==
    /\ req[j] = "committed"
    /\ Fault
    /\ req' = [req EXCEPT ![j] = "raised"]
    /\ \/ UNCHANGED queue
       \/ j \in AmbiguousPublish /\ queue' = queue \cup {FirstDelivery(j)}
    /\ UNCHANGED <<status, gens, worker>>

\* The API process dies with the hook still to run.
ApiCrash(j) ==
    /\ Lossy
    /\ req[j] = "committed"
    /\ Fault
    /\ req' = [req EXCEPT ![j] = "crashed"]
    /\ UNCHANGED <<status, queue, gens, worker>>

\* Mutant: the hook logs the exception and leaves the row alone.
MarkSkipped(j) ==
    /\ req[j] = "raised"
    /\ req' = [req EXCEPT ![j] = "marked"]
    /\ UNCHANGED <<status, queue, gens, worker, faults>>

\* _mark_dispatch_failed reads the row in a session of its own ...
ReadForMark(j) ==
    /\ req[j] = "raised"
    /\ req' = [req EXCEPT ![j] = IF status[j] = "queued" THEN "read" ELSE "marked"]
    /\ UNCHANGED <<status, queue, gens, worker, faults>>

\* Mutant: having marked the row, the handler tries the dispatch once more.
MarkAndRedispatch(j) ==
    /\ req[j] = "read"
    /\ ~RowLocked(j)
    /\ req' = [req EXCEPT ![j] = "marked"]
    /\ status' = [status EXCEPT ![j] = "failed"]
    /\ queue' = queue \cup {FirstDelivery(j)}
    /\ UNCHANGED <<gens, worker, faults>>

\* ... and updates it, once no worker holds its lock, whatever it is by then.
WriteMark(j) ==
    /\ req[j] = "read"
    /\ ~RowLocked(j)
    /\ req' = [req EXCEPT ![j] = "marked"]
    /\ status' = [status EXCEPT ![j] = "failed"]
    /\ UNCHANGED <<queue, gens, worker, faults>>

\* The update waits for the lock longer than the database allows, or the
\* process dies before it.
MarkFails(j) ==
    /\ req[j] \in {"raised", "read"}
    /\ Lossy \/ (req[j] = "read" /\ RowLocked(j))
    /\ Fault
    /\ req' = [req EXCEPT ![j] = "marked"]
    /\ UNCHANGED <<status, queue, gens, worker>>

-----------------------------------------------------------------------------
(* The worker: process_job_task and process_job.                           *)

\* Mutant: process_job_task does not look for "succeeded".
ReceiveUnchecked(w) ==
    /\ pc[w] = "idle"
    /\ \E m \in queue :
        /\ queue' = queue \ {m}
        /\ msg' = [msg EXCEPT ![w] = m]
        /\ seen' = [seen EXCEPT ![w] = Len(gens[GoalOf[m.job]])]
        /\ pc' = [pc EXCEPT ![w] = "begun"]
    /\ UNCHANGED <<api, gens, faults>>

\* A delivery: db.get(Job, job_id) opens the snapshot the whole task reads from.
Receive(w) ==
    /\ pc[w] = "idle"
    /\ \E m \in queue :
        /\ queue' = queue \ {m}
        /\ msg' = [msg EXCEPT ![w] = m]
        /\ seen' = [seen EXCEPT ![w] = Len(gens[GoalOf[m.job]])]
        /\ pc' = [pc EXCEPT ![w] =
               IF status[m.job] \in {"none", "succeeded"} THEN "ack" ELSE "begun"]
    /\ UNCHANGED <<api, gens, faults>>

\* process_job flushes status = "running": the row lock, when it is free.
Lock(w) ==
    /\ pc[w] = "begun"
    /\ ~RowLocked(JobAt(w))
    /\ pc' = [pc EXCEPT ![w] = "running"]
    /\ UNCHANGED <<api, queue, gens, msg, seen, faults>>

\* Mutant: no UNIQUE(goal_id, version).
PersistUnversioned(w) ==
    /\ pc[w] = "running"
    /\ gens' = [gens EXCEPT ![GoalOf[JobAt(w)]] = Append(@, JobAt(w))]
    /\ status' = [status EXCEPT ![JobAt(w)] = "succeeded"]
    /\ pc' = [pc EXCEPT ![w] = "ack"]
    /\ UNCHANGED <<req, queue, msg, seen, faults>>

\* The run's transaction commits: the plan version it inserts is one above its
\* snapshot's, and UNIQUE(goal_id, version) accepts it.
Persist(w) ==
    LET g == GoalOf[JobAt(w)] IN
    /\ pc[w] = "running"
    /\ Len(gens[g]) = seen[w]
    /\ gens' = [gens EXCEPT ![g] = Append(@, JobAt(w))]
    /\ status' = [status EXCEPT ![JobAt(w)] = "succeeded"]
    /\ pc' = [pc EXCEPT ![w] = "ack"]
    /\ UNCHANGED <<req, queue, msg, seen, faults>>

NextDelivery(m) == [job |-> m.job, retries |-> m.retries + 1]

\* Mutant: retries are not counted.
RetryForEver(w) ==
    /\ queue' = queue \cup {NextDelivery(msg[w])}
    /\ pc' = [pc EXCEPT ![w] = "ack"]
    /\ UNCHANGED <<api, gens, msg, seen>>

\* An exception leaves process_job_task: db.rollback() discards "running" and
\* "failed" alike, autoretry_for publishes the next attempt if one is left, and
\* the delivery is acknowledged as any other.
Retry(w) ==
    /\ queue' = IF msg[w].retries < MaxRetries
                THEN queue \cup {NextDelivery(msg[w])}
                ELSE queue
    /\ pc' = [pc EXCEPT ![w] = "ack"]
    /\ UNCHANGED <<api, gens, msg, seen>>

\* Another transaction took the version number first: IntegrityError.
VersionConflict(w) ==
    /\ pc[w] = "running"
    /\ Len(gens[GoalOf[JobAt(w)]]) # seen[w]
    /\ Retry(w)
    /\ UNCHANGED faults

\* Mutant: process_job swallows the exception and the task commits.
LlmFailureSwallowed(w) ==
    /\ pc[w] = "running"
    /\ Fault
    /\ status' = [status EXCEPT ![JobAt(w)] = "succeeded"]
    /\ pc' = [pc EXCEPT ![w] = "ack"]
    /\ UNCHANGED <<req, queue, gens, msg, seen>>

\* The LLM call fails, or its answer does not validate.
LlmFails(w) ==
    /\ pc[w] = "running"
    /\ Fault
    /\ Retry(w)

\* The flush waits for the row lock longer than the database allows.
LockTimeout(w) ==
    /\ pc[w] = "begun"
    /\ RowLocked(JobAt(w))
    /\ Retry(w)
    /\ UNCHANGED faults

Rest(w) ==
    /\ pc' = [pc EXCEPT ![w] = "idle"]
    /\ msg' = [msg EXCEPT ![w] = Nil]
    /\ seen' = [seen EXCEPT ![w] = 0]

Ack(w) ==
    /\ pc[w] = "ack"
    /\ Rest(w)
    /\ UNCHANGED <<api, queue, gens, faults>>

\* Mutant: the delivery was acknowledged when it was received (acks_late off).
WorkerLostAcksEarly(w) ==
    /\ pc[w] # "idle"
    /\ Fault
    /\ Rest(w)
    /\ UNCHANGED <<api, queue, gens>>

\* The worker dies, its transaction is rolled back and the broker takes the
\* unacknowledged delivery back, one that the task is over for as well.  When only
\* its child process dies (task_reject_on_worker_lost is off) the delivery is
\* acknowledged and lost.
WorkerLost(w) ==
    /\ pc[w] # "idle"
    /\ pc[w] = "ack" => Redeliveries
    /\ Fault
    /\ \/ queue' = queue \cup {msg[w]}
       \/ Lossy /\ UNCHANGED queue
    /\ Rest(w)
    /\ UNCHANGED <<api, gens>>

\* The connection to the broker breaks while the worker keeps running: the
\* delivery is made again, to anyone.
Redeliver(w) ==
    /\ Redeliveries
    /\ pc[w] # "idle"
    /\ Fault
    /\ queue' = queue \cup {msg[w]}
    /\ UNCHANGED <<api, gens, pc, msg, seen>>

-----------------------------------------------------------------------------
ApiStep(j) ==
    \/ Check(j) \/ CommitJob(j) \/ Publish(j) \/ PublishRaises(j)
    \/ ApiCrash(j) \/ ReadForMark(j) \/ WriteMark(j) \/ MarkFails(j)

WorkerStep(w) ==
    \/ Receive(w) \/ Lock(w) \/ Persist(w) \/ VersionConflict(w) \/ LlmFails(w)
    \/ LockTimeout(w) \/ Ack(w) \/ WorkerLost(w) \/ Redeliver(w)

Next == (\E j \in Jobs : ApiStep(j)) \/ (\E w \in Workers : WorkerStep(w))

Spec == Init /\ [][Next]_vars

\* An accepted request is carried to its end by the API process, and a worker
\* that is up takes deliveries and finishes what it took: the LLM call has a
\* timeout (CALL_TIMEOUT_SECONDS) and so has a wait for a row lock.  Nobody is
\* obliged to send a request, and no failure is obliged to happen.
Fairness ==
    /\ \A j \in Jobs :
        WF_vars(CommitJob(j) \/ Publish(j) \/ ReadForMark(j) \/ WriteMark(j))
    /\ \A w \in Workers :
        /\ WF_vars(Receive(w))
        /\ WF_vars(Lock(w) \/ LockTimeout(w) \/ Persist(w) \/ VersionConflict(w) \/ Ack(w))

FairSpec == Spec /\ Fairness

-----------------------------------------------------------------------------
(* What must hold.                                                         *)

\* Every variable keeps its shape; an idle worker holds no message.
TypeOK ==
    /\ status \in [Jobs -> Statuses]
    /\ req \in [Jobs -> RequestStates]
    /\ queue \subseteq Messages
    /\ gens \in [Goals -> Seq(Jobs)]
    /\ pc \in [Workers -> WorkerStates]
    /\ msg \in [Workers -> Messages \cup {Nil}]
    /\ seen \in [Workers -> Nat]
    /\ faults \in 0..MaxFaults
    /\ \A w \in Workers : pc[w] # "idle" => msg[w] \in Messages

\* However often the broker delivers a job and however the runs overlap, the
\* job makes one version of the plan at most.  This is what the check of
\* "succeeded" in process_job_task, the snapshot a run reads the last version
\* from, and UNIQUE(goal_id, version) secure together.  A job whose dispatch
\* raised although the broker had the message is run after it was failed, or
\* failed after it was run: it may make one version more, never a third, and
\* says "succeeded" when it has.
OneGenerationPerJob ==
    \A g \in Goals : \A i, k \in DOMAIN gens[g] :
        LET j == gens[g][i] IN
        i < k /\ gens[g][k] = j =>
            /\ j \in AmbiguousPublish /\ req[j] = "marked" /\ status[j] = "succeeded"
            /\ \A l \in DOMAIN gens[g] : gens[g][l] = j => l \in {i, k}

\* The client polls the job until it reads "succeeded" and then asks for the
\* version it made: a job says "succeeded" only when its version is there, and
\* once a version is there its job says so.  The one thing that may overwrite
\* this is _mark_dispatch_failed, of a job whose dispatch was ambiguous; and
\* never does a job with a version say "queued" again.
SucceededIffGeneration ==
    \A j \in Jobs :
        /\ status[j] = "succeeded" => HasGeneration(j)
        /\ HasGeneration(j) =>
             \/ status[j] = "succeeded"
             \/ status[j] = "failed" /\ req[j] = "marked" /\ j \in AmbiguousPublish

\* A job is failed by the request that could not dispatch it and by nothing
\* else, and unless that very dispatch was ambiguous nobody ever works on it.
FailedIsNeverRun ==
    \A j \in Jobs : status[j] = "failed" =>
        /\ Raised(j)
        /\ j \notin AmbiguousPublish =>
             /\ \A m \in queue : m.job # j
             /\ \A w \in Workers : pc[w] # "idle" => JobAt(w) # j
             /\ ~HasGeneration(j)

\* Somebody still has to do with job j: its request, the broker or a worker.
InFlight(j) ==
    \/ req[j] \in {"committed", "raised", "read"}
    \/ \E m \in queue : m.job = j
    \/ \E w \in Workers : Holds(w) /\ JobAt(w) = j

\* A queued job, which keeps its goal busy, is one somebody will still run.
NoStrandedJob == \A j \in Jobs : status[j] = "queued" => InFlight(j)

\* A job that was accepted reaches a verdict: what the client polls for.
EveryJobEnds ==
    \A j \in Jobs : status[j] = "queued" ~> status[j] \in {"succeeded", "failed"}

\* The queue keeps the contract a polling client relies on (JobContract): one end
\* for each accepted job whose dispatch was not ambiguous, and one new version for
\* each success of any job, whatever is lost, repeated or retried.
Contract == INSTANCE JobContract WITH Doubtful <- AmbiguousPublish
KeepsContract == Contract!Spec

\* The message of assert_goal_not_busy (jobs.py:77) says that a goal has at
\* most one generation or replan going on.
OneBusyJobPerGoal ==
    \A i, j \in Jobs :
        GoalOf[i] = GoalOf[j] /\ status[i] = "queued" /\ status[j] = "queued" => i = j

\* What a failed job leaves.  celery_app.py:14 calls the job table the status the
\* client sees, and a run that raises leaves the job "failed"
\* (test_incomplete_day_close.py:211); persist.py:1 and persist.py:152 have a
\* failure stored as a failed generation, a version of its own that keeps what
\* the LLM said.  So once the last attempt is over, the row does not say "queued"
\* any more, or there is at least such a version.
FailureIsRecorded ==
    \A j \in Jobs : req[j] = "sent" /\ ~InFlight(j) =>
        status[j] # "queued" \/ HasGeneration(j)

=============================================================================
