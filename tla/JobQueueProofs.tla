--------------------------- MODULE JobQueueProofs ---------------------------
(***************************************************************************)
(* Proofs about JobQueue, for any number of jobs, goals and workers, any   *)
(* number of failures and of retries.                                      *)
(*                                                                         *)
(* The inductive invariant says where messages may come from (Deliverable),*)
(* what a version of a plan tells about the job that made it (Lineage) and *)
(* that a run which is still to commit has an outdated snapshot once its   *)
(* job says "succeeded" (Snapshots).  The last part is why                 *)
(* UNIQUE(goal_id, version) stops the second run of a job, and why only a  *)
(* job that was failed in between can make another version.                *)
(***************************************************************************)
EXTENDS JobQueue, FiniteSetTheorems, TLAPS

\* The broker may hold, and a worker may run, job j.
Deliverable(j) == req[j] = "sent" \/ (j \in AmbiguousPublish /\ Raised(j))

Requests ==
    \A j \in Jobs :
        /\ status[j] = "none" <=> req[j] \in {"idle", "checked"}
        /\ status[j] = "failed" => req[j] = "marked"

Deliveries ==
    /\ \A m \in queue : Deliverable(m.job)
    /\ \A w \in Workers : pc[w] # "idle" => Deliverable(JobAt(w))

Lineage ==
    \A g \in Goals : \A i \in DOMAIN gens[g] :
        GoalOf[gens[g][i]] = g /\ Deliverable(gens[g][i])

Snapshots ==
    \A w \in Workers : Holds(w) =>
        /\ seen[w] <= Len(gens[GoalOf[JobAt(w)]])
        /\ status[JobAt(w)] = "succeeded" => seen[w] < Len(gens[GoalOf[JobAt(w)]])

IInv ==
    /\ TypeOK
    /\ Requests
    /\ Deliveries
    /\ Lineage
    /\ Snapshots
    /\ OneGenerationPerJob
    /\ SucceededIffGeneration

-----------------------------------------------------------------------------
(* Type correctness.                                                       *)

LEMMA InitTypeOK == Init => TypeOK
  BY ConstantsAssumption
  DEF ConstantsAssumption, Init, TypeOK, Statuses, RequestStates, WorkerStates, Messages

\* Every step of a request keeps the shape of the state.
LEMMA ApiTypeOK ==
    ASSUME TypeOK, NEW j \in Jobs, ApiStep(j)
    PROVE  TypeOK'
  <1> USE ConstantsAssumption DEF ConstantsAssumption, TypeOK, Statuses, RequestStates, worker
  <1>1. CASE Check(j)          BY <1>1 DEF Check
  <1>2. CASE CommitJob(j)      BY <1>2 DEF CommitJob
  <1>3. CASE Publish(j)        BY <1>3 DEF Publish, FirstDelivery, Messages
  <1>4. CASE PublishRaises(j)  BY <1>4 DEF PublishRaises, Fault, FirstDelivery, Messages
  <1>5. CASE ApiCrash(j)       BY <1>5 DEF ApiCrash, Fault
  <1>6. CASE ReadForMark(j)    BY <1>6 DEF ReadForMark
  <1>7. CASE WriteMark(j)      BY <1>7 DEF WriteMark
  <1>8. CASE MarkFails(j)      BY <1>8 DEF MarkFails, Fault
  <1>9. QED
    BY <1>1, <1>2, <1>3, <1>4, <1>5, <1>6, <1>7, <1>8 DEF ApiStep

\* What a retry publishes is a message, and its attempt is within max_retries.
LEMMA RetryTypeOK ==
    ASSUME TypeOK, NEW w \in Workers, pc[w] # "idle", Retry(w), faults' \in 0..MaxFaults
    PROVE  TypeOK'
  <1> USE ConstantsAssumption DEF ConstantsAssumption, TypeOK, Messages
  <1>1. msg[w] \in Messages
    OBVIOUS
  <1>2. CASE msg[w].retries < MaxRetries
    <2>1. NextDelivery(msg[w]) \in Messages
      BY <1>1, <1>2 DEF NextDelivery
    <2>2. QED
      BY <1>2, <2>1 DEF Retry, api, WorkerStates
  <1>3. CASE ~(msg[w].retries < MaxRetries)
    BY <1>3 DEF Retry, api, WorkerStates
  <1>4. QED
    BY <1>2, <1>3

LEMMA RestTypeOK ==
    ASSUME TypeOK, NEW w \in Workers, Rest(w)
    PROVE  /\ pc' \in [Workers -> WorkerStates]
           /\ msg' \in [Workers -> Messages \cup {Nil}]
           /\ seen' \in [Workers -> Nat]
           /\ \A v \in Workers : pc'[v] # "idle" => msg'[v] \in Messages
  BY DEF TypeOK, Rest, WorkerStates

\* Every step of a worker keeps the shape of the state.
LEMMA WorkerTypeOK ==
    ASSUME TypeOK, NEW w \in Workers, WorkerStep(w)
    PROVE  TypeOK'
  <1> USE ConstantsAssumption DEF ConstantsAssumption, TypeOK, api
  <1>1. CASE Receive(w)
    <2>1. PICK m \in queue : msg' = [msg EXCEPT ![w] = m]
                             /\ queue' = queue \ {m}
                             /\ seen' = [seen EXCEPT ![w] = Len(gens[GoalOf[m.job]])]
      BY <1>1 DEF Receive
    <2>2. m \in Messages /\ GoalOf[m.job] \in Goals
      BY <2>1 DEF Messages
    <2>3. Len(gens[GoalOf[m.job]]) \in Nat
      BY <2>2
    <2>4. pc' \in [Workers -> WorkerStates]
      BY <1>1 DEF Receive, WorkerStates
    <2>5. QED
      BY <1>1, <2>1, <2>2, <2>3, <2>4 DEF Receive
  <1>2. CASE Lock(w)             BY <1>2 DEF Lock, WorkerStates
  <1>3. CASE Persist(w)
    <2>1. JobAt(w) \in Jobs /\ GoalOf[JobAt(w)] \in Goals
      BY <1>3 DEF Persist, JobAt, Messages
    <2>2. gens' \in [Goals -> Seq(Jobs)]
      BY <1>3, <2>1 DEF Persist
    <2>3. status' \in [Jobs -> Statuses]
      BY <1>3, <2>1 DEF Persist, Statuses
    <2>4. QED
      BY <1>3, <2>2, <2>3 DEF Persist, WorkerStates
  <1>4. CASE VersionConflict(w)  BY <1>4, RetryTypeOK DEF VersionConflict
  <1>5. CASE LlmFails(w)         BY <1>5, RetryTypeOK DEF LlmFails, Fault
  <1>6. CASE LockTimeout(w)      BY <1>6, RetryTypeOK DEF LockTimeout
  <1>7. CASE Ack(w)              BY <1>7, RestTypeOK DEF Ack
  <1>8. CASE WorkerLost(w)       BY <1>8, RestTypeOK DEF WorkerLost, Fault
  <1>9. CASE Redeliver(w)        BY <1>9 DEF Redeliver, Fault
  <1>10. QED
    BY <1>1, <1>2, <1>3, <1>4, <1>5, <1>6, <1>7, <1>8, <1>9 DEF WorkerStep

LEMMA StepTypeOK == TypeOK /\ [Next]_vars => TypeOK'
  <1> SUFFICES ASSUME TypeOK, [Next]_vars
               PROVE  TypeOK'
    OBVIOUS
  <1>1. CASE Next
    BY <1>1, ApiTypeOK, WorkerTypeOK DEF Next
  <1>2. CASE UNCHANGED vars
    BY <1>2 DEF vars, TypeOK
  <1>3. QED
    BY <1>1, <1>2

\* Every variable keeps its shape for ever: in particular no message is ever
\* published for an attempt beyond max_retries.
THEOREM TypeCorrect == Spec => []TypeOK
  BY InitTypeOK, StepTypeOK, PTL DEF Spec

-----------------------------------------------------------------------------
(* The inductive invariant.                                                *)

\* A job with a version of the plan is one the broker could deliver.
LEMMA GenerationDeliverable ==
    ASSUME Lineage, TypeOK, NEW j \in Jobs, HasGeneration(j)
    PROVE  Deliverable(j)
  BY ConstantsAssumption DEF ConstantsAssumption, Lineage, HasGeneration, TypeOK

LEMMA InitIInv == Init => IInv
  <1> SUFFICES ASSUME Init PROVE IInv
    OBVIOUS
  <1>1. TypeOK
    BY InitTypeOK
  <1>2. \A g \in Goals : DOMAIN gens[g] = {}
    BY DEF Init
  <1>3. Requests
    BY DEF Init, Requests
  <1>4. Deliveries
    BY DEF Init, Deliveries
  <1>5. Lineage
    BY <1>2 DEF Lineage
  <1>6. Snapshots
    BY DEF Init, Snapshots, Holds
  <1>7. OneGenerationPerJob
    BY <1>2 DEF OneGenerationPerJob
  <1>8. SucceededIffGeneration
    <2>1. \A j \in Jobs : ~HasGeneration(j)
      BY <1>2, ConstantsAssumption DEF ConstantsAssumption, HasGeneration
    <2>2. QED
      BY <2>1 DEF Init, SucceededIffGeneration
  <1>9. QED
    BY <1>1, <1>3, <1>4, <1>5, <1>6, <1>7, <1>8 DEF IInv

\* A request moves forward: a failed dispatch stays one, and a job that may be
\* delivered stays one.
LEMMA ApiFacts ==
    ASSUME TypeOK, NEW j \in Jobs, ApiStep(j)
    PROVE  /\ gens' = gens /\ pc' = pc /\ msg' = msg /\ seen' = seen
           /\ \A k \in Jobs : Raised(k) => Raised(k)'
           /\ \A k \in Jobs : Deliverable(k) => Deliverable(k)'
           /\ queue' \subseteq queue \cup {FirstDelivery(j)}
           /\ queue' # queue => Deliverable(j)'
  <1> USE DEF TypeOK, worker, Raised, Deliverable, RequestStates
  <1>1. CASE Check(j)          BY <1>1 DEF Check
  <1>2. CASE CommitJob(j)      BY <1>2 DEF CommitJob
  <1>3. CASE Publish(j)        BY <1>3 DEF Publish
  <1>4. CASE PublishRaises(j)  BY <1>4 DEF PublishRaises
  <1>5. CASE ApiCrash(j)       BY <1>5 DEF ApiCrash
  <1>6. CASE ReadForMark(j)    BY <1>6 DEF ReadForMark
  <1>7. CASE WriteMark(j)      BY <1>7 DEF WriteMark
  <1>8. CASE MarkFails(j)      BY <1>8 DEF MarkFails
  <1>9. QED
    BY <1>1, <1>2, <1>3, <1>4, <1>5, <1>6, <1>7, <1>8 DEF ApiStep

\* What a request's step does to the rows: it leaves them alone, inserts row j,
\* or fails row j on the way through _mark_dispatch_failed.
LEMMA ApiRows ==
    ASSUME TypeOK, NEW j \in Jobs, ApiStep(j)
    PROVE  /\ \A k \in Jobs \ {j} : status'[k] = status[k] /\ req'[k] = req[k]
           /\ \/ /\ status'[j] = status[j]
                 /\ req[j] \in {"idle", "checked"} <=> req'[j] \in {"idle", "checked"}
                 /\ req[j] # "marked"
              \/ req[j] = "checked" /\ req'[j] = "committed" /\ status'[j] = "queued"
              \/ req[j] = "read" /\ req'[j] = "marked" /\ status'[j] = "failed"
  <1> USE DEF TypeOK
  <1>1. CASE Check(j)          BY <1>1 DEF Check
  <1>2. CASE CommitJob(j)      BY <1>2 DEF CommitJob
  <1>3. CASE Publish(j)        BY <1>3 DEF Publish
  <1>4. CASE PublishRaises(j)  BY <1>4 DEF PublishRaises
  <1>5. CASE ApiCrash(j)       BY <1>5 DEF ApiCrash
  <1>6. CASE ReadForMark(j)    BY <1>6 DEF ReadForMark
  <1>7. CASE WriteMark(j)      BY <1>7 DEF WriteMark
  <1>8. CASE MarkFails(j)      BY <1>8 DEF MarkFails
  <1>9. QED
    BY <1>1, <1>2, <1>3, <1>4, <1>5, <1>6, <1>7, <1>8 DEF ApiStep

LEMMA ApiIInv ==
    ASSUME IInv, NEW j \in Jobs, ApiStep(j)
    PROVE  IInv'
  <1> USE DEF IInv
  <1>1. TypeOK'
    BY ApiTypeOK
  <1>2. /\ gens' = gens /\ pc' = pc /\ msg' = msg /\ seen' = seen
        /\ \A k \in Jobs : Raised(k) => Raised(k)'
        /\ \A k \in Jobs : Deliverable(k) => Deliverable(k)'
    BY ApiFacts
  <1>3. Requests'
    BY ApiRows DEF Requests
  <1>4. Deliveries'
    <2>1. ASSUME NEW m \in queue' PROVE Deliverable(m.job)'
      <3>1. CASE m \in queue
        BY <1>2, <3>1 DEF Deliveries, TypeOK, Messages
      <3>2. CASE m \notin queue
        BY <3>2, ApiFacts DEF FirstDelivery
      <3>3. QED
        BY <3>1, <3>2
    <2>2. ASSUME NEW w \in Workers, pc'[w] # "idle" PROVE Deliverable(JobAt(w))'
      <3>1. JobAt(w) \in Jobs /\ Deliverable(JobAt(w)) /\ JobAt(w)' = JobAt(w)
        BY <1>2, <2>2 DEF Deliveries, JobAt, TypeOK, Messages
      <3>2. QED
        BY <1>2, <3>1 DEF Deliverable, Raised
    <2>3. QED
      BY <2>1, <2>2 DEF Deliveries
  <1>5. Lineage'
    <2>1. \A g \in Goals : \A i \in DOMAIN gens[g] : gens[g][i] \in Jobs
      BY DEF TypeOK
    <2>2. QED
      BY <1>2, <2>1 DEF Lineage
  <1>6. Snapshots'
    <2>1. \A w \in Workers : Holds(w) => JobAt(w) \in Jobs
      BY DEF TypeOK, Holds, JobAt, Messages
    <2>2. \A k \in Jobs : status'[k] = "succeeded" => status[k] = "succeeded"
      BY ApiRows
    <2>3. QED
      BY <1>2, <2>1, <2>2 DEF Snapshots, Holds, JobAt
  <1>7. OneGenerationPerJob'
    <2> SUFFICES ASSUME NEW g \in Goals, NEW i \in DOMAIN gens[g], NEW k \in DOMAIN gens[g],
                        i < k, gens[g][k] = gens[g][i]
                 PROVE  /\ gens[g][i] \in AmbiguousPublish
                        /\ req'[gens[g][i]] = "marked" /\ status'[gens[g][i]] = "succeeded"
                        /\ \A l \in DOMAIN gens[g] : gens[g][l] = gens[g][i] => l \in {i, k}
      BY <1>2 DEF OneGenerationPerJob
    <2>1. gens[g][i] \in Jobs
      BY DEF TypeOK
    <2>2. /\ gens[g][i] \in AmbiguousPublish
          /\ req[gens[g][i]] = "marked" /\ status[gens[g][i]] = "succeeded"
          /\ \A l \in DOMAIN gens[g] : gens[g][l] = gens[g][i] => l \in {i, k}
      BY DEF OneGenerationPerJob
    <2>3. req[j] = "marked" => FALSE
      BY ApiRows
    <2>4. QED
      BY <2>1, <2>2, <2>3, ApiRows
  <1>8. SucceededIffGeneration'
    <2>1. \A k \in Jobs : HasGeneration(k)' <=> HasGeneration(k)
      BY <1>2 DEF HasGeneration
    <2>2. HasGeneration(j) =>
            /\ req[j] # "checked"
            /\ req[j] = "read" => j \in AmbiguousPublish
      BY GenerationDeliverable DEF Deliverable, Raised
    <2>3. \A k \in Jobs : req[k] = "marked" => req'[k] = "marked" /\ k # j
      BY ApiRows
    <2>4. QED
      BY <2>1, <2>2, <2>3, ApiRows DEF SucceededIffGeneration
  <1>9. QED
    BY <1>1, <1>3, <1>4, <1>5, <1>6, <1>7, <1>8

\* No worker's step but Persist touches the rows or the plans.
LEMMA WorkerFrame ==
    ASSUME NEW w \in Workers, WorkerStep(w)
    PROVE  req' = req /\ (Persist(w) \/ (status' = status /\ gens' = gens))
  BY DEF WorkerStep, api, Receive, Lock, Persist, VersionConflict, LlmFails, LockTimeout,
         Retry, Ack, Rest, WorkerLost, Redeliver

\* A worker publishes and runs only jobs that were delivered to it.
LEMMA WorkerDeliveries ==
    ASSUME TypeOK, Deliveries, NEW w \in Workers, WorkerStep(w)
    PROVE  /\ \A m \in queue' : Deliverable(m.job)
           /\ \A v \in Workers : pc'[v] # "idle" => Deliverable(msg'[v].job)
  <1> USE DEF Deliveries, TypeOK, JobAt
  <1>1. CASE Receive(w)          BY <1>1 DEF Receive
  <1>2. CASE Lock(w)             BY <1>2 DEF Lock
  <1>3. CASE Persist(w)          BY <1>3 DEF Persist
  <1>4. CASE VersionConflict(w)  BY <1>4 DEF VersionConflict, Retry, NextDelivery
  <1>5. CASE LlmFails(w)         BY <1>5 DEF LlmFails, Retry, NextDelivery
  <1>6. CASE LockTimeout(w)      BY <1>6 DEF LockTimeout, Retry, NextDelivery
  <1>7. CASE Ack(w)              BY <1>7 DEF Ack, Rest
  <1>8. CASE WorkerLost(w)       BY <1>8 DEF WorkerLost, Rest
  <1>9. CASE Redeliver(w)        BY <1>9 DEF Redeliver
  <1>10. QED
    BY <1>1, <1>2, <1>3, <1>4, <1>5, <1>6, <1>7, <1>8, <1>9 DEF WorkerStep

\* A run that is about to commit works on a job that has no version yet, or on
\* one that was failed after it made its first.
LEMMA PersistIsFirst ==
    ASSUME IInv, NEW w \in Workers, Persist(w)
    PROVE  /\ JobAt(w) \in Jobs
           /\ Deliverable(JobAt(w))
           /\ status[JobAt(w)] # "succeeded"
           /\ HasGeneration(JobAt(w)) =>
                /\ req[JobAt(w)] = "marked" /\ status[JobAt(w)] = "failed"
                /\ JobAt(w) \in AmbiguousPublish
  <1>1. JobAt(w) \in Jobs /\ Deliverable(JobAt(w))
    BY DEF IInv, TypeOK, Messages, Deliveries, Persist, JobAt
  <1>2. Len(gens[GoalOf[JobAt(w)]]) \in Nat
    BY <1>1, ConstantsAssumption DEF ConstantsAssumption, IInv, TypeOK
  <1>3. status[JobAt(w)] # "succeeded"
    BY <1>2 DEF IInv, Snapshots, Persist, Holds
  <1>4. QED
    BY <1>1, <1>3 DEF IInv, SucceededIffGeneration

\* Persist: what it appends, in terms a reader of the plan sees.
LEMMA PersistAppends ==
    ASSUME IInv, NEW w \in Workers, Persist(w)
    PROVE  LET j == JobAt(w) IN
           /\ \A g \in Goals \ {GoalOf[j]} : gens'[g] = gens[g]
           /\ Len(gens'[GoalOf[j]]) = Len(gens[GoalOf[j]]) + 1
           /\ DOMAIN gens'[GoalOf[j]] = 1..(Len(gens[GoalOf[j]]) + 1)
           /\ DOMAIN gens[GoalOf[j]] = 1..Len(gens[GoalOf[j]])
           /\ \A i \in DOMAIN gens[GoalOf[j]] : gens'[GoalOf[j]][i] = gens[GoalOf[j]][i]
           /\ gens'[GoalOf[j]][Len(gens[GoalOf[j]]) + 1] = j
  <1> DEFINE g == GoalOf[JobAt(w)]
  <1>1. g \in Goals /\ gens[g] \in Seq(Jobs) /\ JobAt(w) \in Jobs
    BY PersistIsFirst, ConstantsAssumption DEF ConstantsAssumption, IInv, TypeOK
  <1>2. gens' = [gens EXCEPT ![g] = Append(gens[g], JobAt(w))]
    BY DEF Persist
  <1>3. gens'[g] = Append(gens[g], JobAt(w)) /\ \A h \in Goals \ {g} : gens'[h] = gens[h]
    BY <1>1, <1>2 DEF IInv, TypeOK
  <1>4. QED
    BY <1>1, <1>3

LEMMA PersistIInv ==
    ASSUME IInv, NEW w \in Workers, Persist(w)
    PROVE  IInv'
  <1> USE DEF IInv
  <1>1. TypeOK' /\ TypeOK
    BY WorkerTypeOK DEF WorkerStep
  <1>j. PICK j \in Jobs : j = JobAt(w)
    BY PersistIsFirst
  <1>g. PICK g \in Goals : g = GoalOf[j]
    BY ConstantsAssumption DEF ConstantsAssumption
  <1>n. PICK n \in Nat : n = Len(gens[g])
    BY <1>1 DEF TypeOK
  <1>2. /\ Deliverable(j) /\ status[j] # "succeeded"
        /\ HasGeneration(j) => req[j] = "marked" /\ j \in AmbiguousPublish
    BY PersistIsFirst, <1>j DEF Deliverable, HasGeneration, Raised
  <1>3. req' = req /\ queue' = queue /\ msg' = msg /\ seen' = seen /\ seen[w] = n
    BY <1>j, <1>g, <1>n DEF Persist
  <1>4. /\ status'[j] = "succeeded"
        /\ \A k \in Jobs \ {j} : status'[k] = status[k]
    BY <1>1, <1>j DEF Persist, TypeOK
  <1>5. \A k \in Jobs : (Deliverable(k)' <=> Deliverable(k)) /\ (Raised(k)' <=> Raised(k))
    BY <1>3 DEF Deliverable, Raised
  <1>6. /\ \A h \in Goals \ {g} : gens'[h] = gens[h]
        /\ n \in Nat /\ Len(gens'[g]) = n + 1
        /\ DOMAIN gens'[g] = 1..(n + 1) /\ DOMAIN gens[g] = 1..n
        /\ \A i \in 1..n : gens'[g][i] = gens[g][i]
        /\ gens'[g][n + 1] = j
    BY PersistAppends, <1>1, <1>j, <1>g, <1>n DEF TypeOK
  <1>7. Requests'
    BY <1>2, <1>3, <1>4 DEF Requests, Deliverable, Raised
  <1>8. Deliveries'
    BY <1>1, <1>3, WorkerDeliveries DEF WorkerStep, Deliveries, JobAt, Deliverable, Raised
  <1>9. \A h \in Goals : \A i \in DOMAIN gens'[h] :
            \/ h = g /\ i = n + 1 /\ gens'[h][i] = j
            \/ i \in DOMAIN gens[h] /\ gens'[h][i] = gens[h][i] /\ gens[h][i] \in Jobs
    BY <1>1, <1>6 DEF TypeOK
  <1>10. Lineage'
    BY <1>2, <1>5, <1>9, <1>g DEF Lineage
  <1>11. OneGenerationPerJob'
    <2> SUFFICES ASSUME NEW h \in Goals, NEW i \in DOMAIN gens'[h], NEW k \in DOMAIN gens'[h],
                        i < k, gens'[h][k] = gens'[h][i]
                 PROVE  LET q == gens'[h][i] IN
                        /\ q \in AmbiguousPublish /\ req[q] = "marked" /\ status'[q] = "succeeded"
                        /\ \A l \in DOMAIN gens'[h] : gens'[h][l] = q => l \in {i, k}
      BY <1>3 DEF OneGenerationPerJob
    <2>1. CASE h # g
      <3>1. /\ gens'[h] = gens[h]
            /\ gens[h][i] \in Jobs /\ gens[h][i] # j
        BY <1>1, <1>6, <1>g, <2>1 DEF TypeOK, Lineage
      <3>2. QED
        BY <1>4, <3>1 DEF OneGenerationPerJob
    <2>2. CASE h = g /\ gens'[h][i] # j
      <3>1. i \in 1..n /\ k \in 1..n /\ gens[g][i] = gens[g][k] /\ gens[g][i] \in Jobs \ {j}
            /\ gens'[g][i] = gens[g][i]
        BY <1>1, <1>6, <2>2 DEF TypeOK
      <3>2. LET q == gens[g][i] IN
            /\ q \in AmbiguousPublish /\ req[q] = "marked" /\ status[q] = "succeeded"
            /\ \A l \in DOMAIN gens[g] : gens[g][l] = q => l \in {i, k}
        BY <1>6, <3>1 DEF OneGenerationPerJob
      <3>3. \A l \in DOMAIN gens'[g] : gens'[g][l] = gens[g][i] => l \in {i, k}
        <4> SUFFICES ASSUME NEW l \in 1..(n + 1), gens'[g][l] = gens[g][i]
                     PROVE  l \in {i, k}
          BY <1>6
        <4>1. l # n + 1
          BY <1>6, <3>1
        <4>2. l \in 1..n /\ gens[g][l] = gens[g][i]
          BY <1>6, <4>1
        <4>3. QED
          BY <1>6, <3>2, <4>2
      <3>4. QED
        BY <1>4, <2>2, <3>1, <3>2, <3>3
    <2>3. CASE h = g /\ gens'[h][i] = j
      <3>1. i \in 1..n /\ gens[g][i] = j
        BY <1>6, <2>3
      <3>2. HasGeneration(j)
        BY <1>6, <1>g, <3>1 DEF HasGeneration
      <3>3. \A l \in 1..n : gens[g][l] = j => l = i
        <4> SUFFICES ASSUME NEW l \in 1..n, gens[g][l] = j, l # i PROVE FALSE
          OBVIOUS
        <4>1. CASE l < i
          BY <1>2, <1>6, <3>1, <4>1 DEF OneGenerationPerJob
        <4>2. CASE i < l
          BY <1>2, <1>6, <3>1, <4>2 DEF OneGenerationPerJob
        <4>3. QED
          BY <3>1, <4>1, <4>2
      <3>4. k = n + 1
        <4>1. k \in 1..n => gens[g][k] = j
          BY <1>6, <2>3
        <4>2. k \in 1..(n + 1) /\ k # i /\ n \in Nat
          BY <1>6, <2>3
        <4>3. QED
          BY <3>3, <4>1, <4>2
      <3>5. \A l \in DOMAIN gens'[g] : gens'[g][l] = j => l \in {i, k}
        BY <1>6, <3>3, <3>4
      <3>6. QED
        BY <1>2, <1>4, <2>3, <3>2, <3>5
    <2>4. QED
      BY <2>1, <2>2, <2>3
  <1>12. \A k \in Jobs : HasGeneration(k)' <=> k = j \/ HasGeneration(k)
    <2>1. HasGeneration(j)'
      BY <1>6, <1>g DEF HasGeneration
    <2>2. ASSUME NEW k \in Jobs, HasGeneration(k) PROVE HasGeneration(k)'
      <3>1. PICK i \in DOMAIN gens[GoalOf[k]] : gens[GoalOf[k]][i] = k
        BY <2>2 DEF HasGeneration
      <3>2. i \in DOMAIN gens'[GoalOf[k]] /\ gens'[GoalOf[k]][i] = k
        <4>1. CASE GoalOf[k] = g
          <5>1. i \in 1..n /\ i \in 1..(n + 1)
            BY <1>6, <3>1, <4>1
          <5>2. QED
            BY <1>6, <3>1, <4>1, <5>1
        <4>2. CASE GoalOf[k] # g
          BY <1>6, <3>1, <4>2, ConstantsAssumption DEF ConstantsAssumption
        <4>3. QED
          BY <4>1, <4>2
      <3>3. QED
        BY <3>2 DEF HasGeneration
    <2>3. ASSUME NEW k \in Jobs, HasGeneration(k)' PROVE k = j \/ HasGeneration(k)
      BY <1>9, <2>3, ConstantsAssumption DEF ConstantsAssumption, HasGeneration
    <2>4. QED
      BY <2>1, <2>2, <2>3
  <1>13. SucceededIffGeneration'
    BY <1>3, <1>4, <1>12 DEF SucceededIffGeneration
  <1>14. Snapshots'
    <2> SUFFICES ASSUME NEW v \in Workers, Holds(v)'
                 PROVE  /\ seen[v] <= Len(gens'[GoalOf[JobAt(v)]])
                        /\ status'[JobAt(v)] = "succeeded"
                             => seen[v] < Len(gens'[GoalOf[JobAt(v)]])
      BY <1>3 DEF Snapshots, JobAt
    <2>1. v # w /\ Holds(v)
      BY <1>1 DEF Holds, Persist, TypeOK
    <2>2. JobAt(v) \in Jobs /\ GoalOf[JobAt(v)] \in Goals /\ seen[v] \in Nat
      BY <2>1, ConstantsAssumption DEF ConstantsAssumption, TypeOK, Holds, JobAt, Messages
    <2>3. CASE GoalOf[JobAt(v)] = g
      BY <1>6, <2>1, <2>2, <2>3 DEF Snapshots
    <2>4. CASE GoalOf[JobAt(v)] # g
      <3>1. JobAt(v) # j
        BY <1>g, <2>4
      <3>2. gens'[GoalOf[JobAt(v)]] = gens[GoalOf[JobAt(v)]]
        BY <1>6, <2>2, <2>4
      <3>3. status'[JobAt(v)] = status[JobAt(v)]
        BY <1>4, <2>2, <3>1
      <3>4. QED
        BY <2>1, <3>2, <3>3 DEF Snapshots
    <2>5. QED
      BY <2>3, <2>4
  <1>15. QED
    BY <1>1, <1>7, <1>8, <1>10, <1>11, <1>13, <1>14

\* Any other step of a worker: it may take a snapshot, which is then current.
LEMMA WorkerIInv ==
    ASSUME IInv, NEW w \in Workers, WorkerStep(w)
    PROVE  IInv'
  <1> USE DEF IInv
  <1>0. CASE Persist(w)
    BY <1>0, PersistIInv
  <1> SUFFICES ASSUME ~Persist(w) PROVE IInv'
    BY <1>0
  <1>1. TypeOK'
    BY WorkerTypeOK
  <1>2. req' = req /\ status' = status /\ gens' = gens
    BY WorkerFrame
  <1>3. Requests' /\ OneGenerationPerJob' /\ SucceededIffGeneration'
    BY <1>2 DEF Requests, OneGenerationPerJob, SucceededIffGeneration, Raised, HasGeneration
  <1>4. Lineage'
    BY <1>2 DEF Lineage, Deliverable, Raised
  <1>5. Deliveries'
    BY <1>2, WorkerDeliveries DEF Deliveries, JobAt, Deliverable, Raised
  <1>6. Snapshots'
    <2> SUFFICES ASSUME NEW v \in Workers, Holds(v)'
                 PROVE  /\ seen'[v] <= Len(gens[GoalOf[msg'[v].job]])
                        /\ status[msg'[v].job] = "succeeded"
                             => seen'[v] < Len(gens[GoalOf[msg'[v].job]])
      BY <1>2 DEF Snapshots, JobAt
    <2>1. CASE Receive(w) /\ v = w
      <3>1. PICK m \in queue : /\ msg'[w] = m
                               /\ seen'[w] = Len(gens[GoalOf[m.job]])
                               /\ status[m.job] # "succeeded"
        BY <2>1 DEF Receive, TypeOK, Holds
      <3>2. m.job \in Jobs /\ Len(gens[GoalOf[m.job]]) \in Nat
        BY ConstantsAssumption DEF ConstantsAssumption, TypeOK, Messages
      <3>3. QED
        BY <2>1, <3>1, <3>2
    <2>2. CASE ~(Receive(w) /\ v = w)
      <3>1. Holds(v) /\ msg'[v] = msg[v] /\ seen'[v] = seen[v]
        BY <2>2 DEF TypeOK, Holds, WorkerStep, Receive, Lock, VersionConflict, LlmFails,
                    LockTimeout, Retry, Ack, Rest, WorkerLost, Redeliver
      <3>2. QED
        BY <3>1 DEF Snapshots, JobAt
    <2>3. QED
      BY <2>1, <2>2
  <1>7. QED
    BY <1>1, <1>3, <1>4, <1>5, <1>6

LEMMA StepIInv == IInv /\ [Next]_vars => IInv'
  <1> SUFFICES ASSUME IInv, [Next]_vars
               PROVE  IInv'
    OBVIOUS
  <1>1. CASE Next
    BY <1>1, ApiIInv, WorkerIInv DEF Next
  <1>2. CASE UNCHANGED vars
    BY <1>2 DEF vars, IInv, TypeOK, Requests, Deliveries, Lineage, Snapshots,
                OneGenerationPerJob, SucceededIffGeneration,
                Deliverable, Raised, JobAt, Holds, HasGeneration
  <1>3. QED
    BY <1>1, <1>2

LEMMA Invariance == Spec => []IInv
  BY InitIInv, StepIInv, PTL DEF Spec

-----------------------------------------------------------------------------
(* The safety properties.                                                  *)

\* A job makes at most one version of its goal's plan, however often it is
\* delivered and however its runs overlap; and at most two if its dispatch raised
\* after the broker took the message.
THEOREM OneGeneration == Spec => []OneGenerationPerJob
  BY Invariance, PTL DEF IInv

\* A job reads "succeeded" exactly when the version it made is there, unless the
\* request whose dispatch was ambiguous has failed it since.
THEOREM SucceededHasGeneration == Spec => []SucceededIffGeneration
  BY Invariance, PTL DEF IInv

LEMMA FailedFromIInv == IInv => FailedIsNeverRun
  <1> SUFFICES ASSUME IInv, NEW j \in Jobs, status[j] = "failed"
               PROVE  /\ Raised(j)
                      /\ j \notin AmbiguousPublish =>
                           /\ \A m \in queue : m.job # j
                           /\ \A w \in Workers : pc[w] # "idle" => JobAt(w) # j
                           /\ ~HasGeneration(j)
    BY DEF FailedIsNeverRun
  <1>1. req[j] = "marked"
    BY DEF IInv, Requests
  <1>2. j \notin AmbiguousPublish => ~Deliverable(j)
    BY <1>1 DEF Deliverable
  <1>3. QED
    BY <1>1, <1>2, GenerationDeliverable DEF IInv, Deliveries, Raised

\* A job reads "failed" only when its own request could not dispatch it; and if
\* that dispatch was not ambiguous, nobody works on it then or will ever have.
THEOREM FailedNeverRun == Spec => []FailedIsNeverRun
  BY Invariance, FailedFromIInv, PTL

-----------------------------------------------------------------------------
(* JobQueue implements JobContract.                                        *)

\* The request that may still fail job j finds it "queued" or, if its dispatch was
\* ambiguous, "succeeded".
LEMMA MarkedIsOpen ==
    ASSUME IInv, NEW j \in Jobs, req[j] = "read"
    PROVE  status[j] = "queued" \/ (j \in AmbiguousPublish /\ status[j] = "succeeded")
  <1>1. status[j] \notin {"none", "failed"}
    BY DEF IInv, Requests
  <1>2. status[j] = "succeeded" => j \in AmbiguousPublish
    BY GenerationDeliverable DEF IInv, SucceededIffGeneration, Deliverable
  <1>3. QED
    BY <1>1, <1>2 DEF IInv, TypeOK, Statuses

\* A run that commits finds its job "queued" or, if its dispatch was ambiguous, "failed".
LEMMA PersistedIsOpen ==
    ASSUME IInv, NEW j \in Jobs, Deliverable(j), status[j] # "succeeded"
    PROVE  status[j] = "queued" \/ (j \in AmbiguousPublish /\ status[j] = "failed")
  <1>1. status[j] # "none"
    BY DEF IInv, Requests, Deliverable, Raised
  <1>2. status[j] = "failed" => j \in AmbiguousPublish
    BY DEF IInv, Requests, Deliverable
  <1>3. QED
    BY <1>1, <1>2 DEF IInv, TypeOK, Statuses

LEMMA StepContract ==
    ASSUME IInv, [Next]_vars
    PROVE  [Contract!Next]_(Contract!vars)
  <1> USE DEF Contract!vars
  <1>1. CASE UNCHANGED vars
    BY <1>1 DEF vars
  <1>2. ASSUME NEW j \in Jobs, ApiStep(j)
        PROVE  [Contract!Next]_(Contract!vars)
    <2>1. CASE CommitJob(j)
      <3>1. status[j] = "none"
        BY <2>1 DEF CommitJob, IInv, Requests
      <3>2. Contract!Accept(j)
        BY <2>1, <3>1 DEF CommitJob, Contract!Accept
      <3>3. QED
        BY <3>2 DEF Contract!Next
    <2>2. CASE WriteMark(j)
      <3>1. Contract!Refuse(j)
        BY <2>2, MarkedIsOpen DEF WriteMark, Contract!Refuse
      <3>2. QED
        BY <3>1 DEF Contract!Next
    <2>3. QED
      BY <1>2, <2>1, <2>2 DEF ApiStep, Check, Publish, PublishRaises, ApiCrash,
                              ReadForMark, MarkFails
  <1>3. ASSUME NEW w \in Workers, WorkerStep(w)
        PROVE  [Contract!Next]_(Contract!vars)
    <2>1. CASE Persist(w)
      <3>1. PICK j \in Jobs : j = JobAt(w)
        BY <2>1, PersistIsFirst
      <3>2. Deliverable(j) /\ status[j] # "succeeded"
        BY <2>1, <3>1, PersistIsFirst DEF Deliverable, Raised
      <3>3. status[j] = "queued" \/ (j \in AmbiguousPublish /\ status[j] = "failed")
        BY <3>2, PersistedIsOpen
      <3>4. Contract!Succeed(j)
        BY <2>1, <3>1, <3>3 DEF Persist, Contract!Succeed
      <3>5. QED
        BY <3>4 DEF Contract!Next
    <2>2. CASE ~Persist(w)
      BY <1>3, <2>2, WorkerFrame
    <2>3. QED
      BY <2>1, <2>2
  <1>4. QED
    BY <1>1, <1>2, <1>3 DEF Next

\* Whatever is lost, repeated, retried or interleaved: each accepted job whose
\* dispatch was not ambiguous ends at most once, with exactly one new version of
\* the plan or with none; and every success of any job is one new version.
THEOREM ContractKept == Spec => KeepsContract
  <1>1. Init => Contract!Init
    BY DEF Init, Contract!Init
  <1>2. IInv /\ [Next]_vars => [Contract!Next]_(Contract!vars)
    BY StepContract
  <1>3. QED
    BY <1>1, <1>2, Invariance, PTL DEF Spec, KeepsContract, Contract!Spec

-----------------------------------------------------------------------------
(***************************************************************************)
(* Nobody is stranded while no delivery is lost or made again.  A job then *)
(* has one delivery at a time (OneDelivery), so that nobody waits for a    *)
(* row lock, and each attempt that failed did so by a failure of the       *)
(* environment or because a version of the plan had overtaken it           *)
(* (Attempts).  Hence who gives up has been overtaken, or failed, more     *)
(* than max_retries times (Served).                                        *)
(***************************************************************************)

OneDelivery ==
    /\ \A m, n \in queue : m.job = n.job => m = n
    /\ \A v, w \in Workers : Holds(v) /\ Holds(w) /\ JobAt(v) = JobAt(w) => v = w
    /\ \A m \in queue, w \in Workers : Holds(w) => m.job # JobAt(w)

NotYetMade ==
    /\ \A m \in queue : ~HasGeneration(m.job)
    /\ \A w \in Workers : Holds(w) => ~HasGeneration(JobAt(w))
    /\ \A j \in Jobs : HasGeneration(j) => status[j] # "queued"
    /\ \A g \in Goals : \A i, k \in DOMAIN gens[g] : gens[g][i] = gens[g][k] => i = k

Attempts ==
    /\ \A m \in queue : m.retries <= Len(gens[GoalOf[m.job]]) + faults
    /\ \A w \in Workers : Holds(w) => msg[w].retries <= seen[w] + faults

\* A queued job that nobody will run any more has had more than max_retries mishaps.
Served ==
    \A j \in Jobs : status[j] = "queued" =>
        InFlight(j) \/ Len(gens[GoalOf[j]]) + faults > MaxRetries

SInv == IInv /\ OneDelivery /\ NotYetMade /\ Attempts /\ Served

LEMMA InitSInv == Init => SInv
  <1> SUFFICES ASSUME Init PROVE SInv
    OBVIOUS
  <1>1. IInv
    BY InitIInv
  <1>2. \A j \in Jobs : ~HasGeneration(j)
    <2>1. \A g \in Goals : DOMAIN gens[g] = {}
      BY DEF Init
    <2>2. QED
      BY <2>1, ConstantsAssumption DEF ConstantsAssumption, HasGeneration
  <1>3. OneDelivery /\ Attempts /\ Served
    BY DEF Init, OneDelivery, Attempts, Served, Holds
  <1>4. NotYetMade
    BY <1>2 DEF Init, NotYetMade, Holds
  <1>5. QED
    BY <1>1, <1>3, <1>4 DEF SInv

\* A request publishes its job when nobody has a delivery of it yet.
LEMMA FirstIsOnly ==
    ASSUME IInv, NEW j \in Jobs, req[j] = "committed"
    PROVE  /\ \A m \in queue : m.job # j
           /\ \A w \in Workers : Holds(w) => JobAt(w) # j
           /\ ~HasGeneration(j)
  <1>1. ~Deliverable(j)
    BY DEF Deliverable, Raised
  <1>2. \A w \in Workers : Holds(w) => pc[w] # "idle"
    BY DEF Holds
  <1>3. QED
    BY <1>1, <1>2, GenerationDeliverable DEF IInv, Deliveries

\* What a request's step does to the queue.
LEMMA ApiQueue ==
    ASSUME NEW j \in Jobs, ApiStep(j)
    PROVE  /\ queue' = queue \/ (req[j] = "committed" /\ queue' = queue \cup {FirstDelivery(j)})
           /\ faults' \in {faults, faults + 1}
  <1>1. CASE Check(j)          BY <1>1 DEF Check
  <1>2. CASE CommitJob(j)      BY <1>2 DEF CommitJob
  <1>3. CASE Publish(j)        BY <1>3 DEF Publish
  <1>4. CASE PublishRaises(j)  BY <1>4 DEF PublishRaises, Fault
  <1>5. CASE ApiCrash(j)       BY <1>5 DEF ApiCrash, Fault
  <1>6. CASE ReadForMark(j)    BY <1>6 DEF ReadForMark
  <1>7. CASE WriteMark(j)      BY <1>7 DEF WriteMark
  <1>8. CASE MarkFails(j)      BY <1>8 DEF MarkFails, Fault
  <1>9. QED
    BY <1>1, <1>2, <1>3, <1>4, <1>5, <1>6, <1>7, <1>8 DEF ApiStep

\* A request that leaves its job queued leaves it to somebody.
LEMMA ApiServes ==
    ASSUME IInv, ~Lossy, NEW j \in Jobs, ApiStep(j), status'[j] = "queued",
           status[j] = "queued" => InFlight(j)
    PROVE  InFlight(j)'
  <1> USE DEF IInv, TypeOK, InFlight
  <1>0. msg' = msg /\ pc' = pc
    BY ApiFacts
  <1>1. CASE Check(j)
    BY <1>1 DEF Check, Requests
  <1>2. CASE CommitJob(j)
    BY <1>2 DEF CommitJob
  <1>3. CASE Publish(j)
    <2>1. FirstDelivery(j) \in queue' /\ FirstDelivery(j).job = j
      BY <1>3 DEF Publish, FirstDelivery
    <2>2. QED
      BY <2>1
  <1>4. CASE PublishRaises(j)
    BY <1>4 DEF PublishRaises
  <1>5. CASE ApiCrash(j)
    BY <1>5 DEF ApiCrash
  <1>6. CASE ReadForMark(j)
    BY <1>6 DEF ReadForMark
  <1>7. CASE WriteMark(j)
    BY <1>7 DEF WriteMark
  <1>8. CASE MarkFails(j)
    <2>1. RowLocked(j)
      BY <1>8 DEF MarkFails
    <2>2. \E w \in Workers : Holds(w)' /\ JobAt(w)' = j
      BY <1>0, <2>1 DEF RowLocked, Holds, JobAt
    <2>3. QED
      BY <2>2
  <1>9. QED
    BY <1>1, <1>2, <1>3, <1>4, <1>5, <1>6, <1>7, <1>8 DEF ApiStep

LEMMA ApiSInv ==
    ASSUME SInv, ~Lossy, NEW j \in Jobs, ApiStep(j)
    PROVE  SInv'
  <1> USE DEF SInv
  <1>1. IInv' /\ IInv /\ TypeOK
    BY ApiIInv DEF IInv
  <1>2. gens' = gens /\ pc' = pc /\ msg' = msg /\ seen' = seen
    BY <1>1, ApiFacts
  <1>3. /\ \A w \in Workers : Holds(w)' = Holds(w) /\ JobAt(w)' = JobAt(w)
        /\ \A k \in Jobs : HasGeneration(k)' <=> HasGeneration(k)
    BY <1>2 DEF Holds, JobAt, HasGeneration
  <1>4. \A m \in queue' :
          \/ m \in queue
          \/ m = FirstDelivery(j) /\ req[j] = "committed"
    BY ApiQueue
  <1>5. OneDelivery'
    BY <1>1, <1>3, <1>4, FirstIsOnly DEF OneDelivery, FirstDelivery
  <1>6. NotYetMade'
    <2>1. \A m \in queue' : m.job \in Jobs /\ ~HasGeneration(m.job)
      BY <1>1, <1>4, FirstIsOnly DEF NotYetMade, FirstDelivery, TypeOK, Messages
    <2>2. \A w \in Workers : Holds(w) => JobAt(w) \in Jobs /\ ~HasGeneration(JobAt(w))
      BY <1>1 DEF NotYetMade, TypeOK, Messages, Holds, JobAt
    <2>3. \A k \in Jobs : HasGeneration(k) => status'[k] # "queued"
      <3>1. HasGeneration(j) => req[j] # "checked"
        BY <1>1, GenerationDeliverable DEF IInv, Deliverable, Raised
      <3>2. QED
        BY <1>1, <3>1, ApiRows DEF NotYetMade
    <2>4. QED
      BY <1>2, <1>3, <2>1, <2>2, <2>3 DEF NotYetMade
  <1>7. faults \in Nat /\ faults' \in Nat /\ faults <= faults'
    <2>1. faults \in Nat
      BY <1>1, ConstantsAssumption DEF TypeOK, ConstantsAssumption
    <2>2. faults' \in {faults, faults + 1}
      BY ApiQueue
    <2>3. QED
      BY <2>1, <2>2
  <1>8. Attempts'
    <2>1. \A m \in queue : m.retries \in Nat /\ Len(gens[GoalOf[m.job]]) \in Nat
      BY <1>1, ConstantsAssumption DEF TypeOK, Messages, ConstantsAssumption
    <2>2. \A w \in Workers : Holds(w) => msg[w].retries \in Nat /\ seen[w] \in Nat
      BY <1>1 DEF TypeOK, Messages, Holds
    <2>3. \A m \in queue' : m.retries <= Len(gens[GoalOf[m.job]]) + faults'
      <3> SUFFICES ASSUME NEW m \in queue' PROVE m.retries <= Len(gens[GoalOf[m.job]]) + faults'
        OBVIOUS
      <3>1. CASE m \in queue
        BY <1>7, <2>1, <3>1 DEF Attempts
      <3>2. CASE m = FirstDelivery(j)
        <4>1. m.retries = 0 /\ Len(gens[GoalOf[m.job]]) \in Nat
          BY <1>1, <3>2, ConstantsAssumption DEF FirstDelivery, TypeOK, ConstantsAssumption
        <4>2. QED
          BY <1>7, <4>1
      <3>3. QED
        BY <1>4, <3>1, <3>2
    <2>4. \A w \in Workers : Holds(w) => msg[w].retries <= seen[w] + faults'
      BY <1>7, <2>2 DEF Attempts
    <2>5. QED
      BY <1>2, <1>3, <2>3, <2>4 DEF Attempts
  <1>9. Served'
    <2> SUFFICES ASSUME NEW k \in Jobs, status'[k] = "queued"
                 PROVE  InFlight(k)' \/ Len(gens[GoalOf[k]]) + faults' > MaxRetries
      BY <1>2 DEF Served
    <2>1. CASE status[k] = "queued" /\ ~InFlight(k)
      <3>1. Len(gens[GoalOf[k]]) + faults > MaxRetries /\ Len(gens[GoalOf[k]]) \in Nat
        BY <1>1, <2>1, ConstantsAssumption DEF Served, TypeOK, ConstantsAssumption
      <3>2. QED
        BY <1>7, <3>1, ConstantsAssumption DEF ConstantsAssumption
    <2>2. CASE k = j /\ (status[k] = "queued" => InFlight(k))
      BY <1>1, <2>2, ApiServes
    <2>3. CASE k # j /\ (status[k] = "queued" => InFlight(k))
      <3>1. status[k] = "queued" /\ req'[k] = req[k]
        BY <1>1, <2>3, ApiRows
      <3>2. \A m \in queue : m \in queue'
        BY ApiQueue
      <3>3. QED
        BY <1>3, <2>3, <3>1, <3>2 DEF InFlight
    <2>4. QED
      BY <2>1, <2>2, <2>3
  <1>10. QED
    BY <1>1, <1>5, <1>6, <1>8, <1>9

\* What a worker's step does to the deliveries: it takes one, keeps what it has, ends
\* its job, gives its delivery back for another attempt, or gives it up.
Frame(w) ==
    /\ UNCHANGED req
    /\ \A v \in Workers \ {w} : pc'[v] = pc[v] /\ msg'[v] = msg[v] /\ seen'[v] = seen[v]

Takes(w, m) ==
    /\ ~Holds(w)
    /\ queue' = queue \ {m} /\ UNCHANGED <<status, gens, faults>>
    /\ Holds(w)' => msg'[w] = m /\ seen'[w] = Len(gens[GoalOf[m.job]])
    /\ status[m.job] = "queued" => Holds(w)' /\ msg'[w] = m

Keeps(w) ==
    /\ UNCHANGED <<queue, status, gens, faults>>
    /\ Holds(w)' <=> Holds(w)
    /\ Holds(w) => msg'[w] = msg[w] /\ seen'[w] = seen[w]

GivesBack(w, m) ==
    /\ Holds(w) /\ ~Holds(w)'
    /\ queue' = queue \cup {m} /\ m.job = JobAt(w) /\ UNCHANGED <<status, gens>>
    /\ m.retries <= Len(gens[GoalOf[m.job]]) + faults'

GivesUp(w) ==
    /\ Holds(w) /\ ~Holds(w)'
    /\ UNCHANGED <<queue, status, gens>>
    /\ Len(gens[GoalOf[JobAt(w)]]) + faults' > MaxRetries

LEMMA Numbers ==
    ASSUME SInv
    PROVE  /\ faults \in Nat /\ MaxRetries \in Nat /\ MaxFaults \in Nat
           /\ \A j \in Jobs : GoalOf[j] \in Goals /\ Len(gens[GoalOf[j]]) \in Nat
           /\ \A m \in queue : m \in Messages /\ m.job \in Jobs /\ m.retries \in Nat
           /\ \A w \in Workers : Holds(w) =>
                msg[w] \in Messages /\ JobAt(w) \in Jobs /\ msg[w].retries \in Nat /\ seen[w] \in Nat
  <1> USE DEF SInv, IInv
  <1>1. /\ faults \in Nat /\ MaxRetries \in Nat /\ MaxFaults \in Nat
        /\ \A j \in Jobs : GoalOf[j] \in Goals /\ Len(gens[GoalOf[j]]) \in Nat
    BY ConstantsAssumption DEF ConstantsAssumption, TypeOK
  <1>2. \A m \in Messages : m.job \in Jobs /\ m.retries \in Nat
    BY DEF Messages
  <1>3. \A w \in Workers : Holds(w) => msg[w] \in Messages /\ seen[w] \in Nat
    BY DEF Holds, TypeOK
  <1>4. QED
    BY <1>1, <1>2, <1>3 DEF TypeOK, JobAt

LEMMA RetryMoves ==
    ASSUME SInv, NEW w \in Workers, Holds(w), Retry(w),
           msg[w].retries + 1 <= Len(gens[GoalOf[JobAt(w)]]) + faults', faults' \in Nat
    PROVE  Frame(w) /\ ((\E m \in Messages : GivesBack(w, m)) \/ GivesUp(w))
  <1>0. msg[w] \in Messages /\ JobAt(w) \in Jobs /\ msg[w].retries \in Nat
        /\ Len(gens[GoalOf[JobAt(w)]]) \in Nat /\ MaxRetries \in Nat
    BY Numbers
  <1>1. /\ UNCHANGED <<req, status, gens, msg, seen>> /\ pc' = [pc EXCEPT ![w] = "ack"]
        /\ ~Holds(w)' /\ pc \in [Workers -> WorkerStates]
    BY DEF Retry, api, Holds, SInv, IInv, TypeOK
  <1>2. Frame(w)
    BY <1>1 DEF Frame
  <1>3. CASE msg[w].retries < MaxRetries
    <2> DEFINE m == NextDelivery(msg[w])
    <2>1. m \in Messages /\ m.job = JobAt(w) /\ m.retries = msg[w].retries + 1
      BY <1>0, <1>3 DEF NextDelivery, Messages, JobAt
    <2>2. queue' = queue \cup {m}
      BY <1>3 DEF Retry
    <2> HIDE DEF m
    <2>3. GivesBack(w, m)
      BY <1>1, <2>1, <2>2 DEF GivesBack
    <2>4. QED
      BY <1>2, <2>1, <2>3
  <1>4. CASE ~(msg[w].retries < MaxRetries)
    <2>1. queue' = queue
      BY <1>4 DEF Retry
    <2>2. Len(gens[GoalOf[JobAt(w)]]) + faults' > MaxRetries
      BY <1>0, <1>4
    <2>3. QED
      BY <1>1, <1>2, <2>1, <2>2 DEF GivesUp
  <1>5. QED
    BY <1>3, <1>4

LEMMA WorkerMoves ==
    ASSUME SInv, ~Lossy, ~Redeliveries, NEW w \in Workers, WorkerStep(w)
    PROVE  /\ Frame(w)
           /\ faults' \in Nat /\ faults <= faults'
           /\ \/ \E m \in queue : Takes(w, m)
              \/ Keeps(w)
              \/ Persist(w) /\ faults' = faults
              \/ \E m \in Messages : GivesBack(w, m)
              \/ GivesUp(w)
  <1>0. TypeOK /\ Snapshots /\ Attempts /\ pc \in [Workers -> WorkerStates]
    BY DEF SInv, IInv, TypeOK
  <1>n. faults \in Nat
    BY Numbers
  <1>1. CASE Receive(w)
    <2>1. PICK m \in queue :
            /\ queue' = queue \ {m}
            /\ msg' = [msg EXCEPT ![w] = m]
            /\ seen' = [seen EXCEPT ![w] = Len(gens[GoalOf[m.job]])]
            /\ pc' = [pc EXCEPT ![w] =
                   IF status[m.job] \in {"none", "succeeded"} THEN "ack" ELSE "begun"]
      BY <1>1 DEF Receive
    <2>2. ~Holds(w) /\ UNCHANGED <<req, status, gens, faults>>
      BY <1>1 DEF Receive, Holds, api
    <2>3. msg'[w] = m /\ seen'[w] = Len(gens[GoalOf[m.job]])
      BY <1>0, <2>1 DEF TypeOK
    <2>4. status[m.job] = "queued" => Holds(w)'
      BY <1>0, <2>1 DEF Holds
    <2>5. Takes(w, m)
      BY <2>1, <2>2, <2>3, <2>4 DEF Takes
    <2>6. Frame(w)
      BY <2>1, <2>2 DEF Frame
    <2>7. QED
      BY <1>n, <2>2, <2>5, <2>6
  <1>2. CASE Lock(w)
    <2>1. Frame(w) /\ faults' = faults
      BY <1>0, <1>2 DEF Lock, Frame, api
    <2>2. Keeps(w)
      BY <1>0, <1>2 DEF Lock, Keeps, Holds, api
    <2>3. QED
      BY <1>n, <2>1, <2>2
  <1>3. CASE Persist(w)
    BY <1>0, <1>3, <1>n DEF Persist, Frame
  <1>4. CASE VersionConflict(w)
    <2>1. Holds(w) /\ Retry(w) /\ faults' = faults
      BY <1>4 DEF VersionConflict, Holds
    <2>2. Len(gens[GoalOf[JobAt(w)]]) # seen[w] /\ seen[w] <= Len(gens[GoalOf[JobAt(w)]])
          /\ msg[w].retries <= seen[w] + faults
      BY <1>0, <1>4, <2>1 DEF VersionConflict, Snapshots, Attempts
    <2>3. msg[w].retries + 1 <= Len(gens[GoalOf[JobAt(w)]]) + faults'
      BY <2>1, <2>2, Numbers
    <2>4. QED
      BY <1>n, <2>1, <2>3, RetryMoves
  <1>5. CASE LlmFails(w)
    <2>1. Holds(w) /\ Retry(w) /\ faults' = faults + 1
      BY <1>5 DEF LlmFails, Holds, Fault
    <2>2. seen[w] <= Len(gens[GoalOf[JobAt(w)]]) /\ msg[w].retries <= seen[w] + faults
      BY <1>0, <2>1 DEF Snapshots, Attempts
    <2>3. msg[w].retries + 1 <= Len(gens[GoalOf[JobAt(w)]]) + faults'
      BY <2>1, <2>2, Numbers
    <2>4. faults' \in Nat /\ faults <= faults'
      BY <1>n, <2>1
    <2>5. QED
      BY <2>1, <2>3, <2>4, RetryMoves
  <1>6. CASE LockTimeout(w)
    <2>1. PICK v \in Workers : pc[v] = "running" /\ JobAt(v) = JobAt(w) /\ pc[w] = "begun"
      BY <1>6 DEF LockTimeout, RowLocked
    <2>2. v = w
      BY <2>1 DEF SInv, OneDelivery, Holds
    <2>3. QED
      BY <2>1, <2>2
  <1>7. CASE Ack(w)
    <2>1. Frame(w) /\ faults' = faults
      BY <1>0, <1>7 DEF Ack, Rest, Frame, api
    <2>2. Keeps(w)
      BY <1>0, <1>7 DEF Ack, Rest, Keeps, Holds, api
    <2>3. QED
      BY <1>n, <2>1, <2>2
  <1>8. CASE WorkerLost(w)
    <2>1. Holds(w) /\ queue' = queue \cup {msg[w]} /\ faults' = faults + 1 /\ Rest(w)
          /\ UNCHANGED <<req, status, gens>>
      BY <1>0, <1>8 DEF WorkerLost, Holds, WorkerStates, Fault, api
    <2>2. Frame(w) /\ ~Holds(w)'
      BY <1>0, <2>1 DEF Rest, Frame, Holds
    <2>3. seen[w] <= Len(gens[GoalOf[JobAt(w)]]) /\ msg[w].retries <= seen[w] + faults
      BY <1>0, <2>1 DEF Snapshots, Attempts
    <2>4. msg[w].retries <= Len(gens[GoalOf[JobAt(w)]]) + faults'
      BY <2>1, <2>3, Numbers
    <2>5. GivesBack(w, msg[w]) /\ msg[w] \in Messages
      BY <2>1, <2>2, <2>4, Numbers DEF GivesBack, JobAt
    <2>6. QED
      BY <1>n, <2>1, <2>2, <2>5
  <1>9. CASE Redeliver(w)
    BY <1>9 DEF Redeliver
  <1>10. QED
    BY <1>1, <1>2, <1>3, <1>4, <1>5, <1>6, <1>7, <1>8, <1>9 DEF WorkerStep

\* A version is one of its job's, and only the step that makes it changes that.
LEMMA SameGenerations ==
    ASSUME gens' = gens
    PROVE  \A j : HasGeneration(j)' <=> HasGeneration(j)
  BY DEF HasGeneration

LEMMA TakesSInv ==
    ASSUME SInv, NEW w \in Workers, NEW m \in queue, Takes(w, m), Frame(w),
           faults' \in Nat, faults <= faults'
    PROVE  (OneDelivery /\ NotYetMade /\ Attempts /\ Served)'
  <1>1. /\ ~Holds(w) /\ queue' = queue \ {m} /\ gens' = gens /\ status' = status
        /\ faults' = faults /\ req' = req
        /\ Holds(w)' => JobAt(w)' = m.job /\ msg'[w] = m /\ seen'[w] = Len(gens[GoalOf[m.job]])
        /\ \A v \in Workers \ {w} : /\ Holds(v)' <=> Holds(v)
                                   /\ JobAt(v)' = JobAt(v) /\ msg'[v] = msg[v]
                                   /\ seen'[v] = seen[v]
    BY DEF Takes, Frame, Holds, JobAt
  <1>2. OneDelivery'
    BY <1>1 DEF SInv, OneDelivery
  <1>3. NotYetMade'
    BY <1>1, SameGenerations DEF SInv, NotYetMade
  <1>4. Attempts'
    BY <1>1 DEF SInv, Attempts
  <1>5. Served'
    <2> SUFFICES ASSUME NEW j \in Jobs, status[j] = "queued", InFlight(j)
                 PROVE  InFlight(j)'
      BY <1>1 DEF SInv, Served
    <2>1. CASE m.job = j
      BY <1>1, <2>1 DEF Takes, InFlight
    <2>2. CASE m.job # j
      BY <1>1, <2>2 DEF InFlight
    <2>3. QED
      BY <2>1, <2>2
  <1>6. QED
    BY <1>2, <1>3, <1>4, <1>5

LEMMA KeepsSInv ==
    ASSUME SInv, NEW w \in Workers, Keeps(w), Frame(w)
    PROVE  (OneDelivery /\ NotYetMade /\ Attempts /\ Served)'
  <1>1. queue' = queue /\ gens' = gens /\ status' = status /\ faults' = faults /\ req' = req
    BY DEF Keeps, Frame
  <1>2. \A v \in Workers : Holds(v)' <=> Holds(v)
    BY DEF Keeps, Frame, Holds
  <1>3. \A v \in Workers : Holds(v) =>
          JobAt(v)' = JobAt(v) /\ msg'[v] = msg[v] /\ seen'[v] = seen[v]
    BY DEF Keeps, Frame, Holds, JobAt
  <1>4. OneDelivery'
    <2>1. \A m, n \in queue' : m.job = n.job => m = n
      BY <1>1 DEF SInv, OneDelivery
    <2>2. \A u, v \in Workers : Holds(u)' /\ Holds(v)' /\ JobAt(u)' = JobAt(v)' => u = v
      BY <1>2, <1>3 DEF SInv, OneDelivery
    <2>3. \A m \in queue', v \in Workers : Holds(v)' => m.job # JobAt(v)'
      BY <1>1, <1>2, <1>3 DEF SInv, OneDelivery
    <2>4. QED
      BY <2>1, <2>2, <2>3 DEF OneDelivery
  <1>5. Attempts'
    <2>1. \A m \in queue' : m.retries <= Len(gens'[GoalOf[m.job]]) + faults'
      BY <1>1 DEF SInv, Attempts
    <2>2. \A v \in Workers : Holds(v)' => msg'[v].retries <= seen'[v] + faults'
      BY <1>1, <1>2, <1>3 DEF SInv, Attempts
    <2>3. QED
      BY <2>1, <2>2 DEF Attempts
  <1>6. NotYetMade'
    <2>1. \A v \in Workers : Holds(v)' => ~HasGeneration(JobAt(v))'
      BY <1>1, <1>2, <1>3 DEF SInv, NotYetMade, HasGeneration
    <2>2. QED
      BY <1>1, <2>1, SameGenerations DEF SInv, NotYetMade
  <1>7. Served'
    <2> SUFFICES ASSUME NEW j \in Jobs, status[j] = "queued", InFlight(j)
                 PROVE  InFlight(j)'
      BY <1>1 DEF SInv, Served
    <2>1. CASE \E v \in Workers : Holds(v) /\ JobAt(v) = j
      BY <1>2, <1>3, <2>1 DEF InFlight
    <2>2. CASE ~\E v \in Workers : Holds(v) /\ JobAt(v) = j
      BY <1>1, <2>2 DEF InFlight
    <2>3. QED
      BY <2>1, <2>2
  <1>8. QED
    BY <1>4, <1>5, <1>6, <1>7

LEMMA GivesBackSInv ==
    ASSUME SInv, NEW w \in Workers, NEW m \in Messages, GivesBack(w, m), Frame(w),
           faults' \in Nat, faults <= faults'
    PROVE  (OneDelivery /\ NotYetMade /\ Attempts /\ Served)'
  <1>1. /\ Holds(w) /\ ~Holds(w)' /\ queue' = queue \cup {m} /\ m.job = JobAt(w)
        /\ gens' = gens /\ status' = status /\ req' = req
        /\ m.retries <= Len(gens[GoalOf[m.job]]) + faults'
        /\ \A v \in Workers \ {w} : /\ Holds(v)' <=> Holds(v)
                                   /\ JobAt(v)' = JobAt(v) /\ msg'[v] = msg[v]
                                   /\ seen'[v] = seen[v]
    BY DEF GivesBack, Frame, Holds, JobAt
  <1>2. OneDelivery'
    BY <1>1 DEF SInv, OneDelivery
  <1>3. NotYetMade'
    BY <1>1, SameGenerations DEF SInv, NotYetMade
  <1>4. Attempts'
    <2>1. \A n \in queue : n.retries <= Len(gens[GoalOf[n.job]]) + faults'
      BY Numbers DEF SInv, Attempts
    <2>2. \A v \in Workers : Holds(v) => msg[v].retries <= seen[v] + faults'
      BY Numbers DEF SInv, Attempts
    <2>3. QED
      BY <1>1, <2>1, <2>2 DEF Attempts
  <1>5. Served'
    <2> SUFFICES ASSUME NEW j \in Jobs, status[j] = "queued"
                 PROVE  InFlight(j)' \/ Len(gens[GoalOf[j]]) + faults' > MaxRetries
      BY <1>1 DEF Served
    <2>1. CASE InFlight(j)
      <3>1. CASE JobAt(w) = j
        BY <1>1, <3>1 DEF InFlight
      <3>2. CASE JobAt(w) # j
        BY <1>1, <2>1, <3>2 DEF InFlight
      <3>3. QED
        BY <3>1, <3>2
    <2>2. CASE ~InFlight(j)
      <3>1. Len(gens[GoalOf[j]]) + faults > MaxRetries
        BY <2>2 DEF SInv, Served
      <3>2. QED
        BY <3>1, Numbers
    <2>3. QED
      BY <2>1, <2>2
  <1>6. QED
    BY <1>2, <1>3, <1>4, <1>5

LEMMA GivesUpSInv ==
    ASSUME SInv, NEW w \in Workers, GivesUp(w), Frame(w), faults' \in Nat, faults <= faults'
    PROVE  (OneDelivery /\ NotYetMade /\ Attempts /\ Served)'
  <1>1. /\ Holds(w) /\ ~Holds(w)' /\ queue' = queue
        /\ gens' = gens /\ status' = status /\ req' = req
        /\ Len(gens[GoalOf[JobAt(w)]]) + faults' > MaxRetries
        /\ \A v \in Workers \ {w} : /\ Holds(v)' <=> Holds(v)
                                   /\ JobAt(v)' = JobAt(v) /\ msg'[v] = msg[v]
                                   /\ seen'[v] = seen[v]
    BY DEF GivesUp, Frame, Holds, JobAt
  <1>2. OneDelivery'
    BY <1>1 DEF SInv, OneDelivery
  <1>3. NotYetMade'
    BY <1>1, SameGenerations DEF SInv, NotYetMade
  <1>4. Attempts'
    <2>1. \A n \in queue : n.retries <= Len(gens[GoalOf[n.job]]) + faults'
      BY Numbers DEF SInv, Attempts
    <2>2. \A v \in Workers : Holds(v) => msg[v].retries <= seen[v] + faults'
      BY Numbers DEF SInv, Attempts
    <2>3. QED
      BY <1>1, <2>1, <2>2 DEF Attempts
  <1>5. Served'
    <2> SUFFICES ASSUME NEW j \in Jobs, status[j] = "queued"
                 PROVE  InFlight(j)' \/ Len(gens[GoalOf[j]]) + faults' > MaxRetries
      BY <1>1 DEF Served
    <2>1. CASE InFlight(j)
      <3>1. CASE JobAt(w) = j
        BY <1>1, <3>1
      <3>2. CASE JobAt(w) # j
        BY <1>1, <2>1, <3>2 DEF InFlight
      <3>3. QED
        BY <3>1, <3>2
    <2>2. CASE ~InFlight(j)
      <3>1. Len(gens[GoalOf[j]]) + faults > MaxRetries
        BY <2>2 DEF SInv, Served
      <3>2. QED
        BY <3>1, Numbers
    <2>3. QED
      BY <2>1, <2>2
  <1>6. QED
    BY <1>2, <1>3, <1>4, <1>5

LEMMA PersistSInv ==
    ASSUME SInv, NEW w \in Workers, Persist(w), faults' = faults
    PROVE  (OneDelivery /\ NotYetMade /\ Attempts /\ Served)'
  <1>0. IInv /\ TypeOK
    BY DEF SInv, IInv
  <1>j. PICK j \in Jobs : j = JobAt(w)
    BY <1>0, PersistIsFirst
  <1>g. PICK g \in Goals : g = GoalOf[j]
    BY ConstantsAssumption DEF ConstantsAssumption
  <1>1. /\ Holds(w) /\ ~Holds(w)' /\ queue' = queue /\ msg' = msg /\ seen' = seen /\ req' = req
        /\ status' = [status EXCEPT ![j] = "succeeded"]
        /\ \A v \in Workers \ {w} : Holds(v)' <=> Holds(v)
        /\ \A v \in Workers : JobAt(v)' = JobAt(v)
    BY <1>0, <1>j DEF Persist, Holds, JobAt, TypeOK
  <1>2. /\ \A h \in Goals \ {g} : gens'[h] = gens[h]
        /\ Len(gens'[g]) = Len(gens[g]) + 1
        /\ DOMAIN gens'[g] = 1..(Len(gens[g]) + 1)
        /\ DOMAIN gens[g] = 1..Len(gens[g])
        /\ \A i \in DOMAIN gens[g] : gens'[g][i] = gens[g][i]
        /\ gens'[g][Len(gens[g]) + 1] = j
        /\ Len(gens[g]) \in Nat
    BY <1>0, <1>j, <1>g, PersistAppends, Numbers
  <1>3. \A k \in Jobs : HasGeneration(k)' <=> HasGeneration(k) \/ k = j
    <2> SUFFICES ASSUME NEW k \in Jobs PROVE HasGeneration(k)' <=> HasGeneration(k) \/ k = j
      OBVIOUS
    <2>1. GoalOf[k] \in Goals
      BY ConstantsAssumption DEF ConstantsAssumption
    <2>2. CASE GoalOf[k] = g
      BY <1>2, <1>g, <2>2 DEF HasGeneration
    <2>3. CASE GoalOf[k] # g
      BY <1>2, <1>g, <2>1, <2>3 DEF HasGeneration
    <2>4. QED
      BY <2>2, <2>3
  <1>4. /\ ~HasGeneration(j)
        /\ \A m \in queue : m.job # j
        /\ \A v \in Workers \ {w} : Holds(v) => JobAt(v) # j
    BY <1>1, <1>j DEF SInv, NotYetMade, OneDelivery
  <1>5. OneDelivery'
    BY <1>1 DEF SInv, OneDelivery
  <1>6. NotYetMade'
    <2>1. \A m \in queue' : ~HasGeneration(m.job)'
      BY <1>1, <1>3, <1>4, Numbers DEF SInv, NotYetMade
    <2>2. \A v \in Workers : Holds(v)' => ~HasGeneration(JobAt(v))'
      <3> SUFFICES ASSUME NEW v \in Workers, Holds(v)' PROVE ~HasGeneration(JobAt(v))'
        OBVIOUS
      <3>1. v # w /\ Holds(v) /\ JobAt(v) \in Jobs /\ JobAt(v) # j
        BY <1>1, <1>4, Numbers
      <3>2. PICK k \in Jobs : k = JobAt(v)
        BY <3>1
      <3>3. ~HasGeneration(k)
        BY <3>1, <3>2 DEF SInv, NotYetMade
      <3>4. ~HasGeneration(k)'
        BY <1>3, <3>1, <3>2, <3>3
      <3>5. k = JobAt(v)'
        BY <1>1, <3>2
      <3>6. QED
        BY <3>4, <3>5 DEF HasGeneration
    <2>3. \A k \in Jobs : HasGeneration(k)' => status'[k] # "queued"
      BY <1>0, <1>1, <1>3 DEF SInv, NotYetMade, TypeOK
    <2>4. \A h \in Goals : \A i, k \in DOMAIN gens'[h] : gens'[h][i] = gens'[h][k] => i = k
      <3>1. \A i \in DOMAIN gens[g] : gens[g][i] # j
        BY <1>4, <1>g DEF HasGeneration
      <3>2. \A i, k \in DOMAIN gens'[g] : gens'[g][i] = gens'[g][k] => i = k
        BY <1>2, <3>1 DEF SInv, NotYetMade
      <3>3. QED
        BY <1>2, <3>2 DEF SInv, NotYetMade
    <2>5. QED
      BY <2>1, <2>2, <2>3, <2>4 DEF NotYetMade
  <1>7. \A k \in Jobs : Len(gens[GoalOf[k]]) <= Len(gens'[GoalOf[k]]) /\ Len(gens'[GoalOf[k]]) \in Nat
    BY <1>2, Numbers
  <1>8. Attempts'
    <2>1. \A m \in queue : m.retries <= Len(gens'[GoalOf[m.job]]) + faults
      <3> SUFFICES ASSUME NEW m \in queue PROVE m.retries <= Len(gens'[GoalOf[m.job]]) + faults
        OBVIOUS
      <3>1. m.retries <= Len(gens[GoalOf[m.job]]) + faults
        BY DEF SInv, Attempts
      <3>2. m.job \in Jobs /\ m.retries \in Nat /\ Len(gens[GoalOf[m.job]]) \in Nat /\ faults \in Nat
        BY Numbers
      <3>3. Len(gens[GoalOf[m.job]]) <= Len(gens'[GoalOf[m.job]]) /\ Len(gens'[GoalOf[m.job]]) \in Nat
        BY <1>7, <3>2
      <3>4. QED
        BY <3>1, <3>2, <3>3
    <2>2. \A v \in Workers : Holds(v)' => msg'[v].retries <= seen'[v] + faults
      BY <1>1 DEF SInv, Attempts
    <2>3. QED
      BY <1>1, <2>1, <2>2 DEF Attempts
  <1>9. Served'
    <2> SUFFICES ASSUME NEW k \in Jobs, status'[k] = "queued"
                 PROVE  InFlight(k)' \/ Len(gens'[GoalOf[k]]) + faults' > MaxRetries
      BY DEF Served
    <2>1. k # j /\ status[k] = "queued"
      BY <1>0, <1>1 DEF TypeOK
    <2>2. CASE InFlight(k)
      BY <1>1, <1>j, <2>1, <2>2 DEF InFlight
    <2>3. CASE ~InFlight(k)
      <3>1. Len(gens[GoalOf[k]]) + faults > MaxRetries
        BY <2>1, <2>3 DEF SInv, Served
      <3>2. QED
        BY <1>7, <3>1, Numbers
    <2>4. QED
      BY <2>2, <2>3
  <1>10. QED
    BY <1>5, <1>6, <1>8, <1>9

LEMMA StepSInv ==
    ASSUME SInv, ~Lossy, ~Redeliveries, [Next]_vars
    PROVE  SInv'
  <1>1. IInv'
    BY StepIInv DEF SInv
  <1>2. ASSUME NEW j \in Jobs, ApiStep(j) PROVE SInv'
    BY <1>2, ApiSInv
  <1>3. ASSUME NEW w \in Workers, WorkerStep(w) PROVE SInv'
    <2>0. Frame(w) /\ faults' \in Nat /\ faults <= faults'
      BY <1>3, WorkerMoves
    <2>1. ASSUME NEW m \in queue, Takes(w, m) PROVE SInv'
      BY <1>1, <2>0, <2>1, TakesSInv DEF SInv
    <2>2. CASE Keeps(w)
      BY <1>1, <2>0, <2>2, KeepsSInv DEF SInv
    <2>3. CASE Persist(w) /\ faults' = faults
      BY <1>1, <2>3, PersistSInv DEF SInv
    <2>4. ASSUME NEW m \in Messages, GivesBack(w, m) PROVE SInv'
      BY <1>1, <2>0, <2>4, GivesBackSInv DEF SInv
    <2>5. CASE GivesUp(w)
      BY <1>1, <2>0, <2>5, GivesUpSInv DEF SInv
    <2>6. QED
      BY <1>3, <2>1, <2>2, <2>3, <2>4, <2>5, WorkerMoves
  <1>4. CASE UNCHANGED vars
    <2>1. \A w \in Workers : (Holds(w)' <=> Holds(w)) /\ JobAt(w)' = JobAt(w)
      BY <1>4 DEF vars, Holds, JobAt
    <2>2. \A j \in Jobs : InFlight(j)' <=> InFlight(j)
      BY <1>4 DEF vars, InFlight, Holds, JobAt
    <2>3. OneDelivery' /\ Attempts' /\ Served'
      BY <1>4, <2>1, <2>2 DEF vars, SInv, OneDelivery, Attempts, Served
    <2>4. NotYetMade'
      BY <1>4 DEF vars, SInv, NotYetMade, HasGeneration, Holds, JobAt
    <2>5. QED
      BY <1>1, <2>3, <2>4 DEF SInv
  <1>5. QED
    BY <1>2, <1>3, <1>4 DEF Next

LEMMA ServedInvariance ==
    ASSUME ~Lossy, ~Redeliveries
    PROVE  Spec => []SInv
  <1>1. Init => SInv
    BY InitSInv
  <1>2. SInv /\ [Next]_vars => SInv'
    BY StepSInv
  <1>3. QED
    BY <1>1, <1>2, PTL DEF Spec

\* However many jobs compete for a goal: while deliveries are neither lost nor made
\* again, a job nobody will run any more although its row says "queued" is one whose
\* goal has had more than max_retries new versions and failures.
THEOREM StrandedOnlyByFailures ==
    ASSUME ~Lossy, ~Redeliveries
    PROVE  Spec => []Served
  <1>1. SInv => Served
    BY DEF SInv
  <1>2. QED
    BY <1>1, ServedInvariance, PTL

JobsOf(g) == {j \in Jobs : GoalOf[j] = g}

\* The versions of a plan are made by different jobs, none of them still queued.
LEMMA FewerVersions ==
    ASSUME SInv, NEW j \in Jobs, status[j] = "queued", IsFiniteSet(JobsOf(GoalOf[j]))
    PROVE  Len(gens[GoalOf[j]]) + 1 <= Cardinality(JobsOf(GoalOf[j]))
  <1> DEFINE g == GoalOf[j]
             v == gens[g]
             others == JobsOf(g) \ {j}
  <1>1. g \in Goals /\ v \in Seq(Jobs) /\ Len(v) \in Nat /\ DOMAIN v = 1..Len(v)
    BY ConstantsAssumption DEF ConstantsAssumption, SInv, IInv, TypeOK
  <1>2. \A i \in DOMAIN v : v[i] \in others
    <2> SUFFICES ASSUME NEW i \in DOMAIN v PROVE v[i] \in others
      OBVIOUS
    <2>1. v[i] \in Jobs /\ GoalOf[v[i]] = g
      BY <1>1 DEF SInv, IInv, Lineage
    <2>2. v[i] # j
      BY DEF SInv, NotYetMade, HasGeneration
    <2>3. QED
      BY <2>1, <2>2 DEF JobsOf
  <1>3. \A i, k \in DOMAIN v : v[i] = v[k] => i = k
    BY <1>1 DEF SInv, NotYetMade
  <1>4. IsFiniteSet(others) /\ Cardinality(others) = Cardinality(JobsOf(g)) - 1
        /\ Cardinality(JobsOf(g)) \in Nat
    <2>1. j \in JobsOf(g)
      BY DEF JobsOf
    <2>2. QED
      BY <2>1, FS_RemoveElement, FS_CardinalityType
  <1>5. IsFiniteSet(1..Len(v)) /\ Cardinality(1..Len(v)) = Len(v)
    <2>1. IsFiniteSet(1..Len(v)) /\ Cardinality(1..Len(v)) = IF 1 > Len(v) THEN 0 ELSE Len(v) - 1 + 1
      BY <1>1, FS_Interval
    <2>2. QED
      BY <1>1, <2>1
  <1>6. v \in Injection(1..Len(v), others)
    <2>1. v \in [1..Len(v) -> others]
      BY <1>1, <1>2
    <2>2. QED
      BY <1>1, <1>3, <2>1 DEF Injection, IsInjective
  <1>7. Cardinality(1..Len(v)) <= Cardinality(others)
    BY <1>4, <1>6, FS_Injection
  <1>8. QED
    BY <1>1, <1>4, <1>5, <1>7

\* As long as the jobs of a goal and the failures are together no more than
\* max_retries + 1 and no delivery is lost or made again, a job whose row says "queued",
\* which keeps its goal busy, is one somebody still has to do with.
THEOREM NobodyIsStranded ==
    ASSUME ~Lossy, ~Redeliveries,
           \A g \in Goals : /\ IsFiniteSet(JobsOf(g))
                            /\ Cardinality(JobsOf(g)) + MaxFaults <= MaxRetries + 1
    PROVE  Spec => []NoStrandedJob
  <1>1. SInv => NoStrandedJob
    <2> SUFFICES ASSUME SInv, NEW j \in Jobs, status[j] = "queued" PROVE InFlight(j)
      BY DEF NoStrandedJob
    <2>1. GoalOf[j] \in Goals /\ Len(gens[GoalOf[j]]) \in Nat /\ MaxRetries \in Nat /\ MaxFaults \in Nat
      BY Numbers
    <2>2. IsFiniteSet(JobsOf(GoalOf[j])) /\ Cardinality(JobsOf(GoalOf[j])) + MaxFaults <= MaxRetries + 1
      BY <2>1
    <2>3. Len(gens[GoalOf[j]]) + 1 <= Cardinality(JobsOf(GoalOf[j]))
          /\ Cardinality(JobsOf(GoalOf[j])) \in Nat
      BY <2>2, FewerVersions, FS_CardinalityType
    <2>4. faults \in 0..MaxFaults
      BY DEF SInv, IInv, TypeOK
    <2>5. ~(Len(gens[GoalOf[j]]) + faults > MaxRetries)
      BY <2>1, <2>2, <2>3, <2>4
    <2>6. QED
      BY <2>5 DEF SInv, Served
  <1>2. QED
    BY <1>1, ServedInvariance, PTL

=============================================================================
