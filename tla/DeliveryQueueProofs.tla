------------------------ MODULE DeliveryQueueProofs ------------------------
(***************************************************************************)
(* Theorems about DeliveryQueue, for any jobs, loops, tokens and bounds.   *)
(***************************************************************************)
EXTENDS DeliveryQueue, TLAPS

-----------------------------------------------------------------------------
(* Rows: what each statement writes and what it leaves alone. *)

LEMMA NewRowFields ==
  ASSUME NEW n \in MaxAttempts, NEW due \in BOOLEAN
  PROVE  /\ NewRow(n, due) \in Row
         /\ NewRow(n, due).status = "pending"
         /\ NewRow(n, due).attempts = 0
         /\ NewRow(n, due).max_attempts = n
         /\ NewRow(n, due).last_error = NoError
         /\ NewRow(n, due).claim_token = NoToken
PROOF
  <1>1. n \in Nat BY AttemptsAssumption
  <1>2. QED BY <1>1 DEF NewRow, NoRow, Row, Statuses

LEMMA RequeuedRowFields ==
  ASSUME NEW row \in Row, NEW extra \in ExtraAttempts
  PROVE  /\ RequeuedRow(row, extra) \in Row
         /\ RequeuedRow(row, extra).status = "pending"
         /\ RequeuedRow(row, extra).attempts = row.attempts
         /\ RequeuedRow(row, extra).max_attempts = row.attempts + extra
         /\ RequeuedRow(row, extra).last_error = NoError
         /\ RequeuedRow(row, extra).claim_token = row.claim_token
PROOF
  <1>1. extra \in Nat /\ row.attempts + extra \in Nat BY AttemptsAssumption DEF Row
  <1>2. QED BY <1>1 DEF RequeuedRow, Row, Statuses

LEMMA ClaimedRowFields ==
  ASSUME NEW row \in Row, NEW token \in Tokens
  PROVE  /\ ClaimedRow(row, token) \in Row
         /\ ClaimedRow(row, token).status = "processing"
         /\ ClaimedRow(row, token).attempts = row.attempts + 1
         /\ ClaimedRow(row, token).max_attempts = row.max_attempts
         /\ ClaimedRow(row, token).last_error = row.last_error
         /\ ClaimedRow(row, token).claim_token = token
PROOF
  <1>1. row.attempts + 1 \in Nat BY DEF Row
  <1>2. QED BY <1>1 DEF ClaimedRow, Row, Statuses

LEMMA ReturnedRowFields ==
  ASSUME NEW row \in Row, row.attempts > 0, NEW due \in BOOLEAN
  PROVE  /\ ReturnedRow(row, due) \in Row
         /\ ReturnedRow(row, due).status = "pending"
         /\ ReturnedRow(row, due).attempts = row.attempts - 1
         /\ ReturnedRow(row, due).max_attempts = row.max_attempts
         /\ ReturnedRow(row, due).last_error = row.last_error
         /\ ReturnedRow(row, due).claim_token = NoToken
PROOF
  <1>1. row.attempts - 1 \in Nat BY DEF Row
  <1>2. QED BY <1>1 DEF ReturnedRow, Row, Statuses

LEMMA SentRowFields ==
  ASSUME NEW row \in Row
  PROVE  /\ SentRow(row) \in Row
         /\ SentRow(row).status = "sent"
         /\ SentRow(row).attempts = row.attempts
         /\ SentRow(row).max_attempts = row.max_attempts
         /\ SentRow(row).last_error = NoError
         /\ SentRow(row).claim_token = NoToken
PROOF BY DEF SentRow, Row, Statuses

LEMMA FailedRowFields ==
  ASSUME NEW row \in Row, NEW dead \in BOOLEAN, NEW error \in Errors, NEW due \in BOOLEAN
  PROVE  LET failed == FailedRow(row, dead, error, due)
         IN /\ failed \in Row
            /\ dead => failed.status = "dead_lettered"
            /\ ~dead => failed.status = "pending"
            /\ failed.attempts = row.attempts
            /\ failed.max_attempts = row.max_attempts
            /\ failed.last_error = error
            /\ failed.claim_token = NoToken
PROOF BY DEF FailedRow, Row, Statuses

LEMMA FailedRowIsNotClaimed ==
  ASSUME NEW row \in Row, NEW dead, NEW error, NEW due
  PROVE  FailedRow(row, dead, error, due).status # "processing"
PROOF BY DEF FailedRow, Row

LEMMA TickedRowFields ==
  ASSUME NEW row \in Row
  PROVE  /\ [row EXCEPT !.due = TRUE] \in Row
         /\ [row EXCEPT !.lease_expired = TRUE] \in Row
         /\ \A ticked \in {[row EXCEPT !.due = TRUE], [row EXCEPT !.lease_expired = TRUE]} :
              /\ ticked.status = row.status
              /\ ticked.attempts = row.attempts
              /\ ticked.max_attempts = row.max_attempts
              /\ ticked.last_error = row.last_error
              /\ ticked.claim_token = row.claim_token
PROOF BY DEF Row

-----------------------------------------------------------------------------
(* Tasks. *)

LEMMA TaskFields ==
  ASSUME NEW t \in Task
  PROVE  /\ \A stage \in Stages :
              LET moved == [t EXCEPT !.stage = stage]
              IN /\ moved \in Task /\ moved.stage = stage /\ moved.token = t.token
                 /\ moved.attempts = t.attempts /\ moved.result = t.result
         /\ \A error \in SendErrors :
              LET failed == [t EXCEPT !.stage = "finalize", !.result = error]
              IN /\ failed \in Task /\ failed.stage = "finalize" /\ failed.token = t.token
                 /\ failed.attempts = t.attempts /\ failed.result = error
PROOF BY DEF Task, Stages

LEMMA NoTaskFields == NoTask \in Task /\ NoTask.stage = "none" /\ NoTask.token = NoToken
PROOF BY DEF NoTask, Task, NoError

LEMMA ClaimedTaskFields ==
  ASSUME NEW row \in Row, NEW token \in Tokens
  PROVE  /\ ClaimedTask(row, token) \in Task
         /\ ClaimedTask(row, token).stage = "acquire"
         /\ ClaimedTask(row, token).token = token
         /\ ClaimedTask(row, token).attempts = row.attempts + 1
PROOF
  <1>1. row.attempts + 1 \in Nat BY DEF Row
  <1>2. QED BY <1>1 DEF ClaimedTask, Task, Stages, NoError

\* A task step replaces one task by another and leaves every other task alone.
LEMMA TaskUpdate ==
  ASSUME NEW l \in Loops, NEW j \in Jobs, NEW t \in Task,
         task \in [Loops -> [Jobs -> Task]], task' = [task EXCEPT ![l][j] = t]
  PROVE  /\ task' \in [Loops -> [Jobs -> Task]]
         /\ task'[l][j] = t
         /\ \A m \in Loops, k \in Jobs : m # l \/ k # j => task'[m][k] = task[m][k]
PROOF OBVIOUS

\* What a step inside one task does to it: it moves on, keeping its claim, or ends.
TaskMoves(l, j) ==
  /\ Active(l, j)
  /\ \/ /\ task'[l][j].stage \in Stages
        /\ task'[l][j].token = task[l][j].token
        /\ task'[l][j].attempts = task[l][j].attempts
     \/ task'[l][j] = NoTask
  /\ \A m \in Loops, k \in Jobs : m # l \/ k # j => task'[m][k] = task[m][k]

LEMMA TaskSteps ==
  ASSUME TypeOK, NEW l \in Loops, NEW j \in Jobs, Deliver(l, j) \/ TaskFails(l, j)
  PROVE  task' \in [Loops -> [Jobs -> Task]] /\ TaskMoves(l, j)
PROOF
  <1> task[l][j] \in Task BY DEF TypeOK
  <1>1. ASSUME NEW stage \in Stages, MoveTo(l, j, stage), Active(l, j)
        PROVE  task' \in [Loops -> [Jobs -> Task]] /\ TaskMoves(l, j)
    <2> DEFINE t == [task[l][j] EXCEPT !.stage = stage]
    <2>1. task' = [task EXCEPT ![l][j] = t] BY <1>1 DEF MoveTo
    <2>2. /\ t \in Task /\ t.stage = stage /\ t.token = task[l][j].token
          /\ t.attempts = task[l][j].attempts
      BY TaskFields
    <2> HIDE DEF t
    <2>3. QED BY <2>1, <2>2, <1>1, TaskUpdate DEF TaskMoves, TypeOK
  <1>2. ASSUME NEW error \in SendErrors, Fails(l, j, error), Active(l, j)
        PROVE  task' \in [Loops -> [Jobs -> Task]] /\ TaskMoves(l, j)
    <2> DEFINE t == [task[l][j] EXCEPT !.stage = "finalize", !.result = error]
    <2>1. task' = [task EXCEPT ![l][j] = t] BY <1>2 DEF Fails
    <2>2. /\ t \in Task /\ t.stage = "finalize" /\ t.token = task[l][j].token
          /\ t.attempts = task[l][j].attempts
      BY TaskFields
    <2> HIDE DEF t
    <2>3. QED BY <2>1, <2>2, <1>2, TaskUpdate DEF TaskMoves, TypeOK, Stages
  <1>3. ASSUME End(l, j), Active(l, j)
        PROVE  task' \in [Loops -> [Jobs -> Task]] /\ TaskMoves(l, j)
    BY <1>3, TaskUpdate, NoTaskFields DEF TaskMoves, TypeOK, End
  <1>4. CASE RateLimited(l, j) \/ BudgetExceeded(l, j) \/ StartSend(l, j)
             \/ ProviderAccepts(l, j) \/ SendSucceeds(l, j)
    BY <1>4, <1>1 DEF RateLimited, BudgetExceeded, StartSend, ProviderAccepts, SendSucceeds,
       At, Active, Stages
  <1>5. CASE SendRejected(l, j) \/ SendUncertain(l, j)
    BY <1>5, <1>2 DEF SendRejected, SendUncertain, At, Active, SendErrors
  <1>6. CASE ReturnToQueue(l, j) \/ MarkSent(l, j) \/ MarkFailed(l, j)
             \/ DiscardResult(l, j) \/ TaskFails(l, j)
    BY <1>6, <1>3 DEF ReturnToQueue, MarkSent, MarkFailed, DiscardResult, TaskFails, At, Active
  <1>7. QED BY <1>4, <1>5, <1>6 DEF Deliver

-----------------------------------------------------------------------------
(* Every step, seen from one job: what it does to the job's rows. *)

SameHistory(k) == /\ job_attempts'[k] = job_attempts[k]
                  /\ webhook_outbox'[k] = webhook_outbox[k]
SameLedger(k) == k \in deliveries' <=> k \in deliveries
SameParking(k) == k \in dead_letters' <=> k \in dead_letters

\* One attempt record and one event, numbered by the row's counter.
Recorded(k, outcome, error, event) ==
  /\ job_attempts'[k] = RecordAttempt(k, outcome, error)
  /\ webhook_outbox'[k] = EnqueueWebhook(k, event)

\* Nothing happens to the job, or only the clock moves.
JobRests(k) ==
  /\ \/ jobs'[k] = jobs[k]
     \/ jobs[k].status = "pending" /\ jobs'[k] = [jobs[k] EXCEPT !.due = TRUE]
     \/ jobs[k].status = "processing" /\ jobs'[k] = [jobs[k] EXCEPT !.lease_expired = TRUE]
  /\ SameHistory(k) /\ SameLedger(k) /\ SameParking(k)

JobCreated(k) ==
  /\ jobs[k].status = "absent"
  /\ \E n \in MaxAttempts, due \in BOOLEAN : jobs'[k] = NewRow(n, due)
  /\ SameHistory(k) /\ SameLedger(k) /\ SameParking(k)

JobRequeued(k) ==
  /\ jobs[k].status = "dead_lettered"
  /\ \E extra \in ExtraAttempts : jobs'[k] = RequeuedRow(jobs[k], extra)
  /\ k \notin dead_letters'
  /\ SameHistory(k) /\ SameLedger(k)

JobClaimed(k) ==
  /\ jobs[k].status = "pending"
  /\ \E token \in Tokens : jobs'[k] = ClaimedRow(jobs[k], token)
  /\ SameHistory(k) /\ SameLedger(k) /\ SameParking(k)

JobReturned(k) ==
  /\ jobs[k].status = "processing"
  /\ \E due \in BOOLEAN : jobs'[k] = ReturnedRow(jobs[k], due)
  /\ SameHistory(k) /\ SameLedger(k) /\ SameParking(k)

JobSent(k) ==
  /\ jobs[k].status = "processing"
  /\ jobs'[k] = SentRow(jobs[k])
  /\ k \notin deliveries /\ k \in deliveries'
  /\ Recorded(k, "sent", NoError, "sent")
  /\ SameParking(k)

JobFailed(k) ==
  /\ jobs[k].status = "processing"
  /\ \E dead, due \in BOOLEAN, error \in Errors, outcome \in {"failed", "lease_expired"} :
       /\ jobs'[k] = FailedRow(jobs[k], dead, error, due)
       /\ ~dead => ~AtRetryCap(k)
       /\ dead => k \notin dead_letters
       /\ k \in dead_letters' <=> k \in dead_letters \/ dead
       /\ Recorded(k, outcome, error, FailureEvent(dead))
  /\ SameLedger(k)

JobStep(k) ==
  \/ JobRests(k) \/ JobCreated(k) \/ JobRequeued(k) \/ JobClaimed(k)
  \/ JobReturned(k) \/ JobSent(k) \/ JobFailed(k)

\* Rows an open claim has locked are still pending and due, and locked only once.
LocksHeld ==
  /\ \A l \in Loops : \A j \in claiming[l] : jobs[j].status = "pending" /\ jobs[j].due
  /\ \A l, m \in Loops : l # m => claiming[l] \cap claiming[m] = {}

LEMMA JobSteps ==
  ASSUME TypeOK, LocksHeld, [Next]_vars, NEW k \in Jobs
  PROVE  JobStep(k)
PROOF
  <1> USE DEF SameHistory, SameLedger, SameParking
  <1>0. CASE UNCHANGED vars
    BY <1>0 DEF vars, tables, JobStep, JobRests
  <1>1. ASSUME NEW j \in Jobs, CreateJob(j) PROVE JobStep(k)
    BY <1>1 DEF CreateJob, tables, JobStep, JobRests, JobCreated, TypeOK
  <1>2. ASSUME NEW j \in Jobs, RequeueDeadLetter(j) PROVE JobStep(k)
    BY <1>2 DEF RequeueDeadLetter, JobStep, JobRests, JobRequeued, TypeOK
  <1>3. ASSUME NEW j \in Jobs, BecomeDue(j) \/ LeaseExpires(j) PROVE JobStep(k)
    BY <1>3 DEF BecomeDue, LeaseExpires, tables, JobStep, JobRests, TypeOK
  <1>4. ASSUME NEW l \in Loops, ClaimLock(l) \/ Crash(l) PROVE JobStep(k)
    BY <1>4 DEF ClaimLock, Crash, tables, JobStep, JobRests
  <1>5. ASSUME NEW l \in Loops, ClaimCommit(l) PROVE JobStep(k)
    BY <1>5 DEF ClaimCommit, tables, LocksHeld, JobStep, JobRests, JobClaimed, TypeOK
  <1>6. ASSUME NEW l \in Loops, NEW j \in Jobs, ReturnToQueue(l, j) PROVE JobStep(k)
    <2>1. At(l, j, "return_unsent") \in BOOLEAN BY DEF At
    <2>2. QED BY <1>6, <2>1 DEF ReturnToQueue, Owns, tables, JobStep, JobRests, JobReturned, TypeOK
  <1>7. ASSUME NEW l \in Loops, NEW j \in Jobs, MarkSent(l, j) PROVE JobStep(k)
    BY <1>7 DEF MarkSent, Owns, JobStep, JobRests, JobSent, Recorded, TypeOK
  <1>8. ASSUME NEW l \in Loops, NEW j \in Jobs, MarkFailed(l, j) PROVE JobStep(k)
    <2> DEFINE error == task[l][j].result
               dead == error = "permanent" \/ AtRetryCap(j)
               due == dead /\ jobs[j].due
    <2>1. error \in Errors /\ dead \in BOOLEAN /\ due \in BOOLEAN
      BY <1>8 DEF MarkFailed, TypeOK, Task, Row, Errors, AtRetryCap
    <2>2. CASE k = j
      <3>1. /\ jobs'[k] = FailedRow(jobs[k], dead, error, due)
            /\ ~dead => ~AtRetryCap(k)
            /\ dead => k \notin dead_letters
            /\ k \in dead_letters' <=> k \in dead_letters \/ dead
            /\ Recorded(k, "failed", error, FailureEvent(dead))
            /\ jobs[k].status = "processing"
            /\ deliveries' = deliveries
        BY <1>8, <2>2 DEF MarkFailed, Owns, Recorded, TypeOK
      <3> HIDE DEF error, dead, due
      <3>2. QED BY <3>1, <2>1 DEF JobStep, JobFailed
    <2>3. CASE k # j
      BY <1>8, <2>3 DEF MarkFailed, JobStep, JobRests, TypeOK
    <2>4. QED BY <2>2, <2>3
  <1>9. ASSUME NEW l \in Loops, NEW j \in Jobs,
               \/ RateLimited(l, j) \/ BudgetExceeded(l, j) \/ StartSend(l, j)
               \/ ProviderAccepts(l, j) \/ SendSucceeds(l, j) \/ SendRejected(l, j)
               \/ SendUncertain(l, j) \/ DiscardResult(l, j) \/ TaskFails(l, j)
        PROVE  JobStep(k)
    BY <1>9 DEF RateLimited, BudgetExceeded, StartSend, ProviderAccepts, SendSucceeds,
       SendRejected, SendUncertain, DiscardResult, TaskFails, Fails, tables, JobStep, JobRests
  <1>10. ASSUME NEW S \in SUBSET Jobs, Reap(S) PROVE JobStep(k)
    <2> DEFINE dead == k \in {j \in S : AtRetryCap(j)}
    <2>1. CASE k \in S
      <3>1. /\ jobs'[k] = FailedRow(jobs[k], dead, "lease_expired", TRUE)
            /\ ~dead => ~AtRetryCap(k)
            /\ dead => k \notin dead_letters
            /\ k \in dead_letters' <=> k \in dead_letters \/ dead
            /\ Recorded(k, "lease_expired", "lease_expired", FailureEvent(dead))
            /\ jobs[k].status = "processing"
            /\ deliveries' = deliveries
        BY <1>10, <2>1 DEF Reap, Expired, Recorded
      <3>2. dead \in BOOLEAN OBVIOUS
      <3> HIDE DEF dead
      <3>3. QED BY <3>1, <3>2 DEF JobStep, JobFailed, Errors
    <2>2. CASE k \notin S
      BY <1>10, <2>2 DEF Reap, JobStep, JobRests
    <2>3. QED BY <2>1, <2>2
  <1>11. QED
    BY <1>0, <1>1, <1>2, <1>3, <1>4, <1>5, <1>6, <1>7, <1>8, <1>9, <1>10 DEF Next, Deliver

-----------------------------------------------------------------------------
(* Types.  A returned job gets its attempt back, so attempts stays a natural   *)
(* number only because a claimed job always has one: the type invariant needs  *)
(* the counter's invariant, and that one needs the locks'.                     *)

LEMMA TypeInit == Init => TypeOK
PROOF
  <1>1. NoRow \in Row BY DEF NoRow, Row, NoError
  <1>2. QED BY <1>1, NoTaskFields DEF Init, TypeOK

\* Every table stays a function on the jobs, whatever its values.
LEMMA TableShapes ==
  ASSUME TypeOK, [Next]_vars
  PROVE  /\ jobs' = [k \in Jobs |-> jobs'[k]]
         /\ job_attempts' = [k \in Jobs |-> job_attempts'[k]]
         /\ webhook_outbox' = [k \in Jobs |-> webhook_outbox'[k]]
         /\ deliveries' \subseteq Jobs /\ dead_letters' \subseteq Jobs
PROOF
  <1> USE DEF TypeOK, tables
  <1> DEFINE Shapes == /\ jobs' = [k \in Jobs |-> jobs'[k]]
                       /\ job_attempts' = [k \in Jobs |-> job_attempts'[k]]
                       /\ webhook_outbox' = [k \in Jobs |-> webhook_outbox'[k]]
                       /\ deliveries' \subseteq Jobs /\ dead_letters' \subseteq Jobs
  <1>0. ASSUME UNCHANGED <<jobs, tables>> PROVE Shapes
    BY <1>0
  <1>1. ASSUME NEW j \in Jobs, CreateJob(j) \/ BecomeDue(j) \/ LeaseExpires(j) PROVE Shapes
    BY <1>1 DEF CreateJob, BecomeDue, LeaseExpires
  <1>2. ASSUME NEW j \in Jobs, RequeueDeadLetter(j) PROVE Shapes
    BY <1>2 DEF RequeueDeadLetter
  <1>3. ASSUME NEW l \in Loops, ClaimCommit(l) PROVE Shapes
    BY <1>3 DEF ClaimCommit
  <1>4. ASSUME NEW l \in Loops, NEW j \in Jobs, ReturnToQueue(l, j) PROVE Shapes
    BY <1>4 DEF ReturnToQueue
  <1>5. ASSUME NEW l \in Loops, NEW j \in Jobs, MarkSent(l, j) PROVE Shapes
    BY <1>5 DEF MarkSent
  <1>6. ASSUME NEW l \in Loops, NEW j \in Jobs, MarkFailed(l, j) PROVE Shapes
    BY <1>6 DEF MarkFailed
  <1>7. ASSUME NEW S \in SUBSET Jobs, Reap(S) PROVE Shapes
    BY <1>7 DEF Reap
  <1>8. ASSUME NEW l \in Loops, NEW j \in Jobs,
               \/ ClaimLock(l) \/ Crash(l)
               \/ RateLimited(l, j) \/ BudgetExceeded(l, j) \/ StartSend(l, j)
               \/ ProviderAccepts(l, j) \/ SendSucceeds(l, j) \/ SendRejected(l, j)
               \/ SendUncertain(l, j) \/ DiscardResult(l, j) \/ TaskFails(l, j)
        PROVE  UNCHANGED <<jobs, tables>>
    BY <1>8 DEF ClaimLock, Crash, RateLimited, BudgetExceeded, StartSend, ProviderAccepts,
       SendSucceeds, SendRejected, SendUncertain, DiscardResult, TaskFails, Fails
  <1>9. ASSUME NEW l \in Loops, ClaimLock(l) \/ Crash(l) PROVE UNCHANGED <<jobs, tables>>
    BY <1>9 DEF ClaimLock, Crash
  <1>10. QED
    BY <1>0, <1>1, <1>2, <1>3, <1>4, <1>5, <1>6, <1>7, <1>8, <1>9 DEF Next, Deliver, vars

\* A processing row always has an attempt to give back.
LEMMA RowStepTypes ==
  ASSUME TypeOK, AttemptsNumberedInOrder, NEW k \in Jobs, JobStep(k)
  PROVE  /\ jobs'[k] \in Row
         /\ job_attempts'[k] \in Seq(AttemptRecord)
         /\ webhook_outbox'[k] \in Seq(OutboxEvent)
PROOF
  <1>1. /\ jobs[k] \in Row
        /\ job_attempts[k] \in Seq(AttemptRecord) /\ webhook_outbox[k] \in Seq(OutboxEvent)
    BY DEF TypeOK
  <1>2. jobs[k].attempts \in Nat BY <1>1 DEF Row
  <1>3. jobs[k].status = "processing" => jobs[k].attempts > 0
    <2>1. Len(job_attempts[k]) \in Nat BY <1>1
    <2>2. jobs[k].status = "processing" => jobs[k].attempts = Len(job_attempts[k]) + 1
      BY DEF AttemptsNumberedInOrder
    <2>3. QED BY <2>1, <2>2
  <1>4. ASSUME NEW outcome \in {"sent", "failed", "lease_expired"},
               NEW error \in Errors \cup {NoError},
               NEW event \in {"sent", "failed", "dead_lettered"},
               Recorded(k, outcome, error, event)
        PROVE  /\ job_attempts'[k] \in Seq(AttemptRecord)
               /\ webhook_outbox'[k] \in Seq(OutboxEvent)
    <2>1. [no |-> jobs[k].attempts, outcome |-> outcome, error |-> error] \in AttemptRecord
      BY <1>2 DEF AttemptRecord
    <2>2. [event |-> event, attempts |-> jobs[k].attempts] \in OutboxEvent
      BY <1>2 DEF OutboxEvent
    <2>3. QED BY <1>1, <1>4, <2>1, <2>2 DEF Recorded, RecordAttempt, EnqueueWebhook
  <1>5. CASE JobRests(k) BY <1>1, <1>5, TickedRowFields DEF JobRests, SameHistory
  <1>6. CASE JobCreated(k) BY <1>1, <1>6, NewRowFields DEF JobCreated, SameHistory
  <1>7. CASE JobRequeued(k) BY <1>1, <1>7, RequeuedRowFields DEF JobRequeued, SameHistory
  <1>8. CASE JobClaimed(k) BY <1>1, <1>8, ClaimedRowFields DEF JobClaimed, SameHistory
  <1>9. CASE JobReturned(k) BY <1>1, <1>3, <1>9, ReturnedRowFields DEF JobReturned, SameHistory
  <1>10. CASE JobSent(k) BY <1>1, <1>4, <1>10, SentRowFields DEF JobSent
  <1>11. CASE JobFailed(k)
    BY <1>1, <1>4, <1>11, FailedRowFields DEF JobFailed, FailureEvent
  <1>12. QED BY <1>5, <1>6, <1>7, <1>8, <1>9, <1>10, <1>11 DEF JobStep

LEMMA TypeStep ==
  ASSUME TypeOK, AttemptsNumberedInOrder, LocksHeld, [Next]_vars
  PROVE  TypeOK'
PROOF
  <1>1. \A k \in Jobs : /\ jobs'[k] \in Row
                        /\ job_attempts'[k] \in Seq(AttemptRecord)
                        /\ webhook_outbox'[k] \in Seq(OutboxEvent)
    BY JobSteps, RowStepTypes
  <1>2. /\ jobs' \in [Jobs -> Row]
        /\ job_attempts' \in [Jobs -> Seq(AttemptRecord)]
        /\ webhook_outbox' \in [Jobs -> Seq(OutboxEvent)]
        /\ deliveries' \subseteq Jobs /\ dead_letters' \subseteq Jobs
    BY <1>1, TableShapes
  <1>3. /\ provider_requests' \in [Jobs -> Nat]
        /\ claiming' \in [Loops -> SUBSET Jobs]
        /\ task' \in [Loops -> [Jobs -> Task]]
    <2> USE DEF TypeOK
    <2>1. ASSUME NEW l \in Loops, NEW j \in Jobs, Deliver(l, j) \/ TaskFails(l, j)
          PROVE  /\ provider_requests' \in [Jobs -> Nat] /\ claiming' = claiming
                 /\ task' \in [Loops -> [Jobs -> Task]]
      <3>1. CASE ProviderAccepts(l, j)
        BY <3>1, <2>1, TaskSteps DEF ProviderAccepts
      <3>2. CASE ~ProviderAccepts(l, j)
        <4>1. UNCHANGED <<provider_requests, claiming>>
          BY <2>1, <3>2 DEF Deliver, RateLimited, BudgetExceeded, StartSend, ReturnToQueue,
             SendSucceeds, SendRejected, SendUncertain, Fails, MarkSent, MarkFailed,
             DiscardResult, TaskFails
        <4>2. QED BY <2>1, <4>1, TaskSteps
      <3>3. QED BY <3>1, <3>2
    <2>2. ASSUME NEW l \in Loops, ClaimLock(l)
          PROVE  /\ UNCHANGED <<provider_requests, task>>
                 /\ claiming' \in [Loops -> SUBSET Jobs]
      BY <2>2 DEF ClaimLock, FirstOf, Claimable
    <2>3. ASSUME NEW l \in Loops, Crash(l)
          PROVE  /\ provider_requests' = provider_requests
                 /\ claiming' \in [Loops -> SUBSET Jobs]
                 /\ task' \in [Loops -> [Jobs -> Task]]
      BY <2>3, NoTaskFields DEF Crash
    <2>4. ASSUME NEW l \in Loops, ClaimCommit(l)
          PROVE  /\ provider_requests' = provider_requests
                 /\ claiming' \in [Loops -> SUBSET Jobs]
                 /\ task' \in [Loops -> [Jobs -> Task]]
      <3>1. PICK token \in [claiming[l] -> Tokens] :
              task' = [task EXCEPT ![l] =
                         [j \in Jobs |-> IF j \in claiming[l]
                                        THEN ClaimedTask(jobs[j], token[j]) ELSE task[l][j]]]
        BY <2>4 DEF ClaimCommit
      <3>2. \A j \in claiming[l] : ClaimedTask(jobs[j], token[j]) \in Task
        BY <3>1, ClaimedTaskFields
      <3>3. QED BY <2>4, <3>1, <3>2 DEF ClaimCommit
    <2>5. ASSUME NEW j \in Jobs,
                 CreateJob(j) \/ RequeueDeadLetter(j) \/ BecomeDue(j) \/ LeaseExpires(j)
          PROVE  UNCHANGED <<provider_requests, claiming, task>>
      BY <2>5 DEF CreateJob, RequeueDeadLetter, BecomeDue, LeaseExpires
    <2>6. ASSUME NEW S \in SUBSET Jobs, Reap(S)
          PROVE  UNCHANGED <<provider_requests, claiming, task>>
      BY <2>6 DEF Reap
    <2>7. QED BY <2>1, <2>2, <2>3, <2>4, <2>5, <2>6 DEF Next, vars
  <1>4. QED BY <1>2, <1>3 DEF TypeOK

-----------------------------------------------------------------------------
(* Locks. *)

LEMMA LocksInit == Init => LocksHeld
PROOF BY DEF Init, LocksHeld

LEMMA LocksStep ==
  ASSUME TypeOK, LocksHeld, [Next]_vars
  PROVE  LocksHeld'
PROOF
  <1> USE DEF LocksHeld
  \* Enough: the locks stay, and so do the rows they are on.
  <1>1. ASSUME claiming' = claiming,
               \A l \in Loops : \A j \in claiming[l] : jobs'[j] = jobs[j]
        PROVE  LocksHeld'
    BY <1>1
  <1>2. CASE UNCHANGED vars
    BY <1>1, <1>2 DEF vars
  <1>3. ASSUME NEW j \in Jobs,
               CreateJob(j) \/ RequeueDeadLetter(j) \/ BecomeDue(j) \/ LeaseExpires(j)
        PROVE  LocksHeld'
    BY <1>1, <1>3 DEF TypeOK, CreateJob, RequeueDeadLetter, BecomeDue, LeaseExpires
  <1>4. ASSUME NEW l \in Loops, ClaimLock(l) PROVE LocksHeld'
    <2>1. PICK B \in FirstOf(Claimable) : claiming' = [claiming EXCEPT ![l] = B]
      BY <1>4 DEF ClaimLock
    <2>2. B \subseteq Claimable BY <2>1 DEF FirstOf
    <2>3. \A j \in B : /\ jobs[j].status = "pending" /\ jobs[j].due
                       /\ \A m \in Loops : j \notin claiming[m]
      BY <2>2 DEF Claimable, Locked
    <2>4. claiming[l] = {} /\ jobs' = jobs BY <1>4 DEF ClaimLock
    <2>5. \A m \in Loops : claiming'[m] = IF m = l THEN B ELSE claiming[m]
      BY <2>1 DEF TypeOK
    <2>6. QED BY <2>3, <2>4, <2>5
  <1>5. ASSUME NEW l \in Loops, ClaimCommit(l) PROVE LocksHeld'
    <2>1. \A m \in Loops : claiming'[m] = IF m = l THEN {} ELSE claiming[m]
      BY <1>5 DEF ClaimCommit, TypeOK
    <2>2. \A j \in Jobs : j \notin claiming[l] => jobs'[j] = jobs[j]
      BY <1>5 DEF ClaimCommit
    <2>3. QED BY <2>1, <2>2 DEF TypeOK
  <1>6. ASSUME NEW l \in Loops, Crash(l) PROVE LocksHeld'
    BY <1>6 DEF Crash, TypeOK
  <1>7. ASSUME NEW l \in Loops, NEW j \in Jobs, Deliver(l, j) \/ TaskFails(l, j) PROVE LocksHeld'
    <2>1. claiming' = claiming
      BY <1>7 DEF Deliver, RateLimited, BudgetExceeded, StartSend, ReturnToQueue,
         ProviderAccepts, SendSucceeds, SendRejected, SendUncertain, Fails, MarkSent,
         MarkFailed, DiscardResult, TaskFails
    <2>2. \A k \in Jobs : jobs[k].status = "pending" => jobs'[k] = jobs[k]
      BY <1>7 DEF Deliver, RateLimited, BudgetExceeded, StartSend, ReturnToQueue,
         ProviderAccepts, SendSucceeds, SendRejected, SendUncertain, Fails, MarkSent,
         MarkFailed, DiscardResult, TaskFails, Owns, TypeOK
    <2>3. QED BY <1>1, <2>1, <2>2 DEF TypeOK
  <1>8. ASSUME NEW S \in SUBSET Jobs, Reap(S) PROVE LocksHeld'
    <2>1. claiming' = claiming BY <1>8 DEF Reap
    <2>2. \A k \in Jobs : jobs[k].status = "pending" => jobs'[k] = jobs[k]
      BY <1>8 DEF Reap, Expired
    <2>3. QED BY <1>1, <2>1, <2>2 DEF TypeOK
  <1>9. QED BY <1>2, <1>3, <1>4, <1>5, <1>6, <1>7, <1>8 DEF Next

-----------------------------------------------------------------------------
(* The tables, job by job.  Each lemma says that one move keeps one part of the *)
(* invariant; JobSteps says that a step of the system is a move of each job.    *)

\* AttemptsNumberedInOrder for one job, without arithmetic on a condition.
Numbered(k) ==
  /\ \A i \in DOMAIN job_attempts[k] : job_attempts[k][i].no = i
  /\ jobs[k].status = "processing" => jobs[k].attempts = Len(job_attempts[k]) + 1
  /\ jobs[k].status # "processing" => jobs[k].attempts = Len(job_attempts[k])

LEMMA NumberedIsTheInvariant ==
  ASSUME TypeOK PROVE AttemptsNumberedInOrder <=> \A k \in Jobs : Numbered(k)
PROOF
  <1>1. \A k \in Jobs : Len(job_attempts[k]) \in Nat /\ jobs[k].attempts \in Nat
    BY DEF TypeOK, Row
  <1>2. ASSUME NEW k \in Jobs
        PROVE  Numbered(k) <=>
                 /\ \A i \in DOMAIN job_attempts[k] : job_attempts[k][i].no = i
                 /\ jobs[k].attempts
                      = Len(job_attempts[k]) + IF jobs[k].status = "processing" THEN 1 ELSE 0
    <2>1. CASE jobs[k].status = "processing" BY <2>1, <1>1 DEF Numbered
    <2>2. CASE jobs[k].status # "processing" BY <2>2, <1>1 DEF Numbered
    <2>3. QED BY <2>1, <2>2
  <1>3. QED BY <1>2 DEF AttemptsNumberedInOrder

\* Nothing is known of a job that was never scheduled.
Untouched(k) ==
  jobs[k].status = "absent" =>
    jobs[k].attempts = 0 /\ jobs[k].max_attempts = 0 /\ jobs[k].last_error = NoError

\* The facts about sequences every move that records an attempt needs.
LEMMA RecordedHistory ==
  ASSUME TypeOK, NEW k \in Jobs, NEW outcome, NEW error, NEW event,
         Recorded(k, outcome, error, event)
  PROVE  /\ Len(job_attempts[k]) \in Nat /\ Len(webhook_outbox[k]) \in Nat
         /\ DOMAIN job_attempts[k] = 1..Len(job_attempts[k])
         /\ Len(job_attempts'[k]) = Len(job_attempts[k]) + 1
         /\ DOMAIN job_attempts'[k] = 1..(Len(job_attempts[k]) + 1)
         /\ \A i \in DOMAIN job_attempts[k] : job_attempts'[k][i] = job_attempts[k][i]
         /\ job_attempts'[k][Len(job_attempts[k]) + 1].no = jobs[k].attempts
         /\ job_attempts'[k][Len(job_attempts[k]) + 1].outcome = outcome
         /\ job_attempts'[k][Len(job_attempts[k]) + 1].error = error
         /\ Len(webhook_outbox'[k]) = Len(webhook_outbox[k]) + 1
         /\ \A i \in 1..Len(webhook_outbox[k]) : webhook_outbox'[k][i] = webhook_outbox[k][i]
         /\ webhook_outbox'[k][Len(webhook_outbox[k]) + 1].event = event
         /\ webhook_outbox'[k][Len(webhook_outbox[k]) + 1].attempts = jobs[k].attempts
PROOF
  <1>1. job_attempts[k] \in Seq(AttemptRecord) /\ webhook_outbox[k] \in Seq(OutboxEvent)
    BY DEF TypeOK
  <1> DEFINE record == [no |-> jobs[k].attempts, outcome |-> outcome, error |-> error]
             message == [event |-> event, attempts |-> jobs[k].attempts]
  <1>2. /\ job_attempts'[k] = Append(job_attempts[k], record)
        /\ webhook_outbox'[k] = Append(webhook_outbox[k], message)
    BY DEF Recorded, RecordAttempt, EnqueueWebhook
  <1>3. /\ record.no = jobs[k].attempts /\ record.outcome = outcome /\ record.error = error
        /\ message.event = event /\ message.attempts = jobs[k].attempts
    OBVIOUS
  <1> HIDE DEF record, message
  <1>4. /\ Len(job_attempts[k]) \in Nat /\ Len(webhook_outbox[k]) \in Nat
        /\ DOMAIN job_attempts[k] = 1..Len(job_attempts[k])
    BY <1>1
  <1>5. /\ Len(job_attempts'[k]) = Len(job_attempts[k]) + 1
        /\ DOMAIN job_attempts'[k] = 1..(Len(job_attempts[k]) + 1)
        /\ \A i \in DOMAIN job_attempts[k] : job_attempts'[k][i] = job_attempts[k][i]
        /\ job_attempts'[k][Len(job_attempts[k]) + 1] = record
    BY <1>1, <1>2, <1>4
  <1>6. /\ Len(webhook_outbox'[k]) = Len(webhook_outbox[k]) + 1
        /\ \A i \in 1..Len(webhook_outbox[k]) : webhook_outbox'[k][i] = webhook_outbox[k][i]
        /\ webhook_outbox'[k][Len(webhook_outbox[k]) + 1] = message
    BY <1>1, <1>2, <1>4
  <1>7. QED BY <1>3, <1>4, <1>5, <1>6

\* The columns the invariants are about, before and after a move that records nothing.
LEMMA RowFacts ==
  ASSUME TypeOK, NEW k \in Jobs
  PROVE  /\ jobs[k] \in Row
         /\ jobs[k].attempts \in Nat /\ jobs[k].max_attempts \in Nat
         /\ Len(job_attempts[k]) \in Nat /\ Len(webhook_outbox[k]) \in Nat
         /\ DOMAIN job_attempts[k] = 1..Len(job_attempts[k])
PROOF BY DEF TypeOK, Row

LEMMA RestingRow ==
  ASSUME TypeOK, NEW k \in Jobs, JobRests(k)
  PROVE  /\ jobs'[k].status = jobs[k].status
         /\ jobs'[k].attempts = jobs[k].attempts
         /\ jobs'[k].max_attempts = jobs[k].max_attempts
         /\ jobs'[k].last_error = jobs[k].last_error
         /\ jobs'[k].claim_token = jobs[k].claim_token
PROOF BY RowFacts, TickedRowFields DEF JobRests

LEMMA ReturnedRowKeeps ==
  ASSUME TypeOK, NEW k \in Jobs, JobReturned(k)
  PROVE  /\ jobs'[k].status = "pending"
         /\ jobs'[k].attempts = jobs[k].attempts - 1
         /\ jobs'[k].max_attempts = jobs[k].max_attempts
         /\ jobs'[k].last_error = jobs[k].last_error
         /\ jobs'[k].claim_token = NoToken
PROOF BY RowFacts DEF JobReturned, ReturnedRow, Row

\* A failed attempt leaves a row, a record and an event that agree with each other.
LEMMA FailedMove ==
  ASSUME TypeOK, NEW k \in Jobs, JobFailed(k)
  PROVE  \E dead \in BOOLEAN, error \in Errors, outcome \in {"failed", "lease_expired"} :
           /\ dead => jobs'[k].status = "dead_lettered"
           /\ ~dead => jobs'[k].status = "pending" /\ jobs[k].attempts < jobs[k].max_attempts
           /\ jobs'[k].attempts = jobs[k].attempts
           /\ jobs'[k].max_attempts = jobs[k].max_attempts
           /\ jobs'[k].last_error = error
           /\ jobs'[k].claim_token = NoToken
           /\ dead => k \notin dead_letters
           /\ k \in dead_letters' <=> k \in dead_letters \/ dead
           /\ Recorded(k, outcome, error, FailureEvent(dead))
PROOF
  <1>1. PICK dead \in BOOLEAN, due \in BOOLEAN, error \in Errors,
             outcome \in {"failed", "lease_expired"} :
          /\ jobs'[k] = FailedRow(jobs[k], dead, error, due)
          /\ ~dead => ~AtRetryCap(k)
          /\ dead => k \notin dead_letters
          /\ k \in dead_letters' <=> k \in dead_letters \/ dead
          /\ Recorded(k, outcome, error, FailureEvent(dead))
    BY DEF JobFailed
  <1>2. /\ dead => jobs'[k].status = "dead_lettered"
        /\ ~dead => jobs'[k].status = "pending"
        /\ jobs'[k].attempts = jobs[k].attempts
        /\ jobs'[k].max_attempts = jobs[k].max_attempts
        /\ jobs'[k].last_error = error
        /\ jobs'[k].claim_token = NoToken
    BY <1>1, RowFacts, FailedRowFields
  <1>3. ~dead => jobs[k].attempts < jobs[k].max_attempts
    BY <1>1, RowFacts DEF AtRetryCap
  <1>4. QED BY <1>1, <1>2, <1>3

LEMMA NumberedStep ==
  ASSUME TypeOK, NEW k \in Jobs, Numbered(k), Untouched(k), JobStep(k)
  PROVE  Numbered(k)' /\ Untouched(k)'
PROOF
  <1>a. /\ jobs[k] \in Row /\ jobs[k].attempts \in Nat
        /\ Len(job_attempts[k]) \in Nat /\ DOMAIN job_attempts[k] = 1..Len(job_attempts[k])
    BY RowFacts
  <1> USE DEF Numbered, Untouched
  <1>1. CASE JobRests(k)
    BY <1>1, <1>a, RestingRow DEF JobRests, SameHistory
  <1>2. CASE JobCreated(k)
    BY <1>2, <1>a, NewRowFields DEF JobCreated, SameHistory
  <1>3. CASE JobRequeued(k)
    BY <1>3, <1>a, RequeuedRowFields DEF JobRequeued, SameHistory
  <1>4. CASE JobClaimed(k)
    BY <1>4, <1>a, ClaimedRowFields DEF JobClaimed, SameHistory
  <1>5. CASE JobReturned(k)
    BY <1>5, <1>a, ReturnedRowFields DEF JobReturned, SameHistory
  <1>6. CASE JobSent(k)
    <2>1. /\ jobs[k].status = "processing" /\ jobs'[k].status = "sent"
          /\ jobs'[k].attempts = jobs[k].attempts
          /\ Recorded(k, "sent", NoError, "sent")
      BY <1>6, <1>a, SentRowFields DEF JobSent
    <2>2. /\ DOMAIN job_attempts'[k] = 1..(Len(job_attempts[k]) + 1)
          /\ Len(job_attempts'[k]) = Len(job_attempts[k]) + 1
          /\ \A i \in DOMAIN job_attempts[k] : job_attempts'[k][i] = job_attempts[k][i]
          /\ job_attempts'[k][Len(job_attempts[k]) + 1].no = jobs[k].attempts
      BY <2>1, RecordedHistory
    <2>3. QED BY <1>a, <2>1, <2>2
  <1>7. CASE JobFailed(k)
    <2>1. PICK error \in Errors, outcome \in {"failed", "lease_expired"},
               event \in {FailureEvent(TRUE), FailureEvent(FALSE)} :
            Recorded(k, outcome, error, event)
      BY <1>7, FailedMove
    <2>2. /\ jobs[k].status = "processing" /\ jobs'[k].status \in {"pending", "dead_lettered"}
          /\ jobs'[k].attempts = jobs[k].attempts
      BY <1>7, FailedMove DEF JobFailed
    <2>3. /\ DOMAIN job_attempts'[k] = 1..(Len(job_attempts[k]) + 1)
          /\ Len(job_attempts'[k]) = Len(job_attempts[k]) + 1
          /\ \A i \in DOMAIN job_attempts[k] : job_attempts'[k][i] = job_attempts[k][i]
          /\ job_attempts'[k][Len(job_attempts[k]) + 1].no = jobs[k].attempts
      BY <2>1, RecordedHistory
    <2>4. QED BY <1>a, <2>2, <2>3
  <1>8. QED BY <1>1, <1>2, <1>3, <1>4, <1>5, <1>6, <1>7 DEF JobStep

Capped(k) ==
  /\ jobs[k].status = "pending" => jobs[k].attempts < jobs[k].max_attempts
  /\ jobs[k].attempts <= jobs[k].max_attempts

LEMMA CappedStep ==
  ASSUME TypeOK, NEW k \in Jobs, Numbered(k), Capped(k), JobStep(k)
  PROVE  Capped(k)'
PROOF
  <1> USE RowFacts DEF Capped
  <1>1. CASE JobRests(k) BY <1>1, RestingRow
  <1>2. CASE JobCreated(k) BY <1>2, NewRowFields, AttemptsAssumption DEF JobCreated
  <1>3. CASE JobRequeued(k) BY <1>3, RequeuedRowFields, AttemptsAssumption DEF JobRequeued
  <1>4. CASE JobClaimed(k) BY <1>4, ClaimedRowFields DEF JobClaimed
  <1>5. CASE JobReturned(k) BY <1>5, ReturnedRowFields DEF JobReturned, Numbered
  <1>6. CASE JobSent(k) BY <1>6, SentRowFields DEF JobSent
  <1>7. CASE JobFailed(k) BY <1>7, FailedMove
  <1>8. QED BY <1>1, <1>2, <1>3, <1>4, <1>5, <1>6, <1>7 DEF JobStep

\* DeliveredOnce for one job.
SentAttempts(k) == {i \in DOMAIN job_attempts[k] : job_attempts[k][i].outcome = "sent"}

LedgerMatches(k) ==
  /\ jobs[k].status = "sent" <=> k \in deliveries
  /\ k \in deliveries => SentAttempts(k) = {Len(job_attempts[k])}
  /\ k \notin deliveries => SentAttempts(k) = {}

LEMMA LedgerStep ==
  ASSUME TypeOK, NEW k \in Jobs, LedgerMatches(k), JobStep(k)
  PROVE  LedgerMatches(k)'
PROOF
  <1> USE RowFacts DEF LedgerMatches, SentAttempts
  <1>1. CASE JobRests(k)
    BY <1>1, RestingRow DEF JobRests, SameHistory, SameLedger
  <1>2. CASE JobCreated(k)
    BY <1>2, NewRowFields DEF JobCreated, SameHistory, SameLedger
  <1>3. CASE JobRequeued(k)
    BY <1>3, RequeuedRowFields DEF JobRequeued, SameHistory, SameLedger
  <1>4. CASE JobClaimed(k)
    BY <1>4, ClaimedRowFields DEF JobClaimed, SameHistory, SameLedger
  <1>5. CASE JobReturned(k)
    BY <1>5, ReturnedRowKeeps DEF JobReturned, SameHistory, SameLedger
  <1>6. CASE JobSent(k)
    BY <1>6, SentRowFields, RecordedHistory DEF JobSent
  <1>7. CASE JobFailed(k)
    BY <1>7, FailedRowFields, RecordedHistory DEF JobFailed, SameLedger
  <1>8. QED BY <1>1, <1>2, <1>3, <1>4, <1>5, <1>6, <1>7 DEF JobStep

\* DeadLettersMatchStatus for one job.
ParkedMatches(k) == k \in dead_letters <=> jobs[k].status = "dead_lettered"

LEMMA ParkedStep ==
  ASSUME TypeOK, NEW k \in Jobs, ParkedMatches(k), JobStep(k)
  PROVE  ParkedMatches(k)'
PROOF
  <1> USE RowFacts DEF ParkedMatches
  <1>1. CASE JobRests(k) BY <1>1, RestingRow DEF JobRests, SameParking
  <1>2. CASE JobCreated(k) BY <1>2, NewRowFields DEF JobCreated, SameParking
  <1>3. CASE JobRequeued(k) BY <1>3, RequeuedRowFields DEF JobRequeued
  <1>4. CASE JobClaimed(k) BY <1>4, ClaimedRowFields DEF JobClaimed, SameParking
  <1>5. CASE JobReturned(k)
    BY <1>5, ReturnedRowKeeps DEF JobReturned, SameParking
  <1>6. CASE JobSent(k) BY <1>6, SentRowFields DEF JobSent, SameParking
  <1>7. CASE JobFailed(k) BY <1>7, FailedMove DEF JobFailed
  <1>8. QED BY <1>1, <1>2, <1>3, <1>4, <1>5, <1>6, <1>7 DEF JobStep

\* OneEventPerAttempt for one job, strengthened: an error a claimed row still shows
\* is that of its last attempt too, since a returned claim puts it back unchanged.
EventsMatch(k) ==
  /\ Len(webhook_outbox[k]) = Len(job_attempts[k])
  /\ \A i \in 1..Len(job_attempts[k]) :
       /\ webhook_outbox[k][i].attempts = job_attempts[k][i].no
       /\ webhook_outbox[k][i].event = "sent" <=> job_attempts[k][i].outcome = "sent"

LastEventMatches(k) ==
  /\ jobs[k].status \in {"sent", "dead_lettered"} =>
       /\ Len(job_attempts[k]) > 0
       /\ webhook_outbox[k][Len(job_attempts[k])].event = jobs[k].status
  /\ jobs[k].last_error # NoError /\ jobs[k].status \in {"pending", "processing"} =>
       /\ Len(job_attempts[k]) > 0
       /\ webhook_outbox[k][Len(job_attempts[k])].event = "failed"

LEMMA EventsStep ==
  ASSUME TypeOK, NEW k \in Jobs, EventsMatch(k), LastEventMatches(k), Untouched(k), JobStep(k)
  PROVE  EventsMatch(k)' /\ LastEventMatches(k)'
PROOF
  <1>a. /\ jobs[k] \in Row /\ Len(job_attempts[k]) \in Nat
        /\ DOMAIN job_attempts[k] = 1..Len(job_attempts[k])
    BY RowFacts
  <1>1. CASE JobRests(k)
    BY <1>1, RestingRow DEF JobRests, SameHistory, EventsMatch, LastEventMatches
  <1>2. CASE JobCreated(k)
    BY <1>2, NewRowFields DEF JobCreated, SameHistory, EventsMatch, LastEventMatches
  <1>3. CASE JobRequeued(k)
    BY <1>3, <1>a, RequeuedRowFields DEF JobRequeued, SameHistory, EventsMatch, LastEventMatches
  <1>4. CASE JobClaimed(k)
    BY <1>4, <1>a, ClaimedRowFields DEF JobClaimed, SameHistory, EventsMatch, LastEventMatches
  <1>5. CASE JobReturned(k)
    BY <1>5, ReturnedRowKeeps DEF JobReturned, SameHistory, EventsMatch, LastEventMatches
  <1>6. ASSUME NEW outcome, NEW error, NEW event, Recorded(k, outcome, error, event),
               event = "sent" <=> outcome = "sent"
        PROVE  /\ EventsMatch(k)'
               /\ Len(job_attempts'[k]) > 0
               /\ webhook_outbox'[k][Len(job_attempts'[k])].event = event
    <2>1. /\ DOMAIN job_attempts'[k] = 1..(Len(job_attempts[k]) + 1)
          /\ Len(job_attempts'[k]) = Len(job_attempts[k]) + 1
          /\ Len(webhook_outbox'[k]) = Len(job_attempts[k]) + 1
          /\ \A i \in 1..Len(job_attempts[k]) : /\ job_attempts'[k][i] = job_attempts[k][i]
                                                /\ webhook_outbox'[k][i] = webhook_outbox[k][i]
          /\ job_attempts'[k][Len(job_attempts[k]) + 1].no = jobs[k].attempts
          /\ job_attempts'[k][Len(job_attempts[k]) + 1].outcome = outcome
          /\ webhook_outbox'[k][Len(job_attempts[k]) + 1].event = event
          /\ webhook_outbox'[k][Len(job_attempts[k]) + 1].attempts = jobs[k].attempts
      BY <1>a, <1>6, RecordedHistory DEF EventsMatch
    <2> DEFINE n == Len(job_attempts[k])
    <2>2. n \in Nat /\ Len(job_attempts'[k]) = n + 1 BY <1>a, <2>1
    <2>3. ASSUME NEW i \in 1..(n + 1)
          PROVE  /\ webhook_outbox'[k][i].attempts = job_attempts'[k][i].no
                 /\ webhook_outbox'[k][i].event = "sent" <=> job_attempts'[k][i].outcome = "sent"
      <3>1. CASE i = n + 1 BY <3>1, <2>1, <1>6
      <3>2. CASE i \in 1..n BY <3>2, <2>1 DEF EventsMatch
      <3>3. QED BY <3>1, <3>2, <2>2
    <2>4. EventsMatch(k)' BY <2>1, <2>2, <2>3 DEF EventsMatch
    <2>5. QED BY <2>1, <2>2, <2>4
  <1>7. CASE JobSent(k)
    <2>1. jobs'[k].status = "sent" /\ jobs'[k].last_error = NoError
      BY <1>7, <1>a, SentRowFields DEF JobSent
    <2>2. /\ EventsMatch(k)' /\ Len(job_attempts'[k]) > 0
          /\ webhook_outbox'[k][Len(job_attempts'[k])].event = "sent"
      BY <1>7, <1>6 DEF JobSent
    <2>3. QED BY <2>1, <2>2 DEF LastEventMatches
  <1>8. CASE JobFailed(k)
    <2>1. PICK dead \in BOOLEAN, error \in Errors, outcome \in {"failed", "lease_expired"} :
            /\ dead => jobs'[k].status = "dead_lettered"
            /\ ~dead => jobs'[k].status = "pending"
            /\ Recorded(k, outcome, error, FailureEvent(dead))
      BY <1>8, FailedMove
    <2>2. FailureEvent(dead) = "sent" <=> outcome = "sent" BY DEF FailureEvent
    <2>3. /\ EventsMatch(k)' /\ Len(job_attempts'[k]) > 0
          /\ webhook_outbox'[k][Len(job_attempts'[k])].event = FailureEvent(dead)
      BY <2>1, <2>2, <1>6
    <2>4. QED BY <2>1, <2>3 DEF LastEventMatches, FailureEvent
  <1>9. QED BY <1>1, <1>2, <1>3, <1>4, <1>5, <1>7, <1>8 DEF JobStep

-----------------------------------------------------------------------------
(* The inductive invariant of the tables. *)

JobInv(k) == /\ Numbered(k) /\ Untouched(k) /\ Capped(k)
             /\ LedgerMatches(k) /\ ParkedMatches(k)
             /\ EventsMatch(k) /\ LastEventMatches(k)

TablesInv == TypeOK /\ LocksHeld /\ \A k \in Jobs : JobInv(k)

LEMMA TablesInvInit == Init => TablesInv
PROOF
  <1> SUFFICES ASSUME Init PROVE TablesInv OBVIOUS
  <1>1. ASSUME NEW k \in Jobs PROVE JobInv(k)
    <2>1. /\ jobs[k] = NoRow /\ job_attempts[k] = <<>> /\ webhook_outbox[k] = <<>>
          /\ k \notin deliveries /\ k \notin dead_letters
      BY DEF Init
    <2>2. /\ NoRow.status = "absent" /\ NoRow.attempts = 0 /\ NoRow.max_attempts = 0
          /\ NoRow.last_error = NoError
      BY DEF NoRow
    <2>3. QED BY <2>1, <2>2 DEF JobInv, Numbered, Untouched, Capped, LedgerMatches,
              SentAttempts, ParkedMatches, EventsMatch, LastEventMatches
  <1>2. QED BY <1>1, TypeInit, LocksInit DEF TablesInv

LEMMA TablesInvStep == TablesInv /\ [Next]_vars => TablesInv'
PROOF
  <1> SUFFICES ASSUME TablesInv, [Next]_vars PROVE TablesInv' OBVIOUS
  <1> USE DEF TablesInv
  <1>1. TypeOK'
    BY TypeStep, NumberedIsTheInvariant DEF JobInv
  <1>2. LocksHeld'
    BY LocksStep
  <1>3. ASSUME NEW k \in Jobs PROVE JobInv(k)'
    <2>1. JobStep(k) BY JobSteps
    <2>2. QED BY <2>1, NumberedStep, CappedStep, LedgerStep, ParkedStep, EventsStep DEF JobInv
  <1>4. QED BY <1>1, <1>2, <1>3

\* The named invariants are what the parts of TablesInv say together.
LEMMA TablesInvImplies ==
  TablesInv => /\ TypeOK /\ AttemptsNumberedInOrder /\ WithinRetryCap
               /\ DeliveredOnce /\ DeadLettersMatchStatus /\ OneEventPerAttempt
PROOF
  <1> SUFFICES ASSUME TablesInv
               PROVE  /\ TypeOK /\ AttemptsNumberedInOrder /\ WithinRetryCap
                      /\ DeliveredOnce /\ DeadLettersMatchStatus /\ OneEventPerAttempt
      OBVIOUS
  <1>1. TypeOK /\ AttemptsNumberedInOrder
    BY NumberedIsTheInvariant DEF TablesInv, JobInv
  <1>2. WithinRetryCap BY DEF TablesInv, JobInv, Capped, WithinRetryCap
  <1>3. DeliveredOnce
    BY DEF TablesInv, JobInv, LedgerMatches, SentAttempts, DeliveredOnce
  <1>4. DeadLettersMatchStatus
    BY <1>1 DEF TablesInv, JobInv, ParkedMatches, DeadLettersMatchStatus, TypeOK
  <1>5. OneEventPerAttempt
    BY DEF TablesInv, JobInv, EventsMatch, LastEventMatches, OneEventPerAttempt
  <1>6. QED BY <1>1, <1>2, <1>3, <1>4, <1>5

LEMMA TablesInvHolds == Spec => []TablesInv
PROOF BY TablesInvInit, TablesInvStep, PTL DEF Spec

\* Whatever workers, reaper, clients and operators do, the tables keep their types; in
\* particular the attempt counter that return_to_queue decrements never goes negative.
THEOREM TypeCorrect == Spec => []TypeOK
PROOF BY TablesInvHolds, TablesInvImplies, PTL

\* Attempts are numbered 1, 2, 3, ... without gap or repeat.
THEOREM AttemptsAreNumberedInOrder == Spec => []AttemptsNumberedInOrder
PROOF BY TablesInvHolds, TablesInvImplies, PTL

\* No job uses more attempts than its cap, and none waits without an attempt left.
THEOREM RetryCapHolds == Spec => []WithinRetryCap
PROOF BY TablesInvHolds, TablesInvImplies, PTL

\* Ledger, status and history agree on which jobs were delivered, once each.
THEOREM RecordedOnce == Spec => []DeliveredOnce
PROOF BY TablesInvHolds, TablesInvImplies, PTL

\* The dead letter table holds exactly the dead-lettered jobs.
THEOREM DeadLettersAgree == Spec => []DeadLettersMatchStatus
PROOF BY TablesInvHolds, TablesInvImplies, PTL

\* mark_sent, mark_failed and reap_expired_leases find their inserts' keys free: the number of
\* the open attempt is one more than all recorded ones, and a claimed job is neither in the
\* ledger nor among the dead letters.
THEOREM RecordingNeverConflicts == Spec => []UniqueKeysAreFree
PROOF
  <1>1. TablesInv => UniqueKeysAreFree
    <2> SUFFICES ASSUME TablesInv, NEW j \in Jobs, jobs[j].status = "processing"
                 PROVE  CanRecordAttempt(j) /\ j \notin deliveries /\ j \notin dead_letters
      BY DEF UniqueKeysAreFree
    <2>1. TypeOK /\ DeliveredOnce /\ DeadLettersMatchStatus /\ Numbered(j)
      BY TablesInvImplies DEF TablesInv, JobInv
    <2>2. DOMAIN job_attempts[j] = 1..Len(job_attempts[j]) /\ Len(job_attempts[j]) \in Nat
      BY <2>1, RowFacts
    <2>3. CanRecordAttempt(j) BY <2>1, <2>2 DEF CanRecordAttempt, Numbered
    <2>4. j \notin deliveries /\ j \notin dead_letters
      BY <2>1 DEF DeliveredOnce, DeadLettersMatchStatus
    <2>5. QED BY <2>3, <2>4
  <1>2. QED BY <1>1, TablesInvHolds, PTL

\* Every counted attempt is announced once, in order, with the right event.
THEOREM EventsAgree == Spec => []OneEventPerAttempt
PROOF BY TablesInvHolds, TablesInvImplies, PTL

-----------------------------------------------------------------------------
(* Who holds a claim.  A task owns the row from its claim on, until it ends    *)
(* the attempt itself or the reaper records it as expired.                     *)

\* The task goes on with its claim, or is gone.
Kept(l, k) ==
  \/ task'[l][k] = NoTask
  \/ /\ Active(l, k)
     /\ task'[l][k].token = task[l][k].token
     /\ task'[l][k].attempts = task[l][k].attempts

\* Nothing happens to the claim of k.
ClaimRests(k) ==
  /\ \A l \in Loops : Kept(l, k) \/ task'[l][k] = task[l][k]
  /\ jobs[k].status = "processing" <=> jobs'[k].status = "processing"
  /\ jobs[k].status = "processing" =>
       /\ jobs'[k].claim_token = jobs[k].claim_token
       /\ jobs'[k].attempts = jobs[k].attempts
  /\ job_attempts'[k] = job_attempts[k]

ClaimTaken(k) ==
  /\ jobs[k].status = "pending"
  /\ \E l \in Loops, token \in Tokens :
       /\ Fresh(k, token)
       /\ jobs'[k] = ClaimedRow(jobs[k], token)
       /\ task'[l][k] = ClaimedTask(jobs[k], token)
       /\ \A m \in Loops \ {l} : task'[m][k] = task[m][k]
  /\ job_attempts'[k] = job_attempts[k]

\* Its owner ends it, by a result or by returning the job.
ClaimEnded(k) ==
  /\ \E l \in Loops : /\ Active(l, k) /\ Owns(l, k) /\ task'[l][k] = NoTask
                      /\ \A m \in Loops \ {l} : task'[m][k] = task[m][k]
  /\ jobs'[k].status # "processing"
  /\ \/ job_attempts'[k] = job_attempts[k]
     \/ \E outcome, error : job_attempts'[k] = RecordAttempt(k, outcome, error)

ClaimReaped(k) ==
  /\ jobs'[k].status # "processing"
  /\ job_attempts'[k] = RecordAttempt(k, "lease_expired", "lease_expired")
  /\ \A l \in Loops : task'[l][k] = task[l][k]

ClaimStep(k) == ClaimRests(k) \/ ClaimTaken(k) \/ ClaimEnded(k) \/ ClaimReaped(k)

LEMMA ClaimSteps ==
  ASSUME TypeOK, LocksHeld, \A j \in Jobs : Numbered(j), [Next]_vars, NEW k \in Jobs
  PROVE  ClaimStep(k)
PROOF
  <1>a. \A j \in Jobs : jobs[j] \in Row BY DEF TypeOK
  <1>0. ASSUME jobs'[k] = jobs[k], job_attempts'[k] = job_attempts[k],
               \A l \in Loops : Kept(l, k) \/ task'[l][k] = task[l][k]
        PROVE  ClaimStep(k)
    BY <1>0 DEF ClaimStep, ClaimRests
  <1>1. CASE UNCHANGED vars
    BY <1>0, <1>1 DEF vars, tables
  <1>2. ASSUME NEW j \in Jobs, CreateJob(j) PROVE ClaimStep(k)
    <2>1. CASE k = j
      <3>1. PICK n \in MaxAttempts, due \in BOOLEAN : jobs' = [jobs EXCEPT ![j] = NewRow(n, due)]
        BY <1>2 DEF CreateJob
      <3>2. jobs'[k].status = "pending" BY <2>1, <3>1, NewRowFields DEF TypeOK
      <3>3. QED BY <1>2, <2>1, <3>2 DEF CreateJob, tables, ClaimStep, ClaimRests
    <2>2. CASE k # j BY <1>0, <1>2, <2>2 DEF CreateJob, tables, TypeOK
    <2>3. QED BY <2>1, <2>2
  <1>3. ASSUME NEW j \in Jobs, RequeueDeadLetter(j) PROVE ClaimStep(k)
    <2>1. CASE k = j
      <3>1. PICK extra \in ExtraAttempts : jobs' = [jobs EXCEPT ![j] = RequeuedRow(@, extra)]
        BY <1>3 DEF RequeueDeadLetter
      <3>2. jobs'[k].status = "pending" BY <1>a, <2>1, <3>1, RequeuedRowFields DEF TypeOK
      <3>3. QED BY <1>3, <2>1, <3>2 DEF RequeueDeadLetter, ClaimStep, ClaimRests
    <2>2. CASE k # j BY <1>0, <1>3, <2>2 DEF RequeueDeadLetter, TypeOK
    <2>3. QED BY <2>1, <2>2
  <1>4. ASSUME NEW j \in Jobs, BecomeDue(j) \/ LeaseExpires(j) PROVE ClaimStep(k)
    <2>1. CASE k = j
      <3>1. /\ jobs'[k].status = jobs[k].status
            /\ jobs'[k].claim_token = jobs[k].claim_token
            /\ jobs'[k].attempts = jobs[k].attempts
        BY <1>4, <1>a, <2>1, TickedRowFields DEF BecomeDue, LeaseExpires, TypeOK
      <3>2. QED BY <1>4, <3>1 DEF BecomeDue, LeaseExpires, tables, ClaimStep, ClaimRests
    <2>2. CASE k # j BY <1>0, <1>4, <2>2 DEF BecomeDue, LeaseExpires, tables, TypeOK
    <2>3. QED BY <2>1, <2>2
  <1>5. ASSUME NEW l \in Loops, ClaimLock(l) \/ Crash(l) PROVE ClaimStep(k)
    <2>1. \A m \in Loops : Kept(m, k) \/ task'[m][k] = task[m][k]
      BY <1>5 DEF ClaimLock, Crash, TypeOK, Kept
    <2>2. QED BY <1>0, <1>5, <2>1 DEF ClaimLock, Crash, tables
  <1>6. ASSUME NEW l \in Loops, ClaimCommit(l) PROVE ClaimStep(k)
    <2>1. PICK token \in [claiming[l] -> Tokens] :
            /\ \A j \in claiming[l] : Fresh(j, token[j])
            /\ jobs' = [j \in Jobs |-> IF j \in claiming[l]
                                       THEN ClaimedRow(jobs[j], token[j]) ELSE jobs[j]]
            /\ task' = [task EXCEPT ![l] =
                          [j \in Jobs |-> IF j \in claiming[l]
                                         THEN ClaimedTask(jobs[j], token[j]) ELSE task[l][j]]]
      BY <1>6 DEF ClaimCommit
    <2>2. CASE k \in claiming[l]
      <3>1. /\ token[k] \in Tokens /\ Fresh(k, token[k])
            /\ jobs'[k] = ClaimedRow(jobs[k], token[k])
            /\ jobs[k].status = "pending"
        BY <2>1, <2>2 DEF LocksHeld
      <3>2. /\ task'[l][k] = ClaimedTask(jobs[k], token[k])
            /\ \A m \in Loops \ {l} : task'[m][k] = task[m][k]
        BY <2>1, <2>2 DEF TypeOK
      <3>3. job_attempts' = job_attempts BY <1>6 DEF ClaimCommit, tables
      <3>4. ClaimTaken(k) BY <3>1, <3>2, <3>3 DEF ClaimTaken
      <3>5. QED BY <3>4 DEF ClaimStep
    <2>3. CASE k \notin claiming[l]
      <3>1. \A m \in Loops : task'[m][k] = task[m][k] BY <2>1, <2>3 DEF TypeOK
      <3>2. QED BY <1>0, <1>6, <2>1, <2>3, <3>1 DEF ClaimCommit, tables
    <2>4. QED BY <2>2, <2>3
  \* A task's own steps: on another job, without touching the row, or by its owner.
  <1>7. ASSUME NEW l \in Loops, NEW j \in Jobs, Deliver(l, j) \/ TaskFails(l, j)
        PROVE  ClaimStep(k)
    <2>1. /\ Active(l, j) /\ (Kept(l, j) \/ task'[l][j] = task[l][j])
          /\ \A m \in Loops, i \in Jobs : m # l \/ i # j => task'[m][i] = task[m][i]
      BY <1>7, TaskSteps DEF TaskMoves, Kept
    <2>2. \A m \in Loops : Kept(m, k) \/ task'[m][k] = task[m][k]
      BY <2>1
    <2>3. CASE jobs' = jobs /\ job_attempts' = job_attempts
      BY <1>0, <2>2, <2>3
    <2>4. CASE k # j
      BY <1>0, <1>7, <2>2, <2>4 DEF Deliver, RateLimited, BudgetExceeded, StartSend,
         ReturnToQueue, ProviderAccepts, SendSucceeds, SendRejected, SendUncertain, Fails,
         MarkSent, MarkFailed, DiscardResult, TaskFails, tables, TypeOK
    <2>5. CASE k = j /\ ReturnToQueue(l, j) /\ Owns(l, j)
      <3>1. /\ jobs'[k] = ReturnedRow(jobs[k], At(l, j, "return_unsent"))
            /\ End(l, j) /\ job_attempts' = job_attempts
        BY <2>5 DEF ReturnToQueue, TypeOK, tables
      <3>2. At(l, j, "return_unsent") \in BOOLEAN BY DEF At
      <3>3. jobs[k].attempts > 0
        BY <1>a, <2>5 DEF Owns, Numbered, Row, TypeOK
      <3>4. jobs'[k].status = "pending" BY <1>a, <3>1, <3>2, <3>3, ReturnedRowFields
      <3>5. task'[l][k] = NoTask BY <2>5, <3>1 DEF End, TypeOK
      <3>6. QED BY <2>1, <2>5, <3>1, <3>4, <3>5 DEF ClaimStep, ClaimEnded
    <2>6. CASE k = j /\ MarkSent(l, j)
      <3>1. /\ jobs'[k] = SentRow(jobs[k]) /\ End(l, j) /\ Owns(l, j)
            /\ job_attempts'[k] = RecordAttempt(k, "sent", NoError)
        BY <2>6 DEF MarkSent, TypeOK
      <3>2. jobs'[k].status = "sent" BY <1>a, <3>1, SentRowFields
      <3>3. task'[l][k] = NoTask BY <2>6, <3>1 DEF End, TypeOK
      <3>4. QED BY <2>1, <2>6, <3>1, <3>2, <3>3 DEF ClaimStep, ClaimEnded
    <2>7. CASE k = j /\ MarkFailed(l, j)
      <3>1. JobStep(k) BY <1>7, JobSteps DEF Next
      <3>2. /\ End(l, j) /\ Owns(l, j)
            /\ job_attempts'[k] = RecordAttempt(k, "failed", task[l][j].result)
        BY <2>7 DEF MarkFailed, TypeOK
      <3>3. jobs'[k].status # "processing"
        <4> DEFINE dead == task[l][j].result = "permanent" \/ AtRetryCap(j)
        <4>1. jobs'[k] = FailedRow(jobs[k], dead, task[l][j].result, dead /\ jobs[j].due)
          BY <2>7 DEF MarkFailed, TypeOK
        <4> HIDE DEF dead
        <4>2. QED BY <1>a, <4>1, FailedRowIsNotClaimed
      <3>4. task'[l][k] = NoTask BY <2>7, <3>2 DEF End, TypeOK
      <3>5. QED BY <2>1, <2>7, <3>2, <3>3, <3>4 DEF ClaimStep, ClaimEnded
    <2>8. QED
      BY <1>7, <2>3, <2>4, <2>5, <2>6, <2>7 DEF Deliver, RateLimited, BudgetExceeded, StartSend,
         ReturnToQueue, ProviderAccepts, SendSucceeds, SendRejected, SendUncertain, Fails,
         DiscardResult, TaskFails, tables
  <1>8. ASSUME NEW S \in SUBSET Jobs, Reap(S) PROVE ClaimStep(k)
    <2>1. CASE k \in S
      <3> DEFINE dead == k \in {j \in S : AtRetryCap(j)}
      <3>1. /\ jobs'[k] = FailedRow(jobs[k], dead, "lease_expired", TRUE)
            /\ job_attempts'[k] = RecordAttempt(k, "lease_expired", "lease_expired")
            /\ task' = task
        BY <1>8, <2>1 DEF Reap
      <3> HIDE DEF dead
      <3>2. jobs'[k].status # "processing" BY <1>a, <3>1, FailedRowIsNotClaimed
      <3>3. QED BY <3>1, <3>2 DEF ClaimStep, ClaimReaped
    <2>2. CASE k \notin S BY <1>0, <1>8, <2>2 DEF Reap
    <2>3. QED BY <2>1, <2>2
  <1>9. QED BY <1>1, <1>2, <1>3, <1>4, <1>5, <1>6, <1>7, <1>8 DEF Next

\* Displaced: the attempt the task works on is recorded as expired.
Displaced(l, k) ==
  \E i \in DOMAIN job_attempts[k] : /\ job_attempts[k][i].no = task[l][k].attempts
                                    /\ job_attempts[k][i].outcome = "lease_expired"

HolderInv(k) ==
  \A l \in Loops : Active(l, k) =>
    /\ task[l][k].token \in Tokens
    /\ Owns(l, k) => task[l][k].attempts = jobs[k].attempts
    /\ Owns(l, k) \/ Displaced(l, k)
    /\ \A m \in Loops \ {l} : Active(m, k) => task[m][k].token # task[l][k].token

\* A history only grows, so what it says of a task stays said.
LEMMA DisplacedForGood ==
  ASSUME TypeOK, NEW k \in Jobs, NEW l \in Loops, Displaced(l, k),
         task'[l][k].attempts = task[l][k].attempts,
         \/ job_attempts'[k] = job_attempts[k]
         \/ \E outcome, error : job_attempts'[k] = RecordAttempt(k, outcome, error)
  PROVE  Displaced(l, k)'
PROOF
  <1>1. CASE job_attempts'[k] = job_attempts[k] BY <1>1 DEF Displaced
  <1>2. ASSUME NEW outcome, NEW error, job_attempts'[k] = RecordAttempt(k, outcome, error)
        PROVE  Displaced(l, k)'
    <2>1. \A i \in DOMAIN job_attempts[k] :
            i \in DOMAIN job_attempts'[k] /\ job_attempts'[k][i] = job_attempts[k][i]
      <3>1. job_attempts[k] \in Seq(AttemptRecord) BY DEF TypeOK
      <3> DEFINE r == [no |-> jobs[k].attempts, outcome |-> outcome, error |-> error]
      <3>2. job_attempts'[k] = Append(job_attempts[k], r) BY <1>2 DEF RecordAttempt
      <3> HIDE DEF r
      <3>3. QED BY <3>1, <3>2
    <2>2. QED BY <2>1 DEF Displaced
  <1>3. QED BY <1>1, <1>2

LEMMA HolderStep ==
  ASSUME TypeOK, NEW k \in Jobs, HolderInv(k), ClaimStep(k)
  PROVE  HolderInv(k)'
PROOF
  <1>a. jobs[k] \in Row /\ NoTask.stage = "none" BY NoTaskFields DEF TypeOK
  <1>1. CASE ClaimRests(k)
    <2> SUFFICES ASSUME NEW l \in Loops, Active(l, k)'
                 PROVE  /\ task'[l][k].token \in Tokens
                        /\ Owns(l, k)' => task'[l][k].attempts = jobs'[k].attempts
                        /\ Owns(l, k)' \/ Displaced(l, k)'
                        /\ \A m \in Loops \ {l} :
                             Active(m, k)' => task'[m][k].token # task'[l][k].token
        BY DEF HolderInv
    <2>1. \A m \in Loops : Active(m, k)' => /\ Active(m, k)
                                            /\ task'[m][k].token = task[m][k].token
                                            /\ task'[m][k].attempts = task[m][k].attempts
      BY <1>1, <1>a DEF ClaimRests, Kept, Active
    <2>2. Owns(l, k)' <=> Owns(l, k) BY <1>1, <2>1 DEF ClaimRests, Owns
    <2>3. Displaced(l, k) => Displaced(l, k)' BY <1>1, <2>1, DisplacedForGood DEF ClaimRests
    <2>4. QED BY <1>1, <2>1, <2>2, <2>3 DEF HolderInv, ClaimRests, Owns
  <1>2. CASE ClaimTaken(k)
    <2>1. PICK l \in Loops, token \in Tokens :
            /\ Fresh(k, token)
            /\ jobs'[k] = ClaimedRow(jobs[k], token)
            /\ task'[l][k] = ClaimedTask(jobs[k], token)
            /\ \A m \in Loops \ {l} : task'[m][k] = task[m][k]
      BY <1>2 DEF ClaimTaken
    <2>2. /\ task'[l][k].token = token /\ task'[l][k].attempts = jobs'[k].attempts
          /\ jobs'[k].claim_token = token /\ jobs'[k].status = "processing"
      BY <1>a, <2>1, ClaimedRowFields, ClaimedTaskFields
    <2>3. Owns(l, k)' BY <2>2 DEF Owns
    <2>4. \A m \in Loops \ {l} :
            Active(m, k)' => /\ Active(m, k) /\ task[m][k].token # token /\ ~Owns(m, k)'
      BY <2>1, <2>2 DEF Fresh, Active, Owns
    <2>5. \A m \in Loops \ {l} : Active(m, k)' => Displaced(m, k)'
      BY <1>2, <2>1, <2>4 DEF HolderInv, ClaimTaken, Owns, Displaced
    <2>6. QED BY <2>1, <2>2, <2>3, <2>4, <2>5 DEF HolderInv
  <1>3. CASE ClaimEnded(k)
    <2>1. PICK l \in Loops : /\ Active(l, k) /\ Owns(l, k) /\ task'[l][k] = NoTask
                             /\ \A m \in Loops \ {l} : task'[m][k] = task[m][k]
      BY <1>3 DEF ClaimEnded
    <2>2. \A m \in Loops : Active(m, k)' =>
             /\ m # l /\ Active(m, k) /\ task'[m][k] = task[m][k]
             /\ ~Owns(m, k) /\ ~Owns(m, k)'
      BY <1>a, <1>3, <2>1 DEF HolderInv, ClaimEnded, Active, Owns
    <2>3. \A m \in Loops : Active(m, k)' => Displaced(m, k)'
      BY <1>3, <2>2, DisplacedForGood DEF HolderInv, ClaimEnded
    <2>4. QED BY <2>2, <2>3 DEF HolderInv
  <1>4. CASE ClaimReaped(k)
    <2>1. \A m \in Loops : /\ task'[m][k] = task[m][k]
                           /\ Active(m, k)' <=> Active(m, k) /\ ~Owns(m, k)'
      BY <1>4 DEF ClaimReaped, Active, Owns
    <2>2. ASSUME NEW m \in Loops, Active(m, k) PROVE Displaced(m, k)'
      <3>1. CASE Displaced(m, k) BY <1>4, <2>1, <3>1, DisplacedForGood DEF ClaimReaped
      <3>2. CASE Owns(m, k)
        <4>1. jobs[k].attempts = task'[m][k].attempts BY <2>1, <2>2, <3>2 DEF HolderInv
        <4> DEFINE n == Len(job_attempts[k]) + 1
        <4>2. /\ n \in DOMAIN job_attempts'[k]
              /\ job_attempts'[k][n].no = jobs[k].attempts
              /\ job_attempts'[k][n].outcome = "lease_expired"
          <5>1. job_attempts[k] \in Seq(AttemptRecord) BY DEF TypeOK
          <5> DEFINE r == [no |-> jobs[k].attempts, outcome |-> "lease_expired",
                           error |-> "lease_expired"]
          <5>2. job_attempts'[k] = Append(job_attempts[k], r)
            BY <1>4 DEF ClaimReaped, RecordAttempt
          <5>3. r.no = jobs[k].attempts /\ r.outcome = "lease_expired" OBVIOUS
          <5> HIDE DEF r
          <5>4. QED BY <5>1, <5>2, <5>3
        <4>3. QED BY <4>1, <4>2 DEF Displaced
      <3>3. QED BY <2>2, <3>1, <3>2 DEF HolderInv
    <2>3. QED BY <2>1, <2>2 DEF HolderInv
  <1>5. QED BY <1>1, <1>2, <1>3, <1>4 DEF ClaimStep

LEMMA HoldersHold == Spec => [](\A k \in Jobs : HolderInv(k))
PROOF
  <1>1. Init => \A k \in Jobs : HolderInv(k)
    BY NoTaskFields DEF Init, HolderInv, Active
  <1>2. TablesInv /\ (\A k \in Jobs : HolderInv(k)) /\ [Next]_vars
          => (\A k \in Jobs : HolderInv(k))'
    <2> SUFFICES ASSUME TablesInv, \A k \in Jobs : HolderInv(k), [Next]_vars,
                        NEW k \in Jobs
                 PROVE  HolderInv(k)'
        OBVIOUS
    <2>1. ClaimStep(k) BY ClaimSteps DEF TablesInv, JobInv
    <2>2. QED BY <2>1, HolderStep DEF TablesInv
  <1>3. QED BY <1>1, <1>2, TablesInvHolds, PTL DEF Spec

\* A worker loses a job it claimed only to the reaper, and the attempt it was working on
\* then counts as expired: no race between claims, no unfenced write takes it away.
THEOREM OnlyTheReaperDisplaces == Spec => []DisplacedOnlyByReaper
PROOF
  <1>1. (\A k \in Jobs : HolderInv(k)) => DisplacedOnlyByReaper
    BY DEF HolderInv, Displaced, DisplacedOnlyByReaper
  <1>2. QED BY <1>1, HoldersHold, PTL

-----------------------------------------------------------------------------
(* What the provider has accepted.                                             *)

\* A task that knows, or is about to learn, that the provider accepted its request.
Reached(t) == t.stage = "accepted" \/ (t.stage = "finalize" /\ t.result = NoError)

AcceptedInv ==
  /\ \A k \in deliveries : provider_requests[k] > 0
  /\ \A l \in Loops, k \in Jobs : Reached(task[l][k]) => provider_requests[k] > 0

\* Every step is a task's, a claim or a crash, or touches neither tasks nor provider.
LEMMA TaskFrame ==
  ASSUME [Next]_vars
  PROVE  \/ \E l \in Loops, j \in Jobs : Deliver(l, j) \/ TaskFails(l, j)
         \/ /\ \/ \E l \in Loops : ClaimCommit(l)
               \/ \E l \in Loops : task' = [task EXCEPT ![l] = [j \in Jobs |-> NoTask]]
               \/ task' = task
            /\ UNCHANGED <<provider_requests, deliveries>>
PROOF
  <1>1. ASSUME NEW l \in Loops, ClaimLock(l) \/ ClaimCommit(l) \/ Crash(l)
        PROVE  /\ \/ ClaimCommit(l)
                  \/ task' = [task EXCEPT ![l] = [j \in Jobs |-> NoTask]]
                  \/ task' = task
               /\ UNCHANGED <<provider_requests, deliveries>>
    BY <1>1 DEF ClaimLock, ClaimCommit, Crash, tables
  <1>2. ASSUME NEW j \in Jobs,
               CreateJob(j) \/ RequeueDeadLetter(j) \/ BecomeDue(j) \/ LeaseExpires(j)
        PROVE  UNCHANGED <<provider_requests, deliveries, task>>
    BY <1>2 DEF CreateJob, RequeueDeadLetter, BecomeDue, LeaseExpires, tables
  <1>3. ASSUME NEW S \in SUBSET Jobs, Reap(S)
        PROVE  UNCHANGED <<provider_requests, deliveries, task>>
    BY <1>3 DEF Reap
  <1>4. CASE UNCHANGED vars BY <1>4 DEF vars, tables
  <1>5. QED BY <1>1, <1>2, <1>3, <1>4 DEF Next

\* A task gets there only by a request the provider accepts.
LEMMA ReachedSteps ==
  ASSUME TypeOK, [Next]_vars, NEW l \in Loops, NEW k \in Jobs, Reached(task'[l][k])
  PROVE  Reached(task[l][k]) \/ provider_requests'[k] > 0
PROOF
  <1>a. /\ NoTask.stage = "none" /\ task[l][k] \in Task /\ provider_requests[k] \in Nat
    BY NoTaskFields DEF TypeOK
  <1>1. CASE task'[l][k] = task[l][k] BY <1>1
  <1>2. CASE task'[l][k] = NoTask BY <1>a, <1>2 DEF Reached
  <1>3. ASSUME NEW m \in Loops, ClaimCommit(m), task'[l][k] # task[l][k] PROVE FALSE
    <2>1. PICK token \in [claiming[m] -> Tokens] :
            task' = [task EXCEPT ![m] =
                       [j \in Jobs |-> IF j \in claiming[m]
                                      THEN ClaimedTask(jobs[j], token[j]) ELSE task[m][j]]]
      BY <1>3 DEF ClaimCommit
    <2>2. m = l /\ k \in claiming[l] /\ task'[l][k] = ClaimedTask(jobs[k], token[k])
      BY <1>3, <2>1 DEF TypeOK
    <2>3. task'[l][k].stage = "acquire"
      BY <2>2, ClaimedTaskFields DEF TypeOK
    <2>4. QED BY <2>3 DEF Reached
  <1>4. ASSUME NEW m \in Loops, NEW j \in Jobs, Deliver(m, j) \/ TaskFails(m, j),
               task'[l][k] # task[l][k], task'[l][k] # NoTask
        PROVE  Reached(task[l][k]) \/ provider_requests'[k] > 0
    <2>1. m = l /\ j = k BY <1>4, TaskSteps DEF TaskMoves
    <2>2. ASSUME NEW stage \in Stages, MoveTo(l, k, stage)
          PROVE  task'[l][k].stage = stage /\ task'[l][k].result = task[l][k].result
      <3> DEFINE t == [task[l][k] EXCEPT !.stage = stage]
      <3>1. task' = [task EXCEPT ![l][k] = t] BY <2>2 DEF MoveTo
      <3>2. t \in Task /\ t.stage = stage /\ t.result = task[l][k].result BY <1>a, TaskFields
      <3> HIDE DEF t
      <3>3. QED BY <3>1, <3>2, TaskUpdate DEF TypeOK
    <2>3. ASSUME NEW error \in SendErrors, Fails(l, k, error) PROVE FALSE
      <3> DEFINE t == [task[l][k] EXCEPT !.stage = "finalize", !.result = error]
      <3>1. task' = [task EXCEPT ![l][k] = t] BY <2>3 DEF Fails
      <3>2. t \in Task /\ t.stage = "finalize" /\ t.result = error BY <1>a, TaskFields
      <3> HIDE DEF t
      <3>3. task'[l][k] = t BY <3>1, <3>2, TaskUpdate DEF TypeOK
      <3>4. QED BY <3>2, <3>3 DEF Reached, SendErrors, NoError
    <2>4. ~End(l, k) BY <1>4, <2>1 DEF End, TypeOK
    <2>5. CASE RateLimited(l, k) \/ BudgetExceeded(l, k) \/ StartSend(l, k)
      BY <2>2, <2>5 DEF RateLimited, BudgetExceeded, StartSend, Stages, Reached
    <2>6. CASE SendSucceeds(l, k)
      BY <2>6 DEF SendSucceeds, At, Reached
    <2>7. CASE ProviderAccepts(l, k)
      BY <1>a, <2>7 DEF ProviderAccepts, TypeOK
    <2>8. CASE SendRejected(l, k) \/ SendUncertain(l, k)
      BY <2>3, <2>8 DEF SendRejected, SendUncertain, SendErrors
    <2>9. QED
      BY <1>4, <2>1, <2>4, <2>5, <2>6, <2>7, <2>8
         DEF Deliver, ReturnToQueue, MarkSent, MarkFailed, DiscardResult, TaskFails
  <1>5. QED
    <2>1. ASSUME NEW m \in Loops, task' = [task EXCEPT ![m] = [j \in Jobs |-> NoTask]]
          PROVE  task'[l][k] = task[l][k] \/ task'[l][k] = NoTask
      BY <2>1 DEF TypeOK
    <2>2. QED BY <1>1, <1>2, <1>3, <1>4, <2>1, TaskFrame

\* Requests are only ever added, and only a request that got through is recorded as sent.
LEMMA AcceptedSteps ==
  ASSUME TypeOK, [Next]_vars, NEW k \in Jobs
  PROVE  /\ provider_requests'[k] >= provider_requests[k]
         /\ k \in deliveries' => k \in deliveries \/ \E l \in Loops : Reached(task[l][k])
PROOF
  <1>a. provider_requests[k] \in Nat BY DEF TypeOK
  <1>1. ASSUME NEW l \in Loops, NEW j \in Jobs, Deliver(l, j) \/ TaskFails(l, j)
        PROVE  /\ provider_requests'[k] >= provider_requests[k]
               /\ k \in deliveries' => k \in deliveries \/ \E m \in Loops : Reached(task[m][k])
    <2>1. CASE ProviderAccepts(l, j)
      BY <1>a, <2>1 DEF ProviderAccepts, tables, TypeOK
    <2>2. CASE MarkSent(l, j)
      BY <1>a, <2>2 DEF MarkSent, At, Reached
    <2>3. CASE ~ProviderAccepts(l, j) /\ ~MarkSent(l, j)
      BY <1>a, <1>1, <2>3 DEF Deliver, RateLimited, BudgetExceeded, StartSend, ReturnToQueue,
         SendSucceeds, SendRejected, SendUncertain, Fails, MarkFailed, DiscardResult,
         TaskFails, tables
    <2>4. QED BY <2>1, <2>2, <2>3
  <1>2. QED
    BY <1>a, <1>1, TaskFrame

\* Nothing is recorded as sent that the provider did not accept, whatever errors,
\* timeouts and crashes come between its answer and the record.
THEOREM SentOnlyWhatWasAccepted == Spec => []SentWasAccepted
PROOF
  <1>1. Init => AcceptedInv
    BY NoTaskFields DEF Init, AcceptedInv, Reached
  <1>2. TablesInv /\ AcceptedInv /\ [Next]_vars => AcceptedInv'
    <2> SUFFICES ASSUME TablesInv, AcceptedInv, [Next]_vars PROVE AcceptedInv' OBVIOUS
    <2>1. TypeOK /\ TypeOK' BY TablesInvStep DEF TablesInv
    <2>2. \A k \in Jobs : /\ provider_requests[k] \in Nat
                          /\ provider_requests'[k] \in Nat
      BY <2>1 DEF TypeOK
    <2>3. \A l \in Loops, k \in Jobs : Reached(task'[l][k]) => provider_requests'[k] > 0
      BY <2>1, <2>2, ReachedSteps, AcceptedSteps DEF AcceptedInv
    <2>4. \A k \in deliveries' : provider_requests'[k] > 0
      <3>1. \A k \in deliveries' : k \in Jobs BY <2>1 DEF TypeOK
      <3>2. QED BY <2>1, <2>2, <3>1, AcceptedSteps DEF AcceptedInv
    <2>5. QED BY <2>3, <2>4 DEF AcceptedInv, Reached
  <1>3. AcceptedInv => SentWasAccepted BY DEF AcceptedInv, SentWasAccepted
  <1>4. QED BY <1>1, <1>2, <1>3, TablesInvHolds, PTL DEF Spec
=============================================================================
