--------------------------- MODULE DeliveryQueue ---------------------------
(***************************************************************************)
(* The queue at the heart of Notify Queue: the jobs table and its          *)
(* satellite tables (repositories/jobs.py), the claim loops that deliver   *)
(* jobs (worker/loop.py), the reaper (worker/reaper.py), the provider they *)
(* send to (senders/mock.py) and the dead letter queue's requeue operation *)
(* (services/dead_letters.py).                                             *)
(*                                                                         *)
(* A committed transaction is one step.  Time is abstracted to the two     *)
(* comparisons the queries make: a row is due once run_at <= now()         *)
(* (BecomeDue) and its lease is over once lease_expires_at < now()         *)
(* (LeaseExpires); either may happen at any moment after it is set.  What  *)
(* the rate limiter answers and whether the lease left is enough to send   *)
(* are choices here (RateLimited, BudgetExceeded, StartSend).              *)
(*                                                                         *)
(* Definitions commented "Mutant:" are wrong variants of the one that      *)
(* follows; no specification uses them.  Substituted for it, each makes    *)
(* TLC report the property PROJECT.json names violated.                    *)
(***************************************************************************)
EXTENDS Integers, Sequences, FiniteSets

CONSTANTS
  Jobs,           \* ids of the jobs clients may schedule
  Loops,          \* claim loops, over all worker processes
  Tokens,         \* claim tokens: one nobody holds stands for a fresh uuid
  NoToken,        \* claim_token = NULL
  Priority,       \* priority of each job (smallint, larger is more urgent)
  BatchSize,      \* settings.batch_size
  ReaperBatch,    \* settings.reaper_batch_size
  MaxAttempts,    \* values of max_attempts a client may ask for
  ExtraAttempts,  \* values of extra_attempts an operator may ask for
  AttemptBound    \* bound on max_attempts after requeues (keeps the model finite)

ASSUME LoopsAssumption == IsFiniteSet(Loops)
ASSUME TokensAssumption == NoToken \notin Tokens
ASSUME PriorityAssumption == Priority \in [Jobs -> Int]
ASSUME BatchAssumption == BatchSize \in Nat \ {0} /\ ReaperBatch \in Nat \ {0}
ASSUME AttemptsAssumption ==
  /\ AttemptBound \in Nat
  /\ MaxAttempts \subseteq 1..AttemptBound
  /\ ExtraAttempts \subseteq Nat \ {0}

VARIABLES
  jobs,               \* the jobs table: one row per job id
  deliveries,         \* the delivery ledger, keyed by job_id
  dead_letters,       \* the dead letter table, keyed by job_id
  job_attempts,       \* per job, its attempt records in insertion order
  webhook_outbox,     \* per job, its events in insertion order
  provider_requests,  \* per job, requests the provider accepted (mock_provider_log)
  claiming,           \* per loop, the rows its open claim transaction has locked
  task                \* per loop and job, the progress of _process(job)

tables == <<deliveries, dead_letters, job_attempts, webhook_outbox>>
vars == <<jobs, tables, provider_requests, claiming, task>>

-----------------------------------------------------------------------------
(* Data. *)

NoError == "none"
SendErrors == {"rejected", "permanent", "uncertain"}
Errors == SendErrors \cup {"lease_expired"}

Statuses == {"pending", "processing", "sent", "dead_lettered"}

\* Where a delivery task stands between its claim and its last transaction.
Stages == {"acquire", "return_limited", "return_unsent", "send", "accepted", "finalize"}

Row == [status : Statuses \cup {"absent"}, due : BOOLEAN, lease_expired : BOOLEAN,
        attempts : Nat, max_attempts : Nat,
        last_error : Errors \cup {NoError}, claim_token : Tokens \cup {NoToken}]

NoRow == [status |-> "absent", due |-> FALSE, lease_expired |-> FALSE,
          attempts |-> 0, max_attempts |-> 0,
          last_error |-> NoError, claim_token |-> NoToken]

\* The claimed Job a task works from is a snapshot: its token and attempt number.
Task == [stage : Stages \cup {"none"}, token : Tokens \cup {NoToken},
         attempts : Nat, result : SendErrors \cup {NoError}]

NoTask == [stage |-> "none", token |-> NoToken, attempts |-> 0, result |-> NoError]

AttemptRecord == [no : Nat, outcome : {"sent", "failed", "lease_expired"},
                  error : Errors \cup {NoError}]

OutboxEvent == [event : {"sent", "failed", "dead_lettered"}, attempts : Nat]

TypeOK ==
  /\ jobs \in [Jobs -> Row]
  /\ deliveries \subseteq Jobs
  /\ dead_letters \subseteq Jobs
  /\ job_attempts \in [Jobs -> Seq(AttemptRecord)]
  /\ webhook_outbox \in [Jobs -> Seq(OutboxEvent)]
  /\ provider_requests \in [Jobs -> Nat]
  /\ claiming \in [Loops -> SUBSET Jobs]
  /\ task \in [Loops -> [Jobs -> Task]]

-----------------------------------------------------------------------------
(* Helpers. *)

Active(l, j) == task[l][j].stage # "none"

\* Mutant: the fence does not compare tokens.
OwnsWithoutToken(l, j) == jobs[j].status = "processing" /\ Active(l, j)

\* Mutant: no fence at all, WHERE id = :job_id.
OwnsById(l, j) == jobs[j].status \in Statuses /\ Active(l, j)

\* WHERE id = :job_id AND claim_token = :claim_token AND status = 'processing':
\* the fence in front of every write that follows a claim.
Owns(l, j) == /\ jobs[j].status = "processing"
              /\ jobs[j].claim_token = task[l][j].token

\* Mutant: one attempt too many.
AfterRetryCap(j) == jobs[j].attempts > jobs[j].max_attempts

\* attempts >= max_attempts, the CASE of _MARK_FAILED and _REAP_EXPIRED.
AtRetryCap(j) == jobs[j].attempts >= jobs[j].max_attempts

\* UNIQUE (job_id, attempt_no): the insert of _record_attempt succeeds.
CanRecordAttempt(j) ==
  \A i \in DOMAIN job_attempts[j] : job_attempts[j][i].no # jobs[j].attempts

RecordAttempt(j, outcome, error) ==
  Append(job_attempts[j], [no |-> jobs[j].attempts, outcome |-> outcome, error |-> error])

EnqueueWebhook(j, event) ==
  Append(webhook_outbox[j], [event |-> event, attempts |-> jobs[j].attempts])

\* A token no row and no task holds for j: gen_random_uuid() never repeats one.
Fresh(j, t) == /\ t # jobs[j].claim_token
               /\ \A l \in Loops : t # task[l][j].token

-----------------------------------------------------------------------------
(* Clients, operators and the clock. *)

\* Columns of _INSERT_JOB.
NewRow(n, due) ==
  [NoRow EXCEPT !.status = "pending", !.due = due, !.max_attempts = n]

\* A client's POST /v1/jobs inserts the row, due at once or later.
CreateJob(j) ==
  /\ jobs[j].status = "absent"
  /\ \E n \in MaxAttempts, due \in BOOLEAN : jobs' = [jobs EXCEPT ![j] = NewRow(n, due)]
  /\ UNCHANGED <<tables, provider_requests, claiming, task>>

\* now() reaches the run_at of a pending job.
BecomeDue(j) ==
  /\ jobs[j].status = "pending" /\ ~jobs[j].due
  /\ jobs' = [jobs EXCEPT ![j].due = TRUE]
  /\ UNCHANGED <<tables, provider_requests, claiming, task>>

\* now() passes the lease_expires_at of a claimed job.
LeaseExpires(j) ==
  /\ jobs[j].status = "processing" /\ ~jobs[j].lease_expired
  /\ jobs' = [jobs EXCEPT ![j].lease_expired = TRUE]
  /\ UNCHANGED <<tables, provider_requests, claiming, task>>

\* Mutant: the cap is raised from the old cap, not from the attempts used.
RequeuedRowFromCap(row, extra) ==
  [row EXCEPT !.status = "pending", !.due = TRUE, !.last_error = NoError,
              !.max_attempts = @ + extra]

\* The attempt counter keeps counting, so it is the cap that is raised.
RequeuedRow(row, extra) ==
  [row EXCEPT !.status = "pending", !.due = TRUE, !.last_error = NoError,
              !.max_attempts = row.attempts + extra]

\* Mutant: the dead letter row stays behind.
RequeueKeepingDeadLetter(j) ==
  /\ jobs[j].status = "dead_lettered"
  /\ \E extra \in ExtraAttempts :
       /\ jobs[j].attempts + extra <= AttemptBound
       /\ jobs' = [jobs EXCEPT ![j] = RequeuedRow(@, extra)]
  /\ UNCHANGED <<tables, provider_requests, claiming, task>>

\* An operator's POST /v1/dead-letters/{id}/requeue.
RequeueDeadLetter(j) ==
  /\ jobs[j].status = "dead_lettered"
  /\ \E extra \in ExtraAttempts :
       /\ jobs[j].attempts + extra <= AttemptBound
       /\ jobs' = [jobs EXCEPT ![j] = RequeuedRow(@, extra)]
  /\ dead_letters' = dead_letters \ {j}
  /\ UNCHANGED <<deliveries, job_attempts, webhook_outbox, provider_requests,
                 claiming, task>>

-----------------------------------------------------------------------------
(* The claim transaction: the CTE locks rows, the UPDATE's commit shows them. *)

Locked == UNION {claiming[l] : l \in Loops}

\* Mutant: rows another claim has locked are returned too.
ClaimableLockedOrNot == {j \in Jobs : jobs[j].status = "pending" /\ jobs[j].due}

\* Mutant: jobs that failed before are not claimed again.
ClaimableNeverFailed ==
  {j \in ClaimableLockedOrNot : jobs[j].last_error = NoError} \ Locked

\* Due rows that FOR UPDATE SKIP LOCKED may return.
Claimable == {j \in Jobs : jobs[j].status = "pending" /\ jobs[j].due} \ Locked

\* LIMIT :batch_size of ORDER BY priority DESC, run_at ASC (which of two rows of
\* one priority has the earlier run_at is left open).
FirstOf(S) == {B \in SUBSET S :
                 /\ Cardinality(B) = IF Cardinality(S) <= BatchSize
                                     THEN Cardinality(S) ELSE BatchSize
                 /\ \A a \in B, b \in S \ B : Priority[a] >= Priority[b]}

\* A loop claims its next batch once every task of the last one has ended.
ClaimLock(l) ==
  /\ claiming[l] = {} /\ \A j \in Jobs : ~Active(l, j)
  /\ Claimable # {}
  /\ \E B \in FirstOf(Claimable) : claiming' = [claiming EXCEPT ![l] = B]
  /\ UNCHANGED <<jobs, tables, provider_requests, task>>

\* Columns of _CLAIM_DUE_JOBS; the lease starts.
ClaimedRow(row, token) ==
  [row EXCEPT !.status = "processing", !.claim_token = token, !.lease_expired = FALSE,
              !.attempts = row.attempts + 1]

ClaimedTask(row, token) ==
  [stage |-> "acquire", token |-> token, attempts |-> row.attempts + 1, result |-> NoError]

ClaimCommit(l) ==
  /\ claiming[l] # {}
  /\ \E token \in [claiming[l] -> Tokens] :
       /\ \A j \in claiming[l] : Fresh(j, token[j])
       /\ jobs' = [j \in Jobs |->
                     IF j \in claiming[l]
                     THEN ClaimedRow(jobs[j], token[j]) ELSE jobs[j]]
       /\ task' = [task EXCEPT ![l] =
                     [j \in Jobs |->
                        IF j \in claiming[l]
                        THEN ClaimedTask(jobs[j], token[j]) ELSE task[l][j]]]
  /\ claiming' = [claiming EXCEPT ![l] = {}]
  /\ UNCHANGED <<tables, provider_requests>>

-----------------------------------------------------------------------------
(* One task per claimed job: _process and _deliver. *)

At(l, j, stage) == task[l][j].stage = stage

MoveTo(l, j, stage) == task' = [task EXCEPT ![l][j].stage = stage]

End(l, j) == task' = [task EXCEPT ![l][j] = NoTask]

\* The rate limiter has no slot: the job goes back until one frees.
RateLimited(l, j) ==
  /\ At(l, j, "acquire") /\ MoveTo(l, j, "return_limited")
  /\ UNCHANGED <<jobs, tables, provider_requests, claiming>>

\* Admitted, but too little of the lease is left to send safely.
BudgetExceeded(l, j) ==
  /\ At(l, j, "acquire") /\ MoveTo(l, j, "return_unsent")
  /\ UNCHANGED <<jobs, tables, provider_requests, claiming>>

\* Admitted with lease to spare: the request to the provider goes out.  The worker's
\* deadline is never later than the row's, so its claim still runs at this moment.
StartSend(l, j) ==
  /\ At(l, j, "acquire") /\ Owns(l, j) /\ ~jobs[j].lease_expired
  /\ MoveTo(l, j, "send")
  /\ UNCHANGED <<jobs, tables, provider_requests, claiming>>

ReturnedRow(row, due) ==
  [row EXCEPT !.status = "pending", !.due = due, !.attempts = row.attempts - 1,
              !.claim_token = NoToken, !.lease_expired = FALSE]

\* return_to_queue: back to pending for delay_seconds (0 when it was the lease
\* that ran short), as if the claim had never counted.  Fenced.
ReturnToQueue(l, j) ==
  /\ At(l, j, "return_limited") \/ At(l, j, "return_unsent")
  /\ jobs' = IF Owns(l, j)
             THEN [jobs EXCEPT ![j] = ReturnedRow(@, At(l, j, "return_unsent"))]
             ELSE jobs
  /\ End(l, j)
  /\ UNCHANGED <<tables, provider_requests, claiming>>

\* The provider records the request under the idempotency key job.id.
ProviderAccepts(l, j) ==
  /\ At(l, j, "send") /\ MoveTo(l, j, "accepted")
  /\ provider_requests' = [provider_requests EXCEPT ![j] = @ + 1]
  /\ UNCHANGED <<jobs, tables, claiming>>

\* How send() ends for its caller: the provider's answer arrives, ...
SendSucceeds(l, j) ==
  /\ At(l, j, "accepted") /\ MoveTo(l, j, "finalize")
  /\ UNCHANGED <<jobs, tables, provider_requests, claiming>>

\* Mutant: a timeout is taken for a success.
FailsUnlessUncertain(l, j, error) ==
  /\ task' = [task EXCEPT ![l][j] =
                [@ EXCEPT !.stage = "finalize",
                          !.result = IF error = "uncertain" THEN NoError ELSE error]]
  /\ UNCHANGED <<jobs, tables, provider_requests, claiming>>

Fails(l, j, error) ==
  /\ task' = [task EXCEPT ![l][j] = [@ EXCEPT !.stage = "finalize", !.result = error]]
  /\ UNCHANGED <<jobs, tables, provider_requests, claiming>>

\* ... or the provider refuses, for now (DeliveryError) or for good
\* (PermanentDeliveryError), ...
SendRejected(l, j) ==
  At(l, j, "send") /\ (Fails(l, j, "rejected") \/ Fails(l, j, "permanent"))

\* ... or a timeout or an unexpected exception ends it, before or after the
\* provider accepted the request.
SendUncertain(l, j) ==
  (At(l, j, "send") \/ At(l, j, "accepted")) /\ Fails(l, j, "uncertain")

\* Columns of _MARK_SENT.
SentRow(row) ==
  [row EXCEPT !.status = "sent", !.last_error = NoError,
              !.claim_token = NoToken, !.lease_expired = FALSE]

\* mark_sent: status, ledger, attempt record and event in one transaction.  The
\* inserts hit the keys of deliveries and job_attempts; a duplicate would abort.
MarkSent(l, j) ==
  /\ At(l, j, "finalize") /\ task[l][j].result = NoError
  /\ Owns(l, j)
  /\ j \notin deliveries /\ CanRecordAttempt(j)
  /\ jobs' = [jobs EXCEPT ![j] = SentRow(@)]
  /\ deliveries' = deliveries \cup {j}
  /\ job_attempts' = [job_attempts EXCEPT ![j] = RecordAttempt(j, "sent", NoError)]
  /\ webhook_outbox' = [webhook_outbox EXCEPT ![j] = EnqueueWebhook(j, "sent")]
  /\ End(l, j)
  /\ UNCHANGED <<dead_letters, provider_requests, claiming>>

\* Mutant: a failed attempt does not count, as if the job had been returned.
FailedRowUncounted(row, dead, error, due) ==
  [row EXCEPT !.status = IF dead THEN "dead_lettered" ELSE "pending", !.due = due,
              !.attempts = row.attempts - 1,
              !.last_error = error, !.claim_token = NoToken, !.lease_expired = FALSE]

\* Columns of _MARK_FAILED and _REAP_EXPIRED.
FailedRow(row, dead, error, due) ==
  [row EXCEPT !.status = IF dead THEN "dead_lettered" ELSE "pending", !.due = due,
              !.last_error = error, !.claim_token = NoToken, !.lease_expired = FALSE]

\* Mutants: the payload's status in place of the event's name; always FAILED.
FailureStatus(dead) == IF dead THEN "dead_lettered" ELSE "retrying"
FailureOnly(dead) == "failed"

\* _after_failure: the dead letter row and the event that match the new status.
FailureEvent(dead) == IF dead THEN "dead_lettered" ELSE "failed"

\* mark_failed: permanent errors and the retry cap dead-letter, anything else
\* waits for the backoff.
MarkFailed(l, j) ==
  LET error == task[l][j].result
      dead == error = "permanent" \/ AtRetryCap(j)
  IN /\ At(l, j, "finalize") /\ error # NoError
     /\ Owns(l, j)
     /\ CanRecordAttempt(j) /\ (dead => j \notin dead_letters)
     /\ jobs' = [jobs EXCEPT ![j] = FailedRow(@, dead, error, dead /\ @.due)]
     /\ dead_letters' = IF dead THEN dead_letters \cup {j} ELSE dead_letters
     /\ job_attempts' = [job_attempts EXCEPT ![j] = RecordAttempt(j, "failed", error)]
     /\ webhook_outbox' = [webhook_outbox EXCEPT ![j] = EnqueueWebhook(j, FailureEvent(dead))]
     /\ End(l, j)
     /\ UNCHANGED <<deliveries, provider_requests, claiming>>

\* mark_sent or mark_failed matched no row: the lease was lost.
DiscardResult(l, j) ==
  /\ At(l, j, "finalize") /\ ~Owns(l, j)
  /\ End(l, j)
  /\ UNCHANGED <<jobs, tables, provider_requests, claiming>>

\* An exception (a database error, say) escapes _deliver: _process swallows it
\* and leaves the row to the reaper.
TaskFails(l, j) ==
  /\ Active(l, j)
  /\ End(l, j)
  /\ UNCHANGED <<jobs, tables, provider_requests, claiming>>

\* The worker process dies: its tasks are gone, its open claim is rolled back.
Crash(l) ==
  /\ claiming[l] # {} \/ \E j \in Jobs : Active(l, j)
  /\ claiming' = [claiming EXCEPT ![l] = {}]
  /\ task' = [task EXCEPT ![l] = [j \in Jobs |-> NoTask]]
  /\ UNCHANGED <<jobs, tables, provider_requests>>

-----------------------------------------------------------------------------
(* The reaper. *)

\* Mutant: the lease is not looked at.
ExpiredOrNot == {j \in Jobs : jobs[j].status = "processing"}

\* Mutant: claims that used their last attempt are not reaped.
ExpiredWithAttemptsLeft ==
  {j \in Jobs : jobs[j].status = "processing" /\ jobs[j].lease_expired /\ ~AtRetryCap(j)}

Expired == {j \in Jobs : jobs[j].status = "processing" /\ jobs[j].lease_expired}

\* One pass takes up to LIMIT expired claims (SKIP LOCKED passes over rows that a
\* finalizing transaction holds, so any of them) and ends each like a failed
\* attempt, due at once.  One duplicate attempt number or dead letter would roll
\* the whole pass back.
Reap(S) ==
  LET dead == {j \in S : AtRetryCap(j)}
  IN /\ S # {} /\ S \subseteq Expired
     /\ Cardinality(S) <= ReaperBatch
     /\ \A j \in S : CanRecordAttempt(j)
     /\ dead \cap dead_letters = {}
     /\ jobs' = [j \in Jobs |-> IF j \in S
                                THEN FailedRow(jobs[j], j \in dead, "lease_expired", TRUE)
                                ELSE jobs[j]]
     /\ dead_letters' = dead_letters \cup dead
     /\ job_attempts' = [j \in Jobs |-> IF j \in S
                            THEN RecordAttempt(j, "lease_expired", "lease_expired")
                            ELSE job_attempts[j]]
     /\ webhook_outbox' = [j \in Jobs |-> IF j \in S
                              THEN EnqueueWebhook(j, FailureEvent(j \in dead))
                              ELSE webhook_outbox[j]]
     /\ UNCHANGED <<deliveries, provider_requests, claiming, task>>

-----------------------------------------------------------------------------
Init ==
  /\ jobs = [j \in Jobs |-> NoRow]
  /\ deliveries = {} /\ dead_letters = {}
  /\ job_attempts = [j \in Jobs |-> <<>>]
  /\ webhook_outbox = [j \in Jobs |-> <<>>]
  /\ provider_requests = [j \in Jobs |-> 0]
  /\ claiming = [l \in Loops |-> {}]
  /\ task = [l \in Loops |-> [j \in Jobs |-> NoTask]]

\* What a loop does for one job it has claimed, apart from failing.
Deliver(l, j) ==
  \/ RateLimited(l, j) \/ BudgetExceeded(l, j) \/ StartSend(l, j)
  \/ ReturnToQueue(l, j)
  \/ ProviderAccepts(l, j)
  \/ SendSucceeds(l, j) \/ SendRejected(l, j) \/ SendUncertain(l, j)
  \/ MarkSent(l, j) \/ MarkFailed(l, j) \/ DiscardResult(l, j)

Next ==
  \/ \E j \in Jobs : CreateJob(j) \/ RequeueDeadLetter(j) \/ BecomeDue(j) \/ LeaseExpires(j)
  \/ \E l \in Loops : ClaimLock(l) \/ ClaimCommit(l) \/ Crash(l)
  \/ \E l \in Loops, j \in Jobs : Deliver(l, j) \/ TaskFails(l, j)
  \/ \E S \in SUBSET Jobs : Reap(S)

Spec == Init /\ [][Next]_vars

-----------------------------------------------------------------------------
(* Fairness. *)

\* Time passes, and some worker process keeps its reaper running.
ReaperFairness ==
  \A j \in Jobs : /\ WF_vars(BecomeDue(j)) /\ WF_vars(LeaseExpires(j))
                  /\ WF_vars(\E S \in SUBSET Jobs : j \in S /\ Reap(S))

\* What EventuallySettled supposes of the loops: they keep polling, a claim that is tried
\* again and again commits, the steps of a task complete, and a job is not refused by the
\* rate limiter or short of lease every time it is claimed.
LoopFairness ==
  \A l \in Loops :
    /\ WF_vars(ClaimLock(l)) /\ SF_vars(ClaimCommit(l))
    /\ \A j \in Jobs : WF_vars(Deliver(l, j)) /\ SF_vars(StartSend(l, j))

\* Workers may stop anywhere and for ever; only the clock and a reaper go on.
ReaperSpec == Spec /\ ReaperFairness

-----------------------------------------------------------------------------
(* Safety. *)

\* A loop loses a job it claimed only to the reaper: its task owns the row, or the
\* attempt it is working on is recorded as lease_expired.  Claims that race on one
\* row, or an unfenced write by a stale worker, take a job from a healthy owner.
DisplacedOnlyByReaper ==
  \A l \in Loops, j \in Jobs :
    Active(l, j) =>
      \/ Owns(l, j)
      \/ \E i \in DOMAIN job_attempts[j] :
           /\ job_attempts[j][i].no = task[l][j].attempts
           /\ job_attempts[j][i].outcome = "lease_expired"

\* The attempt counter, decremented by return_to_queue, raised by claims and kept by
\* requeues, always equals the number of recorded attempts (plus the open one), and
\* they are numbered 1, 2, 3, ...
AttemptsNumberedInOrder ==
  \A j \in Jobs :
    /\ \A i \in DOMAIN job_attempts[j] : job_attempts[j][i].no = i
    /\ jobs[j].attempts = Len(job_attempts[j]) + IF jobs[j].status = "processing" THEN 1 ELSE 0

\* No claim goes beyond the cap, whoever ended the earlier attempts, and a waiting
\* job always has an attempt left: nothing waits that could only be dead-lettered.
WithinRetryCap ==
  \A j \in Jobs :
    /\ jobs[j].status = "pending" => jobs[j].attempts < jobs[j].max_attempts
    /\ jobs[j].attempts <= jobs[j].max_attempts

\* "Recorded as delivered exactly once": the ledger, the status and the history
\* agree about which jobs were sent, and no history holds two sent attempts, however
\* many workers held the job.
DeliveredOnce ==
  \A j \in Jobs :
    LET sent == {i \in DOMAIN job_attempts[j] : job_attempts[j][i].outcome = "sent"}
    IN /\ jobs[j].status = "sent" <=> j \in deliveries
       /\ j \in deliveries => sent = {Len(job_attempts[j])}
       /\ j \notin deliveries => sent = {}

\* A job has a dead letter row exactly while it is dead-lettered, through any number
\* of requeues: a leftover row would abort the next dead-lettering for ever.
DeadLettersMatchStatus ==
  dead_letters = {j \in Jobs : jobs[j].status = "dead_lettered"}

\* Whatever a claimed job has been through, none of the rows its end will insert is there
\* yet: no unique key ever aborts the recording of a result, or rolls a reaper pass back.
UniqueKeysAreFree ==
  \A j \in Jobs :
    jobs[j].status = "processing" =>
      CanRecordAttempt(j) /\ j \notin deliveries /\ j \notin dead_letters

\* The outbox holds one event per counted attempt, in order, that says how it ended;
\* the last one announces the dead-lettering or the delivery the row shows.
OneEventPerAttempt ==
  \A j \in Jobs :
    LET n == Len(job_attempts[j]) IN
    /\ Len(webhook_outbox[j]) = n
    /\ \A i \in 1..n :
         /\ webhook_outbox[j][i].attempts = job_attempts[j][i].no
         /\ webhook_outbox[j][i].event = "sent" <=> job_attempts[j][i].outcome = "sent"
    /\ jobs[j].status \in {"sent", "dead_lettered"} =>
         n > 0 /\ webhook_outbox[j][n].event = jobs[j].status
    /\ jobs[j].last_error # NoError /\ jobs[j].status = "pending" =>
         n > 0 /\ webhook_outbox[j][n].event = "failed"

\* Nothing is recorded as sent that the provider did not accept: an error, a timeout
\* or a crash is never taken for a delivery.
SentWasAccepted ==
  \A j \in deliveries : provider_requests[j] > 0

\* An attempt whose request may have reached the provider.
MayHaveReached(record) == record.outcome = "sent" \/ record.error \in {"uncertain", "lease_expired"}

\* The provider gets at most one request per attempt that ended in doubt or in
\* success, and one for the open attempt: a rejected attempt, a returned claim and a
\* race between claimers never put a second copy on its way.
ResentOnlyAfterDoubt ==
  \A j \in Jobs :
    provider_requests[j] <=
      Cardinality({i \in DOMAIN job_attempts[j] : MayHaveReached(job_attempts[j][i])})
      + IF jobs[j].status = "processing" THEN 1 ELSE 0

-----------------------------------------------------------------------------
(* Steps. *)

\* A sent job is never touched again: no stale worker, reaper pass or requeue reopens
\* it, adds to its history or announces anything more about it.
SentIsFinal ==
  [][\A j \in Jobs :
       jobs[j].status = "sent" =>
         UNCHANGED <<jobs[j], job_attempts[j], webhook_outbox[j]>> /\ j \in deliveries']_vars

\* What the tables say of each job, in the words of JobLifecycle.
Phase == [absent |-> "absent", pending |-> "waiting", processing |-> "claimed",
          sent |-> "sent", dead_lettered |-> "dead"]

LifeOf(j) == [phase |-> Phase[jobs[j].status],
              tries |-> Len(job_attempts[j]),
              cap |-> jobs[j].max_attempts,
              delivered |-> j \in deliveries,
              parked |-> j \in dead_letters,
              announced |-> Len(webhook_outbox[j])]

Lifecycle == INSTANCE JobLifecycle WITH
  Caps <- MaxAttempts,
  life <- [j \in Jobs |-> LifeOf(j)]

\* Every transaction moves each job along the lifecycle of the design, or not at all,
\* and brings all satellite tables along in the same commit.
ImplementsLifecycle == Lifecycle!Spec

\* The claim of job j, in the words of ClaimLease.
ClaimOf(j) == INSTANCE ClaimLease WITH
  Workers <- Loops,
  claimed <- jobs[j].status = "processing",
  live <- jobs[j].status = "processing" /\ ~jobs[j].lease_expired,
  owner <- {l \in Loops : Active(l, j) /\ Owns(l, j)},
  sending <- {l \in Loops : task[l][j].stage \in {"send", "accepted"}}

\* A claim passes from one worker to the next only when its owner gives the job up or its
\* lease is over: neither the reaper nor a stale worker ends a claim that is not theirs.
ImplementsClaimLease ==
  /\ \A j \in Jobs : ClaimOf(j)!Init
  /\ [][\A j \in Jobs : [ClaimOf(j)!Next]_(ClaimOf(j)!vars)]_vars

-----------------------------------------------------------------------------
(* Liveness. *)

\* No job stays claimed for ever, even if every worker dies or hangs right after
\* claiming: the reaper ends what they leave, at the retry cap as well.
ClaimsEnd ==
  \A j \in Jobs : jobs[j].status = "processing" ~> jobs[j].status # "processing"

\* Every scheduled job is sent or dead-lettered in the end, through rate limiting,
\* retries, crashes and lost leases, as long as loops keep working.
EventuallySettled ==
  LoopFairness =>
    \A j \in Jobs : jobs[j].status # "absent" ~> jobs[j].status \in {"sent", "dead_lettered"}

-----------------------------------------------------------------------------
(* What the documentation says and the code does not do. *)

\* tests/test_concurrency.py: "A dead-lettered job was never delivered."  A send that
\* times out, or a worker that dies, after the provider accepted the request leaves a
\* failed attempt; when it is the last one, the job is dead-lettered.
DeadLetteredNeverDelivered ==
  \A j \in Jobs : jobs[j].status = "dead_lettered" => provider_requests[j] = 0
=============================================================================
