# Notify Queue: TLA+ models and proofs

This directory holds a verification project for Notify Queue (`src/notify_queue/`
in the repository): TLA+ modules of the parts where concurrency, crashes and
timeouts decide whether it is correct, TLC configurations that check them on
small instances, and TLAPS proofs of the most important properties for every
instance. `PROJECT.json` ties it together: which definition models which lines,
what each run checks, and which wrong variant of the code each property rejects.

Paths below are relative to `src/notify_queue/` in the repository.

## The system

Clients schedule notifications over HTTP. Each is a row of the `jobs` table.
Worker processes claim due rows, send them through a provider, and record what
happened in the same database. Redis holds caches and the rate limiter's slots,
none of which is a source of truth for a job.

| Part | State | Operations | Talks to |
| --- | --- | --- | --- |
| Job store, `repositories/jobs.py` | tables `jobs`, `deliveries`, `dead_letters`, `job_attempts`, `webhook_outbox`, `rate_limit_buckets` | create, claim, mark sent, mark failed, return to queue, reap, requeue, bucket upsert | called inside the transactions of everybody below |
| Claim loops, `worker/loop.py` | claimed jobs (snapshots with a claim token) and the lease deadline, in memory | `run_batch` claims; one `_deliver` task per job asks the limiter, sends, records | job store, rate limiter, provider, cache invalidator |
| Reaper, `worker/reaper.py` | none | ends claims whose lease is over | job store, cache invalidator |
| Dead letter queue, `services/dead_letters.py` | none of its own | list, requeue with a higher cap | job store, job cache |
| Provider, `senders/mock.py` | `mock_provider_log`, keyed by `job.id` | accept, refuse, refuse for good, fail otherwise | claim loops |
| Webhook outbox and dispatcher, `repositories/webhooks.py`, `worker/webhook_dispatcher.py` | `webhook_outbox`; events being POSTed, in memory | claim due events, POST, mark delivered, mark attempt failed | callback receivers (`api/routes/mock.py`) |
| Rate limiter, `services/rate_limiter.py` | one Redis sorted set per recipient; the fallback's bucket in Postgres | acquire (a Lua script, or an upsert), release | claim loops |
| Job cache, `cache/job_cache.py`, `worker/common.py` | cached rows and tombstones with versions; invalidations on their way | put, invalidate, idempotency answers | scheduler, workers |
| Scheduling service, `services/scheduler.py` | none | schedule idempotently, get through the cache | job store, job cache |
| Metrics, `services/metrics.py`, `cache/metrics_cache.py` | cached counts, a lock in Redis | get or compute | job store |
| Backoff, settings, API, process start-up | - | - | - |

What makes each part correct, and what makes that hard:

* **Job store, loops, reaper.** Any number of loops and reapers in any number of
  processes; each may die or hang at any await; a lease may run out while its
  holder works. A job must have one owner at a time, be recorded as sent at most
  once, use no more attempts than its cap, end in the end, and the satellite
  tables must agree with the row whatever path a job takes.
* **Dead letter queue.** A requeue keeps the attempt counter and raises the cap;
  dead-lettering again after that must still work.
* **Provider.** A timeout says nothing about acceptance.
* **Outbox.** Claims lease events, but results are written by id alone, so
  dispatches that overlap overwrite each other. Every event must settle, none may
  be marked delivered that was not received.
* **Rate limiter.** Jobs that ask again reuse their slot; refunds come after the
  job was given up; Redis may fail before or after its script ran.
* **Lease budget.** A send may not outlive the claim it was started under, although the
  claim is the database's and the clock that is asked is the worker's.
* **Job cache.** Readers put rows they read a while ago; invalidations come late, in any
  order or never; entries and tombstones expire. Nobody may be shown a version older
  than one the cache was told is gone, and a stale answer must end.
* **Scheduling.** Identical requests at once, an API process that dies after the commit, a
  cached answer to an older request. One key must make one job.
* **Metrics.** Nothing depends on them.

`PROJECT.json` lists these hazards one by one, each at its line, with the
properties that cover it, or a note where none does yet.

## Modules

| Module | What it is |
| --- | --- |
| `DeliveryQueue` | job store, claim loops, reaper, requeue, provider: the core |
| `JobLifecycle` | abstract: what one job may do, and what each move leaves in the tables in the same instant. `DeliveryQueue` implements it |
| `ClaimLease` | abstract: how the claim of one job passes from worker to worker. `DeliveryQueue` and `LeaseBudget` both implement it |
| `DeliveryQueueProofs` | the inductive invariant and the safety theorems |
| `ResendProofs` | that a job is sent again only after an attempt that ended in doubt |
| `LifecycleProofs` | that `DeliveryQueue` implements `JobLifecycle`, and that sent jobs are final |
| `ClaimProofs` | that `DeliveryQueue` implements `ClaimLease` |
| `WebhookOutbox` | outbox, dispatchers, receiver |
| `WebhookOutboxProofs` | that overlapping dispatches never mislead the outbox |
| `RateLimiter` | the slots of one recipient, Redis and Postgres |
| `RateLimiterProofs` | that slots stay within the limit, that refusals tell the exact wait, and how many messages a window may see |
| `LeaseBudget` | one job's claims with time explicit: settings, deadline, lease, freezes |
| `LeaseBudgetProofs` | that a send stays inside its lease, for all settings, and that `LeaseBudget` implements `ClaimLease` |
| `JobCache` | one entry of the job cache: versions, tombstones, TTLs |
| `JobService` | composes `JobCache` with the scheduling service, racing inserts, readers, workers' updates and invalidations |
| `JobServiceProofs` | one job per key, and no answer behind an invalidation |
| `MCDeliveryQueue`, `MCWebhookOutbox`, `MCRateLimiter`, `MCLeaseBudget`, `MCJobService` | constants and symmetry for TLC |

Definitions keep the source's names. Those marked `Mutant:` are wrong variants of
the definition that follows, used by no specification: for each property of each
passing run `PROJECT.json` names one that, put in place of the right definition,
makes TLC report the property violated.

### DeliveryQueue

`jobs` is the table, one row per job id (`status = "absent"` before it is
inserted); the satellite tables are sets and, where they have an order, sequences.
`task[l][j]` is what loop `l` remembers of job `j` between two awaits: the claim
token and attempt number of its snapshot, and how far `_deliver` got. A committed
transaction is one step, with all its statements. The claim is two steps,
`ClaimLock` and `ClaimCommit`: between them its rows are locked but still pending
for everyone else.

| Code | Action |
| --- | --- |
| `create_job` | `CreateJob` |
| `claim_due_jobs`, `run_batch` | `ClaimLock`, `ClaimCommit` |
| `_deliver`: limiter refuses; lease too short; send | `RateLimited`, `BudgetExceeded`, `StartSend` |
| `return_to_queue` | `ReturnToQueue` |
| `MockSender.send` and how it ends for the caller | `ProviderAccepts`, `SendSucceeds`, `SendRejected`, `SendUncertain` |
| `mark_sent`, `mark_failed` | `MarkSent`, `MarkFailed`; `DiscardResult` when the fence matches nothing |
| exception out of `_deliver`; death of the process | `TaskFails`; `Crash` |
| `reap_expired_leases` | `Reap` |
| `requeue_dead_letter` | `RequeueDeadLetter` |

Time is reduced to the two comparisons the queries make. `BecomeDue` and
`LeaseExpires` may happen at any moment after the wait or lease began, so nothing
here depends on the lengths of leases, backoffs or polls. One consequence of those lengths
is assumed: a send *starts* only under a running claim (`StartSend`). It need not end
under one. `LeaseBudget` shows why that is so (`SendStartsUnderClaim`). The two modules meet in
`ClaimLease`: who may take a job, start a send, give it up, and when it is taken from its owner.
`DeliveryQueue` implements it per job by the guards of its queries (`ClaimOf`), `LeaseBudget` by
deadlines and clocks (`Claim`), so what the one supposes of a send is what the other achieves. In
both mappings a worker owns a job while its task is active and the row carries its token (in
`LeaseBudget`: names it, once the claim is committed), and sends from `StartSend` until the provider's
answer, whether it still owns the job or not.

Unique keys (`deliveries.job_id`, `dead_letters.job_id`, `job_attempts(job_id,
attempt_no)`) are guards: an insert that would violate one aborts its transaction,
so the step does not happen. That is how a leftover row would show: the job would be
stuck, which the liveness properties and the invariants on these tables exclude.

### WebhookOutbox

A place of `Dispatches` runs one `_dispatch` at a time, of any dispatcher. The lease
of a claimed event is a `BecomeDue` that may come while the dispatch is under way:
the 2 x timeout of the lease does not bound a POST (each of its phases has the
timeout of its own) plus the wait for a connection. Hence overlapping dispatches of
one event, whose results are then written by id in any order.

`DispatchFails` stands for the death of the process and for an exception that is not
an `httpx.HTTPError`; in the latter case `gather` returns at once and the other
dispatches of the batch keep running, so nothing waits for a whole batch here.

### RateLimiter

The jobs of one recipient (recipients do not interact), with an explicit `Tick`: a
slot's score, a message and a wait are ages and remainders that saturate at `Window`.
The Lua script is one step (`Admit` or `Refuse`). `FallBack` covers a call that failed
before the script ran and one whose answer was lost after it. A refund is recorded in
`releasing` when the job is given up and arrives later, or never; it is a count, as a job may
be given up again before its first release arrives. From being admitted to the provider's
acceptance an admitted task may take up to `SendTime` ticks (`send_timeout_seconds`; a process that
freezes in a send has no such bound), so a message may come when its slot has expired. A loop that has yet to
release a slot claims nothing, as `run_batch` waits for its tasks: with `Loops` releases of a job on their
way, nobody claims it.
Job ownership is `DeliveryQueue`'s subject and reduced here to one task per job.

### LeaseBudget

One job, the loops that compete for it, the reaper, and a clock. A loop's stages are the
awaits of `run_batch` and `_deliver`, each with the time it began. The deadline is taken
in `TakeDeadline`, the lease starts at `ClaimQuery` (the transaction's `now()`), and the row
carries it from `ClaimCommit` on. `Tick` cannot pass the timeout of a send, of the wait for a
connection, or of the recording, unless the process
is frozen, which nothing bounds: `Freeze` and `Thaw` stand for a paused VM. Only the first of these bounds is
enforced by the code. `pool_timeout` bounds the wait for a pooled connection but not the opening of a new one
(`db/session.py`), and no statement has a timeout: that connecting and recording take no longer than
`db_pool_timeout` and the safety margin is the design's assumption, and `SendInsideLease` rests on it
(`SendStartsUnderClaim` does not). The limiter and the
claim query may take any time, as in the code. Worker and database clocks may differ, but run
at the same rate; only differences of readings of one clock are compared, so one clock will do.

### JobCache and JobService

An entry is a version, a body (of which only the status is kept) and the time it has left.
`SetIfNewer` is the Lua script; `Put` and `Invalidate` choose body and TTL.

In `JobService` all requests carry one key (keys do not meet), and what lies between two awaits
is one step:

| Code | Action |
| --- | --- |
| `schedule_job`, the check of `send_at` | `Schedule`, `RefuseLate` |
| the fast path of `schedule` | `FastPath`, `SlowPath` |
| `create_job` | `Insert` (holds the key), `CommitInsert`, `InsertConflicts` (reads the winner) |
| `put_idempotency`, `put` | `PutIdempotency`, `PutJob` |
| `get` | `GetCached`, `Load`, `PutJob` |
| the caller or the process goes away | `RequestFails` |
| claim; mark sent, mark failed, return, reap; requeue | `Claim`; `Finish`; `Requeue` |
| `CacheInvalidator`, `invalidate` | `Invalidates`, `InvalidationArrives` |

A call to Redis that fails is a miss, or a write that may or may not have happened
(`cache/client.py`). Redis keeps what it holds until its TTL ends. A process holds a row it
read for at most `ReadDelay`, which is less than every TTL (they are 30 s and more). This is an assumption:
between the read and the put lie at most two calls to Redis with timeouts of seconds, but
`get(include_attempts)` also awaits a second SELECT, which has no timeout (`services/scheduler.py:89`),
and a process may freeze. Everything `JobService`
shows about stale entries depends on that bound. A claim invalidates nothing, in the code as
here, so a job may be shown as pending while it is being sent.

## Runs

| Run | Instance | Shows |
| --- | --- | --- |
| `claims` | 1 job, 3 loops, caps 1 and 2, requeues up to 3 attempts | all safety properties of the queue, and the refinement of `JobLifecycle` and of `ClaimLease` |
| `recovery` | 2 jobs, 1 loop that claims one at a time, a reaper that takes both; clock and reaper fair | `ClaimsEnd`: no job stays claimed though workers stop for ever; `EventuallySettled`: with a loop that goes on, every job is sent or dead-lettered |
| `dead_lettered` | 1 job, 2 loops | a statement of the documents, refuted (below) |
| `lease_budget` | 2 loops, 1 job, a budget of 4 in a lease of 5, 12 ticks | sends end inside their lease and start under their claim; the refinement of `ClaimLease` |
| `job_service` | 2 requests, 1 reader, 2 bodies, 4 versions | one job per key, no answer behind an invalidation, stale answers and requests end |
| `replay_refused` | the same | a statement of the README, refuted |
| `outbox` | 2 events, 2 dispatches, 2 attempts | delivered means received, nobody gives up early, settled events stay settled, every event settles |
| `outbox_attempts` | the same | a statement of the design, refuted |
| `limiter` | 2 jobs, 1 slot, both backends, every outcome | types and bucket bound, `EventuallySent` |
| `limiter_slots` | 5 jobs, 2 slots, sends of up to a tick and in doubt | slot bound, at most what two windows admit in any window, exact waits |
| `sliding_window`, `refund_race` | 2 jobs, 1 slot | two statements about the limiter, refuted |

**Why these bounds.** Fencing needs an owner, a stale owner and a bystander that
claims: three loops, one job. Loops forget their tokens when a task ends, so as many
tokens as loops always leave one nobody holds, which stands for a fresh uuid. Two
jobs and a batch of one make a loop leave the job of lower priority for later, also when the other one
comes back; a reaper batch of two rolls back, or ends, two claims at once. (Claims of several jobs are
left to the proofs, which hold for any batch sizes.)
Caps of 1 and 2 have a last attempt that is the first and one that is not;
`AttemptBound` (the only bound on a counter) allows a requeue with a further retry
after a first dead-lettering. Two overlapping dispatches give every order of two
unfenced writes. Sends of at most a tick take two windows to cover (below), so that exceeding the
bound takes 2 x Limit + 1 jobs: five, with two
slots, which is the least number for which the oldest and the youngest slot differ. Its `VIEW` leaves out
the bucket of Postgres, which nothing reads there. `limiter` has two loops, so two releases of one job can be on
their way.

The lease budget is checked over two leases and a bit (`Horizon`), enough for a loop to
freeze in a send, lose the job to the other loop, and wake up in the middle of its send; the
settings leave one tick of slack, so that a budget one part short shows. Two requests are a
winner and a loser, or an original and its replay; two bodies, one of them with a `send_at`, are
a replay and a conflict; one reader is the late one, and the requests are readers too. Four
versions (`MaxVersion`) take a job through insert, claim, result and requeue. The TTLs are the shortest that
differ where the code's do and are longer than `ReadDelay`.

**Symmetry** is used for loops and tokens in `claims`, for loops in `lease_budget` and for jobs
in `limiter_slots`, never with liveness.

**Deadlock** is not checked for the queue and the outbox, which may drain, and for the lease
budget, whose clock has a bound. It is checked for the limiter and the job service, whose clocks
never stop.

### Fairness

* `ReaperFairness` (`recovery`): time passes and some reaper keeps running. Its `run` swallows
  every exception and goes on; every worker process has one. Loops may stop for ever.
* `LoopFairness` (the hypothesis of `EventuallySettled`): loops poll until told to stop and swallow exceptions. Claims
  commit if tried again and again, the steps of a task complete (each await in
  `_deliver` has a timeout), and a job is not refused by the limiter, nor short of
  lease, *every* time it is claimed: strong fairness of `StartSend`, `ClaimCommit`.
* Outbox: some dispatcher polls; a POST tried again and again is answered or times out
  and its result is recorded, hence strong fairness (a dispatch may die each time
  otherwise).
* Limiter: `Tick` and the tasks go on, a release arrives or is lost, and a job is not for ever put
  back unsent, rejected by its provider or left in doubt.
  That a job's *turn* comes is what `EventuallySent` then shows, with no fairness on
  being admitted.
* Job service: time passes, a request goes on once it has arrived, and a reader that has
  read a row puts it or fails (every await in between has a timeout). Nothing is asked of
  invalidations: `StaleEnds` holds though every one of them be lost.

## Where the code and its documents differ

* `dead_lettered`: "A dead-lettered job was never delivered"
  (`tests/test_concurrency.py:62`, README). False when the last attempt timed out, or its
  worker died, after the provider had accepted. The test uses a sender that never
  times out after acceptance. What holds (`DeadLettersOwnUpToDoubt`) is that one of the attempts on
  record is then a timeout or an expired lease: an operator can tell before requeueing.
* `outbox_attempts`: "up to 8 attempts". An attempt whose dispatcher dies counts but never
  gives up, so there may be more. `GivenUpAfterAllAttempts` and
  `EventuallySettledForGood` are what holds, and the maximum itself as long as dispatches record their
  results within their leases (`AttemptsWithinMaximum`).
* `sliding_window`: "never more than N in any window". A slot's age says when the job first
  asked, not when it sent, so a job retried on its slot sends late in its life.
  `SentWithinCoveringWindows` is what holds, as long as no late refund frees a slot in use, and the
  bound itself if jobs also send as soon as they have taken their slots (`PromptSendsBound`).
* `refund_race`: a slot may be released after the next owner sent on it, because the release
  follows the commit that gives the job up.
* `replay_refused`: "200 for a replay of the same idempotency key" (README, API). `schedule` checks
  `send_at` first, so a client that repeats its request after its `send_at`, because it never got
  the answer, is told 422. `OneJobPerKey` holds all the same: no second job comes of it, and a replay that is in
  time does get its job (`ReplaysInTimeGetTheJob`).

Four remarks that are no runs but worth knowing. DESIGN section 5 puts the cost of a Redis outage at
"up to 2N", N from each limiter. But the bucket is a fixed window, which DESIGN itself says lets 2N through
across a boundary, and a retry on a kept slot, or a slow send, adds to what Redis lets through. Each limiter may let
through what it admits in the windows that cover two and a send (`SentWithinCoveringWindows`): 2N if a send takes at
most a tick of the clock, 3N once it takes longer, and both limiters let through twice that. With a limit of one, and
a window and a send of two ticks each, TLC finds three messages in one window for each limiter alone.
`worker/common.py:22-24` says that the
short TTL bounds the damage of a lost invalidation; for an entry of a dead-lettered job that is
requeued the TTL is the terminal one, 24 hours (`StaleEnds` says that it ends, not when). And DESIGN
section 3 says that a job is never sent twice unless its worker loses it in the middle of a send; its
race 4 adds the send that times out. `ResentOnlyAfterDoubt` covers both: one request per attempt that
ended in doubt or success. The repository's README promises "webhook callbacks on every status change"
(`README.md:7`). An event is queued for every attempt that ends (`OneEventPerAttempt`); a claim, a return to the
queue and a requeue change the status and announce nothing.

## Proofs

Each theorem holds for every value of the constants.

| Theorem | Property | Module |
| --- | --- | --- |
| `TypeCorrect` | `TypeOK` | `DeliveryQueueProofs` |
| `AttemptsAreNumberedInOrder` | `AttemptsNumberedInOrder` | |
| `RetryCapHolds` | `WithinRetryCap` | |
| `RecordedOnce` | `DeliveredOnce` | |
| `DeadLettersAgree` | `DeadLettersMatchStatus` | |
| `EventsAgree` | `OneEventPerAttempt` | |
| `RecordingNeverConflicts` | `UniqueKeysAreFree` | |
| `OnlyTheReaperDisplaces` | `DisplacedOnlyByReaper` | |
| `SentOnlyWhatWasAccepted` | `SentWasAccepted` | |
| `ResentOnlyAfterDoubtHolds` | `ResentOnlyAfterDoubt` | `ResendProofs` |
| `DeadLettersOwnUpToDoubt` | `DeliveredOnlyInDoubt` (not run) | |
| `RequestsStayWithinCap` | `RequestsWithinCap` (not run) | |
| `LifecycleImplemented` | `ImplementsLifecycle` | `LifecycleProofs` |
| `SentWorkIsFinal` | `SentIsFinal` | |
| `ClaimLeaseImplemented` | `ImplementsClaimLease` | `ClaimProofs` |
| `SendsStayInsideLease` | `SendInsideLease` | `LeaseBudgetProofs` |
| `SendsStartUnderClaim` | `SendStartsUnderClaim` | |
| `BudgetImplementsClaimLease` | `ImplementsClaimLease` | |
| `BudgetTypeCorrect` | `TypeOK` (not run) | |
| `OneKeyOneJob` | `OneJobPerKey` | `JobServiceProofs` |
| `InvalidatedStaysGone` | `NoStaleAfterInvalidation` | |
| `CacheIsNeverAhead` | `CacheNeverAhead` | |
| `ReplaysInTimeGetTheJob` | `ReplayGetsTheJob`, if no replay is late | |
| `ServiceTypeCorrect` | `TypeOK` | |
| `DeliveredMeansReceived` | `DeliveredWasReceived` | `WebhookOutboxProofs` |
| `NoneGivenUpEarly` | `GivenUpAfterAllAttempts` | |
| `SettledIsLeftAlone` | `SettledStaysSettled` | |
| `AttemptsWithinMaximum` | `AtMostMaxAttempts`, if leases last and results are recorded | |
| `OutboxTypeCorrect` | `TypeOK` | |
| `NeverTooManySlots` | `SlotsWithinLimit` | `RateLimiterProofs` |
| `RefusedWaitIsExact` | `RefusalWaitIsExact` | |
| `SafeRefundsBound` | `SentWithinCoveringWindows`, if refunds are safe when they arrive | |
| `SlidingWindowBound` | `SentWithinCoveringWindows`, if nothing is refunded | |
| `FixedWindowBound` | `SentWithinCoveringWindows`, if Postgres is the limiter | |
| `PromptSendsBound` | `SentWithinLimit`, for Redis alone, if sends are prompt and refunds safe | |
| `LimiterTypeCorrect` | `TypeOK` | |

### The queue

The theorems about the queue rest on the ASSUMEs of `DeliveryQueue` only: the loops are finitely
many, `NoToken` is no token, priorities are integers, batch sizes and extra attempts are
positive, caps are in `1..AttemptBound`.
(`AttemptBound` is any natural number.)

`TypeOK` is not inductive: `return_to_queue` decrements `attempts`, and
only knowing that a claimed row counts one more than it has recorded attempts keeps it
from going below zero. So types, attempt numbers, cap, ledger, dead letters and events
are proved together, as one invariant: `TablesInv` is `TypeOK`, `LocksHeld` (rows locked by
an open claim are still pending) and `JobInv(k)` for every job `k`. `JobSteps` reduces every
action to what it does to one row and the satellite entries of the same job: created,
claimed, returned, sent, failed, requeued, or at rest (`MarkFailed` and `Reap` are both
"failed"). One lemma per conjunct of `JobInv` (`NumberedStep`, `CappedStep`, `LedgerStep`,
`ParkedStep`, `EventsStep`) then shows that these moves preserve it. `LifecycleProofs` reuses the
moves: each is a move of `JobLifecycle` under the mapping `LifeOf`, or a stutter.
`RecordingNeverConflicts` draws the conclusion the guards on unique keys call for: a claimed job
has none of the rows yet that its end will insert, so no such guard ever keeps a result from being
recorded or rolls back a reaper's batch.

Nothing so far needs leases or tokens: the fence's `status = 'processing'` and the row
lock of a transaction already keep the tables consistent. What the tokens are for is
`DisplacedOnlyByReaper`. Its invariant, `HolderInv`, says who can still believe to own a job: an
active task either owns its row, or its attempt is on record as `lease_expired` (`DisplacedForGood`:
a record is never taken back, so once displaced always displaced); an owner's attempt number is
the row's; no two active tasks of a job have one token, because a claim takes a fresh one. `HolderStep` shows it for each move.
`ClaimProofs` maps every step to a move of one job's claim, with `HolderInv` (who holds the row) and
`ClaimersIdle`: a loop that is claiming has no active task, so it never takes a job that it is
still sending. `MarkSent`, `MarkFailed` and `ReturnToQueue` are a `GiveUp` when the token matches and
nothing otherwise; only `Reap` ends a claim that is somebody else's, and only a lapsed one.
`AcceptedInv`, for `SentWasAccepted`, says that the provider has a request of every job whose task
has got as far as its acceptance, and of every job with a delivery.

`ResentOnlyAfterDoubt` compares numbers of which neither says which attempt it is about, and a
worker that has lost its claim in the middle of a send may still add a request, after other
attempts. `ResendProofs` keeps an account per job: requests made, plus requests such *zombies* may
still make, are at most the attempts recorded as sent or in doubt, plus one if the open attempt
will be (`OpenDoubt`: its owner is past its acceptance, or gone). `AccountStep` lists what a step
may do to the account; a claim that is reaped in the middle of its send adds a zombie and a
record at once, and a refusal is recorded only by an owner who never was in doubt. For a
dead-lettered job no attempt is open and none is recorded as sent, so the account leaves only the
attempts in doubt to pay for a request (`DeadLettersOwnUpToDoubt`). And as attempts are numbered in order,
the records and the open attempt are as many as the counter says, which stays within the cap
(`RequestsStayWithinCap`).

### The lease budget

`SendInsideLease` is not inductive: it says nothing of what a loop has before it sends.
`BudgetInv` adds, per loop, that its deadline is never later than the lease of the row it claimed
(`DeadlineIsEarly`: `TakeDeadline` comes before `ClaimQuery`, and time does not go back), that
the row stays its own until then (`HeldUntilDeadline`), and, per stage of a send, how much of the deadline is
still needed (`SendInBudget`: the whole budget when the send begins, that without the send's
timeout at the connection, the margin at the recording). It uses that the settings are natural
numbers and not the validator's inequality: settings the validator rejects would not make a
send unsafe, they would keep every send from starting.

`BudgetImplementsClaimLease` needs the same invariant in one place, where `StartSend` must find the
lease running: the deadline is not over, it is no later than the lease, and until then the row is the
sender's. Everything else is the fence. A step of the clock past the end of the lease is an `Expire`.

### The job service

`ServiceInv` is `TypeOK`, `KeyInv` and `CacheInv`. `KeyInv`: at most one request holds the key, none
does once a job exists, and what a request was told, or is about to be told, and the cached
answer are about that job. `CacheInv` is where the tombstone argument is: for every row in some
process's hand (`HeldRow`), an entry that would turn it away outlives the reader
(its time left is more than `ReadDelay` minus the row's age), and there is such an entry whenever
an invalidation has overtaken the row. A put replaces an entry by one with a TTL of its own, possibly a
shorter one, which is why the bound must be kept by every write and not only by tombstones.
It rests on `DelayAssumption` (`ReadDelay` is less than each TTL) and on requests and
readers being different processes. `MaxVersion` is any natural number.

`ReplaysInTimeGetTheJob` has the hypothesis that no request is made after its `send_at` (`InTime`).
`CallEnds` lists how a call may end otherwise: with a job, with a failure, or in a conflict; and a
conflict is told about the one job there is (`KeyInv`), which has the replay's body.

### The outbox

A dispatch's snapshot may be as old as it likes, and its row may since have been claimed by
others. `SnapshotRight` says what it cannot get wrong: its attempt number is at most the row's (a
claim only counts up), and once it has an answer the receiver has stored the event (receipts are
never removed). `mark_delivered` and `mark_attempt_failed`, though unfenced, need no more than that.
`SettledStaysSettled` follows from the types: a claim takes pending rows only, so whoever writes a
settled row holds a dispatch of it.

`AttemptsWithinMaximum` says which two assumptions of the design its maximum rests on: no event
becomes due under a running dispatch (`LeasesLast`), and no dispatch ends without a record
(`ResultsRecorded`). Then a claim is the only thing between two records, snapshots are not stale
(`SnapshotFresh`), and whoever fails at the maximum gives up (`AttemptsInv`). The code guarantees
neither: the first can fail in a slow POST, the second in a crash, as `outbox_attempts` shows.

### The limiter

`SlotsInv` is the type invariant together with `SlotsWithinLimit`; neither stands alone. That
`job`'s wait is one takes a full set, which has an oldest member; that the wait is exact
(`WaitIsExact`) takes a set that is full and no more than full, so that without its oldest
members fewer than `Limit` are left. That a set of ages has a greatest element is derived from
the library's theorem that `<` is well-founded on the naturals. These theorems hold for any
finite set of jobs (`JobsAssumption`), any limit, window, length of sends, backends and outcomes.

`SentWithinCoveringWindows` speaks of messages, which outlive the slots they were sent on: a slot may be
gone, or taken again by the same job, while its message still counts. The invariant, `GrantInv`, says what the state does
not keep: *there are* ages `g` of the grants of slots behind the messages such that no window of grants has
more than `Limit` (`Grants`), and a message, or one that may still be sent, followed its grant by less than a window and
the time its send took (`Behind`). Each step gives the next `g`: a tick ages it, a first slot is a new grant, a slot
taken again by a job that has sent is none. With Postgres to fall back on there are also the jobs `P` it admitted
last, and ages `b` of those admissions, which the bucket of the current window and those of the earlier ones
have counted (`Buckets`). A job that has not sent joins `P` when Postgres admits it and leaves
it when Redis does; one whose message is out stays where it is (`AnswersAlone` says that `P` is nobody without
Postgres, and without Redis all that were admitted). The messages of one window are then grants of a period of two
windows and a send, less a tick, and `WindowsCover` bounds what a row of windows holds by the sum of them: the
shortest row that had more would have it in its last window.

The only step that can break this is a refund, and only if the slot it takes away is in use when it arrives
(`InUse`): some message was sent on it, or is about to be. `SafeRefunds` says that no step does that, which is what
the docstring of `release` asks of its callers. `SafeRefundsBound` is the theorem under this hypothesis, for every
choice of limiters and outcomes; the hypothesis is needed, for `refund_race` shows a refund that is late, and
nothing bounds how often that happens in a window. `SlidingWindowBound` (no outcome that refunds, as in the run
`limiter_slots`) and `FixedWindowBound` (with Postgres alone no slot is ever taken, so none can be taken away) are
the cases without it.

For `PromptSendsBound` a message must also go out in the tick in which its slot is taken
(`PromptSends`). Message and slot then have one age for as long as they count (`SentOnOwnSlot`), so that
the messages of a window are slots of it, and `SlotsWithinLimit` bounds them. What separates the
design's bound from the code is thus a late send, slow or retried on a kept slot, and a late refund, and nothing
else.

### Only model-checked

Liveness (`ClaimsEnd`, `EventuallySettled`, `EventuallySettledForGood`, `EventuallySent`, `StaleEnds`,
`RequestsEnd`), which is beyond the prover, as is ENABLED. Induction over data and RECURSIVE operators are
too; no module uses the latter. Every invariant and action property of a passing run has a theorem. Of these
only `SentWithinCoveringWindows` has hypotheses, and `limiter_slots` satisfies one of them. The statements that
runs refute are proved under hypotheses that say what the documents take for granted and the code
does not guarantee; of `ReleasedOnlyUnused`, which `refund_race` refutes, there is no such theorem, as the
hypothesis would be the statement itself.

## Not modelled

* **Metrics**: counts for a dashboard, cached for two seconds, that change nothing. The lock that is to
  elect one caller to count is given up on after a tenth of a second
  (`cache/metrics_cache.py:38-44`), so it saves work and promises nothing.
* **Backoff**: one expression of random real numbers. Waits may end at any moment in the modules, so
  nothing shown here depends on it. (That delays grow, as its comment says, holds only below the cap:
  the last one before it may be longer than the first one at it.)
* **Worker process**: `main.py` starts the loops and, on a signal, waits for their batches and drains
  the invalidator. To the queue a loop that stops is one that does not claim again, which no fairness
  forbids in `recovery`'s first property; an invalidation that is not sent is one that never arrives.
* **API process, session, migrations, tests, deployment**: parsing, wiring and DDL; the keys that the
  DDL declares are guards.

In the modelled parts: the wording of errors, payloads, a Redis that loses its data, the list and
count queries, and the clocks of different machines running at different rates. Starvation by an
endless stream of urgent jobs is by design and not expressible with finitely many jobs.

## Plan

Done: every component with behaviour of its own, except those listed above, is modelled, and
every invariant and action property that a passing run checks is proved.

Next:

1. More that follows from what is proved: that a job's attempts alternate with its waits (`ClaimLease`
   and `JobLifecycle` composed), also for requests of workers that have lost their claims.
2. The metrics cache, should something come to depend on it.
