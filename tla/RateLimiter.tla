---------------------------- MODULE RateLimiter ----------------------------
(***************************************************************************)
(* The limit on messages to one recipient (services/rate_limiter.py and    *)
(* the fixed-window bucket of repositories/jobs.py) and what delivery      *)
(* tasks do with their slots (worker/loop.py).  Recipients do not interact, *)
(* so Jobs are the jobs of one.                                            *)
(*                                                                         *)
(* The clock is a Tick that everything recorded ages by; ages stop at      *)
(* Window, where all are alike.  A send takes time: a message may come as  *)
(* much as SendTime after its task was admitted, when its slot may be gone.*)
(* Who owns a job is DeliveryQueue's subject: here a job is claimed by one *)
(* task at a time, and only the release of its slot, which comes after the *)
(* transaction that gave the job up, may overlap with the next claims.     *)
(***************************************************************************)
EXTENDS Integers, FiniteSets, FiniteSetsExt

CONSTANTS
  Jobs,      \* the jobs of one recipient
  Limit,     \* settings.rate_limit_per_hour
  Window,    \* settings.rate_limit_window_seconds, in ticks
  SendTime,  \* the longest from being admitted to the provider's acceptance, in ticks:
             \* settings.send_timeout_seconds, in a process that does not freeze
  Loops,     \* how many claim loops there are
  Backends,  \* which limiters may answer: subset of {"redis", "postgres"}
  Outcomes   \* how a claim may end that is not sent: subset of {"unsent", "rejected", "doubt"}

ASSUME JobsAssumption == IsFiniteSet(Jobs)
ASSUME LimitAssumption == Limit \in Nat \ {0} /\ Window \in Nat \ {0}
ASSUME SendAssumption == SendTime \in Nat /\ Loops \in Nat \ {0}
ASSUME ChoicesAssumption == /\ Backends \subseteq {"redis", "postgres"} /\ Backends # {}
                            /\ Outcomes \subseteq {"unsent", "rejected", "doubt"}

VARIABLES
  slot,       \* the sorted set: age of each member's score, or None
  count,      \* the bucket of the current fixed window
  elapsed,    \* ticks since that window began
  job,        \* per job, where its task stands and how long it still has to wait, or
              \* (while it is admitted) may take for its send
  releasing,  \* per job, how many loops have given it up and will still release its slot
  message     \* per job, age of the message its recipient got, or None

vars == <<slot, count, elapsed, job, releasing, message>>

-----------------------------------------------------------------------------
None == -1

Stages == {"waiting", "fallback", "refused", "admitted", "accepted", "done"}

TypeOK ==
  /\ slot \in [Jobs -> {None} \cup 0..Window]
  /\ count \in 0..Limit
  /\ elapsed \in 0..(Window - 1)
  /\ job \in [Jobs -> [stage : Stages, wait : 0..(Window + SendTime)]]
  /\ releasing \in [Jobs -> Nat]
  /\ message \in [Jobs -> {None} \cup 0..Window]

At(j, stage) == job[j].stage = stage

MoveTo(j, stage) == job' = [job EXCEPT ![j].stage = stage]

WaitFor(j, ticks, stage) == job' = [job EXCEPT ![j] = [stage |-> stage, wait |-> ticks]]

IsAdmitted(j) == WaitFor(j, SendTime, "admitted")

GoesTo(j, stage) == WaitFor(j, 0, stage)

\* The job is given up, and its slot will be released.
GivesUp(j) == GoesTo(j, "waiting") /\ releasing' = [releasing EXCEPT ![j] = @ + 1]

-----------------------------------------------------------------------------
(* Time. *)

Older(age) == IF age = None \/ age = Window THEN age ELSE age + 1

\* A new fixed window has a bucket of its own.  An expired member of the set, and the
\* whole key (PEXPIRE), stay until the next acquire trims them: they count for nothing.
Tick ==
  /\ \A j \in Jobs : At(j, "admitted") => job[j].wait > 0
  /\ slot' = [j \in Jobs |-> Older(slot[j])]
  /\ message' = [j \in Jobs |-> Older(message[j])]
  /\ job' = [j \in Jobs |-> IF job[j].stage \in {"waiting", "admitted"} /\ job[j].wait > 0
                            THEN [job[j] EXCEPT !.wait = @ - 1] ELSE job[j]]
  /\ elapsed' = (elapsed + 1) % Window
  /\ count' = IF elapsed' = 0 THEN 0 ELSE count
  /\ UNCHANGED releasing

\* The job is due and a loop claims it to ask for a slot.  A loop that has yet to release
\* the slot claims nothing: run_batch waits for its tasks.
Asks(j) == At(j, "waiting") /\ job[j].wait = 0 /\ releasing[j] < Loops

-----------------------------------------------------------------------------
(* Redis: the script _ACQUIRE. *)

\* Mutant: members are never trimmed.
Untrimmed == {j \in Jobs : slot[j] # None}

\* Members that ZREMRANGEBYSCORE -inf (now - window) leaves.
Holding == {j \in Jobs : slot[j] # None /\ slot[j] < Window}

\* Mutant: one slot too many.
HasRoomForOneMore == Cardinality(Holding) <= Limit

HasRoom == Cardinality(Holding) < Limit

\* Mutant: the wait for the youngest member.
WaitForYoungest == Window - Min({slot[j] : j \in Holding})

\* oldest + window - now
WaitForOldest == Window - Max({slot[j] : j \in Holding})

Trimmed == [j \in Jobs |-> IF j \in Holding THEN slot[j] ELSE None]

\* The whole script runs at one instant: trim; admit the job again on the slot it holds,
\* or on a new one if there is room.
Admit(j) ==
  /\ j \in Holding \/ HasRoom
  /\ slot' = IF j \in Holding THEN Trimmed ELSE [Trimmed EXCEPT ![j] = 0]

Refuse(j) == j \notin Holding /\ ~HasRoom /\ slot' = Trimmed

AcquireRedis(j) ==
  /\ Asks(j) /\ "redis" \in Backends
  /\ \/ Admit(j) /\ IsAdmitted(j)
     \/ Refuse(j) /\ WaitFor(j, WaitForOldest, "refused")
  /\ UNCHANGED <<count, elapsed, releasing, message>>

\* The call to Redis fails, before the script ran or after it (the answer is lost), or
\* Postgres is the configured limiter.
FallBack(j) ==
  /\ Asks(j) /\ "postgres" \in Backends
  /\ GoesTo(j, "fallback")
  /\ \/ UNCHANGED slot
     \/ "redis" \in Backends /\ (Admit(j) \/ Refuse(j))
  /\ UNCHANGED <<count, elapsed, releasing, message>>

-----------------------------------------------------------------------------
(* Postgres: the conditional upsert of try_acquire_rate_limit. *)

\* Mutant: the condition is off by one.
BucketHasRoomForOneMore == count <= Limit

BucketHasRoom == count < Limit

AcquirePostgres(j) ==
  /\ At(j, "fallback")
  /\ \/ BucketHasRoom /\ count' = count + 1 /\ IsAdmitted(j)
     \/ ~BucketHasRoom /\ count' = count /\ WaitFor(j, Window - elapsed, "refused")
  /\ UNCHANGED <<slot, elapsed, releasing, message>>

-----------------------------------------------------------------------------
(* The delivery task. *)

\* return_to_queue with the limiter's retry_after.
ReturnLimited(j) ==
  /\ At(j, "refused") /\ MoveTo(j, "waiting")
  /\ UNCHANGED <<slot, count, elapsed, releasing, message>>

\* Too little lease left: back to the queue at once; the slot is released after that.
ReturnUnsent(j) ==
  /\ At(j, "admitted") /\ "unsent" \in Outcomes
  /\ GivesUp(j)
  /\ UNCHANGED <<slot, count, elapsed, message>>

\* The provider takes the request.  One it has taken before for this job is absorbed.
Accept(j) ==
  /\ At(j, "admitted") /\ GoesTo(j, "accepted")
  /\ message' = IF message[j] = None THEN [message EXCEPT ![j] = 0] ELSE message
  /\ UNCHANGED <<slot, count, elapsed, releasing>>

\* The result is recorded and the job is done with.
MarkSent(j) ==
  /\ At(j, "accepted") /\ GoesTo(j, "done")
  /\ UNCHANGED <<slot, count, elapsed, releasing, message>>

\* The provider refuses: nothing was delivered, so once the failure is recorded the slot
\* is released.  The job is retried, or dead-lettered (it may wait for ever).
MarkRejected(j) ==
  /\ At(j, "admitted") /\ "rejected" \in Outcomes
  /\ GivesUp(j)
  /\ UNCHANGED <<slot, count, elapsed, message>>

\* Mutant: the slot is released after a timeout too.
RefundInDoubt(j) ==
  /\ At(j, "admitted") \/ At(j, "accepted")
  /\ "doubt" \in Outcomes
  /\ GivesUp(j)
  /\ UNCHANGED <<slot, count, elapsed, message>>

\* A timeout, a crash or an exception, before or after the provider took the request: the
\* slot is kept, and the job is retried (by mark_failed or the reaper) or dead-lettered.
EndInDoubt(j) ==
  /\ At(j, "admitted") \/ At(j, "accepted")
  /\ "doubt" \in Outcomes
  /\ GoesTo(j, "waiting")
  /\ UNCHANGED <<slot, count, elapsed, releasing, message>>

\* release: ZREM, some time after the transaction that gave the job up.
Release(j) ==
  /\ releasing[j] > 0
  /\ slot' = [slot EXCEPT ![j] = None]
  /\ releasing' = [releasing EXCEPT ![j] = @ - 1]
  /\ UNCHANGED <<count, elapsed, job, message>>

\* The worker dies first, Redis cannot be reached, or Postgres refunds nothing.
ReleaseLost(j) ==
  /\ releasing[j] > 0
  /\ releasing' = [releasing EXCEPT ![j] = @ - 1]
  /\ UNCHANGED <<slot, count, elapsed, job, message>>

-----------------------------------------------------------------------------
Init ==
  /\ slot = [j \in Jobs |-> None]
  /\ count = 0 /\ elapsed = 0
  /\ job = [j \in Jobs |-> [stage |-> "waiting", wait |-> 0]]
  /\ releasing = [j \in Jobs |-> 0]
  /\ message = [j \in Jobs |-> None]

Task(j) ==
  \/ AcquireRedis(j) \/ FallBack(j) \/ AcquirePostgres(j) \/ ReturnLimited(j)
  \/ Accept(j) \/ MarkSent(j)
  \/ ReturnUnsent(j) \/ MarkRejected(j) \/ EndInDoubt(j)

Next == Tick \/ \E j \in Jobs : Task(j) \/ Release(j) \/ ReleaseLost(j)

Spec == Init /\ [][Next]_vars

\* Time passes, tasks go on, a release ends one way or the other (Redis has timeouts), and
\* a job is not for ever put back unsent, rejected by its provider or left in doubt.
Fairness ==
  /\ WF_vars(Tick)
  /\ \A j \in Jobs : /\ WF_vars(Task(j)) /\ SF_vars(Accept(j)) /\ SF_vars(MarkSent(j))
                     /\ WF_vars(Release(j) \/ ReleaseLost(j))

FairSpec == Spec /\ Fairness

-----------------------------------------------------------------------------
(* Properties. *)

\* Two tasks never take the last slot both: at no time do more than Limit jobs hold one,
\* whatever claims, retries and releases overlap.
SlotsWithinLimit == Cardinality({j \in Jobs : slot[j] \in 0..(Window - 1)}) <= Limit

\* A refused job is told how long it takes until a slot is free, and not a tick more: when
\* the wait is over fewer than Limit of the slots it was refused for are left, and a tick
\* earlier there still were too many.
RefusalWaitIsExact ==
  [][\A j \in Jobs :
       At(j, "waiting") /\ At(j, "refused")' =>
         LET left(wait) == {k \in Jobs : slot[k] # None /\ slot[k] + wait < Window}
         IN /\ Cardinality(left(job'[j].wait)) < Limit
            /\ Cardinality(left(job'[j].wait - 1)) >= Limit]_vars

\* Every job gets its turn: the limit, lost releases and slots kept in doubt delay a
\* message, they never block a recipient.
EventuallySent == \A j \in Jobs : <>(At(j, "done"))

\* Messages to the recipient within any period of the window's length.
Recent == {j \in Jobs : message[j] \in 0..(Window - 1)}

\* A job asks for the last time within Window of taking its slot, and sends within SendTime
\* of that.  So the messages of one window come from slots taken in a period of
\* 2 * Window + SendTime - 1 ticks, and n windows that cover the period bound them: two if
\* a send takes at most a tick, three if it takes up to a window; likewise for the fixed
\* windows of Postgres.  What both limiters admit adds up.  No more comes of retries on kept
\* slots, of failures and of slow sends, as long as no late refund frees a slot in use.
SentWithinCoveringWindows ==
  \A n \in 0..(SendTime + 2) :
    n * Window >= 2 * Window + SendTime - 1 =>
      Cardinality(Recent) <= n * Limit * Cardinality(Backends)

\* DESIGN.md, section 5: "A sliding window never allows more than N in any window-length
\* period."  A job that is admitted again on the slot it holds sends when that slot is
\* about to expire: the slot's age says when the job first asked, not when it sends.
SentWithinLimit == Cardinality(Recent) <= Limit

\* "Only call this when the send definitely did not deliver": no slot is released that a
\* message still counts against.  The task that releases has committed the job's return
\* by then, and the next owner may have sent on the same slot.
ReleasedOnlyUnused ==
  [][\A j \in Jobs :
       releasing'[j] < releasing[j] /\ slot[j] \in 0..(Window - 1) /\ slot'[j] = None
       => message[j] = None \/ message[j] > slot[j]]_vars
=============================================================================
