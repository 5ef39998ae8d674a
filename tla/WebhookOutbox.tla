--------------------------- MODULE WebhookOutbox ---------------------------
(***************************************************************************)
(* The webhook outbox (repositories/webhooks.py), the dispatchers that     *)
(* deliver its events (worker/webhook_dispatcher.py) and the receiver's    *)
(* store (api/routes/mock.py).  DeliveryQueue's transactions put the       *)
(* events here.                                                            *)
(*                                                                         *)
(* A claim pushes next_attempt_at out as a lease, but no write checks it:  *)
(* the POST (connecting, writing and reading may each take                 *)
(* webhook_timeout_seconds) and the wait for a connection to record its    *)
(* result can outlast the 2 * webhook_timeout_seconds of the lease.  So a  *)
(* row may become due (BecomeDue) while a dispatch of it is under way, and *)
(* be claimed again by another dispatcher, or by the same one.             *)
(***************************************************************************)
EXTENDS Integers, FiniteSets

CONSTANTS
  Events,              \* ids of the events that may be put in the outbox
  Dispatches,          \* places for dispatches under way, over all dispatchers
  BatchSize,           \* settings.webhook_batch_size
  WebhookMaxAttempts   \* settings.webhook_max_attempts

ASSUME BatchAssumption == BatchSize \in Nat \ {0}
ASSUME AttemptsAssumption == WebhookMaxAttempts \in Nat \ {0}

VARIABLES
  webhook_outbox,  \* per event, its row
  receipts,        \* events the receiver has stored (mock_webhook_receipts)
  dispatch         \* per place, the _dispatch(event) that runs there

vars == <<webhook_outbox, receipts, dispatch>>

-----------------------------------------------------------------------------
\* Attempts are only compared with WebhookMaxAttempts: counting stops one above it.
AttemptCeiling == WebhookMaxAttempts + 1

Row == [status : {"absent", "pending", "delivered", "failed"}, due : BOOLEAN,
        attempts : 0..AttemptCeiling]

\* The claimed OutboxEvent is a snapshot: its id and the number of this attempt.
Dispatch == [stage : {"post", "answered", "succeeded", "failed"}, event : Events,
             attempts : 1..AttemptCeiling]
             \cup {[stage |-> "free"]}

Free == [stage |-> "free"]

TypeOK ==
  /\ webhook_outbox \in [Events -> Row]
  /\ receipts \subseteq Events
  /\ dispatch \in [Dispatches -> Dispatch]

-----------------------------------------------------------------------------
(* The outbox. *)

\* enqueue_webhook, inside the transaction of a job's status change.
Enqueue(e) ==
  /\ webhook_outbox[e].status = "absent"
  /\ webhook_outbox' = [webhook_outbox EXCEPT ![e].status = "pending", ![e].due = TRUE]
  /\ UNCHANGED <<receipts, dispatch>>

\* now() reaches next_attempt_at: a backoff or a lease is over.
BecomeDue(e) ==
  /\ webhook_outbox[e].status = "pending" /\ ~webhook_outbox[e].due
  /\ webhook_outbox' = [webhook_outbox EXCEPT ![e].due = TRUE]
  /\ UNCHANGED <<receipts, dispatch>>

\* Mutant: the status filter is missing.
DueInAnyStatus == {e \in Events : webhook_outbox[e].status # "absent" /\ webhook_outbox[e].due}

Due == {e \in Events : webhook_outbox[e].status = "pending" /\ webhook_outbox[e].due}

NextAttempt(n) == IF n < AttemptCeiling THEN n + 1 ELSE n

\* The batches a claim may return, each event with the place its dispatch starts in.
Batches == UNION {[P -> Events] : P \in SUBSET Dispatches}

\* claim_outbox_events: up to LIMIT due rows (SKIP LOCKED passes over rows that are
\* being written, so any of them), each dispatched at once.
ClaimOutboxEvents(batch) ==
  LET places == DOMAIN batch
      claimed == {batch[d] : d \in places}
  IN /\ places # {} /\ Cardinality(places) <= BatchSize
     /\ \A d \in places : dispatch[d] = Free /\ batch[d] \in Due
     /\ Cardinality(claimed) = Cardinality(places)
     /\ dispatch' = [d \in Dispatches |->
                       IF d \in places
                       THEN [stage |-> "post", event |-> batch[d],
                             attempts |-> NextAttempt(webhook_outbox[batch[d]].attempts)]
                       ELSE dispatch[d]]
     /\ webhook_outbox' = [e \in Events |->
                             IF e \in claimed
                             THEN [webhook_outbox[e] EXCEPT !.due = FALSE,
                                                            !.attempts = NextAttempt(@)]
                             ELSE webhook_outbox[e]]
     /\ UNCHANGED receipts

-----------------------------------------------------------------------------
(* One dispatch: POST the event, then record what came of it. *)

At(d, stage) == dispatch[d].stage = stage

MoveTo(d, stage) == dispatch' = [dispatch EXCEPT ![d].stage = stage]

End(d) == dispatch' = [dispatch EXCEPT ![d] = Free]

\* record_receipt: the receiver stores the event, once, and answers.
Receive(d) ==
  /\ At(d, "post") /\ MoveTo(d, "answered")
  /\ receipts' = receipts \cup {dispatch[d].event}
  /\ UNCHANGED webhook_outbox

\* Mutant: any answer counts, response.is_success is not checked.
PostAnswered(d) ==
  /\ At(d, "post") \/ At(d, "answered")
  /\ MoveTo(d, "succeeded")
  /\ UNCHANGED <<webhook_outbox, receipts>>

PostSucceeds(d) ==
  /\ At(d, "answered") /\ MoveTo(d, "succeeded")
  /\ UNCHANGED <<webhook_outbox, receipts>>

\* An error status before the event is stored; a transport error before or after.
PostFails(d) ==
  /\ At(d, "post") \/ At(d, "answered")
  /\ MoveTo(d, "failed")
  /\ UNCHANGED <<webhook_outbox, receipts>>

\* Where the result is written: WHERE id = :id, whatever has become of the row.
MarkDelivered(d) ==
  /\ At(d, "succeeded") /\ End(d)
  /\ webhook_outbox' = [webhook_outbox EXCEPT ![dispatch[d].event].status = "delivered"]
  /\ UNCHANGED receipts

\* Mutants: giving up at one number of attempts only; giving up one attempt early.
GivesUpOnce(d) == dispatch[d].attempts = WebhookMaxAttempts
GivesUpEarly(d) == dispatch[d].attempts + 1 >= WebhookMaxAttempts

GivesUp(d) == dispatch[d].attempts >= WebhookMaxAttempts

\* Mutant: the jobs' word for giving up, which the outbox does not know.
StatusOfJob(give_up) == IF give_up THEN "dead_lettered" ELSE "pending"

StatusAfterFailure(give_up) == IF give_up THEN "failed" ELSE "pending"

\* Gives up at once or waits for the backoff, which is never zero.
MarkAttemptFailed(d) ==
  LET e == dispatch[d].event IN
  /\ At(d, "failed") /\ End(d)
  /\ webhook_outbox' = [webhook_outbox EXCEPT
                          ![e].status = StatusAfterFailure(GivesUp(d)),
                          ![e].due = GivesUp(d)]
  /\ UNCHANGED receipts

\* The worker dies, or an exception other than httpx.HTTPError escapes: nothing is
\* recorded.  The other dispatches of the batch go on, and so does the dispatcher.
DispatchFails(d) ==
  /\ dispatch[d] # Free /\ End(d)
  /\ UNCHANGED <<webhook_outbox, receipts>>

-----------------------------------------------------------------------------
Init ==
  /\ webhook_outbox = [e \in Events |-> [status |-> "absent", due |-> FALSE, attempts |-> 0]]
  /\ receipts = {}
  /\ dispatch = [d \in Dispatches |-> Free]

Answer(d) == Receive(d) \/ PostFails(d)
Return(d) == PostSucceeds(d) \/ PostFails(d)
Record(d) == MarkDelivered(d) \/ MarkAttemptFailed(d)

Next ==
  \/ \E e \in Events : Enqueue(e) \/ BecomeDue(e)
  \/ \E batch \in Batches : ClaimOutboxEvents(batch)
  \/ \E d \in Dispatches : Answer(d) \/ Return(d) \/ Record(d) \/ DispatchFails(d)

Spec == Init /\ [][Next]_vars

\* Time passes, some dispatcher keeps polling, a POST that is tried again and again is
\* answered or times out, and its result gets recorded.
Fairness ==
  /\ \A e \in Events : /\ WF_vars(BecomeDue(e))
                       /\ SF_vars(\E batch \in Batches : /\ \E d \in DOMAIN batch : batch[d] = e
                                                         /\ ClaimOutboxEvents(batch))
  /\ \A d \in Dispatches : SF_vars(Answer(d)) /\ SF_vars(Return(d)) /\ SF_vars(Record(d))

FairSpec == Spec /\ Fairness

-----------------------------------------------------------------------------
(* Properties. *)

\* "An event is only marked delivered after a 2xx": through any overlap of dispatches, a
\* delivered event has reached its receiver.
DeliveredWasReceived ==
  \A e \in Events : webhook_outbox[e].status = "delivered" => e \in receipts

\* Nobody gives up early: a failed event was claimed WebhookMaxAttempts times, however
\* old the dispatch that gave up on it.
GivenUpAfterAllAttempts ==
  \A e \in Events :
    webhook_outbox[e].status = "failed" => webhook_outbox[e].attempts >= WebhookMaxAttempts

\* An event that is delivered or given up, with no dispatch of it left under way, is never
\* sent or changed again: unfenced writes reopen it only while claims of it overlap.
SettledStaysSettled ==
  [][\A e \in Events :
       /\ webhook_outbox[e].status \in {"delivered", "failed"}
       /\ \A d \in Dispatches : dispatch[d] # Free => dispatch[d].event # e
       => UNCHANGED webhook_outbox[e]]_vars

\* Every event is in the end delivered or given up for good, though dispatches die, POSTs
\* get lost and overlapping dispatches overwrite each other's results.
EventuallySettledForGood ==
  \A e \in Events : <>[](webhook_outbox[e].status # "pending")

\* DESIGN.md, section 7: "for up to 8 attempts, after which the outbox row is marked
\* failed".  Only a failure that gets recorded ends the retries: a dispatch that dies
\* after its claim does not, and its event is POSTed once more.
AtMostMaxAttempts ==
  \A e \in Events : webhook_outbox[e].attempts <= WebhookMaxAttempts
=============================================================================
