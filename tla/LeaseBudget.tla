---------------------------- MODULE LeaseBudget ----------------------------
(***************************************************************************)
(* The lease budget (worker/loop.py, config.py), with time explicit: one   *)
(* job, the claim loops that compete for it and the reaper.  A loop takes  *)
(* its deadline before it claims, and sends only if the lease has room for *)
(* the send, the wait for a connection and the recording of the result.    *)
(* The send ends within its timeout.  That the other two end within theirs *)
(* is taken for granted, as the design does: pool_timeout bounds the wait  *)
(* for a pooled connection but not the opening of a new one                *)
(* (db/session.py), and no statement has a timeout; the margin is there    *)
(* for both.  A process that is frozen (a paused VM) keeps no bound at     *)
(* all.                                                                    *)
(*                                                                         *)
(* Clocks of workers and database may differ, but run at the same rate:    *)
(* only differences of one clock's readings are used, so one clock, now,   *)
(* stands for all.                                                         *)
(***************************************************************************)
EXTENDS Integers

CONSTANTS
  Loops,         \* claim loops, over all worker processes
  NoLoop,        \* the job is not claimed
  LeaseSeconds,  \* settings.lease_seconds
  SendTimeout,   \* settings.send_timeout_seconds
  PoolTimeout,   \* settings.db_pool_timeout
  SafetyMargin,  \* settings.lease_safety_margin_seconds: covers the statements that record
  Horizon        \* bound on the clock (keeps the model finite)

\* Mutant: the wait for a connection is left out.
SendAndMargin == SendTimeout + SafetyMargin

\* Settings.send_budget_seconds.
SendBudget == SendTimeout + PoolTimeout + SafetyMargin

ASSUME LoopsAssumption == NoLoop \notin Loops
ASSUME SettingsAssumption ==
  /\ LeaseSeconds \in Nat /\ SendTimeout \in Nat /\ PoolTimeout \in Nat
  /\ SafetyMargin \in Nat /\ Horizon \in Nat
\* Settings._lease_fits_send_budget.
ASSUME ValidatorAssumption == SendTimeout + PoolTimeout + SafetyMargin < LeaseSeconds

VARIABLES
  now,     \* the clock
  row,     \* whose claim the job is under, and until when
  worker,  \* per loop: its stage, its deadline, when the stage began, if it froze in it
  frozen   \* loops whose process stands still

vars == <<now, row, worker, frozen>>

-----------------------------------------------------------------------------
Row == [owner : Loops \cup {NoLoop}, lease_expires_at : Nat]

\* run_batch: poll, claim, commit; _deliver: acquire, return, send, connect, record.
Stages == {"idle", "claim", "commit", "acquire", "return", "send", "connect", "record"}

Worker == [stage : Stages, deadline : Nat, since : Nat, froze : BOOLEAN]

Idle == [stage |-> "idle", deadline |-> 0, since |-> 0, froze |-> FALSE]

TypeOK ==
  /\ now \in Nat
  /\ row \in Row
  /\ worker \in [Loops -> Worker]
  /\ frozen \subseteq Loops

Free(expiry) == [owner |-> NoLoop, lease_expires_at |-> expiry]

-----------------------------------------------------------------------------
(* A claim loop.  A frozen one does nothing. *)

At(l, stage) == worker[l].stage = stage /\ l \notin frozen

Begin(l, stage) == worker' = [worker EXCEPT ![l] = [@ EXCEPT !.stage = stage, !.since = now]]

End(l) == worker' = [worker EXCEPT ![l] = Idle]

\* run_batch takes the deadline, then waits for a connection.
TakeDeadline(l) ==
  /\ At(l, "idle")
  /\ worker' = [worker EXCEPT ![l] =
                  [stage |-> "claim", deadline |-> now + LeaseSeconds, since |-> now,
                   froze |-> FALSE]]
  /\ UNCHANGED <<now, row, frozen>>

\* The claim transaction begins, which is its now(), and locks the pending row.
ClaimQuery(l) ==
  /\ At(l, "claim") /\ row.owner = NoLoop
  /\ \A m \in Loops : worker[m].stage # "commit"
  /\ Begin(l, "commit")
  /\ UNCHANGED <<now, row, frozen>>

\* Mutant: the deadline is counted from the answer to the claim.
ClaimCommitThenDeadline(l) ==
  /\ At(l, "commit")
  /\ row' = [owner |-> l, lease_expires_at |-> worker[l].since + LeaseSeconds]
  /\ worker' = [worker EXCEPT ![l] = [@ EXCEPT !.stage = "acquire", !.since = now,
                                               !.deadline = now + LeaseSeconds]]
  /\ UNCHANGED <<now, frozen>>

\* It commits: lease_expires_at = now() + lease_seconds.
ClaimCommit(l) ==
  /\ At(l, "commit")
  /\ row' = [owner |-> l, lease_expires_at |-> worker[l].since + LeaseSeconds]
  /\ Begin(l, "acquire")
  /\ UNCHANGED <<now, frozen>>

\* The rate limiter has answered no, or yes with too little of the lease left.
Return(l) ==
  /\ At(l, "acquire") /\ Begin(l, "return")
  /\ UNCHANGED <<now, row, frozen>>

\* It has answered yes and the budget fits: the send starts.
StartSend(l) ==
  /\ At(l, "acquire") /\ worker[l].deadline - now >= SendBudget
  /\ Begin(l, "send")
  /\ UNCHANGED <<now, row, frozen>>

\* The provider answers, or wait_for times out.
SendEnds(l) ==
  /\ At(l, "send") /\ Begin(l, "connect")
  /\ UNCHANGED <<now, row, frozen>>

\* A connection is free: mark_sent or mark_failed begins.
Connect(l) ==
  /\ At(l, "connect") /\ Begin(l, "record")
  /\ UNCHANGED <<now, row, frozen>>

\* Mutant: the fence compares the status only.
RecordUnfenced(l) ==
  /\ At(l, "record") \/ At(l, "return")
  /\ row' = Free(row.lease_expires_at)
  /\ End(l)
  /\ UNCHANGED <<now, frozen>>

\* mark_sent, mark_failed or return_to_queue: fenced.  The job may be due again at once.
Record(l) ==
  /\ At(l, "record") \/ At(l, "return")
  /\ row' = IF row.owner = l THEN Free(row.lease_expires_at) ELSE row
  /\ End(l)
  /\ UNCHANGED <<now, frozen>>

\* Nothing to claim, an exception (no connection in time), or the process dies: the row
\* stays as it is.
Fail(l) ==
  /\ worker[l].stage # "idle"
  /\ End(l)
  /\ frozen' = frozen \ {l}
  /\ UNCHANGED <<now, row>>

-----------------------------------------------------------------------------
(* Everything else. *)

\* reap_expired_leases.
Reap ==
  /\ row.owner # NoLoop /\ row.lease_expires_at < now
  /\ row' = Free(row.lease_expires_at)
  /\ UNCHANGED <<now, worker, frozen>>

Freeze(l) ==
  /\ l \notin frozen /\ worker[l].stage # "idle"
  /\ frozen' = frozen \cup {l}
  /\ worker' = [worker EXCEPT ![l].froze = TRUE]
  /\ UNCHANGED <<now, row>>

Thaw(l) ==
  /\ l \in frozen /\ frozen' = frozen \ {l}
  /\ UNCHANGED <<now, row, worker>>

\* How long a stage lasts at most, for those that have a bound.  Only the send's is enforced
\* by the code; the others are what its settings allow for.
Bound == [send |-> SendTimeout, connect |-> PoolTimeout, record |-> SafetyMargin]

Tick ==
  /\ now < Horizon
  /\ \A l \in Loops \ frozen :
       worker[l].stage \in {"send", "connect", "record"} =>
         now < worker[l].since + Bound[worker[l].stage]
  /\ now' = now + 1
  /\ UNCHANGED <<row, worker, frozen>>

-----------------------------------------------------------------------------
Init ==
  /\ now = 0
  /\ row = Free(0)
  /\ worker = [l \in Loops |-> Idle]
  /\ frozen = {}

Loop(l) ==
  \/ TakeDeadline(l) \/ ClaimQuery(l) \/ ClaimCommit(l)
  \/ Return(l) \/ StartSend(l) \/ SendEnds(l) \/ Connect(l) \/ Record(l)
  \/ Fail(l) \/ Freeze(l) \/ Thaw(l)

Next == (\E l \in Loops : Loop(l)) \/ Reap \/ Tick

Spec == Init /\ [][Next]_vars

-----------------------------------------------------------------------------
(* Safety. *)

\* "A send never outlives its claim": from the check to the recorded result the job is
\* under the worker's own claim and its lease runs, unless the process froze on the way;
\* so no one else can be sending it, and no result is lost to the fence.
SendInsideLease ==
  \A l \in Loops :
    worker[l].stage \in {"send", "connect", "record"} /\ ~worker[l].froze =>
      row.owner = l /\ now <= row.lease_expires_at

\* A send only starts under a claim whose lease runs, even after a freeze: what
\* DeliveryQueue takes for granted in the guard of its StartSend.
SendStartsUnderClaim ==
  [][\A l \in Loops :
       worker[l].stage = "acquire" /\ worker'[l].stage = "send" =>
         row.owner = l /\ now <= row.lease_expires_at]_vars

-----------------------------------------------------------------------------
\* The claim in the words of ClaimLease.  A loop that is not past the commit of a claim
\* works under none, though the row may still name it.
Claim == INSTANCE ClaimLease WITH
  Workers <- Loops,
  claimed <- row.owner # NoLoop,
  live <- row.owner # NoLoop /\ now <= row.lease_expires_at,
  owner <- {l \in Loops : row.owner = l /\ worker[l].stage \notin {"idle", "claim", "commit"}},
  sending <- {l \in Loops : worker[l].stage = "send"}

\* With clocks, deadlines and budgets, claims keep the same promise that DeliveryQueue
\* makes without: what its guard of StartSend supposes is what the budget achieves.
ImplementsClaimLease == Claim!Spec
=============================================================================
