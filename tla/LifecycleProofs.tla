-------------------------- MODULE LifecycleProofs --------------------------
(***************************************************************************)
(* DeliveryQueue implements JobLifecycle, and sent jobs stay as they are:  *)
(* what follows from the invariant of the tables about single steps.       *)
(***************************************************************************)
EXTENDS DeliveryQueueProofs

-----------------------------------------------------------------------------
(* The abstract moves, field by field. *)

LEMMA SameLife ==
  ASSUME NEW r \in Lifecycle!Life, NEW s \in Lifecycle!Life,
         r.phase = s.phase, r.tries = s.tries, r.cap = s.cap,
         r.delivered = s.delivered, r.parked = s.parked, r.announced = s.announced
  PROVE  r = s
PROOF BY DEF Lifecycle!Life

LEMMA AttemptedFields ==
  ASSUME NEW r \in Lifecycle!Life, NEW phase \in {"waiting", "sent", "dead"}
  PROVE  LET a == Lifecycle!Attempted(r, phase)
         IN /\ a \in Lifecycle!Life
            /\ a.phase = phase /\ a.tries = r.tries + 1 /\ a.cap = r.cap
            /\ a.delivered = r.delivered /\ a.parked = r.parked
            /\ a.announced = r.announced + 1
PROOF
  <1>1. r.tries + 1 \in Nat /\ r.announced + 1 \in Nat BY DEF Lifecycle!Life
  <1>2. QED BY <1>1 DEF Lifecycle!Life, Lifecycle!Attempted

\* Single fields of a life, as the moves set them.
LEMMA LifeUpdates ==
  ASSUME NEW r \in Lifecycle!Life
  PROVE  /\ LET a == [r EXCEPT !.delivered = TRUE]
            IN /\ a \in Lifecycle!Life /\ a.phase = r.phase /\ a.tries = r.tries
               /\ a.cap = r.cap /\ a.delivered = TRUE /\ a.parked = r.parked
               /\ a.announced = r.announced
         /\ LET a == [r EXCEPT !.parked = TRUE]
            IN /\ a \in Lifecycle!Life /\ a.phase = r.phase /\ a.tries = r.tries
               /\ a.cap = r.cap /\ a.delivered = r.delivered /\ a.parked = TRUE
               /\ a.announced = r.announced
         /\ \A phase \in {"waiting", "claimed"} :
              LET a == [r EXCEPT !.phase = phase]
              IN /\ a \in Lifecycle!Life /\ a.phase = phase /\ a.tries = r.tries
                 /\ a.cap = r.cap /\ a.delivered = r.delivered /\ a.parked = r.parked
                 /\ a.announced = r.announced
PROOF BY DEF Lifecycle!Life

LEMMA RevivedFields ==
  ASSUME NEW r \in Lifecycle!Life, NEW cap \in Nat
  PROVE  LET a == [r EXCEPT !.phase = "waiting", !.parked = FALSE, !.cap = cap]
         IN /\ a \in Lifecycle!Life /\ a.phase = "waiting" /\ a.tries = r.tries
            /\ a.cap = cap /\ a.delivered = r.delivered /\ a.parked = FALSE
            /\ a.announced = r.announced
PROOF BY DEF Lifecycle!Life

LEMMA NewLifeFields ==
  ASSUME NEW n \in Nat
  PROVE  LET a == [Lifecycle!Unknown EXCEPT !.phase = "waiting", !.cap = n]
         IN /\ Lifecycle!Unknown \in Lifecycle!Life /\ a \in Lifecycle!Life
            /\ a.phase = "waiting" /\ a.tries = 0 /\ a.cap = n
            /\ a.delivered = FALSE /\ a.parked = FALSE /\ a.announced = 0
PROOF BY DEF Lifecycle!Life, Lifecycle!Unknown

\* The life of a job is one, and its fields are what the tables say.
LifeAgrees(k) ==
  /\ LifeOf(k) \in Lifecycle!Life
  /\ LifeOf(k).phase = Phase[jobs[k].status]
  /\ LifeOf(k).tries = Len(job_attempts[k])
  /\ LifeOf(k).cap = jobs[k].max_attempts
  /\ LifeOf(k).delivered = (k \in deliveries)
  /\ LifeOf(k).parked = (k \in dead_letters)
  /\ LifeOf(k).announced = Len(webhook_outbox[k])
  /\ k \in deliveries => LifeOf(k).delivered = TRUE
  /\ k \notin deliveries => LifeOf(k).delivered = FALSE
  /\ k \in dead_letters => LifeOf(k).parked = TRUE
  /\ k \notin dead_letters => LifeOf(k).parked = FALSE

LEMMA LifeOfFields == TypeOK => \A k \in Jobs : LifeAgrees(k)
PROOF
  <1> SUFFICES ASSUME TypeOK, NEW k \in Jobs PROVE LifeAgrees(k) OBVIOUS
  <1>1. jobs[k].status \in Statuses \cup {"absent"} BY DEF TypeOK, Row
  <1>2. Phase[jobs[k].status] \in {"absent", "waiting", "claimed", "sent", "dead"}
    BY <1>1 DEF Phase, Statuses
  <1>3. /\ Len(job_attempts[k]) \in Nat /\ Len(webhook_outbox[k]) \in Nat
        /\ jobs[k].max_attempts \in Nat
    BY RowFacts
  <1>4. (k \in deliveries) \in BOOLEAN /\ (k \in dead_letters) \in BOOLEAN OBVIOUS
  <1>5. QED BY <1>2, <1>3, <1>4 DEF LifeOf, LifeAgrees, Lifecycle!Life

LEMMA LifeOfFieldsNext == TypeOK' => \A k \in Jobs : LifeAgrees(k)'
PROOF
  <1>1. (TypeOK => \A k \in Jobs : LifeAgrees(k))' BY LifeOfFields, PTL
  <1>2. QED BY <1>1

-----------------------------------------------------------------------------
(* Each move of a job in the tables is one move of its life, or none. *)

LEMMA LifeStep ==
  ASSUME TablesInv, TypeOK', NEW k \in Jobs, JobStep(k)
  PROVE  LifeOf(k)' = LifeOf(k) \/ Lifecycle!Move(LifeOf(k), LifeOf(k)')
PROOF
  <1> DEFINE old == LifeOf(k)
             new == LifeOf(k)'
  <1>1. TypeOK /\ JobInv(k) BY DEF TablesInv
  <1>2. /\ old \in Lifecycle!Life
        /\ old.phase = Phase[jobs[k].status] /\ old.tries = Len(job_attempts[k])
        /\ old.cap = jobs[k].max_attempts
        /\ old.delivered = (k \in deliveries) /\ old.parked = (k \in dead_letters)
        /\ old.announced = Len(webhook_outbox[k])
        /\ k \in deliveries => old.delivered = TRUE
        /\ k \notin deliveries => old.delivered = FALSE
        /\ k \in dead_letters => old.parked = TRUE
        /\ k \notin dead_letters => old.parked = FALSE
    BY <1>1, LifeOfFields DEF LifeAgrees
  <1>3. /\ new \in Lifecycle!Life
        /\ new.phase = Phase[jobs'[k].status] /\ new.tries = Len(job_attempts'[k])
        /\ new.cap = jobs'[k].max_attempts
        /\ new.delivered = (k \in deliveries') /\ new.parked = (k \in dead_letters')
        /\ new.announced = Len(webhook_outbox'[k])
        /\ k \in deliveries' => new.delivered = TRUE
        /\ k \notin deliveries' => new.delivered = FALSE
        /\ k \in dead_letters' => new.parked = TRUE
        /\ k \notin dead_letters' => new.parked = FALSE
    BY LifeOfFieldsNext DEF LifeAgrees
  <1>4. /\ jobs[k] \in Row /\ jobs[k].attempts \in Nat /\ jobs[k].max_attempts \in Nat
        /\ Len(job_attempts[k]) \in Nat /\ Len(webhook_outbox[k]) \in Nat
    BY <1>1, RowFacts
  <1>5. /\ Phase["absent"] = "absent" /\ Phase["pending"] = "waiting"
        /\ Phase["processing"] = "claimed" /\ Phase["sent"] = "sent"
        /\ Phase["dead_lettered"] = "dead"
    BY DEF Phase
  <1> HIDE DEF old, new
  <1>6. CASE JobRests(k)
    <2>1. jobs'[k].status = jobs[k].status /\ jobs'[k].max_attempts = jobs[k].max_attempts
      BY <1>1, <1>6, RestingRow
    <2>2. old = new
      BY <1>2, <1>3, <1>6, <2>1, SameLife DEF JobRests, SameHistory, SameLedger, SameParking
    <2>3. QED BY <2>2 DEF old, new
  <1>7. CASE JobCreated(k)
    <2>1. PICK n \in MaxAttempts :
            jobs'[k].status = "pending" /\ jobs'[k].max_attempts = n
      BY <1>7, NewRowFields DEF JobCreated
    <2>2. n \in Nat BY AttemptsAssumption
    <2>3. /\ jobs[k].max_attempts = 0 /\ Len(job_attempts[k]) = 0
          /\ k \notin deliveries /\ k \notin dead_letters /\ Len(webhook_outbox[k]) = 0
      BY <1>1, <1>7 DEF JobCreated, JobInv, Untouched, Numbered, LedgerMatches,
         ParkedMatches, EventsMatch
    <2>4. old = Lifecycle!Unknown
      <3>1. /\ Lifecycle!Unknown.phase = "absent" /\ Lifecycle!Unknown.tries = 0
            /\ Lifecycle!Unknown.cap = 0 /\ Lifecycle!Unknown.delivered = FALSE
            /\ Lifecycle!Unknown.parked = FALSE /\ Lifecycle!Unknown.announced = 0
        BY DEF Lifecycle!Unknown
      <3>2. /\ old.phase = "absent" /\ old.tries = 0 /\ old.cap = 0 /\ old.delivered = FALSE
            /\ old.parked = FALSE /\ old.announced = 0
        BY <1>2, <1>5, <1>7, <2>3 DEF JobCreated
      <3>3. Lifecycle!Unknown \in Lifecycle!Life BY <2>2, NewLifeFields
      <3>4. QED BY <1>2, <3>1, <3>2, <3>3, SameLife
    <2>5. new = [Lifecycle!Unknown EXCEPT !.phase = "waiting", !.cap = n]
      <3> DEFINE made == [Lifecycle!Unknown EXCEPT !.phase = "waiting", !.cap = n]
      <3>1. /\ made \in Lifecycle!Life /\ made.phase = "waiting" /\ made.tries = 0
            /\ made.cap = n /\ made.delivered = FALSE /\ made.parked = FALSE
            /\ made.announced = 0
        BY <2>2, NewLifeFields
      <3> HIDE DEF made
      <3>2. /\ new.phase = "waiting" /\ new.tries = 0 /\ new.cap = n /\ new.delivered = FALSE
            /\ new.parked = FALSE /\ new.announced = 0
        BY <1>3, <1>5, <1>7, <2>1, <2>3 DEF JobCreated, SameHistory, SameLedger, SameParking
      <3>3. new = made BY <1>3, <3>1, <3>2, SameLife
      <3>4. QED BY <3>3 DEF made
    <2>6. Lifecycle!Created(old, new) BY <2>4, <2>5 DEF Lifecycle!Created
    <2>7. QED BY <2>6 DEF Lifecycle!Move, old, new
  <1>8. CASE JobRequeued(k)
    <2>1. PICK extra \in ExtraAttempts :
            /\ jobs'[k].status = "pending"
            /\ jobs'[k].max_attempts = jobs[k].attempts + extra
      BY <1>4, <1>8, RequeuedRowFields DEF JobRequeued
    <2>2. /\ old.phase = "dead" /\ old.parked = TRUE /\ new.phase = "waiting"
          /\ new.tries = old.tries /\ new.delivered = old.delivered /\ new.parked = FALSE
          /\ new.announced = old.announced
      BY <1>1, <1>2, <1>3, <1>5, <1>8, <2>1
         DEF JobRequeued, SameHistory, SameLedger, JobInv, ParkedMatches
    <2>3. new.cap \in Nat /\ new.cap = old.tries + extra
      BY <1>1, <1>2, <1>3, <1>4, <1>8, <2>1, AttemptsAssumption
         DEF JobRequeued, JobInv, Numbered
    <2>4. new = [old EXCEPT !.phase = "waiting", !.parked = FALSE, !.cap = old.tries + extra]
      <3> DEFINE made == [old EXCEPT !.phase = "waiting", !.parked = FALSE,
                                     !.cap = old.tries + extra]
      <3>1. /\ made \in Lifecycle!Life /\ made.phase = "waiting" /\ made.tries = old.tries
            /\ made.cap = new.cap /\ made.delivered = old.delivered /\ made.parked = FALSE
            /\ made.announced = old.announced
        BY <1>2, <2>3, RevivedFields
      <3> HIDE DEF made
      <3>2. new = made BY <1>3, <2>2, <3>1, SameLife
      <3>3. QED BY <3>2 DEF made
    <2>5. Lifecycle!Revived(old, new) BY <2>2, <2>3, <2>4 DEF Lifecycle!Revived
    <2>6. QED BY <2>5 DEF Lifecycle!Move, old, new
  <1>9. CASE JobClaimed(k)
    <2>1. jobs'[k].status = "processing" /\ jobs'[k].max_attempts = jobs[k].max_attempts
      BY <1>4, <1>9, ClaimedRowFields DEF JobClaimed
    <2>2. /\ old.phase = "waiting" /\ new.phase = "claimed" /\ new.tries = old.tries
          /\ new.cap = old.cap /\ new.delivered = old.delivered /\ new.parked = old.parked
          /\ new.announced = old.announced
      BY <1>2, <1>3, <1>5, <1>9, <2>1 DEF JobClaimed, SameHistory, SameLedger, SameParking
    <2>3. old.tries < old.cap
      BY <1>1, <1>2, <1>9 DEF JobClaimed, JobInv, Numbered, Capped
    <2>4. new = [old EXCEPT !.phase = "claimed"]
      <3> DEFINE made == [old EXCEPT !.phase = "claimed"]
      <3>1. /\ made \in Lifecycle!Life /\ made.phase = "claimed" /\ made.tries = old.tries
            /\ made.cap = old.cap /\ made.delivered = old.delivered
            /\ made.parked = old.parked /\ made.announced = old.announced
        BY <1>2, LifeUpdates
      <3> HIDE DEF made
      <3>2. new = made BY <1>3, <2>2, <3>1, SameLife
      <3>3. QED BY <3>2 DEF made
    <2>5. Lifecycle!Claimed(old, new) BY <2>2, <2>3, <2>4 DEF Lifecycle!Claimed
    <2>6. QED BY <2>5 DEF Lifecycle!Move, old, new
  <1>10. CASE JobReturned(k)
    <2>1. jobs'[k].status = "pending" /\ jobs'[k].max_attempts = jobs[k].max_attempts
      BY <1>1, <1>10, ReturnedRowKeeps
    <2>2. /\ old.phase = "claimed" /\ new.phase = "waiting" /\ new.tries = old.tries
          /\ new.cap = old.cap /\ new.delivered = old.delivered /\ new.parked = old.parked
          /\ new.announced = old.announced
      BY <1>2, <1>3, <1>5, <1>10, <2>1 DEF JobReturned, SameHistory, SameLedger, SameParking
    <2>3. new = [old EXCEPT !.phase = "waiting"]
      <3> DEFINE made == [old EXCEPT !.phase = "waiting"]
      <3>1. /\ made \in Lifecycle!Life /\ made.phase = "waiting" /\ made.tries = old.tries
            /\ made.cap = old.cap /\ made.delivered = old.delivered
            /\ made.parked = old.parked /\ made.announced = old.announced
        BY <1>2, LifeUpdates
      <3> HIDE DEF made
      <3>2. new = made BY <1>3, <2>2, <3>1, SameLife
      <3>3. QED BY <3>2 DEF made
    <2>4. Lifecycle!GivenBack(old, new) BY <2>2, <2>3 DEF Lifecycle!GivenBack
    <2>5. QED BY <2>4 DEF Lifecycle!Move, old, new
  \* A recorded attempt counts one more try and one more event.
  <1>11. ASSUME NEW outcome, NEW error, NEW event, Recorded(k, outcome, error, event)
         PROVE  new.tries = old.tries + 1 /\ new.announced = old.announced + 1
    BY <1>1, <1>2, <1>3, <1>11, RecordedHistory
  <1>12. CASE JobSent(k)
    <2>1. jobs'[k].status = "sent" /\ jobs'[k].max_attempts = jobs[k].max_attempts
      BY <1>4, <1>12, SentRowFields DEF JobSent
    <2>2. /\ old.phase = "claimed" /\ old.delivered = FALSE
          /\ new.phase = "sent" /\ new.cap = old.cap /\ new.delivered = TRUE
          /\ new.parked = old.parked
          /\ new.tries = old.tries + 1 /\ new.announced = old.announced + 1
      BY <1>2, <1>3, <1>5, <1>11, <1>12, <2>1 DEF JobSent, SameParking
    <2>3. new = [Lifecycle!Attempted(old, "sent") EXCEPT !.delivered = TRUE]
      <3> DEFINE counted == Lifecycle!Attempted(old, "sent")
                 made == [counted EXCEPT !.delivered = TRUE]
      <3>1. /\ counted \in Lifecycle!Life /\ counted.phase = "sent"
            /\ counted.tries = old.tries + 1 /\ counted.cap = old.cap
            /\ counted.delivered = old.delivered /\ counted.parked = old.parked
            /\ counted.announced = old.announced + 1
        BY <1>2, AttemptedFields
      <3> HIDE DEF counted
      <3>2. /\ made \in Lifecycle!Life /\ made.phase = counted.phase
            /\ made.tries = counted.tries /\ made.cap = counted.cap
            /\ made.delivered = TRUE /\ made.parked = counted.parked
            /\ made.announced = counted.announced
        BY <3>1, LifeUpdates
      <3> HIDE DEF made
      <3>3. new = made BY <1>3, <2>2, <3>1, <3>2, SameLife
      <3>4. QED BY <3>3 DEF made, counted
    <2>4. Lifecycle!Sent(old, new) BY <2>2, <2>3 DEF Lifecycle!Sent
    <2>5. QED BY <2>4 DEF Lifecycle!Move, old, new
  <1>13. CASE JobFailed(k)
    <2>1. PICK dead \in BOOLEAN, error \in Errors, outcome \in {"failed", "lease_expired"} :
            /\ dead => jobs'[k].status = "dead_lettered"
            /\ ~dead => jobs'[k].status = "pending" /\ jobs[k].attempts < jobs[k].max_attempts
            /\ jobs'[k].max_attempts = jobs[k].max_attempts
            /\ dead => k \notin dead_letters
            /\ k \in dead_letters' <=> k \in dead_letters \/ dead
            /\ Recorded(k, outcome, error, FailureEvent(dead))
      BY <1>1, <1>13, FailedMove
    <2>2. /\ old.phase = "claimed" /\ new.cap = old.cap /\ new.delivered = old.delivered
          /\ new.tries = old.tries + 1 /\ new.announced = old.announced + 1
      BY <1>2, <1>3, <1>5, <1>11, <1>13, <2>1 DEF JobFailed, SameLedger
    <2>3. CASE dead
      <3>1. new.phase = "dead" /\ old.parked = FALSE /\ new.parked = TRUE
        BY <1>2, <1>3, <1>5, <2>1, <2>3
      <3>2. new = [Lifecycle!Attempted(old, "dead") EXCEPT !.parked = TRUE]
        <4> DEFINE counted == Lifecycle!Attempted(old, "dead")
                   made == [counted EXCEPT !.parked = TRUE]
        <4>1. /\ counted \in Lifecycle!Life /\ counted.phase = "dead"
              /\ counted.tries = old.tries + 1 /\ counted.cap = old.cap
              /\ counted.delivered = old.delivered /\ counted.parked = old.parked
              /\ counted.announced = old.announced + 1
          BY <1>2, AttemptedFields
        <4> HIDE DEF counted
        <4>2. /\ made \in Lifecycle!Life /\ made.phase = counted.phase
              /\ made.tries = counted.tries /\ made.cap = counted.cap
              /\ made.delivered = counted.delivered /\ made.parked = TRUE
              /\ made.announced = counted.announced
          BY <4>1, LifeUpdates
        <4> HIDE DEF made
        <4>3. new = made BY <1>3, <2>2, <3>1, <4>1, <4>2, SameLife
        <4>4. QED BY <4>3 DEF made, counted
      <3>3. Lifecycle!Buried(old, new) BY <2>2, <3>1, <3>2 DEF Lifecycle!Buried
      <3>4. QED BY <3>3 DEF Lifecycle!Move, old, new
    <2>4. CASE ~dead
      <3>1. new.phase = "waiting" /\ new.parked = old.parked
        BY <1>2, <1>3, <1>5, <2>1, <2>4
      <3>2. old.tries + 1 < old.cap
        BY <1>1, <1>2, <1>4, <1>13, <2>1, <2>4 DEF JobFailed, JobInv, Numbered
      <3>3. new = Lifecycle!Attempted(old, "waiting")
        <4> DEFINE made == Lifecycle!Attempted(old, "waiting")
        <4>1. /\ made \in Lifecycle!Life /\ made.phase = "waiting"
              /\ made.tries = old.tries + 1 /\ made.cap = old.cap
              /\ made.delivered = old.delivered /\ made.parked = old.parked
              /\ made.announced = old.announced + 1
          BY <1>2, AttemptedFields
        <4> HIDE DEF made
        <4>2. new = made BY <1>3, <2>2, <3>1, <4>1, SameLife
        <4>3. QED BY <4>2 DEF made
      <3>4. Lifecycle!Retried(old, new) BY <2>2, <3>2, <3>3 DEF Lifecycle!Retried
      <3>5. QED BY <3>4 DEF Lifecycle!Move, old, new
    <2>5. QED BY <2>3, <2>4
  <1>14. QED
    BY <1>6, <1>7, <1>8, <1>9, <1>10, <1>12, <1>13 DEF JobStep

-----------------------------------------------------------------------------

\* Every behaviour of the queue is, job by job, a behaviour of the design's lifecycle:
\* each transaction is one transition with all it must leave behind, or none.
THEOREM LifecycleImplemented == Spec => ImplementsLifecycle
PROOF
  <1> DEFINE life == [j \in Jobs |-> LifeOf(j)]
  <1>1. Init => Lifecycle!Init
    <2> SUFFICES ASSUME Init PROVE \A k \in Jobs : LifeOf(k) = Lifecycle!Unknown
      BY DEF Lifecycle!Init
    <2>1. ASSUME NEW k \in Jobs PROVE LifeOf(k) = Lifecycle!Unknown
      <3>1. /\ jobs[k] = NoRow /\ job_attempts[k] = <<>> /\ webhook_outbox[k] = <<>>
            /\ deliveries = {} /\ dead_letters = {}
        BY DEF Init
      <3>2. /\ NoRow.status = "absent" /\ NoRow.max_attempts = 0 /\ Phase["absent"] = "absent"
            /\ (k \in {}) = FALSE
        BY DEF NoRow, Phase
      <3>3. QED BY <3>1, <3>2 DEF LifeOf, Lifecycle!Unknown
    <2>2. QED BY <2>1
  <1>2. TablesInv /\ TablesInv' /\ [Next]_vars => [Lifecycle!Next]_life
    <2> SUFFICES ASSUME TablesInv, TablesInv', [Next]_vars PROVE Lifecycle!Next OBVIOUS
    <2>1. TypeOK /\ LocksHeld /\ TypeOK' BY DEF TablesInv
    <2>2. \A k \in Jobs : LifeOf(k)' = LifeOf(k) \/ Lifecycle!Move(LifeOf(k), LifeOf(k)')
      BY <2>1, JobSteps, LifeStep
    <2>3. \A k \in Jobs : LifeOf(k)' \in Lifecycle!Life
      BY <2>1, LifeOfFieldsNext DEF LifeAgrees
    <2>4. QED BY <2>2, <2>3 DEF Lifecycle!Next
  <1>3. QED
    BY <1>1, <1>2, TablesInvHolds, PTL DEF Spec, ImplementsLifecycle, Lifecycle!Spec

\* A sent job is final: no later step changes its row, its history or its events, and it
\* stays in the ledger.
THEOREM SentWorkIsFinal == Spec => SentIsFinal
PROOF
  <1> DEFINE Final == \A j \in Jobs :
               jobs[j].status = "sent" =>
                 UNCHANGED <<jobs[j], job_attempts[j], webhook_outbox[j]>> /\ j \in deliveries'
  <1>1. TablesInv /\ TablesInv' /\ [Next]_vars => Final
    <2> SUFFICES ASSUME TablesInv, TablesInv', [Next]_vars,
                        NEW j \in Jobs, jobs[j].status = "sent"
                 PROVE  /\ jobs'[j] = jobs[j] /\ job_attempts'[j] = job_attempts[j]
                        /\ webhook_outbox'[j] = webhook_outbox[j] /\ j \in deliveries'
      OBVIOUS
    <2>1. JobStep(j) BY JobSteps DEF TablesInv
    <2>2. JobRests(j)
      BY <2>1 DEF JobStep, JobCreated, JobRequeued, JobClaimed, JobReturned, JobSent, JobFailed
    <2>3. jobs'[j] = jobs[j] /\ SameHistory(j) BY <2>2 DEF JobRests
    <2>4. j \in deliveries
      BY DEF TablesInv, JobInv, LedgerMatches
    <2>5. QED BY <2>2, <2>3, <2>4 DEF JobRests, SameHistory, SameLedger
  <1> HIDE DEF Final
  <1>2. TablesInv /\ TablesInv' /\ [Next]_vars => [Final]_vars BY <1>1
  <1>3. Spec => [][Final]_vars BY <1>2, TablesInvHolds, PTL DEF Spec
  <1>4. QED BY <1>3 DEF SentIsFinal, Final
=============================================================================
