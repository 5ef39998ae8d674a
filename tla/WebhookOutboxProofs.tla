------------------------ MODULE WebhookOutboxProofs ------------------------
(***************************************************************************)
(* That overlapping, dying and unfenced dispatches never mark an event     *)
(* delivered that was not received, nor give one up early, nor touch a     *)
(* settled one they do not hold: for any events, dispatchers and settings. *)
(* And when the maximum of attempts, which they may exceed, is kept.       *)
(***************************************************************************)
EXTENDS WebhookOutbox, TLAPS

-----------------------------------------------------------------------------
(* The inductive invariant. *)

Stages == {"post", "answered", "succeeded", "failed"}

\* A dispatch, however old, knows of no attempt its row has not counted, and an answer it
\* has heard came from a receiver that stored the event.
SnapshotRight(d) ==
  LET c == dispatch[d] IN
  c.stage # "free" =>
    /\ c.attempts <= webhook_outbox[c.event].attempts
    /\ c.stage \in {"answered", "succeeded"} => c.event \in receipts

OutboxInv ==
  /\ TypeOK
  /\ DeliveredWasReceived
  /\ GivenUpAfterAllAttempts
  /\ \A d \in Dispatches : SnapshotRight(d)

-----------------------------------------------------------------------------
(* Data: what each update writes and what it leaves alone. *)

LEMMA CeilingFields ==
  /\ WebhookMaxAttempts \in Nat /\ AttemptCeiling \in Nat
  /\ AttemptCeiling = WebhookMaxAttempts + 1 /\ WebhookMaxAttempts > 0
PROOF BY AttemptsAssumption DEF AttemptCeiling

LEMMA RowFields ==
  ASSUME NEW row \in Row
  PROVE  /\ row.status \in {"absent", "pending", "delivered", "failed"}
         /\ row.due \in BOOLEAN /\ row.attempts \in 0..AttemptCeiling
PROOF BY DEF Row

LEMMA DispatchFields ==
  ASSUME NEW c \in Dispatch
  PROVE  /\ c = Free <=> c.stage = "free"
         /\ c # Free => /\ c.stage \in Stages /\ c.event \in Events
                        /\ c.attempts \in 1..AttemptCeiling
PROOF
  <1>1. CASE c = Free BY <1>1 DEF Free
  <1>2. CASE c # Free
    <2>1. c \in [stage : Stages, event : Events, attempts : 1..AttemptCeiling]
      BY <1>2 DEF Dispatch, Free, Stages
    <2>2. c.stage \in Stages /\ c.event \in Events /\ c.attempts \in 1..AttemptCeiling
      BY <2>1
    <2>3. c.stage # "free" BY <2>2 DEF Stages
    <2>4. QED BY <1>2, <2>2, <2>3
  <1>3. QED BY <1>1, <1>2

LEMMA StartedFields ==
  ASSUME NEW s \in Stages, NEW e \in Events, NEW n \in 1..AttemptCeiling
  PROVE  LET c == [stage |-> s, event |-> e, attempts |-> n] IN
         c \in Dispatch /\ c.stage = s /\ c.event = e /\ c.attempts = n
PROOF BY DEF Dispatch, Stages

LEMMA NextAttemptFields ==
  ASSUME NEW n \in 0..AttemptCeiling
  PROVE  NextAttempt(n) \in 1..AttemptCeiling /\ NextAttempt(n) >= n
PROOF BY CeilingFields DEF NextAttempt

\* A dispatch that goes on keeps its event and its attempt.
LEMMA Moved ==
  ASSUME TypeOK, NEW d \in Dispatches, dispatch[d].stage # "free", NEW s \in Stages,
         MoveTo(d, s)
  PROVE  /\ dispatch' \in [Dispatches -> Dispatch]
         /\ dispatch'[d].stage = s /\ dispatch'[d].event = dispatch[d].event
         /\ dispatch'[d].attempts = dispatch[d].attempts
         /\ \A c \in Dispatches : c # d => dispatch'[c] = dispatch[c]
PROOF
  <1>1. dispatch \in [Dispatches -> Dispatch] BY DEF TypeOK
  <1>2. dispatch[d] # Free BY <1>1, DispatchFields
  <1>3. dispatch[d] \in [stage : Stages, event : Events, attempts : 1..AttemptCeiling]
    BY <1>1, <1>2 DEF Dispatch, Free, Stages
  <1> DEFINE n == [dispatch[d] EXCEPT !.stage = s]
  <1>4. /\ n \in Dispatch /\ n.stage = s /\ n.event = dispatch[d].event
        /\ n.attempts = dispatch[d].attempts
    BY <1>3 DEF Dispatch, Stages
  <1>5. dispatch' = [dispatch EXCEPT ![d] = n] BY DEF MoveTo
  <1> HIDE DEF n
  <1>6. QED BY <1>1, <1>4, <1>5

LEMMA Ended ==
  ASSUME TypeOK, NEW d \in Dispatches, End(d)
  PROVE  /\ dispatch' \in [Dispatches -> Dispatch] /\ dispatch'[d].stage = "free"
         /\ \A c \in Dispatches : c # d => dispatch'[c] = dispatch[c]
PROOF
  <1>1. dispatch \in [Dispatches -> Dispatch] BY DEF TypeOK
  <1>2. Free \in Dispatch /\ Free.stage = "free" BY DEF Dispatch, Free
  <1>3. dispatch' = [dispatch EXCEPT ![d] = Free] BY DEF End
  <1>4. QED BY <1>1, <1>2, <1>3

\* A write of a row's status and lease leaves its attempts and the other rows alone.
LEMMA Written ==
  ASSUME TypeOK, NEW e \in Events, NEW due \in BOOLEAN,
         NEW status \in {"absent", "pending", "delivered", "failed"},
         webhook_outbox' = [webhook_outbox EXCEPT ![e].status = status, ![e].due = due]
  PROVE  /\ webhook_outbox' \in [Events -> Row]
         /\ webhook_outbox'[e].status = status
         /\ \A f \in Events : webhook_outbox'[f].attempts = webhook_outbox[f].attempts
         /\ \A f \in Events : f # e => webhook_outbox'[f] = webhook_outbox[f]
PROOF
  <1>1. webhook_outbox \in [Events -> Row] BY DEF TypeOK
  <1> DEFINE row == [webhook_outbox[e] EXCEPT !.status = status, !.due = due]
  <1>2. /\ row \in Row /\ row.status = status
        /\ row.attempts = webhook_outbox[e].attempts
    BY <1>1 DEF Row
  <1>3. webhook_outbox' = [webhook_outbox EXCEPT ![e] = row] BY <1>1 DEF Row
  <1> HIDE DEF row
  <1>4. QED BY <1>1, <1>2, <1>3

-----------------------------------------------------------------------------
(* Every step preserves the invariant: the rows, then the dispatches. *)

LEMMA InitInv == Init => OutboxInv
PROOF
  <1> SUFFICES ASSUME Init PROVE OutboxInv OBVIOUS
  <1> DEFINE row == [status |-> "absent", due |-> FALSE, attempts |-> 0]
  <1>1. row \in Row /\ row.status = "absent" BY CeilingFields DEF Row
  <1>2. Free \in Dispatch /\ Free.stage = "free" BY DEF Dispatch, Free
  <1>3. /\ webhook_outbox = [e \in Events |-> row] /\ receipts = {}
        /\ dispatch = [d \in Dispatches |-> Free]
    BY DEF Init
  <1> HIDE DEF row
  <1>4. TypeOK BY <1>1, <1>2, <1>3 DEF TypeOK
  <1>5. \A e \in Events : webhook_outbox[e].status = "absent" BY <1>1, <1>3
  <1>6. DeliveredWasReceived /\ GivenUpAfterAllAttempts
    BY <1>5 DEF DeliveredWasReceived, GivenUpAfterAllAttempts
  <1>7. \A d \in Dispatches : SnapshotRight(d) BY <1>2, <1>3 DEF SnapshotRight
  <1>8. QED BY <1>4, <1>6, <1>7 DEF OutboxInv

\* A write that is no result: nobody's snapshot is disturbed.
LEMMA RowInv ==
  ASSUME OutboxInv, NEW e \in Events, webhook_outbox' \in [Events -> Row],
         webhook_outbox'[e].status \in {"absent", "pending"},
         \A f \in Events : webhook_outbox'[f].attempts = webhook_outbox[f].attempts,
         \A f \in Events : f # e => webhook_outbox'[f] = webhook_outbox[f],
         UNCHANGED <<receipts, dispatch>>
  PROVE  OutboxInv'
PROOF
  <1>1. TypeOK' BY DEF OutboxInv, TypeOK
  <1>2. DeliveredWasReceived' BY DEF OutboxInv, DeliveredWasReceived
  <1>3. GivenUpAfterAllAttempts' BY DEF OutboxInv, GivenUpAfterAllAttempts
  <1>4. ASSUME NEW d \in Dispatches, dispatch[d].stage # "free"
        PROVE  dispatch[d].event \in Events
    BY <1>4, DispatchFields DEF OutboxInv, TypeOK
  <1>5. \A d \in Dispatches : SnapshotRight(d)' BY <1>4 DEF OutboxInv, SnapshotRight
  <1>6. QED BY <1>1, <1>2, <1>3, <1>5 DEF OutboxInv

LEMMA EnqueueInv == ASSUME OutboxInv, NEW e \in Events, Enqueue(e) PROVE OutboxInv'
PROOF
  <1>1. /\ webhook_outbox' = [webhook_outbox EXCEPT ![e].status = "pending", ![e].due = TRUE]
        /\ UNCHANGED <<receipts, dispatch>> /\ TypeOK
    BY DEF Enqueue, OutboxInv
  <1>2. QED BY <1>1, Written, RowInv

LEMMA BecomeDueInv == ASSUME OutboxInv, NEW e \in Events, BecomeDue(e) PROVE OutboxInv'
PROOF
  <1>1. /\ webhook_outbox' = [webhook_outbox EXCEPT ![e].due = TRUE]
        /\ webhook_outbox[e].status = "pending"
        /\ UNCHANGED <<receipts, dispatch>> /\ TypeOK
    BY DEF BecomeDue, OutboxInv
  <1>2. webhook_outbox' = [webhook_outbox EXCEPT ![e].status = "pending", ![e].due = TRUE]
    BY <1>1 DEF TypeOK, Row
  <1>3. QED BY <1>1, <1>2, Written, RowInv

\* A claim counts its attempt in the row and in the snapshot.
LEMMA ClaimEffect ==
  ASSUME TypeOK, NEW batch \in Batches, ClaimOutboxEvents(batch)
  PROVE  /\ webhook_outbox' \in [Events -> Row] /\ dispatch' \in [Dispatches -> Dispatch]
         /\ receipts' = receipts
         /\ \A e \in Events : /\ webhook_outbox'[e].status = webhook_outbox[e].status
                              /\ webhook_outbox'[e].attempts >= webhook_outbox[e].attempts
                              /\ webhook_outbox[e].status # "pending" =>
                                   webhook_outbox'[e] = webhook_outbox[e]
         /\ \A d \in Dispatches :
              \/ dispatch'[d] = dispatch[d]
              \/ /\ dispatch'[d].stage = "post" /\ dispatch'[d].event \in Events
                 /\ dispatch'[d].attempts = webhook_outbox'[dispatch'[d].event].attempts
PROOF
  <1> DEFINE places == DOMAIN batch
             claimed == {batch[d] : d \in places}
             Claimed(e) == [webhook_outbox[e] EXCEPT !.due = FALSE,
                                                     !.attempts = NextAttempt(@)]
             Started(d) == [stage |-> "post", event |-> batch[d],
                            attempts |-> NextAttempt(webhook_outbox[batch[d]].attempts)]
  <1>1. webhook_outbox \in [Events -> Row] /\ dispatch \in [Dispatches -> Dispatch]
    BY DEF TypeOK
  <1>2. /\ \A d \in places : batch[d] \in Due
        /\ dispatch' = [d \in Dispatches |-> IF d \in places THEN Started(d) ELSE dispatch[d]]
        /\ webhook_outbox' = [e \in Events |-> IF e \in claimed THEN Claimed(e)
                                                                ELSE webhook_outbox[e]]
        /\ receipts' = receipts
    BY DEF ClaimOutboxEvents
  <1>3. \A d \in places : batch[d] \in Events /\ webhook_outbox[batch[d]].status = "pending"
    BY <1>2 DEF Due
  <1>4. ASSUME NEW e \in Events
        PROVE  /\ Claimed(e) \in Row /\ Claimed(e).status = webhook_outbox[e].status
               /\ Claimed(e).attempts = NextAttempt(webhook_outbox[e].attempts)
               /\ NextAttempt(webhook_outbox[e].attempts) >= webhook_outbox[e].attempts
               /\ NextAttempt(webhook_outbox[e].attempts) \in 1..AttemptCeiling
    <2>1. webhook_outbox[e] \in Row /\ webhook_outbox[e].attempts \in 0..AttemptCeiling
      BY <1>1, RowFields
    <2>2. /\ NextAttempt(webhook_outbox[e].attempts) \in 1..AttemptCeiling
          /\ NextAttempt(webhook_outbox[e].attempts) >= webhook_outbox[e].attempts
      BY <2>1, NextAttemptFields
    <2> DEFINE n == NextAttempt(webhook_outbox[e].attempts)
    <2> HIDE DEF n
    <2>3. n \in 0..AttemptCeiling BY <2>2 DEF n
    <2>4. Claimed(e) = [webhook_outbox[e] EXCEPT !.due = FALSE, !.attempts = n]
      BY <2>1 DEF n, Row
    <2>5. Claimed(e) \in Row /\ Claimed(e).status = webhook_outbox[e].status
          /\ Claimed(e).attempts = n
      BY <2>1, <2>3, <2>4 DEF Row
    <2>6. QED BY <2>2, <2>5 DEF n
  <1>5. ASSUME NEW d \in places
        PROVE  /\ Started(d) \in Dispatch /\ Started(d).stage = "post"
               /\ Started(d).event = batch[d]
               /\ Started(d).attempts = NextAttempt(webhook_outbox[batch[d]].attempts)
    BY <1>3, <1>4, StartedFields DEF Stages
  <1> HIDE DEF Claimed, Started
  <1>6. ASSUME NEW e \in Events
        PROVE  /\ webhook_outbox'[e] \in Row
               /\ webhook_outbox'[e].status = webhook_outbox[e].status
               /\ webhook_outbox'[e].attempts >= webhook_outbox[e].attempts
               /\ webhook_outbox[e].status # "pending" => webhook_outbox'[e] = webhook_outbox[e]
    <2>1. CASE e \in claimed BY <1>2, <1>3, <1>4, <2>1
    <2>2. CASE e \notin claimed
      BY <1>1, <1>2, <2>2, RowFields, CeilingFields
    <2>3. QED BY <2>1, <2>2
  <1>7. ASSUME NEW d \in Dispatches
        PROVE  /\ dispatch'[d] \in Dispatch
               /\ \/ dispatch'[d] = dispatch[d]
                  \/ /\ dispatch'[d].stage = "post" /\ dispatch'[d].event \in Events
                     /\ dispatch'[d].attempts = webhook_outbox'[dispatch'[d].event].attempts
    <2>1. CASE d \in places
      <3>1. dispatch'[d] = Started(d) BY <1>2, <2>1
      <3>2. batch[d] \in Events /\ batch[d] \in claimed BY <1>3, <2>1
      <3>3. webhook_outbox'[batch[d]] = Claimed(batch[d]) BY <1>2, <3>2
      <3>4. QED BY <1>4, <1>5, <2>1, <3>1, <3>2, <3>3
    <2>2. CASE d \notin places BY <1>1, <1>2, <2>2
    <2>3. QED BY <2>1, <2>2
  <1>8. webhook_outbox' \in [Events -> Row] BY <1>2, <1>6
  <1>9. dispatch' \in [Dispatches -> Dispatch] BY <1>2, <1>7
  <1>10. QED BY <1>2, <1>6, <1>7, <1>8, <1>9

LEMMA ClaimInv ==
  ASSUME OutboxInv, NEW batch \in Batches, ClaimOutboxEvents(batch) PROVE OutboxInv'
PROOF
  <1>1. TypeOK BY DEF OutboxInv
  <1>2. TypeOK' BY <1>1, ClaimEffect DEF TypeOK
  <1>3. DeliveredWasReceived'
    BY <1>1, ClaimEffect DEF OutboxInv, DeliveredWasReceived
  <1>4. ASSUME NEW e \in Events
        PROVE  /\ webhook_outbox[e].attempts \in Nat /\ webhook_outbox'[e].attempts \in Nat
               /\ webhook_outbox'[e].status = webhook_outbox[e].status
               /\ webhook_outbox'[e].attempts >= webhook_outbox[e].attempts
    <2>1. webhook_outbox[e] \in Row /\ webhook_outbox'[e] \in Row
      BY <1>1, <1>2 DEF TypeOK
    <2>2. QED BY <1>1, <2>1, ClaimEffect, RowFields, CeilingFields
  <1>5. GivenUpAfterAllAttempts'
    BY <1>4, CeilingFields DEF OutboxInv, GivenUpAfterAllAttempts
  <1>6. ASSUME NEW d \in Dispatches, dispatch'[d].stage # "free" PROVE SnapshotRight(d)'
    <2>1. CASE dispatch'[d] = dispatch[d]
      <3>1. dispatch[d] \in Dispatch BY <1>1 DEF TypeOK
      <3>2. dispatch[d].event \in Events /\ dispatch[d].attempts \in 1..AttemptCeiling
        BY <1>6, <2>1, <3>1, DispatchFields
      <3>3. SnapshotRight(d) /\ receipts' = receipts BY <1>1, ClaimEffect DEF OutboxInv
      <3>4. QED BY <1>4, <1>6, <2>1, <3>2, <3>3, CeilingFields DEF SnapshotRight
    <2>2. CASE /\ dispatch'[d].stage = "post" /\ dispatch'[d].event \in Events
               /\ dispatch'[d].attempts = webhook_outbox'[dispatch'[d].event].attempts
      BY <1>4, <2>2 DEF SnapshotRight
    <2>3. QED BY <1>1, <2>1, <2>2, ClaimEffect
  <1>7. \A d \in Dispatches : SnapshotRight(d)' BY <1>6 DEF SnapshotRight
  <1>8. QED BY <1>2, <1>3, <1>5, <1>7 DEF OutboxInv

\* A step of one dispatch that leaves the rows alone.
LEMMA DispatchInv ==
  ASSUME OutboxInv, NEW d \in Dispatches, dispatch' \in [Dispatches -> Dispatch],
         \A c \in Dispatches : c # d => dispatch'[c] = dispatch[c],
         webhook_outbox' = webhook_outbox, receipts \subseteq receipts', receipts' \subseteq Events,
         SnapshotRight(d)'
  PROVE  OutboxInv'
PROOF
  <1>1. TypeOK' BY DEF OutboxInv, TypeOK
  <1>2. DeliveredWasReceived' BY DEF OutboxInv, DeliveredWasReceived
  <1>3. GivenUpAfterAllAttempts' BY DEF OutboxInv, GivenUpAfterAllAttempts
  <1>4. \A c \in Dispatches : SnapshotRight(c)' BY DEF OutboxInv, SnapshotRight
  <1>5. QED BY <1>1, <1>2, <1>3, <1>4 DEF OutboxInv

LEMMA PostInv ==
  ASSUME OutboxInv, NEW d \in Dispatches,
         Receive(d) \/ PostSucceeds(d) \/ PostFails(d) \/ DispatchFails(d)
  PROVE  OutboxInv'
PROOF
  <1>1. /\ TypeOK /\ SnapshotRight(d) /\ dispatch[d] \in Dispatch /\ receipts \subseteq Events
    BY DEF OutboxInv, TypeOK
  <1>2. CASE Receive(d)
    <2>1. /\ dispatch[d].stage = "post" /\ MoveTo(d, "answered")
          /\ receipts' = receipts \cup {dispatch[d].event} /\ webhook_outbox' = webhook_outbox
      BY <1>2 DEF Receive, At
    <2>2. dispatch[d].event \in Events BY <1>1, <2>1, DispatchFields
    <2>3. /\ dispatch' \in [Dispatches -> Dispatch]
          /\ dispatch'[d].event = dispatch[d].event
          /\ dispatch'[d].attempts = dispatch[d].attempts
          /\ \A c \in Dispatches : c # d => dispatch'[c] = dispatch[c]
      BY <1>1, <2>1, Moved DEF Stages
    <2>4. SnapshotRight(d)' BY <1>1, <2>1, <2>3 DEF SnapshotRight
    <2>5. QED BY <1>1, <2>1, <2>2, <2>3, <2>4, DispatchInv
  <1>3. CASE PostSucceeds(d)
    <2>1. /\ dispatch[d].stage = "answered" /\ MoveTo(d, "succeeded")
          /\ receipts' = receipts /\ webhook_outbox' = webhook_outbox
      BY <1>3 DEF PostSucceeds, At
    <2>2. /\ dispatch' \in [Dispatches -> Dispatch]
          /\ dispatch'[d].event = dispatch[d].event
          /\ dispatch'[d].attempts = dispatch[d].attempts
          /\ \A c \in Dispatches : c # d => dispatch'[c] = dispatch[c]
      BY <1>1, <2>1, Moved DEF Stages
    <2>3. SnapshotRight(d)' BY <1>1, <2>1, <2>2 DEF SnapshotRight
    <2>4. QED BY <1>1, <2>1, <2>2, <2>3, DispatchInv
  <1>4. CASE PostFails(d)
    <2>1. /\ dispatch[d].stage # "free" /\ MoveTo(d, "failed")
          /\ receipts' = receipts /\ webhook_outbox' = webhook_outbox
      BY <1>4 DEF PostFails, At
    <2>2. /\ dispatch' \in [Dispatches -> Dispatch] /\ dispatch'[d].stage = "failed"
          /\ dispatch'[d].event = dispatch[d].event
          /\ dispatch'[d].attempts = dispatch[d].attempts
          /\ \A c \in Dispatches : c # d => dispatch'[c] = dispatch[c]
      BY <1>1, <2>1, Moved DEF Stages
    <2>3. SnapshotRight(d)' BY <1>1, <2>1, <2>2 DEF SnapshotRight
    <2>4. QED BY <1>1, <2>1, <2>2, <2>3, DispatchInv
  <1>5. CASE DispatchFails(d)
    <2>1. End(d) /\ receipts' = receipts /\ webhook_outbox' = webhook_outbox
      BY <1>5 DEF DispatchFails
    <2>2. /\ dispatch' \in [Dispatches -> Dispatch] /\ dispatch'[d].stage = "free"
          /\ \A c \in Dispatches : c # d => dispatch'[c] = dispatch[c]
      BY <1>1, <2>1, Ended
    <2>3. SnapshotRight(d)' BY <2>2 DEF SnapshotRight
    <2>4. QED BY <1>1, <2>1, <2>2, <2>3, DispatchInv
  <1>6. QED BY <1>2, <1>3, <1>4, <1>5

\* What either way of recording a result writes.
LEMMA RecordEffect ==
  ASSUME TypeOK, NEW d \in Dispatches, Record(d)
  PROVE  LET e == dispatch[d].event IN
         /\ e \in Events /\ dispatch[d].attempts \in 1..AttemptCeiling
         /\ webhook_outbox' \in [Events -> Row]
         /\ \/ dispatch[d].stage = "succeeded" /\ webhook_outbox'[e].status = "delivered"
            \/ /\ dispatch[d].stage = "failed"
               /\ webhook_outbox'[e].status = StatusAfterFailure(GivesUp(d))
         /\ \A f \in Events : webhook_outbox'[f].attempts = webhook_outbox[f].attempts
         /\ \A f \in Events : f # e => webhook_outbox'[f] = webhook_outbox[f]
         /\ receipts' = receipts /\ End(d)
PROOF
  <1> DEFINE e == dispatch[d].event
  <1>1. dispatch[d] \in Dispatch /\ webhook_outbox \in [Events -> Row] BY DEF TypeOK
  <1>2. dispatch[d].stage # "free"
    BY DEF Record, MarkDelivered, MarkAttemptFailed, At
  <1>3. e \in Events /\ dispatch[d].attempts \in 1..AttemptCeiling
    BY <1>1, <1>2, DispatchFields
  <1> HIDE DEF e
  <1>4. CASE MarkDelivered(d)
    <2>1. /\ dispatch[d].stage = "succeeded" /\ receipts' = receipts /\ End(d)
          /\ webhook_outbox' = [webhook_outbox EXCEPT ![e].status = "delivered"]
      BY <1>4 DEF MarkDelivered, At, e
    <2> DEFINE due == webhook_outbox[e].due
    <2>2. due \in BOOLEAN BY <1>1, <1>3, RowFields
    <2>3. webhook_outbox' = [webhook_outbox EXCEPT ![e].status = "delivered", ![e].due = due]
      BY <1>1, <1>3, <2>1 DEF Row
    <2> HIDE DEF due
    <2>4. QED BY <1>3, <2>1, <2>2, <2>3, Written DEF e
  <1>5. CASE MarkAttemptFailed(d)
    <2> DEFINE give_up == GivesUp(d)
    <2>1. /\ dispatch[d].stage = "failed" /\ receipts' = receipts /\ End(d)
          /\ webhook_outbox' = [webhook_outbox EXCEPT
                                  ![e].status = StatusAfterFailure(give_up),
                                  ![e].due = give_up]
      BY <1>5 DEF MarkAttemptFailed, At, e
    <2>2. give_up \in BOOLEAN BY DEF GivesUp
    <2> HIDE DEF give_up
    <2>3. StatusAfterFailure(give_up) \in {"pending", "failed"} BY DEF StatusAfterFailure
    <2>4. QED BY <1>3, <2>1, <2>2, <2>3, Written DEF e, give_up
  <1>6. QED BY <1>4, <1>5 DEF Record

\* The receipt and the attempts a result speaks of were there before it.
LEMMA RecordInv == ASSUME OutboxInv, NEW d \in Dispatches, Record(d) PROVE OutboxInv'
PROOF
  <1> DEFINE e == dispatch[d].event
  <1>1. TypeOK /\ SnapshotRight(d) BY DEF OutboxInv
  <1>2. /\ e \in Events /\ dispatch[d].attempts \in 1..AttemptCeiling
        /\ webhook_outbox' \in [Events -> Row]
        /\ \/ dispatch[d].stage = "succeeded" /\ webhook_outbox'[e].status = "delivered"
           \/ /\ dispatch[d].stage = "failed"
              /\ webhook_outbox'[e].status = StatusAfterFailure(GivesUp(d))
        /\ \A f \in Events : webhook_outbox'[f].attempts = webhook_outbox[f].attempts
        /\ \A f \in Events : f # e => webhook_outbox'[f] = webhook_outbox[f]
        /\ receipts' = receipts /\ End(d)
    BY <1>1, RecordEffect
  <1>3. /\ dispatch' \in [Dispatches -> Dispatch] /\ dispatch'[d].stage = "free"
        /\ \A c \in Dispatches : c # d => dispatch'[c] = dispatch[c]
    BY <1>1, <1>2, Ended
  <1>4. TypeOK' BY <1>1, <1>2, <1>3 DEF TypeOK
  <1>5. /\ dispatch[d].attempts <= webhook_outbox[e].attempts
        /\ dispatch[d].stage = "succeeded" => e \in receipts
    BY <1>1, <1>2 DEF SnapshotRight
  <1>6. webhook_outbox'[e].status = "delivered" => e \in receipts
    BY <1>2, <1>5 DEF StatusAfterFailure
  <1>7. webhook_outbox[e].attempts \in Nat
    BY <1>1, <1>2, RowFields, CeilingFields DEF TypeOK
  <1>8. webhook_outbox'[e].status = "failed" =>
          webhook_outbox'[e].attempts >= WebhookMaxAttempts
    BY <1>2, <1>5, <1>7, CeilingFields DEF StatusAfterFailure, GivesUp
  <1> HIDE DEF e
  <1>9. DeliveredWasReceived' BY <1>2, <1>6 DEF OutboxInv, DeliveredWasReceived
  <1>10. GivenUpAfterAllAttempts' BY <1>2, <1>8 DEF OutboxInv, GivenUpAfterAllAttempts
  <1>11. ASSUME NEW c \in Dispatches, dispatch'[c].stage # "free" PROVE SnapshotRight(c)'
    <2>1. c # d /\ dispatch'[c] = dispatch[c] BY <1>3, <1>11
    <2>2. dispatch[c].event \in Events
      BY <1>1, <1>11, <2>1, DispatchFields DEF TypeOK
    <2>3. QED BY <1>2, <2>1, <2>2 DEF OutboxInv, SnapshotRight
  <1>12. \A c \in Dispatches : SnapshotRight(c)' BY <1>11 DEF SnapshotRight
  <1>13. QED BY <1>4, <1>9, <1>10, <1>12 DEF OutboxInv

LEMMA StutterInv == ASSUME OutboxInv, UNCHANGED vars PROVE OutboxInv'
PROOF BY DEF OutboxInv, TypeOK, DeliveredWasReceived, GivenUpAfterAllAttempts, SnapshotRight,
             vars

LEMMA StepInv == OutboxInv /\ [Next]_vars => OutboxInv'
PROOF
  <1> SUFFICES ASSUME OutboxInv, [Next]_vars PROVE OutboxInv' OBVIOUS
  <1>1. ASSUME NEW e \in Events, Enqueue(e) \/ BecomeDue(e) PROVE OutboxInv'
    BY <1>1, EnqueueInv, BecomeDueInv
  <1>2. ASSUME NEW batch \in Batches, ClaimOutboxEvents(batch) PROVE OutboxInv'
    BY <1>2, ClaimInv
  <1>3. ASSUME NEW d \in Dispatches,
               Answer(d) \/ Return(d) \/ Record(d) \/ DispatchFails(d)
        PROVE  OutboxInv'
    BY <1>3, PostInv, RecordInv DEF Answer, Return
  <1>4. CASE UNCHANGED vars BY <1>4, StutterInv
  <1>5. QED BY <1>1, <1>2, <1>3, <1>4 DEF Next

-----------------------------------------------------------------------------
(* The theorems. *)

\* What every step of the dispatchers relies on holds throughout.
THEOREM InvHolds == Spec => []OutboxInv
PROOF
  <1>1. Init => OutboxInv BY InitInv
  <1>2. OutboxInv /\ [Next]_vars => OutboxInv' BY StepInv
  <1>3. QED BY <1>1, <1>2, PTL DEF Spec

\* The rows, the receipts and every dispatch keep their types.
THEOREM OutboxTypeCorrect == Spec => []TypeOK
PROOF
  <1>1. OutboxInv => TypeOK BY DEF OutboxInv
  <1>2. QED BY <1>1, InvHolds, PTL

\* mark_delivered only follows an answer, and the receiver answers once it has stored the
\* event, whichever dispatches of it overlap, die or overwrite each other.
THEOREM DeliveredMeansReceived == Spec => []DeliveredWasReceived
PROOF
  <1>1. OutboxInv => DeliveredWasReceived BY DEF OutboxInv
  <1>2. QED BY <1>1, InvHolds, PTL

\* mark_attempt_failed gives an event up on the word of a snapshot, which may be stale but
\* never knows of more attempts than were claimed.
THEOREM NoneGivenUpEarly == Spec => []GivenUpAfterAllAttempts
PROOF
  <1>1. OutboxInv => GivenUpAfterAllAttempts BY DEF OutboxInv
  <1>2. QED BY <1>1, InvHolds, PTL

\* Every writer of a settled row holds a dispatch of it: the claim takes pending rows only.
THEOREM SettledIsLeftAlone == Spec => SettledStaysSettled
PROOF
  <1>1. ASSUME TypeOK, [Next]_vars, NEW e \in Events,
               webhook_outbox[e].status \in {"delivered", "failed"},
               \A d \in Dispatches : dispatch[d] # Free => dispatch[d].event # e
        PROVE  webhook_outbox'[e] = webhook_outbox[e]
    <2>1. ASSUME NEW f \in Events, Enqueue(f) PROVE webhook_outbox'[e] = webhook_outbox[e]
      BY <1>1, <2>1 DEF Enqueue, TypeOK
    <2>2. ASSUME NEW f \in Events, BecomeDue(f) PROVE webhook_outbox'[e] = webhook_outbox[e]
      BY <1>1, <2>2 DEF BecomeDue, TypeOK
    <2>3. ASSUME NEW batch \in Batches, ClaimOutboxEvents(batch)
          PROVE  webhook_outbox'[e] = webhook_outbox[e]
      BY <1>1, <2>3, ClaimEffect
    <2>4. ASSUME NEW d \in Dispatches, Record(d)
          PROVE  webhook_outbox'[e] = webhook_outbox[e]
      <3>1. dispatch[d].stage # "free"
        BY <2>4 DEF Record, MarkDelivered, MarkAttemptFailed, At
      <3>2. dispatch[d].event # e BY <1>1, <3>1, DispatchFields DEF TypeOK
      <3>3. QED BY <1>1, <2>4, <3>2, RecordEffect
    <2>5. ASSUME NEW d \in Dispatches, Answer(d) \/ Return(d) \/ DispatchFails(d)
          PROVE  webhook_outbox'[e] = webhook_outbox[e]
      BY <2>5 DEF Answer, Return, Receive, PostSucceeds, PostFails, DispatchFails
    <2>6. CASE UNCHANGED vars BY <2>6 DEF vars
    <2>7. QED BY <1>1, <2>1, <2>2, <2>3, <2>4, <2>5, <2>6 DEF Next
  <1>2. TypeOK /\ [Next]_vars =>
          [\A e \in Events :
             /\ webhook_outbox[e].status \in {"delivered", "failed"}
             /\ \A d \in Dispatches : dispatch[d] # Free => dispatch[d].event # e
             => UNCHANGED webhook_outbox[e]]_vars
    BY <1>1
  <1>3. QED BY <1>2, OutboxTypeCorrect, PTL DEF Spec, SettledStaysSettled

-----------------------------------------------------------------------------
(* Attempts within the maximum.  A dispatch that is not cut off and does not outlive its *)
(* lease ends in a record before its event is claimed again, so the attempt that is the  *)
(* last gives up.                                                                        *)

\* An event does not become due while a dispatch of it is under way.
LeasesLast == \A d \in Dispatches : dispatch[d] # Free => ~webhook_outbox[dispatch[d].event].due

\* A dispatch ends by recording its result.
ResultsRecorded ==
  \A d \in Dispatches : dispatch[d] # Free /\ dispatch'[d] = Free => Record(d)

Dispatched(e) == \E d \in Dispatches : dispatch[d] # Free /\ dispatch[d].event = e

\* The snapshots are not stale, and who may still be claimed has attempts left.
AttemptsLeft(e) ==
  /\ webhook_outbox[e].attempts <= WebhookMaxAttempts
  /\ webhook_outbox[e].status \in {"absent", "pending"} /\ ~Dispatched(e)
     => webhook_outbox[e].attempts < WebhookMaxAttempts

SnapshotFresh(d) ==
  dispatch[d] # Free => dispatch[d].attempts = webhook_outbox[dispatch[d].event].attempts

AttemptsInv ==
  (\A e \in Events : AttemptsLeft(e)) /\ (\A d \in Dispatches : SnapshotFresh(d))

LEMMA AttemptsAreNumbers ==
  ASSUME TypeOK, NEW e \in Events
  PROVE  /\ webhook_outbox[e].attempts \in Nat /\ webhook_outbox[e].due \in BOOLEAN
         /\ webhook_outbox[e].status \in {"absent", "pending", "delivered", "failed"}
PROOF BY RowFields, CeilingFields DEF TypeOK

\* Steps that leave the attempts alone, and every dispatch with its event.
LEMMA SameAttempts ==
  ASSUME TypeOK, AttemptsInv,
         \A e \in Events : webhook_outbox'[e].attempts = webhook_outbox[e].attempts,
         \A e \in Events : webhook_outbox'[e].status \in {"absent", "pending"} =>
                            webhook_outbox[e].status \in {"absent", "pending"},
         \A d \in Dispatches : /\ dispatch'[d] = Free <=> dispatch[d] = Free
                               /\ dispatch[d] # Free =>
                                    /\ dispatch'[d].event = dispatch[d].event
                                    /\ dispatch'[d].attempts = dispatch[d].attempts
  PROVE  AttemptsInv'
PROOF
  <1>1. \A e \in Events : Dispatched(e)' <=> Dispatched(e) BY DEF Dispatched
  <1>2. \A e \in Events : AttemptsLeft(e)' BY <1>1 DEF AttemptsInv, AttemptsLeft
  <1>3. \A d \in Dispatches : dispatch[d] # Free => dispatch[d].event \in Events
    BY DispatchFields DEF TypeOK
  <1>4. \A d \in Dispatches : SnapshotFresh(d)' BY <1>3 DEF AttemptsInv, SnapshotFresh
  <1>5. QED BY <1>2, <1>4 DEF AttemptsInv

\* A dispatch of the event would have kept it from being due.
LEMMA ClaimAttempts ==
  ASSUME TypeOK, AttemptsInv, LeasesLast, NEW batch \in Batches, ClaimOutboxEvents(batch)
  PROVE  AttemptsInv'
PROOF
  <1> DEFINE places == DOMAIN batch
             claimed == {batch[d] : d \in places}
  <1>1. /\ \A d \in places : dispatch[d] = Free /\ batch[d] \in Due /\ d \in Dispatches
        /\ dispatch' = [d \in Dispatches |->
                         IF d \in places
                         THEN [stage |-> "post", event |-> batch[d],
                               attempts |-> NextAttempt(webhook_outbox[batch[d]].attempts)]
                         ELSE dispatch[d]]
        /\ webhook_outbox' = [e \in Events |->
                               IF e \in claimed
                               THEN [webhook_outbox[e] EXCEPT !.due = FALSE,
                                                              !.attempts = NextAttempt(@)]
                               ELSE webhook_outbox[e]]
    BY DEF ClaimOutboxEvents, Batches
  <1>2. \A d \in places : batch[d] \in Events /\ batch[d] \in claimed BY <1>1 DEF Due
  <1>3. ASSUME NEW e \in Events, e \in claimed
        PROVE  /\ webhook_outbox[e].attempts < WebhookMaxAttempts /\ ~Dispatched(e)
               /\ webhook_outbox'[e].attempts = webhook_outbox[e].attempts + 1
               /\ NextAttempt(webhook_outbox[e].attempts) = webhook_outbox[e].attempts + 1
    <2>1. webhook_outbox[e].status = "pending" /\ webhook_outbox[e].due
      BY <1>1, <1>3 DEF Due
    <2>2. ~Dispatched(e) BY <2>1 DEF LeasesLast, Dispatched
    <2>3. webhook_outbox[e].attempts < WebhookMaxAttempts
      BY <2>1, <2>2 DEF AttemptsInv, AttemptsLeft
    <2>4. webhook_outbox[e] \in Row BY DEF TypeOK
    <2>5. webhook_outbox'[e].attempts = NextAttempt(webhook_outbox[e].attempts)
      BY <1>1, <1>3, <2>4 DEF Row
    <2>6. NextAttempt(webhook_outbox[e].attempts) = webhook_outbox[e].attempts + 1
      BY <2>3, AttemptsAreNumbers, CeilingFields DEF NextAttempt
    <2>7. QED BY <2>2, <2>3, <2>5, <2>6
  <1>4. ASSUME NEW d \in places
        PROVE  /\ dispatch'[d].event = batch[d] /\ dispatch'[d] # Free
               /\ dispatch'[d].attempts = NextAttempt(webhook_outbox[batch[d]].attempts)
    BY <1>1 DEF Free
  <1>5. \A d \in Dispatches : d \notin places => dispatch'[d] = dispatch[d] BY <1>1
  <1>6. \A e \in Events : e \notin claimed => webhook_outbox'[e] = webhook_outbox[e] BY <1>1
  <1>7. \A e \in claimed : Dispatched(e)' BY <1>1, <1>2, <1>4 DEF Dispatched
  <1> HIDE DEF places, claimed
  <1>8. ASSUME NEW e \in Events PROVE AttemptsLeft(e)'
    <2>1. CASE e \in claimed
      BY <1>3, <1>7, <2>1, AttemptsAreNumbers, CeilingFields DEF AttemptsLeft
    <2>2. CASE e \notin claimed
      <3>1. Dispatched(e) => Dispatched(e)'
        BY <1>1, <1>5 DEF Dispatched
      <3>2. QED BY <1>6, <2>2, <3>1 DEF AttemptsInv, AttemptsLeft
    <2>3. QED BY <2>1, <2>2
  <1>9. ASSUME NEW d \in Dispatches PROVE SnapshotFresh(d)'
    <2>1. CASE d \in places
      BY <1>2, <1>3, <1>4, <2>1 DEF SnapshotFresh
    <2>2. CASE d \notin places
      <3>1. SUFFICES ASSUME dispatch[d] # Free
                     PROVE  dispatch[d].attempts = webhook_outbox'[dispatch[d].event].attempts
        BY <1>5, <2>2 DEF SnapshotFresh
      <3>2. dispatch[d].event \in Events /\ Dispatched(dispatch[d].event)
        BY <3>1, DispatchFields DEF TypeOK, Dispatched
      <3>3. dispatch[d].event \notin claimed BY <1>3, <3>2
      <3>4. QED BY <1>6, <3>1, <3>2, <3>3 DEF AttemptsInv, SnapshotFresh
    <2>3. QED BY <2>1, <2>2
  <1>10. QED BY <1>8, <1>9 DEF AttemptsInv

\* Whoever fails on the last attempt gives up.
LEMMA RecordAttempts ==
  ASSUME TypeOK, AttemptsInv, NEW d \in Dispatches, Record(d) PROVE AttemptsInv'
PROOF
  <1> DEFINE e == dispatch[d].event
  <1>1. /\ e \in Events
        /\ \/ dispatch[d].stage = "succeeded" /\ webhook_outbox'[e].status = "delivered"
           \/ /\ dispatch[d].stage = "failed"
              /\ webhook_outbox'[e].status = StatusAfterFailure(GivesUp(d))
        /\ \A f \in Events : webhook_outbox'[f].attempts = webhook_outbox[f].attempts
        /\ \A f \in Events : f # e => webhook_outbox'[f] = webhook_outbox[f]
        /\ End(d)
    BY RecordEffect
  <1>2. /\ dispatch'[d].stage = "free" /\ dispatch'[d] = Free
        /\ \A c \in Dispatches : c # d => dispatch'[c] = dispatch[c]
    BY <1>1, Ended DEF End, TypeOK
  <1>3. dispatch[d].stage # "free" /\ dispatch[d] # Free
    BY DEF Record, MarkDelivered, MarkAttemptFailed, At, Free
  <1>4. dispatch[d].attempts = webhook_outbox[e].attempts
    BY <1>3 DEF AttemptsInv, SnapshotFresh
  <1>5. webhook_outbox[e].attempts \in Nat BY <1>1, AttemptsAreNumbers
  <1>6. webhook_outbox'[e].status \in {"absent", "pending"} =>
          webhook_outbox[e].attempts < WebhookMaxAttempts
    BY <1>1, <1>4, <1>5, CeilingFields DEF StatusAfterFailure, GivesUp
  <1> HIDE DEF e
  <1>7. ASSUME NEW f \in Events PROVE AttemptsLeft(f)'
    <2>1. CASE f = e BY <1>1, <1>6, <2>1 DEF AttemptsInv, AttemptsLeft
    <2>2. CASE f # e
      <3>1. Dispatched(f) => Dispatched(f)' BY <1>2, <2>2 DEF Dispatched, e
      <3>2. QED BY <1>1, <2>2, <3>1 DEF AttemptsInv, AttemptsLeft
    <2>3. QED BY <2>1, <2>2
  <1>8. ASSUME NEW c \in Dispatches PROVE SnapshotFresh(c)'
    <2>1. CASE c = d BY <1>2, <2>1 DEF SnapshotFresh
    <2>2. CASE c # d
      <3>1. dispatch[c] # Free => dispatch[c].event \in Events
        BY DispatchFields DEF TypeOK
      <3>2. QED BY <1>1, <1>2, <2>2, <3>1 DEF AttemptsInv, SnapshotFresh
    <2>3. QED BY <2>1, <2>2
  <1>9. QED BY <1>7, <1>8 DEF AttemptsInv

LEMMA MoveAttempts ==
  ASSUME TypeOK, AttemptsInv, NEW d \in Dispatches, Answer(d) \/ Return(d)
  PROVE  AttemptsInv'
PROOF
  <1>1. /\ dispatch[d].stage # "free" /\ webhook_outbox' = webhook_outbox
        /\ \E s \in Stages : MoveTo(d, s)
    BY DEF Answer, Return, Receive, PostSucceeds, PostFails, At, Stages
  <1>2. PICK s \in Stages : MoveTo(d, s) BY <1>1
  <1>3. /\ dispatch' \in [Dispatches -> Dispatch] /\ dispatch'[d].stage = s
        /\ dispatch'[d].event = dispatch[d].event
        /\ dispatch'[d].attempts = dispatch[d].attempts
        /\ \A c \in Dispatches : c # d => dispatch'[c] = dispatch[c]
    BY <1>1, <1>2, Moved
  <1>4. dispatch'[d] # Free /\ dispatch[d] # Free BY <1>1, <1>3 DEF Free, Stages
  <1>5. QED BY <1>1, <1>3, <1>4, SameAttempts

\* "For up to 8 attempts, after which the outbox row is marked failed" holds while no dispatch
\* is cut off between its claim and its record, nor outlives the lease of its claim.
THEOREM AttemptsWithinMaximum ==
  Spec /\ []LeasesLast /\ [][ResultsRecorded]_vars => []AtMostMaxAttempts
PROOF
  <1>1. Init => AttemptsInv
    <2> SUFFICES ASSUME Init PROVE AttemptsInv OBVIOUS
    <2>1. /\ \A d \in Dispatches : dispatch[d] = Free
          /\ \A e \in Events : webhook_outbox[e].attempts = 0
      BY DEF Init
    <2>2. QED BY <2>1, CeilingFields DEF AttemptsInv, AttemptsLeft, SnapshotFresh
  <1>2. TypeOK /\ AttemptsInv /\ LeasesLast /\ [Next]_vars /\ [ResultsRecorded]_vars
          => AttemptsInv'
    <2> SUFFICES ASSUME TypeOK, AttemptsInv, LeasesLast, [Next]_vars, [ResultsRecorded]_vars
                 PROVE  AttemptsInv'
        OBVIOUS
    <2>1. CASE UNCHANGED vars BY <2>1, SameAttempts DEF vars
    <2>2. ASSUME NEW e \in Events, Enqueue(e) \/ BecomeDue(e) PROVE AttemptsInv'
      <3>1. /\ dispatch' = dispatch
            /\ webhook_outbox[e].status \in {"absent", "pending"}
            /\ \A f \in Events : webhook_outbox'[f].attempts = webhook_outbox[f].attempts
            /\ \A f \in Events : f # e => webhook_outbox'[f] = webhook_outbox[f]
        BY <2>2 DEF Enqueue, BecomeDue, TypeOK, Row
      <3>2. QED BY <3>1, SameAttempts
    <2>3. ASSUME NEW batch \in Batches, ClaimOutboxEvents(batch) PROVE AttemptsInv'
      BY <2>3, ClaimAttempts
    <2>4. ASSUME NEW d \in Dispatches, DispatchFails(d) PROVE AttemptsInv'
      <3>1. dispatch[d] # Free /\ dispatch'[d] = Free
        BY <2>4 DEF DispatchFails, End, TypeOK
      <3>2. CASE ResultsRecorded BY <3>1, <3>2, RecordAttempts DEF ResultsRecorded
      <3>3. QED BY <2>1, <3>2
    <2>5. QED BY <2>1, <2>2, <2>3, <2>4, MoveAttempts, RecordAttempts DEF Next
  <1>3. AttemptsInv => AtMostMaxAttempts
    BY DEF AttemptsInv, AttemptsLeft, AtMostMaxAttempts
  <1>4. QED BY <1>1, <1>2, <1>3, OutboxTypeCorrect, PTL DEF Spec
=============================================================================
