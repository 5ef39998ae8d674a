----------------------------- MODULE ClaimProofs -----------------------------
(***************************************************************************)
(* DeliveryQueue implements ClaimLease: how the claim of a job passes from *)
(* one worker to the next.                                                 *)
(***************************************************************************)
EXTENDS DeliveryQueueProofs

-----------------------------------------------------------------------------
(* A loop claims only when its last batch is done, so it never takes a job it  *)
(* is still sending.                                                           *)

ClaimersIdle == \A l \in Loops : claiming[l] # {} => \A j \in Jobs : ~Active(l, j)

LEMMA ClaimersStep ==
  ASSUME TypeOK, ClaimersIdle, [Next]_vars
  PROVE  ClaimersIdle'
PROOF
  <1>1. ASSUME NEW l \in Loops, NEW j \in Jobs, Deliver(l, j) \/ TaskFails(l, j)
        PROVE  ClaimersIdle'
    <2>1. Active(l, j) /\ \A m \in Loops, k \in Jobs : m # l => task'[m][k] = task[m][k]
      BY <1>1, TaskSteps DEF TaskMoves
    <2>2. claiming' = claiming
      BY <1>1 DEF Deliver, RateLimited, BudgetExceeded, StartSend, ReturnToQueue,
         ProviderAccepts, SendSucceeds, SendRejected, SendUncertain, Fails, MarkSent,
         MarkFailed, DiscardResult, TaskFails
    <2>3. QED BY <2>1, <2>2 DEF ClaimersIdle, Active
  <1>2. ASSUME NEW l \in Loops, ClaimLock(l) PROVE ClaimersIdle'
    BY <1>2 DEF ClaimLock, ClaimersIdle, Active, TypeOK
  <1>3. ASSUME NEW l \in Loops, ClaimCommit(l) PROVE ClaimersIdle'
    <2>1. claiming' = [claiming EXCEPT ![l] = {}]
          /\ \A m \in Loops \ {l} : task'[m] = task[m]
      BY <1>3 DEF ClaimCommit, TypeOK
    <2>2. QED BY <2>1 DEF ClaimersIdle, Active, TypeOK
  <1>4. ASSUME NEW l \in Loops, Crash(l) PROVE ClaimersIdle'
    BY <1>4, NoTaskFields DEF Crash, ClaimersIdle, Active, TypeOK
  <1>5. ASSUME UNCHANGED <<claiming, task>> PROVE ClaimersIdle'
    BY <1>5 DEF ClaimersIdle, Active
  <1>6. QED
    BY <1>1, <1>2, <1>3, <1>4, <1>5 DEF Next, vars, CreateJob, RequeueDeadLetter, BecomeDue,
       LeaseExpires, Reap

LEMMA ClaimersHold == Spec => []ClaimersIdle
PROOF
  <1>1. Init => ClaimersIdle BY DEF Init, ClaimersIdle
  <1>2. TablesInv /\ ClaimersIdle /\ [Next]_vars => ClaimersIdle'
    BY ClaimersStep DEF TablesInv
  <1>3. QED BY <1>1, <1>2, TablesInvHolds, PTL DEF Spec

-----------------------------------------------------------------------------
(* The claim of one job, and what leaves it alone. *)

IsClaimed(k) == jobs[k].status = "processing"
IsLive(k) == jobs[k].status = "processing" /\ ~jobs[k].lease_expired
Owners(k) == {l \in Loops : Active(l, k) /\ Owns(l, k)}
Senders(k) == {l \in Loops : task[l][k].stage \in {"send", "accepted"}}

SameTasks(k) == \A l \in Loops : task'[l][k] = task[l][k]

ClaimMoves(k) ==
  \/ \E l \in Loops :
       \/ ClaimOf(k)!Take(l) \/ ClaimOf(k)!StartSend(l) \/ ClaimOf(k)!EndSend(l)
       \/ ClaimOf(k)!GiveUp(l) \/ ClaimOf(k)!Die(l)
  \/ ClaimOf(k)!Expire \/ ClaimOf(k)!Reap
  \/ UNCHANGED ClaimOf(k)!vars

\* A job nobody holds stays so: creation, requeue, the clock.
LEMMA Unclaimed ==
  ASSUME NEW k \in Jobs, jobs[k].status # "processing", jobs'[k].status # "processing",
         SameTasks(k)
  PROVE  ClaimMoves(k)
PROOF
  <1>1. /\ IsClaimed(k) = FALSE /\ IsClaimed(k)' = FALSE
        /\ IsLive(k) = FALSE /\ IsLive(k)' = FALSE
    BY DEF IsClaimed, IsLive
  <1>2. Owners(k) = {} /\ Owners(k)' = {} BY DEF Owners, Owns
  <1>3. Senders(k)' = Senders(k) BY DEF Senders, SameTasks
  <1>4. QED
    BY <1>1, <1>2, <1>3 DEF ClaimMoves, ClaimOf!vars, IsClaimed, IsLive, Owners, Senders

LEMMA Unmoved ==
  ASSUME NEW k \in Jobs, jobs'[k] = jobs[k], SameTasks(k)
  PROVE  ClaimMoves(k)
PROOF
  <1>1. /\ IsClaimed(k)' = IsClaimed(k) /\ IsLive(k)' = IsLive(k)
        /\ Owners(k)' = Owners(k) /\ Senders(k)' = Senders(k)
    BY DEF IsClaimed, IsLive, Owners, Senders, SameTasks, Active, Owns
  <1>2. QED BY <1>1 DEF ClaimMoves, ClaimOf!vars, IsClaimed, IsLive, Owners, Senders

-----------------------------------------------------------------------------
(* The steps of one task.  Those of the others stay as they are. *)

OnlyTask(l, k) == \A m \in Loops \ {l} : task'[m][k] = task[m][k]

\* Ended without a word to the row: by an exception, a crash, or because it is not its own.
LEMMA Dies ==
  ASSUME NEW k \in Jobs, NEW l \in Loops, jobs'[k] = jobs[k], OnlyTask(l, k),
         task'[l][k] = NoTask
  PROVE  ClaimMoves(k)
PROOF
  <1>1. task'[l][k].stage = "none" BY NoTaskFields
  <1>2. IsClaimed(k)' = IsClaimed(k) /\ IsLive(k)' = IsLive(k) BY DEF IsClaimed, IsLive
  <1>3. Owners(k)' = Owners(k) \ {l}
    BY <1>1 DEF Owners, OnlyTask, Active, Owns
  <1>4. Senders(k)' = Senders(k) \ {l}
    BY <1>1 DEF Senders, OnlyTask
  <1>5. ClaimOf(k)!Die(l)
    BY <1>2, <1>3, <1>4 DEF ClaimOf!Die, IsClaimed, IsLive, Owners, Senders
  <1>6. QED BY <1>5 DEF ClaimMoves

\* Moved on, under the same claim.
LEMMA MovesUnderClaim ==
  ASSUME NEW k \in Jobs, NEW l \in Loops, jobs'[k] = jobs[k], OnlyTask(l, k), Active(l, k),
         task'[l][k].stage \in Stages, task'[l][k].token = task[l][k].token,
         \/ /\ task'[l][k].stage \in {"send", "accepted"}
            /\ \/ task[l][k].stage \in {"send", "accepted"}
               \/ Owns(l, k) /\ ~jobs[k].lease_expired
         \/ task'[l][k].stage \notin {"send", "accepted"}
  PROVE  ClaimMoves(k)
PROOF
  <1>1. IsClaimed(k)' = IsClaimed(k) /\ IsLive(k)' = IsLive(k) BY DEF IsClaimed, IsLive
  <1>2. Owners(k)' = Owners(k)
    <2>1. Active(l, k)' BY DEF Active, Stages
    <2>2. \A m \in Loops : Active(m, k)' <=> Active(m, k) BY <2>1 DEF OnlyTask, Active
    <2>3. \A m \in Loops : Owns(m, k)' <=> Owns(m, k) BY DEF OnlyTask, Owns
    <2>4. QED BY <2>2, <2>3 DEF Owners
  <1>3. CASE task'[l][k].stage \notin {"send", "accepted"} /\ l \in Senders(k)
    <2>1. Senders(k)' = Senders(k) \ {l} BY <1>3 DEF Senders, OnlyTask
    <2>2. ClaimOf(k)!EndSend(l)
      BY <1>1, <1>2, <1>3, <2>1 DEF ClaimOf!EndSend, IsClaimed, IsLive, Owners, Senders
    <2>3. QED BY <2>2 DEF ClaimMoves
  <1>4. CASE task'[l][k].stage \in {"send", "accepted"} /\ l \notin Senders(k)
    <2>1. Owns(l, k) /\ ~jobs[k].lease_expired BY <1>4 DEF Senders
    <2>2. l \in Owners(k) /\ IsLive(k) BY <2>1 DEF Owners, IsLive, Owns
    <2>3. Senders(k)' = Senders(k) \cup {l} BY <1>4 DEF Senders, OnlyTask
    <2>4. ClaimOf(k)!StartSend(l)
      BY <1>1, <1>2, <1>4, <2>2, <2>3 DEF ClaimOf!StartSend, IsClaimed, IsLive, Owners, Senders
    <2>5. QED BY <2>4 DEF ClaimMoves
  <1>5. CASE task'[l][k].stage \in {"send", "accepted"} <=> l \in Senders(k)
    <2>1. Senders(k)' = Senders(k) BY <1>5 DEF Senders, OnlyTask
    <2>2. QED
      BY <1>1, <1>2, <2>1 DEF ClaimMoves, ClaimOf!vars, IsClaimed, IsLive, Owners, Senders
  <1>6. QED BY <1>3, <1>4, <1>5

\* Ended by its owner, when it is no longer sending.
LEMMA GivesUp ==
  ASSUME NEW k \in Jobs, NEW l \in Loops, OnlyTask(l, k), Active(l, k), Owns(l, k),
         task[l][k].stage \notin {"send", "accepted"}, task'[l][k] = NoTask,
         jobs'[k].status # "processing"
  PROVE  ClaimMoves(k)
PROOF
  <1>1. task'[l][k].stage = "none" BY NoTaskFields
  <1>2. l \in Owners(k) /\ l \notin Senders(k) BY DEF Owners, Senders
  <1>3. /\ IsClaimed(k)' = FALSE /\ IsLive(k)' = FALSE /\ Owners(k)' = {}
    BY DEF IsClaimed, IsLive, Owners, Owns
  <1>4. Senders(k)' = Senders(k) BY <1>1 DEF Senders, OnlyTask
  <1>5. ClaimOf(k)!GiveUp(l)
    BY <1>2, <1>3, <1>4 DEF ClaimOf!GiveUp, IsClaimed, IsLive, Owners, Senders
  <1>6. QED BY <1>5 DEF ClaimMoves

-----------------------------------------------------------------------------
(* Every step of the queue is one move of the claim, or none. *)

LEMMA CommitMoves ==
  ASSUME TypeOK, LocksHeld, ClaimersIdle, NEW k \in Jobs, NEW l \in Loops, ClaimCommit(l)
  PROVE  ClaimMoves(k)
PROOF
  <1>1. PICK token \in [claiming[l] -> Tokens] :
          /\ \A j \in claiming[l] : Fresh(j, token[j])
          /\ jobs' = [j \in Jobs |-> IF j \in claiming[l]
                                     THEN ClaimedRow(jobs[j], token[j]) ELSE jobs[j]]
          /\ task' = [task EXCEPT ![l] =
                        [j \in Jobs |-> IF j \in claiming[l]
                                       THEN ClaimedTask(jobs[j], token[j]) ELSE task[l][j]]]
    BY DEF ClaimCommit
  <1>2. CASE k \notin claiming[l]
    <2>1. jobs'[k] = jobs[k] /\ SameTasks(k) BY <1>1, <1>2 DEF SameTasks, TypeOK
    <2>2. QED BY <2>1, Unmoved
  <1>3. CASE k \in claiming[l]
    <2>1. /\ jobs[k] \in Row /\ jobs[k].status = "pending" /\ ~Active(l, k)
          /\ token[k] \in Tokens /\ Fresh(k, token[k])
      BY <1>1, <1>3 DEF TypeOK, LocksHeld, ClaimersIdle
    <2>2. /\ jobs'[k] = ClaimedRow(jobs[k], token[k])
          /\ task'[l][k] = ClaimedTask(jobs[k], token[k]) /\ OnlyTask(l, k)
      BY <1>1, <1>3 DEF OnlyTask, TypeOK
    <2>3. /\ jobs'[k].status = "processing" /\ jobs'[k].claim_token = token[k]
          /\ task'[l][k].stage = "acquire" /\ task'[l][k].token = token[k]
      BY <2>1, <2>2, ClaimedRowFields, ClaimedTaskFields
    <2>4. IsClaimed(k) = FALSE /\ IsClaimed(k)' = TRUE /\ IsLive(k)' \in BOOLEAN
      BY <2>1, <2>3 DEF IsClaimed, IsLive
    <2>5. Owners(k)' = {l}
      <3>1. Active(l, k)' /\ Owns(l, k)' BY <2>3 DEF Active, Owns
      <3>2. \A m \in Loops \ {l} : ~Owns(m, k)'
        BY <2>1, <2>2, <2>3 DEF OnlyTask, Owns, Fresh
      <3>3. QED BY <3>1, <3>2 DEF Owners
    <2>6. l \notin Senders(k) /\ Senders(k)' = Senders(k)
      BY <2>1, <2>2, <2>3 DEF Senders, OnlyTask, Active
    <2>7. ClaimOf(k)!Take(l)
      BY <2>4, <2>5, <2>6 DEF ClaimOf!Take, IsClaimed, IsLive, Owners, Senders
    <2>8. QED BY <2>7 DEF ClaimMoves
  <1>4. QED BY <1>2, <1>3

LEMMA DeliverMoves ==
  ASSUME TypeOK, \A j \in Jobs : Numbered(j), NEW k \in Jobs, NEW l \in Loops,
         Deliver(l, k) \/ TaskFails(l, k)
  PROVE  ClaimMoves(k)
PROOF
  <1>0. /\ task[l][k] \in Task /\ jobs[k] \in Row /\ Active(l, k) /\ OnlyTask(l, k)
    BY TaskSteps DEF TypeOK, TaskMoves, OnlyTask
  <1>1. ASSUME NEW stage \in Stages, MoveTo(l, k, stage)
        PROVE  task'[l][k].stage = stage /\ task'[l][k].token = task[l][k].token
    <2> DEFINE t == [task[l][k] EXCEPT !.stage = stage]
    <2>1. task' = [task EXCEPT ![l][k] = t] BY <1>1 DEF MoveTo
    <2>2. t.stage = stage /\ t.token = task[l][k].token BY <1>0, TaskFields
    <2> HIDE DEF t
    <2>3. task'[l][k] = t BY <2>1 DEF TypeOK
    <2>4. QED BY <2>2, <2>3
  <1>2. ASSUME NEW error \in SendErrors, Fails(l, k, error)
        PROVE  task'[l][k].stage = "finalize" /\ task'[l][k].token = task[l][k].token
    <2> DEFINE t == [task[l][k] EXCEPT !.stage = "finalize", !.result = error]
    <2>1. task' = [task EXCEPT ![l][k] = t] BY <1>2 DEF Fails
    <2>2. t.stage = "finalize" /\ t.token = task[l][k].token BY <1>0, TaskFields
    <2> HIDE DEF t
    <2>3. task'[l][k] = t BY <2>1 DEF TypeOK
    <2>4. QED BY <2>2, <2>3
  <1>3. End(l, k) => task'[l][k] = NoTask BY DEF End, TypeOK
  <1>4. CASE \/ RateLimited(l, k) \/ BudgetExceeded(l, k) \/ StartSend(l, k)
             \/ ProviderAccepts(l, k) \/ SendSucceeds(l, k)
    <2>1. PICK stage \in Stages :
            /\ MoveTo(l, k, stage) /\ jobs' = jobs
            /\ stage = "send" => StartSend(l, k)
            /\ stage = "accepted" => ProviderAccepts(l, k)
      BY <1>4 DEF RateLimited, BudgetExceeded, StartSend, ProviderAccepts, SendSucceeds, Stages
    <2>2. /\ stage = "send" => Owns(l, k) /\ ~jobs[k].lease_expired
          /\ stage = "accepted" => task[l][k].stage = "send"
      BY <2>1 DEF StartSend, ProviderAccepts, At
    <2>3. QED BY <1>0, <1>1, <2>1, <2>2, MovesUnderClaim
  <1>5. CASE SendRejected(l, k) \/ SendUncertain(l, k)
    <2>1. PICK error \in SendErrors : Fails(l, k, error) /\ jobs' = jobs
      BY <1>5 DEF SendRejected, SendUncertain, Fails, SendErrors
    <2>2. "finalize" \in Stages BY DEF Stages
    <2>3. QED BY <1>0, <1>2, <2>1, <2>2, MovesUnderClaim
  <1>6. CASE DiscardResult(l, k) \/ TaskFails(l, k)
    <2>1. End(l, k) /\ jobs' = jobs BY <1>6 DEF DiscardResult, TaskFails
    <2>2. QED BY <1>0, <1>3, <2>1, Dies
  <1>7. CASE ReturnToQueue(l, k)
    <2>1. End(l, k) /\ task[l][k].stage \notin {"send", "accepted"}
      BY <1>7 DEF ReturnToQueue, At
    <2>2. CASE ~Owns(l, k)
      <3>1. jobs' = jobs BY <1>7, <2>2 DEF ReturnToQueue
      <3>2. QED BY <1>0, <1>3, <2>1, <3>1, Dies
    <2>3. CASE Owns(l, k)
      <3>1. At(l, k, "return_unsent") \in BOOLEAN BY DEF At
      <3>2. jobs'[k] = ReturnedRow(jobs[k], At(l, k, "return_unsent"))
        BY <1>7, <2>3 DEF ReturnToQueue, TypeOK
      <3>3. jobs[k].attempts > 0
        <4>1. jobs[k].attempts = Len(job_attempts[k]) + 1 BY <2>3 DEF Owns, Numbered
        <4>2. Len(job_attempts[k]) \in Nat BY RowFacts
        <4>3. QED BY <4>1, <4>2
      <3>4. jobs'[k].status = "pending" BY <1>0, <3>1, <3>2, <3>3, ReturnedRowFields
      <3>5. QED BY <1>0, <1>3, <2>1, <2>3, <3>4, GivesUp
    <2>4. QED BY <2>2, <2>3
  <1>8. CASE MarkSent(l, k)
    <2>1. /\ End(l, k) /\ Owns(l, k) /\ task[l][k].stage \notin {"send", "accepted"}
          /\ jobs'[k] = SentRow(jobs[k])
      BY <1>8 DEF MarkSent, At, TypeOK
    <2>2. jobs'[k].status = "sent" BY <1>0, <2>1, SentRowFields
    <2>3. QED BY <1>0, <1>3, <2>1, <2>2, GivesUp
  <1>9. CASE MarkFailed(l, k)
    <2> DEFINE dead == task[l][k].result = "permanent" \/ AtRetryCap(k)
    <2>1. /\ End(l, k) /\ Owns(l, k) /\ task[l][k].stage \notin {"send", "accepted"}
          /\ jobs'[k] = FailedRow(jobs[k], dead, task[l][k].result, dead /\ jobs[k].due)
      BY <1>9 DEF MarkFailed, At, TypeOK
    <2> HIDE DEF dead
    <2>2. jobs'[k].status # "processing" BY <1>0, <2>1, FailedRowIsNotClaimed
    <2>3. QED BY <1>0, <1>3, <2>1, <2>2, GivesUp
  <1>10. QED BY <1>4, <1>5, <1>6, <1>7, <1>8, <1>9 DEF Deliver

LEMMA ReapMoves ==
  ASSUME TypeOK, NEW k \in Jobs, NEW S \in SUBSET Jobs, Reap(S)
  PROVE  ClaimMoves(k)
PROOF
  <1>1. SameTasks(k) BY DEF Reap, SameTasks
  <1>2. CASE k \notin S
    <2>1. jobs'[k] = jobs[k] BY <1>2 DEF Reap
    <2>2. QED BY <1>1, <2>1, Unmoved
  <1>3. CASE k \in S
    <2> DEFINE dead == k \in {j \in S : AtRetryCap(j)}
    <2>1. /\ jobs'[k] = FailedRow(jobs[k], dead, "lease_expired", TRUE)
          /\ jobs[k].status = "processing" /\ jobs[k].lease_expired
      BY <1>3 DEF Reap, Expired
    <2> HIDE DEF dead
    <2>2. jobs[k] \in Row BY DEF TypeOK
    <2>3. jobs'[k].status # "processing" BY <2>1, <2>2, FailedRowIsNotClaimed
    <2>4. /\ IsClaimed(k) = TRUE /\ IsLive(k) = FALSE
          /\ IsClaimed(k)' = FALSE /\ IsLive(k)' = FALSE /\ Owners(k)' = {}
      BY <2>1, <2>3 DEF IsClaimed, IsLive, Owners, Owns
    <2>5. Senders(k)' = Senders(k) BY <1>1 DEF Senders, SameTasks
    <2>6. ClaimOf(k)!Reap
      BY <2>4, <2>5 DEF ClaimOf!Reap, IsClaimed, IsLive, Owners, Senders
    <2>7. QED BY <2>6 DEF ClaimMoves
  <1>4. QED BY <1>2, <1>3

\* The lease of a claim ends; nothing else of it changes.
LEMMA ExpiryMoves ==
  ASSUME TypeOK, NEW k \in Jobs, LeaseExpires(k)
  PROVE  ClaimMoves(k)
PROOF
  <1>1. jobs[k] \in Row /\ jobs'[k] = [jobs[k] EXCEPT !.lease_expired = TRUE]
    BY DEF LeaseExpires, TypeOK
  <1>2. /\ jobs'[k].status = jobs[k].status /\ jobs'[k].claim_token = jobs[k].claim_token
        /\ jobs'[k].lease_expired = TRUE /\ jobs[k].status = "processing"
        /\ ~jobs[k].lease_expired /\ task' = task
    BY <1>1 DEF LeaseExpires, Row
  <1>3. /\ IsClaimed(k)' = IsClaimed(k) /\ IsLive(k) = TRUE /\ IsLive(k)' = FALSE
        /\ Owners(k)' = Owners(k) /\ Senders(k)' = Senders(k)
    BY <1>2 DEF IsClaimed, IsLive, Owners, Senders, Active, Owns
  <1>4. ClaimOf(k)!Expire
    BY <1>3 DEF ClaimOf!Expire, IsClaimed, IsLive, Owners, Senders
  <1>5. QED BY <1>4 DEF ClaimMoves

LEMMA StepMoves ==
  ASSUME TypeOK, LocksHeld, ClaimersIdle, \A j \in Jobs : Numbered(j), [Next]_vars,
         NEW k \in Jobs
  PROVE  ClaimMoves(k)
PROOF
  <1>1. CASE UNCHANGED vars BY <1>1, Unmoved DEF vars, SameTasks
  <1>2. ASSUME NEW j \in Jobs, CreateJob(j) \/ RequeueDeadLetter(j) \/ BecomeDue(j)
        PROVE  ClaimMoves(k)
    <2>1. SameTasks(k) BY <1>2 DEF CreateJob, RequeueDeadLetter, BecomeDue, SameTasks
    <2>2. CASE k # j
      <3>1. jobs'[k] = jobs[k]
        BY <1>2, <2>2 DEF CreateJob, RequeueDeadLetter, BecomeDue, TypeOK
      <3>2. QED BY <2>1, <3>1, Unmoved
    <2>3. CASE k = j
      <3>1. jobs[k] \in Row BY DEF TypeOK
      <3>2. jobs[k].status # "processing"
        BY <1>2, <2>3 DEF CreateJob, RequeueDeadLetter, BecomeDue
      <3>3. jobs'[k].status = "pending"
        <4>1. CreateJob(k) => \E n \in MaxAttempts, due \in BOOLEAN : jobs'[k] = NewRow(n, due)
          BY DEF CreateJob, TypeOK
        <4>2. RequeueDeadLetter(k) =>
                \E extra \in ExtraAttempts : jobs'[k] = RequeuedRow(jobs[k], extra)
          BY DEF RequeueDeadLetter, TypeOK
        <4>3. BecomeDue(k) =>
                jobs[k].status = "pending" /\ jobs'[k] = [jobs[k] EXCEPT !.due = TRUE]
          BY DEF BecomeDue, TypeOK
        <4>4. CreateJob(k) => jobs'[k].status = "pending" BY <4>1, NewRowFields
        <4>5. RequeueDeadLetter(k) => jobs'[k].status = "pending"
          BY <3>1, <4>2, RequeuedRowFields
        <4>6. BecomeDue(k) => jobs'[k].status = "pending" BY <3>1, <4>3, TickedRowFields
        <4>7. QED BY <1>2, <2>3, <4>4, <4>5, <4>6
      <3>4. QED BY <2>1, <3>2, <3>3, Unclaimed
    <2>4. QED BY <2>2, <2>3
  <1>3. ASSUME NEW j \in Jobs, LeaseExpires(j) PROVE ClaimMoves(k)
    <2>1. k # j => jobs'[k] = jobs[k] /\ SameTasks(k)
      BY <1>3 DEF LeaseExpires, SameTasks, TypeOK
    <2>2. QED BY <1>3, <2>1, ExpiryMoves, Unmoved
  <1>4. ASSUME NEW l \in Loops, ClaimLock(l) PROVE ClaimMoves(k)
    BY <1>4, Unmoved DEF ClaimLock, SameTasks
  <1>5. ASSUME NEW l \in Loops, Crash(l) PROVE ClaimMoves(k)
    <2>1. jobs' = jobs /\ OnlyTask(l, k) /\ task'[l][k] = NoTask
      BY <1>5 DEF Crash, OnlyTask, TypeOK
    <2>2. QED BY <2>1, Dies
  <1>6. ASSUME NEW l \in Loops, NEW j \in Jobs, Deliver(l, j) \/ TaskFails(l, j)
        PROVE  ClaimMoves(k)
    <2>1. CASE k # j
      <3>1. SameTasks(k) BY <1>6, <2>1, TaskSteps DEF TaskMoves, SameTasks
      <3>2. jobs'[k] = jobs[k]
        BY <1>6, <2>1 DEF Deliver, RateLimited, BudgetExceeded, StartSend, ReturnToQueue,
           ProviderAccepts, SendSucceeds, SendRejected, SendUncertain, Fails, MarkSent,
           MarkFailed, DiscardResult, TaskFails, TypeOK
      <3>3. QED BY <3>1, <3>2, Unmoved
    <2>2. CASE k = j BY <1>6, <2>2, DeliverMoves
    <2>3. QED BY <2>1, <2>2
  <1>7. QED BY <1>1, <1>2, <1>3, <1>4, <1>5, <1>6, CommitMoves, ReapMoves DEF Next

\* The queue keeps the promise of the lease for every job: a send starts under the
\* sender's own running claim, and a claim passes on only when its owner gives it up or
\* its lease is over.
THEOREM ClaimLeaseImplemented == Spec => ImplementsClaimLease
PROOF
  <1> DEFINE Starts == \A j \in Jobs : ClaimOf(j)!Init
             Moves == \A j \in Jobs : [ClaimOf(j)!Next]_(ClaimOf(j)!vars)
  <1>1. Init => Starts
    <2> SUFFICES ASSUME Init, NEW k \in Jobs PROVE ClaimOf(k)!Init OBVIOUS
    <2>1. jobs[k].status = "absent" /\ \A l \in Loops : task[l][k].stage = "none"
      BY NoTaskFields DEF Init, NoRow
    <2>2. /\ IsClaimed(k) = FALSE /\ IsLive(k) = FALSE /\ Owners(k) = {} /\ Senders(k) = {}
      BY <2>1 DEF IsClaimed, IsLive, Owners, Senders, Active
    <2>3. QED BY <2>2 DEF ClaimOf!Init, IsClaimed, IsLive, Owners, Senders
  <1>2. TablesInv /\ ClaimersIdle /\ [Next]_vars => Moves
    <2> SUFFICES ASSUME TablesInv, ClaimersIdle, [Next]_vars, NEW k \in Jobs
                 PROVE  [ClaimOf(k)!Next]_(ClaimOf(k)!vars)
      OBVIOUS
    <2>1. ClaimMoves(k) BY StepMoves DEF TablesInv, JobInv
    <2>2. QED BY <2>1 DEF ClaimMoves, ClaimOf!Next
  <1> HIDE DEF Starts, Moves
  <1>3. TablesInv /\ ClaimersIdle /\ [Next]_vars => [Moves]_vars BY <1>2
  <1>4. Spec => Starts /\ [][Moves]_vars
    BY <1>1, <1>3, TablesInvHolds, ClaimersHold, PTL DEF Spec
  <1>5. QED BY <1>4 DEF Starts, Moves, ImplementsClaimLease
=============================================================================
