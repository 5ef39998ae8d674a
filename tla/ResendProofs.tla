---------------------------- MODULE ResendProofs ----------------------------
(***************************************************************************)
(* That the provider gets a second request for a job only after an attempt *)
(* that ended in doubt, for any jobs, loops and bounds; what follows for   *)
(* dead letters and for the number of requests.                            *)
(*                                                                         *)
(* A request does not say which attempt it belongs to, so the proof is an  *)
(* account.  A worker that lost its claim while its request was on the way *)
(* (a zombie) may still deliver it, but the reaper has recorded its        *)
(* attempt as one in doubt: it is paid for.                                *)
(***************************************************************************)
EXTENDS DeliveryQueueProofs, FiniteSetTheorems

-----------------------------------------------------------------------------
(* The account of one job. *)

Zombies(k) == {l \in Loops : task[l][k].stage = "send" /\ ~Owns(l, k)}

Doubted(k) == {i \in DOMAIN job_attempts[k] : MayHaveReached(job_attempts[k][i])}

InDoubt(t) ==
  \/ t.stage = "accepted"
  \/ t.stage = "finalize" /\ t.result \in {NoError, "uncertain"}

\* The open attempt will be recorded as one in doubt or as a success, unless its owner is
\* gone: then it is the reaper's.
OpenDoubt(k) ==
  /\ jobs[k].status = "processing"
  /\ \A l \in Loops : Active(l, k) /\ Owns(l, k) => InDoubt(task[l][k])

OpenCount(k) == IF OpenDoubt(k) THEN 1 ELSE 0

Balanced(k) ==
  provider_requests[k] + Cardinality(Zombies(k)) <= Cardinality(Doubted(k)) + OpenCount(k)

\* Only the end of a send sets a task's result.
Unanswered(k) ==
  \A l \in Loops : task[l][k].stage # "finalize" => task[l][k].result = NoError

AccountInv(k) == Balanced(k) /\ Unanswered(k)

-----------------------------------------------------------------------------
(* Counting. *)

LEMMA ZombiesFinite == ASSUME NEW k
  PROVE IsFiniteSet(Zombies(k)) /\ Cardinality(Zombies(k)) \in Nat
PROOF
  <1>1. Zombies(k) \in SUBSET Loops BY DEF Zombies
  <1>2. QED BY <1>1, LoopsAssumption, FS_Subset, FS_CardinalityType

LEMMA ZombiesNextFinite == ASSUME NEW k
  PROVE IsFiniteSet(Zombies(k)') /\ Cardinality(Zombies(k)') \in Nat
PROOF
  <1>1. Zombies(k)' \in SUBSET Loops BY DEF Zombies
  <1>2. QED BY <1>1, LoopsAssumption, FS_Subset, FS_CardinalityType

LEMMA DoubtedFinite ==
  ASSUME TypeOK, NEW k \in Jobs
  PROVE  IsFiniteSet(Doubted(k)) /\ Cardinality(Doubted(k)) \in Nat
PROOF
  <1>1. job_attempts[k] \in Seq(AttemptRecord) BY DEF TypeOK
  <1>2. DOMAIN job_attempts[k] = 1..Len(job_attempts[k]) /\ Len(job_attempts[k]) \in Nat
    BY <1>1
  <1>3. IsFiniteSet(DOMAIN job_attempts[k]) BY <1>2, FS_Interval
  <1>4. Doubted(k) \in SUBSET DOMAIN job_attempts[k] BY DEF Doubted
  <1>5. QED BY <1>3, <1>4, FS_Subset, FS_CardinalityType

\* A record of doubt counts, any other leaves the count as it is.
LEMMA DoubtRecorded ==
  ASSUME TypeOK, NEW k \in Jobs, NEW outcome, NEW error,
         job_attempts'[k] = RecordAttempt(k, outcome, error)
  PROVE  /\ outcome = "sent" \/ error \in {"uncertain", "lease_expired"} =>
              Cardinality(Doubted(k)') = Cardinality(Doubted(k)) + 1
         /\ ~(outcome = "sent" \/ error \in {"uncertain", "lease_expired"}) =>
              Cardinality(Doubted(k)') = Cardinality(Doubted(k))
PROOF
  <1> DEFINE r == [no |-> jobs[k].attempts, outcome |-> outcome, error |-> error]
             n == Len(job_attempts[k]) + 1
  <1>1. job_attempts[k] \in Seq(AttemptRecord) BY DEF TypeOK
  <1>2. job_attempts'[k] = Append(job_attempts[k], r) BY DEF RecordAttempt
  <1>3. r.outcome = outcome /\ r.error = error OBVIOUS
  <1>4. MayHaveReached(r) <=> outcome = "sent" \/ error \in {"uncertain", "lease_expired"}
    BY <1>3 DEF MayHaveReached
  <1> HIDE DEF r
  <1>5. /\ DOMAIN job_attempts'[k] = DOMAIN job_attempts[k] \cup {n}
        /\ n \notin DOMAIN job_attempts[k]
        /\ job_attempts'[k][n] = r
        /\ \A i \in DOMAIN job_attempts[k] : job_attempts'[k][i] = job_attempts[k][i]
    BY <1>1, <1>2
  <1> HIDE DEF n
  <1>6. n \notin Doubted(k) BY <1>5 DEF Doubted
  <1>7. Doubted(k)' = IF MayHaveReached(r) THEN Doubted(k) \cup {n} ELSE Doubted(k)
    BY <1>5 DEF Doubted, MayHaveReached
  <1>8. Cardinality(Doubted(k) \cup {n}) = Cardinality(Doubted(k)) + 1
    BY <1>6, DoubtedFinite, FS_AddElement
  <1>9. QED BY <1>4, <1>7, <1>8

-----------------------------------------------------------------------------
(* What a step may do to the account. *)

\* Nothing is sent and nothing recorded.
AccountRests(k) ==
  /\ provider_requests'[k] = provider_requests[k]
  /\ job_attempts'[k] = job_attempts[k]
  /\ Zombies(k)' \subseteq Zombies(k)
  /\ OpenDoubt(k) => OpenDoubt(k)'

\* The provider accepts the owner's request, or a zombie's.
RequestAccepted(k) ==
  /\ provider_requests'[k] = provider_requests[k] + 1
  /\ job_attempts'[k] = job_attempts[k]
  /\ \/ Zombies(k)' \subseteq Zombies(k) /\ ~OpenDoubt(k) /\ OpenDoubt(k)'
     \/ \E l \in Zombies(k) : /\ Zombies(k)' \subseteq Zombies(k) \ {l}
                              /\ OpenDoubt(k) => OpenDoubt(k)'

\* An attempt ends in doubt; if a request of it is on the way, that becomes a zombie's.
DoubtNoted(k) ==
  /\ provider_requests'[k] = provider_requests[k]
  /\ \E outcome, error :
       /\ outcome = "sent" \/ error \in {"uncertain", "lease_expired"}
       /\ job_attempts'[k] = RecordAttempt(k, outcome, error)
  /\ \/ Zombies(k)' \subseteq Zombies(k)
     \/ ~OpenDoubt(k) /\ \E l : Zombies(k)' \subseteq Zombies(k) \cup {l}

\* An attempt ends with a refusal.
RefusalNoted(k) ==
  /\ provider_requests'[k] = provider_requests[k]
  /\ \E outcome, error :
       /\ ~(outcome = "sent" \/ error \in {"uncertain", "lease_expired"})
       /\ job_attempts'[k] = RecordAttempt(k, outcome, error)
  /\ Zombies(k)' \subseteq Zombies(k)
  /\ ~OpenDoubt(k)

AccountStep(k) ==
  AccountRests(k) \/ RequestAccepted(k) \/ DoubtNoted(k) \/ RefusalNoted(k)

LEMMA BalanceStep ==
  ASSUME TypeOK, NEW k \in Jobs, Balanced(k), AccountStep(k) PROVE Balanced(k)'
PROOF
  <1> DEFINE p == provider_requests[k]     pn == provider_requests'[k]
             z == Cardinality(Zombies(k))  zn == Cardinality(Zombies(k)')
             d == Cardinality(Doubted(k))  dn == Cardinality(Doubted(k)')
  <1>1. /\ p \in Nat /\ z \in Nat /\ zn \in Nat /\ d \in Nat
        /\ OpenCount(k) \in 0..1 /\ OpenCount(k)' \in 0..1
    BY ZombiesFinite, ZombiesNextFinite, DoubtedFinite DEF TypeOK, OpenCount
  <1>2. p + z <= d + OpenCount(k) BY DEF Balanced
  <1>3. /\ OpenDoubt(k) => OpenCount(k) = 1
        /\ ~OpenDoubt(k) => OpenCount(k) = 0
        /\ OpenDoubt(k)' => OpenCount(k)' = 1
    BY DEF OpenCount
  <1>4. Zombies(k)' \subseteq Zombies(k) => zn <= z BY ZombiesFinite, FS_Subset
  <1>5. job_attempts'[k] = job_attempts[k] => dn = d BY DEF Doubted
  <1> HIDE DEF p, pn, z, zn, d, dn
  <1>6. SUFFICES pn + zn <= dn + OpenCount(k)' BY DEF Balanced, pn, zn, dn
  <1>7. CASE AccountRests(k)
    <2>1. pn = p /\ dn = d /\ zn <= z /\ (OpenDoubt(k) => OpenDoubt(k)')
      BY <1>4, <1>5, <1>7 DEF AccountRests, p, pn
    <2>2. OpenCount(k) <= OpenCount(k)' BY <1>1, <1>3, <2>1
    <2>3. QED BY <1>1, <1>2, <2>1, <2>2
  <1>8. CASE RequestAccepted(k)
    <2>1. pn = p + 1 /\ dn = d BY <1>5, <1>8 DEF RequestAccepted, p, pn
    <2>2. CASE Zombies(k)' \subseteq Zombies(k) /\ ~OpenDoubt(k) /\ OpenDoubt(k)'
      BY <1>1, <1>2, <1>3, <1>4, <2>1, <2>2
    <2>3. ASSUME NEW l \in Zombies(k), Zombies(k)' \subseteq Zombies(k) \ {l},
                 OpenDoubt(k) => OpenDoubt(k)'
          PROVE  pn + zn <= dn + OpenCount(k)'
      <3>1. /\ IsFiniteSet(Zombies(k) \ {l})
            /\ Cardinality(Zombies(k) \ {l}) = z - 1
        BY ZombiesFinite, FS_RemoveElement DEF z
      <3>2. zn <= z - 1 BY <2>3, <3>1, FS_Subset DEF zn
      <3>3. OpenCount(k) <= OpenCount(k)' BY <1>1, <1>3, <2>3
      <3>4. QED BY <1>1, <1>2, <2>1, <3>2, <3>3
    <2>4. QED BY <1>8, <2>2, <2>3 DEF RequestAccepted
  <1>9. CASE DoubtNoted(k)
    <2>1. pn = p /\ dn = d + 1 BY <1>9, DoubtRecorded DEF DoubtNoted, p, pn, d, dn
    <2>2. CASE Zombies(k)' \subseteq Zombies(k) BY <1>1, <1>2, <1>4, <2>1, <2>2
    <2>3. ASSUME ~OpenDoubt(k), NEW l, Zombies(k)' \subseteq Zombies(k) \cup {l}
          PROVE  pn + zn <= dn + OpenCount(k)'
      <3>1. /\ IsFiniteSet(Zombies(k) \cup {l})
            /\ Cardinality(Zombies(k) \cup {l}) <= z + 1
        BY <1>1, ZombiesFinite, FS_AddElement DEF z
      <3>2. Cardinality(Zombies(k) \cup {l}) \in Nat BY <3>1, FS_CardinalityType
      <3>3. zn <= Cardinality(Zombies(k) \cup {l}) BY <2>3, <3>1, FS_Subset DEF zn
      <3>4. QED BY <1>1, <1>2, <1>3, <2>1, <2>3, <3>1, <3>2, <3>3
    <2>4. QED BY <1>9, <2>2, <2>3 DEF DoubtNoted
  <1>10. CASE RefusalNoted(k)
    <2>1. pn = p /\ dn = d /\ zn <= z /\ OpenCount(k) = 0
      BY <1>3, <1>4, <1>10, DoubtRecorded DEF RefusalNoted, p, pn, d, dn
    <2>2. QED BY <1>1, <1>2, <2>1
  <1>11. QED BY <1>7, <1>8, <1>9, <1>10 DEF AccountStep

-----------------------------------------------------------------------------
(* Every step is one of these. *)

\* No two active tasks own a job.
LEMMA OneOwner ==
  ASSUME NEW k \in Jobs, HolderInv(k), NEW l \in Loops, Active(l, k), Owns(l, k),
         NEW m \in Loops, m # l, Active(m, k)
  PROVE  ~Owns(m, k)
PROOF BY DEF HolderInv, Owns

\* The claim stays as it is and tasks stay or go.
LEMMA Undisturbed ==
  ASSUME NEW k \in Jobs, TypeOK,
         provider_requests'[k] = provider_requests[k], job_attempts'[k] = job_attempts[k],
         jobs'[k].status = "processing" <=> jobs[k].status = "processing",
         jobs'[k].claim_token = jobs[k].claim_token,
         \A m \in Loops : task'[m][k] = task[m][k] \/ task'[m][k] = NoTask
  PROVE  AccountStep(k)
PROOF
  <1>1. \A m \in Loops : task'[m][k].stage # "none" => task'[m][k] = task[m][k]
    BY NoTaskFields
  <1>2. \A m \in Loops : Active(m, k)' => Active(m, k) /\ (Owns(m, k)' <=> Owns(m, k))
    BY <1>1 DEF Active, Owns
  <1>3. Zombies(k)' \subseteq Zombies(k) BY <1>1, <1>2 DEF Zombies, Active
  <1>4. OpenDoubt(k) => OpenDoubt(k)' BY <1>1, <1>2 DEF OpenDoubt, Active
  <1>5. QED BY <1>3, <1>4 DEF AccountStep, AccountRests

\* One task goes on, keeping its claim: its request goes out only under the claim, and
\* no doubt it had is settled.
LEMMA GoesOn ==
  ASSUME NEW k \in Jobs, TypeOK, NEW l \in Loops, Active(l, k),
         provider_requests'[k] = provider_requests[k], job_attempts'[k] = job_attempts[k],
         jobs'[k] = jobs[k],
         \A m \in Loops \ {l} : task'[m][k] = task[m][k],
         task'[l][k].token = task[l][k].token,
         task'[l][k].stage = "send" => Owns(l, k),
         Owns(l, k) /\ InDoubt(task[l][k]) => InDoubt(task'[l][k])
  PROVE  AccountStep(k)
PROOF
  <1>1. \A m \in Loops : Owns(m, k)' <=> Owns(m, k) BY DEF Owns
  <1>2. Zombies(k)' \subseteq Zombies(k) BY <1>1 DEF Zombies
  <1>3. OpenDoubt(k) => OpenDoubt(k)' BY <1>1 DEF OpenDoubt, Active
  <1>4. QED BY <1>2, <1>3 DEF AccountStep, AccountRests

\* The owner ends its claim: no request of it is on the way any more.
LEMMA EndsClaim ==
  ASSUME NEW k \in Jobs, TypeOK, HolderInv(k), NEW l \in Loops, Active(l, k), Owns(l, k),
         jobs'[k].status # "processing", task'[l][k] = NoTask,
         \A m \in Loops \ {l} : task'[m][k] = task[m][k]
  PROVE  Zombies(k)' \subseteq Zombies(k)
PROOF
  <1>1. task'[l][k].stage = "none" BY NoTaskFields
  <1>2. \A m \in Loops \ {l} : Active(m, k) => ~Owns(m, k) BY OneOwner
  <1>3. QED BY <1>1, <1>2 DEF Zombies, Active

LEMMA ClaimAccount ==
  ASSUME NEW k \in Jobs, TypeOK, LocksHeld, NEW l \in Loops, ClaimCommit(l)
  PROVE  AccountStep(k)
PROOF
  <1>1. PICK token \in [claiming[l] -> Tokens] :
          /\ \A j \in claiming[l] : Fresh(j, token[j])
          /\ jobs' = [j \in Jobs |-> IF j \in claiming[l]
                                     THEN ClaimedRow(jobs[j], token[j]) ELSE jobs[j]]
          /\ task' = [task EXCEPT ![l] =
                        [j \in Jobs |-> IF j \in claiming[l]
                                       THEN ClaimedTask(jobs[j], token[j]) ELSE task[l][j]]]
    BY DEF ClaimCommit
  <1>2. provider_requests' = provider_requests /\ job_attempts' = job_attempts
    BY DEF ClaimCommit, tables
  <1>3. CASE k \notin claiming[l]
    <2>1. \A m \in Loops : task'[m][k] = task[m][k] BY <1>1, <1>3 DEF TypeOK
    <2>2. jobs'[k] = jobs[k] BY <1>1, <1>3
    <2>3. QED BY <1>2, <2>1, <2>2, Undisturbed
  <1>4. CASE k \in claiming[l]
    <2>1. /\ token[k] \in Tokens /\ Fresh(k, token[k]) /\ jobs[k].status = "pending"
          /\ jobs'[k] = ClaimedRow(jobs[k], token[k]) /\ jobs[k] \in Row
      BY <1>1, <1>4 DEF LocksHeld, TypeOK
    <2>2. /\ task'[l][k] = ClaimedTask(jobs[k], token[k])
          /\ \A m \in Loops \ {l} : task'[m][k] = task[m][k]
      BY <1>1, <1>4 DEF TypeOK
    <2>3. task'[l][k].stage = "acquire" BY <2>1, <2>2, ClaimedTaskFields
    <2>4. Zombies(k)' \subseteq Zombies(k) BY <2>1, <2>2, <2>3 DEF Zombies, Owns
    <2>5. ~OpenDoubt(k) BY <2>1 DEF OpenDoubt
    <2>6. QED BY <1>2, <2>4, <2>5 DEF AccountStep, AccountRests
  <1>5. QED BY <1>3, <1>4

LEMMA ReapAccount ==
  ASSUME NEW k \in Jobs, TypeOK, HolderInv(k), NEW S \in SUBSET Jobs, Reap(S)
  PROVE  AccountStep(k)
PROOF
  <1>1. provider_requests' = provider_requests /\ task' = task BY DEF Reap
  <1>2. CASE k \notin S
    BY <1>1, <1>2, Undisturbed DEF Reap
  <1>3. CASE k \in S
    <2> DEFINE dead == k \in {j \in S : AtRetryCap(j)}
    <2>1. /\ jobs'[k] = FailedRow(jobs[k], dead, "lease_expired", TRUE)
          /\ job_attempts'[k] = RecordAttempt(k, "lease_expired", "lease_expired")
          /\ jobs[k].status = "processing"
      BY <1>3 DEF Reap, Expired
    <2> HIDE DEF dead
    <2>2. jobs'[k].status # "processing" BY <2>1, FailedRowIsNotClaimed DEF TypeOK
    <2>3. CASE \E l \in Loops : task[l][k].stage = "send" /\ Owns(l, k)
      <3>1. PICK l \in Loops : task[l][k].stage = "send" /\ Owns(l, k) BY <2>3
      <3>2. Active(l, k) /\ ~InDoubt(task[l][k]) BY <3>1 DEF Active, InDoubt
      <3>3. ~OpenDoubt(k) BY <3>1, <3>2 DEF OpenDoubt
      <3>4. \A m \in Loops : m # l /\ Active(m, k) => ~Owns(m, k)
        BY <3>1, <3>2, OneOwner
      <3>5. Zombies(k)' \subseteq Zombies(k) \cup {l}
        BY <1>1, <3>4 DEF Zombies, Active
      <3>6. QED BY <1>1, <2>1, <3>3, <3>5 DEF AccountStep, DoubtNoted
    <2>4. CASE ~\E l \in Loops : task[l][k].stage = "send" /\ Owns(l, k)
      <3>1. Zombies(k)' \subseteq Zombies(k) BY <1>1, <2>4 DEF Zombies
      <3>2. QED BY <1>1, <2>1, <3>1 DEF AccountStep, DoubtNoted
    <2>5. QED BY <2>3, <2>4
  <1>4. QED BY <1>2, <1>3

\* What moving on and failing do to one task.
LEMMA MovesOn ==
  ASSUME TypeOK, NEW l \in Loops, NEW k \in Jobs, NEW stage \in Stages, MoveTo(l, k, stage)
  PROVE  /\ task'[l][k].stage = stage /\ task'[l][k].token = task[l][k].token
         /\ task'[l][k].result = task[l][k].result
         /\ \A m \in Loops \ {l} : task'[m][k] = task[m][k]
PROOF
  <1>0. task[l][k] \in Task BY DEF TypeOK
  <1> DEFINE t == [task[l][k] EXCEPT !.stage = stage]
  <1>1. task' = [task EXCEPT ![l][k] = t] BY DEF MoveTo
  <1>2. /\ t \in Task /\ t.stage = stage /\ t.token = task[l][k].token
        /\ t.result = task[l][k].result
    BY <1>0, TaskFields
  <1> HIDE DEF t
  <1>3. QED BY <1>1, <1>2, TaskUpdate DEF TypeOK

LEMMA FailsWith ==
  ASSUME TypeOK, NEW l \in Loops, NEW k \in Jobs, NEW error \in SendErrors,
         Fails(l, k, error)
  PROVE  /\ task'[l][k].stage = "finalize" /\ task'[l][k].token = task[l][k].token
         /\ task'[l][k].result = error
         /\ \A m \in Loops \ {l} : task'[m][k] = task[m][k]
         /\ UNCHANGED <<jobs, job_attempts, provider_requests>>
PROOF
  <1>0. task[l][k] \in Task BY DEF TypeOK
  <1> DEFINE t == [task[l][k] EXCEPT !.stage = "finalize", !.result = error]
  <1>1. task' = [task EXCEPT ![l][k] = t] BY DEF Fails
  <1>2. /\ t \in Task /\ t.stage = "finalize" /\ t.token = task[l][k].token
        /\ t.result = error
    BY <1>0, TaskFields
  <1> HIDE DEF t
  <1>3. QED BY <1>1, <1>2, TaskUpdate DEF TypeOK, Fails, tables

\* A task's step, up to its result.
LEMMA SendAccount ==
  ASSUME NEW k \in Jobs, TypeOK, HolderInv(k), Unanswered(k), NEW l \in Loops,
         \/ RateLimited(l, k) \/ BudgetExceeded(l, k) \/ StartSend(l, k)
         \/ ProviderAccepts(l, k)
         \/ SendSucceeds(l, k) \/ SendRejected(l, k) \/ SendUncertain(l, k)
  PROVE  AccountStep(k)
PROOF
  <1>1. CASE RateLimited(l, k) \/ BudgetExceeded(l, k)
    <2>1. PICK stage \in {"return_limited", "return_unsent"} : MoveTo(l, k, stage)
      BY <1>1 DEF RateLimited, BudgetExceeded
    <2>2. /\ task[l][k].stage = "acquire"
          /\ UNCHANGED <<jobs, job_attempts, provider_requests>>
      BY <1>1 DEF RateLimited, BudgetExceeded, At, tables
    <2>3. Active(l, k) /\ ~InDoubt(task[l][k]) BY <2>2 DEF Active, InDoubt
    <2>4. /\ task'[l][k].stage = stage /\ task'[l][k].token = task[l][k].token
          /\ \A m \in Loops \ {l} : task'[m][k] = task[m][k]
      BY <2>1, MovesOn DEF Stages
    <2>5. QED BY <2>2, <2>3, <2>4, GoesOn
  <1>2. CASE StartSend(l, k)
    <2>1. /\ MoveTo(l, k, "send") /\ task[l][k].stage = "acquire" /\ Owns(l, k)
          /\ UNCHANGED <<jobs, job_attempts, provider_requests>>
      BY <1>2 DEF StartSend, At, tables
    <2>2. Active(l, k) /\ ~InDoubt(task[l][k]) BY <2>1 DEF Active, InDoubt
    <2>3. /\ task'[l][k].token = task[l][k].token
          /\ \A m \in Loops \ {l} : task'[m][k] = task[m][k]
      BY <2>1, MovesOn DEF Stages
    <2>4. QED BY <2>1, <2>2, <2>3, GoesOn
  <1>3. CASE ProviderAccepts(l, k)
    <2>1. /\ MoveTo(l, k, "accepted") /\ task[l][k].stage = "send"
          /\ provider_requests'[k] = provider_requests[k] + 1
          /\ UNCHANGED <<jobs, job_attempts>>
      BY <1>3 DEF ProviderAccepts, At, tables, TypeOK
    <2>2. /\ task'[l][k].stage = "accepted" /\ task'[l][k].token = task[l][k].token
          /\ \A m \in Loops \ {l} : task'[m][k] = task[m][k]
      BY <2>1, MovesOn DEF Stages
    <2>3. \A m \in Loops : Owns(m, k)' <=> Owns(m, k) BY <2>1, <2>2 DEF Owns
    <2>4. Active(l, k) /\ ~InDoubt(task[l][k]) /\ InDoubt(task'[l][k])
      BY <2>1, <2>2 DEF Active, InDoubt
    <2>5. CASE Owns(l, k)
      <3>1. Zombies(k)' \subseteq Zombies(k) BY <2>2, <2>3 DEF Zombies
      <3>2. ~OpenDoubt(k) BY <2>4, <2>5 DEF OpenDoubt
      <3>3. \A m \in Loops : m # l /\ Active(m, k)' => ~Owns(m, k)'
        BY <2>2, <2>3, <2>4, <2>5, OneOwner DEF Active
      <3>4. OpenDoubt(k)' BY <2>1, <2>4, <2>5, <3>3 DEF OpenDoubt, Owns
      <3>5. QED BY <2>1, <3>1, <3>2, <3>4 DEF AccountStep, RequestAccepted
    <2>6. CASE ~Owns(l, k)
      <3>1. l \in Zombies(k) /\ Zombies(k)' \subseteq Zombies(k) \ {l}
        BY <2>1, <2>2, <2>3, <2>6 DEF Zombies
      <3>2. OpenDoubt(k) => OpenDoubt(k)'
        BY <2>1, <2>2, <2>3, <2>4 DEF OpenDoubt, Active
      <3>3. QED BY <2>1, <3>1, <3>2 DEF AccountStep, RequestAccepted
    <2>7. QED BY <2>5, <2>6
  <1>4. CASE SendSucceeds(l, k)
    <2>1. /\ MoveTo(l, k, "finalize") /\ task[l][k].stage = "accepted"
          /\ UNCHANGED <<jobs, job_attempts, provider_requests>>
      BY <1>4 DEF SendSucceeds, At, tables
    <2>2. Active(l, k) /\ task[l][k].result = NoError
      BY <2>1 DEF Active, Unanswered
    <2>3. /\ task'[l][k].stage = "finalize" /\ task'[l][k].token = task[l][k].token
          /\ task'[l][k].result = NoError
          /\ \A m \in Loops \ {l} : task'[m][k] = task[m][k]
      BY <2>1, <2>2, MovesOn DEF Stages
    <2>4. InDoubt(task'[l][k]) BY <2>3 DEF InDoubt
    <2>5. QED BY <2>1, <2>2, <2>3, <2>4, GoesOn
  <1>5. CASE SendRejected(l, k)
    <2>1. PICK error \in {"rejected", "permanent"} : Fails(l, k, error)
      BY <1>5 DEF SendRejected
    <2>2. task[l][k].stage = "send" BY <1>5 DEF SendRejected, At
    <2>3. Active(l, k) /\ ~InDoubt(task[l][k]) BY <2>2 DEF Active, InDoubt
    <2>4. /\ task'[l][k].stage = "finalize" /\ task'[l][k].token = task[l][k].token
          /\ \A m \in Loops \ {l} : task'[m][k] = task[m][k]
          /\ UNCHANGED <<jobs, job_attempts, provider_requests>>
      BY <2>1, FailsWith DEF SendErrors
    <2>5. QED BY <2>3, <2>4, GoesOn
  <1>6. CASE SendUncertain(l, k)
    <2>1. Fails(l, k, "uncertain") /\ Active(l, k)
      BY <1>6 DEF SendUncertain, At, Active
    <2>2. /\ task'[l][k].stage = "finalize" /\ task'[l][k].token = task[l][k].token
          /\ task'[l][k].result = "uncertain"
          /\ \A m \in Loops \ {l} : task'[m][k] = task[m][k]
          /\ UNCHANGED <<jobs, job_attempts, provider_requests>>
      BY <2>1, FailsWith DEF SendErrors
    <2>3. InDoubt(task'[l][k]) BY <2>2 DEF InDoubt
    <2>4. QED BY <2>1, <2>2, <2>3, GoesOn
  <1>7. QED BY <1>1, <1>2, <1>3, <1>4, <1>5, <1>6

\* A task's last step.
LEMMA EndAccount ==
  ASSUME NEW k \in Jobs, TypeOK, HolderInv(k), jobs[k].status = "processing" =>
           jobs[k].attempts > 0, NEW l \in Loops,
         \/ ReturnToQueue(l, k) \/ MarkSent(l, k) \/ MarkFailed(l, k)
         \/ DiscardResult(l, k) \/ TaskFails(l, k)
  PROVE  AccountStep(k)
PROOF
  <1>1. /\ End(l, k) /\ Active(l, k) /\ provider_requests' = provider_requests
    BY DEF ReturnToQueue, MarkSent, MarkFailed, DiscardResult, TaskFails, At, Active
  <1>2. /\ task'[l][k] = NoTask
        /\ \A m \in Loops \ {l} : task'[m][k] = task[m][k]
    BY <1>1 DEF End, TypeOK
  <1>3. CASE jobs' = jobs /\ job_attempts' = job_attempts
    BY <1>1, <1>2, <1>3, Undisturbed
  <1>4. CASE ReturnToQueue(l, k) /\ Owns(l, k)
    <2>1. /\ jobs'[k] = ReturnedRow(jobs[k], At(l, k, "return_unsent"))
          /\ job_attempts' = job_attempts
          /\ task[l][k].stage \in {"return_limited", "return_unsent"}
      BY <1>4 DEF ReturnToQueue, At, tables, TypeOK
    <2>2. At(l, k, "return_unsent") \in BOOLEAN BY DEF At
    <2>3. jobs[k].attempts > 0 BY <1>4 DEF Owns
    <2>4. jobs[k] \in Row BY DEF TypeOK
    <2>5. jobs'[k].status # "processing" BY <2>1, <2>2, <2>3, <2>4, ReturnedRowFields
    <2>6. Zombies(k)' \subseteq Zombies(k) BY <1>1, <1>2, <1>4, <2>5, EndsClaim
    <2>7. ~OpenDoubt(k) BY <1>1, <1>4, <2>1 DEF OpenDoubt, InDoubt
    <2>8. QED BY <1>1, <2>1, <2>6, <2>7 DEF AccountStep, AccountRests
  <1>5. CASE MarkSent(l, k)
    <2>1. /\ jobs'[k] = SentRow(jobs[k]) /\ Owns(l, k)
          /\ job_attempts'[k] = RecordAttempt(k, "sent", NoError)
      BY <1>5 DEF MarkSent, TypeOK
    <2>2. jobs[k] \in Row BY DEF TypeOK
    <2>3. jobs'[k].status # "processing" BY <2>1, <2>2, SentRowFields
    <2>4. Zombies(k)' \subseteq Zombies(k) BY <1>1, <1>2, <2>1, <2>3, EndsClaim
    <2>5. QED BY <1>1, <2>1, <2>4 DEF AccountStep, DoubtNoted
  <1>6. CASE MarkFailed(l, k)
    <2> DEFINE error == task[l][k].result
               dead == error = "permanent" \/ AtRetryCap(k)
    <2>1. /\ jobs'[k] = FailedRow(jobs[k], dead, error, dead /\ jobs[k].due) /\ Owns(l, k)
          /\ job_attempts'[k] = RecordAttempt(k, "failed", error)
          /\ task[l][k].stage = "finalize" /\ error # NoError
      BY <1>6 DEF MarkFailed, At, TypeOK
    <2>2. jobs[k] \in Row /\ task[l][k] \in Task BY DEF TypeOK
    <2>3. error \in SendErrors BY <2>1, <2>2 DEF Task
    <2> HIDE DEF dead
    <2>4. jobs'[k].status # "processing" BY <2>1, <2>2, FailedRowIsNotClaimed
    <2>5. Zombies(k)' \subseteq Zombies(k) BY <1>1, <1>2, <2>1, <2>4, EndsClaim
    <2>6. CASE error = "uncertain"
      BY <1>1, <2>1, <2>5, <2>6 DEF AccountStep, DoubtNoted
    <2>7. CASE error \in {"rejected", "permanent"}
      <3>1. ~InDoubt(task[l][k]) BY <2>1, <2>7 DEF InDoubt, NoError
      <3>2. ~OpenDoubt(k) BY <1>1, <2>1, <3>1 DEF OpenDoubt
      <3>3. QED BY <1>1, <2>1, <2>5, <2>7, <3>2 DEF AccountStep, RefusalNoted
    <2>8. QED BY <2>3, <2>6, <2>7 DEF SendErrors
  <1>7. QED
    BY <1>3, <1>4, <1>5, <1>6 DEF ReturnToQueue, DiscardResult, TaskFails, tables

LEMMA AccountSteps ==
  ASSUME TablesInv, NEW k \in Jobs, HolderInv(k), Unanswered(k), [Next]_vars
  PROVE  AccountStep(k)
PROOF
  <1>1. TypeOK /\ LocksHeld /\ Numbered(k) BY DEF TablesInv, JobInv
  <1>2. /\ jobs[k] \in Row
        /\ jobs[k].status = "processing" => jobs[k].attempts > 0
    BY <1>1 DEF TypeOK, Numbered
  <1>3. CASE UNCHANGED vars BY <1>1, <1>3, Undisturbed DEF vars, tables
  <1>4. ASSUME NEW j \in Jobs, CreateJob(j) PROVE AccountStep(k)
    <2>1. /\ UNCHANGED <<provider_requests, job_attempts, task>>
          /\ k # j => jobs'[k] = jobs[k]
      BY <1>1, <1>4 DEF CreateJob, tables, TypeOK
    <2>2. CASE k = j
      <3>1. PICK n \in MaxAttempts, due \in BOOLEAN : jobs'[k] = NewRow(n, due)
        BY <1>1, <1>4, <2>2 DEF CreateJob, TypeOK
      <3>2. jobs'[k].status # "processing" /\ jobs[k].status # "processing"
        BY <1>4, <2>2, <3>1, NewRowFields DEF CreateJob
      <3>3. Zombies(k)' \subseteq Zombies(k) BY <2>1, <3>2 DEF Zombies, Owns
      <3>4. ~OpenDoubt(k) BY <3>2 DEF OpenDoubt
      <3>5. QED BY <2>1, <3>3, <3>4 DEF AccountStep, AccountRests
    <2>3. QED BY <1>1, <2>1, <2>2, Undisturbed
  <1>5. ASSUME NEW j \in Jobs, RequeueDeadLetter(j) PROVE AccountStep(k)
    <2>1. /\ UNCHANGED <<provider_requests, job_attempts, task>>
          /\ k # j => jobs'[k] = jobs[k]
      BY <1>1, <1>5 DEF RequeueDeadLetter, TypeOK
    <2>2. CASE k = j
      <3>1. PICK extra \in ExtraAttempts : jobs'[k] = RequeuedRow(jobs[k], extra)
        BY <1>1, <1>5, <2>2 DEF RequeueDeadLetter, TypeOK
      <3>2. /\ jobs'[k].status # "processing" /\ jobs[k].status # "processing"
            /\ jobs'[k].claim_token = jobs[k].claim_token
        BY <1>2, <1>5, <2>2, <3>1, RequeuedRowFields DEF RequeueDeadLetter
      <3>3. QED BY <1>1, <2>1, <3>2, Undisturbed
    <2>3. QED BY <1>1, <2>1, <2>2, Undisturbed
  <1>6. ASSUME NEW j \in Jobs, BecomeDue(j) \/ LeaseExpires(j) PROVE AccountStep(k)
    <2>1. UNCHANGED <<provider_requests, job_attempts, task>>
      BY <1>6 DEF BecomeDue, LeaseExpires, tables
    <2>2. /\ jobs'[k].status = jobs[k].status
          /\ jobs'[k].claim_token = jobs[k].claim_token
      <3>1. CASE k # j BY <1>1, <1>6, <3>1 DEF BecomeDue, LeaseExpires, TypeOK
      <3>2. CASE k = j
        <4>1. \/ jobs'[k] = [jobs[k] EXCEPT !.due = TRUE]
              \/ jobs'[k] = [jobs[k] EXCEPT !.lease_expired = TRUE]
          BY <1>1, <1>6, <3>2 DEF BecomeDue, LeaseExpires, TypeOK
        <4>2. QED BY <1>2, <4>1, TickedRowFields
      <3>3. QED BY <3>1, <3>2
    <2>3. QED BY <1>1, <2>1, <2>2, Undisturbed
  <1>7. ASSUME NEW l \in Loops, ClaimLock(l) \/ Crash(l) PROVE AccountStep(k)
    <2>1. UNCHANGED <<jobs, provider_requests, job_attempts>>
      BY <1>7 DEF ClaimLock, Crash, tables
    <2>2. \A m \in Loops : task'[m][k] = task[m][k] \/ task'[m][k] = NoTask
      <3>1. CASE ClaimLock(l) BY <3>1 DEF ClaimLock
      <3>2. CASE Crash(l)
        <4>1. task \in [Loops -> [Jobs -> Task]] BY <1>1 DEF TypeOK
        <4>2. task' = [task EXCEPT ![l] = [j \in Jobs |-> NoTask]] BY <3>2 DEF Crash
        <4>3. QED BY <4>1, <4>2
      <3>3. QED BY <1>7, <3>1, <3>2
    <2>3. QED BY <1>1, <2>1, <2>2, Undisturbed
  <1>8. ASSUME NEW l \in Loops, ClaimCommit(l) PROVE AccountStep(k)
    BY <1>1, <1>8, ClaimAccount
  <1>9. ASSUME NEW l \in Loops, NEW j \in Jobs, Deliver(l, j) \/ TaskFails(l, j)
        PROVE  AccountStep(k)
    <2>1. CASE j = k
      BY <1>1, <1>2, <1>9, <2>1, SendAccount, EndAccount DEF Deliver
    <2>2. CASE j # k
      <3>1. \A m \in Loops : task'[m][k] = task[m][k]
        BY <1>1, <1>9, <2>2, TaskSteps DEF TaskMoves
      <3>2. /\ jobs'[k] = jobs[k] /\ job_attempts'[k] = job_attempts[k]
            /\ provider_requests'[k] = provider_requests[k]
        BY <1>1, <1>9, <2>2
        DEF Deliver, RateLimited, BudgetExceeded, StartSend, ReturnToQueue,
            ProviderAccepts, SendSucceeds, SendRejected, SendUncertain, Fails, MarkSent,
            MarkFailed, DiscardResult, TaskFails, tables, TypeOK
      <3>3. QED BY <1>1, <3>1, <3>2, Undisturbed
    <2>3. QED BY <2>1, <2>2
  <1>10. ASSUME NEW S \in SUBSET Jobs, Reap(S) PROVE AccountStep(k)
    BY <1>1, <1>10, ReapAccount
  <1>11. QED
    BY <1>3, <1>4, <1>5, <1>6, <1>7, <1>8, <1>9, <1>10 DEF Next

LEMMA UnansweredStep ==
  ASSUME TypeOK, NEW k \in Jobs, Unanswered(k), [Next]_vars PROVE Unanswered(k)'
PROOF
  <1>a. NoTask.result = NoError BY DEF NoTask
  <1>1. SUFFICES ASSUME NEW l \in Loops, task'[l][k].stage # "finalize",
                        task'[l][k] # task[l][k], task'[l][k] # NoTask
                 PROVE  task'[l][k].result = NoError
    BY <1>a DEF Unanswered
  <1>2. ASSUME NEW m \in Loops, ClaimCommit(m) PROVE task'[l][k].result = NoError
    <2>1. PICK token \in [claiming[m] -> Tokens] :
            task' = [task EXCEPT ![m] =
                       [j \in Jobs |-> IF j \in claiming[m]
                                      THEN ClaimedTask(jobs[j], token[j]) ELSE task[m][j]]]
      BY <1>2 DEF ClaimCommit
    <2>2. task'[l][k] = ClaimedTask(jobs[k], token[k])
      BY <1>1, <2>1 DEF TypeOK
    <2>3. QED BY <2>2 DEF ClaimedTask
  <1>3. ASSUME NEW m \in Loops, NEW j \in Jobs, Deliver(m, j) \/ TaskFails(m, j)
        PROVE  task'[l][k].result = NoError
    <2>1. m = l /\ j = k BY <1>1, <1>3, TaskSteps DEF TaskMoves
    <2>2. ~End(l, k) BY <1>1 DEF End, TypeOK
    <2>3. ASSUME NEW error \in SendErrors PROVE ~Fails(l, k, error)
      BY <1>1, FailsWith
    <2>4. PICK stage \in Stages : MoveTo(l, k, stage) /\ task[l][k].stage # "finalize"
      BY <1>3, <2>1, <2>2, <2>3
      DEF Deliver, RateLimited, BudgetExceeded, StartSend, ReturnToQueue, ProviderAccepts,
          SendSucceeds, SendRejected, SendUncertain, SendErrors, MarkSent, MarkFailed,
          DiscardResult, TaskFails, At, Stages
    <2>5. task'[l][k].result = task[l][k].result BY <2>4, MovesOn
    <2>6. QED BY <2>4, <2>5 DEF Unanswered
  <1>4. ASSUME NEW m \in Loops, task' = [task EXCEPT ![m] = [j \in Jobs |-> NoTask]]
        PROVE  FALSE
    BY <1>1, <1>4 DEF TypeOK
  <1>5. QED BY <1>1, <1>2, <1>3, <1>4, TaskFrame

-----------------------------------------------------------------------------
(* The theorem. *)

LEMMA AccountsHold == Spec => [](\A k \in Jobs : AccountInv(k))
PROOF
  <1>1. Init => \A k \in Jobs : AccountInv(k)
    <2> SUFFICES ASSUME Init, NEW k \in Jobs PROVE AccountInv(k) OBVIOUS
    <2>1. Zombies(k) = {} BY NoTaskFields DEF Init, Zombies
    <2>2. Doubted(k) = {} BY DEF Init, Doubted
    <2>3. provider_requests[k] = 0 /\ Cardinality({}) = 0 BY FS_EmptySet DEF Init
    <2>4. Balanced(k) BY <2>1, <2>2, <2>3 DEF Balanced, OpenCount
    <2>5. Unanswered(k) BY DEF Init, Unanswered, NoTask
    <2>6. QED BY <2>4, <2>5 DEF AccountInv
  <1>2. TablesInv /\ (\A k \in Jobs : HolderInv(k)) /\ (\A k \in Jobs : AccountInv(k))
          /\ [Next]_vars => (\A k \in Jobs : AccountInv(k))'
    <2> SUFFICES ASSUME TablesInv, \A k \in Jobs : HolderInv(k),
                        \A k \in Jobs : AccountInv(k), [Next]_vars, NEW k \in Jobs
                 PROVE  AccountInv(k)'
        OBVIOUS
    <2>1. TypeOK /\ Balanced(k) /\ Unanswered(k) BY DEF TablesInv, AccountInv
    <2>2. AccountStep(k) BY <2>1, AccountSteps
    <2>3. QED BY <2>1, <2>2, BalanceStep, UnansweredStep DEF AccountInv
  <1>3. QED BY <1>1, <1>2, TablesInvHolds, HoldersHold, PTL DEF Spec

\* The provider has at most one request per attempt that is recorded as sent or in doubt,
\* and one for the open attempt: neither mark_failed after a refusal, nor a returned claim,
\* nor a race between claimers, nor a late request of a displaced worker adds a copy that
\* no record accounts for.
THEOREM ResentOnlyAfterDoubtHolds == Spec => []ResentOnlyAfterDoubt
PROOF
  <1>1. TypeOK /\ (\A k \in Jobs : AccountInv(k)) => ResentOnlyAfterDoubt
    <2> SUFFICES ASSUME TypeOK, \A k \in Jobs : AccountInv(k), NEW k \in Jobs
                 PROVE  provider_requests[k] <=
                          Cardinality(Doubted(k))
                          + IF jobs[k].status = "processing" THEN 1 ELSE 0
        BY DEF ResentOnlyAfterDoubt, Doubted
    <2>1. /\ provider_requests[k] \in Nat
          /\ Cardinality(Zombies(k)) \in Nat /\ Cardinality(Doubted(k)) \in Nat
      BY ZombiesFinite, DoubtedFinite DEF TypeOK
    <2>2. OpenCount(k) <= IF jobs[k].status = "processing" THEN 1 ELSE 0
      BY DEF OpenCount, OpenDoubt
    <2>3. OpenCount(k) \in 0..1 BY DEF OpenCount
    <2>4. QED BY <2>1, <2>2, <2>3 DEF AccountInv, Balanced
  <1>2. QED BY <1>1, AccountsHold, TypeCorrect, PTL

\* "A dead-lettered job was never delivered" holds of every job whose attempts were all
\* refused: if the provider has a request of a dead-lettered job, one of its recorded
\* attempts timed out or was cut off by the reaper.
DeliveredOnlyInDoubt ==
  \A j \in Jobs :
    jobs[j].status = "dead_lettered" /\ provider_requests[j] # 0 =>
      \E i \in DOMAIN job_attempts[j] :
        job_attempts[j][i].error \in {"uncertain", "lease_expired"}

\* Neither a dead letter nor any path to one hides a delivery that the attempts on record
\* do not own up to: what an operator who requeues a dead letter may rely on.
THEOREM DeadLettersOwnUpToDoubt == Spec => []DeliveredOnlyInDoubt
PROOF
  <1>1. TypeOK /\ DeliveredOnce /\ ResentOnlyAfterDoubt => DeliveredOnlyInDoubt
    <2> SUFFICES ASSUME TypeOK, DeliveredOnce, ResentOnlyAfterDoubt, NEW k \in Jobs,
                        jobs[k].status = "dead_lettered", provider_requests[k] # 0
                 PROVE  \E i \in DOMAIN job_attempts[k] :
                          job_attempts[k][i].error \in {"uncertain", "lease_expired"}
      BY DEF DeliveredOnlyInDoubt
    <2>1. provider_requests[k] \in Nat BY DEF TypeOK
    <2>2. provider_requests[k] <= Cardinality(Doubted(k)) + 0
      BY DEF ResentOnlyAfterDoubt, Doubted
    <2>3. Cardinality(Doubted(k)) # 0 BY <2>1, <2>2, DoubtedFinite
    <2>4. Doubted(k) # {} BY <2>3, FS_EmptySet
    <2>5. PICK i \in DOMAIN job_attempts[k] : MayHaveReached(job_attempts[k][i])
      BY <2>4 DEF Doubted
    <2>6. job_attempts[k][i].outcome # "sent" BY DEF DeliveredOnce
    <2>7. QED BY <2>5, <2>6 DEF MayHaveReached
  <1>2. QED BY <1>1, TypeCorrect, RecordedOnce, ResentOnlyAfterDoubtHolds, PTL

\* The cap is one on requests too, not only on what is recorded.
RequestsWithinCap ==
  \A j \in Jobs : /\ provider_requests[j] <= jobs[j].attempts
                  /\ jobs[j].attempts <= jobs[j].max_attempts

\* However often a job is claimed, returned, lost in the middle of a send and claimed again,
\* the provider is asked at most once per counted attempt.  return_to_queue, which takes
\* an attempt back, never takes back one whose request is out.
THEOREM RequestsStayWithinCap == Spec => []RequestsWithinCap
PROOF
  <1>1. /\ TypeOK /\ AttemptsNumberedInOrder /\ WithinRetryCap /\ ResentOnlyAfterDoubt
        => RequestsWithinCap
    <2> SUFFICES ASSUME TypeOK, AttemptsNumberedInOrder, WithinRetryCap,
                        ResentOnlyAfterDoubt, NEW k \in Jobs
                 PROVE  /\ provider_requests[k] <= jobs[k].attempts
                        /\ jobs[k].attempts <= jobs[k].max_attempts
      BY DEF RequestsWithinCap
    <2> DEFINE open == IF jobs[k].status = "processing" THEN 1 ELSE 0
               len == Len(job_attempts[k])
    <2>1. /\ job_attempts[k] \in Seq(AttemptRecord) /\ provider_requests[k] \in Nat
      BY DEF TypeOK
    <2>2. len \in Nat /\ DOMAIN job_attempts[k] = 1..len BY <2>1
    <2>3. Cardinality(Doubted(k)) \in Nat /\ Cardinality(Doubted(k)) <= len
      <3>1. Doubted(k) \in SUBSET (1..len) BY <2>2 DEF Doubted
      <3>2. IsFiniteSet(1..len) /\ Cardinality(1..len) = len BY <2>2, FS_Interval
      <3>3. Cardinality(Doubted(k)) <= Cardinality(1..len) BY <3>1, <3>2, FS_Subset
      <3>4. QED BY <3>2, <3>3, DoubtedFinite
    <2>4. provider_requests[k] <= Cardinality(Doubted(k)) + open
      BY DEF ResentOnlyAfterDoubt, Doubted
    <2>5. jobs[k].attempts = len + open BY DEF AttemptsNumberedInOrder
    <2>6. open \in 0..1 OBVIOUS
    <2> HIDE DEF open, len
    <2>7. provider_requests[k] <= jobs[k].attempts BY <2>1, <2>2, <2>3, <2>4, <2>5, <2>6
    <2>8. QED BY <2>7 DEF WithinRetryCap
  <1>2. QED BY <1>1, TypeCorrect, AttemptsAreNumberedInOrder, RetryCapHolds,
              ResentOnlyAfterDoubtHolds, PTL
=============================================================================
