------------------------- MODULE RateLimiterProofs -------------------------
(***************************************************************************)
(* What the limiter promises, for any number of jobs, any limit and any    *)
(* window: the sliding window never hands out more slots than the limit, a *)
(* refused job is told exactly how long to wait, and what was admitted in  *)
(* the windows it takes to cover two and a send bounds the messages of any *)
(* one.  So does the limit itself, while messages are as old as their      *)
(* slots.                                                                  *)
(***************************************************************************)
EXTENDS RateLimiter, FiniteSetTheorems, WellFoundedInduction, TLAPS

-----------------------------------------------------------------------------
(* The inductive invariant: only with types and the limit together is it known *)
(* that a job is refused by a full set, and that its wait is one.              *)

SlotsInv == TypeOK /\ SlotsWithinLimit

-----------------------------------------------------------------------------
(* The oldest member of a set of ages. *)

LEMMA LeastExists ==
  ASSUME NEW S \in SUBSET Nat, S # {} PROVE \E x \in S : \A y \in S : x <= y
PROOF
  <1> DEFINE R == OpToRel(<, Nat)
  <1>1. IsWellFoundedOn(R, Nat) BY NatLessThanWellFounded
  <1>2. \A x, y \in Nat : y < x => <<y, x>> \in R BY DEF OpToRel
  <1> HIDE DEF R
  <1>3. PICK x \in S : \A y \in S : ~(<<y, x>> \in R) BY <1>1, WFMin, Zenon
  <1>4. ASSUME NEW y \in S PROVE x <= y
    <2>1. x \in Nat /\ y \in Nat OBVIOUS
    <2>2. ~(y < x) BY <1>2, <1>3, <2>1
    <2>3. QED BY <2>1, <2>2
  <1>5. QED BY <1>4

LEMMA MaxOfAges ==
  ASSUME NEW n \in Nat, NEW S \in SUBSET (0..n), S # {}
  PROVE  Max(S) \in S /\ \A y \in S : Max(S) >= y
PROOF
  <1> DEFINE T == {n - y : y \in S}
  <1>1. \A y \in S : n - y \in T OBVIOUS
  <1>2. T \in SUBSET Nat OBVIOUS
  <1>3. T # {} BY <1>1
  <1>4. \A t \in T : \E y \in S : t = n - y OBVIOUS
  <1> HIDE DEF T
  <1>5. PICK t \in T : \A u \in T : t <= u BY <1>2, <1>3, LeastExists, Zenon
  <1>6. PICK x \in S : t = n - x BY <1>4
  <1>7. ASSUME NEW y \in S PROVE x >= y
    <2>1. t <= n - y BY <1>1, <1>5
    <2>2. QED BY <1>6, <2>1
  <1>8. \E z \in S : \A y \in S : z >= y BY <1>7
  <1>9. QED BY <1>8 DEF Max

-----------------------------------------------------------------------------
(* The sorted set. *)

Ages == {None} \cup 0..Window

LEMMA NumberFields ==
  /\ Window \in Nat /\ Window > 0 /\ Limit \in Nat /\ Limit > 0 /\ None = -1
  /\ SendTime \in Nat
PROOF BY LimitAssumption, SendAssumption DEF None

\* The members that count are those a trim leaves.
LEMMA HoldingFields ==
  ASSUME slot \in [Jobs -> Ages]
  PROVE  /\ Holding = {j \in Jobs : slot[j] \in 0..(Window - 1)}
         /\ IsFiniteSet(Holding) /\ Cardinality(Holding) \in Nat
PROOF
  <1>1. Holding = {j \in Jobs : slot[j] \in 0..(Window - 1)}
    BY NumberFields DEF Holding, Ages
  <1>2. IsFiniteSet(Holding) BY <1>1, JobsAssumption, FS_Subset
  <1>3. QED BY <1>1, <1>2, FS_CardinalityType

LEMMA TrimmedFields ==
  ASSUME slot \in [Jobs -> Ages]
  PROVE  /\ Trimmed \in [Jobs -> Ages]
         /\ \A j \in Jobs : Trimmed[j] = slot[j] \/ Trimmed[j] = None
         /\ \A j \in Jobs : Trimmed[j] \in 0..(Window - 1) => j \in Holding
PROOF BY NumberFields DEF Trimmed, Holding, Ages

\* Members that leave or expire make room.
LEMMA FewerSlots ==
  ASSUME SlotsWithinLimit, NEW S \in SUBSET {j \in Jobs : slot[j] \in 0..(Window - 1)}
  PROVE  Cardinality(S) <= Limit
PROOF
  <1> DEFINE H == {j \in Jobs : slot[j] \in 0..(Window - 1)}
  <1>1. IsFiniteSet(H) BY JobsAssumption, FS_Subset
  <1>2. Cardinality(H) <= Limit BY DEF SlotsWithinLimit
  <1> HIDE DEF H
  <1>3. S \in SUBSET H BY DEF H
  <1>4. /\ IsFiniteSet(S) /\ Cardinality(S) <= Cardinality(H)
    BY <1>1, <1>3, FS_Subset
  <1>5. Cardinality(S) \in Nat /\ Cardinality(H) \in Nat BY <1>1, <1>4, FS_CardinalityType
  <1>6. QED BY <1>2, <1>4, <1>5, NumberFields

LEMMA FewerSlotsNext ==
  ASSUME SlotsWithinLimit,
         \A j \in Jobs : slot'[j] \in 0..(Window - 1) => slot[j] \in 0..(Window - 1)
  PROVE  SlotsWithinLimit'
PROOF
  <1>1. {j \in Jobs : slot'[j] \in 0..(Window - 1)}
          \in SUBSET {j \in Jobs : slot[j] \in 0..(Window - 1)}
    OBVIOUS
  <1>2. QED BY <1>1, FewerSlots DEF SlotsWithinLimit

\* The script looks and takes in one go: the last slot is taken once.
LEMMA AdmitSlots ==
  ASSUME SlotsWithinLimit, slot \in [Jobs -> Ages], NEW j \in Jobs, Admit(j)
  PROVE  slot' \in [Jobs -> Ages] /\ SlotsWithinLimit'
PROOF
  <1>1. CASE j \in Holding
    <2>1. slot' = Trimmed BY <1>1 DEF Admit
    <2>2. \A k \in Jobs : slot'[k] \in 0..(Window - 1) => slot[k] \in 0..(Window - 1)
      BY <2>1, TrimmedFields, HoldingFields
    <2>3. QED BY <2>1, <2>2, TrimmedFields, FewerSlotsNext
  <1>2. CASE j \notin Holding
    <2>1. slot' = [Trimmed EXCEPT ![j] = 0] /\ HasRoom BY <1>2 DEF Admit
    <2>2. slot' \in [Jobs -> Ages] BY <2>1, TrimmedFields, NumberFields DEF Ages
    <2> DEFINE S == {k \in Jobs : slot'[k] \in 0..(Window - 1)}
    <2>3. S \in SUBSET (Holding \cup {j})
      BY <2>1, TrimmedFields
    <2>4. /\ IsFiniteSet(Holding \cup {j})
          /\ Cardinality(Holding \cup {j}) = Cardinality(Holding) + 1
      BY <1>2, HoldingFields, FS_AddElement
    <2>5. /\ IsFiniteSet(S) /\ Cardinality(S) <= Cardinality(Holding \cup {j})
      BY <2>3, <2>4, FS_Subset
    <2>6. Cardinality(S) \in Nat BY <2>5, FS_CardinalityType
    <2>7. Cardinality(Holding) < Limit BY <2>1 DEF HasRoom
    <2>8. Cardinality(S) <= Limit
      BY <2>4, <2>5, <2>6, <2>7, HoldingFields, NumberFields
    <2>9. QED BY <2>2, <2>8 DEF SlotsWithinLimit
  <1>3. QED BY <1>1, <1>2

\* A refused job waits until the oldest of the members that were in its way expires.
LEMMA RefuseSlots ==
  ASSUME SlotsWithinLimit, slot \in [Jobs -> Ages], NEW j \in Jobs, Refuse(j)
  PROVE  /\ slot' \in [Jobs -> Ages] /\ SlotsWithinLimit'
         /\ WaitForOldest \in 1..Window
         /\ \E k \in Holding : /\ WaitForOldest = Window - slot[k]
                               /\ \A i \in Holding : slot[i] <= slot[k]
PROOF
  <1>1. slot' = Trimmed BY DEF Refuse
  <1>2. \A k \in Jobs : slot'[k] \in 0..(Window - 1) => slot[k] \in 0..(Window - 1)
    BY <1>1, TrimmedFields, HoldingFields
  <1>3. slot' \in [Jobs -> Ages] /\ SlotsWithinLimit'
    BY <1>1, <1>2, TrimmedFields, FewerSlotsNext
  <1> DEFINE S == {slot[k] : k \in Holding}
  <1>4. S \in SUBSET (0..(Window - 1)) BY HoldingFields
  <1>5. Holding # {}
    BY HoldingFields, FS_EmptySet, NumberFields DEF Refuse, HasRoom
  <1>6. S # {} BY <1>5
  <1>7. Window - 1 \in Nat BY NumberFields
  <1>8. \A k \in Holding : slot[k] \in S OBVIOUS
  <1>9. \A x \in S : \E k \in Holding : x = slot[k] OBVIOUS
  <1>10. WaitForOldest = Window - Max(S) BY DEF WaitForOldest
  <1> HIDE DEF S
  <1>11. Max(S) \in S /\ \A y \in S : Max(S) >= y BY <1>4, <1>6, <1>7, MaxOfAges
  <1>12. PICK k \in Holding : Max(S) = slot[k] BY <1>9, <1>11
  <1>13. Max(S) \in 0..(Window - 1) BY <1>4, <1>11
  <1>14. WaitForOldest \in 1..Window BY <1>10, <1>13, NumberFields
  <1>15. \A i \in Holding : slot[i] <= slot[k]
    <2> TAKE i \in Holding
    <2>1. slot[i] \in S /\ slot[i] \in 0..(Window - 1) BY <1>4, <1>8
    <2>2. QED BY <1>11, <1>12, <1>13, <2>1
  <1>16. QED BY <1>3, <1>10, <1>12, <1>14, <1>15

-----------------------------------------------------------------------------
(* Every step preserves the invariant. *)

JobStates == [stage : Stages, wait : 0..(Window + SendTime)]

LEMMA Moved ==
  ASSUME job \in [Jobs -> JobStates], NEW j \in Jobs, NEW stage \in Stages, MoveTo(j, stage)
  PROVE  job' \in [Jobs -> JobStates]
PROOF
  <1> DEFINE s == [job[j] EXCEPT !.stage = stage]
  <1>1. s \in JobStates BY DEF JobStates
  <1>2. job' = [job EXCEPT ![j] = s] BY DEF MoveTo
  <1> HIDE DEF s
  <1>3. QED BY <1>1, <1>2

LEMMA Waits ==
  ASSUME job \in [Jobs -> JobStates], NEW j \in Jobs, NEW stage \in Stages,
         NEW ticks \in 0..(Window + SendTime), WaitFor(j, ticks, stage)
  PROVE  job' \in [Jobs -> JobStates]
PROOF BY DEF WaitFor, JobStates

\* What a task may do once it is admitted or refused.
LEMMA GoesOn ==
  ASSUME job \in [Jobs -> JobStates], NEW j \in Jobs,
         \/ ReturnLimited(j) \/ Accept(j) \/ MarkSent(j)
         \/ ReturnUnsent(j) \/ MarkRejected(j) \/ EndInDoubt(j)
  PROVE  /\ job' \in [Jobs -> JobStates]
         /\ \A k \in Jobs : k # j => job'[k] = job[k]
         /\ job'[j].stage \in {"waiting", "accepted", "done"}
PROOF
  <1>1. {"waiting", "accepted", "done"} \subseteq Stages /\ 0 \in 0..(Window + SendTime)
    BY NumberFields DEF Stages
  <1>2. CASE MoveTo(j, "waiting")
    BY <1>1, <1>2, Moved DEF MoveTo, JobStates
  <1>3. ASSUME NEW stage \in {"waiting", "accepted", "done"}, WaitFor(j, 0, stage)
        PROVE  /\ job' \in [Jobs -> JobStates]
               /\ \A k \in Jobs : k # j => job'[k] = job[k]
               /\ job'[j].stage \in {"waiting", "accepted", "done"}
    BY <1>1, <1>3, Waits DEF WaitFor, JobStates
  <1>4. QED
    BY <1>2, <1>3
    DEF ReturnLimited, Accept, MarkSent, ReturnUnsent, MarkRejected, EndInDoubt, GivesUp,
        GoesTo

LEMMA InitInv == Init => SlotsInv
PROOF
  <1> SUFFICES ASSUME Init PROVE SlotsInv OBVIOUS
  <1>1. TypeOK BY NumberFields DEF Init, TypeOK, Stages
  <1>2. {j \in Jobs : slot[j] \in 0..(Window - 1)} = {} BY NumberFields DEF Init
  <1>3. SlotsWithinLimit BY <1>2, FS_EmptySet, NumberFields DEF SlotsWithinLimit
  <1>4. QED BY <1>1, <1>3 DEF SlotsInv

\* Growing older, members only leave.
LEMMA TickInv == ASSUME SlotsInv, Tick PROVE SlotsInv'
PROOF
  <1>1. TypeOK /\ SlotsWithinLimit BY DEF SlotsInv
  <1>2. \A age \in Ages : Older(age) \in Ages BY NumberFields DEF Older, Ages
  <1>3. slot' \in [Jobs -> Ages] /\ message' \in [Jobs -> Ages]
    BY <1>1, <1>2 DEF Tick, TypeOK, Ages
  <1>4. \A j \in Jobs : slot'[j] \in 0..(Window - 1) => slot[j] \in 0..(Window - 1)
    BY <1>1, NumberFields DEF Tick, TypeOK, Older
  <1>5. SlotsWithinLimit' BY <1>1, <1>4, FewerSlotsNext
  <1>6. elapsed' \in 0..(Window - 1)
    BY <1>1, NumberFields DEF Tick, TypeOK
  <1>7. count' \in 0..Limit BY <1>1, NumberFields DEF Tick, TypeOK
  <1>8. \A s \in JobStates : s.wait > 0 => [s EXCEPT !.wait = @ - 1] \in JobStates
    BY NumberFields DEF JobStates
  <1>9. job' \in [Jobs -> JobStates]
    BY <1>1, <1>8 DEF Tick, TypeOK, JobStates
  <1>10. releasing' \in [Jobs -> Nat] BY <1>1 DEF Tick, TypeOK
  <1>11. TypeOK' BY <1>3, <1>6, <1>7, <1>9, <1>10 DEF TypeOK, Ages, JobStates
  <1>12. QED BY <1>5, <1>11 DEF SlotsInv

LEMMA AcquireInv ==
  ASSUME SlotsInv, NEW j \in Jobs, AcquireRedis(j) \/ FallBack(j) \/ AcquirePostgres(j)
  PROVE  SlotsInv'
PROOF
  <1>1. /\ TypeOK /\ SlotsWithinLimit /\ slot \in [Jobs -> Ages]
        /\ job \in [Jobs -> JobStates]
    BY DEF SlotsInv, TypeOK, Ages, JobStates
  <1>2. /\ {"admitted", "refused", "fallback"} \subseteq Stages
        /\ SendTime \in 0..(Window + SendTime) /\ 0 \in 0..(Window + SendTime)
        /\ 0..Window \subseteq 0..(Window + SendTime)
    BY NumberFields DEF Stages
  <1>3. CASE AcquireRedis(j)
    <2>1. UNCHANGED <<count, elapsed, releasing, message>> BY <1>3 DEF AcquireRedis
    <2>2. CASE Admit(j) /\ IsAdmitted(j)
      <3>1. slot' \in [Jobs -> Ages] /\ SlotsWithinLimit' BY <1>1, <2>2, AdmitSlots
      <3>2. job' \in [Jobs -> JobStates] BY <1>1, <1>2, <2>2, Waits DEF IsAdmitted
      <3>3. QED BY <1>1, <2>1, <3>1, <3>2 DEF SlotsInv, TypeOK, Ages, JobStates
    <2>3. CASE Refuse(j) /\ WaitFor(j, WaitForOldest, "refused")
      <3>1. /\ slot' \in [Jobs -> Ages] /\ SlotsWithinLimit'
            /\ WaitForOldest \in 0..Window
        BY <1>1, <2>3, RefuseSlots
      <3>2. job' \in [Jobs -> JobStates] BY <1>1, <1>2, <2>3, <3>1, Waits
      <3>3. QED BY <1>1, <2>1, <3>1, <3>2 DEF SlotsInv, TypeOK, Ages, JobStates
    <2>4. QED BY <1>3, <2>2, <2>3 DEF AcquireRedis
  <1>4. CASE FallBack(j)
    <2>1. GoesTo(j, "fallback") /\ UNCHANGED <<count, elapsed, releasing, message>>
      BY <1>4 DEF FallBack
    <2>2. slot' \in [Jobs -> Ages] /\ SlotsWithinLimit'
      <3>1. CASE UNCHANGED slot BY <1>1, <3>1 DEF SlotsWithinLimit
      <3>2. CASE Admit(j) BY <1>1, <3>2, AdmitSlots
      <3>3. CASE Refuse(j) BY <1>1, <3>3, RefuseSlots
      <3>4. QED BY <1>4, <3>1, <3>2, <3>3 DEF FallBack
    <2>3. job' \in [Jobs -> JobStates] BY <1>1, <1>2, <2>1, Waits DEF GoesTo
    <2>4. QED BY <1>1, <2>1, <2>2, <2>3 DEF SlotsInv, TypeOK, Ages, JobStates
  <1>5. CASE AcquirePostgres(j)
    <2>1. UNCHANGED <<slot, elapsed, releasing, message>> BY <1>5 DEF AcquirePostgres
    <2>2. SlotsWithinLimit' BY <1>1, <2>1 DEF SlotsWithinLimit
    <2>3. CASE BucketHasRoom /\ count' = count + 1 /\ IsAdmitted(j)
      <3>1. count' \in 0..Limit BY <1>1, <2>3, NumberFields DEF TypeOK, BucketHasRoom
      <3>2. job' \in [Jobs -> JobStates] BY <1>1, <1>2, <2>3, Waits DEF IsAdmitted
      <3>3. QED BY <1>1, <2>1, <2>2, <3>1, <3>2 DEF SlotsInv, TypeOK, JobStates
    <2>4. CASE count' = count /\ WaitFor(j, Window - elapsed, "refused")
      <3>1. Window - elapsed \in 0..Window BY <1>1, NumberFields DEF TypeOK
      <3>2. job' \in [Jobs -> JobStates] BY <1>1, <1>2, <2>4, <3>1, Waits
      <3>3. QED BY <1>1, <2>1, <2>2, <2>4, <3>2 DEF SlotsInv, TypeOK, JobStates
    <2>5. QED BY <1>5, <2>3, <2>4 DEF AcquirePostgres
  <1>6. QED BY <1>3, <1>4, <1>5

\* What a task does once it is admitted or refused leaves the set alone.
LEMMA TaskInv ==
  ASSUME SlotsInv, NEW j \in Jobs,
         \/ ReturnLimited(j) \/ Accept(j) \/ MarkSent(j)
         \/ ReturnUnsent(j) \/ MarkRejected(j) \/ EndInDoubt(j)
  PROVE  SlotsInv'
PROOF
  <1>1. TypeOK /\ SlotsWithinLimit /\ job \in [Jobs -> JobStates]
    BY DEF SlotsInv, TypeOK, JobStates
  <1>3. UNCHANGED <<slot, count, elapsed>>
    BY DEF ReturnLimited, Accept, MarkSent, ReturnUnsent, MarkRejected, EndInDoubt
  <1>4. job' \in [Jobs -> JobStates] BY <1>1, GoesOn
  <1>5. releasing' \in [Jobs -> Nat]
    BY <1>1 DEF TypeOK, ReturnLimited, Accept, MarkSent, ReturnUnsent, MarkRejected,
                EndInDoubt, GivesUp
  <1>6. message' \in [Jobs -> {None} \cup 0..Window]
    BY <1>1, NumberFields DEF TypeOK, ReturnLimited, Accept, MarkSent, ReturnUnsent,
                MarkRejected, EndInDoubt
  <1>7. SlotsWithinLimit' BY <1>1, <1>3 DEF SlotsWithinLimit
  <1>8. QED BY <1>1, <1>3, <1>4, <1>5, <1>6, <1>7 DEF SlotsInv, TypeOK, JobStates

LEMMA FewerReleases ==
  ASSUME releasing \in [Jobs -> Nat], NEW j \in Jobs, releasing[j] > 0,
         releasing' = [releasing EXCEPT ![j] = @ - 1]
  PROVE  releasing' \in [Jobs -> Nat]
OBVIOUS

LEMMA ReleaseInv ==
  ASSUME SlotsInv, NEW j \in Jobs, Release(j) \/ ReleaseLost(j) PROVE SlotsInv'
PROOF
  <1>1. TypeOK /\ SlotsWithinLimit BY DEF SlotsInv
  <1>2. CASE Release(j)
    <2>1. \A k \in Jobs : slot'[k] \in 0..(Window - 1) => slot[k] \in 0..(Window - 1)
      BY <1>1, <1>2, NumberFields DEF Release, TypeOK
    <2>2. TypeOK' BY <1>1, <1>2, FewerReleases DEF Release, TypeOK
    <2>3. QED BY <1>1, <2>1, <2>2, FewerSlotsNext DEF SlotsInv
  <1>3. CASE ReleaseLost(j)
    BY <1>1, <1>3, FewerReleases DEF ReleaseLost, TypeOK, SlotsWithinLimit, SlotsInv
  <1>4. QED BY <1>2, <1>3

LEMMA StepInv == SlotsInv /\ [Next]_vars => SlotsInv'
PROOF
  <1> SUFFICES ASSUME SlotsInv, [Next]_vars PROVE SlotsInv' OBVIOUS
  <1>1. ASSUME NEW j \in Jobs, Task(j) PROVE SlotsInv'
    BY <1>1, AcquireInv, TaskInv DEF Task
  <1>2. CASE UNCHANGED vars BY <1>2 DEF vars, SlotsInv, TypeOK, SlotsWithinLimit
  <1>3. QED BY <1>1, <1>2, TickInv, ReleaseInv DEF Next

-----------------------------------------------------------------------------
(* The theorems. *)

\* The types and the limit hold throughout, together.
THEOREM InvHolds == Spec => []SlotsInv
PROOF
  <1>1. Init => SlotsInv BY InitInv
  <1>2. SlotsInv /\ [Next]_vars => SlotsInv' BY StepInv
  <1>3. QED BY <1>1, <1>2, PTL DEF Spec

\* The set, the bucket (never above its limit), the tasks and the messages keep their types.
THEOREM LimiterTypeCorrect == Spec => []TypeOK
PROOF
  <1>1. SlotsInv => TypeOK BY DEF SlotsInv
  <1>2. QED BY <1>1, InvHolds, PTL

\* _ACQUIRE looks for room and takes it at one instant, so no overlap of claims, retries on
\* kept slots, refunds and calls that fail after the script ran exceeds the limit.
THEOREM NeverTooManySlots == Spec => []SlotsWithinLimit
PROOF
  <1>1. SlotsInv => SlotsWithinLimit BY DEF SlotsInv
  <1>2. QED BY <1>1, InvHolds, PTL

\* The members in the way of a refused job, less the oldest, are fewer than the limit: a
\* slot is free when the wait the script returned is over, and no tick before.
LEMMA WaitIsExact ==
  ASSUME SlotsInv, NEW j \in Jobs, AcquireRedis(j), At(j, "refused")'
  PROVE  LET left(wait) == {k \in Jobs : slot[k] # None /\ slot[k] + wait < Window}
         IN /\ Cardinality(left(job'[j].wait)) < Limit
            /\ Cardinality(left(job'[j].wait - 1)) >= Limit
PROOF
  <1> DEFINE left(wait) == {k \in Jobs : slot[k] # None /\ slot[k] + wait < Window}
  <1>1. /\ SlotsWithinLimit /\ slot \in [Jobs -> Ages] /\ job \in [Jobs -> JobStates]
    BY DEF SlotsInv, TypeOK, Ages, JobStates
  <1>2. Refuse(j) /\ WaitFor(j, WaitForOldest, "refused")
    BY <1>1 DEF AcquireRedis, IsAdmitted, WaitFor, At, JobStates
  <1>3. job'[j].wait = WaitForOldest BY <1>1, <1>2 DEF WaitFor
  <1>4. PICK k \in Holding : /\ WaitForOldest = Window - slot[k]
                             /\ \A i \in Holding : slot[i] <= slot[k]
    BY <1>1, <1>2, RefuseSlots
  <1>5. /\ k \in Jobs /\ slot[k] \in 0..(Window - 1)
        /\ Holding = {i \in Jobs : slot[i] \in 0..(Window - 1)}
        /\ IsFiniteSet(Holding) /\ Cardinality(Holding) \in Nat
    BY <1>1, HoldingFields
  <1>6. Cardinality(Holding) <= Limit /\ Cardinality(Holding) >= Limit
    BY <1>1, <1>2, <1>5, NumberFields DEF SlotsWithinLimit, Refuse, HasRoom
  <1>7. left(WaitForOldest) \subseteq Holding \ {k}
    BY <1>1, <1>4, <1>5, NumberFields DEF Ages
  <1>8. left(WaitForOldest - 1) = Holding
    <2>1. ASSUME NEW i \in Jobs
          PROVE  slot[i] # None /\ slot[i] + (WaitForOldest - 1) < Window <=> i \in Holding
      BY <1>1, <1>4, <1>5, NumberFields DEF Ages
    <2>2. QED BY <1>5, <2>1
  <1> HIDE DEF left
  <1>9. /\ IsFiniteSet(Holding \ {k})
        /\ Cardinality(Holding \ {k}) = Cardinality(Holding) - 1
    BY <1>4, <1>5, FS_RemoveElement
  <1>10. /\ IsFiniteSet(left(WaitForOldest))
         /\ Cardinality(left(WaitForOldest)) <= Cardinality(Holding \ {k})
    BY <1>7, <1>9, FS_Subset
  <1>11. Cardinality(left(WaitForOldest)) \in Nat BY <1>10, FS_CardinalityType
  <1>12. Cardinality(left(WaitForOldest)) < Limit
    BY <1>5, <1>6, <1>9, <1>10, <1>11, NumberFields
  <1>13. Cardinality(left(WaitForOldest - 1)) >= Limit BY <1>6, <1>8
  <1>14. QED BY <1>3, <1>12, <1>13 DEF left

\* The retry_after of a refusal is the exact time until a slot is free: return_to_queue
\* neither wakes the job too early nor leaves a free slot unused.
THEOREM RefusedWaitIsExact == Spec => RefusalWaitIsExact
PROOF
  <1>1. ASSUME SlotsInv, [Next]_vars, NEW j \in Jobs, At(j, "waiting"), At(j, "refused")'
        PROVE  AcquireRedis(j)
    <2>1. job \in [Jobs -> JobStates] BY <1>1 DEF SlotsInv, TypeOK, JobStates
    <2>2. job'[j] # job[j] /\ ~At(j, "refused") BY <1>1 DEF At
    <2>3. CASE Tick BY <1>1, <2>1, <2>3 DEF Tick, At, JobStates
    <2>4. ASSUME NEW i \in Jobs, Task(i) PROVE AcquireRedis(j)
      <3>1. ASSUME \/ ReturnLimited(i) \/ Accept(i) \/ MarkSent(i)
                   \/ ReturnUnsent(i) \/ MarkRejected(i) \/ EndInDoubt(i)
            PROVE  FALSE
        BY <1>1, <2>1, <2>2, <3>1, GoesOn DEF At
      <3>2. i = j
        BY <2>1, <2>2, <2>4, <3>1
        DEF Task, AcquireRedis, FallBack, AcquirePostgres, IsAdmitted, GoesTo, WaitFor
      <3>3. ~AcquirePostgres(j) BY <1>1 DEF AcquirePostgres, At
      <3>4. ~FallBack(j) BY <1>1, <2>1 DEF FallBack, GoesTo, WaitFor, At, JobStates
      <3>5. QED BY <2>4, <3>1, <3>2, <3>3, <3>4 DEF Task
    <2>5. ASSUME NEW i \in Jobs, Release(i) \/ ReleaseLost(i) PROVE FALSE
      BY <2>2, <2>5 DEF Release, ReleaseLost
    <2>6. CASE UNCHANGED vars BY <2>2, <2>6 DEF vars
    <2>7. QED BY <1>1, <2>3, <2>4, <2>5, <2>6 DEF Next
  <1>2. SlotsInv /\ [Next]_vars =>
          [\A j \in Jobs :
             At(j, "waiting") /\ At(j, "refused")' =>
               LET left(wait) == {k \in Jobs : slot[k] # None /\ slot[k] + wait < Window}
               IN /\ Cardinality(left(job'[j].wait)) < Limit
                  /\ Cardinality(left(job'[j].wait - 1)) >= Limit]_vars
    BY <1>1, WaitIsExact
  <1>3. QED BY <1>2, InvHolds, PTL DEF Spec, RefusalWaitIsExact

-----------------------------------------------------------------------------
(* Messages in any window are counted as sets of jobs. *)

LEMMA FewJobs ==
  ASSUME NEW n \in Nat, NEW T \in SUBSET Jobs, Cardinality(T) <= n, NEW S \in SUBSET T
  PROVE  Cardinality(S) <= n
PROOF
  <1>1. IsFiniteSet(T) BY JobsAssumption, FS_Subset
  <1>2. IsFiniteSet(S) /\ Cardinality(S) <= Cardinality(T) BY <1>1, FS_Subset
  <1>3. Cardinality(S) \in Nat /\ Cardinality(T) \in Nat BY <1>1, <1>2, FS_CardinalityType
  <1>4. QED BY <1>2, <1>3

LEMMA FewJobsOfTwo ==
  ASSUME NEW m \in Nat, NEW A \in SUBSET Jobs, Cardinality(A) <= m,
         NEW n \in Nat, NEW B \in SUBSET Jobs, Cardinality(B) <= n,
         NEW S \in SUBSET (A \cup B)
  PROVE  Cardinality(S) <= m + n
PROOF
  <1>1. IsFiniteSet(A) /\ IsFiniteSet(B) /\ IsFiniteSet(A \cap B)
    BY JobsAssumption, FS_Subset
  <1>2. Cardinality(A \cup B) = Cardinality(A) + Cardinality(B) - Cardinality(A \cap B)
    BY <1>1, FS_Union
  <1>3. Cardinality(A) \in Nat /\ Cardinality(B) \in Nat /\ Cardinality(A \cap B) \in Nat
    BY <1>1, FS_CardinalityType
  <1>4. Cardinality(A \cup B) <= m + n BY <1>2, <1>3
  <1>5. m + n \in Nat /\ A \cup B \in SUBSET Jobs OBVIOUS
  <1>6. QED BY <1>4, <1>5, FewJobs

-----------------------------------------------------------------------------
(* Messages are bounded by the admissions behind them, whose ages the state does *)
(* not keep: f says for each job how long ago its last one was.                  *)

GrantAges == {None} \cup Nat

Aged(f) == [j \in Jobs |-> IF f[j] = None THEN None ELSE f[j] + 1]

Between(f, first, last) == {j \in Jobs : f[j] \in first..last}

LEMMA AgedFields ==
  ASSUME NEW f \in [Jobs -> GrantAges]
  PROVE  /\ Aged(f) \in [Jobs -> GrantAges]
         /\ \A j \in Jobs : Aged(f)[j] = IF f[j] = None THEN None ELSE f[j] + 1
         /\ \A first, last \in Int : first > 0 =>
              Between(Aged(f), first, last) \subseteq Between(f, first - 1, last - 1)
         /\ \A last \in Nat : Between(Aged(f), 0, last) \subseteq Between(f, 0, last - 1)
PROOF
  <1>1. \A j \in Jobs : Aged(f)[j] = IF f[j] = None THEN None ELSE f[j] + 1 BY DEF Aged
  <1>2. Aged(f) \in [Jobs -> GrantAges] BY NumberFields DEF Aged, GrantAges
  <1>3. \A j \in Jobs : f[j] \in GrantAges OBVIOUS
  <1>4. \A first, last \in Int : first > 0 =>
          Between(Aged(f), first, last) \subseteq Between(f, first - 1, last - 1)
    BY <1>1, <1>3, NumberFields DEF Between, GrantAges
  <1>5. \A last \in Nat : Between(Aged(f), 0, last) \subseteq Between(f, 0, last - 1)
    BY <1>1, <1>3, NumberFields DEF Between, GrantAges
  <1>6. QED BY <1>1, <1>2, <1>4, <1>5

\* If each window of a row of n has no more than the limit, together they have n times that:
\* the first row that had more would have them in its last window.
LEMMA WindowsCover ==
  ASSUME NEW f \in [Jobs -> GrantAges], NEW first \in Nat, NEW n \in Nat,
         \A k \in Nat : Cardinality(Between(f, first + k * Window,
                                            first + k * Window + Window - 1)) <= Limit
  PROVE  Cardinality(Between(f, first, first + n * Window - 1)) <= n * Limit
PROOF
  <1> DEFINE Row(k) == Between(f, first, first + k * Window - 1)
             TooMany == {k \in Nat : ~(Cardinality(Row(k)) <= k * Limit)}
  <1>1. SUFFICES ASSUME TooMany # {} PROVE FALSE OBVIOUS
  <1>2. PICK m \in TooMany : \A k \in TooMany : m <= k BY <1>1, LeastExists
  <1>3. m \in Nat /\ ~(Cardinality(Row(m)) <= m * Limit) OBVIOUS
  <1>4. CASE m = 0
    <2>1. 0 * Window = 0 /\ 0 * Limit = 0 BY NumberFields
    <2>2. Row(0) = {} BY <2>1 DEF Between
    <2>3. QED BY <1>3, <1>4, <2>1, <2>2, FS_EmptySet
  <1>5. CASE m > 0
    <2> DEFINE l == m - 1
    <2>1. l \in Nat /\ m = l + 1 /\ ~(m <= l) BY <1>3, <1>5
    <2>2. l \notin TooMany BY <1>2, <2>1
    <2>3. Cardinality(Row(l)) <= l * Limit BY <2>1, <2>2
    <2> HIDE DEF l
    <2>4. m * Window = l * Window + Window /\ m * Limit = l * Limit + Limit
      BY <2>1, NumberFields
    <2>5. l * Window \in Nat /\ l * Limit \in Nat BY <2>1, NumberFields
    <2> DEFINE last == Between(f, first + l * Window, first + l * Window + Window - 1)
    <2>6. Row(m) \in SUBSET (Row(l) \cup last)
      <3> DEFINE w == l * Window
      <3>1. w \in Nat /\ m * Window = w + Window BY <2>4, <2>5
      <3> HIDE DEF w
      <3>2. \A j \in Jobs : f[j] \in first..(first + (w + Window) - 1) =>
              f[j] \in first..(first + w - 1) \/ f[j] \in (first + w)..(first + w + Window - 1)
        BY <3>1, NumberFields
      <3>3. QED BY <3>1, <3>2 DEF Between, w
    <2>7. Cardinality(last) <= Limit BY <2>1
    <2>8. Row(l) \in SUBSET Jobs /\ last \in SUBSET Jobs BY DEF Between
    <2> HIDE DEF Row, last
    <2>9. Cardinality(Row(m)) <= l * Limit + Limit
      BY <2>3, <2>5, <2>6, <2>7, <2>8, NumberFields, FewJobsOfTwo
    <2>10. QED BY <1>3, <2>4, <2>9
  <1>6. QED BY <1>3, <1>4, <1>5

-----------------------------------------------------------------------------
(* Behind every message of the jobs J, and behind every send to come, is the admission   *)
(* that f dates: slack ticks may lie between it and the last time the job asked, and     *)
(* SendTime between that and the message.                                                *)

MaySend(j) == message[j] = None /\ At(j, "admitted")

Behind(f, J, slack) ==
  \A j \in J :
     /\ MaySend(j) => f[j] \in 0..(slack + SendTime - job[j].wait)
     /\ message[j] \in 0..(Window - 1) =>
          f[j] \in message[j]..(message[j] + slack + SendTime)

\* The clock of a send runs with that of its admission.
LEMMA TickBehind ==
  ASSUME SlotsInv, Tick, NEW f \in [Jobs -> GrantAges], NEW J \in SUBSET Jobs,
         NEW slack \in Nat, Behind(f, J, slack)
  PROVE  Behind(Aged(f), J, slack)'
PROOF
  <1>1. job \in [Jobs -> JobStates] /\ message \in [Jobs -> Ages]
    BY DEF SlotsInv, TypeOK, JobStates, Ages
  <1> DEFINE h == Aged(f)
  <1>2. \A j \in Jobs : h[j] = IF f[j] = None THEN None ELSE f[j] + 1 BY AgedFields
  <1>3. Aged(f)' = h BY DEF Aged
  <1> HIDE DEF h
  <1>4. ASSUME NEW j \in J, MaySend(j)'
        PROVE  h[j] \in 0..(slack + SendTime - job'[j].wait)
    <2>1. MaySend(j)
      BY <1>1, <1>4, NumberFields DEF MaySend, At, Tick, Older, JobStates, Ages
    <2>2. job[j].wait > 0 /\ job'[j].wait = job[j].wait - 1
      BY <1>1, <2>1 DEF MaySend, At, Tick, JobStates
    <2>3. f[j] \in 0..(slack + SendTime - job[j].wait) BY <2>1 DEF Behind
    <2>4. job[j].wait \in Nat BY <1>1, NumberFields DEF JobStates
    <2>5. QED BY <1>2, <2>2, <2>3, <2>4, NumberFields
  <1>5. ASSUME NEW j \in J, message'[j] \in 0..(Window - 1)
        PROVE  h[j] \in message'[j]..(message'[j] + slack + SendTime)
    <2>1. message[j] \in 0..(Window - 1) /\ message'[j] = message[j] + 1
      BY <1>1, <1>5, NumberFields DEF Tick, Older, Ages
    <2>2. f[j] \in message[j]..(message[j] + slack + SendTime) BY <2>1 DEF Behind
    <2>3. QED BY <1>2, <2>1, <2>2, NumberFields
  <1>6. Behind(h, J, slack)' BY <1>4, <1>5 DEF Behind
  <1>7. QED BY <1>3, <1>6

\* Steps that send nothing and admit nobody.
LEMMA SteadyBehind ==
  ASSUME NEW J, NEW slack \in Nat, NEW f, Behind(f, J, slack), NEW h, UNCHANGED message,
         \A j \in J : MaySend(j)' => job'[j] = job[j],
         \A j \in J : MaySend(j)' \/ message[j] # None => h[j] = f[j]
  PROVE  Behind(h, J, slack)'
PROOF
  <1>1. ASSUME NEW j \in J, MaySend(j)'
        PROVE  h[j] \in 0..(slack + SendTime - job'[j].wait)
    BY <1>1 DEF Behind, MaySend, At
  <1>2. ASSUME NEW j \in J, message'[j] \in 0..(Window - 1)
        PROVE  h[j] \in message'[j]..(message'[j] + slack + SendTime)
    BY <1>2, NumberFields DEF Behind
  <1>3. QED BY <1>1, <1>2 DEF Behind

\* Steps of a task that has been admitted: the message it sends was foreseen.
LEMMA TaskBehind ==
  ASSUME SlotsInv, NEW J \in SUBSET Jobs, NEW slack \in Nat, NEW f, Behind(f, J, slack),
         NEW j \in Jobs,
         \/ ReturnLimited(j) \/ Accept(j) \/ MarkSent(j)
         \/ ReturnUnsent(j) \/ MarkRejected(j) \/ EndInDoubt(j)
  PROVE  Behind(f, J, slack)'
PROOF
  <1>1. job \in [Jobs -> JobStates] /\ message \in [Jobs -> Ages]
    BY DEF SlotsInv, TypeOK, JobStates, Ages
  <1>2. \A k \in Jobs : At(k, "admitted")' => job'[k] = job[k] BY <1>1, GoesOn DEF At
  <1>3. CASE UNCHANGED message BY <1>2, <1>3, SteadyBehind DEF MaySend
  <1>4. CASE Accept(j) /\ message[j] = None
    <2>1. message' = [message EXCEPT ![j] = 0] /\ MaySend(j) BY <1>4 DEF Accept, MaySend
    <2>2. ASSUME NEW k \in J, MaySend(k)'
          PROVE  f[k] \in 0..(slack + SendTime - job'[k].wait)
      <3>1. MaySend(k) /\ job'[k] = job[k]
        BY <1>1, <1>2, <2>1, <2>2, NumberFields DEF MaySend, At
      <3>2. QED BY <3>1 DEF Behind
    <2>3. ASSUME NEW k \in J, message'[k] \in 0..(Window - 1)
          PROVE  f[k] \in message'[k]..(message'[k] + slack + SendTime)
      <3>1. CASE k = j
        <4>1. f[j] \in 0..(slack + SendTime - job[j].wait) BY <2>1, <2>3, <3>1 DEF Behind
        <4>2. job[j].wait \in Nat /\ message'[j] = 0
          BY <1>1, <2>1, NumberFields DEF JobStates
        <4>3. QED BY <3>1, <4>1, <4>2, NumberFields
      <3>2. CASE k # j
        <4>1. message'[k] = message[k] BY <1>1, <2>1, <3>2
        <4>2. QED BY <2>3, <4>1 DEF Behind
      <3>3. QED BY <3>1, <3>2
    <2>4. QED BY <2>2, <2>3 DEF Behind
  <1>5. QED BY <1>3, <1>4
    DEF ReturnLimited, Accept, MarkSent, ReturnUnsent, MarkRejected, EndInDoubt

-----------------------------------------------------------------------------
(* The sliding window: g are the ages of the last slots taken.  A slot that has no     *)
(* message yet is the one for the message to come, one of this window is still held,   *)
(* and no window ever saw more than Limit.                                              *)

KeepsSlots(g) ==
  \A j \in Jobs : /\ message[j] = None /\ slot[j] \in 0..(Window - 1) => g[j] = slot[j]
                  /\ g[j] \in 0..(Window - 1) => slot[j] = g[j]

FewGrants(g) == \A from \in Nat : Cardinality(Between(g, from, from + Window - 1)) <= Limit

Grants(g) == KeepsSlots(g) /\ FewGrants(g)

LEMMA TickGrants ==
  ASSUME SlotsInv, Tick, NEW g \in [Jobs -> GrantAges], Grants(g)
  PROVE  Grants(Aged(g))'
PROOF
  <1>1. slot \in [Jobs -> Ages] /\ message \in [Jobs -> Ages] BY DEF SlotsInv, TypeOK, Ages
  <1> DEFINE h == Aged(g)
  <1>2. \A j \in Jobs : h[j] = IF g[j] = None THEN None ELSE g[j] + 1 BY AgedFields
  <1>3. Aged(g)' = h BY DEF Aged
  <1>4. \A from \in Nat : from > 0 =>
          Between(h, from, from + Window - 1) \subseteq Between(g, from - 1, from - 1 + Window - 1)
    BY AgedFields, NumberFields
  <1>5. Between(h, 0, 0 + Window - 1) \subseteq Between(g, 0, 0 + Window - 1)
    <2>1. \A j \in Jobs : g[j] \in GrantAges OBVIOUS
    <2> HIDE DEF h
    <2>2. QED BY <1>2, <2>1, NumberFields DEF Between, GrantAges
  <1> HIDE DEF h
  <1>6. KeepsSlots(h)'
    <2>1. ASSUME NEW j \in Jobs
          PROVE  /\ message'[j] = None /\ slot'[j] \in 0..(Window - 1) => h[j] = slot'[j]
                 /\ h[j] \in 0..(Window - 1) => slot'[j] = h[j]
      <3>1. /\ message[j] = None /\ slot[j] \in 0..(Window - 1) => g[j] = slot[j]
            /\ g[j] \in 0..(Window - 1) => slot[j] = g[j]
        BY DEF Grants, KeepsSlots
      <3>2. slot[j] \in Ages /\ message[j] \in Ages /\ g[j] \in GrantAges BY <1>1
      <3>3. slot'[j] = Older(slot[j]) /\ message'[j] = Older(message[j]) BY DEF Tick
      <3>4. QED BY <1>2, <3>1, <3>2, <3>3, NumberFields DEF Ages, GrantAges, Older
    <2>2. QED BY <2>1 DEF KeepsSlots
  <1>7. FewGrants(h)
    <2>1. ASSUME NEW from \in Nat PROVE Cardinality(Between(h, from, from + Window - 1)) <= Limit
      <3>1. CASE from = 0
        <4>1. Cardinality(Between(g, 0, 0 + Window - 1)) <= Limit BY DEF Grants, FewGrants
        <4>2. QED BY <1>5, <3>1, <4>1, FewJobs, NumberFields DEF Between
      <3>2. CASE from > 0
        <4>1. from - 1 \in Nat BY <3>2
        <4>2. Cardinality(Between(g, from - 1, from - 1 + Window - 1)) <= Limit
          BY <4>1 DEF Grants, FewGrants
        <4>3. QED BY <1>4, <3>2, <4>2, FewJobs, NumberFields DEF Between
      <3>3. QED BY <3>1, <3>2
    <2>2. QED BY <2>1 DEF FewGrants
  <1>8. QED BY <1>3, <1>6, <1>7 DEF Grants, FewGrants

\* A trim takes away slots that are too old to matter.
LEMMA TrimGrants ==
  ASSUME SlotsInv, slot' = Trimmed, UNCHANGED message, NEW g, Grants(g)
  PROVE  Grants(g)'
PROOF
  <1>1. slot \in [Jobs -> Ages] BY DEF SlotsInv, TypeOK, Ages
  <1>2. \A j \in Jobs : slot[j] \in 0..(Window - 1) <=> slot'[j] \in 0..(Window - 1)
    BY <1>1, TrimmedFields, HoldingFields, NumberFields DEF Trimmed
  <1>3. \A j \in Jobs : slot[j] \in 0..(Window - 1) => slot'[j] = slot[j]
    BY <1>1, HoldingFields DEF Trimmed
  <1>4. KeepsSlots(g)' BY <1>2, <1>3 DEF Grants, KeepsSlots
  <1>5. FewGrants(g)' BY DEF Grants, FewGrants, Between
  <1>6. QED BY <1>4, <1>5 DEF Grants

\* A new slot is for the message to come, or does not matter to a job that has sent.
LEMMA NewSlotGrants ==
  ASSUME SlotsInv, NEW j \in Jobs, Admit(j), j \notin Holding, UNCHANGED message,
         NEW g \in [Jobs -> GrantAges], Grants(g)
  PROVE  \E h \in [Jobs -> GrantAges] :
           /\ Grants(h)' /\ (message[j] = None => h[j] = 0)
           /\ \A k \in Jobs : k # j \/ message[k] # None => h[k] = g[k]
PROOF
  <1>1. /\ slot \in [Jobs -> Ages] /\ message \in [Jobs -> Ages] /\ SlotsWithinLimit
    BY DEF SlotsInv, TypeOK, Ages
  <1>2. g \in [Jobs -> GrantAges] /\ KeepsSlots(g) /\ FewGrants(g) BY DEF Grants
  <1>3. slot' = [Trimmed EXCEPT ![j] = 0] /\ Trimmed \in [Jobs -> Ages]
    BY <1>1, TrimmedFields DEF Admit
  <1>4. \A k \in Jobs : k # j =>
          /\ slot[k] \in 0..(Window - 1) <=> slot'[k] \in 0..(Window - 1)
          /\ slot[k] \in 0..(Window - 1) => slot'[k] = slot[k]
    BY <1>1, <1>3, HoldingFields, NumberFields DEF Trimmed
  <1>5. slot'[j] = 0 /\ slot[j] \notin 0..(Window - 1) BY <1>1, <1>3, HoldingFields
  <1>6. g[j] \notin 0..(Window - 1) BY <1>2, <1>5 DEF KeepsSlots
  <1>7. CASE message[j] # None
    <2>1. KeepsSlots(g)' BY <1>2, <1>4, <1>5, <1>6, <1>7 DEF KeepsSlots
    <2>2. FewGrants(g)' BY <1>2 DEF FewGrants, Between
    <2>3. QED BY <1>2, <1>7, <2>1, <2>2 DEF Grants
  <1>8. CASE message[j] = None
    <2> DEFINE h == [g EXCEPT ![j] = 0]
    <2>1. h \in [Jobs -> GrantAges] BY <1>2, NumberFields DEF GrantAges
    <2>2. h[j] = 0 /\ \A k \in Jobs : k # j => h[k] = g[k] BY <1>2
    <2> HIDE DEF h
    <2>3. KeepsSlots(h)' BY <1>2, <1>4, <1>5, <1>8, <2>2, NumberFields DEF KeepsSlots
    <2>4. ASSUME NEW from \in Nat PROVE Cardinality(Between(h, from, from + Window - 1)) <= Limit
      <3>1. CASE from = 0
        <4>1. Between(h, 0, 0 + Window - 1) \subseteq {k \in Jobs : slot'[k] \in 0..(Window - 1)}
          BY <1>2, <1>4, <1>5, <2>2, NumberFields DEF Between, KeepsSlots
        <4>2. SlotsWithinLimit' BY <1>1, AdmitSlots
        <4>3. QED BY <3>1, <4>1, <4>2, FewJobs, NumberFields DEF SlotsWithinLimit
      <3>2. CASE from > 0
        <4>1. Between(h, from, from + Window - 1) \subseteq Between(g, from, from + Window - 1)
          BY <2>2, <3>2, NumberFields DEF Between
        <4>2. Cardinality(Between(g, from, from + Window - 1)) <= Limit
          BY <1>2 DEF FewGrants
        <4>3. QED BY <4>1, <4>2, FewJobs, NumberFields DEF Between
      <3>3. QED BY <3>1, <3>2
    <2>5. FewGrants(h)' BY <2>4 DEF FewGrants, Between
    <2>6. QED BY <1>8, <2>1, <2>2, <2>3, <2>5 DEF Grants
  <1>9. QED BY <1>7, <1>8

\* The script admits a job that has not sent on a slot of this window.
LEMMA ScriptGrants ==
  ASSUME SlotsInv, NEW j \in Jobs, Admit(j) \/ Refuse(j), UNCHANGED message,
         NEW g \in [Jobs -> GrantAges], Grants(g)
  PROVE  \E h \in [Jobs -> GrantAges] :
           /\ Grants(h)' /\ (Admit(j) /\ message[j] = None => h[j] \in 0..(Window - 1))
           /\ \A k \in Jobs : k # j \/ message[k] # None => h[k] = g[k]
PROOF
  <1>1. slot \in [Jobs -> Ages] BY DEF SlotsInv, TypeOK, Ages
  <1>2. CASE j \in Holding \/ Refuse(j)
    <2>1. slot' = Trimmed BY <1>2 DEF Admit, Refuse
    <2>2. Grants(g)' BY <2>1, TrimGrants
    <2>3. ASSUME Admit(j), message[j] = None PROVE g[j] \in 0..(Window - 1)
      <3>1. j \in Holding
        <4>1. SUFFICES ASSUME j \notin Holding PROVE FALSE OBVIOUS
        <4>2. Refuse(j) BY <1>2, <4>1
        <4>3. QED BY <2>3, <4>1, <4>2 DEF Admit, Refuse
      <3>2. slot[j] \in 0..(Window - 1) BY <1>1, <3>1, HoldingFields
      <3>3. QED BY <2>3, <3>2 DEF Grants, KeepsSlots
    <2>4. QED BY <2>2, <2>3
  <1>3. CASE Admit(j) /\ j \notin Holding
    <2>1. PICK h \in [Jobs -> GrantAges] :
            /\ Grants(h)' /\ (message[j] = None => h[j] = 0)
            /\ \A k \in Jobs : k # j \/ message[k] # None => h[k] = g[k]
      BY <1>3, NewSlotGrants
    <2>2. QED BY <2>1, NumberFields
  <1>4. QED BY <1>2, <1>3

-----------------------------------------------------------------------------
(* The fixed windows: b are the ages of the last times that Postgres admitted.  The    *)
(* bucket has those of the current window, and those of any earlier one were in its.   *)

Buckets(b) ==
  /\ Cardinality(Between(b, 0, elapsed)) <= count
  /\ \A k \in Nat : Cardinality(Between(b, elapsed + 1 + k * Window,
                                        elapsed + 1 + k * Window + Window - 1)) <= Limit

LEMMA NoWrap == ASSUME NEW n \in Nat, n < Window PROVE n % Window = n
PROOF BY NumberFields, SMTT(30)

\* At the boundary the bucket becomes the last of the earlier ones.
LEMMA TickBuckets ==
  ASSUME SlotsInv, Tick, NEW b \in [Jobs -> GrantAges], Buckets(b)
  PROVE  Buckets(Aged(b))'
PROOF
  <1> DEFINE c == Aged(b)
  <1>1. elapsed \in 0..(Window - 1) /\ count \in 0..Limit BY DEF SlotsInv, TypeOK
  <1>2. Aged(b)' = c BY DEF Aged
  <1>3. /\ \A first, last \in Int : first > 0 =>
             Between(c, first, last) \subseteq Between(b, first - 1, last - 1)
        /\ \A last \in Nat : Between(c, 0, last) \subseteq Between(b, 0, last - 1)
    BY AgedFields
  <1>4. \A first, last : Between(b, first, last) \in SUBSET Jobs BY DEF Between
  <1>5. \A k \in Nat : k * Window \in Nat BY NumberFields
  <1> HIDE DEF c
  <1>6. CASE elapsed < Window - 1
    <2>1. elapsed' = elapsed + 1 /\ count' = count
      BY <1>1, <1>6, NoWrap, NumberFields DEF Tick
    <2>2. Between(c, 0, elapsed') \subseteq Between(b, 0, elapsed)
      <3>1. elapsed + 1 \in Nat /\ (elapsed + 1) - 1 = elapsed BY <1>1, NumberFields
      <3>2. Between(c, 0, elapsed + 1) \subseteq Between(b, 0, (elapsed + 1) - 1) BY <1>3, <3>1
      <3>3. QED BY <2>1, <3>1, <3>2
    <2>3. count \in Nat /\ Cardinality(Between(b, 0, elapsed)) <= count
      BY <1>1, NumberFields DEF Buckets
    <2>4. Cardinality(Between(c, 0, elapsed')) <= count'
      BY <1>4, <2>1, <2>2, <2>3, FewJobs
    <2>5. ASSUME NEW k \in Nat
          PROVE  Cardinality(Between(c, elapsed' + 1 + k * Window,
                                     elapsed' + 1 + k * Window + Window - 1)) <= Limit
      <3> DEFINE first == elapsed + 1 + k * Window
      <3>1. first \in Nat BY <1>1, <1>5, NumberFields
      <3>2. first + 1 \in Int /\ first + 1 > 0 /\ (first + 1) - 1 = first
            /\ first + 1 + Window - 1 \in Int
            /\ (first + 1 + Window - 1) - 1 = first + Window - 1
        BY <3>1, NumberFields
      <3>3. elapsed' + 1 + k * Window = first + 1 BY <1>1, <1>5, <2>1, NumberFields
      <3>4. Cardinality(Between(b, first, first + Window - 1)) <= Limit BY DEF Buckets
      <3> HIDE DEF first
      <3>5. Between(c, first + 1, first + 1 + Window - 1)
              \subseteq Between(b, (first + 1) - 1, (first + 1 + Window - 1) - 1)
        BY <1>3, <3>2
      <3>6. Between(c, first + 1, first + 1 + Window - 1) \in SUBSET Between(b, first, first + Window - 1)
        BY <3>2, <3>5
      <3>7. Cardinality(Between(c, first + 1, first + 1 + Window - 1)) <= Limit
        BY <1>4, <3>4, <3>6, FewJobs, NumberFields
      <3>8. QED BY <3>3, <3>7
    <2>6. QED BY <1>2, <2>4, <2>5 DEF Buckets
  <1>7. CASE elapsed = Window - 1
    <2>1. elapsed' = 0 /\ count' = 0 BY <1>1, <1>7, NumberFields DEF Tick
    <2>2. Between(c, 0, 0) = {}
      <3>1. Between(c, 0, 0) \subseteq Between(b, 0, 0 - 1) BY <1>3
      <3>2. Between(b, 0, 0 - 1) = {} BY DEF Between
      <3>3. QED BY <3>1, <3>2
    <2>3. Cardinality(Between(c, 0, elapsed')) <= count' BY <2>1, <2>2, FS_EmptySet
    <2>4. Cardinality(Between(b, 0, elapsed)) <= Limit
      <3>1. IsFiniteSet(Between(b, 0, elapsed)) BY <1>4, JobsAssumption, FS_Subset
      <3>2. Cardinality(Between(b, 0, elapsed)) \in Nat BY <3>1, FS_CardinalityType
      <3>3. QED BY <1>1, <3>2, NumberFields DEF Buckets
    <2>5. ASSUME NEW k \in Nat
          PROVE  Cardinality(Between(c, 1 + k * Window, 1 + k * Window + Window - 1)) <= Limit
      <3> DEFINE first == k * Window
      <3>1. first \in Nat BY <1>5
      <3>2. 1 + first \in Int /\ 1 + first > 0 /\ (1 + first) - 1 = first
            /\ 1 + first + Window - 1 \in Int
            /\ (1 + first + Window - 1) - 1 = first + Window - 1
        BY <3>1, NumberFields
      <3>3. Cardinality(Between(b, first, first + Window - 1)) <= Limit
        <4>1. CASE k = 0
          <5>1. first = 0 /\ first + Window - 1 = elapsed BY <1>7, <4>1, NumberFields
          <5>2. QED BY <2>4, <5>1
        <4>2. CASE k > 0
          <5>1. k - 1 \in Nat BY <4>2
          <5>2. first = (k - 1) * Window + Window BY <5>1, NumberFields
          <5>3. (k - 1) * Window \in Nat BY <1>5, <5>1
          <5>4. elapsed + 1 + (k - 1) * Window = first BY <1>7, <5>2, <5>3, NumberFields
          <5>5. QED BY <5>1, <5>4 DEF Buckets
        <4>3. QED BY <4>1, <4>2
      <3> HIDE DEF first
      <3>4. Between(c, 1 + first, 1 + first + Window - 1)
              \subseteq Between(b, (1 + first) - 1, (1 + first + Window - 1) - 1)
        BY <1>3, <3>2
      <3>5. Between(c, 1 + first, 1 + first + Window - 1) \in SUBSET Between(b, first, first + Window - 1)
        BY <3>2, <3>4
      <3>6. Cardinality(Between(c, 1 + first, 1 + first + Window - 1)) <= Limit
        BY <1>4, <3>3, <3>5, FewJobs, NumberFields
      <3>7. QED BY <3>6 DEF first
    <2>6. \A k \in Nat : elapsed' + 1 + k * Window = 1 + k * Window BY <1>5, <2>1
    <2>7. QED BY <1>2, <2>3, <2>5, <2>6 DEF Buckets
  <1>8. QED BY <1>1, <1>6, <1>7, NumberFields

LEMMA SteadyBuckets ==
  ASSUME NEW b, Buckets(b), UNCHANGED <<count, elapsed>> PROVE Buckets(b)'
PROOF BY DEF Buckets, Between

\* Whom the upsert admits it counts.
LEMMA CountBucket ==
  ASSUME SlotsInv, NEW b \in [Jobs -> GrantAges], Buckets(b), NEW j \in Jobs,
         UNCHANGED elapsed, count' = count + 1
  PROVE  Buckets(b)' /\ Buckets([b EXCEPT ![j] = 0])'
PROOF
  <1> DEFINE c == [b EXCEPT ![j] = 0]
             S == Between(b, 0, elapsed)
  <1>1. elapsed \in 0..(Window - 1) /\ count \in Nat
    BY NumberFields DEF SlotsInv, TypeOK
  <1>2. c[j] = 0 /\ \A k \in Jobs : k # j => c[k] = b[k] OBVIOUS
  <1> HIDE DEF c
  <1>3. S \in SUBSET Jobs /\ IsFiniteSet(S) BY JobsAssumption, FS_Subset DEF Between
  <1>4. Cardinality(S) \in Nat /\ Cardinality(S) <= count
    BY <1>3, FS_CardinalityType DEF Buckets
  <1>5. Between(c, 0, elapsed) \subseteq S \cup {j} BY <1>2 DEF Between
  <1> HIDE DEF S
  <1>6. Cardinality({j}) <= 1 /\ {j} \in SUBSET Jobs BY FS_Singleton
  <1>7. Cardinality(Between(c, 0, elapsed)) <= count + 1
    BY <1>1, <1>3, <1>4, <1>5, <1>6, FewJobsOfTwo
  <1>8. ASSUME NEW k \in Nat
        PROVE  Cardinality(Between(c, elapsed + 1 + k * Window,
                                   elapsed + 1 + k * Window + Window - 1)) <= Limit
    <2> DEFINE first == elapsed + 1 + k * Window
    <2>1. first > 0 /\ first \in Nat
      <3>1. k * Window \in Nat BY NumberFields
      <3>2. QED BY <1>1, <3>1, NumberFields
    <2>2. Cardinality(Between(b, first, first + Window - 1)) <= Limit BY DEF Buckets
    <2> HIDE DEF first
    <2>3. Between(c, first, first + Window - 1) \subseteq Between(b, first, first + Window - 1)
      BY <1>2, <2>1, NumberFields DEF Between
    <2>4. Cardinality(Between(c, first, first + Window - 1)) <= Limit
      BY <2>2, <2>3, FewJobs, NumberFields DEF Between
    <2>5. QED BY <2>4 DEF first
  <1>9. Buckets(c)' BY <1>7, <1>8 DEF Buckets, Between
  <1>10. Cardinality(Between(b, 0, elapsed)) <= count + 1 BY <1>1, <1>4 DEF S
  <1>11. Buckets(b)' BY <1>10 DEF Buckets, Between
  <1>12. QED BY <1>9, <1>11 DEF c

-----------------------------------------------------------------------------
(* Together: P are the jobs whose last admission was by Postgres.  Redis admits on a slot *)
(* that may be almost a window old, Postgres at once.                                      *)

AnswersAlone(P) ==
  /\ "postgres" \notin Backends => P = {} /\ \A j \in Jobs : ~At(j, "fallback")
  /\ "redis" \notin Backends =>
       \A j \in Jobs \ P : message[j] = None /\ ~At(j, "admitted")

Accounts(g, b, P) ==
  /\ Grants(g) /\ Behind(g, Jobs \ P, Window - 1)
  /\ Buckets(b) /\ Behind(b, P, 0)
  /\ AnswersAlone(P)

GrantInv ==
  /\ SlotsInv
  /\ \E g, b \in [Jobs -> GrantAges], P \in SUBSET Jobs : Accounts(g, b, P)

\* A slot is in use while a job is about to send on it, and as long as it has to count for a
\* message that was sent on it.
InUse(j) == MaySend(j) \/ (message[j] # None /\ message[j] <= slot[j])

\* What release asks of its callers: "only call this when the send definitely did not
\* deliver", which must still be so when the call arrives.
SafeRefunds ==
  \A j \in Jobs : slot[j] \in 0..(Window - 1) /\ slot'[j] = None => ~InUse(j)

LEMMA TickAccounts ==
  ASSUME SlotsInv, Tick, NEW P \in SUBSET Jobs,
         NEW g \in [Jobs -> GrantAges], NEW b \in [Jobs -> GrantAges], Accounts(g, b, P)
  PROVE  \E h, c \in [Jobs -> GrantAges] : Accounts(h, c, P)'
PROOF
  <1>1. job \in [Jobs -> JobStates] /\ message \in [Jobs -> Ages]
    BY DEF SlotsInv, TypeOK, JobStates, Ages
  <1>2. Aged(g) \in [Jobs -> GrantAges] /\ Aged(b) \in [Jobs -> GrantAges] BY AgedFields
  <1>3. Jobs \ P \in SUBSET Jobs /\ Window - 1 \in Nat /\ 0 \in Nat BY NumberFields
  <1>4. Grants(Aged(g))' BY TickGrants DEF Accounts
  <1>5. Behind(Aged(g), Jobs \ P, Window - 1)' BY <1>3, TickBehind DEF Accounts
  <1>6. Buckets(Aged(b))' BY TickBuckets DEF Accounts
  <1>7. Behind(Aged(b), P, 0)' BY <1>3, TickBehind DEF Accounts
  <1>8. \A j \in Jobs : /\ job'[j].stage = job[j].stage
                        /\ message[j] = None => message'[j] = None
    BY <1>1 DEF Tick, JobStates, Older
  <1>9. AnswersAlone(P)' BY <1>8 DEF Accounts, AnswersAlone, At
  <1>10. Aged(g)' = Aged(g) /\ Aged(b)' = Aged(b) BY DEF Aged
  <1>11. Accounts(Aged(g), Aged(b), P)' BY <1>4, <1>5, <1>6, <1>7, <1>9 DEF Accounts
  <1> DEFINE h == Aged(g)
             c == Aged(b)
  <1>12. h \in [Jobs -> GrantAges] /\ c \in [Jobs -> GrantAges] /\ Accounts(h, c, P)'
    BY <1>2, <1>10, <1>11
  <1> HIDE DEF h, c
  <1>13. QED BY <1>12

\* A job that asks has no send in progress.  What the script does for it is its own from now
\* on, unless it has sent.
LEMMA RedisAccounts ==
  ASSUME SlotsInv, NEW j \in Jobs, AcquireRedis(j), NEW P \in SUBSET Jobs,
         NEW g \in [Jobs -> GrantAges], NEW b \in [Jobs -> GrantAges], Accounts(g, b, P)
  PROVE  \E h \in [Jobs -> GrantAges], Q \in SUBSET Jobs : Accounts(h, b, Q)'
PROOF
  <1>1. job \in [Jobs -> JobStates] BY DEF SlotsInv, TypeOK, JobStates
  <1>2. /\ UNCHANGED <<count, elapsed, message>> /\ (Admit(j) \/ Refuse(j))
        /\ "redis" \in Backends /\ At(j, "waiting")
    BY DEF AcquireRedis, Asks
  <1>3. PICK h \in [Jobs -> GrantAges] :
          /\ Grants(h)' /\ (Admit(j) /\ message[j] = None => h[j] \in 0..(Window - 1))
          /\ \A k \in Jobs : k # j \/ message[k] # None => h[k] = g[k]
    BY <1>2, ScriptGrants DEF Accounts
  <1>4. /\ \A k \in Jobs : k # j => job'[k] = job[k]
        /\ At(j, "admitted")' => Admit(j) /\ job'[j].wait = SendTime
        /\ ~At(j, "fallback")'
    BY <1>1 DEF AcquireRedis, IsAdmitted, WaitFor, At, JobStates
  <1>5. PICK Q \in SUBSET P :
          /\ message[j] = None => j \notin Q
          /\ \A k \in Jobs : k # j \/ message[k] # None => (k \in P <=> k \in Q)
    <2>1. CASE message[j] = None BY <2>1, P \ {j} \in SUBSET P
    <2>2. CASE message[j] # None BY <2>2, P \in SUBSET P
    <2>3. QED BY <2>1, <2>2
  <1>6. Behind(b, Q, 0)'
    <2>1. Behind(b, Q, 0) BY <1>5 DEF Accounts, Behind
    <2>2. \A k \in Q : MaySend(k)' => job'[k] = job[k] BY <1>2, <1>4, <1>5 DEF MaySend
    <2>3. QED BY <1>2, <2>1, <2>2, SteadyBehind
  <1>7. Behind(h, Jobs \ Q, Window - 1)'
    <2>1. ASSUME NEW k \in Jobs \ Q, MaySend(k)'
          PROVE  h[k] \in 0..(Window - 1 + SendTime - job'[k].wait)
      <3>1. message[k] = None BY <1>2, <2>1 DEF MaySend
      <3>2. CASE k = j
        <4>1. h[j] \in 0..(Window - 1) /\ job'[j].wait = SendTime
          BY <1>3, <1>4, <2>1, <3>1, <3>2 DEF MaySend
        <4>2. QED BY <3>2, <4>1, NumberFields
      <3>3. CASE k # j
        <4>1. MaySend(k) /\ k \in Jobs \ P /\ job'[k] = job[k] /\ h[k] = g[k]
          BY <1>3, <1>4, <1>5, <2>1, <3>1, <3>3 DEF MaySend, At
        <4>2. QED BY <4>1 DEF Accounts, Behind
      <3>4. QED BY <3>2, <3>3
    <2>2. ASSUME NEW k \in Jobs \ Q, message'[k] \in 0..(Window - 1)
          PROVE  h[k] \in message'[k]..(message'[k] + (Window - 1) + SendTime)
      <3>1. message'[k] = message[k] /\ message[k] # None BY <1>2, <2>2, NumberFields
      <3>2. k \in Jobs \ P /\ h[k] = g[k] BY <1>3, <1>5, <3>1
      <3>3. QED BY <2>2, <3>1, <3>2 DEF Accounts, Behind
    <2>3. QED BY <2>1, <2>2 DEF Behind
  <1>8. Buckets(b)' BY <1>2, SteadyBuckets DEF Accounts
  <1>9. AnswersAlone(Q)' BY <1>2, <1>4, <1>5 DEF Accounts, AnswersAlone, At
  <1>10. Accounts(h, b, Q)' BY <1>3, <1>6, <1>7, <1>8, <1>9 DEF Accounts
  <1>11. Q \in SUBSET Jobs BY <1>5
  <1>12. QED BY <1>3, <1>10, <1>11

\* The script may have run before the call failed: its slot is taken.
LEMMA FallBackAccounts ==
  ASSUME SlotsInv, NEW j \in Jobs, FallBack(j), NEW P \in SUBSET Jobs,
         NEW g \in [Jobs -> GrantAges], NEW b \in [Jobs -> GrantAges], Accounts(g, b, P)
  PROVE  \E h \in [Jobs -> GrantAges] : Accounts(h, b, P)'
PROOF
  <1>1. job \in [Jobs -> JobStates] BY DEF SlotsInv, TypeOK, JobStates
  <1>2. /\ UNCHANGED <<count, elapsed, message>> /\ "postgres" \in Backends
        /\ UNCHANGED slot \/ Admit(j) \/ Refuse(j)
        /\ At(j, "waiting") /\ WaitFor(j, 0, "fallback")
    BY DEF FallBack, GoesTo, Asks
  <1>3. PICK h \in [Jobs -> GrantAges] :
          Grants(h)' /\ \A k \in Jobs : k # j \/ message[k] # None => h[k] = g[k]
    <2>1. CASE UNCHANGED slot
      <3>1. Grants(g)'
        BY <1>2, <2>1 DEF Accounts, Grants, KeepsSlots, FewGrants, Between
      <3>2. QED BY <3>1
    <2>2. CASE Admit(j) \/ Refuse(j) BY <1>2, <2>2, ScriptGrants DEF Accounts
    <2>3. QED BY <1>2, <2>1, <2>2
  <1>4. \A k \in Jobs : /\ At(k, "admitted")' => k # j /\ job'[k] = job[k]
                        /\ At(k, "admitted")' => At(k, "admitted")
    BY <1>1, <1>2 DEF WaitFor, At, JobStates
  <1>5. Window - 1 \in Nat /\ 0 \in Nat BY NumberFields
  <1>6. Behind(h, Jobs \ P, Window - 1)'
    <2>1. \A k \in Jobs \ P : MaySend(k)' => job'[k] = job[k] BY <1>4 DEF MaySend
    <2>2. \A k \in Jobs \ P : MaySend(k)' \/ message[k] # None => h[k] = g[k]
      BY <1>3, <1>4 DEF MaySend
    <2>3. QED BY <1>2, <1>5, <2>1, <2>2, SteadyBehind DEF Accounts
  <1>7. Behind(b, P, 0)'
    <2>1. \A k \in P : MaySend(k)' => job'[k] = job[k] BY <1>4 DEF MaySend
    <2>2. QED BY <1>2, <1>5, <2>1, SteadyBehind DEF Accounts
  <1>8. Buckets(b)' BY <1>2, SteadyBuckets DEF Accounts
  <1>9. AnswersAlone(P)' BY <1>2, <1>4 DEF Accounts, AnswersAlone
  <1>10. Accounts(h, b, P)' BY <1>3, <1>6, <1>7, <1>8, <1>9 DEF Accounts
  <1>11. QED BY <1>3, <1>10

\* Admitted by Postgres, a job that has not sent is one of those that the bucket counts.
LEMMA PostgresAccounts ==
  ASSUME SlotsInv, NEW j \in Jobs, AcquirePostgres(j), NEW P \in SUBSET Jobs,
         NEW g \in [Jobs -> GrantAges], NEW b \in [Jobs -> GrantAges], Accounts(g, b, P)
  PROVE  \E c \in [Jobs -> GrantAges], Q \in SUBSET Jobs : Accounts(g, c, Q)'
PROOF
  <1>1. job \in [Jobs -> JobStates] BY DEF SlotsInv, TypeOK, JobStates
  <1>2. UNCHANGED <<slot, elapsed, message>> /\ At(j, "fallback") BY DEF AcquirePostgres
  <1>3. Grants(g)' BY <1>2 DEF Accounts, Grants, KeepsSlots, FewGrants, Between
  <1>4. Window - 1 \in Nat /\ 0 \in Nat BY NumberFields
  <1>5. \A k \in Jobs : k # j => job'[k] = job[k]
    BY <1>1 DEF AcquirePostgres, IsAdmitted, WaitFor
  <1>6. CASE (At(j, "admitted")' => message[j] # None)
    <2>1. \A k \in Jobs : MaySend(k)' => job'[k] = job[k]
      BY <1>2, <1>5, <1>6 DEF MaySend
    <2>2. Behind(g, Jobs \ P, Window - 1)' BY <1>2, <1>4, <2>1, SteadyBehind DEF Accounts
    <2>3. Behind(b, P, 0)' BY <1>2, <1>4, <2>1, SteadyBehind DEF Accounts
    <2>4. Buckets(b)' BY CountBucket, SteadyBuckets DEF Accounts, AcquirePostgres
    <2>5. AnswersAlone(P)' BY <1>2, <1>5, <1>6 DEF Accounts, AnswersAlone, At
    <2>6. Accounts(g, b, P)' BY <1>3, <2>2, <2>3, <2>4, <2>5 DEF Accounts
    <2>7. QED BY <2>6
  <1>7. CASE message[j] = None /\ At(j, "admitted")'
    <2> DEFINE c == [b EXCEPT ![j] = 0]
    <2>1. c \in [Jobs -> GrantAges] /\ P \cup {j} \in SUBSET Jobs
      BY NumberFields DEF GrantAges
    <2>2. c[j] = 0 /\ \A k \in Jobs : k # j => c[k] = b[k] OBVIOUS
    <2>3. count' = count + 1 /\ job'[j].wait = SendTime
      BY <1>1, <1>7 DEF AcquirePostgres, IsAdmitted, WaitFor, At, JobStates
    <2>4. Buckets(c)' BY <1>2, <2>3, CountBucket DEF Accounts
    <2> HIDE DEF c
    <2>5. Behind(g, Jobs \ (P \cup {j}), Window - 1)'
      <3>1. Behind(g, Jobs \ (P \cup {j}), Window - 1) BY DEF Accounts, Behind
      <3>2. QED BY <1>2, <1>4, <1>5, <3>1, SteadyBehind
    <2>6. Behind(c, P \cup {j}, 0)'
      <3>1. ASSUME NEW k \in P \cup {j}, MaySend(k)'
            PROVE  c[k] \in 0..(0 + SendTime - job'[k].wait)
        <4>1. CASE k = j BY <2>2, <2>3, <4>1, NumberFields
        <4>2. CASE k # j
          <5>1. k \in P /\ MaySend(k) /\ job'[k] = job[k] /\ c[k] = b[k]
            BY <1>2, <1>5, <2>2, <3>1, <4>2 DEF MaySend, At
          <5>2. QED BY <5>1 DEF Accounts, Behind
        <4>3. QED BY <4>1, <4>2
      <3>2. ASSUME NEW k \in P \cup {j}, message'[k] \in 0..(Window - 1)
            PROVE  c[k] \in message'[k]..(message'[k] + 0 + SendTime)
        <4>1. message'[k] = message[k] /\ k # j BY <1>2, <1>7, <3>2, NumberFields
        <4>2. k \in P /\ c[k] = b[k] BY <2>2, <4>1
        <4>3. QED BY <3>2, <4>1, <4>2 DEF Accounts, Behind
      <3>3. QED BY <3>1, <3>2 DEF Behind
    <2>7. AnswersAlone(P \cup {j})' BY <1>2, <1>5 DEF Accounts, AnswersAlone, At
    <2>8. Accounts(g, c, P \cup {j})' BY <1>3, <2>4, <2>5, <2>6, <2>7 DEF Accounts
    <2>9. QED BY <2>1, <2>8
  <1>8. QED BY <1>6, <1>7

LEMMA TaskAccounts ==
  ASSUME SlotsInv, NEW j \in Jobs,
         \/ ReturnLimited(j) \/ Accept(j) \/ MarkSent(j)
         \/ ReturnUnsent(j) \/ MarkRejected(j) \/ EndInDoubt(j),
         NEW P \in SUBSET Jobs, NEW g, NEW b, Accounts(g, b, P)
  PROVE  Accounts(g, b, P)'
PROOF
  <1>1. job \in [Jobs -> JobStates] /\ message \in [Jobs -> Ages]
    BY DEF SlotsInv, TypeOK, JobStates, Ages
  <1>2. UNCHANGED <<slot, count, elapsed>>
    BY DEF ReturnLimited, Accept, MarkSent, ReturnUnsent, MarkRejected, EndInDoubt
  <1>3. \A k \in Jobs : message'[k] = None => message[k] = None
    BY <1>1, NumberFields
    DEF ReturnLimited, Accept, MarkSent, ReturnUnsent, MarkRejected, EndInDoubt
  <1>4. Grants(g)'
    BY <1>2, <1>3 DEF Accounts, Grants, KeepsSlots, FewGrants, Between
  <1>5. Behind(g, Jobs \ P, Window - 1)'
    <2>1. Jobs \ P \in SUBSET Jobs /\ Window - 1 \in Nat BY NumberFields
    <2>2. QED BY <2>1, TaskBehind DEF Accounts
  <1>6. Behind(b, P, 0)'
    <2>1. 0 \in Nat OBVIOUS
    <2>2. QED BY <2>1, TaskBehind DEF Accounts
  <1>7. Buckets(b)' BY <1>2, SteadyBuckets DEF Accounts
  <1>8. \A k \in Jobs : job'[k].stage \in {job[k].stage, "waiting", "accepted", "done"}
    BY <1>1, GoesOn
  <1>9. \A k \in Jobs : message[k] = None /\ ~At(k, "admitted") => message'[k] = None
    BY <1>1, NumberFields
    DEF ReturnLimited, Accept, MarkSent, ReturnUnsent, MarkRejected, EndInDoubt
  <1>10. AnswersAlone(P)' BY <1>8, <1>9 DEF Accounts, AnswersAlone, At
  <1>11. QED BY <1>4, <1>5, <1>6, <1>7, <1>10 DEF Accounts

\* A slot that is not in use accounts for nothing that a message needs.
LEMMA ReleaseAccounts ==
  ASSUME SlotsInv, SafeRefunds, NEW j \in Jobs, Release(j), NEW P \in SUBSET Jobs,
         NEW g \in [Jobs -> GrantAges], NEW b \in [Jobs -> GrantAges], Accounts(g, b, P)
  PROVE  \E h \in [Jobs -> GrantAges] : Accounts(h, b, P)'
PROOF
  <1>1. slot \in [Jobs -> Ages] /\ message \in [Jobs -> Ages]
    BY DEF SlotsInv, TypeOK, Ages
  <1>2. /\ UNCHANGED <<count, elapsed, job, message>>
        /\ slot'[j] = None /\ \A k \in Jobs : k # j => slot'[k] = slot[k]
        /\ slot[j] \in 0..(Window - 1) => ~InUse(j)
    BY <1>1 DEF Release, SafeRefunds
  <1>3. Buckets(b)' BY <1>2, SteadyBuckets DEF Accounts
  <1>4. Behind(b, P, 0)' /\ AnswersAlone(P)'
    BY <1>2 DEF Accounts, Behind, AnswersAlone, MaySend, At
  <1>5. KeepsSlots(g) /\ FewGrants(g) /\ Behind(g, Jobs \ P, Window - 1)
    BY DEF Accounts, Grants
  <1>6. CASE g[j] \notin 0..(Window - 1)
    <2>1. KeepsSlots(g)' BY <1>2, <1>5, <1>6, NumberFields DEF KeepsSlots
    <2>2. FewGrants(g)' BY <1>5 DEF FewGrants, Between
    <2>3. Behind(g, Jobs \ P, Window - 1)' BY <1>2, <1>5 DEF Behind, MaySend, At
    <2>4. QED BY <1>3, <1>4, <2>1, <2>2, <2>3 DEF Accounts, Grants
  <1>7. CASE g[j] \in 0..(Window - 1)
    <2> DEFINE h == [g EXCEPT ![j] = None]
    <2>1. h \in [Jobs -> GrantAges] BY DEF GrantAges
    <2>2. h[j] = None /\ \A k \in Jobs : k # j => h[k] = g[k] OBVIOUS
    <2> HIDE DEF h
    <2>3. slot[j] = g[j] /\ ~InUse(j) BY <1>2, <1>5, <1>7 DEF KeepsSlots
    <2>4. KeepsSlots(h)' BY <1>2, <1>5, <2>2, NumberFields DEF KeepsSlots
    <2>5. FewGrants(h)'
      <3>1. ASSUME NEW from \in Nat
            PROVE  Cardinality(Between(h, from, from + Window - 1)) <= Limit
        <4>1. Between(h, from, from + Window - 1) \subseteq Between(g, from, from + Window - 1)
          BY <2>2, NumberFields DEF Between
        <4>2. Cardinality(Between(g, from, from + Window - 1)) <= Limit
          BY <1>5 DEF FewGrants
        <4>3. QED BY <4>1, <4>2, FewJobs, NumberFields DEF Between
      <3>2. QED BY <3>1 DEF FewGrants, Between
    <2>6. j \in P \/ message[j] \notin 0..(Window - 1)
      <3>1. SUFFICES ASSUME j \notin P, message[j] \in 0..(Window - 1) PROVE FALSE OBVIOUS
      <3>2. g[j] \in message[j]..(message[j] + (Window - 1) + SendTime)
        BY <1>5, <3>1 DEF Behind
      <3>3. QED BY <1>7, <2>3, <3>1, <3>2, NumberFields DEF InUse
    <2>7. Behind(h, Jobs \ P, Window - 1)'
      <3>1. ~MaySend(j) BY <2>3 DEF InUse
      <3>2. \A k \in Jobs : MaySend(k)' <=> MaySend(k) BY <1>2 DEF MaySend, At
      <3>3. QED BY <1>2, <1>5, <2>2, <2>6, <3>1, <3>2 DEF Behind
    <2>8. Accounts(h, b, P)' BY <1>3, <1>4, <2>4, <2>5, <2>7 DEF Accounts, Grants
    <2>9. QED BY <2>1, <2>8
  <1>8. QED BY <1>6, <1>7

LEMMA UnchangedAccounts ==
  ASSUME NEW P \in SUBSET Jobs, NEW g, NEW b, Accounts(g, b, P),
         UNCHANGED <<slot, count, elapsed, job, message>>
  PROVE  Accounts(g, b, P)'
PROOF
  <1>1. Grants(g)' BY DEF Accounts, Grants, KeepsSlots, FewGrants, Between
  <1>2. Buckets(b)' BY SteadyBuckets DEF Accounts
  <1>3. Behind(g, Jobs \ P, Window - 1)' /\ Behind(b, P, 0)' /\ AnswersAlone(P)'
    BY DEF Accounts, Behind, AnswersAlone, MaySend, At
  <1>4. QED BY <1>1, <1>2, <1>3 DEF Accounts

LEMMA GrantStep == GrantInv /\ [Next]_vars /\ [SafeRefunds]_vars => GrantInv'
PROOF
  <1> SUFFICES ASSUME GrantInv, [Next]_vars, [SafeRefunds]_vars PROVE GrantInv' OBVIOUS
  <1>1. SlotsInv /\ SlotsInv' BY StepInv DEF GrantInv
  <1>2. PICK g \in [Jobs -> GrantAges], b \in [Jobs -> GrantAges], P \in SUBSET Jobs :
          Accounts(g, b, P)
    BY DEF GrantInv
  <1>3. ASSUME UNCHANGED <<slot, count, elapsed, job, message>> PROVE GrantInv'
    <2>1. Accounts(g, b, P)' BY <1>2, <1>3, UnchangedAccounts
    <2>2. QED BY <1>1, <2>1 DEF GrantInv
  <1>4. CASE Tick
    <2>1. \E h, c \in [Jobs -> GrantAges] : Accounts(h, c, P)' BY <1>1, <1>2, <1>4, TickAccounts
    <2>2. QED BY <1>1, <2>1 DEF GrantInv
  <1>5. ASSUME NEW j \in Jobs, Task(j) PROVE GrantInv'
    <2>1. CASE AcquireRedis(j)
      <3>1. \E h \in [Jobs -> GrantAges], Q \in SUBSET Jobs : Accounts(h, b, Q)'
        BY <1>1, <1>2, <2>1, RedisAccounts
      <3>2. QED BY <1>1, <3>1 DEF GrantInv
    <2>2. CASE FallBack(j)
      <3>1. \E h \in [Jobs -> GrantAges] : Accounts(h, b, P)'
        BY <1>1, <1>2, <2>2, FallBackAccounts
      <3>2. QED BY <1>1, <3>1 DEF GrantInv
    <2>3. CASE AcquirePostgres(j)
      <3>1. \E c \in [Jobs -> GrantAges], Q \in SUBSET Jobs : Accounts(g, c, Q)'
        BY <1>1, <1>2, <2>3, PostgresAccounts
      <3>2. QED BY <1>1, <3>1 DEF GrantInv
    <2>4. CASE \/ ReturnLimited(j) \/ Accept(j) \/ MarkSent(j)
               \/ ReturnUnsent(j) \/ MarkRejected(j) \/ EndInDoubt(j)
      <3>1. Accounts(g, b, P)' BY <1>1, <1>2, <2>4, TaskAccounts
      <3>2. QED BY <1>1, <3>1 DEF GrantInv
    <2>5. QED BY <1>5, <2>1, <2>2, <2>3, <2>4 DEF Task
  <1>6. ASSUME NEW j \in Jobs, Release(j) PROVE GrantInv'
    <2>1. CASE SafeRefunds
      <3>1. \E h \in [Jobs -> GrantAges] : Accounts(h, b, P)'
        BY <1>1, <1>2, <1>6, <2>1, ReleaseAccounts
      <3>2. QED BY <1>1, <3>1 DEF GrantInv
    <2>2. CASE UNCHANGED vars BY <1>3, <2>2 DEF vars
    <2>3. QED BY <2>1, <2>2
  <1>7. ASSUME NEW j \in Jobs, ReleaseLost(j) PROVE GrantInv' BY <1>3, <1>7 DEF ReleaseLost
  <1>8. CASE UNCHANGED vars BY <1>3, <1>8 DEF vars
  <1>9. QED BY <1>4, <1>5, <1>6, <1>7, <1>8 DEF Next

LEMMA GrantInit == Init => GrantInv
PROOF
  <1> SUFFICES ASSUME Init PROVE GrantInv OBVIOUS
  <1> DEFINE f == [j \in Jobs |-> None]
  <1>1. f \in [Jobs -> GrantAges] /\ \A j \in Jobs : f[j] = None BY DEF GrantAges
  <1> HIDE DEF f
  <1>2. KeepsSlots(f) BY <1>1, NumberFields DEF Init, KeepsSlots
  <1>3. ASSUME NEW first \in Nat, NEW last PROVE Cardinality(Between(f, first, last)) = 0
    <2>1. Between(f, first, last) = {} BY <1>1, NumberFields DEF Between
    <2>2. QED BY <2>1, FS_EmptySet
  <1>4. FewGrants(f) BY <1>3, NumberFields DEF FewGrants
  <1>5. Buckets(f)
    <2>1. elapsed = 0 /\ count = 0 BY DEF Init
    <2>2. \A k \in Nat : elapsed + 1 + k * Window \in Nat BY <2>1, NumberFields
    <2>3. QED BY <1>3, <2>1, <2>2, NumberFields DEF Buckets
  <1>6. Behind(f, Jobs \ {}, Window - 1) /\ Behind(f, {}, 0) /\ AnswersAlone({})
    BY NumberFields DEF Init, Behind, AnswersAlone, MaySend, At
  <1>7. Accounts(f, f, {}) BY <1>2, <1>4, <1>5, <1>6 DEF Accounts, Grants
  <1>8. SlotsInv /\ {} \in SUBSET Jobs BY InitInv
  <1>9. QED BY <1>1, <1>7, <1>8 DEF GrantInv

\* The messages of one window were admitted in the windows that cover it, the life of a slot
\* and a send.
LEMMA GrantsCoverMessages == GrantInv => SentWithinCoveringWindows
PROOF
  <1> SUFFICES ASSUME GrantInv, NEW n \in 0..(SendTime + 2),
                      n * Window >= 2 * Window + SendTime - 1
               PROVE  Cardinality(Recent) <= n * Limit * Cardinality(Backends)
    BY DEF SentWithinCoveringWindows
  <1>1. PICK g \in [Jobs -> GrantAges], b \in [Jobs -> GrantAges], P \in SUBSET Jobs :
          Accounts(g, b, P)
    BY DEF GrantInv
  <1>2. elapsed \in 0..(Window - 1) /\ count \in 0..Limit BY DEF GrantInv, SlotsInv, TypeOK
  <1>3. n \in Nat /\ n - 1 \in Nat
    <2>1. CASE n = 0
      <3>1. n * Window = 0 BY <2>1, NumberFields
      <3>2. QED BY <3>1, NumberFields
    <2>2. CASE n # 0 BY <2>2, NumberFields
    <2>3. QED BY <2>1, <2>2
  <1>4. (n - 1) * Window = n * Window - Window /\ (n - 1) * Limit = n * Limit - Limit
    BY <1>3, NumberFields
  <1>5. n * Window \in Nat /\ n * Limit \in Nat /\ (n - 1) * Limit \in Nat
    BY <1>3, NumberFields
  <1> DEFINE A == Between(g, 0, 0 + n * Window - 1)
             B == Between(b, 0, elapsed)
             C == Between(b, elapsed + 1, elapsed + 1 + (n - 1) * Window - 1)
  <1>6. Cardinality(A) <= n * Limit
    <2>1. \A k \in Nat : 0 + k * Window \in Nat BY NumberFields
    <2>2. \A k \in Nat : Cardinality(Between(g, 0 + k * Window, 0 + k * Window + Window - 1))
                           <= Limit
      BY <1>1, <2>1 DEF Accounts, Grants, FewGrants
    <2>3. 0 \in Nat OBVIOUS
    <2>4. QED BY <1>3, <2>2, <2>3, WindowsCover
  <1>7. Cardinality(C) <= (n - 1) * Limit
    <2>1. \A k \in Nat : Cardinality(Between(b, elapsed + 1 + k * Window,
                                             elapsed + 1 + k * Window + Window - 1)) <= Limit
      BY <1>1 DEF Accounts, Buckets
    <2>2. elapsed + 1 \in Nat BY <1>2, NumberFields
    <2>3. QED BY <1>3, <2>1, <2>2, WindowsCover
  <1>8. A \in SUBSET Jobs /\ B \in SUBSET Jobs /\ C \in SUBSET Jobs BY DEF Between
  <1>9. Cardinality(B) <= Limit
    <2>1. Cardinality(B) <= count BY <1>1 DEF Accounts, Buckets
    <2>2. Cardinality(B) \in Nat BY <1>8, JobsAssumption, FS_Subset, FS_CardinalityType
    <2>3. QED BY <1>2, <2>1, <2>2, NumberFields
  <1>10. Recent \ P \subseteq A
    <2>1. ASSUME NEW j \in Recent, j \notin P PROVE j \in A
      <3>1. message[j] \in 0..(Window - 1) /\ j \in Jobs BY DEF Recent
      <3>2. g[j] \in message[j]..(message[j] + (Window - 1) + SendTime)
        BY <1>1, <2>1, <3>1 DEF Accounts, Behind
      <3>3. g[j] \in 0..(0 + n * Window - 1) BY <1>5, <3>1, <3>2, NumberFields
      <3>4. QED BY <3>1, <3>3 DEF Between
    <2>2. QED BY <2>1
  <1>11. Recent \cap P \subseteq B \cup C
    <2>1. ASSUME NEW j \in Recent, j \in P PROVE j \in B \cup C
      <3>1. message[j] \in 0..(Window - 1) /\ j \in Jobs BY DEF Recent
      <3>2. b[j] \in message[j]..(message[j] + 0 + SendTime)
        BY <1>1, <2>1, <3>1 DEF Accounts, Behind
      <3>3. \/ b[j] \in 0..elapsed
            \/ b[j] \in (elapsed + 1)..(elapsed + 1 + (n * Window - Window) - 1)
        BY <1>2, <1>5, <3>1, <3>2, NumberFields
      <3>4. QED BY <1>4, <3>1, <3>3 DEF Between
    <2>2. QED BY <2>1
  <1> HIDE DEF A, B, C
  <1>12. Cardinality(B \cup C) <= n * Limit /\ B \cup C \in SUBSET Jobs
    BY <1>4, <1>5, <1>7, <1>8, <1>9, NumberFields, FewJobsOfTwo
  <1>13. CASE Backends = {"redis", "postgres"}
    <2>1. /\ IsFiniteSet({"redis"}) /\ Cardinality({"redis"}) = 1
          /\ "postgres" \notin {"redis"} /\ Backends = {"redis"} \cup {"postgres"}
      BY <1>13, FS_Singleton
    <2>2. Cardinality({"redis"} \cup {"postgres"}) = 2 BY <2>1, FS_AddElement
    <2>3. Cardinality(Backends) = 2 BY <2>1, <2>2
    <2>4. Recent \in SUBSET (A \cup (B \cup C)) BY <1>10, <1>11
    <2>5. Cardinality(Recent) <= n * Limit + n * Limit
      BY <1>5, <1>6, <1>8, <1>12, <2>4, FewJobsOfTwo
    <2>6. QED BY <1>5, <2>3, <2>5
  <1>14. CASE Backends = {"redis"}
    <2>1. Cardinality(Backends) = 1 BY <1>14, FS_Singleton
    <2>2. P = {} BY <1>1, <1>14 DEF Accounts, AnswersAlone
    <2>3. Recent \in SUBSET A BY <1>10, <2>2
    <2>4. Cardinality(Recent) <= n * Limit BY <1>5, <1>6, <1>8, <2>3, FewJobs
    <2>5. QED BY <1>5, <2>1, <2>4
  <1>15. CASE Backends = {"postgres"}
    <2>1. Cardinality(Backends) = 1 BY <1>15, FS_Singleton
    <2>2. \A j \in Jobs \ P : message[j] = None
      BY <1>1, <1>15 DEF Accounts, AnswersAlone
    <2>3. Recent \in SUBSET (B \cup C) BY <1>11, <2>2, NumberFields DEF Recent
    <2>4. Cardinality(Recent) <= n * Limit BY <1>5, <1>12, <2>3, FewJobs
    <2>5. QED BY <1>5, <2>1, <2>4
  <1>16. Backends = {"redis", "postgres"} \/ Backends = {"redis"} \/ Backends = {"postgres"}
    BY ChoicesAssumption
  <1>17. QED BY <1>13, <1>14, <1>15, <1>16

\* What is admitted in the windows that cover two and a send bounds the messages of one, for
\* each limiter that answers, however claims end, as long as no refund takes away a slot that
\* is in use when it arrives.
THEOREM SafeRefundsBound == Spec /\ [][SafeRefunds]_vars => []SentWithinCoveringWindows
PROOF
  <1>1. Init => GrantInv BY GrantInit
  <1>2. GrantInv /\ [Next]_vars /\ [SafeRefunds]_vars => GrantInv' BY GrantStep
  <1>3. GrantInv => SentWithinCoveringWindows BY GrantsCoverMessages
  <1>4. QED BY <1>1, <1>2, <1>3, PTL DEF Spec

\* The script takes away no slot of the window.
LEMMA ScriptKeeps ==
  ASSUME SlotsInv, NEW j \in Jobs, Admit(j) \/ Refuse(j)
  PROVE  \A k \in Jobs : slot[k] \in 0..(Window - 1) => slot'[k] # None
PROOF
  <1>1. slot \in [Jobs -> Ages] BY DEF SlotsInv, TypeOK, Ages
  <1>2. Trimmed \in [Jobs -> Ages] BY <1>1, TrimmedFields
  <1>3. \A k \in Jobs : slot[k] \in 0..(Window - 1) => Trimmed[k] = slot[k]
    BY <1>1, HoldingFields DEF Trimmed
  <1>4. slot' = Trimmed \/ slot' = [Trimmed EXCEPT ![j] = 0] BY DEF Admit, Refuse
  <1>5. QED BY <1>2, <1>3, <1>4, NumberFields

\* Where no claim ends in a refund, none can do harm: sends that time out keep their slots,
\* and though their jobs send late in a slot's life, or after it, the bound holds.
THEOREM SlidingWindowBound ==
  ASSUME Outcomes \subseteq {"doubt"} PROVE Spec => []SentWithinCoveringWindows
PROOF
  <1> DEFINE KeptInv == SlotsInv /\ releasing = [j \in Jobs |-> 0]
  <1>1. Init => KeptInv BY InitInv DEF Init
  <1>2. KeptInv /\ [Next]_vars => KeptInv' /\ [SafeRefunds]_vars
    <2> SUFFICES ASSUME KeptInv, Next PROVE KeptInv' /\ SafeRefunds
      BY StepInv DEF vars
    <2>1. slot \in [Jobs -> Ages] /\ SlotsInv' BY StepInv DEF SlotsInv, TypeOK, Ages
    <2>2. \A j \in Jobs : slot[j] \in 0..(Window - 1) => slot[j] # None BY NumberFields
    <2> DEFINE Kept == /\ releasing' = releasing
                       /\ \A j \in Jobs : slot[j] \in 0..(Window - 1) => slot'[j] # None
    <2>3. SUFFICES Kept BY <2>1 DEF SafeRefunds
    <2>4. CASE Tick BY <2>1, <2>4, NumberFields DEF Tick, Older
    <2>5. ASSUME NEW j \in Jobs, Admit(j) \/ Refuse(j), UNCHANGED releasing PROVE Kept
      BY <2>5, ScriptKeeps
    <2>6. ASSUME NEW j \in Jobs, Task(j) PROVE Kept
      BY <2>2, <2>5, <2>6
      DEF Task, AcquireRedis, FallBack, AcquirePostgres, ReturnLimited, Accept, MarkSent,
          ReturnUnsent, MarkRejected, EndInDoubt
    <2>7. ASSUME NEW j \in Jobs PROVE ~Release(j) /\ ~ReleaseLost(j)
      BY DEF Release, ReleaseLost
    <2>8. QED BY <2>4, <2>6, <2>7 DEF Next
  <1> HIDE DEF KeptInv
  <1>3. QED BY <1>1, <1>2, SafeRefundsBound, PTL DEF Spec

\* A bucket gives nothing back, and so buckets bound the messages of one window, however
\* claims end.
THEOREM FixedWindowBound ==
  ASSUME Backends = {"postgres"} PROVE Spec => []SentWithinCoveringWindows
PROOF
  <1> DEFINE EmptyInv == SlotsInv /\ \A j \in Jobs : slot[j] = None
  <1>1. Init => EmptyInv BY InitInv DEF Init
  <1>2. EmptyInv /\ [Next]_vars => EmptyInv' /\ [SafeRefunds]_vars
    <2> SUFFICES ASSUME EmptyInv, [Next]_vars PROVE EmptyInv' /\ [SafeRefunds]_vars OBVIOUS
    <2>1. SlotsInv' /\ slot \in [Jobs -> Ages] BY StepInv DEF SlotsInv, TypeOK, Ages
    <2>2. SafeRefunds BY NumberFields DEF SafeRefunds
    <2>3. ASSUME Tick PROVE \A k \in Jobs : slot'[k] = None BY <2>3 DEF Tick, Older
    <2>4. ASSUME NEW j \in Jobs, Task(j) PROVE UNCHANGED slot
      <3>1. ~AcquireRedis(j) /\ "redis" \notin Backends BY DEF AcquireRedis
      <3>2. QED BY <2>4, <3>1
        DEF Task, FallBack, AcquirePostgres, ReturnLimited, Accept, MarkSent, ReturnUnsent,
            MarkRejected, EndInDoubt
    <2>5. ASSUME NEW j \in Jobs, Release(j) \/ ReleaseLost(j)
          PROVE  \A k \in Jobs : slot'[k] = None
      BY <2>1, <2>5 DEF Release, ReleaseLost
    <2>6. ASSUME UNCHANGED vars PROVE UNCHANGED slot BY <2>6 DEF vars
    <2>7. \A k \in Jobs : slot'[k] = None BY <2>3, <2>4, <2>5, <2>6 DEF Next
    <2>8. QED BY <2>1, <2>2, <2>7
  <1> HIDE DEF EmptyInv
  <1>3. QED BY <1>1, <1>2, SafeRefundsBound, PTL DEF Spec

-----------------------------------------------------------------------------
(* The design's bound.  It counts slots as if they were messages: while every message is  *)
(* as old as the slot it was sent on, they are.                                           *)

\* A message goes out in the tick in which its job takes the slot, not on a later retry.
PromptSends == \A j \in Jobs : message[j] = None /\ message'[j] # None => slot[j] = 0

SentOnOwnSlot == \A j \in Jobs : message[j] \in 0..(Window - 1) => slot[j] = message[j]

\* "A sliding window never allows more than N in any window-length period" holds of Redis
\* alone, while nothing is sent late in the life of its slot (as in sliding_window) and no
\* refund takes away a slot in use (as in refund_race).
THEOREM PromptSendsBound ==
  ASSUME Backends = {"redis"}
  PROVE  Spec /\ [][SafeRefunds]_vars /\ [][PromptSends]_vars => []SentWithinLimit
PROOF
  <1>1. Init => SentOnOwnSlot BY NumberFields DEF Init, SentOnOwnSlot
  <1>2. SlotsInv /\ SentOnOwnSlot /\ [Next]_vars /\ [SafeRefunds]_vars /\ [PromptSends]_vars
          => SentOnOwnSlot'
    <2> SUFFICES ASSUME SlotsInv, SentOnOwnSlot, [Next]_vars, [SafeRefunds]_vars,
                        [PromptSends]_vars
                 PROVE  SentOnOwnSlot'
      OBVIOUS
    <2>1. slot \in [Jobs -> Ages] /\ message \in [Jobs -> Ages] BY DEF SlotsInv, TypeOK, Ages
    <2>2. CASE UNCHANGED <<slot, message>> BY <2>2 DEF SentOnOwnSlot
    <2>3. CASE Tick BY <2>1, <2>3, NumberFields DEF Tick, Older, SentOnOwnSlot, Ages
    <2>4. ASSUME NEW j \in Jobs, AcquireRedis(j) PROVE SentOnOwnSlot'
      <3>1. UNCHANGED message /\ (Admit(j) \/ Refuse(j)) BY <2>4 DEF AcquireRedis
      <3>2. \A k \in Jobs : slot[k] \in 0..(Window - 1) => k \in Holding
        BY <2>1, HoldingFields
      <3>3. \A k \in Holding : Trimmed[k] = slot[k] BY DEF Trimmed, Holding
      <3>4. \A k \in Holding : slot'[k] = slot[k]
        <4>1. \/ slot' = Trimmed
              \/ j \notin Holding /\ slot' = [Trimmed EXCEPT ![j] = 0]
          BY <3>1 DEF Admit, Refuse
        <4>2. Trimmed \in [Jobs -> Ages] /\ \A k \in Holding : k \in Jobs
          BY <2>1, TrimmedFields DEF Holding
        <4>3. QED BY <3>3, <4>1, <4>2
      <3>5. QED BY <3>1, <3>2, <3>4 DEF SentOnOwnSlot
    <2>5. ASSUME NEW j \in Jobs, Accept(j) PROVE SentOnOwnSlot'
      <3>1. UNCHANGED slot /\ \A k \in Jobs : k # j => message'[k] = message[k]
        BY <2>5 DEF Accept
      <3>2. CASE message[j] # None
        <4>1. UNCHANGED message BY <2>5, <3>2 DEF Accept
        <4>2. QED BY <2>2, <3>1, <4>1
      <3>3. CASE message[j] = None
        <4>1. message'[j] = 0 BY <2>1, <2>5, <3>3 DEF Accept
        <4>2. slot[j] = 0 BY <3>3, <4>1, NumberFields DEF PromptSends, vars
        <4>3. QED BY <3>1, <4>1, <4>2 DEF SentOnOwnSlot
      <3>4. QED BY <3>2, <3>3
    <2>6. ASSUME NEW j \in Jobs, Release(j) PROVE SentOnOwnSlot'
      <3>1. UNCHANGED message /\ slot' = [slot EXCEPT ![j] = None]
        BY <2>6 DEF Release
      <3>2. ~(message[j] \in 0..(Window - 1))
        <4>1. SUFFICES ASSUME message[j] \in 0..(Window - 1) PROVE FALSE OBVIOUS
        <4>2. slot[j] = message[j] BY <4>1 DEF SentOnOwnSlot
        <4>3. InUse(j) BY <4>1, <4>2, NumberFields DEF InUse
        <4>4. slot'[j] = None /\ slot' # slot BY <2>1, <3>1, <4>1, <4>2, NumberFields
        <4>5. QED BY <4>1, <4>2, <4>3, <4>4 DEF SafeRefunds, vars
      <3>3. \A k \in Jobs : k # j => slot'[k] = slot[k] BY <3>1
      <3>4. QED BY <3>1, <3>2, <3>3 DEF SentOnOwnSlot
    <2>7. ASSUME NEW j \in Jobs, Task(j) \/ ReleaseLost(j) PROVE SentOnOwnSlot'
      <3>1. ~FallBack(j) BY DEF FallBack
      <3>2. QED BY <2>2, <2>4, <2>5, <2>7, <3>1
        DEF Task, AcquirePostgres, ReturnLimited, MarkSent, ReturnUnsent, MarkRejected,
            EndInDoubt, ReleaseLost
    <2>8. QED BY <2>2, <2>3, <2>6, <2>7 DEF Next, vars
  <1>3. SlotsInv /\ SentOnOwnSlot => SentWithinLimit
    <2> SUFFICES ASSUME SlotsInv, SentOnOwnSlot PROVE SentWithinLimit OBVIOUS
    <2> DEFINE held == {j \in Jobs : slot[j] \in 0..(Window - 1)}
    <2>1. Recent \in SUBSET held BY DEF SentOnOwnSlot, Recent
    <2>2. held \in SUBSET Jobs /\ Cardinality(held) <= Limit
      BY DEF SlotsInv, SlotsWithinLimit
    <2> HIDE DEF held
    <2>3. QED BY <2>1, <2>2, FewJobs, NumberFields DEF SentWithinLimit
  <1>4. QED BY <1>1, <1>2, <1>3, InvHolds, PTL DEF Spec
=============================================================================
