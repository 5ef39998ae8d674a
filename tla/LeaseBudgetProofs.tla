------------------------- MODULE LeaseBudgetProofs -------------------------
(***************************************************************************)
(* That a send stays inside its lease, for any settings, any number of     *)
(* loops and any length of time, and that claims keep what ClaimLease      *)
(* promises.                                                               *)
(***************************************************************************)
EXTENDS LeaseBudget, TLAPS

-----------------------------------------------------------------------------
(* The inductive invariant. *)

Sending == {"send", "connect", "record"}

\* What is still to come from the beginning of a stage to the recorded result.
Rest == [send |-> SendBudget, connect |-> PoolTimeout + SafetyMargin, record |-> SafetyMargin]

\* The deadline was taken before the claim, ...
DeadlineIsEarly(l) ==
  /\ worker[l].since <= now
  /\ worker[l].stage \in {"claim", "commit"} =>
       worker[l].deadline <= worker[l].since + LeaseSeconds
  /\ row.owner = l /\ worker[l].stage \notin {"idle", "claim", "commit"} =>
       worker[l].deadline <= row.lease_expires_at

\* ... so until then the claim is the worker's own, ...
HeldUntilDeadline(l) ==
  worker[l].stage \in {"acquire", "return"} /\ now <= worker[l].deadline => row.owner = l

\* ... and stays so while the stages of a send keep to their bounds.
SendInBudget(l) ==
  worker[l].stage \in Sending /\ ~worker[l].froze =>
    /\ row.owner = l
    /\ now <= worker[l].since + Bound[worker[l].stage]
    /\ worker[l].since + Rest[worker[l].stage] <= worker[l].deadline

OneClaimAtATime ==
  \A l \in Loops : worker[l].stage = "commit" =>
    /\ row.owner = NoLoop
    /\ \A m \in Loops : worker[m].stage = "commit" => m = l

FrozenFroze == \A l \in frozen : worker[l].froze = TRUE

LoopInv(l) == DeadlineIsEarly(l) /\ HeldUntilDeadline(l) /\ SendInBudget(l)

BudgetInv ==
  /\ TypeOK /\ OneClaimAtATime /\ FrozenFroze
  /\ \A l \in Loops : LoopInv(l)

-----------------------------------------------------------------------------
LEMMA IdleFields ==
  Idle \in Worker /\ Idle.stage = "idle" /\ Idle.since = 0 /\ Idle.froze = FALSE
PROOF BY DEF Idle, Worker, Stages

LEMMA SettingsAreNumbers ==
  /\ LeaseSeconds \in Nat /\ SendTimeout \in Nat /\ PoolTimeout \in Nat
  /\ SafetyMargin \in Nat /\ SendBudget \in Nat
  /\ Bound["send"] = SendTimeout /\ Bound["connect"] = PoolTimeout
  /\ Bound["record"] = SafetyMargin
  /\ Rest["send"] = SendBudget /\ Rest["connect"] = PoolTimeout + SafetyMargin
  /\ Rest["record"] = SafetyMargin
PROOF BY SettingsAssumption DEF Bound, Rest, SendBudget

\* A stage begins for one loop; nothing else of the loops changes.
LEMMA BeginFields ==
  ASSUME TypeOK, NEW l \in Loops, NEW stage \in Stages, Begin(l, stage)
  PROVE  /\ worker' \in [Loops -> Worker]
         /\ worker'[l].stage = stage /\ worker'[l].since = now
         /\ worker'[l].deadline = worker[l].deadline
         /\ worker'[l].froze = worker[l].froze
         /\ \A m \in Loops \ {l} : worker'[m] = worker[m]
PROOF
  <1> DEFINE begun == [worker[l] EXCEPT !.stage = stage, !.since = now]
  <1>1. worker[l] \in Worker BY DEF TypeOK
  <1>2. /\ begun \in Worker /\ begun.stage = stage /\ begun.since = now
        /\ begun.deadline = worker[l].deadline /\ begun.froze = worker[l].froze
    BY <1>1 DEF Worker, TypeOK
  <1> HIDE DEF begun
  <1>3. worker' = [worker EXCEPT ![l] = begun] BY DEF Begin, begun
  <1>4. QED BY <1>2, <1>3 DEF TypeOK

LEMMA EndFields ==
  ASSUME TypeOK, NEW l \in Loops, End(l)
  PROVE  /\ worker' \in [Loops -> Worker]
         /\ worker'[l] = Idle
         /\ \A m \in Loops \ {l} : worker'[m] = worker[m]
PROOF BY IdleFields DEF End, TypeOK

LEMMA BudgetInit == Init => BudgetInv
PROOF
  <1> SUFFICES ASSUME Init PROVE BudgetInv OBVIOUS
  <1>1. row \in Row /\ row.owner = NoLoop BY DEF Init, Free, Row
  <1>2. worker \in [Loops -> Worker] /\ \A l \in Loops : worker[l] = Idle
    BY IdleFields DEF Init
  <1>3. TypeOK BY <1>1, <1>2 DEF Init, TypeOK
  <1>4. QED BY <1>1, <1>2, <1>3, IdleFields
            DEF Init, BudgetInv, LoopInv, OneClaimAtATime, FrozenFroze, DeadlineIsEarly,
                HeldUntilDeadline, SendInBudget, Sending

-----------------------------------------------------------------------------
(* A step of one loop leaves the others where they were, ... *)

\* ... if the claim is neither taken from nor given to them.
LEMMA OtherLoops ==
  ASSUME NEW m \in Loops, LoopInv(m), worker'[m] = worker[m], now' = now,
         row' = row \/ (row.owner # m /\ row'.owner # m)
  PROVE  LoopInv(m)'
PROOF BY DEF LoopInv, DeadlineIsEarly, HeldUntilDeadline, SendInBudget

\* Fields of one loop as numbers.
LEMMA LoopNumbers ==
  ASSUME TypeOK, NEW l \in Loops
  PROVE  /\ worker[l].since \in Nat /\ worker[l].deadline \in Nat
         /\ worker[l].stage \in Stages /\ worker[l].froze \in BOOLEAN
         /\ now \in Nat /\ row.lease_expires_at \in Nat /\ row.owner \in Loops \cup {NoLoop}
PROOF BY DEF TypeOK, Worker, Row

\* What no loop's own step can break, once the loop itself is known to be right.
LEMMA LoopStep ==
  ASSUME BudgetInv, NEW l \in Loops, now' = now,
         worker' \in [Loops -> Worker], row' \in Row, frozen' \subseteq Loops,
         \A m \in Loops \ {l} : worker'[m] = worker[m],
         row' = row \/ (row.owner \in {l, NoLoop} /\ row'.owner \in {l, NoLoop}),
         LoopInv(l)',
         frozen' \subseteq frozen \cup {l}, l \in frozen' => worker'[l].froze = TRUE,
         worker'[l].stage = "commit" =>
           row'.owner = NoLoop /\ \A m \in Loops \ {l} : worker[m].stage # "commit",
         \A m \in Loops \ {l} : worker[m].stage = "commit" => row'.owner = NoLoop
  PROVE  BudgetInv'
PROOF
  <1>1. TypeOK' BY LoopNumbers DEF BudgetInv, TypeOK
  <1>2. FrozenFroze' BY DEF BudgetInv, FrozenFroze
  <1>3. OneClaimAtATime'
    BY DEF BudgetInv, OneClaimAtATime
  <1>4. ASSUME NEW m \in Loops PROVE LoopInv(m)'
    <2>1. CASE m = l BY <2>1
    <2>2. CASE m # l
      <3>1. row' = row \/ (row.owner # m /\ row'.owner # m) BY <2>2, LoopsAssumption
      <3>2. QED BY <2>2, <3>1, OtherLoops DEF BudgetInv
    <2>3. QED BY <2>1, <2>2
  <1>5. QED BY <1>1, <1>2, <1>3, <1>4 DEF BudgetInv

LEMMA BudgetLoopStep ==
  ASSUME BudgetInv, NEW l \in Loops, Loop(l)
  PROVE  BudgetInv'
PROOF
  <1> USE LoopNumbers, SettingsAreNumbers, LoopsAssumption
  <1>0. TypeOK /\ LoopInv(l) BY DEF BudgetInv
  <1>1. CASE TakeDeadline(l)
    <2> DEFINE taken == [stage |-> "claim", deadline |-> now + LeaseSeconds, since |-> now,
                         froze |-> FALSE]
    <2>1. now + LeaseSeconds \in Nat BY <1>0
    <2>2. /\ taken \in Worker /\ taken.stage = "claim" /\ taken.since = now
          /\ taken.deadline = now + LeaseSeconds
      BY <1>0, <2>1 DEF Worker, Stages
    <2> HIDE DEF taken
    <2>3. /\ worker' = [worker EXCEPT ![l] = taken] /\ l \notin frozen
          /\ now' = now /\ row' = row /\ frozen' = frozen
      BY <1>1 DEF TakeDeadline, At, taken
    <2>4. /\ worker' \in [Loops -> Worker] /\ worker'[l] = taken
          /\ \A m \in Loops \ {l} : worker'[m] = worker[m]
      BY <1>0, <2>2, <2>3 DEF TypeOK
    <2>5. LoopInv(l)'
      BY <1>0, <2>2, <2>3, <2>4 DEF LoopInv, DeadlineIsEarly, HeldUntilDeadline, SendInBudget, Sending
    <2>6. QED
      BY <1>0, <2>2, <2>3, <2>4, <2>5, LoopStep DEF BudgetInv, OneClaimAtATime, TypeOK
  <1>2. ASSUME NEW stage \in Stages, Begin(l, stage), l \notin frozen,
               now' = now, row' = row, frozen' = frozen, LoopInv(l)',
               stage = "commit" =>
                 row.owner = NoLoop /\ \A m \in Loops : worker[m].stage # "commit"
        PROVE  BudgetInv'
    <2>1. /\ worker' \in [Loops -> Worker] /\ worker'[l].stage = stage
          /\ \A m \in Loops \ {l} : worker'[m] = worker[m]
      BY <1>0, <1>2, BeginFields
    <2>2. QED
      BY <1>0, <1>2, <2>1, LoopStep DEF BudgetInv, OneClaimAtATime, TypeOK
  <1>3. CASE ClaimQuery(l)
    <2>1. /\ Begin(l, "commit") /\ worker[l].stage = "claim" /\ l \notin frozen
          /\ now' = now /\ row' = row /\ frozen' = frozen /\ "commit" \in Stages
          /\ row.owner = NoLoop /\ \A m \in Loops : worker[m].stage # "commit"
      BY <1>3 DEF ClaimQuery, At, Stages
    <2>2. /\ worker'[l].stage = "commit" /\ worker'[l].since = now
          /\ worker'[l].deadline = worker[l].deadline
      BY <1>0, <2>1, BeginFields
    <2>3. LoopInv(l)'
      BY <1>0, <2>1, <2>2 DEF LoopInv, DeadlineIsEarly, HeldUntilDeadline, SendInBudget, Sending
    <2>4. QED BY <1>2, <2>1, <2>3
  <1>4. CASE ClaimCommit(l)
    <2> DEFINE claimed == [owner |-> l, lease_expires_at |-> worker[l].since + LeaseSeconds]
    <2>1. /\ Begin(l, "acquire") /\ worker[l].stage = "commit" /\ l \notin frozen
          /\ now' = now /\ row' = claimed /\ frozen' = frozen /\ "acquire" \in Stages
      BY <1>4 DEF ClaimCommit, At, Stages
    <2>2. worker[l].since + LeaseSeconds \in Nat BY <1>0
    <2>3. /\ claimed \in Row /\ claimed.owner = l
          /\ claimed.lease_expires_at = worker[l].since + LeaseSeconds
      BY <2>2 DEF Row
    <2> HIDE DEF claimed
    <2>4. /\ worker'[l].stage = "acquire" /\ worker'[l].since = now
          /\ worker'[l].deadline = worker[l].deadline
          /\ worker' \in [Loops -> Worker]
          /\ \A m \in Loops \ {l} : worker'[m] = worker[m]
      BY <1>0, <2>1, BeginFields
    <2>5. row.owner = NoLoop /\ \A m \in Loops : worker[m].stage = "commit" => m = l
      BY <2>1 DEF BudgetInv, OneClaimAtATime
    <2>6. LoopInv(l)'
      BY <1>0, <2>1, <2>3, <2>4 DEF LoopInv, DeadlineIsEarly, HeldUntilDeadline, SendInBudget, Sending
    <2>7. QED
      BY <1>0, <2>1, <2>3, <2>4, <2>5, <2>6, LoopStep DEF BudgetInv, TypeOK
  <1>5. CASE Return(l)
    <2>1. /\ Begin(l, "return") /\ worker[l].stage = "acquire" /\ l \notin frozen
          /\ now' = now /\ row' = row /\ frozen' = frozen /\ "return" \in Stages
      BY <1>5 DEF Return, At, Stages
    <2>2. /\ worker'[l].stage = "return" /\ worker'[l].since = now
          /\ worker'[l].deadline = worker[l].deadline
      BY <1>0, <2>1, BeginFields
    <2>3. LoopInv(l)'
      BY <1>0, <2>1, <2>2 DEF LoopInv, DeadlineIsEarly, HeldUntilDeadline, SendInBudget, Sending
    <2>4. QED BY <1>2, <2>1, <2>3
  <1>6. CASE StartSend(l)
    <2>1. /\ Begin(l, "send") /\ worker[l].stage = "acquire" /\ l \notin frozen
          /\ now' = now /\ row' = row /\ frozen' = frozen /\ "send" \in Stages
          /\ worker[l].deadline - now >= SendBudget
      BY <1>6 DEF StartSend, At, Stages
    <2>2. /\ worker'[l].stage = "send" /\ worker'[l].since = now
          /\ worker'[l].deadline = worker[l].deadline
      BY <1>0, <2>1, BeginFields
    <2>3. row.owner = l /\ now + SendBudget <= worker[l].deadline
      BY <1>0, <2>1 DEF LoopInv, HeldUntilDeadline
    <2>4. LoopInv(l)'
      BY <1>0, <2>1, <2>2, <2>3
         DEF LoopInv, DeadlineIsEarly, HeldUntilDeadline, SendInBudget, Sending
    <2>5. QED BY <1>2, <2>1, <2>4
  <1>7. CASE SendEnds(l)
    <2>1. /\ Begin(l, "connect") /\ worker[l].stage = "send" /\ l \notin frozen
          /\ now' = now /\ row' = row /\ frozen' = frozen /\ "connect" \in Stages
      BY <1>7 DEF SendEnds, At, Stages
    <2>2. /\ worker'[l].stage = "connect" /\ worker'[l].since = now
          /\ worker'[l].deadline = worker[l].deadline /\ worker'[l].froze = worker[l].froze
      BY <1>0, <2>1, BeginFields
    <2>3. ~worker[l].froze => /\ row.owner = l
                              /\ now + (PoolTimeout + SafetyMargin) <= worker[l].deadline
      BY <1>0, <2>1 DEF LoopInv, SendInBudget, Sending, SendBudget
    <2>4. LoopInv(l)'
      BY <1>0, <2>1, <2>2, <2>3
         DEF LoopInv, DeadlineIsEarly, HeldUntilDeadline, SendInBudget, Sending
    <2>5. QED BY <1>2, <2>1, <2>4
  <1>8. CASE Connect(l)
    <2>1. /\ Begin(l, "record") /\ worker[l].stage = "connect" /\ l \notin frozen
          /\ now' = now /\ row' = row /\ frozen' = frozen /\ "record" \in Stages
      BY <1>8 DEF Connect, At, Stages
    <2>2. /\ worker'[l].stage = "record" /\ worker'[l].since = now
          /\ worker'[l].deadline = worker[l].deadline /\ worker'[l].froze = worker[l].froze
      BY <1>0, <2>1, BeginFields
    <2>3. ~worker[l].froze => row.owner = l /\ now + SafetyMargin <= worker[l].deadline
      BY <1>0, <2>1 DEF LoopInv, SendInBudget, Sending
    <2>4. LoopInv(l)'
      BY <1>0, <2>1, <2>2, <2>3
         DEF LoopInv, DeadlineIsEarly, HeldUntilDeadline, SendInBudget, Sending
    <2>5. QED BY <1>2, <2>1, <2>4
  <1>9. CASE Record(l)
    <2>1. /\ End(l) /\ now' = now /\ frozen' = frozen /\ l \notin frozen
          /\ row' = IF row.owner = l THEN Free(row.lease_expires_at) ELSE row
      BY <1>9 DEF Record, At
    <2>2. /\ Free(row.lease_expires_at) \in Row
          /\ Free(row.lease_expires_at).owner = NoLoop
      BY <1>0 DEF Free, Row
    <2>3. /\ row' \in Row
          /\ row' = row \/ (row.owner = l /\ row'.owner = NoLoop)
      BY <1>0, <2>1, <2>2 DEF TypeOK
    <2>4. /\ worker'[l] = Idle /\ worker' \in [Loops -> Worker]
          /\ \A m \in Loops \ {l} : worker'[m] = worker[m]
      BY <1>0, <2>1, EndFields
    <2>5. LoopInv(l)'
      BY <1>0, <2>1, <2>4, IdleFields
         DEF LoopInv, DeadlineIsEarly, HeldUntilDeadline, SendInBudget, Sending
    <2>6. QED
      BY <1>0, <2>1, <2>3, <2>4, <2>5, IdleFields, LoopStep DEF BudgetInv, OneClaimAtATime, TypeOK
  <1>10. CASE Fail(l)
    <2>1. /\ End(l) /\ now' = now /\ row' = row /\ frozen' = frozen \ {l}
      BY <1>10 DEF Fail
    <2>2. /\ worker'[l] = Idle /\ worker' \in [Loops -> Worker]
          /\ \A m \in Loops \ {l} : worker'[m] = worker[m]
      BY <1>0, <2>1, EndFields
    <2>3. LoopInv(l)'
      BY <1>0, <2>1, <2>2, IdleFields
         DEF LoopInv, DeadlineIsEarly, HeldUntilDeadline, SendInBudget, Sending
    <2>4. QED
      BY <1>0, <2>1, <2>2, <2>3, IdleFields, LoopStep DEF BudgetInv, OneClaimAtATime, TypeOK
  <1>11. CASE Freeze(l)
    <2> DEFINE freezing == [worker[l] EXCEPT !.froze = TRUE]
    <2>1. worker[l] \in Worker BY <1>0 DEF TypeOK
    <2>2. /\ freezing \in Worker /\ freezing.stage = worker[l].stage
          /\ freezing.since = worker[l].since /\ freezing.deadline = worker[l].deadline
          /\ freezing.froze = TRUE
      BY <2>1 DEF Worker
    <2> HIDE DEF freezing
    <2>3. /\ worker' = [worker EXCEPT ![l] = freezing]
          /\ now' = now /\ row' = row /\ frozen' = frozen \cup {l}
      BY <1>11 DEF Freeze, freezing
    <2>4. /\ worker' \in [Loops -> Worker] /\ worker'[l] = freezing
          /\ \A m \in Loops \ {l} : worker'[m] = worker[m]
      BY <1>0, <2>2, <2>3 DEF TypeOK
    <2>5. LoopInv(l)'
      BY <1>0, <2>2, <2>3, <2>4 DEF LoopInv, DeadlineIsEarly, HeldUntilDeadline, SendInBudget
    <2>6. QED
      BY <1>0, <2>2, <2>3, <2>4, <2>5, LoopStep DEF BudgetInv, OneClaimAtATime, TypeOK
  <1>12. CASE Thaw(l)
    BY <1>0, <1>12, LoopStep DEF Thaw, BudgetInv, OneClaimAtATime, FrozenFroze, LoopInv,
       DeadlineIsEarly, HeldUntilDeadline, SendInBudget, TypeOK
  <1>13. QED
    BY <1>1, <1>3, <1>4, <1>5, <1>6, <1>7, <1>8, <1>9, <1>10, <1>11, <1>12 DEF Loop

\* The reaper frees the job only once the lease, and with it every deadline, has passed.
LEMMA BudgetReapStep ==
  ASSUME BudgetInv, Reap
  PROVE  BudgetInv'
PROOF
  <1> USE LoopNumbers, SettingsAreNumbers, LoopsAssumption
  <1>0. TypeOK BY DEF BudgetInv
  <1>1. /\ row'.owner = NoLoop /\ row' \in Row /\ row.lease_expires_at < now
        /\ row.owner # NoLoop /\ now' = now /\ worker' = worker /\ frozen' = frozen
    BY <1>0 DEF Reap, Free, Row, TypeOK
  <1>2. ASSUME NEW l \in Loops PROVE LoopInv(l)'
    <2>1. CASE row.owner # l
      BY <1>1, <2>1, OtherLoops DEF BudgetInv
    <2>2. CASE row.owner = l
      <3>1. LoopInv(l) BY DEF BudgetInv
      <3>2. worker[l].stage \in {"acquire", "return"} \cup Sending =>
              worker[l].deadline < now
        BY <1>0, <1>1, <2>2, <3>1 DEF LoopInv, DeadlineIsEarly, Sending
      <3>3. worker[l].stage \in Sending => worker[l].froze
        BY <1>0, <1>1, <3>1, <3>2 DEF LoopInv, SendInBudget, Sending, SendBudget
      <3>4. QED
        BY <1>0, <1>1, <2>2, <3>1, <3>2, <3>3
           DEF LoopInv, DeadlineIsEarly, HeldUntilDeadline, SendInBudget
    <2>3. QED BY <2>1, <2>2
  <1>3. QED
    BY <1>0, <1>1, <1>2 DEF BudgetInv, OneClaimAtATime, FrozenFroze, TypeOK

\* Time passes no stage's bound while its process runs.
LEMMA BudgetTickStep ==
  ASSUME BudgetInv, Tick
  PROVE  BudgetInv'
PROOF
  <1> USE LoopNumbers, SettingsAreNumbers, LoopsAssumption
  <1>0. TypeOK BY DEF BudgetInv
  <1>1. /\ now' = now + 1 /\ now' \in Nat /\ row' = row /\ worker' = worker /\ frozen' = frozen
    BY <1>0 DEF Tick, TypeOK
  <1>2. ASSUME NEW l \in Loops PROVE LoopInv(l)'
    <2>1. LoopInv(l) BY DEF BudgetInv
    <2>2. DeadlineIsEarly(l)' BY <1>0, <1>1, <2>1 DEF LoopInv, DeadlineIsEarly
    <2>3. HeldUntilDeadline(l)' BY <1>0, <1>1, <2>1 DEF LoopInv, HeldUntilDeadline
    <2>4. ASSUME worker[l].stage \in Sending, ~worker[l].froze
          PROVE  now + 1 <= worker[l].since + Bound[worker[l].stage]
      <3>1. l \notin frozen BY <2>4 DEF BudgetInv, FrozenFroze
      <3>2. now < worker[l].since + Bound[worker[l].stage]
        BY <2>4, <3>1 DEF Tick, Sending
      <3>3. Bound[worker[l].stage] \in Nat BY <2>4 DEF Sending
      <3>4. QED BY <1>0, <3>2, <3>3
    <2>5. SendInBudget(l)' BY <1>1, <2>1, <2>4 DEF LoopInv, SendInBudget
    <2>6. QED BY <2>2, <2>3, <2>5 DEF LoopInv
  <1>3. QED
    BY <1>0, <1>1, <1>2 DEF BudgetInv, OneClaimAtATime, FrozenFroze, TypeOK

LEMMA BudgetStep == BudgetInv /\ [Next]_vars => BudgetInv'
PROOF
  <1> SUFFICES ASSUME BudgetInv, [Next]_vars PROVE BudgetInv' OBVIOUS
  <1>1. CASE UNCHANGED vars
    BY <1>1 DEF vars, BudgetInv, TypeOK, OneClaimAtATime, FrozenFroze, LoopInv,
       DeadlineIsEarly, HeldUntilDeadline, SendInBudget
  <1>2. QED BY <1>1, BudgetLoopStep, BudgetReapStep, BudgetTickStep DEF Next

LEMMA BudgetHolds == Spec => []BudgetInv
PROOF BY BudgetInit, BudgetStep, PTL DEF Spec

-----------------------------------------------------------------------------
\* The state variables of worker and row keep their types.
THEOREM BudgetTypeCorrect == Spec => []TypeOK
<1>1. BudgetInv => TypeOK BY DEF BudgetInv
<1>2. QED BY <1>1, BudgetHolds, PTL

\* From the budget check to the recorded result, a worker that does not freeze works
\* under its own running lease: send_budget_seconds is enough, whatever the settings.
THEOREM SendsStayInsideLease == Spec => []SendInsideLease
<1>1. BudgetInv => SendInsideLease
  <2> SUFFICES ASSUME BudgetInv, NEW l \in Loops, worker[l].stage \in Sending, ~worker[l].froze
               PROVE  row.owner = l /\ now <= row.lease_expires_at
      BY DEF SendInsideLease, Sending
  <2>1. TypeOK /\ LoopInv(l) BY DEF BudgetInv
  <2>2. row.owner = l /\ worker[l].deadline <= row.lease_expires_at
    BY <2>1 DEF LoopInv, SendInBudget, DeadlineIsEarly, Sending
  <2>3. now <= worker[l].deadline
    BY <2>1, LoopNumbers, SettingsAreNumbers DEF LoopInv, SendInBudget, Sending, SendBudget
  <2>4. QED BY <2>1, <2>2, <2>3, LoopNumbers
<1>2. QED BY <1>1, BudgetHolds, PTL

\* No send starts without a running claim, even if the process froze before the check.
THEOREM SendsStartUnderClaim == Spec => SendStartsUnderClaim
<1> DEFINE Starts == \A l \in Loops :
             worker[l].stage = "acquire" /\ worker'[l].stage = "send" =>
               row.owner = l /\ now <= row.lease_expires_at
<1>1. BudgetInv /\ [Next]_vars => [Starts]_vars
  <2> SUFFICES ASSUME BudgetInv, Next, NEW l \in Loops,
                      worker[l].stage = "acquire", worker'[l].stage = "send"
               PROVE  row.owner = l /\ now <= row.lease_expires_at
      OBVIOUS
  <2>1. TypeOK /\ LoopInv(l) BY DEF BudgetInv
  <2>2. worker'[l] # worker[l] OBVIOUS
  <2>3. PICK m \in Loops : Loop(m) BY <2>2 DEF Next, Reap, Tick
  <2>4. StartSend(l)
    <3>1. ASSUME NEW stage \in Stages, Begin(m, stage) PROVE m = l /\ stage = "send"
      BY <2>1, <2>2, <3>1, BeginFields
    <3>2. ~End(m)
      BY <2>1, <2>2, EndFields, IdleFields
    <3>3. ~TakeDeadline(m) BY <2>1, <2>2 DEF TakeDeadline, TypeOK
    <3>4. ~Freeze(m) BY <2>1, <2>2 DEF Freeze, TypeOK, Worker
    <3>5. QED
      BY <2>2, <2>3, <3>1, <3>2, <3>3, <3>4
         DEF Loop, ClaimQuery, ClaimCommit, Return, StartSend, SendEnds, Connect, Record,
             Fail, Thaw, Stages
  <2>5. QED
    BY <2>1, <2>4, LoopNumbers, SettingsAreNumbers
       DEF StartSend, LoopInv, HeldUntilDeadline, DeadlineIsEarly
<1>2. QED BY <1>1, BudgetHolds, PTL DEF SendStartsUnderClaim, Spec

-----------------------------------------------------------------------------
(* LeaseBudget implements ClaimLease. *)

IsClaimed == row.owner # NoLoop
IsLive == row.owner # NoLoop /\ now <= row.lease_expires_at
Owners == {l \in Loops : row.owner = l /\ worker[l].stage \notin {"idle", "claim", "commit"}}
Senders == {l \in Loops : worker[l].stage = "send"}

LEMMA ClaimStays ==
  ASSUME IsClaimed' = IsClaimed, IsLive' = IsLive, Owners' = Owners, Senders' = Senders
  PROVE  UNCHANGED Claim!vars
PROOF BY DEF Claim!vars, IsClaimed, IsLive, Owners, Senders

\* A stage begins under an unchanged row.
LEMMA BeginMoves ==
  ASSUME BudgetInv, NEW l \in Loops, NEW stage \in Stages, Begin(l, stage),
         row' = row, now' = now,
         worker[l].stage \in {"idle", "claim", "commit"}
           <=> stage \in {"idle", "claim", "commit"},
         stage = "send" => worker[l].stage = "send" \/ (l \in Owners /\ IsLive)
  PROVE  [Claim!Next]_(Claim!vars)
PROOF
  <1>1. /\ worker'[l].stage = stage /\ \A m \in Loops \ {l} : worker'[m] = worker[m]
    BY BeginFields DEF BudgetInv
  <1>2. IsClaimed' = IsClaimed /\ IsLive' = IsLive BY DEF IsClaimed, IsLive
  <1>3. Owners' = Owners BY <1>1 DEF Owners
  <1>4. CASE stage = "send" /\ l \notin Senders
    <2>1. Senders' = Senders \cup {l} BY <1>1, <1>4 DEF Senders
    <2>2. Claim!StartSend(l)
      BY <1>2, <1>3, <1>4, <2>1 DEF Claim!StartSend, IsClaimed, IsLive, Owners, Senders
    <2>3. QED BY <2>2 DEF Claim!Next
  <1>5. CASE stage # "send" /\ l \in Senders
    <2>1. Senders' = Senders \ {l} BY <1>1, <1>5 DEF Senders
    <2>2. Claim!EndSend(l)
      BY <1>2, <1>3, <1>5, <2>1 DEF Claim!EndSend, IsClaimed, IsLive, Owners, Senders
    <2>3. QED BY <2>2 DEF Claim!Next
  <1>6. CASE stage = "send" <=> l \in Senders
    <2>1. Senders' = Senders BY <1>1, <1>6 DEF Senders
    <2>2. QED BY <1>2, <1>3, <2>1, ClaimStays
  <1>7. QED BY <1>4, <1>5, <1>6

\* A loop that stops without a word to the row dies, for all the row knows.
LEMMA StopMoves ==
  ASSUME BudgetInv, NEW l \in Loops, End(l), row' = row, now' = now
  PROVE  [Claim!Next]_(Claim!vars)
PROOF
  <1>1. /\ worker'[l].stage = "idle" /\ \A m \in Loops \ {l} : worker'[m] = worker[m]
    BY EndFields, IdleFields DEF BudgetInv
  <1>2. IsClaimed' = IsClaimed /\ IsLive' = IsLive BY DEF IsClaimed, IsLive
  <1>3. Owners' = Owners \ {l} /\ Senders' = Senders \ {l} BY <1>1 DEF Owners, Senders
  <1>4. Claim!Die(l)
    BY <1>2, <1>3 DEF Claim!Die, IsClaimed, IsLive, Owners, Senders
  <1>5. QED BY <1>4 DEF Claim!Next

LEMMA CommitMoves ==
  ASSUME BudgetInv, NEW l \in Loops, ClaimCommit(l)
  PROVE  [Claim!Next]_(Claim!vars)
PROOF
  <1>1. /\ worker[l].stage = "commit" /\ row.owner = NoLoop /\ row'.owner = l /\ TypeOK
    BY DEF ClaimCommit, At, BudgetInv, OneClaimAtATime
  <1>2. "acquire" \in Stages /\ Begin(l, "acquire") BY DEF Stages, ClaimCommit
  <1>3. /\ worker'[l].stage = "acquire" /\ \A m \in Loops \ {l} : worker'[m] = worker[m]
    BY <1>1, <1>2, BeginFields
  <1>4. IsClaimed = FALSE /\ IsClaimed' = TRUE /\ IsLive' \in BOOLEAN
    BY <1>1, LoopsAssumption DEF IsClaimed, IsLive
  <1>5. Owners' = {l} BY <1>1, <1>3 DEF Owners
  <1>6. l \notin Senders /\ Senders' = Senders BY <1>1, <1>3 DEF Senders
  <1>7. Claim!Take(l)
    BY <1>4, <1>5, <1>6 DEF Claim!Take, IsClaimed, IsLive, Owners, Senders
  <1>8. QED BY <1>7 DEF Claim!Next

LEMMA RecordMoves ==
  ASSUME BudgetInv, NEW l \in Loops, Record(l)
  PROVE  [Claim!Next]_(Claim!vars)
PROOF
  <1>1. End(l) /\ now' = now /\ worker[l].stage \in {"record", "return"}
    BY DEF Record, At
  <1>2. CASE row.owner # l
    <2>1. row' = row BY <1>2 DEF Record
    <2>2. QED BY <1>1, <2>1, StopMoves
  <1>3. CASE row.owner = l
    <2>1. row'.owner = NoLoop BY <1>3 DEF Record, Free
    <2>2. /\ worker'[l].stage = "idle" /\ \A m \in Loops \ {l} : worker'[m] = worker[m]
      BY <1>1, EndFields, IdleFields DEF BudgetInv
    <2>3. l \in Owners /\ l \notin Senders BY <1>1, <1>3 DEF Owners, Senders
    <2>4. IsClaimed' = FALSE /\ IsLive' = FALSE BY <2>1 DEF IsClaimed, IsLive
    <2>5. Owners' = {} BY <2>1, LoopsAssumption DEF Owners
    <2>6. Senders' = Senders BY <1>1, <2>2 DEF Senders
    <2>7. Claim!GiveUp(l)
      BY <2>3, <2>4, <2>5, <2>6 DEF Claim!GiveUp, IsClaimed, IsLive, Owners, Senders
    <2>8. QED BY <2>7 DEF Claim!Next
  <1>4. QED BY <1>2, <1>3

\* Only an expired lease is taken away; only the clock ends one.
LEMMA ReapMoves ==
  ASSUME BudgetInv, Reap
  PROVE  [Claim!Next]_(Claim!vars)
PROOF
  <1>1. /\ row.owner # NoLoop /\ row.lease_expires_at < now /\ row'.owner = NoLoop
        /\ worker' = worker
    BY DEF Reap, Free
  <1>2. row.lease_expires_at \in Nat /\ now \in Nat BY DEF BudgetInv, TypeOK, Row
  <1>3. IsClaimed = TRUE /\ IsLive = FALSE /\ IsClaimed' = FALSE /\ IsLive' = FALSE
    BY <1>1, <1>2 DEF IsClaimed, IsLive
  <1>4. Owners' = {} /\ Senders' = Senders
    BY <1>1, LoopsAssumption DEF Owners, Senders
  <1>5. Claim!Reap
    BY <1>3, <1>4 DEF Claim!Reap, IsClaimed, IsLive, Owners, Senders
  <1>6. QED BY <1>5 DEF Claim!Next

LEMMA TickMoves ==
  ASSUME BudgetInv, Tick
  PROVE  [Claim!Next]_(Claim!vars)
PROOF
  <1>1. row' = row /\ worker' = worker /\ now' = now + 1 BY DEF Tick
  <1>2. row.lease_expires_at \in Nat /\ now \in Nat BY DEF BudgetInv, TypeOK, Row
  <1>3. IsClaimed' = IsClaimed /\ Owners' = Owners /\ Senders' = Senders
    BY <1>1 DEF IsClaimed, Owners, Senders
  <1>4. IsLive \in BOOLEAN /\ IsLive' \in BOOLEAN BY DEF IsLive
  <1>5. IsLive' => IsLive BY <1>1, <1>2 DEF IsLive
  <1>6. CASE IsLive' = IsLive BY <1>3, <1>6, ClaimStays
  <1>7. CASE IsLive = TRUE /\ IsLive' = FALSE
    <2>1. Claim!Expire
      BY <1>3, <1>7 DEF Claim!Expire, IsClaimed, IsLive, Owners, Senders
    <2>2. QED BY <2>1 DEF Claim!Next
  <1>8. QED BY <1>4, <1>5, <1>6, <1>7

LEMMA LoopMoves ==
  ASSUME BudgetInv, NEW l \in Loops, Loop(l)
  PROVE  [Claim!Next]_(Claim!vars)
PROOF
  <1>0. TypeOK /\ LoopInv(l) BY DEF BudgetInv
  <1>1. ASSUME row' = row, now' = now, \A m \in Loops : worker'[m].stage = worker[m].stage
        PROVE  [Claim!Next]_(Claim!vars)
    BY <1>1, ClaimStays DEF IsClaimed, IsLive, Owners, Senders
  <1>2. CASE TakeDeadline(l)
    <2>1. /\ row' = row /\ now' = now /\ worker[l].stage = "idle" /\ worker'[l].stage = "claim"
          /\ \A m \in Loops \ {l} : worker'[m] = worker[m]
      BY <1>0, <1>2 DEF TakeDeadline, At, TypeOK
    <2>2. /\ IsClaimed' = IsClaimed /\ IsLive' = IsLive
          /\ Owners' = Owners /\ Senders' = Senders
      BY <2>1 DEF IsClaimed, IsLive, Owners, Senders
    <2>3. QED BY <2>2, ClaimStays
  <1>3. CASE ClaimQuery(l)
    BY <1>3, BeginMoves DEF ClaimQuery, At, Stages
  <1>4. CASE Return(l) BY <1>4, BeginMoves DEF Return, At, Stages
  <1>5. CASE StartSend(l)
    <2>1. l \in Owners /\ IsLive
      <3>1. worker[l].stage = "acquire" /\ worker[l].deadline - now >= SendBudget
        BY <1>5 DEF StartSend, At
      <3>2. /\ now <= worker[l].deadline /\ row.owner = l
            /\ worker[l].deadline <= row.lease_expires_at
        BY <1>0, <3>1, LoopNumbers, SettingsAreNumbers
           DEF LoopInv, HeldUntilDeadline, DeadlineIsEarly
      <3>3. now <= row.lease_expires_at BY <1>0, <3>2, LoopNumbers
      <3>4. QED BY <3>1, <3>2, <3>3, LoopsAssumption DEF Owners, IsLive
    <2>2. QED BY <1>5, <2>1, BeginMoves DEF StartSend, At, Stages
  <1>6. CASE SendEnds(l) BY <1>6, BeginMoves DEF SendEnds, At, Stages
  <1>7. CASE Connect(l) BY <1>7, BeginMoves DEF Connect, At, Stages
  <1>8. CASE Fail(l) BY <1>8, StopMoves DEF Fail
  <1>9. CASE Freeze(l)
    <2>1. \A m \in Loops : worker'[m].stage = worker[m].stage
      BY <1>0, <1>9 DEF Freeze, TypeOK, Worker
    <2>2. QED BY <1>1, <1>9, <2>1 DEF Freeze
  <1>10. CASE Thaw(l) BY <1>1, <1>10 DEF Thaw
  <1>11. QED
    BY <1>2, <1>3, <1>4, <1>5, <1>6, <1>7, <1>8, <1>9, <1>10, CommitMoves, RecordMoves DEF Loop

\* The lease budget keeps the promise of the lease, with clocks and deadlines: a send starts
\* under the sender's own running claim, which no one takes away before it is over.
THEOREM BudgetImplementsClaimLease == Spec => ImplementsClaimLease
<1>1. Init => Claim!Init
  <2> SUFFICES ASSUME Init PROVE Claim!Init OBVIOUS
  <2>1. row.owner = NoLoop /\ \A l \in Loops : worker[l].stage = "idle"
    BY IdleFields DEF Init, Free
  <2>2. IsClaimed = FALSE /\ IsLive = FALSE /\ Owners = {} /\ Senders = {}
    BY <2>1 DEF IsClaimed, IsLive, Owners, Senders
  <2>3. QED BY <2>2 DEF Claim!Init, IsClaimed, IsLive, Owners, Senders
<1>2. BudgetInv /\ [Next]_vars => [Claim!Next]_(Claim!vars)
  <2> SUFFICES ASSUME BudgetInv, [Next]_vars PROVE [Claim!Next]_(Claim!vars) OBVIOUS
  <2>1. CASE UNCHANGED vars
    BY <2>1, ClaimStays DEF vars, IsClaimed, IsLive, Owners, Senders
  <2>2. QED BY <2>1, LoopMoves, ReapMoves, TickMoves DEF Next
<1>3. QED BY <1>1, <1>2, BudgetHolds, PTL DEF Spec, ImplementsClaimLease, Claim!Spec
=============================================================================
