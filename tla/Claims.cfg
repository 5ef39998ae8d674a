\* One job, three loops: claims, stale owners and fencing.
SPECIFICATION Spec
CONSTANTS
  a = a
  b = b
  l1 = l1
  l2 = l2
  l3 = l3
  t1 = t1
  t2 = t2
  t3 = t3
  NoToken = NoToken
  Jobs <- OneJob
  Loops <- ThreeLoops
  Tokens <- ThreeTokens
  Priority <- PriorityOf
  BatchSize = 1
  ReaperBatch = 1
  MaxAttempts = {1, 2}
  ExtraAttempts = {1, 2}
  AttemptBound = 3
SYMMETRY Symmetry
\* The queue may drain: every job sent or dead-lettered and nothing to requeue.
CHECK_DEADLOCK FALSE
INVARIANTS
  TypeOK
  DisplacedOnlyByReaper
  AttemptsNumberedInOrder
  WithinRetryCap
  DeliveredOnce
  DeadLettersMatchStatus
  UniqueKeysAreFree
  OneEventPerAttempt
  SentWasAccepted
  ResentOnlyAfterDoubt
PROPERTIES
  SentIsFinal
  ImplementsLifecycle
  ImplementsClaimLease
