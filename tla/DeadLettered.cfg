\* The claim of a test about dead-lettered jobs, refuted.
SPECIFICATION Spec
CONSTANTS
  a = a
  b = b
  l1 = l1
  l2 = l2
  l3 = l3
  t1 = t1
  t2 = t2
  t3 = t3
  NoToken = NoToken
  Jobs <- OneJob
  Loops <- TwoLoops
  Tokens <- TwoTokens
  Priority <- PriorityOf
  BatchSize = 1
  ReaperBatch = 1
  MaxAttempts = {1, 2}
  ExtraAttempts = {1}
  AttemptBound = 2
\* The queue may drain: every job sent or dead-lettered and nothing to requeue.
CHECK_DEADLOCK FALSE
INVARIANT
  DeadLetteredNeverDelivered
