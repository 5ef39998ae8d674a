\* Two jobs compete for a loop that claims one at a time; workers may die or hang anywhere,
\* and the clock and a reaper that takes both at once go on.
SPECIFICATION ReaperSpec
CONSTANTS
  a = a
  b = b
  l1 = l1
  l2 = l2
  l3 = l3
  t1 = t1
  t2 = t2
  t3 = t3
  NoToken = NoToken
  Jobs <- TwoJobs
  Loops <- OneLoop
  Tokens <- OneToken
  Priority <- PriorityOf
  BatchSize = 1
  ReaperBatch = 2
  MaxAttempts = {1, 2}
  ExtraAttempts = {1}
  AttemptBound = 2
\* The queue may drain: every job sent or dead-lettered and nothing to requeue.
CHECK_DEADLOCK FALSE
PROPERTIES
  ClaimsEnd
  EventuallySettled
