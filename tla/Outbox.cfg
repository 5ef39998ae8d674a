\* Two events, two dispatches at once, of one event or of both; fair dispatchers.
SPECIFICATION FairSpec
CONSTANTS
  e1 = e1
  e2 = e2
  d1 = d1
  d2 = d2
  Events <- TwoEvents
  Dispatches <- TwoDispatches
  BatchSize = 2
  WebhookMaxAttempts = 2
\* The outbox may drain: every event delivered or given up.
CHECK_DEADLOCK FALSE
INVARIANTS
  TypeOK
  DeliveredWasReceived
  GivenUpAfterAllAttempts
PROPERTIES
  SettledStaysSettled
  EventuallySettledForGood
