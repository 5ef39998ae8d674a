\* Five jobs, two slots of Redis; sends that end in doubt keep their slot.
SPECIFICATION Spec
CONSTANTS
  a = a
  b = b
  c = c
  d = d
  e = e
  Jobs <- FiveJobs
  Limit = 2
  Window = 2
  SendTime = 1
  Loops = 1
  Backends = {"redis"}
  Outcomes = {"doubt"}
SYMMETRY Symmetry
VIEW RedisView
INVARIANTS
  SlotsWithinLimit
  SentWithinCoveringWindows
PROPERTY
  RefusalWaitIsExact
