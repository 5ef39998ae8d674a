\* Two jobs, one slot, Redis that may fail, claims that end in every way; fair tasks.
SPECIFICATION FairSpec
CONSTANTS
  a = a
  b = b
  c = c
  d = d
  e = e
  Jobs <- TwoJobs
  Limit = 1
  Window = 2
  SendTime = 1
  Loops = 2
  Backends = {"redis", "postgres"}
  Outcomes = {"unsent", "rejected", "doubt"}
INVARIANT
  TypeOK
PROPERTY
  EventuallySent
