\* The limiter's condition on releasing a slot, refuted.
SPECIFICATION Spec
CONSTANTS
  a = a
  b = b
  c = c
  d = d
  e = e
  Jobs <- TwoJobs
  Limit = 1
  Window = 2
  SendTime = 0
  Loops = 2
  Backends = {"redis"}
  Outcomes = {"unsent"}
PROPERTY
  ReleasedOnlyUnused
