\* Two loops, one job, a budget of four seconds in a lease of five, for twelve seconds.
SPECIFICATION Spec
CONSTANTS
  l1 = l1
  l2 = l2
  NoLoop = NoLoop
  Loops <- TwoLoops
  LeaseSeconds = 5
  SendTimeout = 2
  PoolTimeout = 1
  SafetyMargin = 1
  Horizon = 12
SYMMETRY Symmetry
\* The clock stops at its bound.
CHECK_DEADLOCK FALSE
INVARIANT
  SendInsideLease
PROPERTIES
  SendStartsUnderClaim
  ImplementsClaimLease
