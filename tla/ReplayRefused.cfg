\* The documented answer to a replay, refuted.
SPECIFICATION Spec
CONSTANTS
  r1 = r1
  r2 = r2
  g1 = g1
  h1 = h1
  h2 = h2
  NoHash = NoHash
  Requests <- TwoRequests
  Readers <- OneReader
  Hashes <- TwoHashes
  TimedHashes <- OneTimed
  ActiveTtl = 2
  TerminalTtl = 3
  TombstoneTtl = 2
  IdempotencyTtl = 1
  ReadDelay = 1
  MaxVersion = 4
PROPERTY
  ReplayGetsTheJob
