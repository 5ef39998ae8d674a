\* Two requests with one key and two bodies, a reader, four versions of the job; every TTL outlives a read.
SPECIFICATION FairSpec
CONSTANTS
  r1 = r1
  r2 = r2
  g1 = g1
  h1 = h1
  h2 = h2
  NoHash = NoHash
  Requests <- TwoRequests
  Readers <- OneReader
  Hashes <- TwoHashes
  TimedHashes <- OneTimed
  ActiveTtl = 2
  TerminalTtl = 3
  TombstoneTtl = 2
  IdempotencyTtl = 1
  ReadDelay = 1
  MaxVersion = 4
INVARIANTS
  TypeOK
  OneJobPerKey
  NoStaleAfterInvalidation
  CacheNeverAhead
PROPERTIES
  StaleEnds
  RequestsEnd
