\* A list of five rows in two chunks, three tries of each request.
CONSTANTS
  RowCount = 5
  Chunk = 3
  MaxAttempts = 3
  Bad <- MCBad
  Spoilt <- MCSpoilt
  Present <- MCPresent
  SegmentIDs <- MCSegmentIDs
  Headers <- MCHeaders
  Second = 4
  Width = 6
SPECIFICATION FairSpec
INVARIANTS
  TypeOK
  ResultCoversPrefix
  ChunkBoundary
  NotFoundExplained
  RetryAfterHonoured
PROPERTIES
  CallReturns
\* The call returns and the network empties.
CHECK_DEADLOCK FALSE
