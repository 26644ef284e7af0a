\* Liveness, with two messages for a queue of one.  No symmetry.
SPECIFICATION FairSpec
CONSTANTS
  m1 = m1  m2 = m2  m3 = m3  m4 = m4  c1 = c1  c2 = c2
  Message <- GoodMessage
  Kind <- GoodKind
  Closers = {c1}
  AppClosers = {}
  QueueCapacity = 1
  Encodable <- GoodMessage
  JsonLen <- LongJsonLen
  BatchSize = 2
  MaxMessageBytes = 4
  PayloadLimit = 20
  EnvelopeLen = 10
  MaxConcurrent = 1
  Attempts = 2
  DispatcherPanics = FALSE
PROPERTIES
  EnqueueReturns
  AcceptedGetsCallback
