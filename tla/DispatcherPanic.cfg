\* The documented reading of the callbacks, with a dispatcher that panics.
SPECIFICATION Spec
CONSTANTS
  m1 = m1  m2 = m2  m3 = m3  m4 = m4  c1 = c1  c2 = c2
  Message <- OddMessage
  Kind <- OddKind
  Closers = {c1}
  AppClosers = {}
  QueueCapacity = 1
  Encodable <- OddMessage
  JsonLen <- OddJsonLen
  BatchSize = 2
  MaxMessageBytes = 4
  PayloadLimit = 20
  EnvelopeLen = 10
  MaxConcurrent = 1
  Attempts = 2
  DispatcherPanics = TRUE
INVARIANTS
  DiscardedIsReported
