\* Three messages, batches of two, two sends at a time and two attempts: the third
\* batch of one message is refused, a batch retries while the client closes, and a
\* caller blocked on the full queue races the second of two closers.
SPECIFICATION Spec
CONSTANTS
  m1 = m1  m2 = m2  m3 = m3  m4 = m4  c1 = c1  c2 = c2
  Message <- GoodMessage
  Kind <- GoodKind
  Closers <- TwoClosers
  AppClosers = {}
  QueueCapacity = 1
  Encodable <- GoodMessage
  JsonLen <- GoodJsonLen
  BatchSize = 2
  MaxMessageBytes = 4
  PayloadLimit = 20
  EnvelopeLen = 10
  MaxConcurrent = 2
  Attempts = 2
  DispatcherPanics = FALSE
SYMMETRY Symmetry
INVARIANTS
  Conservation
  CloseFlushes
  NoSendAfterDispatcherClose
  AttemptsJustifyVerdict
PROPERTIES
  ClosedClientRefuses
  ImplementsDelivery
