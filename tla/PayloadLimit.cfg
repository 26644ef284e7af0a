\* Five short messages fill the bytes that are counted; their commas are not.
SPECIFICATION Spec
CONSTANTS
  Message <- ShortMessage
  Encodable <- ShortMessage
  JsonLen <- ShortJsonLen
  MaxBatchSize = 6
  MaxMessageBytes = 4
  PayloadLimit = 16
  EnvelopeLen = 10
INVARIANTS
  PayloadWithinLimit
