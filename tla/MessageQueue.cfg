\* Room for seven bytes and for five messages: batches end both ways.
SPECIFICATION Spec
CONSTANTS
  Message <- MCMessage
  Encodable <- MCEncodable
  JsonLen <- MCJsonLen
  MaxBatchSize = 5
  MaxMessageBytes = 4
  PayloadLimit = 17
  EnvelopeLen = 10
INVARIANTS
  TypeOK
  BytesCountPending
  PendingBelowBatchSize
  BatchesInOrder
  PayloadExcessBounded
