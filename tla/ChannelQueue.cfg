\* The queue with a buffer of one: three Enqueue calls and one TryEnqueue call
\* contend for it while two Close calls overlap.  Nobody has to receive, so the
\* buffer blocks callers for good unless the queue is closed.
SPECIFICATION FairSpec
CONSTANTS
  Enqueues = {e1, e2, e3}
  TryEnqueues = {t1}
  Closes = {c1, c2}
  Drainers = {d1}
  Pollers = {p1}
  Capacity = 1
INVARIANTS
  TypeOK
  AcceptedExactlyOnce
  RefusedOnlyIfFlagUp
  CloseReturnsSealed
  DrainEndsComplete
PROPERTIES
  HistoryGrows
  CloseReleasesCallers
\* Once every call has returned nothing more happens.
CHECK_DEADLOCK FALSE
