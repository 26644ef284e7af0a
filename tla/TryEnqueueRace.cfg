\* The documented reading of TryEnqueue, against a Close that runs between the
\* load of the flag and the send.
SPECIFICATION Spec
CONSTANTS
  Enqueues = {e1}
  TryEnqueues = {t1}
  Closes = {c1}
  Drainers = {}
  Pollers = {}
  Capacity = 1
INVARIANTS
  TryEnqueueNeverPanics
CHECK_DEADLOCK FALSE
