\* Four overlapping calls of do on two slots.
CONSTANTS
  Task = {t1, t2, t3, t4}
  Cap = 2
  NoTask = NoTask
SPECIFICATION FairSpec
INVARIANTS
  TypeOK
  InFlightBounded
PROPERTIES
  DoReturns
  AcceptedFinishes
  ImplementsSlots
\* Every call returns and every task finishes: the executor then stays idle.
CHECK_DEADLOCK FALSE
