\* One event, two attempts of send.
CONSTANTS
  OptionValues <- MCOptionValues
  AppContexts <- MCAppContexts
  OwnContexts <- MCOwnContexts
  ExtraMaps <- MCExtraMaps
  AppMessages <- MCMessages
  Statuses <- MCStatuses
  Attempts = 2
SPECIFICATION Spec
INVARIANTS
  ClientUsable
  ValidationAgrees
  DefaultContextKept
  SuccessMeansTaken
\* The event ends.
CHECK_DEADLOCK FALSE
