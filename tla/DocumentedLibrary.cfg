\* The documented reading of context.library, with an event that has a context of its
\* own and names no library in it.
CONSTANTS
  OptionValues <- MCOptionValues
  AppContexts <- MCAppContexts
  OwnContexts <- MCOwnContexts
  ExtraMaps <- MCExtraMaps
  AppMessages <- MCMessages
  Statuses <- MCStatuses
  Attempts = 2
SPECIFICATION Spec
INVARIANTS
  LibraryAlwaysPopulated
\* The event ends.
CHECK_DEADLOCK FALSE
