------------------------------- MODULE MCEvent --------------------------------
(***************************************************************************)
(* Instance of Event for TLC: options that are absent, valid and invalid,  *)
(* every message type with each of its fields present or absent.           *)
(***************************************************************************)
EXTENDS Event

MCOptionValues ==
  [interval |-> {-1, 1}, batchSize |-> {-1, 1}, queueCapacity |-> {-1, 2}, queue |-> {3},
   endpoint |-> {"https://e"}, transport |-> {"custom"}, retryAfter |-> {"fn"},
   context |-> {"app"},
   dispatcher |-> {NoopDispatcher, NewHTTPDispatcher(<<WithTimeout(3), WithTransport("custom")>>)}]

MCAppContexts == {[library |-> "app", locale |-> "l1", extra |-> "app"]}

\* With a library of the application's and without one.
MCOwnContexts == [library : {"app", ""}, locale : {"l1"}, extra : {"own"}]

\* A key that a struct field has too.
MCExtraMaps == {[library |-> "extra"]}

\* The id and the timestamp are both given or both left out.
MCMessages == {m \in Message : WellFormed(m) /\ m.messageId = m.timestamp}

\* Taken, not followed, and refused.
MCStatuses == {200, 304, 503}
===============================================================================
