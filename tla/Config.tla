-------------------------------- MODULE Config --------------------------------
(***************************************************************************)
(* How the options of src/index.go become the configuration of a client:   *)
(* toCoreConfig, validate, makeConfig and the default queue and            *)
(* dispatcher, and NewSegments. A nil or empty value is "". Contexts are   *)
(* objects, which a configuration points to: "app" is the application's,   *)
(* "copy" one that the client allocates.                                   *)
(***************************************************************************)
EXTENDS HTTPDispatcher, Messages

\* A queue is known by its capacity; this is none.
NoQueue == 0

ZeroConfig == [endpoint |-> "", interval |-> 0, transport |-> "", dispatcher |-> NoDispatcher,
               queue |-> NoQueue, queueCapacity |-> 0, logger |-> "", callback |-> "",
               batchSize |-> 0, verbose |-> FALSE, context |-> "", retryAfter |-> ""]

\* WithInterval, WithBatchSize and the others set one field.
With(c, field, value) == [c EXCEPT ![field] = value]

\* The configuration points to the application's context.
ToCoreConfig_SharesContext(c) ==
  Over([uid |-> "", now |-> "", maxConcurrentRequests |-> 0], c)

\* toCoreConfig copies the context; the unexported fields stay zero.
ToCoreConfig(c) ==
  Over([uid |-> "", now |-> "", maxConcurrentRequests |-> 0],
       [c EXCEPT !.context = IF c.context = "" THEN "" ELSE "copy"])

Valid(c) == c.interval >= 0 /\ c.batchSize >= 0

Or(value, default) == IF value = "" THEN default ELSE value

OrNumber(value, default) == IF value = 0 THEN default ELSE value

\* The interval has no default: time.NewTicker panics on it.
MakeConfig_NoInterval(c) ==
  [c EXCEPT !.endpoint = Or(@, "https://events.origamy.io"),
            !.transport = Or(@, DefaultTransport),
            !.logger = Or(@, "stderr"),
            !.batchSize = OrNumber(@, 250),
            !.context = Or(@, "copy"),
            !.retryAfter = Or(@, "backo"),
            !.uid = Or(@, "uuid"),
            !.now = Or(@, "time.Now"),
            !.maxConcurrentRequests = OrNumber(@, 1000)]

MakeConfig(c) ==
  [c EXCEPT !.endpoint = Or(@, "https://events.origamy.io"),
            !.interval = OrNumber(@, 5),
            !.transport = Or(@, DefaultTransport),
            !.logger = Or(@, "stderr"),
            !.batchSize = OrNumber(@, 250),
            !.context = Or(@, "copy"),
            !.retryAfter = Or(@, "backo"),
            !.uid = Or(@, "uuid"),
            !.now = Or(@, "time.Now"),
            !.maxConcurrentRequests = OrNumber(@, 1000)]

\* makeConfig also writes the library into the context it points to.
SetLibrary(context) == [context EXCEPT !.library = "origamy-go"]

\* The default queue, which ChannelQueue.tla models, by its capacity.
MakeDefaultQueue(c) == IF c.queueCapacity <= 0 THEN 100 ELSE c.queueCapacity

MakeDefaultDispatcher(c) ==
  NewHTTPDispatcher(IF c.transport = "" THEN <<>> ELSE <<WithTransport(c.transport)>>)

\* The client of a valid configuration.
NewWithConfig(core) ==
  LET c == MakeConfig(core)
  IN  [c EXCEPT !.dispatcher = IF @ = NoDispatcher THEN MakeDefaultDispatcher(c) ELSE @,
                !.queue = IF @ = NoQueue THEN MakeDefaultQueue(c) ELSE @]

\* NewSegments reads three options and ignores the others, the invalid ones too.
NewSegments(c) == [endpoint |-> Or(c.endpoint, "https://events.origamy.io"),
                   transport |-> Or(c.transport, DefaultTransport),
                   timeout |-> 30,
                   retryAfter |-> Or(c.retryAfter, "doubling")]
===============================================================================
