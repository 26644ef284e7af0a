---------------------------- MODULE HTTPDispatcher ----------------------------
(***************************************************************************)
(* The dispatchers of internal/dispatcher as values: http.go with its      *)
(* options, and noop.go.  Durations are in seconds.                        *)
(***************************************************************************)
EXTENDS Integers, Sequences

DefaultTransport == "http.DefaultTransport"

\* An option given to NewHTTPDispatcher.
WithTransport(transport) == [option |-> "transport", value |-> transport, timeout |-> 0]
WithTimeout(seconds) == [option |-> "timeout", value |-> "", timeout |-> seconds]

Default == [kind |-> "http", transport |-> DefaultTransport, timeout |-> 10]

\* Every transport supports a timeout since Go 1.6: a transport sets it again.
Apply(option, d) ==
  IF option.option = "transport"
  THEN [d EXCEPT !.transport = option.value, !.timeout = 10]
  ELSE [d EXCEPT !.timeout = option.timeout]

\* The options are applied in the order given.
NewHTTPDispatcher(options) ==
  LET after[n \in 0..Len(options)] ==
        IF n = 0 THEN Default ELSE Apply(options[n], after[n - 1])
  IN  after[Len(options)]

NoopDispatcher == [kind |-> "noop", transport |-> "", timeout |-> 0]

\* No Dispatcher was given.
NoDispatcher == [kind |-> "", transport |-> "", timeout |-> 0]

\* handleResponse logs the body of an error, if it can be read, and returns an error.
HandleResponse_Below400(status) == IF status < 400 THEN "nil" ELSE "error"

HandleResponse(status) == IF status < 300 THEN "nil" ELSE "error"

===============================================================================
