--------------------------------- MODULE Event ---------------------------------
(***************************************************************************)
(* The life of one event, from the options given to New to the verdict:    *)
(* the client is configured (Config), the message validated and filled in  *)
(* by Enqueue (Messages), marshalled by the loop, and sent by client.send  *)
(* through a dispatcher (HTTPDispatcher) to the API. The queue, the batch  *)
(* and the goroutines in between are those of Client.tla.                  *)
(*                                                                         *)
(* The API, the network and net/http are external: a request can be lost,  *)
(* refused, taken although its answer is lost or replaced on the way,      *)
(* taken late, or answered by a redirect, which http.Client follows with a *)
(* GET that carries no events.                                             *)
(***************************************************************************)
EXTENDS Config

CONSTANTS OptionValues, \* the values the application may give to each option
          AppContexts,  \* the Context it may give to WithDefaultContext
          OwnContexts,  \* and the one it may put in a message
          ExtraMaps,    \* what it may put in their Extra maps
          AppMessages,  \* the messages it may enqueue
          Statuses,     \* HTTP statuses
          Attempts      \* const attempts of send, 10 in the code

\* The types of the fields, and a dispatcher of one's own that gives up in the end.
ASSUME OptionAssumption ==
  \A f \in DOMAIN OptionValues : \A value \in OptionValues[f] :
    /\ f \in {"interval", "batchSize", "queueCapacity"} => value \in Int
    /\ f = "queue" => value \in Nat
    /\ f = "dispatcher" /\ value.kind = "http" => value.timeout > 0
    /\ f = "context" => value \in {"", "app"}
ASSUME MessageAssumption == AppMessages \subseteq {m \in Message : WellFormed(m)}
ASSUME ContextAssumption == AppContexts \subseteq Context /\ OwnContexts \subseteq Context

VARIABLES pc,        \* how far the event is
          config,    \* the Config that New fills in
          contexts,  \* the Context objects
          maps,      \* the Extra maps that they refer to
          given,     \* history: the default context when New was called
          dispatcher, defaultContext, \* of the client
          msg,       \* history: the message the application passed
          queued,    \* the message in the queue or the batch
          wire,      \* its JSON, marshalled once for all attempts
          attempt,
          request,   \* the latest request: "none", "sent", "taken" or "moved"
          late,      \* how many given up requests may still arrive
          taken,     \* history: how often the API took the event
          verdict    \* the callback: "none", "success" or "failure"

heapVars == <<contexts, maps>>
clientVars == <<dispatcher, defaultContext, given>>
netVars == <<request, late, taken>>
vars == <<pc, config, heapVars, clientVars, msg, queued, wire, attempt, netVars, verdict>>

NoMessage == [type |-> "", userId |-> "", anonymousId |-> "", subject |-> "",
              messageId |-> "", timestamp |-> "", context |-> ""]

NoWire == [fields |-> <<>>, context |-> <<>>]

Init == /\ pc = "configuring"
        /\ config = ZeroConfig
        /\ contexts \in [app : AppContexts, own : OwnContexts, copy : {EmptyContext}]
        /\ maps = [app |-> <<>>, own |-> <<>>]
        /\ given = EmptyContext
        /\ dispatcher = NoDispatcher /\ defaultContext = ""
        /\ msg = NoMessage /\ queued = NoMessage /\ wire = NoWire
        /\ attempt = 0
        /\ request = "none" /\ late = 0 /\ taken = 0
        /\ verdict = "none"

-------------------------------------------------------------------------------
(* New                                                                     *)

ApplyOption(field) ==
  /\ pc = "configuring"
  /\ \E value \in OptionValues[field] : config' = With(config, field, value)
  /\ UNCHANGED <<pc, heapVars, clientVars, msg, queued, wire, attempt, netVars, verdict>>

DefaultContextOf(c) == IF c.context = "" THEN EmptyContext ELSE contexts[c.context]

\* New returns: of the client, what the rest of the event's life reads is kept.
New == LET core == ToCoreConfig(config)
           made == NewWithConfig(core)
       IN  /\ pc = "configuring"
           /\ Valid(core)
           /\ dispatcher' = made.dispatcher
           /\ defaultContext' = made.context
           /\ given' = DefaultContextOf(config)
           /\ contexts' = [contexts EXCEPT ![made.context] = SetLibrary(DefaultContextOf(config))]
           /\ config' = ZeroConfig
           /\ pc' = "ready"
           /\ UNCHANGED <<maps, msg, queued, wire, attempt, netVars, verdict>>

\* New drops the error of validate and returns a nil Client; a call on it panics.
NewReturnsNil == /\ pc = "configuring"
                 /\ ~Valid(ToCoreConfig(config))
                 /\ pc' = "no client"
                 /\ UNCHANGED <<config, heapVars, clientVars, msg, queued, wire, attempt, netVars, verdict>>

\* The application goes on using the Context it gave to WithDefaultContext, and
\* the one it put in a message, which the loop reads after Enqueue returned.
ChangeContext(c) ==
  /\ pc \in {"ready", "queued"}
  /\ contexts' = [contexts EXCEPT ![c].locale = "l2"]
  /\ UNCHANGED <<pc, config, maps, clientVars, msg, queued, wire, attempt, netVars, verdict>>

\* The client's copy of a Context refers to the same Extra map.
ChangeExtra(c) ==
  /\ pc \in {"ready", "queued"}
  /\ \E extra \in ExtraMaps : maps' = [maps EXCEPT ![c] = extra]
  /\ UNCHANGED <<pc, config, contexts, clientVars, msg, queued, wire, attempt, netVars, verdict>>

-------------------------------------------------------------------------------
(* Enqueue and the loop                                                    *)

Enqueue(m) == /\ pc = "ready"
              /\ msg' = m
              /\ IF Validate(m) = ""
                 THEN /\ queued' = Decorate(m, "uid", "now", defaultContext)
                      /\ pc' = "queued"
                 ELSE /\ UNCHANGED queued
                      /\ pc' = "refused"
              /\ UNCHANGED <<config, heapVars, clientVars, wire, attempt, netVars, verdict>>

ExtraOf(c) == IF c.extra = "" THEN <<>> ELSE maps[c.extra]

\* makeMessage marshals the message with the context it points to.
Marshal == /\ pc = "queued"
           /\ LET c == contexts[queued.context]
              IN  wire' = [fields |-> Fields(queued), context |-> MarshalContext(c, ExtraOf(c))]
           /\ pc' = "sending"
           /\ UNCHANGED <<config, heapVars, clientVars, msg, queued, attempt, netVars, verdict>>

-------------------------------------------------------------------------------
(* send and the dispatcher                                                 *)

SendNoop == /\ pc = "sending"
            /\ dispatcher.kind = "noop"
            /\ pc' = "done" /\ verdict' = "success"
            /\ UNCHANGED <<config, heapVars, clientVars, msg, queued, wire, attempt, netVars>>

Post == /\ pc = "sending"
        /\ dispatcher.kind = "http"
        /\ request' = "sent"
        /\ pc' = "posting"
        /\ UNCHANGED <<config, heapVars, clientVars, msg, queued, wire, attempt, late, taken, verdict>>

\* Send returned: nil ends the batch, an error goes to the retry's select.
Sent(result) == /\ IF result = "nil" THEN pc' = "done" /\ verdict' = "success"
                                     ELSE pc' = "retrying" /\ UNCHANGED verdict
                /\ UNCHANGED <<config, heapVars, clientVars, msg, queued, wire, attempt>>

\* The API answers 2xx only if it took the events; a gateway may answer an error
\* in its place, and at the end of a redirect any status is possible.
SendAnswered(status) == /\ pc = "posting"
                        /\ status < 300 => request \in {"taken", "moved"}
                        /\ Sent(HandleResponse(status))
                        /\ UNCHANGED netVars

\* No connection, no answer within the timeout, or too many redirects.
SendFails == /\ pc = "posting"
             /\ \/ request = "sent" /\ late' = late + 1
                \/ UNCHANGED late
             /\ Sent("error")
             /\ UNCHANGED <<request, taken>>

RetryTimer == /\ pc = "retrying"
              /\ IF attempt + 1 # Attempts
                 THEN attempt' = attempt + 1 /\ pc' = "sending" /\ UNCHANGED verdict
                 ELSE UNCHANGED attempt /\ pc' = "done" /\ verdict' = "failure"
              /\ UNCHANGED <<config, heapVars, clientVars, msg, queued, wire, netVars>>

\* The client is closed while the retry waits.
RetryQuit == /\ pc = "retrying"
             /\ pc' = "done" /\ verdict' = "failure"
             /\ UNCHANGED <<config, heapVars, clientVars, msg, queued, wire, attempt, netVars>>

-------------------------------------------------------------------------------
(* The API and the network                                                 *)

ApiTakes == /\ pc = "posting" /\ request = "sent"
            /\ request' = "taken" /\ taken' = taken + 1
            /\ UNCHANGED <<pc, config, heapVars, clientVars, msg, queued, wire, attempt, late, verdict>>

ApiRedirects == /\ pc = "posting" /\ request = "sent"
                /\ request' = "moved"
                /\ UNCHANGED <<pc, config, heapVars, clientVars, msg, queued, wire, attempt, late, taken, verdict>>

LateRequest == /\ late > 0
               /\ late' = late - 1
               /\ \/ taken' = taken + 1
                  \/ UNCHANGED taken
               /\ UNCHANGED <<pc, config, heapVars, clientVars, msg, queued, wire, attempt, request, verdict>>

-------------------------------------------------------------------------------

Configure == (\E field \in DOMAIN OptionValues : ApplyOption(field)) \/ New \/ NewReturnsNil

Send == \/ SendNoop \/ Post \/ SendFails \/ RetryTimer \/ RetryQuit
        \/ \E status \in Statuses : SendAnswered(status)

Api == ApiTakes \/ ApiRedirects \/ LateRequest

Next == \/ Configure
        \/ \E c \in {"app", "own"} : ChangeContext(c) \/ ChangeExtra(c)
        \/ \E m \in AppMessages : Enqueue(m)
        \/ Marshal \/ Send \/ Api

Spec == Init /\ [][Next]_vars

-------------------------------------------------------------------------------
(* Properties                                                              *)

\* Whatever options an application gives, and in whatever order, the client that
\* New returns has what its goroutines assume: a ticker that does not panic
\* (interval), a batch that can fill, slots for send, a queue, a retry policy, a
\* logger and a dispatcher that gives up in the end; and the context it writes the
\* library into is not the application's.  NewSegments, which checks nothing,
\* yields a usable client even of the options that New refuses
\* (makeConfig, NewWithConfig, toCoreConfig, NewSegments).
ClientUsable ==
  pc = "configuring" =>
    LET core == ToCoreConfig(config)
        client == NewWithConfig(core)
        segments == NewSegments(config)
    IN  /\ Valid(core) => /\ client.interval > 0
                          /\ client.batchSize > 0
                          /\ client.maxConcurrentRequests > 0
                          /\ client.queue # NoQueue /\ client.queue > 0
                          /\ client.dispatcher.kind = "http" => client.dispatcher.timeout > 0
                          /\ \A f \in {"retryAfter", "logger", "uid", "now"} : client[f] # ""
                          /\ client.context \notin {"", "app"}
        /\ \A f \in {"endpoint", "transport", "retryAfter"} : segments[f] # ""
        /\ segments.timeout > 0

\* The two ways of validating agree: Enqueue refuses a message exactly if
\* ValidateFields refuses its fields, with the same FieldError; and after the
\* defaults and the JSON the event still passes ValidateFields, with the
\* application's ids and with a message id and a timestamp
\* (Validate, ValidateFields, Enqueue, makeMessage).
ValidationAgrees ==
  /\ msg # NoMessage => (ValidateFields(Fields(msg)) = "") = (pc # "refused")
  /\ msg # NoMessage => ValidateFields(Fields(msg)) = Validate(msg)
  /\ wire # NoWire =>
       /\ ValidateFields(wire.fields) = ""
       /\ \A f \in DOMAIN Fields(msg) : f \in DOMAIN wire.fields /\ wire.fields[f] = Fields(msg)[f]
       /\ {"messageId", "timestamp"} \subseteq DOMAIN wire.fields

\* The default context is the application's as it was when New was called, with the
\* SDK's library: what the application assigns to its Context later is not seen, the
\* client never writes to it, and Extra, a map that the two share and that the
\* application may still change, cannot hide the library.  An event's own context goes
\* out as the application left it, each field from the struct or, where that is empty,
\* from Extra: nothing of the default context is mixed in, not even the library, which
\* is not what the documentation says (see LibraryAlwaysPopulated)
\* (toCoreConfig, makeConfig, Enqueue, Context.MarshalJSON).
DefaultContextKept ==
  /\ contexts["app"].library # "origamy-go"
  /\ wire # NoWire /\ msg.context = "" =>
       /\ GetString(wire.context, "library") = "origamy-go"
       /\ GetString(wire.context, "locale") = given.locale
  /\ wire # NoWire /\ msg.context = "own" =>
       LET own == contexts["own"]
       IN  \A f \in {"library", "locale"} :
             GetString(wire.context, f) = IF own[f] # "" THEN own[f]
                                          ELSE GetString(ExtraOf(own), f)

\* HTTP_SPEC.md:245: the SDK always populates library, and what applications add or
\* override per event is other fields or the library's value.  Under that reading no
\* event is marshalled without a library (Enqueue, Context.MarshalJSON).
LibraryAlwaysPopulated == wire # NoWire => GetString(wire.context, "library") # ""

\* Success, through an HTTP dispatcher, is reported only of an event that the API
\* took, or that net/http carried to a redirect; a batch is taken at most once per
\* request, so that duplicates come from retries alone
\* (HTTPDispatcher.Send, handleResponse, client.send).
SuccessMeansTaken ==
  /\ verdict = "success" /\ dispatcher.kind = "http" =>
       \/ request = "taken" /\ taken > 0
       \/ request = "moved"
  /\ taken + late <= attempt + 1
=============================================================================
