------------------------------ MODULE EventProofs ------------------------------
(***************************************************************************)
(* Proofs about Event for any options, contexts, messages, statuses and    *)
(* number of attempts.                                                     *)
(***************************************************************************)
EXTENDS Event, TLAPS

-------------------------------------------------------------------------------
(* What the API took, and what the callback says.                          *)

\* Requests that the API took or may still take; the one that is being posted is
\* counted when its fate is known.
Counted == IF pc \in {"retrying", "done"} \/ (pc = "posting" /\ request = "taken")
           THEN attempt + 1 ELSE attempt

\* An attempt that is over was taken, will be taken late, or neither: once at most.
CountInv == /\ attempt \in Nat /\ taken \in Nat /\ late \in Nat
            /\ taken + late <= Counted
            /\ request = "taken" => taken > 0

\* The verdict is the last step, and of a kind of dispatcher that New chose.
VerdictInv ==
  /\ verdict # "none" => pc = "done"
  /\ verdict = "success" /\ dispatcher.kind = "http" => request \in {"taken", "moved"}

LEMMA StepCount == CountInv /\ [Next]_vars => CountInv'
<1> SUFFICES ASSUME CountInv, [Next]_vars PROVE CountInv'
  OBVIOUS
<1> USE DEF CountInv, Counted, netVars
<1>1. CASE Configure
  BY <1>1 DEF Configure, ApplyOption, New, NewReturnsNil
<1>2. ASSUME NEW c, ChangeContext(c) \/ ChangeExtra(c) PROVE CountInv'
  BY <1>2 DEF ChangeContext, ChangeExtra
<1>3. ASSUME NEW m, Enqueue(m) PROVE CountInv'
  BY <1>3 DEF Enqueue
<1>4. CASE Marshal
  BY <1>4 DEF Marshal
<1>5. CASE SendNoop
  BY <1>5 DEF SendNoop
<1>6. CASE Post
  BY <1>6 DEF Post
<1>7. ASSUME NEW status, SendAnswered(status) PROVE CountInv'
  BY <1>7 DEF SendAnswered, Sent
<1>8. CASE SendFails
  BY <1>8 DEF SendFails, Sent
<1>9. CASE RetryTimer
  BY <1>9 DEF RetryTimer
<1>10. CASE RetryQuit
  BY <1>10 DEF RetryQuit
<1>11. CASE ApiTakes
  BY <1>11 DEF ApiTakes
<1>12. CASE ApiRedirects
  BY <1>12 DEF ApiRedirects
<1>13. CASE LateRequest
  BY <1>13 DEF LateRequest
<1>14. CASE UNCHANGED vars
  BY <1>14 DEF vars
<1> QED
  BY <1>1, <1>2, <1>3, <1>4, <1>5, <1>6, <1>7, <1>8, <1>9, <1>10, <1>11, <1>12, <1>13, <1>14
     DEF Next, Send, Api

LEMMA StepVerdict == VerdictInv /\ [Next]_vars => VerdictInv'
<1> SUFFICES ASSUME VerdictInv, [Next]_vars PROVE VerdictInv'
  OBVIOUS
<1> USE DEF VerdictInv, netVars, clientVars
<1>1. CASE Configure
  BY <1>1 DEF Configure, ApplyOption, New, NewReturnsNil
<1>2. ASSUME NEW c, ChangeContext(c) \/ ChangeExtra(c) PROVE VerdictInv'
  BY <1>2 DEF ChangeContext, ChangeExtra
<1>3. ASSUME NEW m, Enqueue(m) PROVE VerdictInv'
  BY <1>3 DEF Enqueue
<1>4. CASE Marshal
  BY <1>4 DEF Marshal
<1>5. CASE SendNoop
  BY <1>5 DEF SendNoop
<1>6. CASE Post
  BY <1>6 DEF Post
<1>7. ASSUME NEW status, SendAnswered(status) PROVE VerdictInv'
  BY <1>7 DEF SendAnswered, Sent, HandleResponse
<1>8. CASE SendFails
  BY <1>8 DEF SendFails, Sent
<1>9. CASE RetryTimer
  BY <1>9 DEF RetryTimer
<1>10. CASE RetryQuit
  BY <1>10 DEF RetryQuit
<1>11. CASE Api
  BY <1>11 DEF Api, ApiTakes, ApiRedirects, LateRequest
<1>12. CASE UNCHANGED vars
  BY <1>12 DEF vars
<1> QED
  BY <1>1, <1>2, <1>3, <1>4, <1>5, <1>6, <1>7, <1>8, <1>9, <1>10, <1>11, <1>12 DEF Next, Send

\* For every number of attempts and every fate of the requests: Success through an
\* HTTP dispatcher is true unless net/http followed a redirect, and the API takes the
\* event at most once per attempt (HTTPDispatcher.Send, handleResponse, client.send).
THEOREM SuccessIsTrue == Spec => []SuccessMeansTaken
<1>1. Init => CountInv /\ VerdictInv
  <2>1. Init => /\ pc = "configuring" /\ verdict = "none" /\ request = "none"
                /\ attempt = 0 /\ late = 0 /\ taken = 0
    BY Zenon DEF Init
  <2> QED
    BY <2>1 DEF CountInv, Counted, VerdictInv
<1>2. CountInv /\ VerdictInv => SuccessMeansTaken
  BY DEF CountInv, Counted, VerdictInv, SuccessMeansTaken
<1> QED
  BY <1>1, <1>2, StepCount, StepVerdict, PTL DEF Spec

-------------------------------------------------------------------------------
(* The two ways of validating.                                             *)

\* The fields of a message, the empty ones included.
AllFields(m) ==
  Over([f \in {SubjectOf[t] : t \in DOMAIN SubjectOf \intersect {m.type}} |-> m.subject],
       [type |-> m.type, userId |-> m.userId, anonymousId |-> m.anonymousId,
        messageId |-> m.messageId, timestamp |-> m.timestamp])

LEMMA FieldsAreAll ==
  ASSUME NEW m
  PROVE  Fields(m) = WithoutEmpty(AllFields(m))
BY DEF Fields, AllFields

\* What WithoutEmpty leaves out is read as the empty string that it was.
LEMMA ReadBack ==
  ASSUME NEW F, NEW f \in DOMAIN F
  PROVE  /\ GetString(WithoutEmpty(F), f) = F[f]
         /\ F[f] # "" => f \in DOMAIN WithoutEmpty(F) /\ WithoutEmpty(F)[f] = F[f]
BY DEF GetString, WithoutEmpty

LEMMA SubjectFields ==
  /\ DOMAIN SubjectOf = {"alias", "group", "track"}
  /\ SubjectOf["alias"] = "previousId"
  /\ SubjectOf["group"] = "groupId"
  /\ SubjectOf["track"] = "event"
BY DEF SubjectOf

\* The fields of every type, and the one that is the type's own.
LEMMA AllFieldsOf ==
  ASSUME NEW m, m.type \in Types
  PROVE  LET F == AllFields(m)
         IN  /\ {"type", "userId", "anonymousId", "messageId", "timestamp"} \subseteq DOMAIN F
             /\ F["type"] = m.type /\ F["userId"] = m.userId
             /\ F["anonymousId"] = m.anonymousId
             /\ F["messageId"] = m.messageId /\ F["timestamp"] = m.timestamp
             /\ m.type \in DOMAIN SubjectOf =>
                  SubjectOf[m.type] \in DOMAIN F /\ F[SubjectOf[m.type]] = m.subject
             /\ \A f \in DOMAIN F :
                  \/ f \in {"type", "userId", "anonymousId", "messageId", "timestamp"}
                  \/ m.type \in DOMAIN SubjectOf /\ f = SubjectOf[m.type]
<1> DEFINE R == [type |-> m.type, userId |-> m.userId, anonymousId |-> m.anonymousId,
                 messageId |-> m.messageId, timestamp |-> m.timestamp]
           own == [f \in {SubjectOf[t] : t \in DOMAIN SubjectOf \intersect {m.type}}
                     |-> m.subject]
<1>1. /\ DOMAIN R = {"type", "userId", "anonymousId", "messageId", "timestamp"}
      /\ R["type"] = m.type /\ R["userId"] = m.userId /\ R["anonymousId"] = m.anonymousId
      /\ R["messageId"] = m.messageId /\ R["timestamp"] = m.timestamp
  OBVIOUS
<1> HIDE DEF R
<1>2. DOMAIN own = {SubjectOf[t] : t \in DOMAIN SubjectOf \intersect {m.type}}
  OBVIOUS
<1>3. AllFields(m) = [x \in DOMAIN own \union DOMAIN R |-> IF x \in DOMAIN own THEN own[x] ELSE R[x]]
  BY DEF AllFields, Over, R
<1>4. DOMAIN own \subseteq {"previousId", "groupId", "event"}
  BY <1>2, SubjectFields
<1>5. DOMAIN own = IF m.type \in DOMAIN SubjectOf THEN {SubjectOf[m.type]} ELSE {}
  BY <1>2
<1>6. \A x \in DOMAIN own : own[x] = m.subject
  OBVIOUS
<1> HIDE DEF own
<1>7. DOMAIN own \intersect DOMAIN R = {}
  BY <1>1, <1>4
<1> QED
  BY <1>1, <1>3, <1>5, <1>6, <1>7

\* Validate reads the type, the ids and the subject.
LEMMA ValidateReads ==
  ASSUME NEW m, NEW n, m.type = n.type, m.userId = n.userId,
         m.anonymousId = n.anonymousId, m.subject = n.subject
  PROVE  Validate(m) = Validate(n)
<1>1. \A field : Missing(m, field) <=> Missing(n, field)
  BY DEF Missing
<1>2. {i \in DOMAIN Needs[m.type] : Missing(m, Needs[m.type][i])}
        = {i \in DOMAIN Needs[n.type] : Missing(n, Needs[n.type][i])}
  BY <1>1
<1> QED
  BY <1>2 DEF Validate

\* For a message of any type and with any fields, the two ways agree.
LEMMA ValidateFieldsAgrees ==
  ASSUME NEW m, m.type \in Types, WellFormed(m)
  PROVE  ValidateFields(Fields(m)) = Validate(m)
<1> DEFINE fields == Fields(m)
           read == [type |-> fields["type"], userId |-> GetString(fields, "userId"),
                    anonymousId |-> GetString(fields, "anonymousId"),
                    subject |-> Subject(fields)]
<1>1. m.type # ""
  BY DEF Types
<1>2. /\ GetString(fields, "type") = m.type /\ fields["type"] = m.type
      /\ GetString(fields, "userId") = m.userId
      /\ GetString(fields, "anonymousId") = m.anonymousId
  BY <1>1, FieldsAreAll, AllFieldsOf, ReadBack
<1>3. Subject(fields) = m.subject
  <2>1. CASE m.type \in DOMAIN SubjectOf
    <3> DEFINE own == SubjectOf[m.type]
               all == AllFields(m)
    <3>1. own \in DOMAIN all /\ all[own] = m.subject
      BY <2>1, AllFieldsOf
    <3>2. GetString(WithoutEmpty(all), own) = m.subject
      <4> HIDE DEF own, all
      <4> QED
        BY <3>1, ReadBack
    <3>3. fields = WithoutEmpty(all)
      BY FieldsAreAll
    <3> HIDE DEF fields
    <3> QED
      BY <1>2, <2>1, <3>2, <3>3 DEF Subject
  <2>2. CASE m.type \notin DOMAIN SubjectOf
    BY <1>2, <2>2 DEF Subject, WellFormed
  <2> QED
    BY <2>1, <2>2
<1> HIDE DEF fields
<1>4. ValidateFields(fields) = Validate(read)
  BY <1>2 DEF ValidateFields
<1>5. Validate(read) = Validate(m)
  BY <1>2, <1>3, ValidateReads
<1> QED
  BY <1>4, <1>5 DEF fields

-------------------------------------------------------------------------------
(* The configuration of a client.                                          *)

Names == {"endpoint", "interval", "transport", "dispatcher", "queue", "queueCapacity",
          "logger", "callback", "batchSize", "verbose", "context", "retryAfter"}

Unexported == {"uid", "now", "maxConcurrentRequests"}

\* The fields of a configuration, and the types of those that are tested.
Typed(c) == /\ DOMAIN c = Names
            /\ c.interval \in Int /\ c.batchSize \in Int /\ c.queueCapacity \in Int
            /\ c.queue \in Nat
            /\ c.dispatcher.kind = "http" => c.dispatcher.timeout > 0
            /\ c.context \in {"", "app"}

ConfigInv == Typed(config)

\* toCoreConfig keeps every field but the context and adds the unexported ones.
LEMMA CoreConfig ==
  ASSUME NEW c, DOMAIN c = Names
  PROVE  LET core == ToCoreConfig(c)
         IN  /\ DOMAIN core = Names \union Unexported
             /\ \A f \in Names \ {"context"} : core[f] = c[f]
             /\ core.context \in {"", "copy"}
             /\ core.uid = "" /\ core.now = "" /\ core.maxConcurrentRequests = 0
<1> DEFINE added == [uid |-> "", now |-> "", maxConcurrentRequests |-> 0]
           kept == [c EXCEPT !.context = IF c.context = "" THEN "" ELSE "copy"]
<1>1. /\ DOMAIN added = Unexported
      /\ added["uid"] = "" /\ added["now"] = "" /\ added["maxConcurrentRequests"] = 0
  BY DEF Unexported
<1>2. /\ DOMAIN kept = Names
      /\ \A f \in Names \ {"context"} : kept[f] = c[f]
      /\ kept["context"] \in {"", "copy"}
  BY DEF Names
<1>3. ToCoreConfig(c) = [x \in DOMAIN added \union DOMAIN kept |->
                           IF x \in DOMAIN added THEN added[x] ELSE kept[x]]
  BY DEF ToCoreConfig, Over
<1>4. Names \intersect Unexported = {} /\ "context" \in Names
      /\ "uid" \in Unexported /\ "now" \in Unexported
      /\ "maxConcurrentRequests" \in Unexported
  BY DEF Names, Unexported
<1> HIDE DEF added, kept
<1> QED
  BY <1>1, <1>2, <1>3, <1>4

\* What the first n options make of the default.
Applied(options, g) ==
  g = [n \in 0..Len(options) |-> IF n = 0 THEN Default ELSE Apply(options[n], g[n - 1])]

\* The dispatcher that is made of a transport has a timeout.
LEMMA OneOption ==
  ASSUME NEW option, option.option = "transport"
  PROVE  NewHTTPDispatcher(<<option>>).timeout = 10
<1> DEFINE options == <<option>>
           after == CHOOSE g : Applied(options, g)
           witness == [n \in 0..1 |-> IF n = 0 THEN Default ELSE Apply(option, Default)]
<1>1. NewHTTPDispatcher(options) = after[Len(options)]
  BY Zenon DEF NewHTTPDispatcher, Applied
<1>2. Len(options) = 1 /\ options[1] = option
  OBVIOUS
<1> HIDE DEF options
<1>3. Applied(options, witness)
  BY <1>2 DEF Applied
<1>4. Applied(options, after)
  BY <1>3
<1> HIDE DEF after
<1>5. after[1] = Apply(option, after[0]) /\ after[0] = Default
  BY <1>2, <1>4 DEF Applied
<1>6. Apply(option, Default).timeout = 10
  BY DEF Apply, Default
<1> QED
  BY <1>1, <1>2, <1>5, <1>6 DEF options

\* The client's fields, by those of the configuration.
LEMMA ClientConfig ==
  ASSUME NEW c, DOMAIN c = Names
  PROVE  LET client == NewWithConfig(ToCoreConfig(c))
         IN  /\ client.context = "copy"
             /\ client.interval = OrNumber(c.interval, 5)
             /\ client.batchSize = OrNumber(c.batchSize, 250)
             /\ client.maxConcurrentRequests = 1000
             /\ client.retryAfter = Or(c.retryAfter, "backo")
             /\ client.logger = Or(c.logger, "stderr")
             /\ client.uid = "uuid" /\ client.now = "time.Now"
             /\ client.queue = IF c.queue = NoQueue THEN MakeDefaultQueue(c) ELSE c.queue
             /\ client.dispatcher = c.dispatcher \/ client.dispatcher.timeout = 10
<1> DEFINE core == ToCoreConfig(c)
           made == MakeConfig(core)
           client == NewWithConfig(core)
<1>1. /\ DOMAIN core = Names \union Unexported
      /\ \A f \in Names \ {"context"} : core[f] = c[f]
      /\ core.context \in {"", "copy"}
      /\ core.uid = "" /\ core.now = "" /\ core.maxConcurrentRequests = 0
  BY CoreConfig
<1> HIDE DEF core
<1>2. DOMAIN made = Names \union Unexported
  BY <1>1 DEF MakeConfig
<1>3. /\ "context" \in DOMAIN core /\ "interval" \in DOMAIN core
      /\ "batchSize" \in DOMAIN core /\ "maxConcurrentRequests" \in DOMAIN core
      /\ "retryAfter" \in DOMAIN core /\ "logger" \in DOMAIN core
      /\ "uid" \in DOMAIN core /\ "now" \in DOMAIN core /\ "transport" \in DOMAIN core
      /\ "queue" \in DOMAIN core /\ "dispatcher" \in DOMAIN core
      /\ "queueCapacity" \in DOMAIN core
  BY <1>1 DEF Names, Unexported
<1>4. /\ made["context"] = Or(core["context"], "copy")
      /\ made["uid"] = Or(core["uid"], "uuid")
      /\ made["now"] = Or(core["now"], "time.Now")
  BY <1>3 DEF MakeConfig
<1>5. /\ made["interval"] = OrNumber(core["interval"], 5)
      /\ made["batchSize"] = OrNumber(core["batchSize"], 250)
      /\ made["maxConcurrentRequests"] = OrNumber(core["maxConcurrentRequests"], 1000)
  BY <1>3 DEF MakeConfig
<1>6. /\ made["retryAfter"] = Or(core["retryAfter"], "backo")
      /\ made["logger"] = Or(core["logger"], "stderr")
      /\ made["transport"] = Or(core["transport"], DefaultTransport)
  BY <1>3 DEF MakeConfig
<1>7. /\ made["dispatcher"] = core["dispatcher"]
      /\ made["queue"] = core["queue"]
      /\ made["queueCapacity"] = core["queueCapacity"]
  BY <1>3 DEF MakeConfig
<1> HIDE DEF made
<1>8. made.transport # ""
  BY <1>6 DEF Or, DefaultTransport
<1>9. MakeDefaultDispatcher(made).timeout = 10
  BY <1>8, OneOption DEF MakeDefaultDispatcher, WithTransport
<1>10. MakeDefaultQueue(made) = MakeDefaultQueue(c)
  BY <1>1, <1>7 DEF MakeDefaultQueue, Names
<1>11. /\ client["dispatcher"] = made["dispatcher"] \/ client["dispatcher"].timeout = 10
       /\ client["queue"] = IF made["queue"] = NoQueue THEN MakeDefaultQueue(made) ELSE made["queue"]
       /\ \A f \in DOMAIN made \ {"dispatcher", "queue"} : client[f] = made[f]
  BY <1>1, <1>2, <1>3, <1>9 DEF NewWithConfig, made
<1> HIDE DEF client
<1>12. {"context", "interval", "batchSize", "maxConcurrentRequests", "retryAfter", "logger",
        "uid", "now"} \subseteq DOMAIN made \ {"dispatcher", "queue"}
  BY <1>2 DEF Names, Unexported
<1>13. /\ core["interval"] = c["interval"] /\ core["batchSize"] = c["batchSize"]
       /\ core["retryAfter"] = c["retryAfter"] /\ core["logger"] = c["logger"]
       /\ core["queue"] = c["queue"] /\ core["dispatcher"] = c["dispatcher"]
  BY <1>1 DEF Names
<1>14. /\ client.context = "copy" /\ client.uid = "uuid" /\ client.now = "time.Now"
       /\ client.maxConcurrentRequests = 1000
  <2>1. /\ made["context"] = "copy" /\ made["uid"] = "uuid" /\ made["now"] = "time.Now"
        /\ made["maxConcurrentRequests"] = 1000
    <3>1. /\ core["context"] \in {"", "copy"} /\ core["uid"] = "" /\ core["now"] = ""
          /\ core["maxConcurrentRequests"] = 0
      BY <1>1
    <3>2. made["context"] = "copy"
      <4>1. core["context"] = "" => Or(core["context"], "copy") = "copy"
        BY DEF Or
      <4>2. core["context"] = "copy" => Or(core["context"], "copy") = "copy"
        BY DEF Or
      <4> QED
        BY <1>4, <3>1, <4>1, <4>2
    <3>3. made["uid"] = "uuid" /\ made["now"] = "time.Now"
      BY <1>4, <3>1 DEF Or
    <3>4. made["maxConcurrentRequests"] = 1000
      BY <1>5, <3>1 DEF OrNumber
    <3> QED
      BY <3>2, <3>3, <3>4
  <2> QED
    BY <1>11, <1>12, <2>1
<1>15. /\ client.interval = OrNumber(c.interval, 5)
       /\ client.batchSize = OrNumber(c.batchSize, 250)
       /\ client.retryAfter = Or(c.retryAfter, "backo")
       /\ client.logger = Or(c.logger, "stderr")
  BY <1>5, <1>6, <1>11, <1>12, <1>13
<1>16. /\ client.queue = IF c.queue = NoQueue THEN MakeDefaultQueue(c) ELSE c.queue
       /\ client.dispatcher = c.dispatcher \/ client.dispatcher.timeout = 10
  BY <1>7, <1>10, <1>11, <1>13
<1> QED
  BY <1>14, <1>15, <1>16 DEF client, core

LEMMA ZeroConfigTyped == Typed(ZeroConfig)
<1>1. DOMAIN ZeroConfig = Names
  BY DEF ZeroConfig, Names
<1>2. /\ ZeroConfig.interval \in Int /\ ZeroConfig.batchSize \in Int
      /\ ZeroConfig.queueCapacity \in Int
  BY DEF ZeroConfig
<1>3. ZeroConfig.queue \in Nat
  BY DEF ZeroConfig, NoQueue
<1>4. ZeroConfig.dispatcher = NoDispatcher /\ NoDispatcher.kind # "http"
  BY DEF ZeroConfig, NoDispatcher
<1>5. ZeroConfig.context = ""
  BY DEF ZeroConfig
<1> QED
  BY <1>1, <1>2, <1>3, <1>4, <1>5 DEF Typed

\* The steps that do not configure.
LEMMA ConfigSteps ==
  ASSUME [Next]_vars, \A field \in DOMAIN OptionValues : ~ApplyOption(field), ~New
  PROVE  UNCHANGED <<config, dispatcher, defaultContext, given>> /\ (pc' = "configuring" => pc = pc')
<1> USE DEF clientVars
<1>1. CASE NewReturnsNil
  BY <1>1 DEF NewReturnsNil
<1>2. ASSUME NEW c, ChangeContext(c) \/ ChangeExtra(c)
      PROVE  UNCHANGED <<config, clientVars, pc>>
  BY <1>2 DEF ChangeContext, ChangeExtra
<1>3. ASSUME NEW m, Enqueue(m)
      PROVE  UNCHANGED <<config, clientVars>> /\ pc' # "configuring"
  BY <1>3 DEF Enqueue
<1>4. CASE Marshal
  BY <1>4 DEF Marshal
<1>5. CASE SendNoop \/ Post \/ SendFails \/ RetryTimer \/ RetryQuit
  BY <1>5 DEF SendNoop, Post, SendFails, Sent, RetryTimer, RetryQuit
<1>6. ASSUME NEW status, SendAnswered(status)
      PROVE  UNCHANGED <<config, clientVars>> /\ pc' # "configuring"
  BY <1>6 DEF SendAnswered, Sent
<1>7. CASE Api
  BY <1>7 DEF Api, ApiTakes, ApiRedirects, LateRequest
<1>8. CASE UNCHANGED vars
  BY <1>8 DEF vars
<1> QED
  BY <1>1, <1>2, <1>3, <1>4, <1>5, <1>6, <1>7, <1>8 DEF Next, Configure, Send

LEMMA StepConfig == ConfigInv /\ [Next]_vars => ConfigInv'
<1> SUFFICES ASSUME ConfigInv, [Next]_vars PROVE ConfigInv'
  OBVIOUS
<1>1. ASSUME NEW field \in DOMAIN OptionValues, ApplyOption(field) PROVE ConfigInv'
  <2>1. PICK value \in OptionValues[field] : config' = [config EXCEPT ![field] = value]
    BY <1>1 DEF ApplyOption, With
  <2>2. /\ DOMAIN config' = DOMAIN config
        /\ \A f \in DOMAIN config : config'[f] = IF f = field THEN value ELSE config[f]
    BY <2>1
  <2>3. {"interval", "batchSize", "queueCapacity", "queue", "dispatcher", "context"}
          \subseteq DOMAIN config
    BY DEF ConfigInv, Typed, Names
  <2>4. config'["interval"] \in Int /\ config'["batchSize"] \in Int /\ config'["queueCapacity"] \in Int
    <3>1. field \in {"interval", "batchSize", "queueCapacity"} => value \in Int
      BY OptionAssumption
    <3>2. config["interval"] \in Int /\ config["batchSize"] \in Int /\ config["queueCapacity"] \in Int
      BY DEF ConfigInv, Typed
    <3> QED
      BY <2>2, <2>3, <3>1, <3>2
  <2>5. config'["queue"] \in Nat
    <3>1. field = "queue" => value \in Nat
      BY OptionAssumption
    <3>2. config["queue"] \in Nat
      BY DEF ConfigInv, Typed
    <3> QED
      BY <2>2, <2>3, <3>1, <3>2
  <2>6. config'["dispatcher"].kind = "http" => config'["dispatcher"].timeout > 0
    <3>1. field = "dispatcher" /\ value.kind = "http" => value.timeout > 0
      BY OptionAssumption
    <3>2. config["dispatcher"].kind = "http" => config["dispatcher"].timeout > 0
      BY DEF ConfigInv, Typed
    <3> QED
      BY <2>2, <2>3, <3>1, <3>2
  <2>7. config'["context"] \in {"", "app"}
    <3>1. field = "context" => value \in {"", "app"}
      BY OptionAssumption
    <3>2. config["context"] \in {"", "app"}
      BY DEF ConfigInv, Typed
    <3> QED
      BY <2>2, <2>3, <3>1, <3>2
  <2>8. DOMAIN config' = Names
    BY <2>2 DEF ConfigInv, Typed
  <2> QED
    BY <2>4, <2>5, <2>6, <2>7, <2>8 DEF ConfigInv, Typed
<1>2. CASE New
  BY <1>2, ZeroConfigTyped DEF New, ConfigInv
<1>3. CASE UNCHANGED config
  BY <1>3 DEF ConfigInv
<1> QED
  BY <1>1, <1>2, <1>3, ConfigSteps

LEMMA ConfigHolds == Spec => []ConfigInv
<1>1. Init => ConfigInv
  BY ZeroConfigTyped DEF Init, ConfigInv
<1> QED
  BY <1>1, StepConfig, PTL DEF Spec

\* For every sequence of options of the right types: the client that New returns can be
\* run on, and NewSegments never yields one that it cannot (makeConfig, NewWithConfig,
\* toCoreConfig, NewSegments).
THEOREM ClientsAreUsable == Spec => []ClientUsable
<1>1. ConfigInv => ClientUsable
  <2> SUFFICES ASSUME ConfigInv PROVE ClientUsable
    OBVIOUS
  <2> DEFINE core == ToCoreConfig(config)
             client == NewWithConfig(core)
             segments == NewSegments(config)
  <2>1. DOMAIN config = Names
    BY DEF ConfigInv, Typed
  <2>2. core.interval = config.interval /\ core.batchSize = config.batchSize
    BY <2>1, CoreConfig DEF Names
  <2>3. /\ client.interval = OrNumber(config.interval, 5)
        /\ client.batchSize = OrNumber(config.batchSize, 250)
        /\ client.queue = IF config.queue = NoQueue THEN MakeDefaultQueue(config)
                                                    ELSE config.queue
    BY <2>1, ClientConfig
  <2>4. /\ client.retryAfter = Or(config.retryAfter, "backo")
        /\ client.logger = Or(config.logger, "stderr")
        /\ client.uid = "uuid" /\ client.now = "time.Now"
        /\ client.context = "copy"
    BY <2>1, ClientConfig
  <2>5. client.maxConcurrentRequests = 1000
    BY <2>1, ClientConfig
  <2>6. client.dispatcher = config.dispatcher \/ client.dispatcher.timeout = 10
    BY <2>1, ClientConfig
  <2> HIDE DEF core, client
  <2>7. Valid(core) => client.interval > 0 /\ client.batchSize > 0
    <3>1. config.interval \in Int /\ config.batchSize \in Int
      BY DEF ConfigInv, Typed
    <3> QED
      BY <2>2, <2>3, <3>1 DEF Valid, OrNumber
  <2>8. client.queue > 0 /\ client.queue # NoQueue
    <3>1. config.queue \in Nat /\ config.queueCapacity \in Int
      BY DEF ConfigInv, Typed
    <3> QED
      BY <2>3, <3>1 DEF MakeDefaultQueue, NoQueue
  <2>9. client.dispatcher.kind = "http" => client.dispatcher.timeout > 0
    <3>1. config.dispatcher.kind = "http" => config.dispatcher.timeout > 0
      BY DEF ConfigInv, Typed
    <3>2. CASE client.dispatcher = config.dispatcher
      BY <3>1, <3>2
    <3>3. CASE client.dispatcher.timeout = 10
      BY <3>3
    <3> QED
      BY <2>6, <3>2, <3>3
  <2>10. \A f \in {"retryAfter", "logger", "uid", "now"} : client[f] # ""
    BY <2>4 DEF Or
  <2>11. client.context \notin {"", "app"} /\ client.maxConcurrentRequests > 0
    BY <2>4, <2>5
  <2>12. /\ segments["endpoint"] # "" /\ segments["transport"] # ""
         /\ segments["retryAfter"] # ""
    BY DEF NewSegments, Or, DefaultTransport
  <2>13. segments.timeout > 0
    BY DEF NewSegments
  <2> HIDE DEF segments
  <2> QED
    BY <2>7, <2>8, <2>9, <2>10, <2>11, <2>12, <2>13 DEF ClientUsable, core, client, segments
<1> QED
  BY <1>1, ConfigHolds, PTL

-------------------------------------------------------------------------------
(* What becomes of the message.                                            *)

\* No message was enqueued so far.
Early == {"configuring", "no client", "ready"}

LifeInv ==
  /\ pc \notin {"configuring", "no client"} => defaultContext = "copy"
  /\ pc \in Early => msg = NoMessage
  /\ pc \notin Early => msg \in AppMessages /\ (pc = "refused" <=> Validate(msg) # "")
  /\ pc \notin Early \union {"refused"} => queued = Decorate(msg, "uid", "now", "copy")
  /\ pc \in Early \union {"refused", "queued"} => wire = NoWire
  /\ wire # NoWire => wire.fields = Fields(queued)

\* The steps of send and of the API leave the message alone.
LEMMA SendSteps ==
  ASSUME Send \/ Api
  PROVE  /\ UNCHANGED <<contexts, maps, given, defaultContext, msg, queued, wire>>
         /\ pc \notin Early \union {"refused", "queued"} =>
              pc' \notin Early \union {"refused", "queued"}
         /\ pc \in Early \union {"refused", "queued"} => pc' = pc
<1> USE DEF Early, heapVars, clientVars, Sent
<1>1. CASE SendNoop \/ Post
  BY <1>1 DEF SendNoop, Post
<1>2. ASSUME NEW status, SendAnswered(status)
      PROVE  /\ UNCHANGED <<contexts, maps, given, defaultContext, msg, queued, wire>>
             /\ pc = "posting" /\ pc' \in {"done", "retrying"}
  BY <1>2 DEF SendAnswered
<1>3. CASE SendFails
  BY <1>3 DEF SendFails
<1>4. CASE RetryTimer \/ RetryQuit
  BY <1>4 DEF RetryTimer, RetryQuit
<1>5. CASE Api
  BY <1>5 DEF Api, ApiTakes, ApiRedirects, LateRequest
<1> QED
  BY <1>1, <1>2, <1>3, <1>4, <1>5 DEF Send

LEMMA StepLife == ConfigInv /\ LifeInv /\ [Next]_vars => LifeInv'
<1> SUFFICES ASSUME ConfigInv, LifeInv, [Next]_vars PROVE LifeInv'
  OBVIOUS
<1>1. ASSUME NEW field, ApplyOption(field) PROVE LifeInv'
  BY <1>1 DEF ApplyOption, LifeInv, Early, clientVars
<1>2. CASE New
  <2>1. defaultContext' = "copy"
    <3>1. defaultContext' = NewWithConfig(ToCoreConfig(config)).context
      BY <1>2 DEF New
    <3>2. DOMAIN config = Names
      BY DEF ConfigInv, Typed
    <3> QED
      BY <3>1, <3>2, ClientConfig
  <2>2. pc = "configuring" /\ pc' = "ready" /\ UNCHANGED <<msg, queued, wire>>
    BY <1>2 DEF New
  <2> QED
    BY <2>1, <2>2 DEF LifeInv, Early
<1>3. CASE NewReturnsNil
  BY <1>3 DEF NewReturnsNil, LifeInv, Early, clientVars
<1>4. ASSUME NEW c, ChangeContext(c) \/ ChangeExtra(c) PROVE LifeInv'
  <2>1. UNCHANGED <<pc, defaultContext, msg, queued, wire>>
    BY <1>4 DEF ChangeContext, ChangeExtra, clientVars
  <2> QED
    BY <2>1 DEF LifeInv
<1>5. ASSUME NEW m \in AppMessages, Enqueue(m) PROVE LifeInv'
  <2>1. /\ pc = "ready" /\ msg' = m /\ UNCHANGED <<defaultContext, wire>>
        /\ IF Validate(m) = "" THEN queued' = Decorate(m, "uid", "now", defaultContext) /\ pc' = "queued"
                               ELSE pc' = "refused"
    BY <1>5 DEF Enqueue, clientVars
  <2>2. defaultContext = "copy" /\ wire = NoWire
    BY <2>1 DEF LifeInv, Early
  <2> QED
    BY <2>1, <2>2 DEF LifeInv, Early
<1>6. CASE Marshal
  <2>1. /\ pc = "queued" /\ pc' = "sending" /\ UNCHANGED <<defaultContext, msg, queued>>
        /\ wire'.fields = Fields(queued)
    BY <1>6 DEF Marshal, clientVars
  <2> QED
    BY <2>1 DEF LifeInv, Early
<1>7. CASE Send \/ Api
  <2> HIDE DEF Early
  <2>1. /\ UNCHANGED <<defaultContext, msg, queued, wire>>
        /\ pc \notin Early \union {"refused", "queued"} =>
             pc' \notin Early \union {"refused", "queued"}
        /\ pc \in Early \union {"refused", "queued"} => pc' = pc
    BY <1>7, SendSteps
  <2>2. CASE pc \in Early \union {"refused", "queued"}
    BY <2>1, <2>2 DEF LifeInv
  <2>3. CASE pc \notin Early \union {"refused", "queued"}
    BY <2>1, <2>3 DEF LifeInv, Early
  <2> QED
    BY <2>2, <2>3
<1>8. CASE UNCHANGED vars
  BY <1>8 DEF vars, LifeInv, clientVars
<1> QED
  BY <1>1, <1>2, <1>3, <1>4, <1>5, <1>6, <1>7, <1>8 DEF Next, Configure

LEMMA LifeHolds == Spec => []LifeInv
<1>1. Init => LifeInv
  BY DEF Init, LifeInv, Early
<1> QED
  BY <1>1, StepLife, ConfigHolds, PTL DEF Spec

\* Enqueue keeps the type, the ids and the subject, and fills in what is missing.
LEMMA Decorated ==
  ASSUME NEW m \in Message, NEW c
  PROVE  LET d == Decorate(m, "uid", "now", c)
         IN  /\ d.type = m.type /\ d.userId = m.userId
             /\ d.anonymousId = m.anonymousId /\ d.subject = m.subject
             /\ d.messageId # "" /\ (m.messageId # "" => d.messageId = m.messageId)
             /\ d.timestamp # "" /\ (m.timestamp # "" => d.timestamp = m.timestamp)
             /\ d.context = IF m.context = "" THEN c ELSE m.context
BY DEF Decorate, MakeMessageId, MakeTimestamp, Message

\* What the decorated message says, and what the application's said.
LEMMA FieldsKept ==
  ASSUME NEW m \in Message, NEW c
  PROVE  LET d == Decorate(m, "uid", "now", c)
         IN  /\ \A f \in DOMAIN Fields(m) :
                  f \in DOMAIN Fields(d) /\ Fields(d)[f] = Fields(m)[f]
             /\ {"messageId", "timestamp"} \subseteq DOMAIN Fields(d)
<1> DEFINE d == Decorate(m, "uid", "now", c)
           F == AllFields(m)
           G == AllFields(d)
           own == SubjectOf[m.type]
           common == {"type", "userId", "anonymousId", "messageId", "timestamp"}
<1>1. /\ d.type = m.type /\ d.userId = m.userId
      /\ d.anonymousId = m.anonymousId /\ d.subject = m.subject
      /\ d.messageId # "" /\ (m.messageId # "" => d.messageId = m.messageId)
      /\ d.timestamp # "" /\ (m.timestamp # "" => d.timestamp = m.timestamp)
  BY Decorated
<1>2. m.type \in Types
  BY DEF Message
<1> HIDE DEF d
<1>3. d.type \in Types
  BY <1>1, <1>2
<1>4. /\ F["type"] = m.type /\ F["userId"] = m.userId
      /\ F["anonymousId"] = m.anonymousId
      /\ F["messageId"] = m.messageId /\ F["timestamp"] = m.timestamp
      /\ m.type \in DOMAIN SubjectOf => F[own] = m.subject
      /\ \A f \in DOMAIN F : f \in common \/ (m.type \in DOMAIN SubjectOf /\ f = own)
  BY <1>2, AllFieldsOf
<1>5. /\ common \subseteq DOMAIN G
      /\ G["type"] = d.type /\ G["userId"] = d.userId
      /\ G["anonymousId"] = d.anonymousId
      /\ G["messageId"] = d.messageId /\ G["timestamp"] = d.timestamp
      /\ d.type \in DOMAIN SubjectOf =>
           SubjectOf[d.type] \in DOMAIN G /\ G[SubjectOf[d.type]] = d.subject
  BY <1>3, AllFieldsOf
<1>6. Fields(m) = WithoutEmpty(F) /\ Fields(d) = WithoutEmpty(G)
  BY FieldsAreAll
<1> HIDE DEF F, G
<1>7. ASSUME NEW f \in DOMAIN F, F[f] # ""
      PROVE  f \in DOMAIN G /\ G[f] = F[f]
  <2>1. CASE f \in common
    BY <1>1, <1>4, <1>5, <1>7, <2>1
  <2>2. CASE m.type \in DOMAIN SubjectOf /\ f = own
    BY <1>1, <1>4, <1>5, <2>2
  <2> QED
    BY <1>4, <2>1, <2>2
<1>8. \A f \in DOMAIN WithoutEmpty(F) :
        f \in DOMAIN WithoutEmpty(G) /\ WithoutEmpty(G)[f] = WithoutEmpty(F)[f]
  BY <1>7 DEF WithoutEmpty
<1>9. {"messageId", "timestamp"} \subseteq DOMAIN WithoutEmpty(G)
  BY <1>1, <1>5 DEF WithoutEmpty
<1> QED
  BY <1>6, <1>8, <1>9 DEF d

\* For every message that Go's types allow: the two ways of validating agree, and the
\* JSON of the event still passes, with the application's ids and with a message id and
\* a timestamp (Validate, ValidateFields, Enqueue, makeMessage).
THEOREM ValidationsAgree == Spec => []ValidationAgrees
<1>1. LifeInv => ValidationAgrees
  <2> SUFFICES ASSUME LifeInv PROVE ValidationAgrees
    OBVIOUS
  <2>1. \A m \in AppMessages : m \in Message /\ WellFormed(m) /\ m.type \in Types
    BY MessageAssumption DEF Message
  <2>2. ASSUME msg # NoMessage
        PROVE  /\ ValidateFields(Fields(msg)) = Validate(msg)
               /\ (ValidateFields(Fields(msg)) = "") = (pc # "refused")
    <3>1. pc \notin Early /\ msg \in AppMessages /\ (pc = "refused" <=> Validate(msg) # "")
      BY <2>2 DEF LifeInv
    <3>2. ValidateFields(Fields(msg)) = Validate(msg)
      BY <2>1, <3>1, ValidateFieldsAgrees
    <3> QED
      BY <3>1, <3>2
  <2>3. ASSUME wire # NoWire
        PROVE  /\ ValidateFields(wire.fields) = ""
               /\ \A f \in DOMAIN Fields(msg) :
                    f \in DOMAIN wire.fields /\ wire.fields[f] = Fields(msg)[f]
               /\ {"messageId", "timestamp"} \subseteq DOMAIN wire.fields
    <3>1. /\ msg \in Message /\ WellFormed(msg) /\ msg.type \in Types
          /\ Validate(msg) = "" /\ wire.fields = Fields(queued)
          /\ queued = Decorate(msg, "uid", "now", "copy")
      BY <2>1, <2>3 DEF LifeInv
    <3>2. /\ queued.type = msg.type /\ queued.userId = msg.userId
          /\ queued.anonymousId = msg.anonymousId /\ queued.subject = msg.subject
      BY <3>1, Decorated
    <3>3. WellFormed(queued)
      BY <3>1, <3>2 DEF WellFormed
    <3>4. ValidateFields(Fields(queued)) = Validate(queued)
      BY <3>1, <3>2, <3>3, ValidateFieldsAgrees
    <3>5. Validate(queued) = Validate(msg)
      BY <3>2, ValidateReads
    <3> QED
      BY <3>1, <3>4, <3>5, FieldsKept
  <2> QED
    BY <2>2, <2>3 DEF ValidationAgrees
<1> QED
  BY <1>1, LifeHolds, PTL

-------------------------------------------------------------------------------
(* The default context.                                                    *)

\* The application's contexts differ from the client's in the library, and leave no
\* locale for Extra to fill in.
Telling == \A c \in AppContexts : c.library # "origamy-go" /\ c.locale # ""

ContextInv ==
  /\ contexts \in [{"app", "own", "copy"} -> Context]
  /\ contexts["app"].library # "origamy-go" /\ contexts["app"].locale # ""
  /\ given \in Context /\ (given = EmptyContext \/ given.locale # "")
  /\ pc \notin {"configuring", "no client"} => contexts["copy"] = SetLibrary(given)

\* A field of the struct takes precedence over Extra, unless it is empty.
LEMMA StructFirst ==
  ASSUME NEW c, NEW extra, NEW f \in {"library", "locale"}
  PROVE  GetString(MarshalContext(c, extra), f) = IF c[f] # "" THEN c[f] ELSE GetString(extra, f)
<1> DEFINE F == [library |-> c.library, locale |-> c.locale]
           S == WithoutEmpty(F)
<1>1. f \in DOMAIN F /\ F[f] = c[f]
  OBVIOUS
<1> HIDE DEF F
<1>2. /\ f \in DOMAIN S <=> F[f] # ""
      /\ f \in DOMAIN S => S[f] = F[f]
  BY <1>1 DEF WithoutEmpty
<1>3. MarshalContext(c, extra) =
        [x \in DOMAIN S \union DOMAIN extra |-> IF x \in DOMAIN S THEN S[x] ELSE extra[x]]
  BY DEF MarshalContext, StructToMap, Over, F
<1> HIDE DEF S
<1>4. CASE c[f] # ""
  BY <1>1, <1>2, <1>3, <1>4 DEF GetString
<1>5. CASE c[f] = ""
  BY <1>1, <1>2, <1>3, <1>5 DEF GetString
<1> QED
  BY <1>4, <1>5

LEMMA StructWins ==
  ASSUME NEW c, NEW extra
  PROVE  LET json == MarshalContext(c, extra)
         IN  /\ c.library # "" => GetString(json, "library") = c.library
             /\ c.locale # "" => GetString(json, "locale") = c.locale
             /\ DOMAIN extra = {} => GetString(json, "locale") = c.locale
<1>1. GetString(MarshalContext(c, extra), "library") =
        IF c.library # "" THEN c.library ELSE GetString(extra, "library")
  BY StructFirst
<1>2. GetString(MarshalContext(c, extra), "locale") =
        IF c.locale # "" THEN c.locale ELSE GetString(extra, "locale")
  BY StructFirst
<1>3. DOMAIN extra = {} => GetString(extra, "locale") = ""
  BY DEF GetString
<1> QED
  BY <1>1, <1>2, <1>3

\* Writing the library, or a locale, into a context.
LEMMA ContextWrites ==
  ASSUME NEW c \in Context
  PROVE  /\ SetLibrary(c) \in Context /\ SetLibrary(c).library = "origamy-go"
         /\ SetLibrary(c).locale = c.locale /\ SetLibrary(c).extra = c.extra
         /\ [c EXCEPT !.locale = "l2"] \in Context
         /\ [c EXCEPT !.locale = "l2"].library = c.library
         /\ [c EXCEPT !.locale = "l2"].locale = "l2"
BY DEF Context, SetLibrary

LEMMA EmptyIsContext == EmptyContext \in Context /\ EmptyContext.locale = "" /\ EmptyContext.extra = ""
BY DEF EmptyContext, Context

LEMMA StepContext == ConfigInv /\ ContextInv /\ [Next]_vars => ContextInv'
<1> SUFFICES ASSUME ConfigInv, ContextInv, [Next]_vars PROVE ContextInv'
  OBVIOUS
<1>1. ASSUME UNCHANGED <<contexts, given>>,
             pc \in {"configuring", "no client"} => pc' \in {"configuring", "no client"}
      PROVE  ContextInv'
  BY <1>1 DEF ContextInv
<1>2. ASSUME NEW field, ApplyOption(field) PROVE ContextInv'
  BY <1>1, <1>2 DEF ApplyOption, heapVars, clientVars
<1>3. CASE New
  <2> DEFINE chosen == DefaultContextOf(config)
  <2>1. NewWithConfig(ToCoreConfig(config)).context = "copy"
    <3>1. DOMAIN config = Names
      BY DEF ConfigInv, Typed
    <3> QED
      BY <3>1, ClientConfig
  <2>2. /\ contexts' = [contexts EXCEPT !["copy"] = SetLibrary(chosen)]
        /\ given' = chosen
    BY <1>3, <2>1 DEF New
  <2>3. chosen \in Context /\ (chosen = EmptyContext \/ chosen.locale # "")
    <3>1. config.context \in {"", "app"}
      BY DEF ConfigInv, Typed
    <3>2. CASE config.context = ""
      BY <3>2, EmptyIsContext DEF DefaultContextOf
    <3>3. CASE config.context = "app"
      BY <3>3 DEF DefaultContextOf, ContextInv
    <3> QED
      BY <3>1, <3>2, <3>3
  <2> HIDE DEF chosen
  <2>4. /\ contexts' \in [{"app", "own", "copy"} -> Context]
        /\ contexts'["app"] = contexts["app"] /\ contexts'["copy"] = SetLibrary(chosen)
    BY <2>2, <2>3, ContextWrites DEF ContextInv
  <2> QED
    BY <2>2, <2>3, <2>4 DEF ContextInv
<1>4. CASE NewReturnsNil
  BY <1>1, <1>4 DEF NewReturnsNil, heapVars, clientVars
<1>5. ASSUME NEW c \in {"app", "own"}, ChangeContext(c) PROVE ContextInv'
  <2>1. /\ contexts' = [contexts EXCEPT ![c] = [contexts[c] EXCEPT !.locale = "l2"]]
        /\ UNCHANGED <<pc, given>>
    BY <1>5 DEF ChangeContext, clientVars
  <2> DEFINE changed == [contexts[c] EXCEPT !.locale = "l2"]
  <2>2. /\ changed \in Context /\ changed.library = contexts[c].library
        /\ changed.locale = "l2"
    BY ContextWrites DEF ContextInv
  <2> HIDE DEF changed
  <2>3. /\ contexts' \in [{"app", "own", "copy"} -> Context]
        /\ contexts'["copy"] = contexts["copy"]
        /\ contexts'["app"] = IF c = "app" THEN changed ELSE contexts["app"]
    BY <2>1, <2>2 DEF ContextInv, changed
  <2> QED
    BY <2>1, <2>2, <2>3 DEF ContextInv
<1>6. ASSUME NEW c, ChangeExtra(c) PROVE ContextInv'
  BY <1>1, <1>6 DEF ChangeExtra, clientVars
<1>7. ASSUME NEW m, Enqueue(m) PROVE ContextInv'
  BY <1>1, <1>7 DEF Enqueue, heapVars, clientVars
<1>8. CASE Marshal
  BY <1>1, <1>8 DEF Marshal, heapVars, clientVars
<1>9. CASE Send \/ Api
  BY <1>1, <1>9, SendSteps DEF Early
<1>10. CASE UNCHANGED vars
  BY <1>1, <1>10 DEF vars, heapVars, clientVars
<1> QED
  BY <1>2, <1>3, <1>4, <1>5, <1>6, <1>7, <1>8, <1>9, <1>10 DEF Next, Configure

LEMMA ContextHolds ==
  ASSUME Telling
  PROVE  Spec => []ContextInv
<1>1. Init => ContextInv
  <2> SUFFICES ASSUME Init PROVE ContextInv
    OBVIOUS
  <2>1. /\ contexts \in [app : AppContexts, own : OwnContexts, copy : {EmptyContext}]
        /\ given = EmptyContext /\ pc = "configuring"
    BY Zenon DEF Init
  <2>2. /\ contexts \in [{"app", "own", "copy"} -> Context]
        /\ contexts["app"] \in AppContexts
    BY <2>1, ContextAssumption, EmptyIsContext
  <2> QED
    BY <2>1, <2>2, EmptyIsContext DEF ContextInv, Telling
<1> QED
  BY <1>1, StepContext, ConfigHolds, PTL DEF Spec

\* What the JSON says of the context.
WireInv ==
  wire # NoWire =>
    /\ msg.context = "" => /\ GetString(wire.context, "library") = "origamy-go"
                           /\ GetString(wire.context, "locale") = given.locale
    /\ msg.context = "own" =>
         LET own == contexts["own"]
         IN  \A f \in {"library", "locale"} :
               GetString(wire.context, f) = IF own[f] # "" THEN own[f]
                                            ELSE GetString(ExtraOf(own), f)

LEMMA MarshalWire ==
  ASSUME ContextInv, LifeInv, Marshal
  PROVE  WireInv'
<1> DEFINE c == contexts[queued.context]
           extra == ExtraOf(c)
<1>1. /\ wire'.context = MarshalContext(c, extra)
      /\ UNCHANGED <<contexts, maps, given, msg>> /\ pc = "queued"
  BY DEF Marshal, heapVars, clientVars
<1>2. queued.context = IF msg.context = "" THEN "copy" ELSE msg.context
  <2>1. msg \in Message /\ queued = Decorate(msg, "uid", "now", "copy")
    BY <1>1, MessageAssumption DEF LifeInv, Early
  <2> QED
    BY <2>1, Decorated
<1>3. ASSUME msg.context = ""
      PROVE  /\ GetString(wire'.context, "library") = "origamy-go"
             /\ GetString(wire'.context, "locale") = given.locale
  <2>1. c = SetLibrary(given) /\ given \in Context
    BY <1>1, <1>2, <1>3 DEF ContextInv
  <2>2. c.library = "origamy-go" /\ c.locale = given.locale /\ c.extra = given.extra
    <3>1. /\ SetLibrary(given).library = "origamy-go" /\ SetLibrary(given).locale = given.locale
          /\ SetLibrary(given).extra = given.extra
      BY <2>1, ContextWrites
    <3> HIDE DEF c
    <3> QED
      BY <2>1, <3>1
  <2> HIDE DEF c
  <2>3. given.locale = "" => DOMAIN extra = {}
    <3>1. given.locale = "" => given.extra = ""
      BY EmptyIsContext DEF ContextInv
    <3>2. c.extra = "" => extra = <<>>
      BY DEF ExtraOf
    <3> HIDE DEF extra
    <3>3. DOMAIN << >> = {}
      BY SMT
    <3>4. extra = << >> => DOMAIN extra = {}
      BY <3>3, Zenon
    <3>5. c.extra = given.extra
      BY <2>2
    <3> QED
      BY <3>1, <3>2, <3>4, <3>5, Zenon
  <2> HIDE DEF extra
  <2> QED
    BY <1>1, <2>2, <2>3, StructWins
<1>4. ASSUME msg.context = "own"
      PROVE  \A f \in {"library", "locale"} :
               GetString(wire'.context, f) = IF contexts["own"][f] # "" THEN contexts["own"][f]
                                             ELSE GetString(ExtraOf(contexts["own"]), f)
  <2>1. c = contexts["own"] /\ extra = ExtraOf(contexts["own"])
    BY <1>2, <1>4
  <2> HIDE DEF c, extra
  <2>2. wire'.context = MarshalContext(c, extra)
    BY <1>1
  <2>3. ASSUME NEW f \in {"library", "locale"}
        PROVE  GetString(wire'.context, f) = IF c[f] # "" THEN c[f] ELSE GetString(extra, f)
    BY <2>2, StructFirst
  <2> QED
    BY <2>1, <2>3
<1>5. ExtraOf(contexts["own"])' = ExtraOf(contexts["own"])
  BY <1>1 DEF ExtraOf
<1> QED
  BY <1>1, <1>3, <1>4, <1>5 DEF WireInv

LEMMA StepWire == ContextInv /\ LifeInv /\ WireInv /\ [Next]_vars => WireInv'
<1> SUFFICES ASSUME ContextInv, LifeInv, WireInv, [Next]_vars PROVE WireInv'
  OBVIOUS
<1>1. ASSUME UNCHANGED <<contexts, maps, given, msg, wire>> PROVE WireInv'
  BY <1>1 DEF WireInv, ExtraOf
<1>2. ASSUME pc \in Early \union {"queued"}, UNCHANGED wire PROVE WireInv'
  BY <1>2 DEF LifeInv, WireInv
<1>3. CASE Configure
  BY <1>2, <1>3 DEF Configure, ApplyOption, New, NewReturnsNil, Early
<1>4. ASSUME NEW c, ChangeContext(c) \/ ChangeExtra(c) PROVE WireInv'
  BY <1>2, <1>4 DEF ChangeContext, ChangeExtra, Early
<1>5. ASSUME NEW m, Enqueue(m) PROVE WireInv'
  BY <1>2, <1>5 DEF Enqueue, Early
<1>6. CASE Marshal
  BY <1>6, MarshalWire
<1>7. CASE Send \/ Api
  BY <1>1, <1>7, SendSteps
<1>8. CASE UNCHANGED vars
  BY <1>1, <1>8 DEF vars, heapVars, clientVars
<1> QED
  BY <1>3, <1>4, <1>5, <1>6, <1>7, <1>8 DEF Next

\* For any options, contexts and Extra maps: an event without a context of its own is
\* sent with the application's default context as it was when New was called and with
\* the SDK's library, whatever the application changes later, and Extra never hides the
\* library; an event's own context goes out as the application left it, with nothing of
\* the default (toCoreConfig, makeConfig, Enqueue, Context.MarshalJSON).  The hypothesis
\* leaves out applications that name the SDK's library themselves, whose contexts
\* cannot tell whether the client wrote to them, and default contexts without a locale,
\* for which Extra may give one.
THEOREM DefaultContextIsKept ==
  ASSUME \A c \in AppContexts : c.library # "origamy-go" /\ c.locale # ""
  PROVE  Spec => []DefaultContextKept
<1>1. Telling
  BY DEF Telling
<1>2. Init => WireInv
  BY DEF Init, WireInv
<1>3. Spec => []WireInv
  BY <1>1, <1>2, StepWire, ContextHolds, LifeHolds, PTL DEF Spec
<1>4. ContextInv /\ WireInv => DefaultContextKept
  BY DEF ContextInv, WireInv, DefaultContextKept
<1> QED
  BY <1>1, <1>3, <1>4, ContextHolds, PTL

===============================================================================
