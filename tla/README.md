# A TLA+ verification of the Origamy Go SDK

The SDK queues analytics messages in the process that uses it and sends them in
batches from background goroutines. What can go wrong is concurrency: a `Close`
that overlaps calls of `Enqueue`, batches that are refused, retried or abandoned,
counters that decide when the shutdown may go on. Beside the client there is a
synchronous one for list segments, which sends long lists in several requests. This
directory models the two, with their configuration, messages and dispatcher, checks
them with TLC on small instances, and proves every safety property of the passing runs
with TLAPS for instances of any size.

Source paths are relative to the repository's root. `PROJECT.json` maps every
definition of the modules to the lines it models.

## 1. The system

### Components

| Component | Source | State | Operations |
|---|---|---|---|
| Channel queue | `internal/queue/channel.go` | a buffered channel, an atomic `closed` flag, a `sync.Once` | `Enqueue`, `TryEnqueue`, `Dequeue`, `TryDequeue`, `Drain`, `Channel`, `Close` |
| Batch under construction | `internal/core/message.go` | the pending messages and a cached count of their bytes | `makeMessage`, `push`, `flush` |
| Client | `internal/core/analytics.go` | the `quit` and `shutdown` channels, the loop's batch, a `WaitGroup` | `Enqueue`, `Close`, `loop`, `sendAsync`, `send` |
| Executor | `internal/core/executor.go` | a channel of one task, a count of tasks, a limit | `do`, `loop`, `run`, `done`, `close` |
| Configuration | `index.go`, `internal/core/config.go` | the options given to `New` | `New`, the `With...` options, `validate`, `makeConfig` |
| HTTP dispatcher | `internal/dispatcher/http.go` | an HTTP client with a timeout | `Send`, `Close` |
| Segments client | `segments.go` | none beside the HTTP client | list operations; membership changes in chunks, each with retries |
| Message types | `internal/core/{identify,track,...}.go` | none | `Validate`, `ValidateFields` |
| Values | `internal/core/{context,traits,properties,integrations,json}.go` | maps | setters, marshalling by reflection |
| Noop dispatcher, loggers | `internal/dispatcher/noop.go`, `internal/core/logger.go` | none | development output |

### How they interact

    application ──Enqueue──▶ channel queue ──receive──▶ loop goroutine ──push──▶ batch
         │                        ▲                          │
         │ Close                  │ Close (by the loop,      │ sendAsync: wg.Add, executor.do
         │                        │ or by an application     ▼
         └──close(quit)──▶ loop   │ that supplied it)     executor ──forwarder──▶ one goroutine
              waits for shutdown                                                 per batch: send
                                                                                 (retries, callbacks)

`Enqueue` runs on the application's goroutines and blocks while the channel is
full. One loop goroutine receives messages, ticks and `quit` in a `select`,
appends to the batch and hands full batches to the executor, whose forwarder starts
one goroutine per batch. Each batch ends in one callback per message. `Close`
signals `quit` and waits for `shutdown`, which the loop closes after it has closed
the queue, drained it, flushed, closed the executor and waited for all sends.

### What is hard, and the properties it calls for

* *Close against Enqueue.* The queue's flag is read before the send, so a close
  can come between, or while the sender is blocked; the send then panics and
  `Enqueue` recovers. A message must be in the queue exactly if its call returned
  nil; a refused caller must see the flag, since the client asks for it to choose
  the error; nobody may stay blocked.
* *Two Closes.* The second close of the queue must not return before the channel
  is closed. The second `Client.Close` reports `ErrClosed` at once and the first
  must still wait for the flush.
* *The end of the stream.* `Drain` is the live channel; its end must mean that no
  accepted message can follow.
* *Batches.* A batch ends by size, by bytes or by the ticker, a push can end two
  and returns one. Nothing may be lost, doubled or reordered, and the cached count
  of bytes must stay true.
* *Shutdown.* Messages may sit in the channel, in the batch, in the executor, in a
  send that is about to retry, and in callers in the middle of `Enqueue`. All must
  be resolved before `Close` returns and the dispatcher is closed.
* *The executor's mutex.* `do` waits on a channel while it holds the mutex that
  every finishing task needs.
* *Membership changes.* A list goes out in chunks, each tried up to three times,
  over a network that can lose an answer or deliver a request late. The result must
  say what happened to which rows, also when the call fails half way.
* *Configuration.* `New` takes any options in any order, drops an error and starts
  goroutines that check nothing.
* *Limits and failures.* A refused batch, retries that end, a retry cut short by
  `quit`, a dispatcher that panics: the counters must stay right and every message
  must have one verdict that agrees with what was tried.

`PROJECT.json` lists the hazards at their lines, with the properties that cover them.

## 2. The modules

| Module | What it is |
|---|---|
| `ChannelQueue` | The queue alone: any calls, closers and consumers. |
| `ChannelQueueProofs` | Its safety invariants proved. |
| `MessageQueue` | The batch alone: any sequence of pushes and flushes. |
| `MessageQueueProofs` | Its invariants proved, those on bytes by induction. |
| `Delivery` | The abstract specification: what the application is promised about each message. |
| `Client` | The client with its executor; composes `ChannelQueue` and `MessageQueue` by `INSTANCE` and implements `Delivery`. |
| `ClientProofs` | The client's inductive invariant, with the lemmas on queues and sets of goroutines that it needs. |
| `ClientTheorems` | What follows from it: the client's safety properties and the refinement of `Delivery`. |
| `Executor` | The executor alone, with its mutex and channel as steps; implements `Slots`. |
| `Slots` | The abstract specification: a number of slots, taken and given back. |
| `ExecutorProofs` | Its invariants and the refinement proved. |
| `Segments` | One call of `AddMembers` or `RemoveMembers`, with the API and the network. |
| `SegmentsProofs` | That the result is exact, and where it ends, proved. |
| `SegmentsTries` | What the tries of one request can do, and how long it waits between them, proved. |
| `HTTPDispatcher` | The dispatchers and their options as values. |
| `Config` | From options to a client: `toCoreConfig`, `validate`, `makeConfig`, the defaults; `NewSegments`. |
| `Messages` | The six message types: validation, what `Enqueue` fills in, the JSON of a context. |
| `Event` | One event from the options of `New` to the verdict; composes the three above. |
| `EventProofs` | Its four properties proved. |
| `MCChannelQueue`, `MCMessageQueue`, `MCClient`, `MCExecutor`, `MCSegments`, `MCEvent` | Instances for TLC. |

### ChannelQueue

An element of `Enqueues` or `TryEnqueues` is one call and stands for the message it
carries. `Load` is the read of the flag, `Send` a send that succeeds,
`EnqueueRecover` the panic of a send on the closed channel and the deferred
recover; `TryEnqueueFull` and `TryEnqueuePanic` are the other ends of the
`select` of `TryEnqueue`, which has no recover. `CloseStore` and `CloseChannel` are
the two statements under `closeOnce.Do` and `CloseAgain` the calls that find the
function has run; while it runs they have to wait, as `sync.Once` makes them.
`Dequeue`, `DequeueFalse` and `TryDequeueFalse` are the receives of a consumer
that goes on until it is told that the queue is closed (`Dequeue`, `Drain`) or
empty (`TryDequeue`). `taken` is a history of what was received. A Go channel
serves blocked senders in FIFO order; the model lets any of them go next, which
allows more.

### MessageQueue

`Push` and `Flush` are operators on a value `[pending, bytes]` that return the
batch and the queue left, as the Go methods do on a queue that only the loop
goroutine holds. A message is a value with the length of its JSON. The count of
bytes is kept the way the code keeps it: the test counts a comma per message and
the sum does not. `PayloadLen` is the length of the JSON of a batch. The state
machine pushes distinct messages in any order, with flushes between, and keeps
the histories `pushed` and `flushed`.

### Client

| State | Code |
|---|---|
| `ch`, `chClosed`, `closed`, `once`, `call`, `closer` | the queue; `call[m]` is where the call of `queue.Enqueue` for `m` is |
| `result`, `closeCall` | what `Enqueue` and `Close` returned to the application |
| `quit`, `dispatcherClosed` | `close(c.quit)`, `dispatcher.Close()` |
| `phase`, `mq`, `outbox` | the loop: where it is, its batch, and the batch it is handing to `sendAsync` |
| `exQueue`, `exSize`, `wg` | the executor's channel and counter, the `WaitGroup` |
| `tasks` | one record per goroutine of a batch: its messages, attempt and point in `send` |
| `notified`, `sent` | histories: callbacks, and calls of `dispatcher.Send`, per message |

`Reject`, `EnqueueLoad`, `EnqueueSend`, `EnqueueReturn` are `Enqueue`;
`CloseQuit`, `CloseAgain`, `CloseFinish` are `Close`. The loop is
`ReceiveMessage`, `ReceiveClosed`, `Tick`, `Quit` (the `select`, and the range over
`Drain()`), `CloseQueue`, `DrainEnd`, then its deferred calls `CloseExecutor` and
`Exit`. `Submit` and `Refuse` are `sendAsync`. `Forward` is the executor's
forwarder. `SendSucceeds`, `SendFails`, `SendPanics`, `RetryTimer`, `RetryQuit` are
`send`; `WgDone` and `ExecutorDone` the deferred `wg.Done` and `executor.done`.

A step is the code between two points where another goroutine can see a
difference. The abstractions this takes:

* *`executor.do` is one step.* It holds the executor's mutex while it sends the
  task to a channel of one; it can wait there, and then the goroutines that finish
  wait for the mutex in `done`. The forwarder needs no mutex, so the wait ends. In
  the code a `done` then comes after `do`; the model allows it before as well,
  which is the code when `done` was first to get the mutex. `Executor` has the
  mutex and the channel as steps of their own and shows that the wait ends and that
  the limit holds.
* *The callbacks of a batch are one step* and return. The documentation forbids
  blocking callbacks (`internal/core/message.go:16-17`).
* *Marshalling a batch cannot fail*: its messages are JSON already. Marshalling a
  message is part of the receive that takes it from the queue.
* *Time is absent.* Backoff and ticks may come at any moment.
* *Logging is left out*, with the counting behind the log messages.
* `exSize` goes down only after the callbacks, as in the code, so a batch can be
  refused when all earlier ones have been reported already. The model shows that
  behaviour too.

The modules keep faulty variants of some
definitions, each with the bug it stands for in a comment. No specification uses
them; they are there to show that a property would notice the bug.

### Delivery

Per message a status: `new`, `accepted` or `refused`, `succeeded` or `failed`, and a
flag `shut`. Messages of a batch are resolved together; after `shut` nothing is
accepted and everything accepted has been resolved. `Client` maps its state to it
with `Status` and `phase = "exited"`.

### Executor

A task is one call of `do`. `Begin`, `Lock`, `Send`, `CountAndUnlock` and
`RefuseAndUnlock` are its steps: between `Send` and `CountAndUnlock` the task may
already run, finish and wait for the mutex in `done`. `Forward` and `ForwarderExits`
are the forwarder goroutine, `TaskReturns` and `Done` a task's. The client calls
`do` from one goroutine; the model lets calls overlap, as the mutex does. `Close`
comes after the last `do`, as in the client. `Slots` has no mutex, channel or
goroutine: a task takes a slot, or is refused when none is free, runs once and gives
the slot back. A slot is taken when the task is sent and is free again after `done`,
which comes after the callbacks.

### Segments

| State | Code |
|---|---|
| `pc`, `start`, `attempt`, `wait`, `total`, `err` | `write` and `post`: the chunk, the try, the timer, the result and the error |
| `ctx` | the caller's context, which may end at any moment |
| `net`, `reply` | requests on their way, and the answer to the current one |
| `members`, `applied` | the API: who is in the segment, and how often it took each row |

`SendChunk`, `BuildFails` and `Finish` are the loop of `write`; `ReadResult`,
`ReadError`, `ReadUnavailable` and `TransportFails` the ends of a request in `post`
and `readSegmentResponse`; `TryAgain` and `StopWaiting` the `select`. A row is its
index; `Bad` rows are rejected by the API, `Spoilt` ones may fail to marshal, and
`Present` ones name a member. The API and the network are external: `Take`, `Refuse`
and `Lose` handle any request under way, so that one that the client gave up on (its
timeout, a broken connection) can still be taken later, also after the call has
returned. The answer to a request that was taken may arrive, be cut, be garbled or
be replaced by a gateway's 502. Every failure of `http.Do` is one action. Durations
have `Width` bits and wrap.

### Config, HTTPDispatcher, Messages and Event

`Config` has the options as updates of a record and each function as an operator.
Functions and interfaces are names, `""` for nil. `toCoreConfig` copies the context
one level deep, so contexts are objects that a configuration points to, and their
`Extra` maps are objects that contexts point to; the client's copy shares the map.
`Messages` takes strings as empty or not. The `type` of a message is its Go type,
since `Enqueue` overwrites the field.

`Event` follows one event. `ApplyOption`, `New` and `NewReturnsNil` are the
configuration; `Enqueue` and `Marshal` the application's call and the loop;
`SendNoop`, `Post`, `SendAnswered`, `SendFails`, `RetryTimer` and `RetryQuit` are
`client.send` over a dispatcher. `ChangeContext` and `ChangeExtra` are the
application, which goes on using the context it gave away. `ApiTakes`,
`ApiRedirects` and `LateRequest` are external. What happens to events between these
points (the queue, batches, the executor, the shutdown) is `Client`'s matter.

## 3. What is checked

| Run | What it shows | Bounds |
|---|---|---|
| `channel_queue` | `AcceptedExactlyOnce`, `RefusedOnlyIfFlagUp`, `CloseReturnsSealed`, `DrainEndsComplete`, `HistoryGrows` and, under fairness, `CloseReleasesCallers` | 3 `Enqueue`, 1 `TryEnqueue`, 2 `Close`, one consumer of each kind, capacity 1 |
| `message_queue` | `BytesCountPending`, `PendingBelowBatchSize`, `BatchesInOrder`, `PayloadExcessBounded` | 8 messages of lengths 1 to 5, one too long, one that cannot be marshalled; batch size 5; 7 bytes |
| `client_safety` | `Conservation`, `CloseFlushes`, `NoSendAfterDispatcherClose`, `AttemptsJustifyVerdict`, `ClosedClientRefuses`, and that the client implements `Delivery` | 3 messages, 2 closers, capacity 1, batches of 2, 2 sends, 2 attempts |
| `client_odd` | `ErrClosedTruthful`, `SlotsAccounted`, `RefusedNeverSent`, and, under fairness, `CloseReturns` | 2 good messages, one that `Validate` refuses (a custom type is refused in the same step), one nil; a dispatcher that may panic; an application that closes its queue; 1 send |
| `executor` | `InFlightBounded`, `ImplementsSlots` and, under fairness, `DoReturns`, `AcceptedFinishes` | 4 tasks, a limit of 2 |
| `segments` | `ResultCoversPrefix`, `ChunkBoundary`, `NotFoundExplained`, `RetryAfterHonoured` and, under fairness, `CallReturns` | 5 rows in chunks of 3, 3 tries, 2 bad rows, one absent, one that may not marshal; durations of 6 bits |
| `event` | `ClientUsable`, `ValidationAgrees`, `DefaultContextKept`, `SuccessMeansTaken` | every subset of nine options, with invalid values of two; every message type with its fields present or absent; own contexts with and without a library; 2 attempts, 3 statuses |
| `client_live` | `EnqueueReturns`, `AcceptedGetsCallback` | 3 messages of which one is too long, 1 closer, 1 send, 2 attempts |

Why the bounds are enough: a buffer of one and a batch of two are the smallest that
can be empty, partly filled (the batch) and full; three messages make a full batch
and a partial one, so that two batches are in flight, the second can be refused
(one send at a time) or accepted (two), and callers wait for room. Two attempts
are the smallest number with both a retry and a last failure. Two closers make
the race. The byte limits are scaled down: the code only compares sums with a
limit. The properties are symmetric in the messages of `client_safety`, which
checks no liveness property and uses symmetry. Deadlock is checked except for the
queue alone, whose callers all return in the end; `Terminated` is the client's
only legal stop. In `executor`, `segments` and `event` the system ends as well.

Four tasks on two slots are refused, accepted, and accepted after a release, with a
third task in the channel's one place. A chunk of three with a bad row inside
distinguishes a chunk's indexes from the list's; five rows make a full and a short
chunk; three tries are the code's number. The header's values are none, one that fits
in 6 bits, and ones that wrap to a negative wait, to zero and to a short wait. An
event that is sent twice is enough for a duplicate and for a verdict at each try.

What these runs show, and a caller may not expect:

* `NotFoundExplained`: a removal whose answer was lost is repeated, and the second
  answer says `NotFound` of a row that this very call has removed. The property
  bounds the count by exactly those rows.
* `RetryAfterHonoured` has a limit: a `Retry-After` of more than some 292 years
  wraps to a wait that is negative, short or zero.
* `SuccessMeansTaken` has an exception: `http.Client` follows a 301, 302 or 303 of
  the POST with a GET that carries no events, and `Send` takes a 200 at its end for
  success. It also shows that a batch may be taken more than once, and may be taken
  although `Failure` was reported.
* `ClientUsable` holds of valid options. For a negative interval or batch size `New`
  returns a nil `Client` and no error (`NewReturnsNil`); `NewSegments` ignores them.
* `DefaultContextKept` covers the struct fields, by two of them. An event's own context
  replaces the default as a whole; see the disagreements below. The `Extra` and `Traits` maps of the
  default context stay shared with the application, which must not write to them
  while the loop marshals.

### Fairness

`FairSpec` of `Client` assumes weak fairness of every goroutine that can run: the
Go scheduler runs them, channel operations and the mutex do not starve a waiter,
and the ticker ticks. `Quit` and `Tick` are cases of a `select` that picks at
random among ready cases. Each goroutine of a batch moves, which assumes that
`dispatcher.Send` returns: the HTTP client has a timeout of 10 seconds
(`internal/dispatcher/http.go`), and a retry timer fires. No fairness is assumed of
the application: it need not call `Enqueue` or `Close`. In `ChannelQueue`, calls
that have begun go on; consumers need not receive, so `CloseReleasesCallers` says
that the close alone releases a blocked caller.

`Executor` assumes weak fairness of each call of `do` that has begun, of the
forwarder and of each running task. Calls are finite in number, so nobody can keep
the mutex from a waiter for ever. `Segments` assumes only that the calling goroutine
goes on: `http.Do` returns after 30 seconds at the latest, so `TransportFails` is
possible as long as the client waits, and a timer fires. The API, the network and
the context owe nothing. `Event` checks safety only.

### Disagreements with what the code says of itself

Each is a run that checks the documented reading and finds it violated.

| Run | Reading | What the code does |
|---|---|---|
| `try_enqueue_race` | the queue is "goroutine-safe" (`internal/queue/channel.go:9`) | a `Close` between the load of the flag and the send of `TryEnqueue` panics in the caller; `Enqueue` recovers from the same race. The client itself never calls `TryEnqueue`. |
| `payload_limit` | a batch has 500KB in total (`HTTP_SPEC.md`), a comma is counted per message (`message.go:88`) | the commas are tested for and not accumulated, so a payload of n short messages can exceed the limit by n - 4 bytes. `PayloadExcessBounded` shows that it is never more. |
| `dispatcher_panic` | `Failure` is called for every message that is discarded (`message.go:24`) | the recover of `sendAsync` logs a panic of the dispatcher and makes no callback. |
| `documented_library` | the SDK "always populates `library`", applications add or override fields per event (`HTTP_SPEC.md:245`; `config.go:71` says the default context is set on each message) | the library is written into the default context alone, and an event's own context takes its place: an event whose context names no library goes out without one, and without the other fields of the default. |

The documentation says more that the code does not do. For these the passing property
named shows the code's behaviour, so that a run of the documented reading would add
nothing:

| Reading | What the code does | Shown by |
|---|---|---|
| `FieldError` and `ErrClosed` go to the failure callback (`ARCH.md:471-472`) | `Enqueue` returns them and makes no callback; a callback is made only for a message that `Enqueue` accepted | `RefusedNeverSent`; `Conservation` and `Delivery` say the same |
| `Enqueue` returns an error for a malformed message (`analytics.go:34-36`) | a nil pointer reaches `Validate` on a nil interface and panics in the caller; nothing of the message stays behind | `RefusedNeverSent` in `client_odd`, where `result` is `"panic"` |
| `ErrClosed` is returned after the client was closed (`error.go:48-49`) | also when an application has closed the queue it supplied, of a client that is open | `ErrClosedTruthful` names both causes |
| the error of `New` can be ignored, "default config is always valid" (`index.go:341`); a `ConfigError` is logged (`ARCH.md:470`) | `New` takes options; with an invalid one it returns a nil client, and logs nothing | `NewReturnsNil`; `ClientUsable` is about valid options |
| `NotFound` counts removals that matched nobody (`segments.go:49-50, 154`) | a removal whose answer was lost is repeated, and counted though it matched | `NotFoundExplained` bounds the count |
| requests are "retried up to 3 times" (`README.md:222-223`) | a request is tried 3 times, so retried twice, as `segments.go:91` says | `TypeOK` of `Segments` bounds the tries by `MaxAttempts` |
| `Success` is called for messages that were sent to the API (`message.go:20`) | also after a redirect to a GET that carried none | `SuccessMeansTaken`, the case `"moved"` |
| a queue's capacity of 0 or less means unbounded (`queue.go:49`) | `ChannelQueue` takes 100 | `BufferCapacity` |

## 4. What is proved

Every invariant and action property of the passing runs and both refinements, for all
values of the constants that the assumptions admit: any sets of callers, closers and
consumers, any capacity, batch size, message lengths, numbers of attempts and fates of
a request.

*ChannelQueue* (`ChannelQueueProofs`). `TypeCorrect`, `ExactlyOnce`,
`RefusedSeesFlag`, `CloseSeals`, `DrainIsComplete`, `FirstInFirstOut`. The
assumptions are that a call is not both an `Enqueue` and a `TryEnqueue`, that a
consumer is of one kind, and that the capacity is an integer. The properties are
not inductive: that a refused caller sees the flag needs the order of the two
statements of `Close`, which is only visible in the state of the `sync.Once`. The
inductive invariant `IInv` adds `OnceInv` (the flag is up exactly once the
function has begun, the channel is closed exactly once it is done, one closer at
most is inside), `RefusedInv` and `DrainInv` (an ended receive loop left the
channel closed and empty). `DrainEndsComplete` then follows from
`AcceptedExactlyOnce`: with the channel empty, all accepted messages have been
taken. `HistoryGrows` is an action property and follows from the same invariant.

*MessageQueue* (`MessageQueueProofs`). `TypeCorrect`, `BatchSizeRespected`,
`BatchingIsFaithful`. The lemma `Splits` is about: whatever `push` and `flush` do,
the batch returned followed by the queue left is what was pending followed by the
new message, and neither exceeds its size. The case that needs care is a push that
flushed to make room: it must not have to flush again, and it does not, because a
queue that was not empty and below the batch size means a batch size of two or
more (`PushReturns`). The assumptions are that the batch size is at least 1, which
`makeConfig` and `validate` guarantee, and that lengths are positive.

`BytesAreExact` and `ExcessIsBounded` are about a sum over a batch of any length.
`DataLen` is a recursive function; that it is defined for every batch and grows by the
length of the message appended is proved by induction. The induction principle of the
library takes an operator as a parameter, which the provers cannot instantiate, so
`SetInduction` derives it for sets from the well-foundedness of `<` on the naturals.
`BytesInv` then says that the cached count is that sum, for the queue and for the batch
returned, and that a batch stays below the limit without its commas.

*Client* (`ClientProofs`, `ClientTheorems`). For any messages, callers, closers, also
those of an application that closes its queue, any capacity, batch size, limit of
sends and number of attempts. The inductive invariant `IInv` has a part for each thing
that one goroutine relies on another for:

* `OnceInv`, `FlagInv` and `ResultInv`: the order of flag, channel and `sync.Once`, and
  that `Enqueue` returns what the queue did. `ErrClosedIsTrue` follows.
* `PhaseInv`: what is behind the loop in each phase of the shutdown: `quit`, the closed
  channel, then the empty batch, then `wg` at zero. Without it `CloseFlushes` and
  `NoSendAfterDispatcherClose` are not inductive, since each depends on all phases
  before it.
* `SlotsInv`: `wg` and `exSize` are the numbers of goroutines that still owe a `Done` or
  a release; `ZeroMeansIdle` makes `wg.Wait` mean that nothing is sent or waiting.
* `BuffersInv`, `WaitingInv`, `TaskInv`, `TasksDisjoint`, `VerdictInv` and `PlacedInv`:
  a message is in one buffer or one send at most, has as many sends as the attempt of
  its goroutine says, and no callback before its verdict. Disjointness is what keeps a
  verdict from being given twice.

From it: `TypeCorrect`, `SlotsExact`, `ErrClosedIsTrue`, `DispatcherUnused`,
`RefusalIsFinal`, `VerdictsAreTrue`, the action property `ClosedRefuses`, and, for
dispatchers that do not panic, `NothingLost` (`Conservation`), `CloseIsComplete`
(`CloseFlushes`) and `DeliversAsPromised`, the refinement of `Delivery`. That hypothesis
is needed: the recover of `sendAsync` makes no callback, and the run `dispatcher_panic`
shows the message that is lost.

*Executor* (`ExecutorProofs`). For every finite set of tasks and every limit:
`TypeCorrect`, `SizeIsExact`, `LimitRespected` and `Refinement`, that the executor
implements `Slots`. `do` compares `size` with the limit by `!=`, so the count has to
be exact; it lags behind, since the task is sent before it is counted and may be
done first. The inductive invariant says who holds the mutex (`MutexOwner`), which
states of a call and of its task go together (`CallMatchesWork`), and that the task
sent and not yet counted has a place (`RoomForSent`). `InFlight` is then `size`, or
one more while a `do` is between its send and its unlock, and that is what makes
`Refuse` of `Slots` agree with `size = cap`.

*Segments* (`SegmentsProofs`). For every list, chunk size, number of tries, set of bad
rows and behaviour of the network: `ResultIsExact` (`ResultCoversPrefix`) and
`BoundaryIsTrue` (`ChunkBoundary`). The invariant adds that requests under way, the
late ones too, start no later than the current chunk (`NetInv`), that nothing beyond
it was taken (`FutureInv`), and that an answer that says 200 is there only while it
is waited for and accounts for exactly the rows of the chunk (`ReplyInv`). The
assumptions are that the chunk size is positive and that the sets of rows are rows.

`SegmentsTries` has the rest. `NotFoundIsExplained`: its invariant says of an answer
that is on its way, and of the total, that the rows not found are those that named
nobody and at most those that were taken twice; the explanations of disjoint chunks add
up (`ExplainsSum`) and stay true when a late request is taken (`ExplainsKept`).
`TypeCorrect` contains that the API takes no row more often than `MaxAttempts`, which
needs `TriesInv`: a row has a budget, one for each try that carried it, and what was
taken together with what is under way stays within. `AnswerIsWaitedFor` is
`RetryAfterHonoured`, for any unit and width of a duration. The provers know nothing of
powers with a symbolic exponent; `PowerAssumption` states the three facts of arithmetic
that are used, and TLC evaluates it.

*Event* (`EventProofs`). `SuccessIsTrue` for any statuses and number of attempts; its
invariant counts an attempt when the fate of its request is known (`Counted`).
`ClientsAreUsable` for any options: the assumptions are the types of the fields, and
that a dispatcher of the application's own has a timeout. `ValidationsAgree` for every
message that the types allow; the heart of it is `ValidateFieldsAgrees`, which holds of
any strings. `DefaultContextIsKept` for any options, contexts and `Extra` maps, with
two hypotheses: the application's default context does not name the SDK's library
itself, since one that does cannot show whether the client wrote to it, and it has a
locale, since an `Extra` may fill in a field that the struct leaves empty.

What stays with TLC: liveness, which needs fairness and `ENABLED` (`CloseReleasesCallers`,
`CloseReturns`, `EnqueueReturns`, `AcceptedGetsCallback`, `DoReturns`,
`AcceptedFinishes`, `CallReturns`), and the four disagreements, which are
counterexamples.

## 5. What is not modelled

* `Client` takes the verdict of `Validate` as an input (`Kind`) and a call of the
  dispatcher as three outcomes, success, failure and a panic; `Messages` and `Event`
  model what is behind the two.
* An application that blocks in a callback, writes to a map while the loop marshals
  it, or gives a custom transport or dispatcher that never returns.
* Headers, the write key, the endpoint's URL and the text of requests and errors. A
  URL that cannot be parsed makes every `Send` fail like a broken connection.
* The traits, properties and integrations are setters of one key of a map. The nested
  structs of the context and the reflection that serialises them are formatting; the
  noop dispatcher and the loggers print.
* `Segments` takes a 200 for the API's answer: that `http.Client` may have followed a
  redirect of the POST to another place is in `Event` and not there. Rows of one list
  name distinct people.
* `timeout_15.go` is compiled only by Go before 1.6.

## 6. Plan

Built and proved: `ChannelQueue`, `MessageQueue`, `Delivery`, `Client`, `Executor` with
`Slots`, `Segments`, and `Event` with `Config`, `Messages` and `HTTPDispatcher`. What
could be proved beyond the properties of the runs:

1. What `Delivery` and `Slots` promise on their own: one verdict per accepted message,
   none after the shutdown; so that the refinements carry it to the code's models.
2. `NewHTTPDispatcher` for any list of options, by the induction of
   `MessageQueueProofs`: the timeout left is that of the last option that sets one.
3. That the queue inside `Client` takes only steps of `ChannelQueue`.
