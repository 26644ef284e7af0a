-------------------------------- MODULE Client --------------------------------
(***************************************************************************)
(* The analytics client of internal/core: analytics.go with the executor   *)
(* it sends through (executor.go), composed with the queue (ChannelQueue)  *)
(* and the batch under construction (MessageQueue).                        *)
(*                                                                         *)
(* The processes are the application's calls of Enqueue and Close, the     *)
(* loop goroutine, the executor's forwarder and one goroutine per batch in *)
(* flight. A message is one call of Enqueue. A step of this module is the  *)
(* code between two points where another goroutine can see a difference.   *)
(***************************************************************************)
EXTENDS Integers, Sequences, FiniteSets

CONSTANTS Message,         \* calls of Enqueue, each with its message
          Kind,            \* what Enqueue makes of each message
          Closers,         \* calls of Client.Close
          AppClosers,      \* calls of Close on a queue the application supplied
          QueueCapacity, Encodable, JsonLen, BatchSize, MaxMessageBytes,
          PayloadLimit, EnvelopeLen,
          MaxConcurrent,   \* Config.maxConcurrentRequests
          Attempts,        \* const attempts of send, 10 in the code
          DispatcherPanics \* whether dispatcher.Send may panic

Kinds == {"valid", "invalid", "custom", "nil"}

ASSUME KindAssumption == Kind \in [Message -> Kinds]
ASSUME LimitAssumption == /\ MaxConcurrent \in Nat \ {0}
                          /\ Attempts \in Nat \ {0}
                          /\ DispatcherPanics \in BOOLEAN
ASSUME LengthAssumption == JsonLen \in [Message -> Nat]

VARIABLES
  ch, chClosed, closed, once, call, closer,   \* the queue, see ChannelQueue
  result,           \* what each Enqueue returned to the application
  closeCall,        \* where each Client.Close is, or what it returned
  quit,             \* c.quit is closed
  dispatcherClosed, \* dispatcher.Close has run
  phase,            \* where the loop goroutine is
  mq,               \* its messageQueue
  outbox,           \* a batch it is about to hand to sendAsync, <<>> if none
  exQueue,          \* the executor's channel of tasks
  exSize,           \* executor.size
  wg,               \* the counter of the WaitGroup
  tasks,            \* the sends in progress, one per goroutine
  notified,         \* history: the callbacks made for each message
  sent              \* history: how many calls of dispatcher.Send carried a message

queueVars == <<ch, chClosed, closed, once, call, closer>>
appVars == <<result, closeCall, quit, dispatcherClosed>>
loopVars == <<phase, mq, outbox>>
execVars == <<exQueue, exSize, wg, tasks>>
outVars == <<notified, sent>>
vars == <<queueVars, appVars, loopVars, execVars, outVars>>

\* The loop closes the queue, and so may an application that supplied it.
QueueClosers == {"loop"} \union AppClosers

Q == INSTANCE ChannelQueue WITH
       Enqueues <- Message, TryEnqueues <- {}, Closes <- QueueClosers,
       Drainers <- {}, Pollers <- {}, Capacity <- QueueCapacity,
       taken <- <<>>, receiver <- <<>>

MQ == INSTANCE MessageQueue WITH
       MaxBatchSize <- BatchSize,
       queue <- mq, batch <- outbox, pushed <- <<>>, flushed <- <<>>

Messages(b) == {b[i] : i \in DOMAIN b}

Init == /\ ch = <<>> /\ chClosed = FALSE /\ closed = FALSE /\ once = "fresh"
        /\ call = [m \in Message |-> "idle"]
        /\ closer = [c \in QueueClosers |-> "idle"]
        /\ result = [m \in Message |-> "none"]
        /\ closeCall = [c \in Closers |-> "idle"]
        /\ quit = FALSE
        /\ dispatcherClosed = FALSE
        /\ phase = "running"
        /\ mq = MQ!EmptyQueue
        /\ outbox = <<>>
        /\ exQueue = <<>>
        /\ exSize = 0
        /\ wg = 0
        /\ tasks = {}
        /\ notified = [m \in Message |-> <<>>]
        /\ sent = [m \in Message |-> 0]

\* The callbacks notifySuccess and notifyFailure, one per message of a batch.
Notify(S, verdict) ==
  notified' = [m \in Message |-> IF m \in S THEN Append(notified[m], verdict) ELSE notified[m]]

CountSend(S) == sent' = [m \in Message |-> IF m \in S THEN sent[m] + 1 ELSE sent[m]]

-------------------------------------------------------------------------------
(* Faulty variants of the actions below. No specification uses them: put   *)
(* in the place of the action they vary, each must break a property.       *)

\* IsClosed is consulted also after a queue.Enqueue that succeeded.
EnqueueReturn_AsksIsClosed(m) ==
  /\ result[m] = "none"
  /\ call[m] \in Q!Results
  /\ result' = [result EXCEPT ![m] = IF closed THEN "ErrClosed" ELSE call[m]]
  /\ UNCHANGED <<queueVars, closeCall, quit, dispatcherClosed, loopVars, execVars, outVars>>

\* The queue's error is returned as it is.
EnqueueReturn_RawError(m) ==
  /\ result[m] = "none"
  /\ call[m] \in Q!Results
  /\ result' = [result EXCEPT ![m] = call[m]]
  /\ UNCHANGED <<queueVars, closeCall, quit, dispatcherClosed, loopVars, execVars, outVars>>

\* Close signals the loop and does not wait for it.
CloseQuit_DoesNotWait(c) ==
  /\ closeCall[c] = "idle"
  /\ ~quit
  /\ quit' = TRUE
  /\ closeCall' = [closeCall EXCEPT ![c] = "nil"]
  /\ UNCHANGED <<queueVars, result, dispatcherClosed, loopVars, execVars, outVars>>

\* The ticker is never started.
Tick_Never == phase = "running" /\ UNCHANGED vars

\* On quit the loop returns without closing or draining the queue.
CloseQueue_Skipped == /\ phase = "closingQueue"
                      /\ phase' = "flushed"
                      /\ UNCHANGED <<queueVars, appVars, mq, outbox, execVars, outVars>>

\* The last partial batch is not flushed.
DrainEnd_NoFlush == /\ phase = "draining"
                    /\ outbox = <<>>
                    /\ chClosed /\ ch = <<>>
                    /\ phase' = "flushed"
                    /\ UNCHANGED <<queueVars, appVars, mq, outbox, execVars, outVars>>

\* executor.do forgets to count the task.
Submit_Uncounted == /\ outbox # <<>>
                    /\ exSize # MaxConcurrent
                    /\ Len(exQueue) < 1
                    /\ exQueue' = Append(exQueue, outbox)
                    /\ wg' = wg + 1
                    /\ outbox' = <<>>
                    /\ UNCHANGED <<queueVars, appVars, phase, mq, exSize, tasks, outVars>>

\* A refused batch is logged but not reported.
Refuse_Silent == /\ outbox # <<>>
                 /\ exSize = MaxConcurrent
                 /\ outbox' = <<>>
                 /\ UNCHANGED <<queueVars, appVars, phase, mq, execVars, outVars>>

\* A wg.Done on refusal without the wg.Add before it.
Refuse_DoneTwice == /\ outbox # <<>>
                    /\ exSize = MaxConcurrent
                    /\ wg' = wg - 1
                    /\ outbox' = <<>>
                    /\ UNCHANGED <<queueVars, appVars, phase, mq, exQueue, exSize, tasks, outVars>>

\* The loop does not wait for the sends.
Exit_NoWait == /\ phase = "waiting"
               /\ phase' = "exited"
               /\ UNCHANGED <<queueVars, appVars, mq, outbox, execVars, outVars>>

\* One attempt too few.
RetryTimer_OffByOne(t) ==
  /\ t.pc = "retrying"
  /\ IF t.attempt + 2 < Attempts
     THEN /\ tasks' = (tasks \ {t}) \union {[t EXCEPT !.pc = "sending", !.attempt = t.attempt + 1]}
          /\ UNCHANGED notified
     ELSE /\ tasks' = (tasks \ {t}) \union {[t EXCEPT !.pc = "finished"]}
          /\ Notify(Messages(t.msgs), "exhausted")
  /\ UNCHANGED <<queueVars, appVars, loopVars, exQueue, exSize, wg, sent>>

\* The failure is reported on quit, and send tries again all the same.
RetryQuit_GoesOn(t) ==
  /\ t.pc = "retrying"
  /\ quit
  /\ t.attempt + 1 # Attempts
  /\ tasks' = (tasks \ {t}) \union {[t EXCEPT !.pc = "sending", !.attempt = t.attempt + 1]}
  /\ Notify(Messages(t.msgs), "dropped at close")
  /\ UNCHANGED <<queueVars, appVars, loopVars, exQueue, exSize, wg, sent>>

\* wg.Done is not deferred, and a panic skips it.
SendPanics_SkipsDone(t) ==
  /\ DispatcherPanics
  /\ t.pc = "sending"
  /\ CountSend(Messages(t.msgs))
  /\ tasks' = (tasks \ {t}) \union {[t EXCEPT !.pc = "released"]}
  /\ UNCHANGED <<queueVars, appVars, loopVars, exQueue, exSize, wg, notified>>

-------------------------------------------------------------------------------
(* Client.Enqueue                                                          *)

\* A nil pointer dereferences to a nil interface, and Validate panics on it.
RejectionOf(kind) == CASE kind = "invalid" -> "validation error"
                       [] kind = "custom"  -> "custom type error"
                       [] kind = "nil"     -> "panic"

Reject(m) == /\ result[m] = "none"
             /\ Kind[m] # "valid"
             /\ result' = [result EXCEPT ![m] = RejectionOf(Kind[m])]
             /\ UNCHANGED <<queueVars, closeCall, quit, dispatcherClosed, loopVars, execVars, outVars>>

EnqueueLoad(m) == /\ Kind[m] = "valid"
                  /\ Q!Load(m)
                  /\ UNCHANGED <<appVars, loopVars, execVars, outVars>>

EnqueueSend(m) == /\ Q!Send(m) \/ Q!EnqueueRecover(m)
                  /\ UNCHANGED <<appVars, loopVars, execVars, outVars>>

\* The queue's error becomes ErrClosed if the queue is seen closed.
EnqueueReturn(m) ==
  /\ result[m] = "none"
  /\ call[m] \in Q!Results
  /\ result' = [result EXCEPT ![m] = IF call[m] = "nil" THEN "nil"
                                     ELSE IF closed THEN "ErrClosed"
                                     ELSE call[m]]
  /\ UNCHANGED <<queueVars, closeCall, quit, dispatcherClosed, loopVars, execVars, outVars>>

-------------------------------------------------------------------------------
(* Client.Close                                                            *)

CloseQuit(c) == /\ closeCall[c] = "idle"
                /\ ~quit
                /\ quit' = TRUE
                /\ closeCall' = [closeCall EXCEPT ![c] = "waiting"]
                /\ UNCHANGED <<queueVars, result, dispatcherClosed, loopVars, execVars, outVars>>

\* Closing quit a second time panics; the recover reports ErrClosed at once.
CloseAgain(c) == /\ closeCall[c] = "idle"
                 /\ quit
                 /\ closeCall' = [closeCall EXCEPT ![c] = "ErrClosed"]
                 /\ UNCHANGED <<queueVars, result, quit, dispatcherClosed, loopVars, execVars, outVars>>

\* The loop goroutine closes c.shutdown when it exits.
CloseFinish(c) == /\ closeCall[c] = "waiting"
                  /\ phase = "exited"
                  /\ dispatcherClosed' = TRUE
                  /\ closeCall' = [closeCall EXCEPT ![c] = "nil"]
                  /\ UNCHANGED <<queueVars, result, quit, loopVars, execVars, outVars>>

AppCloseQueue(c) == /\ Q!Close(c)
                    /\ UNCHANGED <<appVars, loopVars, execVars, outVars>>

-------------------------------------------------------------------------------
(* The loop goroutine.  While outbox holds a batch it is inside sendAsync. *)

\* push: a message that cannot be batched is reported and discarded.
Push(m) ==
  IF MQ!MakeMessage(m) = "ok"
  THEN LET pushed == MQ!Push(mq, m)
       IN  /\ mq' = pushed.queue
           /\ outbox' = pushed.batch
           /\ UNCHANGED outVars
  ELSE /\ Notify({m}, MQ!MakeMessage(m))
       /\ UNCHANGED <<mq, outbox, sent>>

LoopFlush == /\ mq' = MQ!Flush(mq).queue
             /\ outbox' = MQ!Flush(mq).batch

\* A receive of the select, or of the range over Drain() once quit was seen.
ReceiveMessage == /\ phase \in {"running", "draining"}
                  /\ outbox = <<>>
                  /\ Q!Receive
                  /\ Push(Head(ch))
                  /\ UNCHANGED <<appVars, phase, execVars>>

\* A queue closed by the application yields ok = false and the loop goes round.
ReceiveClosed == /\ phase = "running"
                 /\ outbox = <<>>
                 /\ chClosed /\ ch = <<>>
                 /\ UNCHANGED vars

Tick == /\ phase = "running"
        /\ outbox = <<>>
        /\ LoopFlush
        /\ UNCHANGED <<queueVars, appVars, phase, execVars, outVars>>

Quit == /\ phase = "running"
        /\ outbox = <<>>
        /\ quit
        /\ phase' = "closingQueue"
        /\ UNCHANGED <<queueVars, appVars, mq, outbox, execVars, outVars>>

CloseQueue == /\ phase = "closingQueue"
              /\ Q!Close("loop")
              /\ phase' = IF closer'["loop"] = "returned" THEN "draining" ELSE phase
              /\ UNCHANGED <<appVars, mq, outbox, execVars, outVars>>

\* The range loop ends and the rest of the batch is flushed.
DrainEnd == /\ phase = "draining"
            /\ outbox = <<>>
            /\ chClosed /\ ch = <<>>
            /\ LoopFlush
            /\ phase' = "flushed"
            /\ UNCHANGED <<queueVars, appVars, execVars, outVars>>

\* sendAsync when executor.do accepts: the task's channel has room for one and
\* the loop waits, holding the executor's mutex, for the forwarder to take it.
Submit == /\ outbox # <<>>
          /\ exSize # MaxConcurrent
          /\ Len(exQueue) < 1
          /\ exQueue' = Append(exQueue, outbox)
          /\ exSize' = exSize + 1
          /\ wg' = wg + 1
          /\ outbox' = <<>>
          /\ UNCHANGED <<queueVars, appVars, phase, mq, tasks, outVars>>

\* sendAsync when executor.do refuses: wg.Done undoes wg.Add.
Refuse == /\ outbox # <<>>
          /\ exSize = MaxConcurrent
          /\ Notify(Messages(outbox), "ErrTooManyRequests")
          /\ outbox' = <<>>
          /\ UNCHANGED <<queueVars, appVars, phase, mq, execVars, sent>>

\* The deferred calls of loop, last to first: ex.close and tick.Stop, then
\* wg.Wait, then close(c.shutdown).
CloseExecutor == /\ phase = "flushed"
                 /\ outbox = <<>>
                 /\ phase' = "waiting"
                 /\ UNCHANGED <<queueVars, appVars, mq, outbox, execVars, outVars>>

Exit == /\ phase = "waiting"
        /\ wg = 0
        /\ phase' = "exited"
        /\ UNCHANGED <<queueVars, appVars, mq, outbox, execVars, outVars>>

-------------------------------------------------------------------------------
(* The executor's forwarder and the goroutines it starts.                  *)

Task == [msgs : Seq(Message), attempt : 0..Attempts - 1,
         pc : {"sending", "retrying", "finished", "released"}]

Forward == /\ exQueue # <<>>
           /\ exQueue' = Tail(exQueue)
           /\ tasks' = tasks \union {[msgs |-> Head(exQueue), attempt |-> 0, pc |-> "sending"]}
           /\ UNCHANGED <<queueVars, appVars, loopVars, exSize, wg, outVars>>

\* Task t goes on as u.
Becomes(t, u) == tasks' = (tasks \ {t}) \union {u}

At(t, pc) == [t EXCEPT !.pc = pc]

SendSucceeds(t) == /\ t.pc = "sending"
                   /\ CountSend(Messages(t.msgs))
                   /\ Notify(Messages(t.msgs), "success")
                   /\ Becomes(t, At(t, "finished"))
                   /\ UNCHANGED <<queueVars, appVars, loopVars, exQueue, exSize, wg>>

SendFails(t) == /\ t.pc = "sending"
                /\ CountSend(Messages(t.msgs))
                /\ Becomes(t, At(t, "retrying"))
                /\ UNCHANGED <<queueVars, appVars, loopVars, exQueue, exSize, wg, notified>>

\* The select of send, when the timer fires: the next attempt, if one is left.
RetryTimer(t) ==
  /\ t.pc = "retrying"
  /\ IF t.attempt + 1 # Attempts
     THEN /\ Becomes(t, [At(t, "sending") EXCEPT !.attempt = t.attempt + 1])
          /\ UNCHANGED notified
     ELSE /\ Becomes(t, At(t, "finished"))
          /\ Notify(Messages(t.msgs), "exhausted")
  /\ UNCHANGED <<queueVars, appVars, loopVars, exQueue, exSize, wg, sent>>

RetryQuit(t) == /\ t.pc = "retrying"
                /\ quit
                /\ Becomes(t, At(t, "finished"))
                /\ Notify(Messages(t.msgs), "dropped at close")
                /\ UNCHANGED <<queueVars, appVars, loopVars, exQueue, exSize, wg, sent>>

\* The deferred recover of sendAsync logs the panic, and nothing else.
SendPanics(t) == /\ DispatcherPanics
                 /\ t.pc = "sending"
                 /\ CountSend(Messages(t.msgs))
                 /\ Becomes(t, At(t, "finished"))
                 /\ UNCHANGED <<queueVars, appVars, loopVars, exQueue, exSize, wg, notified>>

\* The deferred wg.Done of the task, then executor.done.
WgDone(t) == /\ t.pc = "finished"
             /\ wg' = wg - 1
             /\ Becomes(t, At(t, "released"))
             /\ UNCHANGED <<queueVars, appVars, loopVars, exQueue, exSize, outVars>>

ExecutorDone(t) == /\ t.pc = "released"
                   /\ exSize' = exSize - 1
                   /\ tasks' = tasks \ {t}
                   /\ UNCHANGED <<queueVars, appVars, loopVars, exQueue, wg, outVars>>

TaskStep(t) == \/ SendSucceeds(t) \/ SendFails(t) \/ SendPanics(t)
               \/ RetryTimer(t) \/ RetryQuit(t)
               \/ WgDone(t) \/ ExecutorDone(t)

-------------------------------------------------------------------------------
LoopStep == \/ ReceiveMessage \/ ReceiveClosed \/ Tick \/ Quit
            \/ CloseQueue \/ DrainEnd \/ Submit \/ Refuse
            \/ CloseExecutor \/ Exit

\* Nothing is left to do.  Any other state without a step is a deadlock.
Terminated == /\ phase = "exited"
              /\ tasks = {}
              /\ \A m \in Message : result[m] # "none"
              /\ \A c \in Closers : closeCall[c] \in {"nil", "ErrClosed"}
              /\ \A c \in AppClosers : closer[c] = "returned"
              /\ UNCHANGED vars

Next == \/ \E m \in Message : Reject(m) \/ EnqueueLoad(m) \/ EnqueueSend(m) \/ EnqueueReturn(m)
        \/ \E c \in Closers : CloseQuit(c) \/ CloseAgain(c) \/ CloseFinish(c)
        \/ \E c \in AppClosers : AppCloseQueue(c)
        \/ LoopStep
        \/ Forward
        \/ \E t \in tasks : TaskStep(t)
        \/ Terminated

\* Go runs every goroutine that can run, the ticker ticks, a select picks among
\* its ready cases at random, and every call of dispatcher.Send returns: the HTTP
\* client has a timeout.  Nobody has to call Enqueue or Close.
Fairness == /\ \A m \in Message : WF_vars(EnqueueSend(m)) /\ WF_vars(EnqueueReturn(m))
            /\ \A c \in Closers : WF_vars(CloseFinish(c))
            /\ \A c \in AppClosers : WF_vars(Q!CloseChannel(c) /\ AppCloseQueue(c))
            /\ WF_vars(ReceiveMessage) /\ WF_vars(Tick) /\ WF_vars(Quit)
            /\ WF_vars(CloseQueue) /\ WF_vars(DrainEnd)
            /\ WF_vars(Submit \/ Refuse)
            /\ WF_vars(CloseExecutor) /\ WF_vars(Exit)
            /\ WF_vars(Forward)
            /\ \A m \in Message : WF_vars(\E t \in tasks : m \in Messages(t.msgs) /\ TaskStep(t))

Spec == Init /\ [][Next]_vars

FairSpec == Spec /\ Fairness
-------------------------------------------------------------------------------
Accepted(m) == call[m] = "nil"

Unresolved == {t \in tasks : t.pc \in {"sending", "retrying"}}

ClientClosed == \E c \in Closers : closeCall[c] = "nil"

\* Everything that stands for message m: its copies in the buffers, the send that
\* carries it, and the callbacks that were made for it.
Holders(m) ==
  {<<"queue", i>> : i \in {i \in DOMAIN ch : ch[i] = m}} \union
  {<<"pending", i>> : i \in {i \in DOMAIN mq.pending : mq.pending[i] = m}} \union
  {<<"outbox", i>> : i \in {i \in DOMAIN outbox : outbox[i] = m}} \union
  {<<"executor", i>> : i \in {i \in DOMAIN exQueue : m \in Messages(exQueue[i])}} \union
  {<<"task", t>> : t \in {t \in Unresolved : m \in Messages(t.msgs)}} \union
  {<<"callback", i>> : i \in DOMAIN notified[m]}

Verdicts == {"success", "marshalError", "ErrMessageTooBig", "ErrTooManyRequests",
             "exhausted", "dropped at close"}

(***************************************************************************)
(* Type invariant.                                                         *)
(***************************************************************************)
TypeOK ==
  /\ ch \in Seq(Message) /\ chClosed \in BOOLEAN /\ closed \in BOOLEAN
  /\ once \in {"fresh", "running", "done"}
  /\ call \in [Message -> {"idle", "sending", "nil", "ErrQueueClosed"}]
  /\ closer \in [QueueClosers -> {"idle", "stored", "returned"}]
  /\ result \in [Message -> {"none", "nil", "ErrClosed", "ErrQueueClosed",
                             "validation error", "custom type error", "panic"}]
  /\ closeCall \in [Closers -> {"idle", "waiting", "nil", "ErrClosed"}]
  /\ quit \in BOOLEAN /\ dispatcherClosed \in BOOLEAN
  /\ phase \in {"running", "closingQueue", "draining", "flushed", "waiting", "exited"}
  /\ mq \in [pending : Seq(Message), bytes : Nat]
  /\ outbox \in Seq(Message)
  /\ exQueue \in Seq(Seq(Message)) /\ Len(exQueue) <= 1
  /\ exSize \in Nat /\ wg \in Nat
  /\ \A t \in tasks : t \in Task
  /\ notified \in [Message -> Seq(Verdicts)]
  /\ sent \in [Message -> Nat]

(***************************************************************************)
(* Nothing is lost and nothing is doubled on the way from Enqueue to the   *)
(* callback: a message the queue accepted is in exactly one buffer or      *)
(* send, or has had exactly one callback (message.go:20-26); a message     *)
(* that was not accepted is nowhere.                                       *)
(***************************************************************************)
Conservation ==
  \A m \in Message : IF Accepted(m) THEN \E h \in Holders(m) : Holders(m) = {h}
                                    ELSE Holders(m) = {}

(***************************************************************************)
(* "Close and flush metrics" (analytics.go:251): once the Close that       *)
(* closed the client has returned, every message that Enqueue accepted or  *)
(* ever will accept has had its callback, also those whose Enqueue raced   *)
(* the Close.                                                              *)
(***************************************************************************)
CloseFlushes ==
  ClientClosed => /\ chClosed
                  /\ \A m \in Message : Accepted(m) => notified[m] # <<>>

(***************************************************************************)
(* The dispatcher is closed only when no send can use it any more          *)
(* (analytics.go:261-265), retries included.                               *)
(***************************************************************************)
NoSendAfterDispatcherClose == dispatcherClosed => exQueue = <<>> /\ Unresolved = {}

(***************************************************************************)
(* Enqueue says ErrClosed only when somebody has begun to close the client *)
(* or its queue, and never lets the queue's own error through              *)
(* (analytics.go:240-244).                                                 *)
(***************************************************************************)
ErrClosedTruthful ==
  \A m \in Message :
    /\ result[m] # "ErrQueueClosed"
    /\ result[m] = "ErrClosed" => quit \/ \E c \in AppClosers : closer[c] # "idle"

(***************************************************************************)
(* A message whose Enqueue returned an error, or panicked on a nil         *)
(* pointer, is never sent and never reported to the callback: the caller   *)
(* is told once, and may enqueue it again.  ARCH.md:471-472 draws          *)
(* FieldError and ErrClosed going to the Failure callback, which this says *)
(* never happens: Enqueue returns them and calls nobody                    *)
(* (analytics.go:173-175, 240-246).                                        *)
(***************************************************************************)
RefusedNeverSent ==
  \A m \in Message : result[m] \notin {"none", "nil"} => sent[m] = 0 /\ notified[m] = <<>>

(***************************************************************************)
(* An Enqueue that begins after Close has returned is refused: it does not *)
(* get as far as the channel (error.go:48-50).                             *)
(***************************************************************************)
ClosedClientRefuses ==
  [][\A m \in Message : ClientClosed /\ call[m] = "idle" => call'[m] # "sending"]_vars

(***************************************************************************)
(* What a callback says agrees with what was tried: "exhausted" after all  *)
(* the attempts, "dropped at close" after at least one attempt also when   *)
(* the client was closed before the batch was cut, the refusals after      *)
(* none.                                                                   *)
(***************************************************************************)
AttemptsJustifyVerdict ==
  \A m \in Message : \A i \in DOMAIN notified[m] :
    CASE notified[m][i] = "success"          -> sent[m] \in 1..Attempts
      [] notified[m][i] = "exhausted"        -> sent[m] = Attempts
      [] notified[m][i] = "dropped at close" -> quit /\ sent[m] \in 1..Attempts
      [] OTHER                               -> sent[m] = 0

(***************************************************************************)
(* The two counters that guard the shutdown and the concurrency agree with *)
(* the tasks there are, on the panic and refusal paths too, and the number *)
(* of sends stays within maxConcurrentRequests.                            *)
(***************************************************************************)
SlotsAccounted ==
  /\ wg = Len(exQueue) + Cardinality({t \in tasks : t.pc # "released"})
  /\ exSize = Len(exQueue) + Cardinality(tasks)
  /\ exSize <= MaxConcurrent

(***************************************************************************)
(* Close returns: the loop drains, sends and exits whatever the dispatcher *)
(* answers, and panics of a send do not keep the WaitGroup up.             *)
(***************************************************************************)
CloseReturns == \A c \in Closers : (closeCall[c] = "waiting") ~> (closeCall[c] = "nil")

(***************************************************************************)
(* Every Enqueue returns, also one that is blocked on a full queue.        *)
(***************************************************************************)
EnqueueReturns == \A m \in Message : (call[m] # "idle") ~> (result[m] # "none")

(***************************************************************************)
(* Every accepted message gets its callback, without a Close too: the      *)
(* ticker flushes a batch that does not fill (message.go:20-26).           *)
(***************************************************************************)
AcceptedGetsCallback == \A m \in Message : Accepted(m) ~> (notified[m] # <<>>)

(***************************************************************************)
(* message.go:24-26: Failure is called for every message that failed to be *)
(* sent and is discarded.  Under that reading a closed client has made a   *)
(* callback for every message, also when the dispatcher panicked.          *)
(***************************************************************************)
DiscardedIsReported ==
  ClientClosed => \A m \in Message : Accepted(m) => notified[m] # <<>>

-------------------------------------------------------------------------------
(* What the application sees of a message, for the refinement of Delivery. *)

Status(m) == IF notified[m] # <<>>
             THEN IF notified[m][Len(notified[m])] = "success" THEN "succeeded" ELSE "failed"
             ELSE IF Accepted(m) THEN "accepted"
             ELSE IF call[m] = "ErrQueueClosed" \/ result[m] # "none" THEN "refused"
             ELSE "new"

D == INSTANCE Delivery WITH status <- [m \in Message |-> Status(m)],
                            shut <- (phase = "exited")

\* The client implements the delivery contract of module Delivery.
ImplementsDelivery == D!Spec
===============================================================================
