----------------------------- MODULE ClientProofs -----------------------------
(***************************************************************************)
(* Proofs about Client, for every set of messages, of callers and of       *)
(* closers, every capacity, batch size, number of attempts and limit of    *)
(* concurrent requests: the invariants of the runs, from one inductive     *)
(* invariant.  It says where each message is, who carries it and how far   *)
(* the shutdown has come.                                                  *)
(***************************************************************************)
EXTENDS Client, FiniteSetTheorems, SequenceTheorems, TLAPS

NoDup(s) == \A i, j \in DOMAIN s : s[i] = s[j] => i = j

\* The messages in each buffer between Enqueue and a send.
Queued  == Messages(ch)
Pending == Messages(mq.pending)
Cut     == Messages(outbox)
Handed  == UNION {Messages(exQueue[i]) : i \in DOMAIN exQueue}

Waiting == Queued \union Pending \union Cut \union Handed

\* The sends that the WaitGroup still waits for.
Live == {t \in tasks : t.pc # "released"}

QueueType == [pending : Seq(Message), bytes : Nat]

-------------------------------------------------------------------------------
(* The type invariant by parts: the calls and the loop, the buffers, the   *)
(* executor, the histories.                                                *)

TypeControl ==
  /\ chClosed \in BOOLEAN /\ closed \in BOOLEAN
  /\ once \in {"fresh", "running", "done"}
  /\ call \in [Message -> {"idle", "sending", "nil", "ErrQueueClosed"}]
  /\ closer \in [QueueClosers -> {"idle", "stored", "returned"}]
  /\ result \in [Message -> {"none", "nil", "ErrClosed", "ErrQueueClosed",
                             "validation error", "custom type error", "panic"}]
  /\ closeCall \in [Closers -> {"idle", "waiting", "nil", "ErrClosed"}]
  /\ quit \in BOOLEAN /\ dispatcherClosed \in BOOLEAN
  /\ phase \in {"running", "closingQueue", "draining", "flushed", "waiting", "exited"}

TypeBuffers == /\ ch \in Seq(Message)
               /\ mq \in QueueType
               /\ outbox \in Seq(Message)
               /\ exQueue \in Seq(Seq(Message)) /\ Len(exQueue) <= 1

TypeTasks == \A t \in tasks : t \in Task

TypeHistory == /\ notified \in [Message -> Seq(Verdicts)]
               /\ sent \in [Message -> Nat]

-------------------------------------------------------------------------------
(* The parts of the inductive invariant.                                   *)

\* The flag goes up when the Once starts and the channel closes when it ends.
OnceInv ==
  /\ \A c \in QueueClosers : closer[c] = "stored" => once = "running"
  /\ \A c, d \in QueueClosers : closer[c] = "stored" /\ closer[d] = "stored" => c = d
  /\ \A c \in QueueClosers : closer[c] = "returned" => once = "done"
  /\ once = "fresh" <=> ~closed
  /\ once = "done" <=> chClosed

\* Somebody raised the flag, and nobody is refused by the queue before that.
FlagInv ==
  /\ closed => quit \/ \E c \in AppClosers : closer[c] # "idle"
  /\ \A m \in Message : call[m] = "ErrQueueClosed" => closed

\* What Enqueue returned agrees with what the queue did.
ResultInv ==
  \A m \in Message :
    /\ Kind[m] # "valid" => call[m] = "idle"
    /\ result[m] = "nil" => Accepted(m)
    /\ result[m] \notin {"none", "nil"} => Kind[m] # "valid" \/ call[m] = "ErrQueueClosed"
    /\ result[m] # "ErrQueueClosed"
    /\ result[m] = "ErrClosed" => quit \/ \E c \in AppClosers : closer[c] # "idle"

\* What is behind the loop goroutine when it is in a phase of the shutdown.
PhaseInv ==
  /\ phase # "running" => quit
  /\ phase \in {"draining", "flushed", "waiting", "exited"} => chClosed
  /\ phase \in {"flushed", "waiting", "exited"} => ch = <<>> /\ mq.pending = <<>>
  /\ phase \in {"closingQueue", "waiting", "exited"} => outbox = <<>>
  /\ phase = "exited" => wg = 0
  /\ dispatcherClosed \/ ClientClosed => phase = "exited"

\* wg and exSize count the tasks there are.
SlotsInv == /\ IsFiniteSet(tasks)
            /\ SlotsAccounted

\* No message is in two places of the buffers.
BuffersInv ==
  /\ NoDup(ch) /\ NoDup(mq.pending) /\ NoDup(outbox)
  /\ Queued \intersect (Pending \union Cut \union Handed) = {}
  /\ Pending \intersect (Cut \union Handed) = {}
  /\ Cut \intersect Handed = {}
  /\ \A i \in DOMAIN exQueue : exQueue[i] # <<>>

\* A message in a buffer was accepted, and nothing else has happened to it.
WaitingInv == \A m \in Waiting : Accepted(m) /\ notified[m] = <<>> /\ sent[m] = 0

\* A send carries messages that were accepted and left the buffers.  Until its
\* verdict they have had no callback and were sent once per attempt.
TaskInv ==
  \A t \in tasks :
    /\ t.msgs # <<>>
    /\ \A m \in Messages(t.msgs) :
         /\ m \notin Waiting
         /\ Accepted(m)
         /\ t.pc = "sending" => notified[m] = <<>> /\ sent[m] = t.attempt
         /\ t.pc = "retrying" => notified[m] = <<>> /\ sent[m] = t.attempt + 1

\* No message is in two sends.
TasksDisjoint ==
  \A t, u \in tasks : t # u => Messages(t.msgs) \intersect Messages(u.msgs) = {}

\* The tries that a verdict tells of were made.
Justified(m, verdict) ==
  CASE verdict = "success"          -> sent[m] \in 1..Attempts
    [] verdict = "exhausted"        -> sent[m] = Attempts
    [] verdict = "dropped at close" -> quit /\ sent[m] \in 1..Attempts
    [] OTHER                        -> sent[m] = 0

\* Only an accepted message is sent and gets a callback, one, that is true.
VerdictInv ==
  \A m \in Message :
    /\ ~Accepted(m) => notified[m] = <<>> /\ sent[m] = 0
    /\ notified[m] # <<>> => \E v \in Verdicts : notified[m] = <<v>> /\ Justified(m, v)

\* No accepted message is lost, unless a send panics.
PlacedInv ==
  ~DispatcherPanics =>
    \A m \in Message : Accepted(m) => \/ m \in Waiting
                                      \/ notified[m] # <<>>
                                      \/ \E t \in Unresolved : m \in Messages(t.msgs)

TypeInv == TypeControl /\ TypeBuffers /\ TypeTasks /\ TypeHistory

ControlInv == OnceInv /\ FlagInv /\ ResultInv

PlacesInv == BuffersInv /\ WaitingInv /\ TaskInv /\ TasksDisjoint /\ VerdictInv /\ PlacedInv

IInv == TypeInv /\ ControlInv /\ PhaseInv /\ SlotsInv /\ PlacesInv

controlVars == <<chClosed, closed, once, call, closer, appVars>>

-------------------------------------------------------------------------------
(* The messages of a sequence.                                             *)

LEMMA EmptyMessages == Messages(<<>>) = {} /\ NoDup(<<>>)
  BY DEF Messages, NoDup

LEMMA NonEmptyMessages ==
  ASSUME NEW s \in Seq(Message), s # <<>>
  PROVE  Messages(s) # {}
<1>1. Len(s) \in Nat \ {0} /\ DOMAIN s = 1..Len(s)
  BY LenProperties, EmptySeq
<1>2. 1 \in DOMAIN s
  BY <1>1
<1> QED
  BY <1>2 DEF Messages

LEMMA MessagesType ==
  ASSUME NEW s \in Seq(Message)
  PROVE  Messages(s) \subseteq Message
  BY LenProperties DEF Messages

LEMMA MessagesAppend ==
  ASSUME NEW s \in Seq(Message), NEW m \in Message
  PROVE  /\ Messages(Append(s, m)) = Messages(s) \union {m}
         /\ NoDup(s) /\ m \notin Messages(s) => NoDup(Append(s, m))
<1> DEFINE g == Append(s, m)
<1>1. /\ Len(s) \in Nat /\ DOMAIN s = 1..Len(s) /\ DOMAIN g = 1..(Len(s) + 1)
      /\ g[Len(s) + 1] = m
      /\ \A i \in 1..Len(s) : g[i] = s[i]
  BY AppendProperties, LenProperties
<1> HIDE DEF g
<1>2. Messages(g) = Messages(s) \union {m}
  BY <1>1 DEF Messages
<1>3. ASSUME NoDup(s), m \notin Messages(s) PROVE NoDup(g)
  <2>1. \A i \in 1..Len(s) : g[i] # m
    BY <1>1, <1>3 DEF Messages
  <2>2. \A i, j \in 1..Len(s) : g[i] = g[j] => i = j
    BY <1>1, <1>3 DEF NoDup
  <2> QED
    BY <1>1, <2>1, <2>2 DEF NoDup
<1> QED
  BY <1>2, <1>3 DEF g

LEMMA MessagesTail ==
  ASSUME NEW s \in Seq(Message), s # <<>>
  PROVE  /\ Head(s) \in Messages(s) /\ Head(s) \in Message
         /\ Tail(s) \in Seq(Message)
         /\ NoDup(s) => /\ Messages(Tail(s)) = Messages(s) \ {Head(s)}
                        /\ NoDup(Tail(s))
<1> DEFINE g == Tail(s)
<1>1. /\ Len(s) \in Nat /\ Len(s) >= 1 /\ DOMAIN s = 1..Len(s)
      /\ Head(s) = s[1]
      /\ g \in Seq(Message) /\ DOMAIN g = 1..(Len(s) - 1)
      /\ \A i \in 1..(Len(s) - 1) : g[i] = s[i + 1] /\ i + 1 \in 1..Len(s)
  <2>1. Len(s) \in Nat \ {0} /\ DOMAIN s = 1..Len(s)
    BY LenProperties, EmptySeq
  <2>2. g \in Seq(Message) /\ Len(g) = Len(s) - 1
    BY HeadTailProperties
  <2>3. DOMAIN g = 1..(Len(s) - 1)
    BY <2>2, LenProperties
  <2>4. Head(s) = s[1] /\ \A i \in 1..(Len(s) - 1) : g[i] = s[i + 1]
    BY <2>1
  <2> QED
    BY <2>1, <2>2, <2>3, <2>4
<1>2. Head(s) \in Messages(s) /\ Head(s) \in Message
  BY <1>1, HeadTailProperties DEF Messages
<1> HIDE DEF g
<1>3. ASSUME NoDup(s) PROVE Messages(g) = Messages(s) \ {Head(s)} /\ NoDup(g)
  <2>1. \A i \in 1..Len(s) : s[i] = s[1] => i = 1
    BY <1>1, <1>3 DEF NoDup
  <2>2. NoDup(g)
    <3> SUFFICES ASSUME NEW i \in DOMAIN g, NEW j \in DOMAIN g, g[i] = g[j] PROVE i = j
      BY DEF NoDup
    <3>1. /\ i \in Int /\ j \in Int
          /\ i + 1 \in DOMAIN s /\ j + 1 \in DOMAIN s /\ s[i + 1] = s[j + 1]
      BY <1>1
    <3>2. i + 1 = j + 1
      BY <1>3, <3>1 DEF NoDup
    <3> QED
      BY <3>1, <3>2
  <2>3. \A i \in 1..(Len(s) - 1) : g[i] \in Messages(s) /\ g[i] # s[1]
    BY <1>1, <2>1 DEF Messages
  <2>4. \A i \in 1..Len(s) : s[i] # s[1] => i - 1 \in 1..(Len(s) - 1) /\ g[i - 1] = s[i]
    BY <1>1
  <2>5. \A i \in 1..Len(s) : s[i] # s[1] => s[i] \in Messages(g)
    BY <1>1, <2>4 DEF Messages
  <2> QED
    BY <1>1, <2>2, <2>3, <2>5 DEF Messages
<1> QED
  BY <1>1, <1>2, <1>3 DEF g

LEMMA SingletonMessages ==
  ASSUME NEW m \in Message
  PROVE  /\ <<m>> \in Seq(Message) /\ Messages(<<m>>) = {m} /\ NoDup(<<m>>)
         /\ Append(<<>>, m) = <<m>>
<1>1. Append(<<>>, m) = <<>> \o <<m>> /\ <<m>> \in Seq(Message)
  BY AppendIsConcat, EmptySeq
<1>2. Append(<<>>, m) = <<m>>
  BY <1>1, ConcatEmptySeq
<1> QED
  BY <1>1, <1>2 DEF Messages, NoDup

\* The queue of MessageQueue and the batch a push returns: the new message goes to
\* the end of the batch under construction, is the last of the batch returned, or
\* begins the next one.
LEMMA PushOutcome ==
  ASSUME NEW q \in QueueType, NEW m \in Message
  PROVE  LET b == MQ!Push(q, m).batch
             r == MQ!Push(q, m).queue
         IN  /\ r \in QueueType /\ b \in Seq(Message)
             /\ \/ b = <<>> /\ r.pending = Append(q.pending, m)
                \/ b = Append(q.pending, m) /\ r.pending = <<>>
                \/ b = q.pending /\ r.pending = <<m>>
<1> DEFINE before == IF MQ!Overflows(q, m) THEN MQ!Flush(q) ELSE [batch |-> <<>>, queue |-> q]
           after == MQ!Put(before.queue, m)
<1>1. q.pending \in Seq(Message) /\ q.bytes \in Nat /\ JsonLen[m] \in Nat
  BY LengthAssumption DEF QueueType
<1>2. MQ!EmptyQueue \in QueueType /\ MQ!EmptyQueue.pending = <<>> /\ MQ!EmptyQueue.bytes = 0
  BY EmptySeq DEF MQ!EmptyQueue, QueueType
<1>3. /\ before.queue \in QueueType /\ before.batch \in Seq(Message)
      /\ \/ before.batch = <<>> /\ before.queue = q
         \/ before.batch = q.pending /\ before.queue.pending = <<>>
  BY <1>1, <1>2, EmptySeq DEF MQ!Flush
<1>4. MQ!Push(q, m) = IF before.batch = <<>> /\ Len(after.pending) = BatchSize
                      THEN MQ!Flush(after)
                      ELSE [batch |-> before.batch, queue |-> after]
  BY DEF MQ!Push
<1> HIDE DEF before
<1>5. /\ after.pending = Append(before.queue.pending, m)
      /\ after \in QueueType
  BY <1>1, <1>3, AppendProperties DEF MQ!Put, QueueType
<1> HIDE DEF after
<1>6. \/ before.batch = <<>> /\ after.pending = Append(q.pending, m)
      \/ before.batch = q.pending /\ after.pending = <<m>>
  BY <1>3, <1>5, SingletonMessages
<1>7. CASE before.batch = <<>> /\ Len(after.pending) = BatchSize
  <2>1. MQ!Push(q, m).batch = after.pending /\ MQ!Push(q, m).queue = MQ!EmptyQueue
    BY <1>4, <1>7 DEF MQ!Flush
  <2>2. after.pending \in Seq(Message)
    BY <1>5 DEF QueueType
  <2>3. CASE before.batch = q.pending /\ after.pending = <<m>>
    <3>1. q.pending = <<>> /\ Append(q.pending, m) = <<m>>
      BY <1>7, <2>3, SingletonMessages
    <3> QED
      BY <1>2, <2>1, <2>2, <2>3, <3>1
  <2> QED
    BY <1>2, <1>6, <2>1, <2>2, <2>3
<1>8. CASE ~(before.batch = <<>> /\ Len(after.pending) = BatchSize)
  <2>1. MQ!Push(q, m).batch = before.batch /\ MQ!Push(q, m).queue = after
    BY <1>4, <1>8
  <2> QED
    BY <1>3, <1>5, <1>6, <2>1
<1> QED
  BY <1>7, <1>8

-------------------------------------------------------------------------------
(* The parts of the type invariant, and the initial state.                 *)

LEMMA TypeParts == TypeOK <=> TypeInv /\ exSize \in Nat /\ wg \in Nat
<1>1. TypeOK <=> /\ ch \in Seq(Message)
                 /\ TypeControl
                 /\ mq \in QueueType
                 /\ outbox \in Seq(Message)
                 /\ exQueue \in Seq(Seq(Message)) /\ Len(exQueue) <= 1
                 /\ exSize \in Nat /\ wg \in Nat
                 /\ TypeTasks
                 /\ TypeHistory
  BY Zenon DEF TypeOK, TypeControl, TypeTasks, TypeHistory, QueueType
<1> QED
  BY <1>1, Zenon DEF TypeInv, TypeBuffers

LEMMA InitInv == Init => IInv
<1> SUFFICES ASSUME Init PROVE IInv
  OBVIOUS
<1> USE DEF Init
<1>1. TypeInv
  <2>1. TypeControl /\ TypeTasks
    BY DEF TypeControl, TypeTasks
  <2>2. TypeBuffers
    BY EmptySeq DEF TypeBuffers, QueueType, MQ!EmptyQueue
  <2>3. TypeHistory
    BY EmptySeq DEF TypeHistory
  <2> QED
    BY <2>1, <2>2, <2>3 DEF TypeInv
<1>2. ControlInv
  BY DEF ControlInv, OnceInv, FlagInv, ResultInv, Accepted
<1>3. PhaseInv
  BY DEF PhaseInv, ClientClosed
<1>4. SlotsInv
  <2>1. {t \in tasks : t.pc # "released"} = {}
    OBVIOUS
  <2>2. Len(exQueue) = 0 /\ Cardinality({}) = 0 /\ IsFiniteSet({})
    BY EmptySeq, FS_EmptySet
  <2> QED
    BY <2>1, <2>2, LimitAssumption DEF SlotsInv, SlotsAccounted
<1>5. PlacesInv
  <2>1. mq.pending = <<>>
    BY DEF MQ!EmptyQueue
  <2>2. Queued = {} /\ Pending = {} /\ Cut = {} /\ Handed = {} /\ Waiting = {}
    BY <2>1, EmptyMessages DEF Queued, Pending, Cut, Handed, Waiting
  <2>3. BuffersInv
    BY <2>1, <2>2, EmptyMessages DEF BuffersInv
  <2> QED
    BY <2>2, <2>3 DEF PlacesInv, WaitingInv, TaskInv, TasksDisjoint, VerdictInv, PlacedInv, Accepted
<1> QED
  BY <1>1, <1>2, <1>3, <1>4, <1>5 DEF IInv

-------------------------------------------------------------------------------
(* The calls of Enqueue and Close and the queue's Once.                    *)

LEMMA ControlFrame ==
  ASSUME TypeControl, ControlInv, UNCHANGED controlVars,
         phase' \in {"running", "closingQueue", "draining", "flushed", "waiting", "exited"}
  PROVE  TypeControl' /\ ControlInv'
  BY DEF TypeControl, ControlInv, OnceInv, FlagInv, ResultInv, Accepted, controlVars, appVars

\* A step of the queue's Close by anybody who may call it.
LEMMA CloseStep ==
  ASSUME TypeControl, ControlInv, NEW c \in QueueClosers, Q!Close(c), UNCHANGED appVars,
         quit \/ c \in AppClosers,
         phase' \in {"running", "closingQueue", "draining", "flushed", "waiting", "exited"}
  PROVE  TypeControl' /\ ControlInv'
<1> USE DEF Q!callVars, Q!closeVars, Q!receiveVars, appVars
<1>1. /\ closer' \in [QueueClosers -> {"idle", "stored", "returned"}]
      /\ closer'[c] \in {"stored", "returned"}
      /\ \A d \in QueueClosers : d # c => closer'[d] = closer[d]
      /\ once' \in {"fresh", "running", "done"}
      /\ chClosed' \in BOOLEAN /\ closed' \in BOOLEAN
      /\ call' = call
  BY DEF TypeControl, Q!Close, Q!CloseStore, Q!CloseChannel, Q!CloseAgain
<1>2. TypeControl'
  BY <1>1 DEF TypeControl
<1>3. OnceInv'
  <2>1. CASE Q!CloseStore(c)
    BY <1>1, <2>1 DEF TypeControl, ControlInv, OnceInv, Q!CloseStore
  <2>2. CASE Q!CloseChannel(c)
    <3>1. \A d \in QueueClosers : d # c => closer'[d] # "stored"
      BY <1>1, <2>2 DEF ControlInv, OnceInv, Q!CloseChannel
    <3>2. closer'[c] = "returned" /\ once' = "done" /\ chClosed' /\ closed'
      BY <1>1, <2>2 DEF TypeControl, ControlInv, OnceInv, Q!CloseChannel
    <3> QED
      BY <1>1, <3>1, <3>2 DEF OnceInv
  <2>3. CASE Q!CloseAgain(c)
    BY <1>1, <2>3 DEF TypeControl, ControlInv, OnceInv, Q!CloseAgain
  <2> QED
    BY <2>1, <2>2, <2>3 DEF Q!Close
<1>4. quit' = quit /\ result' = result /\ (closed => closed')
  BY DEF TypeControl, Q!Close, Q!CloseStore, Q!CloseChannel, Q!CloseAgain
<1>5. quit' \/ \E d \in AppClosers : closer'[d] # "idle"
  BY <1>1, <1>4
<1>6. FlagInv'
  BY <1>1, <1>4, <1>5 DEF ControlInv, FlagInv
<1>7. ResultInv'
  BY <1>1, <1>4, <1>5 DEF ControlInv, ResultInv, Accepted
<1> QED
  BY <1>2, <1>3, <1>6, <1>7 DEF ControlInv

\* A step of the queue's Enqueue for message m, which has not returned.
LEMMA CallStep ==
  ASSUME TypeControl, ControlInv, NEW m \in Message,
         EnqueueLoad(m) \/ EnqueueSend(m)
  PROVE  TypeControl' /\ ControlInv'
<1> USE DEF Q!callVars, Q!closeVars, Q!receiveVars, appVars, loopVars
<1>1. /\ UNCHANGED <<chClosed, closed, once, closer, result, closeCall, quit, dispatcherClosed, phase>>
      /\ call[m] \in {"idle", "sending"}
      /\ Kind[m] = "valid"
      /\ \E v \in {"sending", "nil", "ErrQueueClosed"} :
           /\ call' = [call EXCEPT ![m] = v]
           /\ v = "ErrQueueClosed" => closed
  BY DEF TypeControl, ControlInv, OnceInv, ResultInv, EnqueueLoad, EnqueueSend,
         Q!Load, Q!Send, Q!EnqueueRecover
<1>2. TypeControl'
  BY <1>1 DEF TypeControl
<1>3. OnceInv' /\ FlagInv'
  BY <1>1 DEF TypeControl, ControlInv, OnceInv, FlagInv
<1>4. ResultInv'
  BY <1>1 DEF TypeControl, ControlInv, ResultInv, Accepted
<1> QED
  BY <1>2, <1>3, <1>4 DEF ControlInv

\* Steps that touch neither the calls nor the queue's Once.
LoopMoves == \/ ReceiveMessage \/ ReceiveClosed \/ Tick \/ Quit
             \/ DrainEnd \/ Submit \/ Refuse \/ CloseExecutor \/ Exit

LEMMA LoopMovesFrame == LoopMoves => UNCHANGED controlVars
  BY DEF LoopMoves, ReceiveMessage, ReceiveClosed, Tick, Quit, DrainEnd, Submit, Refuse,
         CloseExecutor, Exit, Q!Receive, Q!closeVars, vars, queueVars, appVars, controlVars

LEMMA TaskStepFrame ==
  ASSUME NEW t \in tasks, TaskStep(t)
  PROVE  UNCHANGED <<queueVars, appVars, loopVars, exQueue>>
  BY DEF TaskStep, SendSucceeds, SendFails, SendPanics, RetryTimer, RetryQuit, WgDone,
         ExecutorDone

LEMMA PhaseType ==
  ASSUME TypeControl, [Next]_vars
  PROVE  phase' \in {"running", "closingQueue", "draining", "flushed", "waiting", "exited"}
<1> USE DEF TypeControl, loopVars
<1>1. ASSUME NEW m \in Message, Reject(m) \/ EnqueueLoad(m) \/ EnqueueSend(m) \/ EnqueueReturn(m)
      PROVE  phase' = phase
  BY <1>1 DEF Reject, EnqueueLoad, EnqueueSend, EnqueueReturn
<1>2. ASSUME NEW c \in Closers, CloseQuit(c) \/ CloseAgain(c) \/ CloseFinish(c)
      PROVE  phase' = phase
  BY <1>2 DEF CloseQuit, CloseAgain, CloseFinish
<1>3. ASSUME NEW c \in AppClosers, AppCloseQueue(c) PROVE phase' = phase
  BY <1>3 DEF AppCloseQueue
<1>4. CASE LoopMoves
  BY <1>4 DEF LoopMoves, ReceiveMessage, ReceiveClosed, Tick, Quit, DrainEnd, Submit, Refuse,
              CloseExecutor, Exit, vars
<1>5. CASE CloseQueue
  BY <1>5 DEF CloseQueue
<1>6. CASE Forward \/ \E t \in tasks : TaskStep(t)
  BY <1>6, TaskStepFrame DEF Forward
<1>7. CASE Terminated \/ UNCHANGED vars
  BY <1>7 DEF Terminated, vars
<1> QED
  BY <1>1, <1>2, <1>3, <1>4, <1>5, <1>6, <1>7 DEF Next, LoopStep, LoopMoves

LEMMA ControlStep ==
  ASSUME TypeControl, ControlInv, PhaseInv, [Next]_vars
  PROVE  TypeControl' /\ ControlInv'
<1>0. phase' \in {"running", "closingQueue", "draining", "flushed", "waiting", "exited"}
  BY PhaseType
<1>1. ASSUME NEW m \in Message, Reject(m) PROVE TypeControl' /\ ControlInv'
  <2>1. /\ result' \in [Message -> {"none", "nil", "ErrClosed", "ErrQueueClosed",
                                    "validation error", "custom type error", "panic"}]
        /\ result'[m] \in {"validation error", "custom type error", "panic"}
        /\ \A n \in Message : n # m => result'[n] = result[n]
        /\ Kind[m] # "valid"
    BY <1>1, KindAssumption DEF TypeControl, Reject, RejectionOf, Kinds
  <2>2. UNCHANGED <<chClosed, closed, once, call, closer, closeCall, quit, dispatcherClosed>>
    BY <1>1 DEF Reject, queueVars
  <2>3. TypeControl'
    BY <1>0, <2>1, <2>2 DEF TypeControl
  <2>4. ControlInv'
    BY <2>1, <2>2 DEF ControlInv, OnceInv, FlagInv, ResultInv, Accepted
  <2> QED
    BY <2>3, <2>4
<1>2. ASSUME NEW m \in Message, EnqueueLoad(m) \/ EnqueueSend(m)
      PROVE  TypeControl' /\ ControlInv'
  BY <1>2, CallStep
<1>3. ASSUME NEW m \in Message, EnqueueReturn(m) PROVE TypeControl' /\ ControlInv'
  <2>1. UNCHANGED <<chClosed, closed, once, call, closer, closeCall, quit, dispatcherClosed>>
    BY <1>3 DEF EnqueueReturn, queueVars
  <2>2. \/ call[m] = "nil" /\ result' = [result EXCEPT ![m] = "nil"]
        \/ call[m] = "ErrQueueClosed" /\ closed /\ result' = [result EXCEPT ![m] = "ErrClosed"]
    BY <1>3 DEF EnqueueReturn, Q!Results, TypeControl, ControlInv, FlagInv
  <2>3. TypeControl'
    BY <1>0, <2>1, <2>2 DEF TypeControl
  <2>4. OnceInv' /\ FlagInv'
    BY <2>1 DEF ControlInv, OnceInv, FlagInv
  <2>5. /\ \A n \in Message : n # m => result'[n] = result[n]
        /\ \/ call[m] = "nil" /\ result'[m] = "nil"
           \/ /\ call[m] = "ErrQueueClosed" /\ result'[m] = "ErrClosed"
              /\ quit \/ \E c \in AppClosers : closer[c] # "idle"
    BY <2>2 DEF TypeControl, ControlInv, FlagInv
  <2>6. ResultInv'
    BY <2>1, <2>5 DEF ControlInv, ResultInv, Accepted
  <2> QED
    BY <2>3, <2>4, <2>6 DEF ControlInv
<1>4. ASSUME NEW c \in Closers, CloseQuit(c) \/ CloseAgain(c) \/ CloseFinish(c)
      PROVE  TypeControl' /\ ControlInv'
  <2>1. /\ UNCHANGED <<chClosed, closed, once, call, closer, result>>
        /\ \E v \in {"waiting", "nil", "ErrClosed"} : closeCall' = [closeCall EXCEPT ![c] = v]
        /\ quit' \in BOOLEAN /\ dispatcherClosed' \in BOOLEAN
        /\ quit => quit'
    BY <1>4 DEF TypeControl, CloseQuit, CloseAgain, CloseFinish, queueVars
  <2>2. TypeControl'
    BY <1>0, <2>1 DEF TypeControl
  <2>3. ControlInv'
    BY <2>1 DEF ControlInv, OnceInv, FlagInv, ResultInv, Accepted
  <2> QED
    BY <2>2, <2>3
<1>5. ASSUME NEW c \in AppClosers, AppCloseQueue(c) PROVE TypeControl' /\ ControlInv'
  BY <1>0, <1>5, CloseStep DEF AppCloseQueue, QueueClosers
<1>6. CASE CloseQueue
  <2>1. quit
    BY <1>6 DEF CloseQueue, PhaseInv
  <2> QED
    BY <1>0, <1>6, <2>1, CloseStep DEF CloseQueue, QueueClosers
<1>7. CASE LoopMoves
  BY <1>0, <1>7, LoopMovesFrame, ControlFrame
<1>8. CASE Forward \/ \E t \in tasks : TaskStep(t)
  <2>1. UNCHANGED controlVars
    BY <1>8, TaskStepFrame DEF Forward, controlVars, queueVars
  <2> QED
    BY <1>0, <2>1, ControlFrame
<1>9. CASE Terminated \/ UNCHANGED vars
  <2>1. UNCHANGED controlVars
    BY <1>9 DEF Terminated, vars, controlVars, queueVars
  <2> QED
    BY <1>0, <2>1, ControlFrame
<1> QED
  BY <1>1, <1>2, <1>3, <1>4, <1>5, <1>6, <1>7, <1>8, <1>9 DEF Next, LoopStep, LoopMoves

-------------------------------------------------------------------------------
(* The types of the buffers, the sends and the histories.                  *)

LEMMA NotifyType ==
  ASSUME TypeHistory, NEW S, NEW v \in Verdicts, Notify(S, v)
  PROVE  /\ notified' \in [Message -> Seq(Verdicts)]
         /\ \A m \in Message : notified'[m] = IF m \in S THEN Append(notified[m], v) ELSE notified[m]
<1>1. \A m \in Message : Append(notified[m], v) \in Seq(Verdicts)
  BY AppendProperties DEF TypeHistory
<1> QED
  BY <1>1 DEF TypeHistory, Notify

LEMMA CountSendType ==
  ASSUME TypeHistory, NEW S, CountSend(S)
  PROVE  /\ sent' \in [Message -> Nat]
         /\ \A m \in Message : sent'[m] = IF m \in S THEN sent[m] + 1 ELSE sent[m]
  BY DEF TypeHistory, CountSend

LEMMA FlushTypes ==
  ASSUME TypeBuffers
  PROVE  /\ MQ!Flush(mq).queue \in QueueType /\ MQ!Flush(mq).queue.pending = <<>>
         /\ MQ!Flush(mq).batch = mq.pending
  BY EmptySeq DEF TypeBuffers, QueueType, MQ!Flush, MQ!EmptyQueue

\* What the loop does with a message it receives.
LEMMA ReceiveEffect ==
  ASSUME TypeBuffers, TypeHistory, ReceiveMessage
  PROVE  /\ ch # <<>> /\ ch' = Tail(ch)
         /\ UNCHANGED <<controlVars, phase, execVars, sent>>
         /\ mq' \in QueueType /\ outbox' \in Seq(Message)
         /\ \/ /\ UNCHANGED notified
               /\ \/ outbox' = <<>> /\ mq'.pending = Append(mq.pending, Head(ch))
                  \/ outbox' = Append(mq.pending, Head(ch)) /\ mq'.pending = <<>>
                  \/ outbox' = mq.pending /\ mq'.pending = <<Head(ch)>>
            \/ /\ UNCHANGED <<mq, outbox>>
               /\ \E v \in {"marshalError", "ErrMessageTooBig"} : Notify({Head(ch)}, v)
<1> DEFINE m == Head(ch)
<1>1. ch # <<>> /\ ch' = Tail(ch) /\ UNCHANGED <<controlVars, phase, execVars>> /\ Push(m)
  BY DEF ReceiveMessage, Q!Receive, Q!closeVars, controlVars
<1>2. m \in Message /\ mq \in QueueType /\ outbox \in Seq(Message)
  BY <1>1, MessagesTail DEF TypeBuffers
<1> HIDE DEF m
<1>3. CASE MQ!MakeMessage(m) = "ok"
  <2>1. /\ mq' = MQ!Push(mq, m).queue /\ outbox' = MQ!Push(mq, m).batch
        /\ UNCHANGED <<notified, sent>>
    BY <1>1, <1>3 DEF Push, outVars
  <2> QED
    BY <1>1, <1>2, <2>1, PushOutcome DEF m
<1>4. CASE MQ!MakeMessage(m) # "ok"
  <2>1. MQ!MakeMessage(m) \in {"marshalError", "ErrMessageTooBig"}
    BY <1>4 DEF MQ!MakeMessage
  <2>2. Notify({m}, MQ!MakeMessage(m)) /\ UNCHANGED <<mq, outbox, sent>>
    BY <1>1, <1>4 DEF Push
  <2> QED
    BY <1>1, <1>2, <2>1, <2>2 DEF m
<1> QED
  BY <1>3, <1>4

LEMMA BuffersFrame ==
  ASSUME TypeBuffers, UNCHANGED <<ch, loopVars, exQueue>>
  PROVE  TypeBuffers'
  BY DEF TypeBuffers, loopVars

\* An executor queue that is not empty holds one batch, an empty one takes one.
LEMMA ExQueueOne ==
  ASSUME TypeBuffers
  PROVE  /\ exQueue # <<>> => /\ exQueue = <<Head(exQueue)>> /\ Head(exQueue) \in Seq(Message)
                              /\ Tail(exQueue) = <<>> /\ Len(exQueue) = 1
                              /\ Handed = Messages(Head(exQueue))
                              /\ Head(exQueue) = exQueue[1] /\ 1 \in DOMAIN exQueue
         /\ exQueue = <<>> => Handed = {}
         /\ Len(exQueue) < 1 <=> exQueue = <<>>
<1>1. exQueue \in Seq(Seq(Message)) /\ Len(exQueue) \in Nat /\ Len(exQueue) <= 1
  BY LenProperties DEF TypeBuffers
<1>2. ASSUME exQueue # <<>>
      PROVE  /\ exQueue = <<Head(exQueue)>> /\ Head(exQueue) \in Seq(Message)
             /\ Tail(exQueue) = <<>> /\ Len(exQueue) = 1
             /\ Handed = Messages(Head(exQueue))
             /\ Head(exQueue) = exQueue[1] /\ 1 \in DOMAIN exQueue
  <2>1. Len(exQueue) = 1
    <3>1. Len(exQueue) \in Nat \ {0}
      BY <1>1, <1>2, EmptySeq, Zenon
    <3>2. \A n \in Nat \ {0} : n <= 1 => n = 1
      OBVIOUS
    <3> QED
      BY <1>1, <3>1, <3>2, Zenon
  <2>2. /\ Head(exQueue) \in Seq(Message) /\ Head(exQueue) = exQueue[1]
        /\ DOMAIN exQueue = {1}
    BY <1>1, <1>2, <2>1, HeadTailProperties, LenProperties
  <2>3. Tail(exQueue) = <<>>
    <3>1. Tail(exQueue) \in Seq(Seq(Message)) /\ Len(Tail(exQueue)) = Len(exQueue) - 1
      BY <1>1, <1>2, HeadTailProperties
    <3>2. Tail(exQueue) # <<>> => Len(Tail(exQueue)) \in Nat \ {0}
      BY <3>1, EmptySeq, Zenon
    <3> QED
      BY <2>1, <3>1, <3>2
  <2>4. exQueue = <<Head(exQueue)>>
    BY <1>1, <2>1, <2>2, SeqEqual
  <2>5. Handed = Messages(Head(exQueue))
    BY <2>2 DEF Handed
  <2> QED
    BY <2>1, <2>2, <2>3, <2>4, <2>5
<1>3. exQueue = <<>> => Handed = {} /\ Len(exQueue) = 0
  BY EmptySeq DEF Handed
<1> QED
  BY <1>1, <1>2, <1>3

LEMMA BuffersTypeStep ==
  ASSUME TypeBuffers, TypeHistory, [Next]_vars
  PROVE  TypeBuffers'
<1> USE DEF loopVars, execVars, queueVars
<1>1. ASSUME NEW m \in Message, Reject(m) \/ EnqueueLoad(m) \/ EnqueueReturn(m)
      PROVE  TypeBuffers'
  BY <1>1, BuffersFrame DEF Reject, EnqueueLoad, EnqueueReturn, Q!Load
<1>2. ASSUME NEW m \in Message, EnqueueSend(m) PROVE TypeBuffers'
  <2>1. ch' = Append(ch, m) \/ ch' = ch
    BY <1>2 DEF EnqueueSend, Q!Send, Q!EnqueueRecover
  <2>2. Append(ch, m) \in Seq(Message)
    BY AppendProperties DEF TypeBuffers
  <2> QED
    BY <1>2, <2>1, <2>2 DEF TypeBuffers, EnqueueSend
<1>3. ASSUME NEW c \in Closers, CloseQuit(c) \/ CloseAgain(c) \/ CloseFinish(c)
      PROVE  TypeBuffers'
  BY <1>3, BuffersFrame DEF CloseQuit, CloseAgain, CloseFinish
<1>4. UNCHANGED vars => TypeBuffers'
  BY BuffersFrame DEF vars
<1>5. CASE CloseQueue \/ \E c \in AppClosers : AppCloseQueue(c)
  BY <1>5 DEF TypeBuffers, CloseQueue, AppCloseQueue, Q!Close, Q!CloseStore, Q!CloseChannel,
              Q!CloseAgain, Q!callVars
<1>6. CASE ReceiveMessage
  <2>1. ch' \in Seq(Message)
    BY <1>6, ReceiveEffect, MessagesTail DEF TypeBuffers
  <2> QED
    BY <1>6, <2>1, ReceiveEffect DEF TypeBuffers
<1>7. CASE Tick \/ DrainEnd
  BY <1>7, FlushTypes DEF TypeBuffers, QueueType, Tick, DrainEnd, LoopFlush
<1>8. CASE Submit
  <2>1. exQueue = <<>> /\ exQueue' = Append(exQueue, outbox) /\ outbox \in Seq(Message)
    BY <1>8, ExQueueOne DEF Submit, TypeBuffers
  <2>2. exQueue' \in Seq(Seq(Message)) /\ Len(exQueue') = 1
    BY <2>1, AppendProperties, EmptySeq DEF TypeBuffers
  <2> QED
    BY <1>8, <2>2, EmptySeq DEF Submit, TypeBuffers
<1>9. CASE Refuse
  BY <1>9, EmptySeq DEF Refuse, TypeBuffers
<1>10. CASE Quit \/ CloseExecutor \/ Exit
  BY <1>10 DEF TypeBuffers, Quit, CloseExecutor, Exit
<1>11. CASE Forward
  <2>1. exQueue' = <<>>
    BY <1>11, ExQueueOne DEF Forward
  <2> QED
    BY <1>11, <2>1, EmptySeq DEF Forward, TypeBuffers
<1>12. ASSUME NEW t \in tasks, TaskStep(t) PROVE TypeBuffers'
  BY <1>12, TaskStepFrame, BuffersFrame
<1> QED
  BY <1>1, <1>2, <1>3, <1>4, <1>5, <1>6, <1>7, <1>8, <1>9, <1>10, <1>11, <1>12
     DEF Next, LoopStep, ReceiveClosed, Terminated

\* A send goes on: its goroutine takes the next step with the same batch.
GoesOn(t, u) == Becomes(t, u) /\ u \in Task /\ u.msgs = t.msgs

LEMMA TaskEffect ==
  ASSUME TypeTasks, NEW t \in tasks, TaskStep(t)
  PROVE  \/ /\ SendSucceeds(t) /\ GoesOn(t, At(t, "finished")) /\ At(t, "finished").pc = "finished"
         \/ /\ SendFails(t) /\ GoesOn(t, At(t, "retrying"))
            /\ At(t, "retrying").pc = "retrying" /\ At(t, "retrying").attempt = t.attempt
         \/ /\ SendPanics(t) /\ GoesOn(t, At(t, "finished")) /\ At(t, "finished").pc = "finished"
         \/ /\ RetryTimer(t) /\ t.attempt + 1 # Attempts /\ UNCHANGED notified
            /\ \E u : /\ GoesOn(t, u) /\ u.pc = "sending" /\ u.attempt = t.attempt + 1
         \/ /\ RetryTimer(t) /\ t.attempt + 1 = Attempts /\ GoesOn(t, At(t, "finished"))
            /\ At(t, "finished").pc = "finished" /\ Notify(Messages(t.msgs), "exhausted")
         \/ /\ RetryQuit(t) /\ GoesOn(t, At(t, "finished")) /\ At(t, "finished").pc = "finished"
         \/ /\ WgDone(t) /\ GoesOn(t, At(t, "released")) /\ At(t, "released").pc = "released"
         \/ ExecutorDone(t)
<1>1. t \in Task
  BY DEF TypeTasks
<1>2. ASSUME NEW pc \in {"finished", "retrying", "released"}
      PROVE  /\ At(t, pc) \in Task /\ At(t, pc).msgs = t.msgs
             /\ At(t, pc).pc = pc /\ At(t, pc).attempt = t.attempt
  BY <1>1 DEF Task, At
<1>3. CASE SendSucceeds(t)
  BY <1>2, <1>3 DEF SendSucceeds, GoesOn
<1>4. CASE SendFails(t)
  BY <1>2, <1>4 DEF SendFails, GoesOn
<1>5. CASE SendPanics(t)
  BY <1>2, <1>5 DEF SendPanics, GoesOn
<1>6. CASE RetryTimer(t)
  <2>1. CASE t.attempt + 1 # Attempts
    <3> DEFINE u == [At(t, "sending") EXCEPT !.attempt = t.attempt + 1]
    <3>1. t.attempt + 1 \in 0..Attempts - 1
      BY <1>1, <2>1, LimitAssumption DEF Task
    <3>2. u \in Task /\ u.msgs = t.msgs /\ u.pc = "sending" /\ u.attempt = t.attempt + 1
      BY <1>1, <3>1 DEF Task, At
    <3>3. Becomes(t, u) /\ UNCHANGED notified
      BY <1>6, <2>1 DEF RetryTimer
    <3> HIDE DEF u
    <3> QED
      BY <1>6, <2>1, <3>2, <3>3 DEF GoesOn
  <2>2. CASE t.attempt + 1 = Attempts
    BY <1>2, <1>6, <2>2 DEF RetryTimer, GoesOn
  <2> QED
    BY <2>1, <2>2
<1>7. CASE RetryQuit(t)
  BY <1>2, <1>7 DEF RetryQuit, GoesOn
<1>8. CASE WgDone(t)
  BY <1>2, <1>8 DEF WgDone, GoesOn
<1> QED
  BY <1>3, <1>4, <1>5, <1>6, <1>7, <1>8 DEF TaskStep

\* Every step of a send but the last goes on, and the last removes it.
LEMMA TaskGoesOn ==
  ASSUME TypeTasks, NEW t \in tasks, TaskStep(t)
  PROVE  \/ \E u : GoesOn(t, u)
         \/ tasks' = tasks \ {t}
  BY TaskEffect DEF ExecutorDone

\* The batch the forwarder starts a goroutine for.
Started == [msgs |-> Head(exQueue), attempt |-> 0, pc |-> "sending"]

LEMMA ForwardEffect ==
  ASSUME TypeBuffers, Forward
  PROVE  /\ tasks' = tasks \union {Started} /\ Started \in Task
         /\ Started.msgs = Head(exQueue) /\ Started.attempt = 0 /\ Started.pc = "sending"
         /\ exQueue # <<>> /\ exQueue' = <<>>
         /\ UNCHANGED <<queueVars, appVars, loopVars, exSize, wg, outVars>>
<1>1. Head(exQueue) \in Seq(Message) /\ exQueue # <<>> /\ exQueue' = <<>>
  BY ExQueueOne DEF Forward
<1>2. 0 \in 0..Attempts - 1
  BY LimitAssumption
<1>3. Started \in Task
  BY <1>1, <1>2 DEF Started, Task
<1> QED
  BY <1>1, <1>3 DEF Forward, Started

\* The steps that leave the sends and the histories alone.
QuietSteps ==
  \/ \E m \in Message : Reject(m) \/ EnqueueLoad(m) \/ EnqueueReturn(m)
  \/ \E m \in Message : EnqueueSend(m)
  \/ \E c \in Closers : CloseQuit(c) \/ CloseAgain(c) \/ CloseFinish(c)
  \/ \E c \in AppClosers : AppCloseQueue(c)
  \/ ReceiveClosed \/ Quit \/ CloseQueue \/ CloseExecutor \/ Exit
  \/ Tick \/ DrainEnd
  \/ Terminated \/ UNCHANGED vars

LEMMA QuietFrame == QuietSteps => UNCHANGED <<execVars, outVars>>
  BY DEF QuietSteps, Reject, EnqueueLoad, EnqueueReturn, EnqueueSend, CloseQuit, CloseAgain,
         CloseFinish, AppCloseQueue, ReceiveClosed, Quit, CloseQueue, CloseExecutor, Exit,
         Tick, DrainEnd, Terminated, vars

LEMMA NextSteps ==
  [Next]_vars => \/ QuietSteps \/ ReceiveMessage \/ Submit \/ Refuse \/ Forward
                 \/ \E t \in tasks : TaskStep(t)
  BY DEF Next, LoopStep, QuietSteps

LEMMA TasksTypeStep ==
  ASSUME TypeBuffers, TypeTasks, TypeHistory, [Next]_vars
  PROVE  TypeTasks'
<1>1. CASE UNCHANGED tasks
  BY <1>1 DEF TypeTasks, Task
<1>2. CASE Forward
  BY <1>2, ForwardEffect DEF TypeTasks
<1>3. ASSUME NEW t \in tasks, TaskStep(t) PROVE TypeTasks'
  BY <1>3, TaskGoesOn DEF TypeTasks, GoesOn, Becomes
<1>4. QuietSteps \/ ReceiveMessage \/ Submit \/ Refuse => UNCHANGED tasks
  BY QuietFrame, ReceiveEffect DEF Submit, Refuse, execVars
<1> QED
  BY <1>1, <1>2, <1>3, <1>4, NextSteps

LEMMA HistoryTypeStep ==
  ASSUME TypeBuffers, TypeTasks, TypeHistory, [Next]_vars
  PROVE  TypeHistory'
<1>0. /\ {"success", "exhausted", "dropped at close", "ErrTooManyRequests",
          "marshalError", "ErrMessageTooBig"} \subseteq Verdicts
      /\ UNCHANGED notified => notified' \in [Message -> Seq(Verdicts)]
      /\ UNCHANGED sent => sent' \in [Message -> Nat]
  BY DEF Verdicts, TypeHistory
<1>1. ASSUME NEW S, NEW v \in Verdicts, Notify(S, v) PROVE notified' \in [Message -> Seq(Verdicts)]
  BY <1>1, NotifyType
<1>2. ASSUME NEW S, CountSend(S) PROVE sent' \in [Message -> Nat]
  BY <1>2, CountSendType
<1>3. CASE QuietSteps
  BY <1>0, <1>3, QuietFrame DEF outVars, TypeHistory
<1>4. CASE ReceiveMessage
  <2>1. UNCHANGED sent
    BY <1>4, ReceiveEffect
  <2>2. UNCHANGED notified \/ \E v \in Verdicts : Notify({Head(ch)}, v)
    BY <1>0, <1>4, ReceiveEffect
  <2> QED
    BY <1>0, <1>1, <2>1, <2>2 DEF TypeHistory
<1>5. CASE Submit
  BY <1>0, <1>5 DEF Submit, outVars, TypeHistory
<1>6. CASE Refuse
  BY <1>0, <1>1, <1>6 DEF Refuse, TypeHistory
<1>7. CASE Forward
  BY <1>0, <1>7 DEF Forward, outVars, TypeHistory
<1>8. ASSUME NEW t \in tasks, TaskStep(t) PROVE TypeHistory'
  <2>1. UNCHANGED sent \/ CountSend(Messages(t.msgs))
    BY <1>8 DEF TaskStep, SendSucceeds, SendFails, SendPanics, RetryTimer, RetryQuit,
                WgDone, ExecutorDone, outVars
  <2>2. \/ UNCHANGED notified
        \/ \E v \in Verdicts : Notify(Messages(t.msgs), v)
    BY <1>0, <1>8 DEF TaskStep, SendSucceeds, SendFails, SendPanics, RetryTimer, RetryQuit,
                      WgDone, ExecutorDone, outVars
  <2> QED
    BY <1>0, <1>1, <1>2, <2>1, <2>2 DEF TypeHistory
<1> QED
  BY <1>3, <1>4, <1>5, <1>6, <1>7, <1>8, NextSteps

-------------------------------------------------------------------------------
(* The WaitGroup and the executor's count.                                 *)

\* The counters are natural numbers, and a send in progress is counted.
LEMMA Counts ==
  ASSUME TypeBuffers, SlotsInv
  PROVE  /\ IsFiniteSet(tasks) /\ IsFiniteSet(Live)
         /\ Cardinality(tasks) \in Nat /\ Cardinality(Live) \in Nat /\ Len(exQueue) \in Nat
         /\ wg = Len(exQueue) + Cardinality(Live)
         /\ exSize = Len(exQueue) + Cardinality(tasks)
         /\ exSize \in Nat /\ wg \in Nat /\ exSize <= MaxConcurrent
         /\ MaxConcurrent \in Nat
<1>1. IsFiniteSet(tasks) /\ Live \subseteq tasks
  BY DEF SlotsInv, Live
<1>2. /\ IsFiniteSet(Live)
      /\ Cardinality(tasks) \in Nat /\ Cardinality(Live) \in Nat
  BY <1>1, FS_Subset, FS_CardinalityType
<1>3. Len(exQueue) \in Nat
  BY LenProperties DEF TypeBuffers
<1>4. /\ wg = Len(exQueue) + Cardinality(Live)
      /\ exSize = Len(exQueue) + Cardinality(tasks) /\ exSize <= MaxConcurrent
  BY DEF SlotsInv, SlotsAccounted, Live
<1> QED
  BY <1>1, <1>2, <1>3, <1>4, LimitAssumption

\* A WaitGroup at zero leaves nothing to send.
LEMMA ZeroMeansIdle ==
  ASSUME TypeBuffers, SlotsInv, wg = 0
  PROVE  exQueue = <<>> /\ Live = {} /\ Unresolved = {}
<1>1. Len(exQueue) = 0 /\ Cardinality(Live) = 0
  BY Counts
<1>2. exQueue = <<>>
  BY <1>1, ExQueueOne
<1>3. Live = {}
  BY <1>1, Counts, FS_EmptySet
<1> QED
  BY <1>2, <1>3 DEF Live, Unresolved

\* A send that goes on is not confused with another.
LEMMA StaysApart ==
  ASSUME TypeTasks, TaskInv, TasksDisjoint, NEW t \in tasks, NEW u, GoesOn(t, u)
  PROVE  u \notin tasks \ {t}
<1>1. t.msgs \in Seq(Message) /\ t.msgs # <<>>
  BY DEF TypeTasks, Task, TaskInv
<1>2. Messages(t.msgs) # {}
  BY <1>1, NonEmptyMessages
<1> QED
  BY <1>2 DEF TasksDisjoint, GoesOn

LEMMA ReplaceCounts ==
  ASSUME TypeBuffers, TypeTasks, TaskInv, TasksDisjoint, SlotsInv,
         NEW t \in tasks, NEW u, GoesOn(t, u)
  PROVE  /\ IsFiniteSet(tasks') /\ Cardinality(tasks') = Cardinality(tasks)
         /\ t.pc # "released" /\ u.pc # "released" => Cardinality(Live') = Cardinality(Live)
         /\ t.pc # "released" /\ u.pc = "released" => Cardinality(Live') = Cardinality(Live) - 1
<1>1. u \notin tasks \ {t} /\ tasks' = (tasks \ {t}) \union {u}
  BY StaysApart DEF GoesOn, Becomes
<1>2. /\ IsFiniteSet(tasks \ {t}) /\ Cardinality(tasks \ {t}) = Cardinality(tasks) - 1
      /\ Cardinality(tasks) \in Nat /\ Cardinality(Live) \in Nat
  BY Counts, FS_RemoveElement
<1>3. IsFiniteSet(tasks') /\ Cardinality(tasks') = Cardinality(tasks \ {t}) + 1
  BY <1>1, <1>2, FS_AddElement
<1>4. ASSUME t.pc # "released"
      PROVE  IsFiniteSet(Live \ {t}) /\ Cardinality(Live \ {t}) = Cardinality(Live) - 1
  <2>1. t \in Live
    BY <1>4 DEF Live
  <2> QED
    BY <2>1, Counts, FS_RemoveElement
<1>5. ASSUME t.pc # "released", u.pc # "released"
      PROVE  Cardinality(Live') = Cardinality(Live)
  <2>1. Live' = (Live \ {t}) \union {u} /\ u \notin Live \ {t}
    BY <1>1, <1>5 DEF Live
  <2>2. Cardinality(Live') = Cardinality(Live \ {t}) + 1
    BY <1>4, <1>5, <2>1, FS_AddElement
  <2> QED
    BY <1>2, <1>4, <1>5, <2>2
<1>6. ASSUME t.pc # "released", u.pc = "released"
      PROVE  Cardinality(Live') = Cardinality(Live) - 1
  <2>1. Live' = Live \ {t}
    BY <1>1, <1>6 DEF Live
  <2> QED
    BY <1>4, <1>6, <2>1
<1> QED
  BY <1>2, <1>3, <1>5, <1>6

LEMMA SlotsStep ==
  ASSUME TypeInv, SlotsInv, BuffersInv, TaskInv, TasksDisjoint, [Next]_vars
  PROVE  SlotsInv'
<1> USE DEF TypeInv
<1>1. ASSUME UNCHANGED execVars PROVE SlotsInv'
  BY <1>1 DEF execVars, SlotsInv, SlotsAccounted
<1>2. QuietSteps \/ ReceiveMessage \/ Refuse => UNCHANGED execVars
  BY QuietFrame, ReceiveEffect DEF Refuse
<1>3. CASE Submit
  <2>1. Len(exQueue') = Len(exQueue) + 1
    BY <1>3, AppendProperties DEF TypeBuffers, Submit
  <2>2. wg' = wg + 1 /\ exSize' = exSize + 1 /\ tasks' = tasks /\ Live' = Live
        /\ exSize # MaxConcurrent
    BY <1>3 DEF Submit, Live
  <2>3. /\ wg' = Len(exQueue') + Cardinality(Live')
        /\ exSize' = Len(exQueue') + Cardinality(tasks')
        /\ exSize' <= MaxConcurrent
    BY <2>1, <2>2, Counts
  <2> QED
    BY <2>2, <2>3 DEF SlotsInv, SlotsAccounted, Live
<1>4. CASE Forward
  <2>1. /\ tasks' = tasks \union {Started} /\ exQueue' = <<>> /\ UNCHANGED <<exSize, wg>>
        /\ exQueue # <<>> /\ Started.msgs = Head(exQueue) /\ Started.pc = "sending"
    BY <1>4, ForwardEffect
  <2>2. Len(exQueue) = 1 /\ Len(exQueue') = 0
    BY <2>1, ExQueueOne, EmptySeq
  <2>3. Messages(Started.msgs) # {} /\ Messages(Started.msgs) \subseteq Waiting
    BY <2>1, ExQueueOne, NonEmptyMessages DEF BuffersInv, Waiting
  <2>4. Started \notin tasks
    BY <2>3 DEF TaskInv
  <2>5. Live' = Live \union {Started} /\ Started \notin Live
    BY <2>1, <2>4 DEF Live
  <2>6. IsFiniteSet(tasks') /\ Cardinality(tasks') = Cardinality(tasks) + 1
    BY <2>1, <2>4, Counts, FS_AddElement
  <2>7. Cardinality(Live') = Cardinality(Live) + 1
    BY <2>5, Counts, FS_AddElement
  <2>8. /\ wg' = Len(exQueue') + Cardinality(Live')
        /\ exSize' = Len(exQueue') + Cardinality(tasks')
        /\ exSize' <= MaxConcurrent
    BY <2>1, <2>2, <2>6, <2>7, Counts
  <2> QED
    BY <2>6, <2>8 DEF SlotsInv, SlotsAccounted, Live
<1>5. ASSUME NEW t \in tasks, NEW u, GoesOn(t, u), UNCHANGED <<exQueue, exSize>>,
             t.pc # "released",
             \/ u.pc # "released" /\ wg' = wg
             \/ u.pc = "released" /\ wg' = wg - 1
      PROVE  SlotsInv'
  <2>1. IsFiniteSet(tasks') /\ Cardinality(tasks') = Cardinality(tasks)
    BY <1>5, ReplaceCounts
  <2>2. wg' - wg = Cardinality(Live') - Cardinality(Live)
    BY <1>5, ReplaceCounts, Counts
  <2>3. Cardinality(Live') \in Nat
    <3>1. IsFiniteSet(Live')
      BY <2>1, FS_Subset DEF Live
    <3> QED
      BY <3>1, FS_CardinalityType
  <2>4. /\ wg' = Len(exQueue') + Cardinality(Live')
        /\ exSize' = Len(exQueue') + Cardinality(tasks')
        /\ exSize' <= MaxConcurrent
    BY <1>5, <2>1, <2>2, <2>3, Counts
  <2> QED
    BY <2>1, <2>4 DEF SlotsInv, SlotsAccounted, Live
<1>6. ASSUME NEW t \in tasks, ExecutorDone(t) PROVE SlotsInv'
  <2>1. /\ tasks' = tasks \ {t} /\ exSize' = exSize - 1 /\ UNCHANGED <<exQueue, wg>>
        /\ t.pc = "released"
    BY <1>6 DEF ExecutorDone
  <2>2. Live' = Live
    BY <2>1 DEF Live
  <2>3. IsFiniteSet(tasks') /\ Cardinality(tasks') = Cardinality(tasks) - 1
    BY <2>1, Counts, FS_RemoveElement
  <2>4. /\ wg' = Len(exQueue') + Cardinality(Live')
        /\ exSize' = Len(exQueue') + Cardinality(tasks')
        /\ exSize' <= MaxConcurrent
    BY <2>1, <2>2, <2>3, Counts
  <2> QED
    BY <2>3, <2>4 DEF SlotsInv, SlotsAccounted, Live
<1>7. ASSUME NEW t \in tasks, TaskStep(t), ~ExecutorDone(t) PROVE SlotsInv'
  <2>1. /\ UNCHANGED <<exQueue, exSize>> /\ t.pc # "released"
        /\ WgDone(t) => wg' = wg - 1
        /\ ~WgDone(t) => wg' = wg
        /\ WgDone(t) => t.pc = "finished"
        /\ ~WgDone(t) => t.pc # "finished"
    BY <1>7 DEF TaskStep, SendSucceeds, SendFails, SendPanics, RetryTimer, RetryQuit, WgDone
  <2>2. \E u : GoesOn(t, u) /\ (u.pc = "released" <=> WgDone(t))
    BY <1>7, <2>1, TaskEffect DEF SendSucceeds, SendFails, SendPanics, RetryTimer, RetryQuit
  <2> QED
    BY <1>5, <2>1, <2>2
<1> QED
  BY <1>1, <1>2, <1>3, <1>4, <1>6, <1>7, NextSteps

-------------------------------------------------------------------------------
(* The phases of the shutdown.                                             *)

LEMMA PhaseStep ==
  ASSUME TypeInv, ControlInv, PhaseInv, SlotsInv, [Next]_vars, ControlInv', TypeControl'
  PROVE  PhaseInv'
<1> USE DEF PhaseInv, ClientClosed, queueVars, appVars, loopVars
<1>1. ASSUME UNCHANGED <<phase, quit, chClosed, ch, mq, outbox, dispatcherClosed, closeCall>>,
             phase = "exited" => wg' = wg
      PROVE  PhaseInv'
  BY <1>1
<1>2. ASSUME NEW m \in Message, Reject(m) \/ EnqueueLoad(m) \/ EnqueueReturn(m)
      PROVE  PhaseInv'
  BY <1>1, <1>2 DEF Reject, EnqueueLoad, EnqueueReturn, Q!Load, Q!closeVars, execVars
<1>3. ASSUME NEW m \in Message, EnqueueSend(m) PROVE PhaseInv'
  BY <1>3 DEF EnqueueSend, Q!Send, Q!EnqueueRecover, Q!closeVars, execVars
<1>4. ASSUME NEW c \in Closers, CloseQuit(c) \/ CloseAgain(c) \/ CloseFinish(c)
      PROVE  PhaseInv'
  <2>1. UNCHANGED <<phase, chClosed, ch, mq, outbox, wg>> /\ (quit => quit')
    BY <1>4 DEF CloseQuit, CloseAgain, CloseFinish, execVars
  <2>2. ASSUME dispatcherClosed' \/ \E d \in Closers : closeCall'[d] = "nil"
        PROVE  phase = "exited"
    <3>1. CASE CloseFinish(c)
      BY <3>1 DEF CloseFinish
    <3>2. CASE CloseQuit(c) \/ CloseAgain(c)
      <4>1. dispatcherClosed' = dispatcherClosed
        BY <3>2 DEF CloseQuit, CloseAgain
      <4>2. \E v \in {"waiting", "ErrClosed"} : closeCall' = [closeCall EXCEPT ![c] = v]
        BY <3>2 DEF CloseQuit, CloseAgain
      <4>3. \A d \in Closers : closeCall'[d] = "nil" => closeCall[d] = "nil"
        BY <4>2 DEF TypeInv, TypeControl
      <4> QED
        BY <2>2, <4>1, <4>3
    <3> QED
      BY <1>4, <3>1, <3>2
  <2> QED
    BY <2>1, <2>2
<1>5. ASSUME NEW c \in AppClosers, AppCloseQueue(c) PROVE PhaseInv'
  <2>1. UNCHANGED <<phase, quit, ch, mq, outbox, wg, dispatcherClosed, closeCall>>
    BY <1>5 DEF AppCloseQueue, Q!Close, Q!CloseStore, Q!CloseChannel, Q!CloseAgain,
                Q!callVars, execVars
  <2>2. chClosed => chClosed'
    BY <1>5 DEF AppCloseQueue, Q!Close, Q!CloseStore, Q!CloseChannel, Q!CloseAgain
  <2> QED
    BY <2>1, <2>2
<1>6. CASE CloseQueue
  <2>1. /\ UNCHANGED <<quit, ch, mq, outbox, wg, dispatcherClosed, closeCall>>
        /\ phase = "closingQueue" /\ phase' \in {"closingQueue", "draining"}
        /\ phase' = "draining" => closer'["loop"] = "returned"
    BY <1>6 DEF CloseQueue, Q!Close, Q!CloseStore, Q!CloseChannel, Q!CloseAgain,
                Q!callVars, execVars
  <2>2. closer'["loop"] = "returned" => chClosed'
    BY DEF ControlInv, OnceInv, QueueClosers
  <2> QED
    BY <2>1, <2>2
<1>7. CASE ReceiveMessage
  <2>1. /\ phase \in {"running", "draining"} /\ UNCHANGED <<controlVars, phase>>
    BY <1>7, ReceiveEffect DEF ReceiveMessage, TypeInv
  <2> QED
    BY <2>1 DEF controlVars
<1>8. CASE Tick \/ DrainEnd
  <2>1. mq'.pending = <<>>
    BY <1>8, FlushTypes DEF Tick, DrainEnd, LoopFlush, TypeInv
  <2> QED
    BY <1>8, <2>1 DEF Tick, DrainEnd
<1>9. CASE Submit \/ Refuse
  <2>1. /\ phase \notin {"closingQueue", "waiting", "exited"} /\ outbox' = <<>>
        /\ UNCHANGED <<phase, quit, chClosed, ch, mq, dispatcherClosed, closeCall>>
    BY <1>9 DEF Submit, Refuse
  <2> QED
    BY <2>1
<1>10. CASE Quit \/ CloseExecutor \/ Exit
  BY <1>10 DEF Quit, CloseExecutor, Exit, execVars
<1>11. CASE Forward
  BY <1>1, <1>11 DEF Forward
<1>12. ASSUME NEW t \in tasks, TaskStep(t) PROVE PhaseInv'
  <2>1. UNCHANGED <<phase, quit, chClosed, ch, mq, outbox, dispatcherClosed, closeCall>>
    BY <1>12, TaskStepFrame
  <2>2. ASSUME phase = "exited" PROVE wg' = wg
    <3>1. Live = {}
      BY <2>2, ZeroMeansIdle DEF TypeInv
    <3>2. t.pc = "released"
      BY <3>1 DEF Live
    <3> QED
      BY <1>12, <3>2 DEF TaskStep, SendSucceeds, SendFails, SendPanics, RetryTimer, RetryQuit,
                         WgDone, ExecutorDone
  <2> QED
    BY <1>1, <2>1, <2>2
<1>13. CASE ReceiveClosed \/ Terminated \/ UNCHANGED vars
  BY <1>1, <1>13 DEF ReceiveClosed, Terminated, vars, execVars
<1> QED
  BY <1>2, <1>3, <1>4, <1>5, <1>6, <1>7, <1>8, <1>9, <1>10, <1>11, <1>12, <1>13
     DEF Next, LoopStep

-------------------------------------------------------------------------------
(* Where the messages are.                                                 *)

LEMMA PlacesType ==
  ASSUME TypeBuffers, TypeTasks
  PROVE  /\ Queued \subseteq Message /\ Pending \subseteq Message /\ Cut \subseteq Message
         /\ Handed \subseteq Message /\ Waiting \subseteq Message
         /\ \A t \in tasks : Messages(t.msgs) \subseteq Message
<1>1. Queued \subseteq Message /\ Pending \subseteq Message /\ Cut \subseteq Message
  BY MessagesType DEF TypeBuffers, QueueType, Queued, Pending, Cut
<1>2. Handed \subseteq Message
  BY ExQueueOne, MessagesType
<1>3. \A t \in tasks : Messages(t.msgs) \subseteq Message
  BY MessagesType DEF TypeTasks, Task
<1> QED
  BY <1>1, <1>2, <1>3 DEF Waiting

\* A verdict stays justified while its message is not sent again.
LEMMA JustifiedStays ==
  ASSUME NEW m \in Message, NEW v \in Verdicts, Justified(m, v), sent'[m] = sent[m], quit => quit'
  PROVE  Justified(m, v)'
  BY DEF Justified

\* The messages stay where they are while the calls that were accepted do.
LEMMA PlacesFrame ==
  ASSUME TypeInv, PlacesInv, UNCHANGED <<ch, mq, outbox, exQueue, tasks, notified, sent>>,
         \A m \in Message : Accepted(m)' <=> Accepted(m), quit => quit'
  PROVE  PlacesInv'
<1>1. Waiting' = Waiting /\ Unresolved' = Unresolved
  BY DEF Waiting, Queued, Pending, Cut, Handed, Unresolved
<1>2. BuffersInv'
  BY DEF PlacesInv, BuffersInv, Queued, Pending, Cut, Handed
<1>3. WaitingInv' /\ TaskInv' /\ TasksDisjoint'
  BY <1>1, PlacesType DEF TypeInv, PlacesInv, WaitingInv, TaskInv, TasksDisjoint
<1>4. VerdictInv'
  BY JustifiedStays DEF PlacesInv, VerdictInv
<1>5. PlacedInv'
  BY <1>1 DEF PlacesInv, PlacedInv
<1> QED
  BY <1>2, <1>3, <1>4, <1>5 DEF PlacesInv

\* Messages that move from one buffer to another stay where they wait.
LEMMA MoveStep ==
  ASSUME TypeInv, PlacesInv, BuffersInv', Waiting' = Waiting,
         UNCHANGED <<call, quit, tasks, notified, sent>>
  PROVE  PlacesInv'
<1>1. Unresolved' = Unresolved
  BY DEF Unresolved
<1>2. WaitingInv' /\ TaskInv' /\ TasksDisjoint'
  BY DEF PlacesInv, WaitingInv, TaskInv, TasksDisjoint, Accepted
<1>3. VerdictInv'
  BY JustifiedStays DEF PlacesInv, VerdictInv, Accepted
<1>4. PlacedInv'
  BY <1>1 DEF PlacesInv, PlacedInv, Accepted
<1> QED
  BY <1>2, <1>3, <1>4 DEF PlacesInv

\* Messages that leave the buffers with a verdict and were never sent.
LEMMA TurnedAway ==
  ASSUME TypeInv, PlacesInv, BuffersInv', NEW S, S \subseteq Waiting, Waiting' = Waiting \ S,
         NEW v \in {"marshalError", "ErrMessageTooBig", "ErrTooManyRequests"}, Notify(S, v),
         UNCHANGED <<call, quit, tasks, sent>>
  PROVE  PlacesInv'
<1>1. v \in Verdicts /\ Unresolved' = Unresolved
  BY DEF Verdicts, Unresolved
<1>2. \A m \in Message : notified'[m] = IF m \in S THEN Append(notified[m], v) ELSE notified[m]
  BY <1>1, NotifyType DEF TypeInv
<1>3. \A m \in S : m \in Message /\ notified'[m] = <<v>> /\ Accepted(m) /\ sent[m] = 0
  <2>1. Append(<<>>, v) = <<v>>
    BY <1>1, AppendIsConcat, ConcatEmptySeq, EmptySeq
  <2> QED
    BY <1>2, <2>1, PlacesType DEF TypeInv, PlacesInv, WaitingInv
<1>4. WaitingInv'
  BY <1>2, PlacesType DEF TypeInv, PlacesInv, WaitingInv, Accepted
<1>5. TaskInv' /\ TasksDisjoint'
  BY <1>2, PlacesType DEF TypeInv, PlacesInv, TaskInv, TasksDisjoint, Accepted
<1>6. VerdictInv'
  <2> SUFFICES ASSUME NEW m \in Message
               PROVE  /\ ~Accepted(m)' => notified'[m] = <<>> /\ sent'[m] = 0
                      /\ notified'[m] # <<>> =>
                           \E w \in Verdicts : notified'[m] = <<w>> /\ Justified(m, w)'
    BY DEF VerdictInv
  <2>1. CASE m \in S
    <3>1. Justified(m, v)'
      BY <1>3, <2>1 DEF Justified
    <3> QED
      BY <1>1, <1>3, <2>1, <3>1 DEF Accepted
  <2>2. CASE m \notin S
    BY <1>2, <2>2, JustifiedStays DEF PlacesInv, VerdictInv, Accepted
  <2> QED
    BY <2>1, <2>2
<1>7. PlacedInv'
  BY <1>1, <1>2, <1>3 DEF PlacesInv, PlacedInv, Accepted
<1> QED
  BY <1>4, <1>5, <1>6, <1>7 DEF PlacesInv

\* A message enters the queue.
LEMMA SendPlaces ==
  ASSUME TypeInv, PlacesInv, NEW m \in Message, EnqueueSend(m)
  PROVE  PlacesInv'
<1> USE DEF queueVars, appVars, loopVars, execVars, outVars
<1>1. CASE Q!EnqueueRecover(m)
  <2>1. UNCHANGED <<ch, mq, outbox, exQueue, tasks, notified, sent, quit>>
    BY <1>1 DEF EnqueueSend, Q!EnqueueRecover
  <2>2. \A n \in Message : Accepted(n)' <=> Accepted(n)
    BY <1>1 DEF Q!EnqueueRecover, Accepted, TypeInv, TypeControl
  <2> QED
    BY <2>1, <2>2, PlacesFrame
<1>2. CASE Q!Send(m)
  <2>1. /\ UNCHANGED <<mq, outbox, exQueue, tasks, notified, sent, quit>>
        /\ ch' = Append(ch, m) /\ ch \in Seq(Message)
    BY <1>2 DEF EnqueueSend, Q!Send, TypeInv, TypeBuffers
  <2>2. ~Accepted(m) /\ \A n \in Message : Accepted(n)' <=> Accepted(n) \/ n = m
    BY <1>2 DEF Q!Send, Accepted, TypeInv, TypeControl
  <2>3. m \notin Waiting /\ notified[m] = <<>> /\ sent[m] = 0
    BY <2>2 DEF PlacesInv, WaitingInv, VerdictInv
  <2>4. Queued' = Queued \union {m} /\ NoDup(ch')
    BY <2>1, <2>3, MessagesAppend DEF Queued, Waiting, PlacesInv, BuffersInv
  <2>5. Pending' = Pending /\ Cut' = Cut /\ Handed' = Handed /\ Unresolved' = Unresolved
    BY <2>1 DEF Pending, Cut, Handed, Unresolved
  <2>6. Waiting' = Waiting \union {m}
    BY <2>4, <2>5 DEF Waiting
  <2>7. BuffersInv'
    BY <2>1, <2>3, <2>4, <2>5 DEF PlacesInv, BuffersInv, Waiting
  <2>8. \A t \in tasks : m \notin Messages(t.msgs)
    BY <2>2 DEF PlacesInv, TaskInv
  <2>9. WaitingInv' /\ TaskInv' /\ TasksDisjoint'
    BY <2>1, <2>2, <2>3, <2>6, <2>8, PlacesType
       DEF TypeInv, PlacesInv, WaitingInv, TaskInv, TasksDisjoint
  <2>10. VerdictInv'
    BY <2>1, <2>2, <2>3, JustifiedStays DEF PlacesInv, VerdictInv
  <2>11. PlacedInv'
    BY <2>1, <2>2, <2>5, <2>6 DEF PlacesInv, PlacedInv
  <2> QED
    BY <2>7, <2>9, <2>10, <2>11 DEF PlacesInv
<1> QED
  BY <1>1, <1>2 DEF EnqueueSend

\* The loop receives a message and pushes it.
LEMMA ReceivePlaces ==
  ASSUME TypeInv, PlacesInv, ReceiveMessage
  PROVE  PlacesInv'
<1> DEFINE m == Head(ch)
<1>1. /\ ch \in Seq(Message) /\ ch # <<>> /\ ch' = Tail(ch)
      /\ mq.pending \in Seq(Message) /\ outbox = <<>>
      /\ UNCHANGED <<call, quit, exQueue, tasks, sent>>
  BY ReceiveEffect
     DEF TypeInv, TypeBuffers, QueueType, ReceiveMessage, controlVars, appVars, execVars
<1>2. /\ m \in Message /\ m \in Queued /\ Queued' = Queued \ {m} /\ NoDup(ch')
  BY <1>1, MessagesTail DEF PlacesInv, BuffersInv, Queued
<1>3. Cut = {} /\ Handed' = Handed
  BY <1>1, EmptyMessages DEF Cut, Handed
<1>4. m \notin Pending /\ m \notin Handed
  BY <1>2 DEF PlacesInv, BuffersInv
<1>5. \/ UNCHANGED notified /\ outbox' = <<>> /\ mq'.pending = Append(mq.pending, m)
      \/ UNCHANGED notified /\ outbox' = Append(mq.pending, m) /\ mq'.pending = <<>>
      \/ UNCHANGED notified /\ outbox' = mq.pending /\ mq'.pending = <<m>>
      \/ /\ UNCHANGED <<mq, outbox>>
         /\ \E v \in {"marshalError", "ErrMessageTooBig"} : Notify({m}, v)
  BY ReceiveEffect DEF TypeInv
<1> HIDE DEF m
<1>6. /\ Messages(Append(mq.pending, m)) = Pending \union {m}
      /\ NoDup(Append(mq.pending, m)) /\ NoDup(mq.pending)
  BY <1>1, <1>2, <1>4, MessagesAppend DEF Pending, PlacesInv, BuffersInv
<1>7. ASSUME UNCHANGED notified, Pending' \union Cut' = Pending \union {m},
             Pending' \intersect Cut' = {}, NoDup(mq'.pending), NoDup(outbox')
      PROVE  PlacesInv'
  <2>1. BuffersInv'
    BY <1>1, <1>2, <1>3, <1>4, <1>7 DEF PlacesInv, BuffersInv
  <2>2. Waiting' = Waiting
    BY <1>2, <1>3, <1>7 DEF Waiting
  <2> QED
    BY <1>1, <1>7, <2>1, <2>2, MoveStep
<1>8. CASE UNCHANGED notified /\ outbox' = <<>> /\ mq'.pending = Append(mq.pending, m)
  <2>1. Pending' = Pending \union {m} /\ Cut' = {} /\ NoDup(mq'.pending) /\ NoDup(outbox')
    BY <1>6, <1>8, EmptyMessages DEF Pending, Cut
  <2> QED
    BY <1>7, <1>8, <2>1
<1>9. CASE UNCHANGED notified /\ outbox' = Append(mq.pending, m) /\ mq'.pending = <<>>
  <2>1. Cut' = Pending \union {m} /\ Pending' = {} /\ NoDup(mq'.pending) /\ NoDup(outbox')
    BY <1>6, <1>9, EmptyMessages DEF Pending, Cut
  <2> QED
    BY <1>7, <1>9, <2>1
<1>10. CASE UNCHANGED notified /\ outbox' = mq.pending /\ mq'.pending = <<m>>
  <2>1. Cut' = Pending /\ Pending' = {m} /\ NoDup(mq'.pending) /\ NoDup(outbox')
    BY <1>2, <1>6, <1>10, SingletonMessages DEF Pending, Cut
  <2> QED
    BY <1>4, <1>7, <1>10, <2>1
<1>11. ASSUME UNCHANGED <<mq, outbox>>,
              NEW v \in {"marshalError", "ErrMessageTooBig"}, Notify({m}, v)
       PROVE  PlacesInv'
  <2>1. Pending' = Pending /\ Cut' = Cut
    BY <1>11 DEF Pending, Cut
  <2>2. BuffersInv'
    BY <1>1, <1>2, <1>3, <1>11, <2>1 DEF PlacesInv, BuffersInv
  <2>3. {m} \subseteq Waiting /\ Waiting' = Waiting \ {m}
    BY <1>2, <1>3, <1>4, <2>1 DEF Waiting
  <2> QED
    BY <1>1, <1>11, <2>2, <2>3, TurnedAway
<1> QED
  BY <1>5, <1>8, <1>9, <1>10, <1>11

\* The batch under construction is cut.
LEMMA FlushPlaces ==
  ASSUME TypeInv, PlacesInv, Tick \/ DrainEnd
  PROVE  PlacesInv'
<1>1. /\ outbox = <<>> /\ outbox' = mq.pending /\ mq'.pending = <<>>
      /\ UNCHANGED <<ch, exQueue, call, quit, tasks, notified, sent>>
  BY FlushTypes DEF TypeInv, Tick, DrainEnd, LoopFlush, queueVars, appVars, execVars, outVars
<1>2. /\ Cut = {} /\ Cut' = Pending /\ Pending' = {} /\ Queued' = Queued /\ Handed' = Handed
      /\ NoDup(<<>>)
  BY <1>1, EmptyMessages DEF Queued, Pending, Cut, Handed
<1>3. BuffersInv'
  BY <1>1, <1>2 DEF PlacesInv, BuffersInv
<1>4. Waiting' = Waiting
  BY <1>2 DEF Waiting
<1> QED
  BY <1>1, <1>3, <1>4, MoveStep

\* The loop hands the batch to the executor.
LEMMA SubmitPlaces ==
  ASSUME TypeInv, PlacesInv, Submit
  PROVE  PlacesInv'
<1>1. /\ outbox # <<>> /\ outbox' = <<>> /\ exQueue' = Append(exQueue, outbox)
      /\ UNCHANGED <<ch, mq, call, quit, tasks, notified, sent>>
      /\ outbox \in Seq(Message)
  BY DEF TypeInv, TypeBuffers, Submit, queueVars, appVars, outVars
<1>2. exQueue = <<>> /\ Handed = {} /\ TypeBuffers'
  BY ExQueueOne, BuffersTypeStep DEF TypeInv, Submit, Next, LoopStep
<1>3. exQueue' = <<outbox>>
  BY <1>1, <1>2, AppendIsConcat, ConcatEmptySeq, EmptySeq
<1>4. /\ Handed' = Cut /\ Cut' = {} /\ Pending' = Pending /\ Queued' = Queued /\ NoDup(<<>>)
      /\ \A i \in DOMAIN exQueue' : exQueue'[i] # <<>>
  BY <1>1, <1>3, EmptyMessages DEF Queued, Pending, Cut, Handed
<1>5. BuffersInv'
  BY <1>1, <1>2, <1>4 DEF PlacesInv, BuffersInv
<1>6. Waiting' = Waiting
  BY <1>2, <1>4 DEF Waiting
<1> QED
  BY <1>1, <1>5, <1>6, MoveStep

\* The executor has no room for the batch.
LEMMA RefusePlaces ==
  ASSUME TypeInv, PlacesInv, Refuse
  PROVE  PlacesInv'
<1>1. /\ outbox' = <<>> /\ Notify(Cut, "ErrTooManyRequests")
      /\ UNCHANGED <<ch, mq, exQueue, call, quit, tasks, sent>>
  BY DEF Refuse, Cut, queueVars, appVars, execVars
<1>2. Handed' = Handed /\ Cut' = {} /\ Pending' = Pending /\ Queued' = Queued /\ NoDup(<<>>)
  BY <1>1, EmptyMessages DEF Queued, Pending, Cut, Handed
<1>3. BuffersInv'
  BY <1>1, <1>2 DEF PlacesInv, BuffersInv
<1>4. Cut \subseteq Waiting /\ Waiting' = Waiting \ Cut
  BY <1>2 DEF Waiting, PlacesInv, BuffersInv
<1> QED
  BY <1>1, <1>3, <1>4, TurnedAway

\* The forwarder starts the goroutine of a batch.
LEMMA ForwardPlaces ==
  ASSUME TypeInv, PlacesInv, Forward
  PROVE  PlacesInv'
<1>1. /\ tasks' = tasks \union {Started} /\ Started.msgs = Head(exQueue)
      /\ Started.attempt = 0 /\ Started.pc = "sending" /\ exQueue' = <<>>
      /\ UNCHANGED <<ch, mq, outbox, call, quit, notified, sent>>
      /\ exQueue # <<>>
  BY ForwardEffect DEF TypeInv, queueVars, appVars, loopVars, outVars
<1>2. /\ Messages(Started.msgs) = Handed /\ Started.msgs # <<>>
  BY <1>1, ExQueueOne DEF TypeInv, PlacesInv, BuffersInv
<1>3. /\ Handed' = {} /\ Cut' = Cut /\ Pending' = Pending /\ Queued' = Queued
      /\ \A i \in DOMAIN exQueue' : FALSE
  BY <1>1 DEF Queued, Pending, Cut, Handed
<1>4. BuffersInv'
  BY <1>1, <1>3 DEF PlacesInv, BuffersInv
<1>5. Waiting' = Waiting \ Handed /\ Handed \subseteq Waiting
  BY <1>3 DEF Waiting, PlacesInv, BuffersInv
<1>6. WaitingInv'
  BY <1>1, <1>5 DEF PlacesInv, WaitingInv, Accepted
<1>7. TaskInv'
  <2> SUFFICES ASSUME NEW t \in tasks'
               PROVE  /\ t.msgs # <<>>
                      /\ \A m \in Messages(t.msgs) :
                           /\ m \notin Waiting'
                           /\ Accepted(m)'
                           /\ t.pc = "sending" => notified'[m] = <<>> /\ sent'[m] = t.attempt
                           /\ t.pc = "retrying" => notified'[m] = <<>> /\ sent'[m] = t.attempt + 1
    BY DEF TaskInv
  <2>1. CASE t \in tasks
    BY <1>1, <1>5, <2>1 DEF PlacesInv, TaskInv, Accepted
  <2>2. CASE t = Started
    BY <1>1, <1>2, <1>5, <2>2 DEF PlacesInv, WaitingInv, Accepted
  <2> QED
    BY <1>1, <2>1, <2>2
<1>8. TasksDisjoint'
  <2>1. \A t \in tasks : Messages(t.msgs) \intersect Messages(Started.msgs) = {}
    BY <1>2, <1>5 DEF PlacesInv, TaskInv
  <2> QED
    BY <1>1, <2>1 DEF PlacesInv, TasksDisjoint
<1>9. VerdictInv'
  BY <1>1, JustifiedStays DEF PlacesInv, VerdictInv, Accepted
<1>10. PlacedInv'
  <2>1. Unresolved' = Unresolved \union {Started}
    BY <1>1 DEF Unresolved
  <2> QED
    BY <1>1, <1>2, <1>5, <2>1 DEF PlacesInv, PlacedInv, Accepted
<1> QED
  BY <1>4, <1>6, <1>7, <1>8, <1>9, <1>10 DEF PlacesInv

\* A send goes on, and only its own messages are sent or get a callback.
LEMMA GoesOnPlaces ==
  ASSUME TypeInv, PlacesInv, NEW t \in tasks, NEW u, GoesOn(t, u),
         UNCHANGED <<ch, mq, outbox, exQueue, call, quit>>,
         \A m \in Message : m \notin Messages(t.msgs) =>
                              notified'[m] = notified[m] /\ sent'[m] = sent[m],
         \A m \in Messages(t.msgs) :
           /\ u.pc = "sending" => notified'[m] = <<>> /\ sent'[m] = u.attempt
           /\ u.pc = "retrying" => notified'[m] = <<>> /\ sent'[m] = u.attempt + 1
           /\ notified'[m] # <<>> =>
                \E v \in Verdicts : notified'[m] = <<v>> /\ Justified(m, v)'
           /\ notified[m] # <<>> => notified'[m] # <<>>
           /\ ~DispatcherPanics => \/ t.pc \notin {"sending", "retrying"}
                                   \/ u.pc \in {"sending", "retrying"}
                                   \/ notified'[m] # <<>>
  PROVE  PlacesInv'
<1> DEFINE S == Messages(t.msgs)
<1>1. /\ tasks' = (tasks \ {t}) \union {u} /\ Messages(u.msgs) = S /\ u.msgs = t.msgs
      /\ S \subseteq Message /\ S \intersect Waiting = {}
      /\ \A m \in S : Accepted(m)
      /\ t.msgs # <<>>
  BY PlacesType DEF GoesOn, Becomes, TypeInv, PlacesInv, TaskInv
<1>2. Waiting' = Waiting /\ Waiting \subseteq Message
  BY PlacesType DEF TypeInv, Waiting, Queued, Pending, Cut, Handed
<1>3. BuffersInv'
  BY DEF PlacesInv, BuffersInv, Queued, Pending, Cut, Handed
<1>4. \A o \in tasks \ {t} : Messages(o.msgs) \intersect S = {} /\ Messages(o.msgs) \subseteq Message
  BY PlacesType DEF TypeInv, PlacesInv, TasksDisjoint
<1> HIDE DEF S
<1>5. WaitingInv'
  BY <1>1, <1>2 DEF PlacesInv, WaitingInv, Accepted, S
<1>6. TaskInv'
  <2> SUFFICES ASSUME NEW o \in tasks'
               PROVE  /\ o.msgs # <<>>
                      /\ \A m \in Messages(o.msgs) :
                           /\ m \notin Waiting'
                           /\ Accepted(m)'
                           /\ o.pc = "sending" => notified'[m] = <<>> /\ sent'[m] = o.attempt
                           /\ o.pc = "retrying" => notified'[m] = <<>> /\ sent'[m] = o.attempt + 1
    BY DEF TaskInv
  <2>1. CASE o \in tasks \ {t}
    <3>1. \A m \in Messages(o.msgs) : notified'[m] = notified[m] /\ sent'[m] = sent[m]
      BY <1>4, <2>1 DEF S
    <3> QED
      BY <1>2, <2>1, <3>1 DEF PlacesInv, TaskInv, Accepted
  <2>2. CASE o = u
    BY <1>1, <1>2, <2>2 DEF Accepted, S
  <2> QED
    BY <1>1, <2>1, <2>2
<1>7. TasksDisjoint'
  BY <1>1, <1>4 DEF PlacesInv, TasksDisjoint
<1>8. VerdictInv'
  <2> SUFFICES ASSUME NEW m \in Message
               PROVE  /\ ~Accepted(m)' => notified'[m] = <<>> /\ sent'[m] = 0
                      /\ notified'[m] # <<>> =>
                           \E w \in Verdicts : notified'[m] = <<w>> /\ Justified(m, w)'
    BY DEF VerdictInv
  <2>1. CASE m \in S
    BY <1>1, <2>1 DEF Accepted, S
  <2>2. CASE m \notin S
    BY <2>2, JustifiedStays DEF PlacesInv, VerdictInv, Accepted, S
  <2> QED
    BY <2>1, <2>2
<1>9. PlacedInv'
  <2> SUFFICES ASSUME ~DispatcherPanics, NEW m \in Message, Accepted(m)'
               PROVE  \/ m \in Waiting'
                      \/ notified'[m] # <<>>
                      \/ \E o \in Unresolved' : m \in Messages(o.msgs)
    BY DEF PlacedInv
  <2>1. /\ \A o \in Unresolved : o # t => o \in Unresolved'
        /\ u.pc \in {"sending", "retrying"} => u \in Unresolved'
        /\ t \in Unresolved => t.pc \in {"sending", "retrying"}
    BY <1>1 DEF Unresolved
  <2>2. \/ m \in Waiting
        \/ notified[m] # <<>>
        \/ \E o \in Unresolved : m \in Messages(o.msgs)
    BY DEF PlacesInv, PlacedInv, Accepted
  <2>3. CASE m \in Waiting
    BY <1>2, <2>3
  <2>4. CASE notified[m] # <<>>
    BY <2>4 DEF S
  <2>5. ASSUME NEW o \in Unresolved, m \in Messages(o.msgs), o # t
        PROVE  \E p \in Unresolved' : m \in Messages(p.msgs)
    BY <2>1, <2>5
  <2>6. ASSUME t \in Unresolved, m \in S
        PROVE  notified'[m] # <<>> \/ \E p \in Unresolved' : m \in Messages(p.msgs)
    BY <1>1, <2>1, <2>6 DEF S
  <2> QED
    BY <2>2, <2>3, <2>4, <2>5, <2>6 DEF S
<1> QED
  BY <1>3, <1>5, <1>6, <1>7, <1>8, <1>9 DEF PlacesInv

\* A send that has had no verdict: its messages have had no callback.
LEMMA FirstVerdict ==
  ASSUME TypeInv, PlacesInv, NEW t \in tasks, t.pc \in {"sending", "retrying"},
         NEW v \in Verdicts, Notify(Messages(t.msgs), v)
  PROVE  \A m \in Messages(t.msgs) : notified[m] = <<>> /\ notified'[m] = <<v>>
<1>1. \A m \in Messages(t.msgs) : m \in Message /\ notified[m] = <<>>
  BY PlacesType DEF TypeInv, PlacesInv, TaskInv
<1>2. Append(<<>>, v) = <<v>>
  BY AppendIsConcat, ConcatEmptySeq, EmptySeq
<1> QED
  BY <1>1, <1>2, NotifyType DEF TypeInv

\* A send that ends with a verdict that is justified.
LEMMA VerdictPlaces ==
  ASSUME TypeInv, PlacesInv, NEW t \in tasks, t.pc \in {"sending", "retrying"},
         NEW u, GoesOn(t, u), u.pc = "finished",
         UNCHANGED <<ch, mq, outbox, exQueue, call, quit>>,
         NEW v \in Verdicts, Notify(Messages(t.msgs), v),
         \A m \in Message : m \notin Messages(t.msgs) => sent'[m] = sent[m],
         \A m \in Messages(t.msgs) : Justified(m, v)'
  PROVE  PlacesInv'
<1>1. \A m \in Message : m \notin Messages(t.msgs) => notified'[m] = notified[m]
  BY NotifyType DEF TypeInv
<1>2. \A m \in Messages(t.msgs) : notified'[m] = <<v>> /\ <<v>> # <<>>
  BY FirstVerdict
<1>3. \A m \in Messages(t.msgs) :
        \E w \in Verdicts : notified'[m] = <<w>> /\ Justified(m, w)'
  BY <1>2
<1>4. u.pc # "sending" /\ u.pc # "retrying"
  OBVIOUS
<1> QED
  BY <1>1, <1>2, <1>3, <1>4, GoesOnPlaces

\* The steps of a send that goes on.
LEMMA TaskPlaces ==
  ASSUME TypeInv, PlacesInv, PhaseInv, NEW t \in tasks, TaskStep(t)
  PROVE  PlacesInv'
<1> DEFINE S == Messages(t.msgs)
<1>1. UNCHANGED <<ch, mq, outbox, exQueue, call, quit>>
  BY TaskStepFrame DEF queueVars, appVars, loopVars
<1>2. /\ t \in Task /\ t.attempt \in 0..Attempts - 1 /\ Attempts \in Nat /\ S \subseteq Message
      /\ \A m \in S : /\ t.pc = "sending" => notified[m] = <<>> /\ sent[m] = t.attempt
                      /\ t.pc = "retrying" => notified[m] = <<>> /\ sent[m] = t.attempt + 1
                      /\ Accepted(m)
                      /\ notified[m] # <<>> =>
                           \E v \in Verdicts : notified[m] = <<v>> /\ Justified(m, v)
  BY PlacesType, LimitAssumption DEF TypeInv, TypeTasks, Task, PlacesInv, TaskInv, VerdictInv
<1>4. CountSend(S) => \A m \in Message : sent'[m] = IF m \in S THEN sent[m] + 1 ELSE sent[m]
  BY CountSendType DEF TypeInv
<1>5. {"success", "exhausted", "dropped at close"} \subseteq Verdicts
  BY DEF Verdicts
<1> HIDE DEF S
<1>6. CASE SendSucceeds(t) /\ GoesOn(t, At(t, "finished")) /\ At(t, "finished").pc = "finished"
  <2>1. t.pc = "sending" /\ CountSend(S) /\ Notify(S, "success")
    BY <1>6 DEF SendSucceeds, S
  <2>2. \A m \in S : sent'[m] = t.attempt + 1
    BY <1>2, <1>4, <2>1
  <2>3. \A m \in S : sent'[m] \in 1..Attempts
    BY <1>2, <2>2
  <2>4. \A m \in S : Justified(m, "success")'
    BY <2>3 DEF Justified
  <2>5. \A m \in Message : m \notin S => sent'[m] = sent[m]
    BY <1>4, <2>1
  <2> QED
    BY <1>1, <1>5, <1>6, <2>1, <2>4, <2>5, VerdictPlaces DEF S
<1>7. CASE /\ SendFails(t) /\ GoesOn(t, At(t, "retrying"))
           /\ At(t, "retrying").pc = "retrying" /\ At(t, "retrying").attempt = t.attempt
  <2>1. t.pc = "sending" /\ CountSend(S) /\ UNCHANGED notified
    BY <1>7 DEF SendFails, S
  <2>2. \A m \in S : notified'[m] = <<>> /\ sent'[m] = t.attempt + 1
    BY <1>2, <1>4, <2>1
  <2> QED
    BY <1>1, <1>2, <1>4, <1>7, <2>1, <2>2, GoesOnPlaces DEF S
<1>8. CASE SendPanics(t) /\ GoesOn(t, At(t, "finished")) /\ At(t, "finished").pc = "finished"
  <2>1. t.pc = "sending" /\ CountSend(S) /\ UNCHANGED notified /\ DispatcherPanics
    BY <1>8 DEF SendPanics, S
  <2>2. \A m \in S : notified'[m] = <<>>
    BY <1>2, <2>1
  <2> QED
    BY <1>1, <1>2, <1>4, <1>8, <2>1, <2>2, GoesOnPlaces DEF S
<1>9. ASSUME RetryTimer(t), t.attempt + 1 # Attempts, UNCHANGED notified,
             NEW u, GoesOn(t, u), u.pc = "sending", u.attempt = t.attempt + 1
      PROVE  PlacesInv'
  <2>1. t.pc = "retrying" /\ UNCHANGED sent
    BY <1>9 DEF RetryTimer
  <2>2. \A m \in S : notified'[m] = <<>> /\ sent'[m] = u.attempt
    BY <1>2, <1>9, <2>1
  <2> QED
    BY <1>1, <1>2, <1>9, <2>1, <2>2, GoesOnPlaces DEF S
<1>10. CASE /\ RetryTimer(t) /\ t.attempt + 1 = Attempts /\ GoesOn(t, At(t, "finished"))
            /\ At(t, "finished").pc = "finished" /\ Notify(Messages(t.msgs), "exhausted")
  <2>1. t.pc = "retrying" /\ UNCHANGED sent /\ Notify(S, "exhausted")
    BY <1>10 DEF RetryTimer, S
  <2>2. \A m \in S : sent'[m] = Attempts
    BY <1>2, <1>10, <2>1
  <2>3. \A m \in S : Justified(m, "exhausted")'
    BY <2>2 DEF Justified
  <2> QED
    BY <1>1, <1>5, <1>10, <2>1, <2>3, VerdictPlaces DEF S
<1>11. CASE RetryQuit(t) /\ GoesOn(t, At(t, "finished")) /\ At(t, "finished").pc = "finished"
  <2>1. t.pc = "retrying" /\ quit /\ UNCHANGED sent /\ Notify(S, "dropped at close")
    BY <1>11 DEF RetryQuit, S
  <2>2. \A m \in S : sent'[m] = t.attempt + 1
    BY <1>2, <2>1
  <2>3. quit'
    BY <1>1, <2>1
  <2>4. \A m \in S : sent'[m] \in 1..Attempts
    BY <1>2, <2>2
  <2>5. \A m \in S : Justified(m, "dropped at close")'
    BY <2>3, <2>4 DEF Justified
  <2> QED
    BY <1>1, <1>5, <1>11, <2>1, <2>5, VerdictPlaces DEF S
<1>12. CASE WgDone(t) /\ GoesOn(t, At(t, "released")) /\ At(t, "released").pc = "released"
  <2>1. t.pc = "finished" /\ UNCHANGED <<notified, sent>>
    BY <1>12 DEF WgDone, outVars
  <2>2. \A m \in S : notified'[m] # <<>> =>
          \E v \in Verdicts : notified'[m] = <<v>> /\ Justified(m, v)'
    BY <1>1, <1>2, <2>1, JustifiedStays
  <2> QED
    BY <1>1, <1>12, <2>1, <2>2, GoesOnPlaces DEF S
<1>13. CASE ExecutorDone(t)
  <2>1. /\ tasks' = tasks \ {t} /\ t.pc = "released"
        /\ UNCHANGED <<notified, sent>>
    BY <1>13 DEF ExecutorDone, outVars
  <2>2. /\ Waiting' = Waiting /\ Unresolved' = Unresolved /\ Waiting \subseteq Message
    BY <1>1, <2>1, PlacesType
       DEF TypeInv, Waiting, Queued, Pending, Cut, Handed, Unresolved
  <2>3. BuffersInv'
    BY <1>1 DEF PlacesInv, BuffersInv, Queued, Pending, Cut, Handed
  <2>4. WaitingInv' /\ TaskInv' /\ TasksDisjoint'
    BY <1>1, <2>1, <2>2 DEF PlacesInv, WaitingInv, TaskInv, TasksDisjoint, Accepted
  <2>5. VerdictInv'
    BY <1>1, <2>1, JustifiedStays DEF PlacesInv, VerdictInv, Accepted
  <2>6. PlacedInv'
    BY <1>1, <2>1, <2>2 DEF PlacesInv, PlacedInv, Accepted
  <2> QED
    BY <2>3, <2>4, <2>5, <2>6 DEF PlacesInv
<1> QED
  BY <1>6, <1>7, <1>8, <1>9, <1>10, <1>11, <1>12, <1>13, TaskEffect DEF TypeInv

\* The steps of the calls, of the closers and of the loop's shutdown that move no
\* message.
LEMMA QuietPlaces ==
  ASSUME TypeInv, PlacesInv,
         \/ \E m \in Message : Reject(m) \/ EnqueueLoad(m) \/ EnqueueReturn(m)
         \/ \E c \in Closers : CloseQuit(c) \/ CloseAgain(c) \/ CloseFinish(c)
         \/ \E c \in AppClosers : AppCloseQueue(c)
         \/ Quit \/ CloseQueue \/ CloseExecutor \/ Exit
         \/ UNCHANGED vars
  PROVE  PlacesInv'
<1> USE DEF queueVars, appVars, loopVars, execVars, outVars
<1>1. UNCHANGED <<mq, outbox, exQueue, tasks, notified, sent>> /\ (quit => quit')
  BY DEF Reject, EnqueueLoad, EnqueueReturn, CloseQuit, CloseAgain, CloseFinish,
         AppCloseQueue, Quit, CloseQueue, CloseExecutor, Exit, vars
<1>2. ASSUME UNCHANGED <<ch, call>> PROVE PlacesInv'
  <2>1. \A m \in Message : Accepted(m)' <=> Accepted(m)
    BY <1>2 DEF Accepted
  <2> QED
    BY <1>1, <1>2, <2>1, PlacesFrame
<1>3. ASSUME NEW m \in Message, EnqueueLoad(m) PROVE PlacesInv'
  <2>1. UNCHANGED ch /\ \A n \in Message : Accepted(n)' <=> Accepted(n)
    BY <1>3 DEF EnqueueLoad, Q!Load, Accepted, TypeInv, TypeControl
  <2> QED
    BY <1>1, <2>1, PlacesFrame
<1>4. ASSUME NEW c, Q!Close(c) PROVE UNCHANGED <<ch, call>>
  BY <1>4 DEF Q!Close, Q!CloseStore, Q!CloseChannel, Q!CloseAgain, Q!callVars
<1>5. \/ UNCHANGED <<ch, call>>
      \/ \E m \in Message : EnqueueLoad(m)
  BY <1>4 DEF Reject, EnqueueReturn, CloseQuit, CloseAgain, CloseFinish,
              AppCloseQueue, Quit, CloseQueue, CloseExecutor, Exit, vars
<1> QED
  BY <1>2, <1>3, <1>5

LEMMA PlacesStep ==
  ASSUME TypeInv, PlacesInv, PhaseInv, [Next]_vars
  PROVE  PlacesInv'
<1>1. ASSUME NEW m \in Message, Reject(m) \/ EnqueueLoad(m) \/ EnqueueSend(m) \/ EnqueueReturn(m)
      PROVE  PlacesInv'
  BY <1>1, QuietPlaces, SendPlaces
<1>2. ASSUME NEW c \in Closers, CloseQuit(c) \/ CloseAgain(c) \/ CloseFinish(c)
      PROVE  PlacesInv'
  BY <1>2, QuietPlaces
<1>3. ASSUME NEW c \in AppClosers, AppCloseQueue(c) PROVE PlacesInv'
  BY <1>3, QuietPlaces
<1>4. CASE LoopStep
  <2>1. CASE ReceiveClosed
    BY <2>1, QuietPlaces DEF ReceiveClosed
  <2>2. CASE Quit \/ CloseQueue \/ CloseExecutor \/ Exit
    BY <2>2, QuietPlaces
  <2> QED
    BY <1>4, <2>1, <2>2, ReceivePlaces, FlushPlaces, SubmitPlaces, RefusePlaces DEF LoopStep
<1>5. CASE Forward
  BY <1>5, ForwardPlaces
<1>6. ASSUME NEW t \in tasks, TaskStep(t) PROVE PlacesInv'
  BY <1>6, TaskPlaces
<1>7. CASE Terminated \/ UNCHANGED vars
  BY <1>7, QuietPlaces DEF Terminated
<1> QED
  BY <1>1, <1>2, <1>3, <1>4, <1>5, <1>6, <1>7 DEF Next

-------------------------------------------------------------------------------
(* The inductive invariant.                                                *)

LEMMA StepInv == IInv /\ [Next]_vars => IInv'
<1> SUFFICES ASSUME IInv, [Next]_vars PROVE IInv'
  OBVIOUS
<1>1. /\ TypeInv /\ ControlInv /\ PhaseInv /\ SlotsInv /\ PlacesInv
      /\ TypeControl /\ TypeBuffers /\ TypeTasks /\ TypeHistory
      /\ BuffersInv /\ TaskInv /\ TasksDisjoint
  BY DEF IInv, TypeInv, PlacesInv
<1>2. TypeControl' /\ ControlInv'
  BY <1>1, ControlStep
<1>3. TypeInv'
  BY <1>1, <1>2, BuffersTypeStep, TasksTypeStep, HistoryTypeStep DEF TypeInv
<1>4. PhaseInv'
  BY <1>1, <1>2, PhaseStep
<1>5. SlotsInv'
  BY <1>1, SlotsStep
<1>6. PlacesInv'
  BY <1>1, PlacesStep
<1> QED
  BY <1>2, <1>3, <1>4, <1>5, <1>6 DEF IInv

(***************************************************************************)
(* The invariant of the client: where each message is, how far the         *)
(* shutdown has come, and what the counters, the callbacks and the answers *)
(* of Enqueue have to do with it.                                          *)
(***************************************************************************)
THEOREM InvHolds == Spec => []IInv
<1> QED
  BY InitInv, StepInv, PTL DEF Spec

===============================================================================
