---------------------------- MODULE ClientTheorems ----------------------------
(***************************************************************************)
(* What the inductive invariant of ClientProofs says of the client: the    *)
(* safety properties that the runs of MCClient check, and that the client  *)
(* implements the delivery contract.                                       *)
(*                                                                         *)
(* Three results are about dispatchers that do not panic.  The recover of  *)
(* sendAsync makes no callback, so the messages of a send that panicked    *)
(* are lost without a verdict: the run DispatcherPanic shows it.           *)
(***************************************************************************)
EXTENDS ClientProofs

(***************************************************************************)
(* The state keeps its type: in particular the counter of the WaitGroup    *)
(* and executor.size never go below zero.                                  *)
(***************************************************************************)
THEOREM TypeCorrect == Spec => []TypeOK
<1>1. IInv => TypeOK
  <2> SUFFICES ASSUME IInv PROVE TypeOK
    OBVIOUS
  <2>1. TypeInv /\ TypeBuffers /\ SlotsInv
    BY DEF IInv, TypeInv
  <2> QED
    BY <2>1, Counts, TypeParts
<1> QED
  BY <1>1, InvHolds, PTL

(***************************************************************************)
(* The WaitGroup counts the tasks that have not called Done, size the ones *)
(* that hold a slot, and size stays within maxConcurrentRequests, on the   *)
(* paths of a refusal and of a panic too (analytics.go:327-347,            *)
(* executor.go).                                                           *)
(***************************************************************************)
THEOREM SlotsExact == Spec => []SlotsAccounted
<1>1. IInv => SlotsAccounted
  BY DEF IInv, SlotsInv
<1> QED
  BY <1>1, InvHolds, PTL

(***************************************************************************)
(* Enqueue returns ErrClosed only when a Close of the client or of its     *)
(* queue has begun, and never ErrQueueClosed (analytics.go:240-244).       *)
(***************************************************************************)
THEOREM ErrClosedIsTrue == Spec => []ErrClosedTruthful
<1>1. IInv => ErrClosedTruthful
  BY DEF IInv, ControlInv, ResultInv, ErrClosedTruthful
<1> QED
  BY <1>1, InvHolds, PTL

(***************************************************************************)
(* When dispatcher.Close has run, no send is in progress and none is       *)
(* waiting in the executor (analytics.go:251-265).                         *)
(***************************************************************************)
THEOREM DispatcherUnused == Spec => []NoSendAfterDispatcherClose
<1>1. IInv => NoSendAfterDispatcherClose
  <2> SUFFICES ASSUME IInv, dispatcherClosed PROVE exQueue = <<>> /\ Unresolved = {}
    BY DEF NoSendAfterDispatcherClose
  <2>1. wg = 0
    BY DEF IInv, PhaseInv
  <2> QED
    BY <2>1, ZeroMeansIdle DEF IInv, TypeInv
<1> QED
  BY <1>1, InvHolds, PTL

(***************************************************************************)
(* A message whose Enqueue returned an error, or panicked, was not sent    *)
(* and had no callback, so that the application may enqueue it again.      *)
(***************************************************************************)
THEOREM RefusalIsFinal == Spec => []RefusedNeverSent
<1>1. IInv => RefusedNeverSent
  <2> SUFFICES ASSUME IInv, NEW m \in Message, result[m] \notin {"none", "nil"}
               PROVE  sent[m] = 0 /\ notified[m] = <<>>
    BY DEF RefusedNeverSent
  <2>1. call[m] \in {"idle", "ErrQueueClosed"}
    BY DEF IInv, ControlInv, ResultInv
  <2> QED
    BY <2>1 DEF IInv, PlacesInv, VerdictInv, Accepted
<1> QED
  BY <1>1, InvHolds, PTL

(***************************************************************************)
(* A callback's verdict agrees with the tries that were made: all of them  *)
(* before "exhausted", at least one before "success" and "dropped at       *)
(* close", none before a refusal (analytics.go:341-386).                   *)
(***************************************************************************)
THEOREM VerdictsAreTrue == Spec => []AttemptsJustifyVerdict
<1>1. IInv => AttemptsJustifyVerdict
  <2> SUFFICES ASSUME IInv, NEW m \in Message, NEW i \in DOMAIN notified[m]
               PROVE  Justified(m, notified[m][i])
    BY DEF AttemptsJustifyVerdict, Justified
  <2>1. notified[m] # <<>>
    OBVIOUS
  <2>2. PICK v \in Verdicts : notified[m] = <<v>> /\ Justified(m, v)
    BY <2>1 DEF IInv, PlacesInv, VerdictInv
  <2>3. notified[m][i] = v
    BY <2>2
  <2> QED
    BY <2>2, <2>3
<1> QED
  BY <1>1, InvHolds, PTL

\* Only the calls themselves change what the queue answers to them.
LEMMA CallsChange ==
  ASSUME TypeInv, [Next]_vars
  PROVE  \/ UNCHANGED call
         \/ \E m \in Message : Q!Load(m) \/ Q!Send(m) \/ Q!EnqueueRecover(m)
<1> USE DEF queueVars, Q!callVars
<1>1. ASSUME NEW m \in Message, Reject(m) \/ EnqueueReturn(m) PROVE UNCHANGED call
  BY <1>1 DEF Reject, EnqueueReturn
<1>2. ASSUME NEW c \in Closers, CloseQuit(c) \/ CloseAgain(c) \/ CloseFinish(c)
      PROVE  UNCHANGED call
  BY <1>2 DEF CloseQuit, CloseAgain, CloseFinish
<1>3. ASSUME NEW c, Q!Close(c) PROVE UNCHANGED call
  BY <1>3 DEF Q!Close, Q!CloseStore, Q!CloseChannel, Q!CloseAgain
<1>4. LoopStep => UNCHANGED call
  BY <1>3, ReceiveEffect
     DEF LoopStep, ReceiveClosed, Tick, Quit, CloseQueue, DrainEnd, Submit, Refuse,
         CloseExecutor, Exit, vars, controlVars, TypeInv
<1>5. Forward \/ Terminated \/ UNCHANGED vars => UNCHANGED call
  BY DEF Forward, Terminated, vars
<1>6. ASSUME NEW t \in tasks, TaskStep(t) PROVE UNCHANGED call
  BY <1>6, TaskStepFrame
<1>7. ASSUME NEW c \in AppClosers, AppCloseQueue(c) PROVE UNCHANGED call
  BY <1>3, <1>7 DEF AppCloseQueue
<1> QED
  BY <1>1, <1>2, <1>4, <1>5, <1>6, <1>7 DEF Next, EnqueueLoad, EnqueueSend

(***************************************************************************)
(* Once the Close that closed the client has returned, every Enqueue that  *)
(* gets as far as the queue is refused (error.go:48-50).                   *)
(***************************************************************************)
THEOREM ClosedRefuses == Spec => ClosedClientRefuses
<1>1. ASSUME IInv, Next, NEW m \in Message, ClientClosed, call[m] = "idle"
      PROVE  call'[m] # "sending"
  <2>1. closed
    BY <1>1 DEF IInv, PhaseInv, ControlInv, OnceInv
  <2>2. call \in [Message -> {"idle", "sending", "nil", "ErrQueueClosed"}]
    BY <1>1 DEF IInv, TypeInv, TypeControl
  <2>3. \/ UNCHANGED call
        \/ \E n \in Message : Q!Load(n) \/ Q!Send(n) \/ Q!EnqueueRecover(n)
    BY <1>1, CallsChange DEF IInv
  <2> QED
    BY <1>1, <2>1, <2>2, <2>3 DEF Q!Load, Q!Send, Q!EnqueueRecover
<1>2. IInv /\ [Next]_vars =>
        [\A m \in Message : ClientClosed /\ call[m] = "idle" => call'[m] # "sending"]_vars
  BY <1>1
<1> QED
  BY <1>2, InvHolds, PTL DEF Spec, ClosedClientRefuses

-------------------------------------------------------------------------------
(* Where a message is, for Conservation.                                   *)

\* The copies of m in a sequence: none if m is not one of its messages, one if no
\* message is in it twice.
LEMMA OneCopy ==
  ASSUME NEW s, NEW m
  PROVE  /\ m \notin Messages(s) => {i \in DOMAIN s : s[i] = m} = {}
         /\ m \in Messages(s) /\ NoDup(s) =>
              \E i \in DOMAIN s : {j \in DOMAIN s : s[j] = m} = {i}
  BY DEF Messages, NoDup

\* A message stands in one place.
LEMMA PlacesExclusive ==
  ASSUME PlacesInv, TypeInv, NEW m \in Message
  PROVE  /\ m \in Queued => m \notin Pending /\ m \notin Cut /\ m \notin Handed
         /\ m \in Pending => m \notin Cut /\ m \notin Handed
         /\ m \in Cut => m \notin Handed
         /\ m \in Waiting => /\ Accepted(m) /\ notified[m] = <<>>
                             /\ \A t \in tasks : m \notin Messages(t.msgs)
         /\ \A t \in Unresolved : m \in Messages(t.msgs) => Accepted(m) /\ notified[m] = <<>>
         /\ notified[m] # <<>> => Accepted(m)
  BY DEF PlacesInv, BuffersInv, WaitingInv, TaskInv, VerdictInv, Unresolved

(***************************************************************************)
(* With a dispatcher that does not panic, a message the queue accepted is  *)
(* in exactly one buffer or send, or has had exactly one callback, and any *)
(* other message is nowhere (message.go:20-26).                            *)
(***************************************************************************)
THEOREM NothingLost == ASSUME ~DispatcherPanics PROVE Spec => []Conservation
<1>1. ASSUME IInv, NEW m \in Message
      PROVE  IF Accepted(m) THEN \E h \in Holders(m) : Holders(m) = {h} ELSE Holders(m) = {}
  <2> DEFINE A == {i \in DOMAIN ch : ch[i] = m}
             B == {i \in DOMAIN mq.pending : mq.pending[i] = m}
             C == {i \in DOMAIN outbox : outbox[i] = m}
             E == {i \in DOMAIN exQueue : m \in Messages(exQueue[i])}
             F == {t \in Unresolved : m \in Messages(t.msgs)}
             G == DOMAIN notified[m]
  <2>1. TypeInv /\ TypeBuffers /\ PlacesInv /\ NoDup(ch) /\ NoDup(mq.pending) /\ NoDup(outbox)
    BY <1>1 DEF IInv, PlacesInv, BuffersInv, TypeInv
  <2>2. (m \notin Queued => A = {}) /\ (m \in Queued => \E i : A = {i})
    BY <2>1, OneCopy DEF Queued
  <2>3. (m \notin Pending => B = {}) /\ (m \in Pending => \E i : B = {i})
    BY <2>1, OneCopy DEF Pending
  <2>4. (m \notin Cut => C = {}) /\ (m \in Cut => \E i : C = {i})
    BY <2>1, OneCopy DEF Cut
  <2>5. (m \notin Handed => E = {}) /\ (m \in Handed => \E i : E = {i})
    <3>1. \A i, j \in DOMAIN exQueue : i = j
      BY <2>1, LenProperties DEF TypeBuffers
    <3> QED
      BY <3>1 DEF Handed
  <2>6. /\ ((\A t \in Unresolved : m \notin Messages(t.msgs)) => F = {})
        /\ ((\E t \in Unresolved : m \in Messages(t.msgs)) => \E t : F = {t})
    BY <2>1 DEF PlacesInv, TasksDisjoint, Unresolved
  <2>7. (notified[m] = <<>> => G = {}) /\ (notified[m] # <<>> => \E i : G = {i})
    <3>1. notified[m] # <<>> => \E v : notified[m] = <<v>>
      BY <2>1 DEF PlacesInv, VerdictInv
    <3>2. DOMAIN <<>> = {} /\ \A v : DOMAIN <<v>> = {1}
      OBVIOUS
    <3> QED
      BY <3>1, <3>2
  <2>8. Accepted(m) => \/ m \in Waiting
                       \/ notified[m] # <<>>
                       \/ \E t \in Unresolved : m \in Messages(t.msgs)
    BY <2>1 DEF PlacesInv, PlacedInv
  <2>9. \A t \in Unresolved : t \in tasks
    BY DEF Unresolved
  <2>10. Holders(m) = {<<"queue", i>> : i \in A} \union {<<"pending", i>> : i \in B} \union
                      {<<"outbox", i>> : i \in C} \union {<<"executor", i>> : i \in E} \union
                      {<<"task", t>> : t \in F} \union {<<"callback", i>> : i \in G}
    BY Zenon DEF Holders
  <2> HIDE DEF A, B, C, E, F, G
  <2>11. CASE ~Accepted(m)
    <3>1. /\ m \notin Queued /\ m \notin Pending /\ m \notin Cut /\ m \notin Handed
          /\ notified[m] = <<>> /\ \A t \in Unresolved : m \notin Messages(t.msgs)
      BY <2>1, <2>11, PlacesExclusive DEF Waiting
    <3>2. A = {} /\ B = {} /\ C = {} /\ E = {} /\ F = {} /\ G = {}
      BY <3>1, <2>2, <2>3, <2>4, <2>5, <2>6, <2>7
    <3> QED
      BY <2>10, <2>11, <3>2
  <2>12. CASE Accepted(m)
    <3>1. CASE m \in Waiting
      <4>1. F = {} /\ G = {}
        BY <2>1, <2>6, <2>7, <2>9, <3>1, PlacesExclusive
      <4>2. \/ \E i : A = {i} /\ B = {} /\ C = {} /\ E = {}
            \/ \E i : A = {} /\ B = {i} /\ C = {} /\ E = {}
            \/ \E i : A = {} /\ B = {} /\ C = {i} /\ E = {}
            \/ \E i : A = {} /\ B = {} /\ C = {} /\ E = {i}
        BY <2>1, <2>2, <2>3, <2>4, <2>5, <3>1, PlacesExclusive DEF Waiting
      <4>3. ASSUME NEW i, A = {i}, B = {}, C = {}, E = {} PROVE Holders(m) = {<<"queue", i>>}
        BY <2>10, <4>1, <4>3
      <4>4. ASSUME NEW i, A = {}, B = {i}, C = {}, E = {} PROVE Holders(m) = {<<"pending", i>>}
        BY <2>10, <4>1, <4>4
      <4>5. ASSUME NEW i, A = {}, B = {}, C = {i}, E = {} PROVE Holders(m) = {<<"outbox", i>>}
        BY <2>10, <4>1, <4>5
      <4>6. ASSUME NEW i, A = {}, B = {}, C = {}, E = {i} PROVE Holders(m) = {<<"executor", i>>}
        BY <2>10, <4>1, <4>6
      <4> QED
        BY <2>12, <4>2, <4>3, <4>4, <4>5, <4>6
    <3>2. CASE m \notin Waiting
      <4>1. A = {} /\ B = {} /\ C = {} /\ E = {}
        BY <2>2, <2>3, <2>4, <2>5, <3>2 DEF Waiting
      <4>2. (\E t : F = {t} /\ G = {}) \/ (\E i : F = {} /\ G = {i})
        BY <2>1, <2>6, <2>7, <2>8, <2>12, <3>2, PlacesExclusive
      <4>3. ASSUME NEW t, F = {t}, G = {} PROVE Holders(m) = {<<"task", t>>}
        BY <2>10, <4>1, <4>3
      <4>4. ASSUME NEW i, F = {}, G = {i} PROVE Holders(m) = {<<"callback", i>>}
        BY <2>10, <4>1, <4>4
      <4> QED
        BY <2>12, <4>2, <4>3, <4>4
    <3> QED
      BY <3>1, <3>2
  <2> QED
    BY <2>11, <2>12
<1>2. IInv => Conservation
  BY <1>1 DEF Conservation
<1> QED
  BY <1>2, InvHolds, PTL

\* What a client that has shut down has left behind.
LEMMA ExitedIsEmpty ==
  ASSUME IInv, phase = "exited"
  PROVE  chClosed /\ Waiting = {} /\ Unresolved = {}
<1>1. /\ chClosed /\ ch = <<>> /\ mq.pending = <<>> /\ outbox = <<>> /\ wg = 0
      /\ TypeBuffers /\ SlotsInv
  BY DEF IInv, PhaseInv, TypeInv
<1>2. exQueue = <<>> /\ Unresolved = {}
  BY <1>1, ZeroMeansIdle
<1>3. Queued = {} /\ Pending = {} /\ Cut = {} /\ Handed = {}
  BY <1>1, <1>2, EmptyMessages DEF Queued, Pending, Cut, Handed
<1> QED
  BY <1>1, <1>2, <1>3 DEF Waiting

(***************************************************************************)
(* With a dispatcher that does not panic, every accepted message has had   *)
(* its callback when the Close that closed the client returns, also one    *)
(* whose Enqueue raced the Close (analytics.go:251).                       *)
(***************************************************************************)
THEOREM CloseIsComplete == ASSUME ~DispatcherPanics PROVE Spec => []CloseFlushes
<1>1. IInv => CloseFlushes
  <2> SUFFICES ASSUME IInv, ClientClosed
               PROVE  chClosed /\ \A m \in Message : Accepted(m) => notified[m] # <<>>
    BY DEF CloseFlushes
  <2>1. phase = "exited"
    BY DEF IInv, PhaseInv
  <2>2. chClosed /\ Waiting = {} /\ Unresolved = {}
    BY <2>1, ExitedIsEmpty
  <2> QED
    BY <2>2 DEF IInv, PlacesInv, PlacedInv
<1> QED
  BY <1>1, InvHolds, PTL

-------------------------------------------------------------------------------
(* The client implements the delivery contract.  The contract's status of  *)
(* a message comes from its callback, then from the answers of the queue   *)
(* and of Enqueue.                                                         *)

LEMMA StatusOf ==
  ASSUME PlacesInv, NEW m \in Message
  PROVE  /\ notified[m] = <<>> /\ Accepted(m) => Status(m) = "accepted"
         /\ ~Accepted(m) /\ (call[m] = "ErrQueueClosed" \/ result[m] # "none")
              => Status(m) = "refused"
         /\ ~Accepted(m) /\ call[m] # "ErrQueueClosed" /\ result[m] = "none"
              => Status(m) = "new"
<1>1. ~Accepted(m) => notified[m] = <<>>
  BY DEF PlacesInv, VerdictInv
<1> QED
  BY <1>1 DEF Status

\* The contract does not see a step that makes no callback, answers no call and
\* leaves the phase.
LEMMA Unseen ==
  ASSUME \A m \in Message : Status(m)' = Status(m), (phase = "exited")' = (phase = "exited")
  PROVE  UNCHANGED D!vars
  BY DEF D!vars

\* A step that makes callbacks with the same verdict for a set of messages.
LEMMA ResolveStep ==
  ASSUME TypeInv, PlacesInv, NEW S \in SUBSET Message,
         NEW v \in Verdicts, Notify(S, v),
         \A m \in S : Accepted(m) /\ notified[m] = <<>>,
         phase # "exited", UNCHANGED <<phase, call, result>>
  PROVE  D!Next
<1> DEFINE w == IF v = "success" THEN "succeeded" ELSE "failed"
<1>1. \A m \in S : m \in Message /\ Status(m) = "accepted" /\ Status(m)' = w
  <2>1. \A m \in S : Status(m) = "accepted"
    BY StatusOf
  <2>2. Append(<<>>, v) = <<v>>
    BY AppendIsConcat, ConcatEmptySeq, EmptySeq
  <2>3. \A m \in S : notified'[m] = <<v>>
    BY <2>2, NotifyType DEF TypeInv
  <2>4. \A m \in Message : notified'[m] = <<v>> => Status(m)' = w
    <3>1. <<v>> # <<>> /\ Len(<<v>>) = 1 /\ <<v>>[Len(<<v>>)] = v
      OBVIOUS
    <3> QED
      BY <3>1 DEF Status
  <2> QED
    BY <2>1, <2>3, <2>4
<1>2. \A m \in Message : m \notin S => Status(m)' = Status(m)
  BY NotifyType DEF TypeInv, Status, Accepted
<1>3. D!Resolve(S, w)
  BY <1>1, <1>2 DEF D!Resolve
<1> QED
  BY <1>3 DEF D!Next

\* A step that answers the call of one message.
LEMMA AnswerStep ==
  ASSUME NEW m \in Message, Status(m) = "new",
         \A n \in Message \ {m} : Status(n)' = Status(n),
         UNCHANGED phase,
         \/ Status(m)' = "refused"
         \/ Status(m)' = "accepted" /\ phase # "exited"
         \/ Status(m)' = "new"
  PROVE  [D!Next]_D!vars
<1>1. CASE Status(m)' = "refused"
  BY <1>1 DEF D!Refuse, D!Next
<1>2. CASE Status(m)' = "accepted" /\ phase # "exited"
  BY <1>2 DEF D!Accept, D!Next
<1>3. CASE Status(m)' = "new"
  BY <1>3, Unseen
<1> QED
  BY <1>1, <1>2, <1>3

\* Calls of Enqueue and the answers they get.
LEMMA EnqueueRefines ==
  ASSUME IInv, NEW m \in Message,
         Reject(m) \/ EnqueueLoad(m) \/ EnqueueSend(m) \/ EnqueueReturn(m)
  PROVE  [D!Next]_D!vars
<1> USE DEF loopVars, execVars, outVars, appVars, queueVars, Q!Results
<1>1. /\ call \in [Message -> {"idle", "sending", "nil", "ErrQueueClosed"}]
      /\ result \in [Message -> {"none", "nil", "ErrClosed", "ErrQueueClosed",
                                 "validation error", "custom type error", "panic"}]
      /\ Kind[m] \in Kinds
  BY KindAssumption DEF IInv, TypeInv, TypeControl
<1>2. /\ UNCHANGED <<notified, phase>>
      /\ \A n \in Message \ {m} : call'[n] = call[n] /\ result'[n] = result[n]
  BY <1>1 DEF Reject, EnqueueLoad, EnqueueSend, EnqueueReturn, Q!Load, Q!Send, Q!EnqueueRecover
<1>3. \A n \in Message \ {m} : Status(n)' = Status(n)
  BY <1>2 DEF Status, Accepted
<1>4. /\ ~Accepted(m) => notified[m] = <<>>
      /\ Status(m) = "new" <=> ~Accepted(m) /\ call[m] # "ErrQueueClosed" /\ result[m] = "none"
  BY StatusOf DEF IInv, PlacesInv, VerdictInv, Status
<1>5. /\ Kind[m] # "valid" => call[m] = "idle"
      /\ Kind[m] = "valid" /\ call[m] \in {"idle", "sending"} => result[m] = "none"
  BY <1>1 DEF IInv, ControlInv, ResultInv, Accepted
<1>6. CASE Reject(m)
  <2>1. ~Accepted(m) /\ call[m] = "idle" /\ result[m] = "none"
    BY <1>5, <1>6 DEF Reject, Accepted
  <2>2. UNCHANGED call /\ result'[m] # "none"
    BY <1>1, <1>6 DEF Reject, RejectionOf, Kinds
  <2>3. Status(m) = "new" /\ Status(m)' = "refused"
    BY <1>2, <1>4, <2>1, <2>2 DEF Status, Accepted
  <2> QED
    BY <1>2, <1>3, <2>3, AnswerStep
<1>7. CASE EnqueueLoad(m) \/ EnqueueSend(m)
  <2>1. /\ UNCHANGED result
        /\ call[m] \in {"idle", "sending"} /\ Kind[m] = "valid"
        /\ \/ call'[m] \in {"sending", "ErrQueueClosed"}
           \/ call'[m] = "nil" /\ ~chClosed
    BY <1>1, <1>5, <1>7 DEF EnqueueLoad, EnqueueSend, Q!Load, Q!Send, Q!EnqueueRecover
  <2>2. Status(m) = "new" /\ notified[m] = <<>> /\ result[m] = "none"
    BY <1>4, <1>5, <2>1 DEF Accepted
  <2>3. CASE call'[m] \in {"sending", "ErrQueueClosed"}
    BY <1>2, <1>3, <2>1, <2>2, <2>3, AnswerStep DEF Status, Accepted
  <2>4. CASE call'[m] = "nil" /\ ~chClosed
    <3>1. phase # "exited"
      BY <2>4 DEF IInv, PhaseInv
    <3>2. Status(m)' = "accepted"
      BY <1>2, <2>2, <2>4 DEF Status, Accepted
    <3> QED
      BY <1>2, <1>3, <2>2, <3>1, <3>2, AnswerStep
  <2> QED
    BY <2>1, <2>3, <2>4
<1>8. CASE EnqueueReturn(m)
  <2>1. UNCHANGED call /\ (Accepted(m) \/ call[m] = "ErrQueueClosed")
    BY <1>1, <1>8 DEF EnqueueReturn, Accepted
  <2>2. Status(m)' = Status(m)
    BY <1>2, <2>1 DEF Status, Accepted
  <2> QED
    BY <1>2, <1>3, <2>2, Unseen
<1> QED
  BY <1>6, <1>7, <1>8

\* The loop makes callbacks for a message it cannot batch and for a batch that the
\* executor refuses.
LEMMA LoopRefines ==
  ASSUME IInv, ReceiveMessage \/ Refuse
  PROVE  [D!Next]_D!vars
<1>1. /\ UNCHANGED <<phase, call, result>> /\ TypeInv /\ PlacesInv
      /\ phase # "exited"
  BY ReceiveEffect
     DEF IInv, PhaseInv, TypeInv, ReceiveMessage, Refuse, controlVars, appVars, queueVars
<1>2. CASE UNCHANGED notified
  BY <1>1, <1>2, Unseen DEF Status, Accepted
<1>3. ASSUME NEW S, S \subseteq Waiting, NEW v \in Verdicts, Notify(S, v)
      PROVE  [D!Next]_D!vars
  <2>1. S \in SUBSET Message
    BY <1>1, <1>3, PlacesType DEF TypeInv
  <2>2. \A m \in S : Accepted(m) /\ notified[m] = <<>>
    BY <1>1, <1>3 DEF PlacesInv, WaitingInv
  <2> QED
    BY <1>1, <1>3, <2>1, <2>2, ResolveStep
<1>4. CASE ReceiveMessage
  <2>1. ch \in Seq(Message) /\ ch # <<>> /\ {Head(ch)} \subseteq Waiting
    BY <1>1, <1>4, ReceiveEffect, MessagesTail DEF TypeInv, TypeBuffers, Waiting, Queued
  <2>2. {"marshalError", "ErrMessageTooBig"} \subseteq Verdicts
    BY DEF Verdicts
  <2>3. \/ UNCHANGED notified
        \/ \E v \in {"marshalError", "ErrMessageTooBig"} : Notify({Head(ch)}, v)
    BY <1>1, <1>4, ReceiveEffect DEF TypeInv
  <2> QED
    BY <1>2, <1>3, <2>1, <2>2, <2>3
<1>5. CASE Refuse
  <2>1. Notify(Cut, "ErrTooManyRequests") /\ Cut \subseteq Waiting /\ "ErrTooManyRequests" \in Verdicts
    BY <1>5 DEF Refuse, Cut, Waiting, Verdicts
  <2> QED
    BY <1>3, <2>1
<1> QED
  BY <1>4, <1>5

\* A send makes callbacks when it ends with a verdict.
LEMMA TaskRefines ==
  ASSUME IInv, NEW t \in tasks, TaskStep(t)
  PROVE  [D!Next]_D!vars
<1>1. UNCHANGED <<phase, call, result>> /\ TypeInv /\ PlacesInv
  BY TaskStepFrame DEF IInv, appVars, loopVars, queueVars
<1>2. CASE UNCHANGED notified
  BY <1>1, <1>2, Unseen DEF Status, Accepted
<1>3. ASSUME t.pc \in {"sending", "retrying"}, NEW v \in Verdicts, Notify(Messages(t.msgs), v)
      PROVE  [D!Next]_D!vars
  <2>1. Messages(t.msgs) \in SUBSET Message
    BY <1>1, PlacesType DEF TypeInv
  <2>2. \A m \in Messages(t.msgs) : Accepted(m) /\ notified[m] = <<>>
    BY <1>1, <1>3 DEF PlacesInv, TaskInv
  <2>3. phase # "exited"
    <3>1. t \in Unresolved
      BY <1>3 DEF Unresolved
    <3> QED
      BY <3>1, ZeroMeansIdle DEF IInv, TypeInv, PhaseInv
  <2> QED
    BY <1>1, <1>3, <2>1, <2>2, <2>3, ResolveStep
<1>4. \/ UNCHANGED notified
      \/ t.pc \in {"sending", "retrying"} /\ \E v \in Verdicts : Notify(Messages(t.msgs), v)
  BY DEF TaskStep, SendSucceeds, SendFails, SendPanics, RetryTimer, RetryQuit, WgDone,
         ExecutorDone, outVars, Verdicts
<1> QED
  BY <1>2, <1>3, <1>4

\* When the loop exits every accepted message has its verdict.
LEMMA ExitRefines ==
  ASSUME ~DispatcherPanics, IInv, Exit
  PROVE  D!Next
<1>1. phase = "waiting" /\ phase' = "exited" /\ UNCHANGED <<call, result, notified>> /\ wg = 0
  BY DEF Exit, queueVars, appVars, outVars
<1>2. Waiting = {} /\ Unresolved = {}
  <2>1. ch = <<>> /\ mq.pending = <<>> /\ outbox = <<>> /\ TypeBuffers /\ SlotsInv
    BY <1>1 DEF IInv, PhaseInv, TypeInv
  <2>2. exQueue = <<>> /\ Unresolved = {}
    BY <1>1, <2>1, ZeroMeansIdle
  <2>3. Queued = {} /\ Pending = {} /\ Cut = {} /\ Handed = {}
    BY <2>1, <2>2, EmptyMessages DEF Queued, Pending, Cut, Handed
  <2> QED
    BY <2>2, <2>3 DEF Waiting
<1>3. \A m \in Message : Accepted(m) => notified[m] # <<>>
  BY <1>2 DEF IInv, PlacesInv, PlacedInv
<1>4. \A m \in Message : Status(m) # "accepted" /\ Status(m)' = Status(m)
  BY <1>1, <1>3 DEF Status, Accepted
<1>5. D!ShutDown
  BY <1>1, <1>4 DEF D!ShutDown
<1> QED
  BY <1>5 DEF D!Next

(***************************************************************************)
(* With a dispatcher that does not panic, the client implements Delivery:  *)
(* each message is accepted or refused, an accepted one gets one verdict,  *)
(* and a client that has shut down has no verdict left to give and accepts *)
(* nothing (analytics.go:240-273, message.go:20-26).                       *)
(***************************************************************************)
THEOREM DeliversAsPromised == ASSUME ~DispatcherPanics PROVE Spec => ImplementsDelivery
<1>1. Init => D!Init
  BY DEF Init, D!Init, Status, Accepted
<1>2. ASSUME IInv, [Next]_vars PROVE [D!Next]_D!vars
  <2>1. ASSUME UNCHANGED <<call, result, notified>>, (phase = "exited")' = (phase = "exited")
        PROVE  [D!Next]_D!vars
    BY <2>1, Unseen DEF Status, Accepted
  <2>2. ASSUME NEW m \in Message, Reject(m) \/ EnqueueLoad(m) \/ EnqueueSend(m) \/ EnqueueReturn(m)
        PROVE  [D!Next]_D!vars
    BY <1>2, <2>2, EnqueueRefines
  <2>3. ASSUME NEW c, Q!Close(c) PROVE UNCHANGED call
    BY <2>3 DEF Q!Close, Q!CloseStore, Q!CloseChannel, Q!CloseAgain, Q!callVars
  <2>4. ASSUME NEW c \in Closers, CloseQuit(c) \/ CloseAgain(c) \/ CloseFinish(c)
        PROVE  [D!Next]_D!vars
    BY <2>1, <2>4 DEF CloseQuit, CloseAgain, CloseFinish, queueVars, loopVars, outVars
  <2>5. ASSUME NEW c \in AppClosers, AppCloseQueue(c) PROVE [D!Next]_D!vars
    BY <2>1, <2>3, <2>5 DEF AppCloseQueue, appVars, loopVars, outVars
  <2>6. CASE LoopStep
    <3>1. CASE ReceiveMessage \/ Refuse
      BY <1>2, <3>1, LoopRefines
    <3>2. CASE Exit
      BY <1>2, <3>2, ExitRefines
    <3>3. CASE ReceiveClosed \/ Tick \/ Submit
      BY <2>1, <3>3
         DEF ReceiveClosed, Tick, Submit, vars, queueVars, appVars, loopVars, outVars
    <3>4. CASE Quit \/ CloseQueue \/ DrainEnd \/ CloseExecutor
      BY <2>1, <2>3, <3>4
         DEF Quit, CloseQueue, DrainEnd, CloseExecutor, queueVars, appVars, outVars
    <3> QED
      BY <2>6, <3>1, <3>2, <3>3, <3>4 DEF LoopStep
  <2>7. CASE Forward
    BY <2>1, <2>7 DEF Forward, queueVars, appVars, loopVars, outVars
  <2>8. ASSUME NEW t \in tasks, TaskStep(t) PROVE [D!Next]_D!vars
    BY <1>2, <2>8, TaskRefines
  <2>9. CASE Terminated \/ UNCHANGED vars
    BY <2>1, <2>9 DEF Terminated, vars, queueVars, appVars, loopVars, outVars
  <2> QED
    BY <1>2, <2>2, <2>4, <2>5, <2>6, <2>7, <2>8, <2>9 DEF Next
<1> QED
  BY <1>1, <1>2, InvHolds, PTL DEF Spec, ImplementsDelivery, D!Spec

===============================================================================
