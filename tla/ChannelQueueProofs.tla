-------------------------- MODULE ChannelQueueProofs --------------------------
(***************************************************************************)
(* Proofs about ChannelQueue: its safety invariants hold for every number  *)
(* of callers, closers and consumers and for every capacity.               *)
(***************************************************************************)
EXTENDS ChannelQueue, SequenceTheorems, TLAPS

\* The sync.Once: who runs the function of Close, and how far it is.
OnceInv == /\ once = "fresh" <=> ~closed
           /\ once = "done" <=> chClosed
           /\ \A c \in Closes : closer[c] = "stored" => once = "running"
           /\ \A c \in Closes : closer[c] = "returned" => once = "done"
           /\ \A c, d \in Closes : closer[c] = "stored" /\ closer[d] = "stored" => c = d

\* Whoever was refused because of the close can see the flag.
RefusedInv == \A c \in Calls : call[c] \in {"ErrQueueClosed", "panic"} => closed

\* A receive loop that has ended left nothing behind and nothing can follow.
DrainInv == \A r \in Drainers : receiver[r] = "ended" => chClosed /\ ch = <<>>

(***************************************************************************)
(* The inductive invariant. RefusedOnlyIfFlagUp needs to know that the     *)
(* flag goes up before the channel closes, hence OnceInv;                  *)
(* DrainEndsComplete needs the empty channel of DrainInv and the history   *)
(* of AcceptedExactlyOnce.                                                 *)
(***************************************************************************)
IInv == TypeOK /\ OnceInv /\ RefusedInv /\ AcceptedExactlyOnce /\ DrainInv

-------------------------------------------------------------------------------
(* Lemmas about the history taken \o ch.                                   *)

\* A send appends its message to the history.
LEMMA AppendToHistory ==
  ASSUME NEW S, NEW s \in Seq(S), NEW t \in Seq(S), NEW e \in S
  PROVE  s \o Append(t, e) = Append(s \o t, e)
<1> DEFINE u == s \o Append(t, e)
           v == Append(s \o t, e)
<1>1. /\ u \in Seq(S) /\ v \in Seq(S)
      /\ Len(u) = Len(s) + Len(t) + 1
      /\ Len(v) = Len(s) + Len(t) + 1
  BY ConcatProperties, AppendProperties
<1>2. ASSUME NEW i \in 1..Len(u) PROVE u[i] = v[i]
  BY <1>1
<1> QED
  BY <1>1, <1>2, SeqEqual

\* A receive moves a message within the history.
LEMMA ReceiveKeepsHistory ==
  ASSUME NEW S, NEW s \in Seq(S), NEW t \in Seq(S), t # <<>>
  PROVE  Append(s, Head(t)) \o Tail(t) = s \o t
<1> DEFINE u == Append(s, Head(t)) \o Tail(t)
           v == s \o t
<1>1. Head(t) \in S /\ Tail(t) \in Seq(S) /\ Len(Tail(t)) = Len(t) - 1 /\ Len(t) \in Nat \ {0}
  BY HeadTailProperties, EmptySeq
<1>2. /\ u \in Seq(S) /\ v \in Seq(S)
      /\ Len(u) = Len(s) + Len(t)
      /\ Len(v) = Len(s) + Len(t)
  BY <1>1
<1>3. ASSUME NEW i \in 1..Len(u) PROVE u[i] = v[i]
  BY <1>1, <1>2
<1> QED
  BY <1>2, <1>3, SeqEqual

-------------------------------------------------------------------------------
LEMMA InitIInv == Init => IInv
<1> SUFFICES ASSUME Init PROVE IInv
  OBVIOUS
<1> USE DEF Init
<1>1. TypeOK
  <2>1. ch \in Seq(Calls) /\ taken \in Seq(Calls)
    BY EmptySeq
  <2>2. /\ call \in [Calls -> {"idle", "sending"} \union Results]
        /\ \A c \in Enqueues : call[c] \notin {"ErrQueueFull", "panic"}
    BY DEF Calls
  <2> QED
    BY <2>1, <2>2 DEF TypeOK
<1>2. OnceInv /\ RefusedInv
  BY DEF OnceInv, RefusedInv
<1>3. AcceptedExactlyOnce
  <2>1. History = <<>>
    BY DEF History
  <2> QED
    BY <2>1 DEF AcceptedExactlyOnce, Accepted
<1>4. DrainInv
  BY DEF DrainInv, Receivers
<1> QED
  BY <1>1, <1>2, <1>3, <1>4 DEF IInv

\* Each step preserves the types.
LEMMA TypeStep == TypeOK /\ [Next]_vars => TypeOK'
<1> SUFFICES ASSUME TypeOK, [Next]_vars PROVE TypeOK'
  OBVIOUS
<1> USE DEF TypeOK, callVars, closeVars, receiveVars, Calls, Receivers, Results
<1>1. ASSUME NEW c \in Calls, Load(c) PROVE TypeOK'
  BY <1>1 DEF Load
<1>2. ASSUME NEW c \in Calls, Send(c) PROVE TypeOK'
  BY <1>2 DEF Send
<1>3. ASSUME NEW c \in Enqueues, EnqueueRecover(c) PROVE TypeOK'
  BY <1>3 DEF EnqueueRecover
<1>4. ASSUME NEW c \in TryEnqueues, TryEnqueueFull(c) PROVE TypeOK'
  BY <1>4, CallsAssumption DEF TryEnqueueFull
<1>5. ASSUME NEW c \in TryEnqueues, TryEnqueuePanic(c) PROVE TypeOK'
  BY <1>5, CallsAssumption DEF TryEnqueuePanic
<1>6. ASSUME NEW c \in Closes, Close(c) PROVE TypeOK'
  BY <1>6 DEF Close, CloseStore, CloseChannel, CloseAgain
<1>7. ASSUME NEW r \in Receivers, Dequeue(r) PROVE TypeOK'
  BY <1>7 DEF Dequeue, Receive
<1>8. ASSUME NEW r \in Receivers, DequeueFalse(r) \/ TryDequeueFalse(r) PROVE TypeOK'
  BY <1>8 DEF DequeueFalse, TryDequeueFalse
<1>9. CASE UNCHANGED vars
  BY <1>9 DEF vars
<1> QED
  BY <1>1, <1>2, <1>3, <1>4, <1>5, <1>6, <1>7, <1>8, <1>9 DEF Next, Enqueue, TryEnqueue

(***************************************************************************)
(* Type correctness.  For Enqueue it says that no panic reaches the caller *)
(* and that no error but ErrQueueClosed is returned.                       *)
(***************************************************************************)
THEOREM TypeCorrect == Spec => []TypeOK
<1>1. Init => TypeOK
  BY InitIInv DEF IInv
<1> QED
  BY <1>1, TypeStep, PTL DEF Spec

-------------------------------------------------------------------------------
\* The queue's state outside of Close changes in no way that OnceInv can see.
LEMMA OnceStep == TypeOK /\ OnceInv /\ [Next]_vars => OnceInv'
<1> SUFFICES ASSUME TypeOK, OnceInv, [Next]_vars PROVE OnceInv'
  OBVIOUS
<1>1. ASSUME UNCHANGED closeVars PROVE OnceInv'
  BY <1>1 DEF OnceInv, closeVars
<1>2. ASSUME NEW c \in Closes, CloseStore(c) PROVE OnceInv'
  BY <1>2 DEF OnceInv, CloseStore, TypeOK
<1>3. ASSUME NEW c \in Closes, CloseChannel(c) PROVE OnceInv'
  BY <1>3 DEF OnceInv, CloseChannel, TypeOK
<1>4. ASSUME NEW c \in Closes, CloseAgain(c) PROVE OnceInv'
  BY <1>4 DEF OnceInv, CloseAgain, TypeOK
<1>5. CASE \E c \in Calls : \/ Load(c) \/ Send(c) \/ EnqueueRecover(c)
                            \/ TryEnqueueFull(c) \/ TryEnqueuePanic(c)
  BY <1>5, <1>1 DEF Load, Send, EnqueueRecover, TryEnqueueFull, TryEnqueuePanic
<1>6. CASE \E r \in Receivers : Dequeue(r) \/ DequeueFalse(r) \/ TryDequeueFalse(r)
  BY <1>6, <1>1 DEF Dequeue, Receive, DequeueFalse, TryDequeueFalse
<1>7. CASE UNCHANGED vars
  BY <1>7, <1>1 DEF vars, closeVars
<1> QED
  BY <1>2, <1>3, <1>4, <1>5, <1>6, <1>7 DEF Next, Enqueue, TryEnqueue, Close, Calls, Receivers

\* The flag is up before a send can panic, and stays up.
LEMMA RefusedStep == TypeOK /\ OnceInv /\ RefusedInv /\ [Next]_vars => RefusedInv'
<1> SUFFICES ASSUME TypeOK, OnceInv, RefusedInv, [Next]_vars PROVE RefusedInv'
  OBVIOUS
<1>1. chClosed => closed
  BY DEF OnceInv
<1>2. ASSUME NEW c \in Calls, Load(c) \/ Send(c) \/ EnqueueRecover(c)
                               \/ TryEnqueueFull(c) \/ TryEnqueuePanic(c)
      PROVE  RefusedInv'
  <2> SUFFICES ASSUME NEW d \in Calls, call'[d] \in {"ErrQueueClosed", "panic"}
               PROVE  closed'
    BY DEF RefusedInv
  <2>1. CASE d # c
    BY <2>1, <1>2 DEF RefusedInv, TypeOK, closeVars, Load, Send, EnqueueRecover,
                      TryEnqueueFull, TryEnqueuePanic
  <2>2. CASE d = c
    BY <2>2, <1>1, <1>2 DEF TypeOK, closeVars, Load, Send, EnqueueRecover,
                            TryEnqueueFull, TryEnqueuePanic
  <2> QED
    BY <2>1, <2>2
<1>3. ASSUME NEW c \in Closes, Close(c) PROVE RefusedInv'
  BY <1>3 DEF RefusedInv, callVars, Close, CloseStore, CloseChannel, CloseAgain
<1>4. ASSUME NEW r \in Receivers, Dequeue(r) \/ DequeueFalse(r) \/ TryDequeueFalse(r)
      PROVE  RefusedInv'
  BY <1>4 DEF RefusedInv, callVars, closeVars, Dequeue, Receive, DequeueFalse, TryDequeueFalse
<1>5. CASE UNCHANGED vars
  BY <1>5 DEF RefusedInv, vars
<1> QED
  BY <1>2, <1>3, <1>4, <1>5 DEF Next, Enqueue, TryEnqueue, Calls, Receivers

\* A step leaves the history alone, or appends the message of one accepted call.
LEMMA HistoryStep ==
  ASSUME TypeOK, [Next]_vars
  PROVE  \/ /\ History' = History
            /\ \A c \in Calls : Accepted(c)' <=> Accepted(c)
         \/ \E c \in Calls : /\ History' = Append(History, c)
                            /\ ~Accepted(c)
                            /\ \A d \in Calls : Accepted(d)' <=> (Accepted(d) \/ d = c)
<1> DEFINE Same == /\ History' = History
                   /\ \A c \in Calls : Accepted(c)' <=> Accepted(c)
<1>1. ASSUME NEW c \in Calls, Load(c) \/ EnqueueRecover(c) \/ TryEnqueueFull(c) \/ TryEnqueuePanic(c)
      PROVE  Same
  BY <1>1 DEF TypeOK, History, Accepted, receiveVars, Load, EnqueueRecover,
              TryEnqueueFull, TryEnqueuePanic
<1>2. ASSUME NEW c \in Calls, Send(c)
      PROVE  /\ History' = Append(History, c)
             /\ ~Accepted(c)
             /\ \A d \in Calls : Accepted(d)' <=> (Accepted(d) \/ d = c)
  <2>1. History' = Append(History, c)
    BY <1>2, AppendToHistory DEF Send, History, receiveVars, TypeOK
  <2>2. ~Accepted(c) /\ \A d \in Calls : Accepted(d)' <=> (Accepted(d) \/ d = c)
    BY <1>2 DEF Send, Accepted, TypeOK
  <2> QED
    BY <2>1, <2>2
<1>3. ASSUME NEW c \in Closes, Close(c) PROVE Same
  BY <1>3 DEF History, Accepted, callVars, receiveVars, Close, CloseStore, CloseChannel, CloseAgain
<1>4. ASSUME NEW r \in Receivers, Dequeue(r) PROVE Same
  <2>1. History' = History
    BY <1>4, ReceiveKeepsHistory DEF Dequeue, Receive, History, TypeOK
  <2> QED
    BY <1>4, <2>1 DEF Dequeue, Receive, Accepted
<1>5. ASSUME NEW r \in Receivers, DequeueFalse(r) \/ TryDequeueFalse(r) PROVE Same
  BY <1>5 DEF History, Accepted, callVars, DequeueFalse, TryDequeueFalse
<1>6. CASE UNCHANGED vars
  BY <1>6 DEF History, Accepted, vars
<1> QED
  BY <1>1, <1>2, <1>3, <1>4, <1>5, <1>6 DEF Next, Enqueue, TryEnqueue, Calls, Receivers

LEMMA HistoryType == TypeOK => History \in Seq(Calls)
  BY ConcatProperties DEF TypeOK, History

LEMMA AcceptedStep ==
  TypeOK /\ AcceptedExactlyOnce /\ [Next]_vars => AcceptedExactlyOnce'
<1> SUFFICES ASSUME TypeOK, AcceptedExactlyOnce, [Next]_vars PROVE AcceptedExactlyOnce'
  OBVIOUS
<1>1. CASE History' = History /\ \A c \in Calls : Accepted(c)' <=> Accepted(c)
  BY <1>1 DEF AcceptedExactlyOnce
<1>2. ASSUME NEW c \in Calls, History' = Append(History, c), ~Accepted(c),
             \A d \in Calls : Accepted(d)' <=> (Accepted(d) \/ d = c)
      PROVE  AcceptedExactlyOnce'
  <2> DEFINE h == History
             g == Append(h, c)
  <2>1. h \in Seq(Calls)
    BY HistoryType
  <2>2. /\ DOMAIN h = 1..Len(h) /\ Len(h) \in Nat
        /\ DOMAIN g = 1..(Len(h) + 1)
        /\ g[Len(h) + 1] = c
        /\ \A i \in 1..Len(h) : g[i] = h[i] /\ h[i] \in Calls
    BY <2>1, AppendProperties, LenProperties
  <2>3. \A d \in Calls : Accepted(d) <=> \E i \in 1..Len(h) : h[i] = d
    BY <2>2 DEF AcceptedExactlyOnce
  <2>4. \A i, j \in 1..Len(h) : h[i] = h[j] => i = j
    BY <2>2 DEF AcceptedExactlyOnce
  <2>5. \A i \in 1..Len(h) : h[i] # c
    BY <1>2, <2>3
  <2>6. \A d \in Calls : Accepted(d)' <=> \E i \in DOMAIN g : g[i] = d
    BY <1>2, <2>2, <2>3
  <2>7. \A i, j \in DOMAIN g : g[i] = g[j] => i = j
    BY <2>2, <2>4, <2>5
  <2> QED
    BY <1>2, <2>6, <2>7 DEF AcceptedExactlyOnce
<1> QED
  BY <1>1, <1>2, HistoryStep

\* Once a receive has reported the end, the channel is closed and stays empty.
LEMMA DrainStep == TypeOK /\ OnceInv /\ DrainInv /\ [Next]_vars => DrainInv'
<1> SUFFICES ASSUME TypeOK, OnceInv, DrainInv, [Next]_vars PROVE DrainInv'
  OBVIOUS
<1>1. ASSUME NEW c \in Calls, Load(c) \/ EnqueueRecover(c) \/ TryEnqueueFull(c) \/ TryEnqueuePanic(c)
      PROVE  DrainInv'
  BY <1>1 DEF DrainInv, closeVars, receiveVars, Load, EnqueueRecover,
              TryEnqueueFull, TryEnqueuePanic
<1>2. ASSUME NEW c \in Calls, Send(c) PROVE DrainInv'
  BY <1>2 DEF DrainInv, receiveVars, closeVars, Send
<1>3. ASSUME NEW c \in Closes, Close(c) PROVE DrainInv'
  BY <1>3 DEF DrainInv, callVars, receiveVars, Close, CloseStore, CloseChannel, CloseAgain
<1>4. ASSUME NEW r \in Receivers, Dequeue(r) PROVE DrainInv'
  BY <1>4 DEF DrainInv, closeVars, Dequeue, Receive
<1>5. ASSUME NEW r \in Drainers, DequeueFalse(r) PROVE DrainInv'
  BY <1>5 DEF DrainInv, callVars, closeVars, TypeOK, DequeueFalse
<1>6. ASSUME NEW r \in Pollers, TryDequeueFalse(r) PROVE DrainInv'
  <2>1. r \notin Drainers
    BY CallsAssumption
  <2> QED
    BY <1>6, <2>1 DEF DrainInv, callVars, closeVars, TypeOK, Receivers, TryDequeueFalse
<1>7. CASE UNCHANGED vars
  BY <1>7 DEF DrainInv, vars
<1> QED
  BY <1>1, <1>2, <1>3, <1>4, <1>5, <1>6, <1>7 DEF Next, Enqueue, TryEnqueue, Calls, Receivers

(***************************************************************************)
(* The inductive invariant holds.                                          *)
(***************************************************************************)
THEOREM Invariance == Spec => []IInv
<1>1. IInv /\ [Next]_vars => IInv'
  BY TypeStep, OnceStep, RefusedStep, AcceptedStep, DrainStep DEF IInv
<1> QED
  BY InitIInv, <1>1, PTL DEF Spec

(***************************************************************************)
(* A call returned nil exactly if its message entered the queue, once.     *)
(***************************************************************************)
THEOREM ExactlyOnce == Spec => []AcceptedExactlyOnce
<1>1. IInv => AcceptedExactlyOnce
  BY DEF IInv
<1> QED
  BY Invariance, <1>1, PTL

(***************************************************************************)
(* The flag is up whenever somebody has been refused because of the close, *)
(* so client.Enqueue always finds IsClosed() true.                         *)
(***************************************************************************)
THEOREM RefusedSeesFlag == Spec => []RefusedOnlyIfFlagUp
<1>1. IInv => RefusedOnlyIfFlagUp
  BY DEF IInv, OnceInv, RefusedInv, RefusedOnlyIfFlagUp
<1> QED
  BY Invariance, <1>1, PTL

(***************************************************************************)
(* Every Close that has returned leaves the channel sealed.                *)
(***************************************************************************)
THEOREM CloseSeals == Spec => []CloseReturnsSealed
<1>1. IInv => CloseReturnsSealed
  BY DEF IInv, OnceInv, CloseReturnsSealed
<1> QED
  BY Invariance, <1>1, PTL

(***************************************************************************)
(* A receive loop that has ended has seen every message that is accepted,  *)
(* then or later.                                                          *)
(***************************************************************************)
THEOREM DrainIsComplete == Spec => []DrainEndsComplete
<1>1. IInv => DrainEndsComplete
  <2> SUFFICES ASSUME IInv, NEW r \in Drainers, receiver[r] = "ended"
               PROVE  \A c \in Calls : Accepted(c) => \E i \in DOMAIN taken : taken[i] = c
    BY DEF DrainEndsComplete
  <2>1. ch = <<>>
    BY DEF IInv, DrainInv
  <2>2. History = taken
    BY <2>1, ConcatEmptySeq DEF IInv, TypeOK, History
  <2> QED
    BY <2>2 DEF IInv, AcceptedExactlyOnce
<1> QED
  BY Invariance, <1>1, PTL

(***************************************************************************)
(* The history only grows: the queue is first in, first out.               *)
(***************************************************************************)
THEOREM FirstInFirstOut == Spec => HistoryGrows
<1> DEFINE Grows == /\ Len(History) <= Len(History')
                    /\ \A i \in DOMAIN History : History'[i] = History[i]
<1>1. TypeOK /\ [Next]_vars => [Grows]_vars
  <2> SUFFICES ASSUME TypeOK, [Next]_vars PROVE Grows
    OBVIOUS
  <2>1. /\ History \in Seq(Calls) /\ Len(History) \in Nat
        /\ DOMAIN History = 1..Len(History)
    BY HistoryType, LenProperties
  <2>2. CASE History' = History
    BY <2>1, <2>2
  <2>3. ASSUME NEW c \in Calls, History' = Append(History, c) PROVE Grows
    BY <2>1, <2>3, AppendProperties
  <2> QED
    BY <2>2, <2>3, HistoryStep
<1> QED
  BY TypeCorrect, <1>1, PTL DEF Spec, HistoryGrows
===============================================================================
