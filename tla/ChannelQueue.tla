----------------------------- MODULE ChannelQueue -----------------------------
(***************************************************************************)
(* The in-memory queue of the SDK, internal/queue/channel.go: a buffered   *)
(* Go channel, an atomic `closed` flag that callers read before they send, *)
(* and a Close that sets the flag and closes the channel in two steps      *)
(* under a sync.Once. A call of Enqueue or TryEnqueue is two steps, the    *)
(* read of the flag and the send, so a Close may run between them.         *)
(*                                                                         *)
(* An element of Enqueues or TryEnqueues is one call and stands also for   *)
(* the message that it carries. The Go scheduler serves blocked senders in *)
(* FIFO order; here any of them may go next.                               *)
(***************************************************************************)
EXTENDS Integers, Sequences

CONSTANTS Enqueues,      \* calls of Enqueue
          TryEnqueues,   \* calls of TryEnqueue
          Closes,        \* calls of Close
          Drainers,      \* consumers that receive until told the queue is closed
          Pollers,       \* consumers that call TryDequeue until it returns false
          Capacity       \* config.Capacity, zero or negative selects the default

Calls == Enqueues \union TryEnqueues
Receivers == Drainers \union Pollers

ASSUME CallsAssumption == /\ Enqueues \intersect TryEnqueues = {}
                          /\ Drainers \intersect Pollers = {}

ASSUME CapacityAssumption == Capacity \in Int

\* NewChannelQueue and NewChannelQueueWithConfig replace a capacity that a
\* buffer cannot have by the default.
DefaultCapacity == 100
BufferCapacity == IF Capacity <= 0 THEN DefaultCapacity ELSE Capacity

VARIABLES
  ch,        \* the buffer of q.ch
  chClosed,  \* close(q.ch) has run
  closed,    \* q.closed, the atomic flag
  once,      \* q.closeOnce: "fresh", "running" or "done"
  call,      \* where each call of Enqueue or TryEnqueue is, or what it returned
  closer,    \* where each call of Close is
  taken,     \* history: the messages received, in order
  receiver   \* "receiving", or "ended" once a receive returned false

callVars == <<call, ch>>
closeVars == <<chClosed, closed, once, closer>>
receiveVars == <<taken, receiver>>
vars == <<ch, chClosed, closed, once, call, closer, taken, receiver>>

Init == /\ ch = <<>>
        /\ chClosed = FALSE
        /\ closed = FALSE
        /\ once = "fresh"
        /\ call = [c \in Calls |-> "idle"]
        /\ closer = [c \in Closes |-> "idle"]
        /\ taken = <<>>
        /\ receiver = [r \in Receivers |-> "receiving"]

-------------------------------------------------------------------------------
(* Faulty variants of the actions below. No specification uses them: put   *)
(* in the place of the action they vary, each must break a property.       *)

\* Enqueue without its deferred recover.
EnqueueRecover_Crashes(c) == /\ call[c] = "sending"
                             /\ chClosed
                             /\ call' = [call EXCEPT ![c] = "panic"]
                             /\ UNCHANGED <<ch, closeVars, receiveVars>>

\* The recover forgets to set the named result.
EnqueueRecover_ReportsNil(c) == /\ call[c] = "sending"
                                /\ chClosed
                                /\ call' = [call EXCEPT ![c] = "nil"]
                                /\ UNCHANGED <<ch, closeVars, receiveVars>>

\* Close closes the channel first and would set the flag second.
CloseStore_ChannelFirst(c) == /\ closer[c] = "idle"
                              /\ once = "fresh"
                              /\ once' = "running"
                              /\ chClosed' = TRUE
                              /\ closer' = [closer EXCEPT ![c] = "stored"]
                              /\ UNCHANGED <<closed, callVars, receiveVars>>

\* Close sets the flag and forgets the channel.
CloseChannel_Forgotten(c) == /\ closer[c] = "stored"
                             /\ once' = "done"
                             /\ closer' = [closer EXCEPT ![c] = "returned"]
                             /\ UNCHANGED <<chClosed, closed, callVars, receiveVars>>

\* A test of the flag in the place of the sync.Once.
CloseAgain_TestsFlag(c) == /\ closer[c] = "idle"
                           /\ closed
                           /\ closer' = [closer EXCEPT ![c] = "returned"]
                           /\ UNCHANGED <<chClosed, closed, once, callVars, receiveVars>>

\* A message is received from the channel and not handed to the caller.
Dequeue_Drops(r) == /\ receiver[r] = "receiving"
                    /\ ch # <<>>
                    /\ ch' = Tail(ch)
                    /\ UNCHANGED <<call, closeVars, receiveVars>>

\* The end of the queue decided by the flag and not by the channel.
DequeueFalse_TestsFlag(r) == /\ receiver[r] = "receiving"
                             /\ closed
                             /\ ch = <<>>
                             /\ receiver' = [receiver EXCEPT ![r] = "ended"]
                             /\ UNCHANGED <<taken, callVars, closeVars>>

-------------------------------------------------------------------------------
(* Enqueue and TryEnqueue                                                  *)

\* Both begin with the load of the flag.
Load(c) == /\ call[c] = "idle"
           /\ call' = [call EXCEPT ![c] = IF closed THEN "ErrQueueClosed" ELSE "sending"]
           /\ UNCHANGED <<ch, closeVars, receiveVars>>

\* A channel send that succeeds.
Send(c) == /\ call[c] = "sending"
           /\ ~chClosed
           /\ Len(ch) < BufferCapacity
           /\ ch' = Append(ch, c)
           /\ call' = [call EXCEPT ![c] = "nil"]
           /\ UNCHANGED <<closeVars, receiveVars>>

\* A send on a closed channel panics, also when the sender was blocked on a full
\* buffer at the time of the close.  Enqueue recovers and returns an error.
EnqueueRecover(c) == /\ call[c] = "sending"
                     /\ chClosed
                     /\ call' = [call EXCEPT ![c] = "ErrQueueClosed"]
                     /\ UNCHANGED <<ch, closeVars, receiveVars>>

\* The default case of the select of TryEnqueue.
TryEnqueueFull(c) == /\ call[c] = "sending"
                     /\ ~chClosed
                     /\ Len(ch) >= BufferCapacity
                     /\ call' = [call EXCEPT ![c] = "ErrQueueFull"]
                     /\ UNCHANGED <<ch, closeVars, receiveVars>>

\* TryEnqueue has no recover: the panic reaches its caller.
TryEnqueuePanic(c) == /\ call[c] = "sending"
                      /\ chClosed
                      /\ call' = [call EXCEPT ![c] = "panic"]
                      /\ UNCHANGED <<ch, closeVars, receiveVars>>

Enqueue(c) == Load(c) \/ Send(c) \/ EnqueueRecover(c)
TryEnqueue(c) == Load(c) \/ Send(c) \/ TryEnqueueFull(c) \/ TryEnqueuePanic(c)

-------------------------------------------------------------------------------
(* Close: the function given to closeOnce.Do, and the calls it makes wait. *)

CloseStore(c) == /\ closer[c] = "idle"
                 /\ once = "fresh"
                 /\ once' = "running"
                 /\ closed' = TRUE
                 /\ closer' = [closer EXCEPT ![c] = "stored"]
                 /\ UNCHANGED <<chClosed, callVars, receiveVars>>

CloseChannel(c) == /\ closer[c] = "stored"
                   /\ chClosed' = TRUE
                   /\ once' = "done"
                   /\ closer' = [closer EXCEPT ![c] = "returned"]
                   /\ UNCHANGED <<closed, callVars, receiveVars>>

\* closeOnce.Do returns at once when the function has run, and waits while it runs.
CloseAgain(c) == /\ closer[c] = "idle"
                 /\ once = "done"
                 /\ closer' = [closer EXCEPT ![c] = "returned"]
                 /\ UNCHANGED <<chClosed, closed, once, callVars, receiveVars>>

Close(c) == CloseStore(c) \/ CloseChannel(c) \/ CloseAgain(c)

-------------------------------------------------------------------------------
(* Dequeue, TryDequeue and the receives on Channel() and Drain().          *)

\* The effect on the channel of a receive that yields a message, Head(ch).
Receive == /\ ch # <<>>
           /\ ch' = Tail(ch)
           /\ UNCHANGED <<call, closeVars>>

Dequeue(r) == /\ receiver[r] = "receiving"
              /\ Receive
              /\ taken' = Append(taken, Head(ch))
              /\ UNCHANGED receiver

\* A blocking receive yields false when the channel is closed and empty.
DequeueFalse(r) == /\ receiver[r] = "receiving"
                   /\ chClosed
                   /\ ch = <<>>
                   /\ receiver' = [receiver EXCEPT ![r] = "ended"]
                   /\ UNCHANGED <<taken, callVars, closeVars>>

\* TryDequeue yields false whenever the channel is empty.
TryDequeueFalse(r) == /\ receiver[r] = "receiving"
                      /\ ch = <<>>
                      /\ receiver' = [receiver EXCEPT ![r] = "ended"]
                      /\ UNCHANGED <<taken, callVars, closeVars>>

-------------------------------------------------------------------------------
Next == \/ \E c \in Enqueues : Enqueue(c)
        \/ \E c \in TryEnqueues : TryEnqueue(c)
        \/ \E c \in Closes : Close(c)
        \/ \E r \in Receivers : Dequeue(r)
        \/ \E r \in Drainers : DequeueFalse(r)
        \/ \E r \in Pollers : TryDequeueFalse(r)

\* Goroutines that can run do run: once made, a call of Enqueue or TryEnqueue and
\* a call of Close take their next step.  Nobody has to call, and nobody has to
\* receive: a consumer may stop for good.
Fairness == /\ \A c \in Enqueues : WF_vars(Send(c) \/ EnqueueRecover(c))
            /\ \A c \in TryEnqueues : WF_vars(Send(c) \/ TryEnqueueFull(c) \/ TryEnqueuePanic(c))
            /\ \A c \in Closes : WF_vars(CloseChannel(c))

Spec == Init /\ [][Next]_vars

FairSpec == Spec /\ Fairness

-------------------------------------------------------------------------------
Results == {"nil", "ErrQueueClosed", "ErrQueueFull", "panic"}

Accepted(c) == call[c] = "nil"

\* Every message that was ever accepted, oldest first.
History == taken \o ch

(***************************************************************************)
(* Type invariant.  The codomain for Enqueues has no "panic" and no        *)
(* "ErrQueueFull": the recover of Enqueue turns every panic into an error, *)
(* and Enqueue never gives up on a full queue.                             *)
(***************************************************************************)
TypeOK == /\ ch \in Seq(Calls)
          /\ chClosed \in BOOLEAN
          /\ closed \in BOOLEAN
          /\ once \in {"fresh", "running", "done"}
          /\ call \in [Calls -> {"idle", "sending"} \union Results]
          /\ \A c \in Enqueues : call[c] \notin {"ErrQueueFull", "panic"}
          /\ closer \in [Closes -> {"idle", "stored", "returned"}]
          /\ taken \in Seq(Calls)
          /\ receiver \in [Receivers -> {"receiving", "ended"}]

(***************************************************************************)
(* A call returned nil exactly if its message entered the queue, and it    *)
(* entered it once: no message is both accepted and reported as refused    *)
(* when a Close races the send (channel.go:75-83), none is lost or         *)
(* doubled.                                                                *)
(***************************************************************************)
AcceptedExactlyOnce ==
  /\ \A c \in Calls : Accepted(c) <=> \E i \in DOMAIN History : History[i] = c
  /\ \A i, j \in DOMAIN History : History[i] = History[j] => i = j

(***************************************************************************)
(* Whoever was refused because of the close can see that the queue is      *)
(* closed: client.Enqueue relies on IsClosed() to translate the error      *)
(* (analytics.go:240-244), so the flag must be up before the channel       *)
(* closes.                                                                 *)
(***************************************************************************)
RefusedOnlyIfFlagUp ==
  (chClosed \/ \E c \in Calls : call[c] \in {"ErrQueueClosed", "panic"}) => closed

(***************************************************************************)
(* A call of Close that returned, the first or a later one, leaves a       *)
(* sealed channel: the sync.Once makes a second caller wait for the first. *)
(***************************************************************************)
CloseReturnsSealed ==
  \A c \in Closes : closer[c] = "returned" => closed /\ chClosed

(***************************************************************************)
(* When a receive loop such as `range c.queue.Drain()` has ended, every    *)
(* message that was accepted, or ever will be, has been received.          *)
(***************************************************************************)
DrainEndsComplete ==
  (\E r \in Drainers : receiver[r] = "ended") =>
     \A c \in Calls : Accepted(c) => \E i \in DOMAIN taken : taken[i] = c

(***************************************************************************)
(* The queue only ever appends to its history: whatever the interleaving   *)
(* of senders, receivers and Close, messages leave in the order they       *)
(* entered.                                                                *)
(***************************************************************************)
HistoryGrows ==
  [][ /\ Len(History) <= Len(History')
      /\ \A i \in DOMAIN History : History'[i] = History[i] ]_vars

(***************************************************************************)
(* A Close releases every caller: one blocked on a full buffer returns     *)
(* even if no consumer ever receives again.                                *)
(***************************************************************************)
CloseReleasesCallers ==
  \A c \in Calls : (closed /\ call[c] = "sending") ~> (call[c] \in Results)

(***************************************************************************)
(* channel.go:9 calls the queue goroutine-safe.  Under that reading a      *)
(* TryEnqueue that races a Close returns an error.                         *)
(***************************************************************************)
TryEnqueueNeverPanics == \A c \in TryEnqueues : call[c] # "panic"

===============================================================================
