------------------------------- MODULE Executor -------------------------------
(***************************************************************************)
(* The executor of internal/core/executor.go, which runs the sends of the  *)
(* client: do, close, the forwarder goroutine (loop) and one goroutine per *)
(* task (run, done). A task is one call of do with its function. The       *)
(* client calls do from its loop goroutine only; here the calls may        *)
(* overlap, as the mutex allows.                                           *)
(*                                                                         *)
(* do keeps the mutex while it waits for room in the channel. The other    *)
(* critical sections do not wait and are one step each.                    *)
(***************************************************************************)
EXTENDS Integers, Sequences, FiniteSets

CONSTANTS Task,
          Cap,     \* executor.cap
          NoTask   \* nobody is in do's critical section

ASSUME TaskAssumption == IsFiniteSet(Task) /\ NoTask \notin Task
ASSUME CapAssumption == Cap \in Nat \ {0}

VARIABLES queue,   \* the channel of tasks, with room for one
          closed,  \* the channel is closed
          mutex,   \* whose do holds the mutex
          size,    \* executor.size
          loop,    \* the forwarder: "receiving" or "exited"
          call,    \* where the call of do is, or what it returned
          work     \* where the task is once it was sent

vars == <<queue, closed, mutex, size, loop, call, work>>

CallStates == {"idle", "waiting", "locked", "sent", "accepted", "refused"}
WorkStates == {"none", "queued", "running", "returned", "done"}

Init == /\ queue = <<>>
        /\ closed = FALSE
        /\ mutex = NoTask
        /\ size = 0
        /\ loop = "receiving"
        /\ call = [t \in Task |-> "idle"]
        /\ work = [t \in Task |-> "none"]

\* Tasks that count against the limit: sent, and not yet through done.
InFlight == {t \in Task : work[t] \in {"queued", "running", "returned"}}

-------------------------------------------------------------------------------
(* Faulty variants of the actions below. No specification uses them: put   *)
(* in the place of the action they vary, each must break a property.       *)

\* One send too many before do refuses.
Send_OffByOne(t) == /\ call[t] = "locked"
                    /\ size <= Cap
                    /\ Len(queue) < 1
                    /\ queue' = Append(queue, t)
                    /\ call' = [call EXCEPT ![t] = "sent"]
                    /\ work' = [work EXCEPT ![t] = "queued"]
                    /\ UNCHANGED <<closed, mutex, size, loop>>

\* do does not count the task it sent.
CountAndUnlock_Forgets(t) == /\ call[t] = "sent"
                             /\ mutex' = NoTask
                             /\ call' = [call EXCEPT ![t] = "accepted"]
                             /\ UNCHANGED <<queue, closed, size, loop, work>>

\* do refuses when one place is left.
RefuseAndUnlock_TooEarly(t) == /\ call[t] = "locked"
                               /\ size + 1 >= Cap
                               /\ mutex' = NoTask
                               /\ call' = [call EXCEPT ![t] = "refused"]
                               /\ UNCHANGED <<queue, closed, size, loop, work>>

\* The forwarder takes the mutex before it starts a task.
Forward_TakesMutex == /\ loop = "receiving"
                      /\ queue # <<>>
                      /\ mutex = NoTask
                      /\ queue' = Tail(queue)
                      /\ work' = [work EXCEPT ![Head(queue)] = "running"]
                      /\ UNCHANGED <<closed, mutex, size, loop, call>>

\* The forwarder leaves on close, whatever is in the channel.
ForwarderExits_Undrained == /\ loop = "receiving"
                            /\ closed
                            /\ loop' = "exited"
                            /\ UNCHANGED <<queue, closed, mutex, size, call, work>>

-------------------------------------------------------------------------------
(* do                                                                      *)

\* A send on the closed channel would panic: the client closes after its last do.
Begin(t) == /\ call[t] = "idle"
            /\ ~closed
            /\ call' = [call EXCEPT ![t] = "waiting"]
            /\ UNCHANGED <<queue, closed, mutex, size, loop, work>>

Lock(t) == /\ call[t] = "waiting"
           /\ mutex = NoTask
           /\ mutex' = t
           /\ call' = [call EXCEPT ![t] = "locked"]
           /\ UNCHANGED <<queue, closed, size, loop, work>>

Send(t) == /\ call[t] = "locked"
           /\ size # Cap
           /\ Len(queue) < 1
           /\ queue' = Append(queue, t)
           /\ call' = [call EXCEPT ![t] = "sent"]
           /\ work' = [work EXCEPT ![t] = "queued"]
           /\ UNCHANGED <<closed, mutex, size, loop>>

CountAndUnlock(t) == /\ call[t] = "sent"
                     /\ size' = size + 1
                     /\ mutex' = NoTask
                     /\ call' = [call EXCEPT ![t] = "accepted"]
                     /\ UNCHANGED <<queue, closed, loop, work>>

RefuseAndUnlock(t) == /\ call[t] = "locked"
                      /\ size = Cap
                      /\ mutex' = NoTask
                      /\ call' = [call EXCEPT ![t] = "refused"]
                      /\ UNCHANGED <<queue, closed, size, loop, work>>

-------------------------------------------------------------------------------
(* close, loop, run and done                                               *)

Close == /\ ~closed
         /\ \A t \in Task : call[t] \in {"idle", "accepted", "refused"}
         /\ closed' = TRUE
         /\ UNCHANGED <<queue, mutex, size, loop, call, work>>

Forward == /\ loop = "receiving"
           /\ queue # <<>>
           /\ queue' = Tail(queue)
           /\ work' = [work EXCEPT ![Head(queue)] = "running"]
           /\ UNCHANGED <<closed, mutex, size, loop, call>>

\* The range ends when the channel is closed and empty.
ForwarderExits == /\ loop = "receiving"
                  /\ closed /\ queue = <<>>
                  /\ loop' = "exited"
                  /\ UNCHANGED <<queue, closed, mutex, size, call, work>>

TaskReturns(t) == /\ work[t] = "running"
                  /\ work' = [work EXCEPT ![t] = "returned"]
                  /\ UNCHANGED <<queue, closed, mutex, size, loop, call>>

Done(t) == /\ work[t] = "returned"
           /\ mutex = NoTask
           /\ size' = size - 1
           /\ work' = [work EXCEPT ![t] = "done"]
           /\ UNCHANGED <<queue, closed, mutex, loop, call>>

-------------------------------------------------------------------------------

Do(t) == Lock(t) \/ Send(t) \/ CountAndUnlock(t) \/ RefuseAndUnlock(t)

Run(t) == TaskReturns(t) \/ Done(t)

Loop == Forward \/ ForwarderExits

Next == \/ \E t \in Task : Begin(t) \/ Do(t) \/ Run(t)
        \/ Close
        \/ Loop

Spec == Init /\ [][Next]_vars

\* Goroutines are scheduled and the mutex is handed on.  Calls are finite in
\* number, so nobody can take the mutex for ever: weak fairness is enough.  The
\* client's sends return (Client.tla), so tasks do.
Fairness == /\ \A t \in Task : WF_vars(Do(t)) /\ WF_vars(Run(t))
            /\ WF_vars(Loop)

FairSpec == Spec /\ Fairness

-------------------------------------------------------------------------------
(* Properties                                                              *)

\* Every variable has its type; size never goes below zero.
TypeOK == /\ queue \in Seq(Task) /\ Len(queue) <= 1
          /\ closed \in BOOLEAN
          /\ mutex \in Task \union {NoTask}
          /\ size \in Nat
          /\ loop \in {"receiving", "exited"}
          /\ call \in [Task -> CallStates]
          /\ work \in [Task -> WorkStates]

\* size, which do compares with cap by #, is the number of accepted tasks that
\* have not passed done, even while a task runs before do has counted it.
SizeCounts == size = Cardinality({t \in Task : call[t] = "accepted" /\ work[t] # "done"})

\* At most cap sends are outstanding, the one do is still handing over included.
InFlightBounded == Cardinality(InFlight) <= Cap

\* A call of do comes back, although it keeps the mutex that every finishing task
\* needs while it waits for the channel: the loop goroutine cannot hang in do.
DoReturns == \A t \in Task : call[t] = "waiting" ~> call[t] \in {"accepted", "refused"}

\* An accepted task runs and gives its place back, also when the channel was
\* closed while the task was still in it.
AcceptedFinishes == \A t \in Task : call[t] = "accepted" ~> work[t] = "done"

SlotOf(t) == IF call[t] = "refused" THEN "refused"
             ELSE IF work[t] = "none" THEN "out"
             ELSE IF work[t] = "queued" THEN "held"
             ELSE IF work[t] = "done" THEN "released"
             ELSE "running"

S == INSTANCE Slots WITH slot <- [t \in Task |-> SlotOf(t)],
                         free <- Cap - Cardinality(InFlight)

\* The executor hands out cap slots: a task takes one when it is sent and gives it
\* back in done, and do refuses only when all of them are held.
ImplementsSlots == S!Spec
===============================================================================
