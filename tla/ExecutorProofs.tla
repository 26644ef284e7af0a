---------------------------- MODULE ExecutorProofs ----------------------------
(***************************************************************************)
(* Proofs about Executor for every finite set of tasks and every limit:    *)
(* size is exact, at most Cap tasks are outstanding, and the executor      *)
(* implements Slots.                                                       *)
(***************************************************************************)
EXTENDS Executor, FiniteSetTheorems, SequenceTheorems, TLAPS

Counted == {t \in Task : call[t] = "accepted" /\ work[t] # "done"}

\* Only the do that holds the mutex is between Lock and its unlock.
MutexOwner == \A t \in Task : call[t] \in {"locked", "sent"} <=> mutex = t

\* A task exists once it was sent, and is over only after do returned.
CallMatchesWork ==
  \A t \in Task : /\ work[t] = "none" <=> call[t] \notin {"sent", "accepted"}
                  /\ work[t] = "done" => call[t] = "accepted"

QueuedTasks == \A i \in DOMAIN queue : work[queue[i]] = "queued"

\* The place for a task that do has sent and not counted is free.
RoomForSent == /\ size <= Cap
               /\ \A t \in Task : call[t] = "sent" => size < Cap

IInv == /\ TypeOK /\ SizeCounts
        /\ MutexOwner /\ CallMatchesWork /\ QueuedTasks /\ RoomForSent

-------------------------------------------------------------------------------

\* The tasks counted are finitely many.
LEMMA CountedFinite == IsFiniteSet(Counted)
  BY TaskAssumption, FS_Subset DEF Counted

\* Without a do between its send and its unlock, size counts the tasks in flight.
LEMMA InFlightCounted ==
  ASSUME IInv, \A t \in Task : call[t] # "sent"
  PROVE  /\ InFlight = Counted
         /\ Cardinality(InFlight) = size
<1>1. InFlight = Counted
  BY DEF IInv, TypeOK, CallMatchesWork, InFlight, Counted, CallStates, WorkStates
<1> QED
  BY <1>1 DEF IInv, SizeCounts, Counted

\* While do is between them, its task is in flight besides the counted ones.
LEMMA InFlightSent ==
  ASSUME IInv, NEW t \in Task, call[t] = "sent"
  PROVE  Cardinality(InFlight) = size + 1
<1>1. \A u \in Task : call[u] = "sent" => u = t
  BY DEF IInv, MutexOwner
<1>2. InFlight = Counted \union {t} /\ t \notin Counted
  BY <1>1 DEF IInv, TypeOK, CallMatchesWork, InFlight, Counted, CallStates, WorkStates
<1>3. Cardinality(InFlight) = Cardinality(Counted) + 1
  BY <1>2, CountedFinite, FS_AddElement
<1> QED
  BY <1>3 DEF IInv, SizeCounts, Counted

\* The strengthened invariant bounds the tasks in flight.
LEMMA InvBounds == IInv => InFlightBounded
<1> SUFFICES ASSUME IInv PROVE InFlightBounded
  OBVIOUS
<1>1. CASE \A t \in Task : call[t] # "sent"
  BY <1>1, InFlightCounted DEF IInv, RoomForSent, InFlightBounded
<1>2. CASE \E t \in Task : call[t] = "sent"
  <2>1. PICK t \in Task : call[t] = "sent"
    BY <1>2
  <2>2. size \in Nat /\ size < Cap /\ Cap \in Nat
    BY <2>1, CapAssumption DEF IInv, TypeOK, RoomForSent
  <2> QED
    BY <2>1, <2>2, InFlightSent DEF InFlightBounded
<1> QED
  BY <1>1, <1>2

-------------------------------------------------------------------------------

\* The initial state satisfies the strengthened invariant.
LEMMA InitInv == Init => IInv
<1> SUFFICES ASSUME Init PROVE IInv
  OBVIOUS
<1>1. Counted = {} /\ Cardinality({}) = 0
  BY FS_EmptySet DEF Init, Counted
<1>2. SizeCounts
  BY <1>1 DEF Init, SizeCounts, Counted
<1>3. TypeOK
  <2>1. queue \in Seq(Task) /\ Len(queue) <= 1
    BY DEF Init
  <2>2. call \in [Task -> CallStates] /\ work \in [Task -> WorkStates]
    BY DEF Init, CallStates, WorkStates
  <2> QED
    BY <2>1, <2>2 DEF Init, TypeOK
<1>4. MutexOwner
  BY TaskAssumption DEF Init, MutexOwner
<1>5. CallMatchesWork /\ QueuedTasks
  BY DEF Init, CallMatchesWork, QueuedTasks
<1>6. RoomForSent
  BY CapAssumption DEF Init, RoomForSent
<1> QED
  BY <1>2, <1>3, <1>4, <1>5, <1>6 DEF IInv

\* A step that leaves size and the counted tasks alone keeps SizeCounts.
LEMMA SameCount ==
  ASSUME SizeCounts, size' = size, Counted' = Counted
  PROVE  SizeCounts'
  BY DEF SizeCounts, Counted

\* Every step keeps the strengthened invariant.
LEMMA StepInv == IInv /\ [Next]_vars => IInv'
<1> SUFFICES ASSUME IInv, [Next]_vars PROVE IInv'
  OBVIOUS
<1> USE TaskAssumption, CapAssumption DEF CallStates, WorkStates
<1>1. ASSUME NEW t \in Task, Begin(t) PROVE IInv'
  <2>1. Counted' = Counted
    BY <1>1 DEF IInv, TypeOK, Begin, Counted
  <2>2. SizeCounts'
    BY <1>1, <2>1, SameCount DEF IInv, Begin
  <2> QED
    BY <1>1, <2>2 DEF IInv, TypeOK, MutexOwner, CallMatchesWork, QueuedTasks, RoomForSent, Begin
<1>2. ASSUME NEW t \in Task, Lock(t) PROVE IInv'
  <2>1. Counted' = Counted
    BY <1>2 DEF IInv, TypeOK, Lock, Counted
  <2>2. SizeCounts'
    BY <1>2, <2>1, SameCount DEF IInv, Lock
  <2>3. MutexOwner'
    BY <1>2 DEF IInv, TypeOK, MutexOwner, Lock
  <2>4. CallMatchesWork' /\ QueuedTasks' /\ RoomForSent'
    BY <1>2 DEF IInv, TypeOK, CallMatchesWork, QueuedTasks, RoomForSent, Lock
  <2>5. call' \in [Task -> CallStates]
    BY <1>2 DEF IInv, TypeOK, Lock
  <2>6. TypeOK'
    BY <1>2, <2>5 DEF IInv, TypeOK, Lock
  <2> QED
    BY <2>2, <2>3, <2>4, <2>6 DEF IInv
<1>3. ASSUME NEW t \in Task, Send(t) PROVE IInv'
  <2>0. queue \in Seq(Task) /\ Len(queue) = 0
    BY <1>3 DEF IInv, TypeOK, Send
  <2>1. queue = <<>> /\ queue' = <<t>>
    BY <1>3, <2>0, EmptySeq DEF Send
  <2>2. TypeOK'
    BY <1>3, <2>1 DEF IInv, TypeOK, Send
  <2>3. Counted' = Counted
    BY <1>3 DEF IInv, TypeOK, CallMatchesWork, Send, Counted
  <2>4. SizeCounts'
    BY <1>3, <2>3, SameCount DEF IInv, Send
  <2>5. MutexOwner' /\ CallMatchesWork' /\ RoomForSent'
    BY <1>3 DEF IInv, TypeOK, MutexOwner, CallMatchesWork, RoomForSent, Send
  <2>6. QueuedTasks'
    BY <1>3, <2>1 DEF IInv, TypeOK, QueuedTasks, Send
  <2> QED
    BY <2>2, <2>4, <2>5, <2>6 DEF IInv
<1>4. ASSUME NEW t \in Task, CountAndUnlock(t) PROVE IInv'
  <2>1. Counted' = Counted \union {t} /\ t \notin Counted
    BY <1>4 DEF IInv, TypeOK, CallMatchesWork, CountAndUnlock, Counted
  <2>2. Cardinality(Counted') = Cardinality(Counted) + 1
    BY <2>1, CountedFinite, FS_AddElement
  <2>3. SizeCounts'
    BY <1>4, <2>2 DEF IInv, SizeCounts, CountAndUnlock, Counted
  <2>4. \A u \in Task : call[u] = "sent" => u = t
    BY <1>4 DEF IInv, MutexOwner, CountAndUnlock
  <2> QED
    BY <1>4, <2>3, <2>4
       DEF IInv, TypeOK, MutexOwner, CallMatchesWork, QueuedTasks, RoomForSent, CountAndUnlock
<1>5. ASSUME NEW t \in Task, RefuseAndUnlock(t) PROVE IInv'
  <2>1. Counted' = Counted
    BY <1>5 DEF IInv, TypeOK, RefuseAndUnlock, Counted
  <2>2. SizeCounts'
    BY <1>5, <2>1, SameCount DEF IInv, RefuseAndUnlock
  <2> QED
    BY <1>5, <2>2
       DEF IInv, TypeOK, MutexOwner, CallMatchesWork, QueuedTasks, RoomForSent, RefuseAndUnlock
<1>6. CASE Close
  <2>1. SizeCounts'
    BY <1>6, SameCount DEF IInv, Close, Counted
  <2> QED
    BY <1>6, <2>1
       DEF IInv, TypeOK, MutexOwner, CallMatchesWork, QueuedTasks, RoomForSent, Close
<1>7. CASE Forward
  <2> DEFINE t == Head(queue)
  <2>1. t \in Task /\ t = queue[1] /\ work[t] = "queued" /\ queue' = <<>>
    BY <1>7 DEF IInv, TypeOK, QueuedTasks, Forward
  <2>2. Counted' = Counted
    BY <1>7, <2>1 DEF IInv, TypeOK, Forward, Counted
  <2>3. SizeCounts'
    BY <1>7, <2>2, SameCount DEF IInv, Forward
  <2>4. TypeOK'
    BY <1>7, <2>1 DEF IInv, TypeOK, Forward
  <2>5. CallMatchesWork'
    BY <1>7, <2>1 DEF IInv, TypeOK, CallMatchesWork, Forward
  <2>6. MutexOwner' /\ RoomForSent'
    BY <1>7 DEF IInv, MutexOwner, RoomForSent, Forward
  <2>7. QueuedTasks'
    BY <2>1 DEF QueuedTasks
  <2> QED
    BY <2>3, <2>4, <2>5, <2>6, <2>7 DEF IInv
<1>8. CASE ForwarderExits
  <2>1. SizeCounts'
    BY <1>8, SameCount DEF IInv, ForwarderExits, Counted
  <2> QED
    BY <1>8, <2>1
       DEF IInv, TypeOK, MutexOwner, CallMatchesWork, QueuedTasks, RoomForSent, ForwarderExits
<1>9. ASSUME NEW t \in Task, TaskReturns(t) PROVE IInv'
  <2>1. Counted' = Counted
    BY <1>9 DEF IInv, TypeOK, TaskReturns, Counted
  <2>2. SizeCounts'
    BY <1>9, <2>1, SameCount DEF IInv, TaskReturns
  <2> QED
    BY <1>9, <2>2
       DEF IInv, TypeOK, MutexOwner, CallMatchesWork, QueuedTasks, RoomForSent, TaskReturns
<1>10. ASSUME NEW t \in Task, Done(t) PROVE IInv'
  <2>1. call[t] = "accepted"
    BY <1>10 DEF IInv, TypeOK, MutexOwner, CallMatchesWork, Done
  <2>2. Counted' = Counted \ {t} /\ t \in Counted
    BY <1>10, <2>1 DEF IInv, TypeOK, Done, Counted
  <2>3. Cardinality(Counted') = Cardinality(Counted) - 1
    BY <2>2, CountedFinite, FS_RemoveElement
  <2>4. SizeCounts'
    BY <1>10, <2>3 DEF IInv, SizeCounts, Done, Counted
  <2>5. Cardinality(Counted) \in Nat /\ Cardinality(Counted) # 0
    BY <2>2, CountedFinite, FS_CardinalityType, FS_EmptySet
  <2>6. size' \in Nat /\ size' = size - 1
    BY <1>10, <2>5 DEF IInv, SizeCounts, Counted, Done
  <2> QED
    BY <1>10, <2>1, <2>4, <2>6
       DEF IInv, TypeOK, MutexOwner, CallMatchesWork, QueuedTasks, RoomForSent, Done
<1>11. CASE UNCHANGED vars
  <2>1. SizeCounts'
    BY <1>11, SameCount DEF IInv, vars, Counted
  <2> QED
    BY <1>11, <2>1
       DEF IInv, TypeOK, MutexOwner, CallMatchesWork, QueuedTasks, RoomForSent, vars
<1> QED
  BY <1>1, <1>2, <1>3, <1>4, <1>5, <1>6, <1>7, <1>8, <1>9, <1>10, <1>11
     DEF Next, Do, Run, Loop

\* The strengthened invariant holds in every reachable state.
THEOREM InvHolds == Spec => []IInv
  BY InitInv, StepInv, PTL DEF Spec

\* The executor's state keeps its type: size, in particular, never goes negative.
THEOREM TypeCorrect == Spec => []TypeOK
<1>1. IInv => TypeOK
  BY DEF IInv
<1> QED
  BY <1>1, InvHolds, PTL

\* size is the number of accepted tasks that have not passed done.
THEOREM SizeIsExact == Spec => []SizeCounts
<1>1. IInv => SizeCounts
  BY DEF IInv
<1> QED
  BY <1>1, InvHolds, PTL

\* No more than cap sends are ever outstanding.
THEOREM LimitRespected == Spec => []InFlightBounded
  BY InvBounds, InvHolds, PTL

-------------------------------------------------------------------------------

\* The initial state is the initial state of Slots.
LEMMA InitRefines == Init => S!Init
<1> SUFFICES ASSUME Init PROVE S!Init
  OBVIOUS
<1>1. InFlight = {}
  BY DEF Init, InFlight
<1>2. Cap - Cardinality(InFlight) = Cap
  BY <1>1, FS_EmptySet, CapAssumption
<1> QED
  BY <1>2 DEF Init, S!Init, SlotOf

\* Every step is a step of Slots or leaves the slots as they are.
LEMMA StepRefines == IInv /\ [Next]_vars => [S!Next]_(S!vars)
<1> DEFINE slot == [t \in Task |-> SlotOf(t)]
           free == Cap - Cardinality(InFlight)
<1> SUFFICES ASSUME IInv, [Next]_vars PROVE S!Next \/ (slot' = slot /\ free' = free)
  BY DEF S!vars
<1> USE DEF CallStates, WorkStates
<1>0. IsFiniteSet(InFlight) /\ Cardinality(InFlight) \in Nat
  BY TaskAssumption, FS_Subset, FS_CardinalityType DEF InFlight
<1>1. ASSUME NEW t \in Task, Begin(t) \/ Lock(t) \/ CountAndUnlock(t) \/ TaskReturns(t)
      PROVE  slot' = slot /\ free' = free
  <2>1. InFlight' = InFlight
    BY <1>1 DEF IInv, TypeOK, InFlight, Begin, Lock, CountAndUnlock, TaskReturns
  <2>2. slot' = slot
    BY <1>1 DEF IInv, TypeOK, CallMatchesWork, SlotOf, Begin, Lock, CountAndUnlock, TaskReturns
  <2> QED
    BY <2>1, <2>2
<1>2. ASSUME NEW t \in Task, Send(t) PROVE S!Accept(t)
  <2>1. \A u \in Task : call[u] # "sent"
    BY <1>2 DEF IInv, MutexOwner, Send
  <2>2. size < Cap /\ size \in Nat /\ Cap \in Nat
    BY <1>2, CapAssumption DEF IInv, TypeOK, RoomForSent, Send
  <2>3. free > 0
    BY <2>1, <2>2, InFlightCounted
  <2>4. InFlight' = InFlight \union {t} /\ t \notin InFlight
    BY <1>2 DEF IInv, TypeOK, CallMatchesWork, InFlight, Send
  <2>5. Cardinality(InFlight') = Cardinality(InFlight) + 1
    BY <1>0, <2>4, FS_AddElement
  <2>6. free' = free - 1
    BY <1>0, <2>2, <2>5
  <2>7. slot[t] = "out" /\ slot' = [slot EXCEPT ![t] = "held"]
    BY <1>2 DEF IInv, TypeOK, CallMatchesWork, SlotOf, Send
  <2> QED
    BY <2>3, <2>6, <2>7 DEF S!Accept
<1>3. ASSUME NEW t \in Task, RefuseAndUnlock(t) PROVE S!Refuse(t)
  <2>1. \A u \in Task : call[u] # "sent"
    BY <1>3 DEF IInv, MutexOwner, RefuseAndUnlock
  <2>2. free = 0
    BY <1>3, <2>1, InFlightCounted, CapAssumption DEF RefuseAndUnlock
  <2>3. InFlight' = InFlight
    BY <1>3 DEF InFlight, RefuseAndUnlock
  <2>4. slot[t] = "out" /\ slot' = [slot EXCEPT ![t] = "refused"]
    BY <1>3 DEF IInv, TypeOK, CallMatchesWork, SlotOf, RefuseAndUnlock
  <2> QED
    BY <2>2, <2>3, <2>4 DEF S!Refuse
<1>4. CASE Forward
  <2> DEFINE t == Head(queue)
  <2>1. t \in Task /\ t = queue[1] /\ work[t] = "queued"
    BY <1>4 DEF IInv, TypeOK, QueuedTasks, Forward
  <2>2. call[t] # "refused"
    BY <2>1 DEF IInv, CallMatchesWork
  <2>3. work' = [work EXCEPT ![t] = "running"] /\ call' = call
    BY <1>4 DEF Forward
  <2> HIDE DEF t
  <2>4. slot[t] = "held" /\ slot' = [slot EXCEPT ![t] = "running"]
    BY <2>1, <2>2, <2>3 DEF IInv, TypeOK, SlotOf
  <2>5. InFlight' = InFlight
    BY <2>1, <2>3 DEF IInv, TypeOK, InFlight
  <2>6. S!Start(t)
    BY <2>4, <2>5 DEF S!Start
  <2> QED
    BY <2>1, <2>6 DEF S!Next
<1>5. ASSUME NEW t \in Task, Done(t) PROVE S!Release(t)
  <2>1. InFlight' = InFlight \ {t} /\ t \in InFlight
    BY <1>5 DEF IInv, TypeOK, InFlight, Done
  <2>2. Cardinality(InFlight') = Cardinality(InFlight) - 1
    BY <1>0, <2>1, FS_RemoveElement
  <2>3. free' = free + 1
    BY <1>0, <2>2, CapAssumption
  <2>4. slot[t] = "running" /\ slot' = [slot EXCEPT ![t] = "released"]
    BY <1>5 DEF IInv, TypeOK, CallMatchesWork, SlotOf, Done
  <2> QED
    BY <2>3, <2>4 DEF S!Release
<1>6. CASE Close \/ ForwarderExits \/ UNCHANGED vars
  BY <1>6 DEF SlotOf, InFlight, Close, ForwarderExits, vars
<1> QED
  BY <1>1, <1>2, <1>3, <1>4, <1>5, <1>6 DEF Next, Do, Run, Loop, S!Next

\* The executor implements the slots: a task is accepted only while fewer than cap
\* are outstanding and refused only when cap are, and none runs twice.
THEOREM Refinement == Spec => ImplementsSlots
  BY InitRefines, StepRefines, InvHolds, PTL DEF Spec, ImplementsSlots, S!Spec
===============================================================================
