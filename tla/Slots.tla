-------------------------------- MODULE Slots ---------------------------------
(***************************************************************************)
(* What an executor promises: Cap slots, a task is refused only when none  *)
(* is free, and a task that got a slot runs once and gives it back. No     *)
(* mutex, no channel, no goroutines.                                       *)
(***************************************************************************)
EXTENDS Integers

CONSTANTS Task, Cap

VARIABLES slot,  \* per task
          free   \* how many slots nobody has

vars == <<slot, free>>

Init == /\ slot = [t \in Task |-> "out"]
        /\ free = Cap

Accept(t) == /\ slot[t] = "out"
             /\ free > 0
             /\ slot' = [slot EXCEPT ![t] = "held"]
             /\ free' = free - 1

Refuse(t) == /\ slot[t] = "out"
             /\ free = 0
             /\ slot' = [slot EXCEPT ![t] = "refused"]
             /\ UNCHANGED free

Start(t) == /\ slot[t] = "held"
            /\ slot' = [slot EXCEPT ![t] = "running"]
            /\ UNCHANGED free

Release(t) == /\ slot[t] = "running"
              /\ slot' = [slot EXCEPT ![t] = "released"]
              /\ free' = free + 1

Next == \E t \in Task : Accept(t) \/ Refuse(t) \/ Start(t) \/ Release(t)

Spec == Init /\ [][Next]_vars
===============================================================================
