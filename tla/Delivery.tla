------------------------------- MODULE Delivery -------------------------------
(***************************************************************************)
(* What the client promises the application about each message, without    *)
(* the queue, the batches, the retries or the goroutines: it is accepted   *)
(* or refused, an accepted message gets one verdict, and when the client   *)
(* has shut down every accepted message has its verdict and no other is    *)
(* accepted.                                                               *)
(***************************************************************************)
CONSTANT Message

VARIABLES status,   \* per message
          shut      \* the client has shut down

vars == <<status, shut>>

Statuses == {"new", "accepted", "refused", "succeeded", "failed"}

TypeOK == /\ status \in [Message -> Statuses]
          /\ shut \in BOOLEAN

Init == /\ status = [m \in Message |-> "new"]
        /\ shut = FALSE

Accept(m) == /\ status[m] = "new"
             /\ ~shut
             /\ status' = [status EXCEPT ![m] = "accepted"]
             /\ UNCHANGED shut

Refuse(m) == /\ status[m] = "new"
             /\ status' = [status EXCEPT ![m] = "refused"]
             /\ UNCHANGED shut

\* The messages of a batch get their verdict together.
Resolve(S, verdict) ==
  /\ \A m \in S : status[m] = "accepted"
  /\ ~shut
  /\ status' = [m \in Message |-> IF m \in S THEN verdict ELSE status[m]]
  /\ UNCHANGED shut

ShutDown == /\ ~shut
            /\ \A m \in Message : status[m] # "accepted"
            /\ shut' = TRUE
            /\ UNCHANGED status

Next == \/ \E m \in Message : Accept(m) \/ Refuse(m)
        \/ \E S \in SUBSET Message, verdict \in {"succeeded", "failed"} : Resolve(S, verdict)
        \/ ShutDown

Spec == Init /\ [][Next]_vars
===============================================================================
