---------------------------- MODULE MCMessageQueue ----------------------------
(***************************************************************************)
(* Instance of MessageQueue for TLC. The lengths are scaled down: what the *)
(* code compares is sums of lengths with a limit.                          *)
(***************************************************************************)
EXTENDS MessageQueue, TLC

\* One message too long for the client, one that cannot be marshalled, the others
\* of mixed lengths, so that a batch ends by its bytes or by its size.
MCMessage == 1..8
MCEncodable == 1..7
MCJsonLen == [m \in 1..4 |-> 1] @@ 5 :> 2 @@ 6 :> 3 @@ 7 :> 5 @@ 8 :> 1

\* Short messages only.
ShortMessage == 1..6
ShortJsonLen == [m \in ShortMessage |-> 1]
===============================================================================
