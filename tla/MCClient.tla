------------------------------- MODULE MCClient -------------------------------
(***************************************************************************)
(* Instances of Client for TLC.                                            *)
(***************************************************************************)
EXTENDS Client, TLC

CONSTANTS m1, m2, m3, m4, c1, c2

TwoClosers == {c1, c2}

GoodMessage == {m1, m2, m3}
GoodKind == [m \in GoodMessage |-> "valid"]
GoodJsonLen == [m \in GoodMessage |-> 1]

\* Good messages are interchangeable and so are closers.  Used in the runs that
\* check no liveness property.
Symmetry == Permutations(GoodMessage) \union Permutations(TwoClosers)

\* Two good messages and two that Enqueue turns away.
OddMessage == {m1, m2, m3, m4}
OddKind == m1 :> "valid" @@ m2 :> "valid" @@ m3 :> "invalid" @@ m4 :> "nil"
OddJsonLen == [m \in OddMessage |-> 1]

\* Two good messages and one that is accepted but too long for a batch.
LongJsonLen == m1 :> 1 @@ m2 :> 1 @@ m3 :> 9
===============================================================================
