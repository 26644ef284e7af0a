---------------------------- MODULE SegmentsProofs ----------------------------
(***************************************************************************)
(* Proofs about Segments for lists, chunks and numbers of tries of any     *)
(* size, any bad rows, and any losses and delays of the network: the       *)
(* result covers exactly the chunks that succeeded, and those took effect. *)
(***************************************************************************)
EXTENDS Segments, FiniteSetTheorems, TLAPS

Result == [added : Nat, removed : Nat, notFound : Nat, rejected : SUBSET Int]

Good(s) == ChunkRows(s) \ Bad

\* What the result of a request that starts at s says of its rows.
Accounts(res, s) ==
  /\ res.added + res.removed + res.notFound = Cardinality(Good(s))
  /\ res.rejected = {r - s : r \in ChunkRows(s) \intersect Bad}

\* A row that the API took is not a member any more if it was to be removed.
TookEffect(r) == applied[r] > 0 /\ (input.op = "remove" => r \notin members)

TypeInv == /\ input.op \in {"add", "remove"}
           /\ start \in Nat /\ attempt \in Nat
           /\ total \in Result /\ reply.result \in Result
           /\ net \subseteq Nat \X Nat
           /\ members \subseteq Rows
           /\ applied \in [Rows -> Nat]

\* Requests, late ones too, are for the current chunk or for one before it.
NetInv == \A q \in net : q[1] <= start

\* Nothing beyond the current chunk was ever taken.
FutureInv == \A r \in Rows : r >= start + Chunk => applied[r] = 0

\* An answer that says 200 is there only while it is waited for, and is true.
ReplyInv == reply.kind = "ok" => /\ pc = "sending"
                                 /\ Accounts(reply.result, start)
                                 /\ \A r \in Good(start) : TookEffect(r)

\* The call returns without an error only at the end of the list.
ReturnInv == pc = "returned" /\ err = "none" => start >= RowCount

IInv == /\ TypeInv /\ NetInv /\ FutureInv /\ ReplyInv /\ ReturnInv
        /\ ResultCoversPrefix
        /\ \A r \in Covered \ Bad : TookEffect(r)

-------------------------------------------------------------------------------

\* Rows and all sets of rows are finite.
LEMMA RowsFinite ==
  ASSUME NEW S \in SUBSET Rows
  PROVE  IsFiniteSet(S) /\ Cardinality(S) \in Nat
<1>1. IsFiniteSet(Rows)
  BY SizeAssumption, FS_Interval DEF Rows
<1>2. IsFiniteSet(S)
  BY <1>1, FS_Subset
<1> QED
  BY <1>2, FS_CardinalityType

\* The API's answer accounts for every row of the request.
LEMMA AnswerAccounts ==
  ASSUME TypeInv, NEW s \in Nat
  PROVE  Answer(s) \in Result /\ Accounts(Answer(s), s)
<1> DEFINE good == Good(s)
<1>1. /\ good \in SUBSET Rows
      /\ good \intersect members \in SUBSET Rows
      /\ good \ members \in SUBSET Rows
  BY DEF Good, ChunkRows
<1>2. /\ IsFiniteSet(good) /\ Cardinality(good) \in Nat
      /\ Cardinality(good \intersect members) \in Nat
      /\ Cardinality(good \ members) \in Nat
  BY <1>1, RowsFinite
<1>3. Cardinality(good \ members) = Cardinality(good) - Cardinality(good \intersect members)
  BY <1>2, FS_Difference
<1>4. {r - s : r \in ChunkRows(s) \intersect Bad} \subseteq Int
  BY SizeAssumption DEF ChunkRows, Rows
<1>5. CASE input.op = "add"
  BY <1>2, <1>4, <1>5 DEF Answer, Accounts, Result, Good
<1>6. CASE input.op # "add"
  BY <1>2, <1>3, <1>4, <1>6 DEF Answer, Accounts, Result, Good
<1> QED
  BY <1>5, <1>6

\* With the chunk at start merged, the result covers the rows before start + Chunk.
LEMMA MergeCovers ==
  ASSUME TypeInv, ResultCoversPrefix, NEW res \in Result, Accounts(res, start)
  PROVE  LET t == Merge(total, res, start)
             rows == {r \in Rows : r < start + Chunk}
         IN  /\ t \in Result
             /\ t.rejected = rows \intersect Bad
             /\ t.added + t.removed + t.notFound = Cardinality(rows \ Bad)
<1> DEFINE rows == {r \in Rows : r < start + Chunk}
           before == Covered \ Bad
           good == Good(start)
           t == Merge(total, res, start)
<1>1. rows = Covered \union ChunkRows(start)
  BY SizeAssumption DEF TypeInv, Covered, ChunkRows, Rows
<1>2. /\ rows \ Bad = before \union good
      /\ before \intersect good = {}
  BY <1>1, SizeAssumption DEF TypeInv, Covered, ChunkRows, Rows, Good
<1>3. before \in SUBSET Rows /\ good \in SUBSET Rows
  BY DEF Covered, ChunkRows, Good
<1>4. Cardinality(rows \ Bad) = Cardinality(before) + Cardinality(good)
  <2>1. /\ IsFiniteSet(before) /\ Cardinality(before) \in Nat
        /\ IsFiniteSet(good) /\ Cardinality(good) \in Nat
    BY <1>3, RowsFinite
  <2>2. Cardinality(before \union good) =
          Cardinality(before) + Cardinality(good) - Cardinality(before \intersect good)
    BY <2>1, FS_Union
  <2>3. Cardinality(before \intersect good) = 0
    BY <1>2, FS_EmptySet
  <2> HIDE DEF before, good
  <2>4. Cardinality(before \union good) = Cardinality(before) + Cardinality(good)
    BY <2>1, <2>2, <2>3
  <2> QED
    BY <1>2, <2>4
<1>5. t \in Result
  BY DEF Merge, Result, TypeInv
<1>6. {i + start : i \in res.rejected} = ChunkRows(start) \intersect Bad
  <2>1. \A r \in ChunkRows(start) : r \in Int /\ (r - start) + start = r
    BY SizeAssumption DEF ChunkRows, Rows, TypeInv
  <2> QED
    BY <2>1 DEF Accounts
<1>7. t.rejected = rows \intersect Bad
  BY <1>1, <1>6 DEF Merge, ResultCoversPrefix
<1>8. t.added + t.removed + t.notFound = Cardinality(rows \ Bad)
  <2>1. /\ total.added \in Nat /\ total.removed \in Nat /\ total.notFound \in Nat
        /\ res.added \in Nat /\ res.removed \in Nat /\ res.notFound \in Nat
    BY DEF TypeInv, Result
  <2>2. /\ total.added + total.removed + total.notFound = Cardinality(before)
        /\ res.added + res.removed + res.notFound = Cardinality(good)
    BY DEF ResultCoversPrefix, Accounts
  <2> QED
    BY <1>4, <2>1, <2>2 DEF Merge
<1> QED
  BY <1>5, <1>7, <1>8

\* The invariant holds before the first chunk.
LEMMA InitInv == Init => IInv
<1> SUFFICES ASSUME Init PROVE IInv
  OBVIOUS
<1>1. Covered = {}
  BY SizeAssumption DEF Init, Covered, Rows
<1>2. TypeInv
  BY RowAssumption, SizeAssumption DEF Init, TypeInv, Result, NoResult, NoReply
<1>3. ResultCoversPrefix
  BY <1>1, FS_EmptySet DEF Init, ResultCoversPrefix, NoResult
<1>4. NetInv /\ FutureInv /\ ReplyInv /\ ReturnInv
  BY DEF Init, NetInv, FutureInv, ReplyInv, ReturnInv, NoReply
<1> QED
  BY <1>1, <1>2, <1>3, <1>4 DEF IInv

-------------------------------------------------------------------------------

\* A step that moves neither the result nor the API's state keeps the invariant, if
\* the one request it may send is for the current chunk.
LEMMA QuietStep ==
  ASSUME IInv, UNCHANGED <<input, start, total, apiVars>>,
         attempt' \in Nat, net' \subseteq net \union {<<start, attempt'>>},
         reply'.result \in Result,
         reply'.kind = "ok" => reply' = reply /\ pc' = "sending",
         ReturnInv'
  PROVE  IInv'
<1> USE DEF IInv, apiVars
<1>1. TypeInv'
  BY DEF TypeInv
<1>2. NetInv'
  <2>1. \A q \in net' : q \in net \/ q[1] = start
    OBVIOUS
  <2> QED
    BY <2>1 DEF NetInv, TypeInv
<1>3. FutureInv'
  BY DEF FutureInv
<1>4. ReplyInv'
  BY DEF ReplyInv, Accounts, TookEffect
<1>5. ResultCoversPrefix'
  BY DEF ResultCoversPrefix, Covered
<1>6. \A r \in (Covered \ Bad)' : TookEffect(r)'
  BY DEF Covered, TookEffect
<1> QED
  BY <1>1, <1>2, <1>3, <1>4, <1>5, <1>6

\* An answer that is not 200 is delivered, or the answer stays as it is.
LEMMA Delivered ==
  ASSUME IInv, NEW r, NEW kind, kind # "ok", Deliver(r, kind, NoResult)
  PROVE  /\ reply'.result \in Result
         /\ reply'.kind = "ok" => reply' = reply
BY DEF IInv, TypeInv, Deliver, NoResult, Result

\* The steps of write and post that add nothing to the result.
LEMMA CallStep ==
  ASSUME IInv, \/ RefuseID \/ BuildFails \/ SendChunk \/ Finish
               \/ ReadError \/ ReadUnavailable \/ TransportFails \/ TryAgain \/ StopWaiting
  PROVE  IInv'
<1> DEFINE Frame == /\ UNCHANGED <<input, start, total, apiVars>>
                    /\ attempt' \in Nat
                    /\ net' \subseteq net \union {<<start, attempt'>>}
                    /\ reply'.result \in Result
                    /\ reply'.kind = "ok" => reply' = reply /\ pc' = "sending"
                    /\ ReturnInv'
<1> USE DEF IInv, TypeInv, ReplyInv, ReturnInv, Return, NoReply, NoResult, Result
<1>1. CASE RefuseID
  <2>1. Frame
    BY <1>1 DEF RefuseID
  <2> QED
    BY <2>1, QuietStep
<1>2. CASE BuildFails
  <2>1. Frame
    BY <1>2 DEF BuildFails
  <2> QED
    BY <2>1, QuietStep
<1>3. CASE SendChunk
  <2>1. Frame
    BY <1>3 DEF SendChunk, Submit
  <2> QED
    BY <2>1, QuietStep
<1>4. CASE Finish
  <2>1. Frame
    BY <1>4 DEF Finish
  <2> QED
    BY <2>1, QuietStep
<1>5. CASE ReadError
  <2>1. Frame
    BY <1>5 DEF ReadError
  <2> QED
    BY <2>1, QuietStep
<1>6. CASE ReadUnavailable
  <2>1. Frame
    BY <1>6 DEF ReadUnavailable, WaitFor
  <2> QED
    BY <2>1, QuietStep
<1>7. CASE TransportFails
  <2>1. Frame
    BY <1>7 DEF TransportFails, WaitFor
  <2> QED
    BY <2>1, QuietStep
<1>8. CASE TryAgain
  <2>1. Frame
    BY <1>8 DEF TryAgain, Submit
  <2> QED
    BY <2>1, QuietStep
<1>9. CASE StopWaiting
  <2>1. Frame
    BY <1>9 DEF StopWaiting
  <2> QED
    BY <2>1, QuietStep
<1> QED
  BY <1>1, <1>2, <1>3, <1>4, <1>5, <1>6, <1>7, <1>8, <1>9

\* The result of a chunk is added and the next chunk begins.
LEMMA ReadResultStep ==
  ASSUME IInv, ReadResult
  PROVE  IInv'
<1> USE DEF IInv, ReadResult, apiVars
<1>1. start \in Nat /\ start' = start + Chunk /\ start' \in Nat /\ Chunk \in Nat
  BY SizeAssumption DEF TypeInv
<1>2. Accounts(reply.result, start) /\ \A r \in Good(start) : TookEffect(r)
  BY DEF ReplyInv
<1>3. Covered' = {r \in Rows : r < start + Chunk}
  BY DEF Covered
<1>4. total' \in Result /\ ResultCoversPrefix'
  <2>1. reply.result \in Result
    BY DEF TypeInv
  <2>2. /\ total' \in Result
        /\ total'.rejected = Covered' \intersect Bad
        /\ total'.added + total'.removed + total'.notFound = Cardinality(Covered' \ Bad)
    BY <1>2, <1>3, <2>1, MergeCovers
  <2> QED
    BY <2>2 DEF ResultCoversPrefix
<1>5. TypeInv'
  BY <1>1, <1>4 DEF TypeInv, NoReply, NoResult, Result
<1>6. NetInv'
  <2>1. \A q \in net : q[1] \in Nat
    BY DEF TypeInv
  <2> QED
    BY <1>1, <2>1 DEF NetInv
<1>7. FutureInv'
  <2>1. \A r \in Rows : r \in Int
    BY SizeAssumption DEF Rows
  <2> QED
    BY <1>1, <2>1 DEF FutureInv
<1>8. ReplyInv' /\ ReturnInv'
  BY DEF ReplyInv, ReturnInv, NoReply
<1>9. \A r \in (Covered \ Bad)' : TookEffect(r)'
  <2>1. \A r \in (Covered \ Bad)' : r \in Covered \ Bad \/ r \in Good(start)
    BY <1>1, <1>3, SizeAssumption DEF Covered, Good, ChunkRows, Rows
  <2>2. \A r : TookEffect(r) => TookEffect(r)'
    BY DEF TookEffect
  <2> QED
    BY <1>2, <2>1, <2>2
<1> QED
  BY <1>4, <1>5, <1>6, <1>7, <1>8, <1>9

\* A request that the API takes is for the current chunk or an earlier one, and
\* what took effect stays so.
LEMMA TakeStep ==
  ASSUME IInv, NEW r \in net, Take(r)
  PROVE  IInv'
<1> USE DEF IInv, Take, callVars
<1>1. r[1] \in Nat /\ r[1] <= start /\ start \in Nat /\ Chunk \in Nat
  BY SizeAssumption DEF TypeInv, NetInv
<1>2. /\ applied \in [Rows -> Nat] /\ applied' \in [Rows -> Nat]
      /\ \A row \in Rows : applied'[row] >= applied[row]
      /\ \A row \in Good(r[1]) : applied'[row] > 0
      /\ \A row \in Rows : row >= r[1] + Chunk => applied'[row] = applied[row]
  <2>1. applied \in [Rows -> Nat]
    BY DEF TypeInv
  <2>2. \A row \in Rows : applied'[row] = IF row \in Good(r[1]) THEN applied[row] + 1
                                                              ELSE applied[row]
    BY DEF Good
  <2>3. applied' \in [Rows -> Nat]
    BY <2>1 DEF Good
  <2>4. Good(r[1]) \subseteq Rows
    BY DEF Good, ChunkRows
  <2>5. \A row \in Rows : row \in Good(r[1]) => ~(row >= r[1] + Chunk)
    <3>1. \A row \in Rows : row \in Int
      BY SizeAssumption DEF Rows
    <3> QED
      BY <1>1, <3>1 DEF Good, ChunkRows
  <2> HIDE DEF Take
  <2>6. \A row \in Rows : applied[row] \in Nat
    BY <2>1
  <2> QED
    BY <2>1, <2>2, <2>3, <2>4, <2>5, <2>6
<1>3. /\ members' \subseteq members
      /\ input.op = "remove" => members' \intersect Good(r[1]) = {}
  BY DEF Good
<1>4. \A row \in Rows : TookEffect(row) => TookEffect(row)'
  BY <1>2, <1>3 DEF TookEffect
<1>5. \A row \in Good(r[1]) : TookEffect(row)'
  BY <1>2, <1>3 DEF TookEffect
<1>6. PICK kind \in {"ok", "garbled", "unreadable", "unavailable"} :
        Deliver(r, kind, IF kind = "ok" THEN Answer(r[1]) ELSE NoResult)
  OBVIOUS
<1>7. \/ reply' = reply
      \/ reply'.kind # "ok" /\ reply'.result = NoResult
      \/ /\ pc = "sending" /\ r[1] = start
         /\ reply'.kind = "ok" /\ reply'.result = Answer(start)
  BY <1>6 DEF Deliver
<1>8. reply'.result \in Result
  <2>1. Answer(start) \in Result
    BY <1>1, AnswerAccounts
  <2>2. NoResult \in Result /\ reply.result \in Result
    BY DEF TypeInv, NoResult, Result
  <2> QED
    BY <1>7, <2>1, <2>2
<1>9. TypeInv'
  BY <1>2, <1>3, <1>8 DEF TypeInv
<1>10. NetInv' /\ ReturnInv'
  BY DEF NetInv, ReturnInv
<1>11. FutureInv'
  BY <1>1, <1>2, SizeAssumption DEF FutureInv, Rows
<1>12. ReplyInv'
  <2>1. Good(start) \subseteq Rows
    BY DEF Good, ChunkRows
  <2>2. CASE reply' = reply
    BY <1>4, <2>1, <2>2 DEF ReplyInv, Accounts
  <2>3. CASE reply'.kind # "ok"
    BY <2>3 DEF ReplyInv
  <2>4. CASE pc = "sending" /\ r[1] = start /\ reply'.result = Answer(start)
    <3>1. Accounts(Answer(start), start)
      BY <1>1, AnswerAccounts
    <3> QED
      BY <1>5, <2>4, <3>1 DEF ReplyInv, Accounts
  <2> QED
    BY <1>7, <2>2, <2>3, <2>4
<1>13. ResultCoversPrefix'
  BY DEF ResultCoversPrefix, Covered
<1>14. \A row \in (Covered \ Bad)' : TookEffect(row)'
  BY <1>4 DEF Covered
<1> QED
  BY <1>9, <1>10, <1>11, <1>12, <1>13, <1>14

\* Every step keeps the invariant.
LEMMA StepInv == IInv /\ [Next]_vars => IInv'
<1> SUFFICES ASSUME IInv, [Next]_vars PROVE IInv'
  OBVIOUS
<1>1. CASE Call
  BY <1>1, CallStep, ReadResultStep DEF Call
<1>2. ASSUME NEW r \in net, Take(r) PROVE IInv'
  BY <1>2, TakeStep
<1>3. ASSUME NEW r \in net, Refuse(r) PROVE IInv'
  <2>1. PICK kind \in {"unavailable", "refused"} : Deliver(r, kind, NoResult)
    BY <1>3 DEF Refuse
  <2>2. /\ reply'.result \in Result
        /\ reply'.kind = "ok" => reply' = reply
    BY <2>1, Delivered
  <2> QED
    BY <1>3, <2>2, QuietStep DEF Refuse, IInv, TypeInv, ReplyInv, ReturnInv, callVars, apiVars
<1>4. ASSUME NEW r \in net, Lose(r) PROVE IInv'
  BY <1>4, QuietStep DEF Lose, IInv, TypeInv, ReplyInv, ReturnInv, callVars, apiVars
<1>5. CASE EndContext
  BY <1>5, QuietStep DEF EndContext, IInv, TypeInv, ReplyInv, ReturnInv, callVars, apiVars
<1>6. CASE UNCHANGED vars
  BY <1>6, QuietStep DEF vars, IInv, TypeInv, ReplyInv, ReturnInv, callVars, apiVars
<1> QED
  BY <1>1, <1>2, <1>3, <1>4, <1>5, <1>6 DEF Next, Api

\* The invariant holds in every run.
THEOREM InvHolds == Spec => []IInv
  BY InitInv, StepInv, PTL DEF Spec

-------------------------------------------------------------------------------

\* For every list, chunk size and network: the result accounts for every row of the
\* chunks that succeeded, once, and for no other, with the caller's indexes (write).
THEOREM ResultIsExact == Spec => []ResultCoversPrefix
<1>1. IInv => ResultCoversPrefix
  BY DEF IInv
<1> QED
  BY <1>1, InvHolds, PTL

\* For every list, chunk size and network: the chunks that succeeded took effect,
\* those after the failed one were never sent, and a call that returns no error has
\* gone through the whole list (write, post).
THEOREM BoundaryIsTrue == Spec => []ChunkBoundary
<1>1. IInv => ChunkBoundary
  <2> SUFFICES ASSUME IInv PROVE ChunkBoundary
    OBVIOUS
  <2>1. \A r \in Covered \ Bad : applied[r] > 0 /\ (input.op = "remove" => r \notin members)
    BY DEF IInv, TookEffect
  <2>2. \A r \in Rows : r >= start + Chunk => applied[r] = 0
    BY DEF IInv, FutureInv
  <2>3. ASSUME NEW r \in Rows, r >= start + Chunk, NEW q \in net
        PROVE  r \notin ChunkRows(q[1])
    <3>1. q[1] \in Nat /\ q[1] <= start /\ start \in Nat /\ Chunk \in Nat /\ r \in Int
      BY SizeAssumption DEF IInv, TypeInv, NetInv, Rows
    <3> QED
      BY <2>3, <3>1 DEF ChunkRows
  <2>4. pc = "returned" /\ err = "none" => Covered = Rows
    BY SizeAssumption DEF IInv, ReturnInv, TypeInv, Covered, Rows
  <2> QED
    BY <2>1, <2>2, <2>3, <2>4 DEF ChunkBoundary
<1> QED
  BY <1>1, InvHolds, PTL

===============================================================================
