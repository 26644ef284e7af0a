----------------------------- MODULE SegmentsTries -----------------------------
(***************************************************************************)
(* More about Segments, for the tries of one request: what trying again    *)
(* does to the counts of a removal, how often the API can take a row, and  *)
(* how long the client waits in between.                                   *)
(***************************************************************************)
EXTENDS SegmentsProofs

-------------------------------------------------------------------------------
(* Removals that are reported as not found.                                *)

\* The rows of a removal; an addition has none.
Removed(rows) == IF input.op = "remove" THEN rows ELSE {}

\* The rows that were taken more than once.
Repeated(rows) == {r \in rows \intersect Present : applied[r] > 1}

\* n of the rows were not found: those that named nobody, and some of those that an
\* earlier try had removed already.
Explains(n, rows) ==
  /\ Cardinality(rows \ Present) <= n
  /\ n <= Cardinality(rows \ Present) + Cardinality(Repeated(rows))

NotFoundInv ==
  /\ input.op = "remove" => members = {r \in Present : applied[r] = 0}
  /\ reply.kind = "ok" => Explains(reply.result.notFound, Removed(Good(start)))
  /\ Explains(total.notFound, Removed(Covered \ Bad))

\* Nothing needs no explanation.
LEMMA ExplainsNone == Explains(0, {})
<1>1. {} \ Present = {} /\ Repeated({}) = {}
  BY DEF Repeated
<1>2. Cardinality({}) = 0
  BY FS_EmptySet
<1> QED
  BY <1>1, <1>2 DEF Explains

\* An explanation stays one when the API takes more.
LEMMA ExplainsKept ==
  ASSUME NEW n \in Nat, NEW rows \in SUBSET Rows,
         applied \in [Rows -> Nat], applied' \in [Rows -> Nat],
         \A r \in Rows : applied'[r] >= applied[r],
         Explains(n, rows)
  PROVE  Explains(n, rows)'
<1> DEFINE now == Repeated(rows)
           then == {r \in rows \intersect Present : applied'[r] > 1}
           absent == rows \ Present
<1>1. now \subseteq then /\ then \in SUBSET Rows /\ absent \in SUBSET Rows
  BY DEF Repeated
<1>2. IsFiniteSet(then) /\ Cardinality(then) \in Nat /\ Cardinality(absent) \in Nat
  BY <1>1, RowsFinite
<1>3. Cardinality(now) \in Nat /\ Cardinality(now) <= Cardinality(then)
  <2>1. now \in SUBSET Rows
    BY <1>1
  <2> HIDE DEF now, then
  <2> QED
    BY <1>1, <1>2, <2>1, RowsFinite, FS_Subset
<1>4. Repeated(rows)' = then
  BY DEF Repeated
<1>5. Cardinality(absent) <= n /\ n <= Cardinality(absent) + Cardinality(now)
  BY DEF Explains
<1> HIDE DEF now, then, absent
<1>6. n <= Cardinality(absent) + Cardinality(then)
  BY <1>2, <1>3, <1>5
<1> QED
  BY <1>4, <1>5, <1>6 DEF Explains, absent

\* The explanations of disjoint chunks add up.
LEMMA ExplainsSum ==
  ASSUME NEW A \in SUBSET Rows, NEW B \in SUBSET Rows, A \intersect B = {},
         NEW m \in Nat, NEW n \in Nat, Explains(m, A), Explains(n, B)
  PROVE  Explains(m + n, A \union B)
<1>1. ASSUME NEW S \in SUBSET Rows, NEW T \in SUBSET Rows, S \intersect T = {}
      PROVE  /\ Cardinality(S \union T) = Cardinality(S) + Cardinality(T)
             /\ Cardinality(S) \in Nat /\ Cardinality(T) \in Nat
  <2>1. /\ IsFiniteSet(S) /\ Cardinality(S) \in Nat
        /\ IsFiniteSet(T) /\ Cardinality(T) \in Nat
    BY RowsFinite
  <2>2. Cardinality(S \union T) =
          Cardinality(S) + Cardinality(T) - Cardinality(S \intersect T)
    BY <2>1, FS_Union
  <2>3. Cardinality(S \intersect T) = 0
    BY <1>1, FS_EmptySet
  <2> QED
    BY <2>1, <2>2, <2>3
<1> DEFINE a == A \ Present
           b == B \ Present
           ra == Repeated(A)
           rb == Repeated(B)
<1>2. /\ (A \union B) \ Present = a \union b
      /\ a \in SUBSET Rows /\ b \in SUBSET Rows /\ a \intersect b = {}
  OBVIOUS
<1>3. /\ Repeated(A \union B) = ra \union rb
      /\ ra \in SUBSET Rows /\ rb \in SUBSET Rows /\ ra \intersect rb = {}
  BY DEF Repeated
<1>4. /\ Cardinality(a) <= m /\ m <= Cardinality(a) + Cardinality(ra)
      /\ Cardinality(b) <= n /\ n <= Cardinality(b) + Cardinality(rb)
  BY DEF Explains
<1> HIDE DEF a, b, ra, rb
<1>5. /\ Cardinality(a \union b) = Cardinality(a) + Cardinality(b)
      /\ Cardinality(a) \in Nat /\ Cardinality(b) \in Nat
  BY <1>1, <1>2
<1>6. /\ Cardinality(ra \union rb) = Cardinality(ra) + Cardinality(rb)
      /\ Cardinality(ra) \in Nat /\ Cardinality(rb) \in Nat
  BY <1>1, <1>3
<1>7. /\ Cardinality(a \union b) <= m + n
      /\ m + n <= Cardinality(a \union b) + Cardinality(ra \union rb)
  BY <1>4, <1>5, <1>6
<1> QED
  BY <1>2, <1>3, <1>7 DEF Explains

\* The answer to a request: not found are the rows that named nobody and those that
\* were taken before, which are those that this request repeats.
LEMMA AnswerExplained ==
  ASSUME IInv, NotFoundInv, NEW s \in Nat,
         \A row \in Good(s) : applied'[row] = applied[row] + 1
  PROVE  LET rows == Removed(Good(s))
         IN  Answer(s).notFound = Cardinality(rows \ Present)
               + Cardinality({row \in rows \intersect Present : applied'[row] > 1})
<1> DEFINE rows == Removed(Good(s))
           absent == rows \ Present
           again == {row \in rows \intersect Present : applied'[row] > 1}
<1>1. CASE input.op = "remove"
  <2>1. rows = Good(s) /\ rows \in SUBSET Rows
    BY <1>1 DEF Removed, Good, ChunkRows
  <2>2. Answer(s).notFound = Cardinality(rows \ members)
    BY <1>1, <2>1 DEF Answer, Good
  <2>3. rows \ members = absent \union again
    <3>1. members = {row \in Present : applied[row] = 0}
      BY <1>1 DEF NotFoundInv
    <3>2. \A row \in rows : applied[row] \in Nat /\ applied'[row] = applied[row] + 1
      BY <2>1 DEF IInv, TypeInv
    <3>3. \A row \in rows : applied'[row] > 1 <=> applied[row] # 0
      <4> HIDE DEF rows
      <4> QED
        BY <3>2
    <3> QED
      BY <3>1, <3>3
  <2>4. absent \in SUBSET Rows /\ again \in SUBSET Rows /\ absent \intersect again = {}
    BY <2>1
  <2>5. /\ IsFiniteSet(absent) /\ Cardinality(absent) \in Nat
        /\ IsFiniteSet(again) /\ Cardinality(again) \in Nat
    BY <2>4, RowsFinite
  <2> HIDE DEF rows, absent, again
  <2>6. Cardinality(absent \union again) =
          Cardinality(absent) + Cardinality(again) - Cardinality(absent \intersect again)
    BY <2>5, FS_Union
  <2>7. Cardinality(absent \intersect again) = 0
    BY <2>4, FS_EmptySet
  <2>8. Cardinality(rows \ members) = Cardinality(absent) + Cardinality(again)
    <3>1. Cardinality(absent \union again) = Cardinality(absent) + Cardinality(again)
      BY <2>5, <2>6, <2>7
    <3> QED
      BY <2>3, <3>1
  <2> QED
    BY <2>2, <2>8 DEF rows, absent, again
<1>2. CASE input.op # "remove"
  <2>1. rows = {} /\ absent = {} /\ again = {}
    BY <1>2 DEF Removed
  <2>2. Cardinality(absent) = 0 /\ Cardinality(again) = 0
    BY <2>1, FS_EmptySet
  <2>3. Answer(s).notFound = 0
    BY <1>2 DEF Answer, IInv, TypeInv
  <2> HIDE DEF absent, again
  <2>4. Answer(s).notFound = Cardinality(absent) + Cardinality(again)
    BY <2>2, <2>3
  <2> QED
    BY <2>4 DEF absent, again
<1> QED
  BY <1>1, <1>2

\* What the API has taken is counted: for each row of the request, once more.
LEMMA TakeCounts ==
  ASSUME IInv, NEW q \in net, Take(q)
  PROVE  /\ applied' \in [Rows -> Nat]
         /\ \A row \in Good(q[1]) : applied'[row] = applied[row] + 1
         /\ \A row \in Rows \ Good(q[1]) : applied'[row] = applied[row]
         /\ \A row \in Rows : applied'[row] >= applied[row]
<1>1. applied \in [Rows -> Nat] /\ Good(q[1]) \subseteq Rows
  BY DEF IInv, TypeInv, Good, ChunkRows
<1>2. applied' = [row \in Rows |-> IF row \in Good(q[1]) THEN applied[row] + 1
                                                      ELSE applied[row]]
  BY DEF Take, Good
<1>3. applied' \in [Rows -> Nat]
  BY <1>1, <1>2
<1>4. \A row \in Good(q[1]) : applied'[row] = applied[row] + 1
  BY <1>1, <1>2
<1>5. \A row \in Rows \ Good(q[1]) : applied'[row] = applied[row]
  BY <1>2
<1>6. \A row \in Rows : applied[row] \in Nat
  BY <1>1
<1> QED
  BY <1>3, <1>4, <1>5, <1>6

\* Answers that are taken, with or without their 200 arriving, keep the explanation.
LEMMA TakeExplained ==
  ASSUME IInv, NotFoundInv, NEW q \in net, Take(q)
  PROVE  NotFoundInv'
<1>1. /\ applied \in [Rows -> Nat] /\ applied' \in [Rows -> Nat]
      /\ \A row \in Rows : applied'[row] >= applied[row]
  BY TakeCounts DEF IInv, TypeInv
<1>2. UNCHANGED <<input, start, total>>
  BY DEF Take, callVars
<1>3. start \in Nat /\ q[1] \in Nat /\ Good(start) \in SUBSET Rows
      /\ Covered \ Bad \in SUBSET Rows
  BY DEF IInv, TypeInv, Good, ChunkRows, Covered
<1>4. input'.op = "remove" => members' = {row \in Present : applied'[row] = 0}
  <2> SUFFICES ASSUME input.op = "remove"
               PROVE  members' = {row \in Present : applied'[row] = 0}
    BY <1>2
  <2>1. members = {row \in Present : applied[row] = 0}
    BY DEF NotFoundInv
  <2>2. members' = members \ Good(q[1])
    BY DEF Take, Good
  <2>3. \A row \in Present : applied'[row] = 0 <=> applied[row] = 0 /\ row \notin Good(q[1])
    <3>1. \A row \in Present : row \in Rows /\ applied[row] \in Nat
      BY <1>1, RowAssumption
    <3>2. \A row \in Good(q[1]) : applied'[row] = applied[row] + 1
      BY TakeCounts
    <3>3. \A row \in Rows \ Good(q[1]) : applied'[row] = applied[row]
      BY TakeCounts
    <3> QED
      BY <3>1, <3>2, <3>3
  <2> QED
    BY <2>1, <2>2, <2>3
<1>5. reply'.kind = "ok" => Explains(reply.result.notFound, Removed(Good(start)))'
  <2> DEFINE rows == Removed(Good(start))
  <2>1. rows \in SUBSET Rows /\ rows' = rows
    BY <1>2, <1>3 DEF Removed, Good, ChunkRows
  <2>2. CASE reply' = reply /\ reply.kind = "ok"
    <3>1. reply.result.notFound \in Nat /\ Explains(reply.result.notFound, rows)
      BY <2>2 DEF IInv, TypeInv, Result, NotFoundInv
    <3> QED
      BY <1>1, <2>1, <2>2, <3>1, ExplainsKept DEF Explains, Repeated
  <2>3. CASE q[1] = start /\ reply'.result = Answer(start)
    <3>1. \A row \in Good(start) : applied'[row] = applied[row] + 1
      BY <2>3, TakeCounts
    <3>2. reply'.result.notFound = Cardinality(rows \ Present)
            + Cardinality({row \in rows \intersect Present : applied'[row] > 1})
      BY <1>3, <2>3, <3>1, AnswerExplained
    <3>3. /\ Cardinality(rows \ Present) \in Nat
          /\ Cardinality({row \in rows \intersect Present : applied'[row] > 1}) \in Nat
      BY <2>1, RowsFinite
    <3> QED
      BY <2>1, <3>2, <3>3 DEF Explains, Repeated
  <2>4. PICK kind \in {"ok", "garbled", "unreadable", "unavailable"} :
          Deliver(q, kind, IF kind = "ok" THEN Answer(q[1]) ELSE NoResult)
    BY DEF Take
  <2>5. \/ reply' = reply
        \/ reply'.kind # "ok"
        \/ q[1] = start /\ reply'.result = Answer(start)
    BY <2>4 DEF Deliver
  <2> QED
    BY <2>2, <2>3, <2>5
<1>6. Explains(total.notFound, Removed(Covered \ Bad))'
  <2> DEFINE rows == Removed(Covered \ Bad)
  <2>1. rows \in SUBSET Rows /\ rows' = rows
    BY <1>2, <1>3 DEF Removed, Covered
  <2>2. total.notFound \in Nat /\ Explains(total.notFound, rows)
    BY DEF IInv, TypeInv, Result, NotFoundInv
  <2> QED
    BY <1>1, <1>2, <2>1, <2>2, ExplainsKept DEF Explains, Repeated
<1> QED
  BY <1>4, <1>5, <1>6 DEF NotFoundInv

\* The explanation of a chunk joins that of the chunks before it.
LEMMA ReadResultExplained ==
  ASSUME IInv, NotFoundInv, ReadResult
  PROVE  NotFoundInv'
<1>1. /\ UNCHANGED <<input, members, applied>>
      /\ start' = start + Chunk /\ reply.kind = "ok" /\ reply'.kind # "ok"
      /\ total'.notFound = total.notFound + reply.result.notFound
  BY DEF ReadResult, apiVars, NoReply, Merge
<1> DEFINE before == Removed(Covered \ Bad)
           good == Removed(Good(start))
<1>2. /\ before \in SUBSET Rows /\ good \in SUBSET Rows
      /\ before \intersect good = {}
      /\ Removed(Covered \ Bad)' = before \union good
  <2>1. start \in Nat /\ Chunk \in Nat /\ \A row \in Rows : row \in Int
    BY SizeAssumption DEF IInv, TypeInv, Rows
  <2> QED
    BY <1>1, <2>1 DEF Removed, Covered, Good, ChunkRows
<1>3. total.notFound \in Nat /\ reply.result.notFound \in Nat
  BY DEF IInv, TypeInv, Result
<1>4. Explains(total.notFound, before) /\ Explains(reply.result.notFound, good)
  BY <1>1 DEF NotFoundInv
<1> HIDE DEF before, good
<1>5. Explains(total.notFound + reply.result.notFound, before \union good)
  BY <1>2, <1>3, <1>4, ExplainsSum
<1>6. Explains(total.notFound, Removed(Covered \ Bad))'
  BY <1>1, <1>2, <1>5 DEF Explains, Repeated
<1> QED
  BY <1>1, <1>6 DEF NotFoundInv

\* The steps that neither take a request nor read a result.
Quiet == /\ UNCHANGED <<input, start, total, apiVars>>
         /\ reply'.kind = "ok" => reply' = reply

LEMMA QuietSteps ==
  ASSUME [Next]_vars, ~ReadResult, \A q \in net : ~Take(q)
  PROVE  Quiet
<1> USE DEF Quiet, Return, NoReply, NoResult
<1>1. CASE RefuseID
  BY <1>1 DEF RefuseID
<1>2. CASE BuildFails
  BY <1>2 DEF BuildFails
<1>3. CASE SendChunk
  BY <1>3 DEF SendChunk, Submit
<1>4. CASE Finish
  BY <1>4 DEF Finish
<1>5. CASE ReadError
  BY <1>5 DEF ReadError
<1>6. CASE ReadUnavailable
  BY <1>6 DEF ReadUnavailable, WaitFor
<1>7. CASE TransportFails
  BY <1>7 DEF TransportFails, WaitFor
<1>8. CASE TryAgain
  BY <1>8 DEF TryAgain, Submit
<1>9. CASE StopWaiting
  BY <1>9 DEF StopWaiting
<1>10. ASSUME NEW q \in net, Refuse(q) PROVE Quiet
  BY <1>10 DEF Refuse, Deliver, callVars
<1>11. ASSUME NEW q \in net, Lose(q) PROVE Quiet
  BY <1>11 DEF Lose, callVars
<1>12. CASE EndContext
  BY <1>12 DEF EndContext, callVars
<1>13. CASE UNCHANGED vars
  BY <1>13 DEF vars, callVars
<1> QED
  BY <1>1, <1>2, <1>3, <1>4, <1>5, <1>6, <1>7, <1>8, <1>9, <1>10, <1>11, <1>12, <1>13
     DEF Next, Call, Api

LEMMA InitExplained == Init => NotFoundInv
<1> SUFFICES ASSUME Init PROVE NotFoundInv
  OBVIOUS
<1>1. Removed(Covered \ Bad) = {}
  BY SizeAssumption DEF Init, Removed, Covered, Rows
<1>2. total.notFound = 0 /\ reply.kind # "ok"
  BY DEF Init, NoResult, NoReply
<1>3. members = {row \in Present : applied[row] = 0}
  BY RowAssumption DEF Init
<1> QED
  BY <1>1, <1>2, <1>3, ExplainsNone DEF NotFoundInv

LEMMA StepExplained == IInv /\ NotFoundInv /\ [Next]_vars => NotFoundInv'
<1> SUFFICES ASSUME IInv, NotFoundInv, [Next]_vars PROVE NotFoundInv'
  OBVIOUS
<1>1. CASE ReadResult
  BY <1>1, ReadResultExplained
<1>2. ASSUME NEW q \in net, Take(q) PROVE NotFoundInv'
  BY <1>2, TakeExplained
<1>3. CASE Quiet
  BY <1>3 DEF Quiet, apiVars, NotFoundInv, Explains, Repeated, Removed, Good, ChunkRows, Covered
<1> QED
  BY <1>1, <1>2, <1>3, QuietSteps

\* For every list, chunk size and network: what is reported as not found is what named
\* nobody, and at most what an earlier try of the same request had removed (write).
THEOREM NotFoundIsExplained == Spec => []NotFoundExplained
<1>1. IInv /\ NotFoundInv => NotFoundExplained
  BY DEF NotFoundInv, NotFoundExplained, Explains, Removed, Repeated
<1>2. Spec => []NotFoundInv
  BY InitExplained, StepExplained, InvHolds, PTL DEF Spec
<1> QED
  BY <1>1, <1>2, InvHolds, PTL

-------------------------------------------------------------------------------
(* How often the API can take a row.                                       *)

\* The requests under way that carry a row.
Carrying(r) == {q \in net : r \in ChunkRows(q[1])}

\* How many requests have carried a row so far, at most.
Budget(r) == IF r < start THEN MaxAttempts
             ELSE IF r >= start + Chunk \/ pc = "writing" THEN 0
             ELSE attempt + 1

\* Requests are numbered; a row was taken once at most for every number used.
TriesInv ==
  /\ attempt \in 0..MaxAttempts - 1
  /\ pc = "waiting" => attempt + 1 < MaxAttempts
  /\ pc \in {"sending", "waiting"} => start < RowCount
  /\ start < RowCount + Chunk
  /\ net \subseteq (0..RowCount) \X (0..MaxAttempts - 1)
  /\ \A r \in Rows : applied[r] + Cardinality(Carrying(r)) <= Budget(r)

\* Finitely many requests are under way.
LEMMA CarryingFinite ==
  ASSUME TriesInv, NEW r
  PROVE  IsFiniteSet(Carrying(r)) /\ Cardinality(Carrying(r)) \in Nat
<1>1. IsFiniteSet(0..RowCount) /\ IsFiniteSet(0..MaxAttempts - 1)
  BY SizeAssumption, FS_Interval
<1>2. IsFiniteSet((0..RowCount) \X (0..MaxAttempts - 1))
  BY <1>1, FS_Product
<1>3. Carrying(r) \subseteq (0..RowCount) \X (0..MaxAttempts - 1)
  BY DEF TriesInv, Carrying
<1>4. IsFiniteSet(Carrying(r))
  BY <1>2, <1>3, FS_Subset
<1> QED
  BY <1>4, FS_CardinalityType

\* A step that sends nothing and takes nothing keeps the bound, if no budget shrinks.
LEMMA SilentStep ==
  ASSUME IInv, TriesInv, net' \subseteq net, UNCHANGED applied,
         NEW r \in Rows, Budget(r) <= Budget(r)', Budget(r) \in Int, Budget(r)' \in Int
  PROVE  (applied[r] + Cardinality(Carrying(r)))' <= Budget(r)'
<1> DEFINE now == Carrying(r)
           then == {q \in net' : r \in ChunkRows(q[1])}
<1>1. then \subseteq now
  BY DEF Carrying
<1>2. IsFiniteSet(now) /\ Cardinality(now) \in Nat
  BY CarryingFinite
<1>3. applied[r] \in Nat /\ applied[r] + Cardinality(now) <= Budget(r)
  BY DEF IInv, TypeInv, TriesInv
<1>4. Carrying(r)' = then
  BY DEF Carrying
<1> HIDE DEF now, then
<1>5. Cardinality(then) \in Nat /\ Cardinality(then) <= Cardinality(now)
  BY <1>1, <1>2, FS_Subset, FS_CardinalityType
<1>6. applied[r] + Cardinality(then) <= Budget(r)'
  BY <1>2, <1>3, <1>5
<1> QED
  BY <1>4, <1>6

\* One element more makes a finite set larger by one at most.
LEMMA OneMore ==
  ASSUME NEW S, NEW x, IsFiniteSet(S)
  PROVE  /\ IsFiniteSet(S \union {x})
         /\ Cardinality(S \union {x}) \in Nat
         /\ Cardinality(S \union {x}) <= Cardinality(S) + 1
<1>1. Cardinality(S) \in Nat
  BY FS_CardinalityType
<1>2. IsFiniteSet(S \union {x})
  BY FS_AddElement
<1>3. CASE x \in S
  <2>1. S \union {x} = S
    BY <1>3
  <2> QED
    BY <1>1, <1>2, <2>1
<1>4. CASE x \notin S
  <2>1. Cardinality(S \union {x}) = Cardinality(S) + 1
    BY <1>4, FS_AddElement
  <2> QED
    BY <1>1, <1>2, <2>1
<1> QED
  BY <1>3, <1>4

\* A step that sends the next request for the current chunk.
LEMMA SubmitStep ==
  ASSUME IInv, TriesInv, NEW n \in 0..MaxAttempts - 1, Submit(n), start < RowCount,
         UNCHANGED <<start, applied>>,
         \/ pc = "writing" /\ n = 0
         \/ pc = "waiting" /\ n = attempt + 1
  PROVE  TriesInv'
<1>1. /\ start \in Nat /\ attempt \in Nat /\ RowCount \in Nat
      /\ Chunk \in Nat \ {0} /\ MaxAttempts \in Nat \ {0}
      /\ \A r \in Rows : r \in Int
  BY SizeAssumption DEF IInv, TypeInv, Rows
<1>2. attempt' = n /\ pc' = "sending" /\ net' \subseteq net \union {<<start, n>>}
  BY DEF Submit
<1>3. net' \subseteq (0..RowCount) \X (0..MaxAttempts - 1)
  <2>1. <<start, n>> \in (0..RowCount) \X (0..MaxAttempts - 1)
    BY <1>1
  <2> QED
    BY <1>2, <2>1 DEF TriesInv
<1>4. ASSUME NEW r \in Rows
      PROVE  (applied[r] + Cardinality(Carrying(r)))' <= Budget(r)'
  <2>1. r \in Int /\ Budget(r) \in Int /\ Budget(r)' \in Int
    BY <1>1, <1>2 DEF Budget
  <2>2. CASE r \in ChunkRows(start)
    <3> DEFINE now == Carrying(r)
               then == {q \in net' : r \in ChunkRows(q[1])}
    <3>1. then \subseteq now \union {<<start, n>>}
      BY <1>2 DEF Carrying
    <3>2. IsFiniteSet(now) /\ Cardinality(now) \in Nat
      BY CarryingFinite
    <3>3. applied[r] \in Nat /\ applied[r] + Cardinality(now) <= Budget(r)
      BY DEF IInv, TypeInv, TriesInv
    <3>4. Carrying(r)' = then
      BY DEF Carrying
    <3>5. Budget(r) + 1 <= Budget(r)'
      BY <1>1, <1>2, <2>1, <2>2 DEF Budget, ChunkRows
    <3> HIDE DEF now, then
    <3>6. /\ IsFiniteSet(now \union {<<start, n>>})
          /\ Cardinality(now \union {<<start, n>>}) <= Cardinality(now) + 1
          /\ Cardinality(now \union {<<start, n>>}) \in Nat
      BY <3>2, OneMore, Zenon
    <3>7. Cardinality(then) \in Nat /\ Cardinality(then) <= Cardinality(now) + 1
      <4>1. /\ IsFiniteSet(then)
            /\ Cardinality(then) <= Cardinality(now \union {<<start, n>>})
        BY <3>1, <3>6, FS_Subset
      <4>2. Cardinality(then) \in Nat
        BY <4>1, FS_CardinalityType
      <4> QED
        BY <3>2, <3>6, <4>1, <4>2
    <3>8. applied[r] + Cardinality(then) <= Budget(r)'
      BY <2>1, <3>2, <3>3, <3>5, <3>7
    <3> QED
      BY <3>4, <3>8
  <2>3. CASE r \notin ChunkRows(start)
    <3>1. Carrying(r)' = Carrying(r)
      BY <1>2, <2>3 DEF Carrying, Submit
    <3>2. Budget(r)' = Budget(r)
      BY <1>1, <1>2, <2>1, <2>3 DEF Budget, ChunkRows
    <3>3. applied[r] + Cardinality(Carrying(r)) <= Budget(r)
      BY DEF TriesInv
    <3> QED
      BY <3>1, <3>2, <3>3
  <2> QED
    BY <2>2, <2>3
<1> QED
  BY <1>1, <1>2, <1>3, <1>4 DEF TriesInv

\* A request that is taken is under way no longer.
LEMMA TakeTries ==
  ASSUME IInv, TriesInv, NEW q \in net, Take(q)
  PROVE  TriesInv'
<1>1. UNCHANGED <<pc, start, attempt>> /\ net' = net \ {q}
  BY DEF Take, callVars
<1>2. ASSUME NEW r \in Rows
      PROVE  (applied[r] + Cardinality(Carrying(r)))' <= Budget(r)'
  <2>1. /\ applied[r] \in Nat /\ applied'[r] \in Nat
        /\ \/ applied'[r] = applied[r]
           \/ applied'[r] = applied[r] + 1 /\ q \in Carrying(r)
    <3>1. applied[r] \in Nat /\ applied'[r] \in Nat
      BY TakeCounts DEF IInv, TypeInv
    <3>2. CASE r \in Good(q[1])
      BY <3>1, <3>2, TakeCounts DEF Carrying, Good
    <3>3. CASE r \notin Good(q[1])
      BY <3>1, <3>3, TakeCounts
    <3> QED
      BY <3>1, <3>2, <3>3
  <2>2. Carrying(r)' = Carrying(r) \ {q}
    BY <1>1 DEF Carrying
  <2>3. IsFiniteSet(Carrying(r)) /\ Cardinality(Carrying(r)) \in Nat
    BY CarryingFinite
  <2>4. Cardinality(Carrying(r) \ {q}) = IF q \in Carrying(r) THEN Cardinality(Carrying(r)) - 1
                                                             ELSE Cardinality(Carrying(r))
    BY <2>3, FS_RemoveElement
  <2>5. applied[r] + Cardinality(Carrying(r)) <= Budget(r)
    BY DEF TriesInv
  <2>6. Budget(r)' = Budget(r) /\ Budget(r) \in Int
    BY <1>1, SizeAssumption DEF Budget, IInv, TypeInv
  <2>7. applied'[r] + Cardinality(Carrying(r) \ {q}) <= Budget(r)
    BY <2>1, <2>3, <2>4, <2>5, <2>6
  <2> QED
    BY <2>2, <2>6, <2>7
<1> QED
  BY <1>1, <1>2 DEF TriesInv

\* The next chunk has a budget of its own.
LEMMA ReadResultTries ==
  ASSUME IInv, TriesInv, ReadResult
  PROVE  TriesInv'
<1>1. /\ start \in Nat /\ attempt \in 0..MaxAttempts - 1 /\ RowCount \in Nat
      /\ Chunk \in Nat \ {0} /\ MaxAttempts \in Nat \ {0}
      /\ \A r \in Rows : r \in Int
  BY SizeAssumption DEF IInv, TypeInv, TriesInv, Rows
<1>2. /\ pc = "sending" /\ pc' = "writing" /\ start < RowCount /\ start' = start + Chunk
      /\ UNCHANGED <<attempt, net, applied>>
  BY DEF ReadResult, TriesInv, apiVars
<1>3. ASSUME NEW r \in Rows
      PROVE  (applied[r] + Cardinality(Carrying(r)))' <= Budget(r)'
  <2>1. /\ Budget(r) \in Int /\ Budget(r)' \in Int
        /\ Budget(r) <= Budget(r)'
    BY <1>1, <1>2 DEF Budget
  <2> QED
    BY <1>2, <2>1, SilentStep
<1> QED
  BY <1>1, <1>2, <1>3 DEF TriesInv

\* The steps that leave the request's number and the API alone.
LEMMA OtherTries ==
  ASSUME IInv, TriesInv, UNCHANGED <<start, attempt, applied>>, net' \subseteq net,
         \/ pc' = pc
         \/ pc' = "returned"
         \/ pc = "sending" /\ pc' = "waiting" /\ ~LastAttempt
  PROVE  TriesInv'
<1>1. /\ start \in Nat /\ attempt \in 0..MaxAttempts - 1 /\ RowCount \in Nat
      /\ Chunk \in Nat \ {0} /\ MaxAttempts \in Nat \ {0}
      /\ \A r \in Rows : r \in Int
  BY SizeAssumption DEF IInv, TypeInv, TriesInv, Rows
<1>2. ASSUME NEW r \in Rows
      PROVE  (applied[r] + Cardinality(Carrying(r)))' <= Budget(r)'
  <2>1. /\ Budget(r) \in Int /\ Budget(r)' \in Int
        /\ Budget(r) <= Budget(r)'
    BY <1>1 DEF Budget
  <2> QED
    BY <2>1, SilentStep
<1>3. pc' = "waiting" => attempt' + 1 < MaxAttempts
  BY <1>1 DEF TriesInv, LastAttempt
<1> QED
  BY <1>1, <1>2, <1>3 DEF TriesInv

LEMMA InitTries == Init => TriesInv
<1> SUFFICES ASSUME Init PROVE TriesInv
  OBVIOUS
<1>1. \A r \in Rows : r \in Nat
  BY SizeAssumption DEF Rows
<1>2. \A r \in Rows : Carrying(r) = {} /\ applied[r] = 0 /\ Budget(r) = 0
  BY <1>1, SizeAssumption DEF Init, Carrying, Budget
<1>3. \A r \in Rows : applied[r] + Cardinality(Carrying(r)) <= Budget(r)
  BY <1>2, FS_EmptySet
<1> QED
  BY <1>3, SizeAssumption DEF Init, TriesInv

LEMMA StepTries == IInv /\ TriesInv /\ [Next]_vars => TriesInv'
<1> SUFFICES ASSUME IInv, TriesInv, [Next]_vars PROVE TriesInv'
  OBVIOUS
<1> USE DEF Return
<1>1. CASE RefuseID
  BY <1>1, OtherTries DEF RefuseID, apiVars
<1>2. CASE BuildFails
  BY <1>2, OtherTries DEF BuildFails, apiVars
<1>3. CASE SendChunk
  <2>1. 0 \in 0..MaxAttempts - 1
    BY SizeAssumption
  <2> QED
    BY <1>3, <2>1, SubmitStep DEF SendChunk, apiVars
<1>4. CASE Finish
  BY <1>4, OtherTries DEF Finish, apiVars
<1>5. CASE ReadResult
  BY <1>5, ReadResultTries
<1>6. CASE ReadError
  BY <1>6, OtherTries DEF ReadError, apiVars
<1>7. CASE ReadUnavailable
  BY <1>7, OtherTries DEF ReadUnavailable, WaitFor, apiVars
<1>8. CASE TransportFails
  BY <1>8, OtherTries DEF TransportFails, WaitFor, apiVars
<1>9. CASE TryAgain
  <2>1. attempt + 1 \in 0..MaxAttempts - 1 /\ start < RowCount
    BY <1>9, SizeAssumption DEF TryAgain, TriesInv
  <2> QED
    BY <1>9, <2>1, SubmitStep DEF TryAgain, apiVars
<1>10. CASE StopWaiting
  BY <1>10, OtherTries DEF StopWaiting, apiVars
<1>11. ASSUME NEW q \in net, Take(q) PROVE TriesInv'
  BY <1>11, TakeTries
<1>12. ASSUME NEW q \in net, Refuse(q) PROVE TriesInv'
  BY <1>12, OtherTries DEF Refuse, callVars, apiVars
<1>13. ASSUME NEW q \in net, Lose(q) PROVE TriesInv'
  BY <1>13, OtherTries DEF Lose, callVars, apiVars
<1>14. CASE EndContext
  BY <1>14, OtherTries DEF EndContext, callVars, apiVars
<1>15. CASE UNCHANGED vars
  BY <1>15, OtherTries DEF vars, callVars, apiVars
<1> QED
  BY <1>1, <1>2, <1>3, <1>4, <1>5, <1>6, <1>7, <1>8, <1>9, <1>10, <1>11, <1>12,
     <1>13, <1>14, <1>15 DEF Next, Call, Api

LEMMA TriesHold == Spec => []TriesInv
  BY InitTries, StepTries, InvHolds, PTL DEF Spec

-------------------------------------------------------------------------------
(* How long the client waits.                                              *)

\* The largest duration is less than Half.
Half == 2^(Width - 1)

\* A wrapped duration is one, and a duration that is none too large stays as it is.
LEMMA WrapIsDuration ==
  ASSUME NEW d \in Int
  PROVE  /\ Wrap(d) \in -Half..Half - 1
         /\ 0 <= d /\ d < Half => Wrap(d) = d
<1>1. Half \in Nat \ {0} /\ 2^Width = 2 * Half
  BY PowerAssumption DEF Half
<1>2. Wrap(d) = ((d + Half) % (2 * Half)) - Half
  BY <1>1 DEF Wrap, Half
<1>3. (d + Half) % (2 * Half) \in 0..2 * Half - 1
  BY <1>1
<1>4. 0 <= d /\ d < Half => (d + Half) % (2 * Half) = d + Half
  BY <1>1
<1> HIDE DEF Half
<1> QED
  BY <1>1, <1>2, <1>3, <1>4

\* Only a wait for a header changes what was asked and the timer.
LEMMA WaitSteps ==
  ASSUME [Next]_vars
  PROVE  \/ UNCHANGED <<asked, wait>> /\ (pc' = "waiting" => pc = "waiting")
         \/ WaitFor(0, "transport")
         \/ WaitFor(reply.header, reply.kind)
<1> USE DEF Return
<1>1. CASE RefuseID
  BY <1>1 DEF RefuseID
<1>2. CASE BuildFails
  BY <1>2 DEF BuildFails
<1>3. CASE SendChunk
  BY <1>3 DEF SendChunk, Submit
<1>4. CASE Finish
  BY <1>4 DEF Finish
<1>5. CASE ReadResult
  BY <1>5 DEF ReadResult
<1>6. CASE ReadError
  BY <1>6 DEF ReadError
<1>7. CASE ReadUnavailable
  BY <1>7 DEF ReadUnavailable
<1>8. CASE TransportFails
  BY <1>8 DEF TransportFails
<1>9. CASE TryAgain
  BY <1>9 DEF TryAgain, Submit
<1>10. CASE StopWaiting
  BY <1>10 DEF StopWaiting
<1>11. ASSUME NEW q \in net, Take(q) \/ Refuse(q) \/ Lose(q)
       PROVE  UNCHANGED <<asked, wait, pc>>
  BY <1>11 DEF Take, Refuse, Lose, callVars
<1>12. CASE EndContext
  BY <1>12 DEF EndContext, callVars
<1>13. CASE UNCHANGED vars
  BY <1>13 DEF vars, callVars
<1> QED
  BY <1>1, <1>2, <1>3, <1>4, <1>5, <1>6, <1>7, <1>8, <1>9, <1>10, <1>11, <1>12, <1>13
     DEF Next, Call, Api

\* The header that is waited for is an integer.
ReplyHeader == reply.header \in Headers \union {0}

LEMMA StepHeader == ReplyHeader /\ [Next]_vars => ReplyHeader'
<1> SUFFICES ASSUME ReplyHeader, [Next]_vars PROVE ReplyHeader'
  OBVIOUS
<1> USE DEF ReplyHeader, NoReply
<1>1. ASSUME NEW q, NEW kind, NEW result, Deliver(q, kind, result) PROVE ReplyHeader'
  BY <1>1 DEF Deliver
<1>2. ASSUME NEW q \in net, Take(q) PROVE ReplyHeader'
  BY <1>1, <1>2 DEF Take
<1>3. ASSUME NEW q \in net, Refuse(q) PROVE ReplyHeader'
  BY <1>1, <1>3 DEF Refuse
<1>4. ASSUME NEW q \in net, Lose(q) PROVE ReplyHeader'
  BY <1>4 DEF Lose
<1>5. CASE Call
  <2>1. reply' = reply \/ reply' = NoReply
    BY <1>5 DEF Call, RefuseID, BuildFails, SendChunk, Finish, ReadResult, ReadError,
                ReadUnavailable, TransportFails, TryAgain, StopWaiting
  <2> QED
    BY <2>1
<1>6. CASE EndContext \/ UNCHANGED vars
  BY <1>6 DEF EndContext, vars
<1> QED
  BY <1>2, <1>3, <1>4, <1>5, <1>6 DEF Next, Api

LEMMA HeaderHolds == Spec => []ReplyHeader
<1>1. Init => ReplyHeader
  BY DEF Init, ReplyHeader, NoReply
<1> QED
  BY <1>1, StepHeader, PTL DEF Spec

\* For every unit and width of a duration: as long as the seconds that an answer asks
\* for are a duration, they are what the client waits (retryAfterHeader, post).
THEOREM AnswerIsWaitedFor == Spec => []RetryAfterHonoured
<1>1. ASSUME NEW h \in Int, NEW e, WaitFor(h, e)
      PROVE  RetryAfterHonoured'
  <2> SUFFICES ASSUME h > 0, h * Second < Half
               PROVE  wait' = h * Second
    BY <1>1 DEF RetryAfterHonoured, WaitFor, Half
  <2>1. h * Second \in Nat /\ h * Second > 0
    BY TimeAssumption
  <2>2. Wrap(h * Second) = h * Second
    BY <2>1, WrapIsDuration
  <2>3. RetryAfterHeader(h) = h * Second
    BY <2>2 DEF RetryAfterHeader
  <2> QED
    BY <1>1, <2>1, <2>3 DEF WaitFor
<1>2. ReplyHeader /\ RetryAfterHonoured /\ [Next]_vars => RetryAfterHonoured'
  <2> SUFFICES ASSUME ReplyHeader, RetryAfterHonoured, [Next]_vars PROVE RetryAfterHonoured'
    OBVIOUS
  <2>1. reply.header \in Int
    <3>1. Headers \union {0} \subseteq Int
      BY TimeAssumption
    <3> QED
      BY <3>1 DEF ReplyHeader
  <2>2. CASE UNCHANGED <<asked, wait>> /\ (pc' = "waiting" => pc = "waiting")
    BY <2>2 DEF RetryAfterHonoured
  <2> QED
    BY <1>1, <2>1, <2>2, WaitSteps
<1>3. Init => RetryAfterHonoured
  BY DEF Init, RetryAfterHonoured
<1> QED
  BY <1>2, <1>3, HeaderHolds, PTL DEF Spec

-------------------------------------------------------------------------------
(* The types of the remaining variables.                                   *)

Inputs == [segmentID : SegmentIDs, op : {"add", "remove"}, spoilt : SUBSET Spoilt]

Replies == [kind : {"none", "ok", "garbled", "refused", "unavailable", "unreadable"},
            header : Headers \union {0}, result : Counts]

Errors == {"none", "invalid_request", "marshal", "garbled", "refused", "unavailable",
           "unreadable", "transport", "context"}

RestInv == /\ input \in Inputs
           /\ ctx \in {"live", "ended"}
           /\ pc \in {"writing", "sending", "waiting", "returned"}
           /\ wait \in -Half..Half - 1
           /\ err \in Errors
           /\ asked \in Headers \union {0}
           /\ reply \in Replies

\* A set of rows is no larger than the list.
LEMMA RowsBounded ==
  ASSUME NEW S \in SUBSET Rows
  PROVE  Cardinality(S) <= RowCount
<1>1. IsFiniteSet(Rows) /\ Cardinality(Rows) = RowCount
  BY SizeAssumption, FS_Interval DEF Rows
<1>2. Cardinality(S) <= Cardinality(Rows)
  BY <1>1, FS_Subset
<1> QED
  BY <1>1, <1>2

\* Counts that add up to a number of rows are counts of rows.
LEMMA PartsAreCounts ==
  ASSUME NEW res \in Result, NEW S \in SUBSET Rows,
         res.added + res.removed + res.notFound = Cardinality(S),
         res.rejected \subseteq Rows
  PROVE  res \in Counts
<1>1. Cardinality(S) <= RowCount /\ RowCount \in Nat /\ Cardinality(S) \in Nat
  BY RowsBounded, RowsFinite, SizeAssumption
<1>2. res.added \in Nat /\ res.removed \in Nat /\ res.notFound \in Nat
  BY DEF Result
<1>3. res.added \in 0..RowCount /\ res.removed \in 0..RowCount /\ res.notFound \in 0..RowCount
  BY <1>1, <1>2
<1> QED
  BY <1>3 DEF Result, Counts

LEMMA NoResultCounts == NoResult \in Counts
  BY SizeAssumption DEF NoResult, Counts

\* The answer counts rows of the list.
LEMMA AnswerInCounts ==
  ASSUME IInv, NEW s \in Nat
  PROVE  Answer(s) \in Counts
<1>1. Answer(s) \in Result /\ Accounts(Answer(s), s)
  BY AnswerAccounts DEF IInv
<1>2. Good(s) \in SUBSET Rows
  BY DEF Good, ChunkRows
<1>3. \A r \in ChunkRows(s) : r - s \in Rows
  BY SizeAssumption DEF ChunkRows, Rows
<1>4. Answer(s).rejected \subseteq Rows
  BY <1>1, <1>3 DEF Accounts
<1> QED
  BY <1>1, <1>2, <1>4, PartsAreCounts DEF Accounts

\* What the timer is set to is a duration, whatever the header says.
LEMMA WaitIsDuration ==
  ASSUME NEW h \in Int, NEW e, WaitFor(h, e), attempt \in 0..MaxAttempts - 1
  PROVE  wait' \in -Half..Half - 1
<1>1. Second * 2^attempt \in Int
  <2>1. attempt \in 0..MaxAttempts
    BY SizeAssumption
  <2>2. 2^attempt \in Nat
    BY <2>1, PowerAssumption
  <2> QED
    BY <2>2, TimeAssumption
<1>2. h * Second \in Int
  BY TimeAssumption
<1>3. RetryAfter(attempt) \in -Half..Half - 1
  BY <1>1, WrapIsDuration DEF RetryAfter
<1>4. RetryAfterHeader(h) = 0 \/ RetryAfterHeader(h) \in -Half..Half - 1
  BY <1>2, WrapIsDuration DEF RetryAfterHeader
<1> QED
  BY <1>3, <1>4 DEF WaitFor

\* The reply is one of the API's, also when it comes late or spoilt.
LEMMA StepReply == IInv /\ RestInv /\ [Next]_vars => (reply \in Replies)'
<1> SUFFICES ASSUME IInv, RestInv, [Next]_vars PROVE reply' \in Replies
  OBVIOUS
<1>1. NoReply \in Replies /\ reply \in Replies
  BY NoResultCounts DEF RestInv, Replies, NoReply
<1>2. ASSUME NEW q,
             NEW kind \in {"ok", "garbled", "refused", "unavailable", "unreadable"},
             NEW result \in Counts, Deliver(q, kind, result)
      PROVE  reply' \in Replies
  BY <1>1, <1>2 DEF Deliver, Replies
<1>3. ASSUME NEW q \in net, Take(q) PROVE reply' \in Replies
  <2>1. q[1] \in Nat
    BY DEF IInv, TypeInv
  <2>2. Answer(q[1]) \in Counts
    BY <2>1, AnswerInCounts
  <2>3. PICK kind \in {"ok", "garbled", "unreadable", "unavailable"} :
          Deliver(q, kind, IF kind = "ok" THEN Answer(q[1]) ELSE NoResult)
    BY <1>3 DEF Take
  <2> QED
    BY <1>2, <2>2, <2>3, NoResultCounts
<1>4. ASSUME NEW q \in net, Refuse(q) PROVE reply' \in Replies
  <2>1. PICK kind \in {"unavailable", "refused"} : Deliver(q, kind, NoResult)
    BY <1>4 DEF Refuse
  <2> QED
    BY <1>2, <2>1, NoResultCounts
<1>5. ASSUME NEW q \in net, Lose(q) PROVE reply' \in Replies
  BY <1>1, <1>5 DEF Lose
<1>6. CASE Call
  <2>1. reply' = reply \/ reply' = NoReply
    BY <1>6 DEF Call, RefuseID, BuildFails, SendChunk, Finish, ReadResult, ReadError,
                ReadUnavailable, TransportFails, TryAgain, StopWaiting
  <2> QED
    BY <1>1, <2>1
<1>7. CASE EndContext \/ UNCHANGED vars
  BY <1>1, <1>7 DEF EndContext, vars
<1> QED
  BY <1>3, <1>4, <1>5, <1>6, <1>7 DEF Next, Api

\* A wait for a header keeps the types.
LEMMA WaitForTypes ==
  ASSUME RestInv, TriesInv, NEW h \in Headers \union {0}, NEW e \in Errors, WaitFor(h, e)
  PROVE  /\ pc' \in {"writing", "sending", "waiting", "returned"}
         /\ wait' \in -Half..Half - 1
         /\ err' \in Errors
         /\ asked' \in Headers \union {0}
<1>1. h \in Int
  <2>1. Headers \union {0} \subseteq Int
    BY TimeAssumption
  <2> QED
    BY <2>1
<1>2. wait' \in -Half..Half - 1
  BY <1>1, WaitIsDuration DEF TriesInv
<1> QED
  BY <1>2 DEF WaitFor

LEMMA StepRest == IInv /\ TriesInv /\ RestInv /\ [Next]_vars => RestInv'
<1> SUFFICES ASSUME IInv, TriesInv, RestInv, [Next]_vars PROVE RestInv'
  OBVIOUS
<1> DEFINE Typed == /\ pc' \in {"writing", "sending", "waiting", "returned"}
                    /\ wait' \in -Half..Half - 1
                    /\ err' \in Errors
                    /\ asked' \in Headers \union {0}
           Kept == Typed /\ input' = input /\ ctx' \in {"live", "ended"}
<1>1. /\ pc \in {"writing", "sending", "waiting", "returned"}
      /\ wait \in -Half..Half - 1
      /\ err \in Errors
      /\ asked \in Headers \union {0}
      /\ reply.header \in Headers \union {0}
      /\ input \in Inputs /\ ctx \in {"live", "ended"}
  BY DEF RestInv, Replies
<1>2. ASSUME NEW e \in Errors, Return(e) PROVE Typed
  BY <1>1, <1>2 DEF Return
<1>3. ASSUME NEW h \in Headers \union {0}, NEW e \in Errors, WaitFor(h, e) PROVE Typed
  BY <1>3, WaitForTypes
<1>4. ASSUME NEW n, Submit(n), UNCHANGED <<wait, err, asked>> PROVE Typed
  BY <1>1, <1>4 DEF Submit
<1>5. ASSUME UNCHANGED <<pc, wait, err, asked>> PROVE Typed
  BY <1>1, <1>5
<1>6. {"none", "invalid_request", "marshal", "garbled", "refused", "unavailable",
       "unreadable", "transport", "context"} \subseteq Errors
  BY DEF Errors
<1> HIDE DEF Typed
<1>7. ASSUME RefuseID PROVE Kept
  BY <1>1, <1>2, <1>6, <1>7 DEF RefuseID
<1>8. ASSUME BuildFails PROVE Kept
  BY <1>1, <1>2, <1>6, <1>8 DEF BuildFails
<1>9. ASSUME SendChunk PROVE Kept
  BY <1>1, <1>4, <1>9 DEF SendChunk
<1>10. ASSUME Finish PROVE Kept
  BY <1>1, <1>2, <1>6, <1>10 DEF Finish
<1>11. ASSUME ReadResult PROVE Kept
  BY <1>1, <1>11 DEF ReadResult, Typed
<1>12. ASSUME ReadError PROVE Kept
  <2>1. reply.kind \in Errors
    BY <1>6, <1>12 DEF ReadError
  <2> QED
    BY <1>1, <1>2, <1>12, <2>1 DEF ReadError
<1>13. ASSUME ReadUnavailable PROVE Kept
  <2>1. reply.kind \in Errors
    BY <1>6, <1>13 DEF ReadUnavailable
  <2>2. Return(reply.kind) \/ WaitFor(reply.header, reply.kind)
    BY <1>13 DEF ReadUnavailable
  <2>3. Typed
    BY <1>1, <1>2, <1>3, <2>1, <2>2
  <2> QED
    BY <1>1, <1>13, <2>3 DEF ReadUnavailable
<1>14. ASSUME TransportFails PROVE Kept
  <2>1. Return("transport") \/ WaitFor(0, "transport")
    BY <1>14 DEF TransportFails
  <2>2. Typed
    BY <1>2, <1>3, <1>6, <2>1
  <2> QED
    BY <1>1, <1>14, <2>2 DEF TransportFails
<1>15. ASSUME TryAgain PROVE Kept
  BY <1>1, <1>4, <1>15 DEF TryAgain
<1>16. ASSUME StopWaiting PROVE Kept
  BY <1>1, <1>2, <1>6, <1>16 DEF StopWaiting
<1>17. ASSUME NEW q \in net, Take(q) \/ Refuse(q) \/ Lose(q) PROVE Kept
  BY <1>1, <1>5, <1>17 DEF Take, Refuse, Lose, callVars
<1>18. ASSUME EndContext \/ UNCHANGED vars PROVE Kept
  BY <1>1, <1>5, <1>18 DEF EndContext, vars, callVars
<1>19. Kept
  BY <1>7, <1>8, <1>9, <1>10, <1>11, <1>12, <1>13, <1>14, <1>15, <1>16, <1>17, <1>18
     DEF Next, Call, Api
<1>20. reply' \in Replies
  BY StepReply
<1> QED
  BY <1>1, <1>19, <1>20 DEF RestInv, Typed

LEMMA RestHolds == Spec => []RestInv
<1>1. Init => RestInv
  <2> SUFFICES ASSUME Init PROVE RestInv
    OBVIOUS
  <2>1. 0 \in -Half..Half - 1
    BY PowerAssumption DEF Half
  <2>2. NoReply \in Replies
    BY NoResultCounts DEF Replies, NoReply
  <2> HIDE DEF Half
  <2> QED
    BY <2>1, <2>2 DEF Init, RestInv, Inputs, Errors
<1> QED
  BY <1>1, StepRest, InvHolds, TriesHold, PTL DEF Spec

\* For lists, chunks and numbers of tries of any size: every variable has its type.  No
\* request is tried more than MaxAttempts times (post), the API takes no row oftener,
\* no count exceeds the list, and every wait is a time.Duration.
THEOREM TypeCorrect == Spec => []TypeOK
<1>1. IInv /\ TriesInv /\ RestInv => TypeOK
  <2> SUFFICES ASSUME IInv, TriesInv, RestInv PROVE TypeOK
    OBVIOUS
  <2>1. start \in 0..RowCount + Chunk - 1
    BY SizeAssumption DEF IInv, TypeInv, TriesInv
  <2>2. total \in Counts
    <3>1. Covered \ Bad \in SUBSET Rows
      BY DEF Covered
    <3>2. total \in Result /\ total.rejected \subseteq Rows
      BY RowAssumption DEF IInv, TypeInv, ResultCoversPrefix
    <3> QED
      BY <3>1, <3>2, PartsAreCounts DEF IInv, ResultCoversPrefix
  <2>3. applied \in [Rows -> 0..MaxAttempts]
    <3>1. applied \in [Rows -> Nat]
      BY DEF IInv, TypeInv
    <3>2. ASSUME NEW r \in Rows PROVE applied[r] \in 0..MaxAttempts
      <4>1. applied[r] \in Nat /\ Cardinality(Carrying(r)) \in Nat
        BY <3>1, CarryingFinite
      <4>2. applied[r] + Cardinality(Carrying(r)) <= Budget(r)
        BY DEF TriesInv
      <4>3. Budget(r) \in Int /\ Budget(r) <= MaxAttempts
        BY SizeAssumption DEF Budget, TriesInv
      <4> QED
        BY <4>1, <4>2, <4>3, SizeAssumption
    <3> QED
      BY <3>1, <3>2
  <2>4. wait \in -2^(Width - 1)..2^(Width - 1) - 1
    BY DEF RestInv, Half
  <2> QED
    BY <2>1, <2>2, <2>3, <2>4 DEF TypeOK, IInv, TypeInv, TriesInv, RestInv, Inputs, Errors, Replies
<1> QED
  BY <1>1, InvHolds, TriesHold, RestHolds, PTL

===============================================================================
