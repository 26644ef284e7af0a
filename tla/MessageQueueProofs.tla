-------------------------- MODULE MessageQueueProofs --------------------------
(***************************************************************************)
(* Proofs about MessageQueue: what push returns, and the invariants of the *)
(* batch under construction, for every batch size, limit and length.  What *)
(* is said of the bytes of a batch needs induction on the batch, which is  *)
(* made here from the well-foundedness of < on the natural numbers.        *)
(***************************************************************************)
EXTENDS MessageQueue, SequenceTheorems, WellFoundedInduction, TLAPS

QueueType == [pending : Seq(Message), bytes : Nat]

\* Between two operations.
Below(q) == Len(q.pending) < MaxBatchSize

\* The batch b that an operation returns and the queue q that it leaves are, in
\* this order, the sequence s, and neither exceeds its size.
Splits(b, q, s) == /\ q \in QueueType
                   /\ b \in Seq(Message)
                   /\ b \o q.pending = s
                   /\ Below(q)
                   /\ Len(b) <= MaxBatchSize

IInv == TypeOK /\ PendingBelowBatchSize /\ BatchesInOrder

-------------------------------------------------------------------------------
\* Appending to the second part of a concatenation.
LEMMA AppendToConcat ==
  ASSUME NEW S, NEW s \in Seq(S), NEW t \in Seq(S), NEW e \in S
  PROVE  s \o Append(t, e) = Append(s \o t, e)
<1> DEFINE u == s \o Append(t, e)
           v == Append(s \o t, e)
<1>1. /\ u \in Seq(S) /\ v \in Seq(S)
      /\ Len(u) = Len(s) + Len(t) + 1
      /\ Len(v) = Len(s) + Len(t) + 1
  BY ConcatProperties, AppendProperties
<1>2. ASSUME NEW i \in 1..Len(u) PROVE u[i] = v[i]
  BY <1>1
<1> QED
  BY <1>1, <1>2, SeqEqual

\* The two facts on sequences of messages that the steps of Next need.
LEMMA HistoryAssociates ==
  ASSUME NEW s \in Seq(Message), NEW t \in Seq(Message), NEW u \in Seq(Message)
  PROVE  /\ s \o t \in Seq(Message)
         /\ (s \o t) \o u = s \o (t \o u)
  BY ConcatAssociative, ConcatProperties

LEMMA HistoryAppends ==
  ASSUME NEW s \in Seq(Message), NEW t \in Seq(Message), NEW m \in Message
  PROVE  /\ Append(t, m) \in Seq(Message)
         /\ s \o Append(t, m) = Append(s \o t, m)
  BY AppendToConcat, AppendProperties

LEMMA PutType ==
  ASSUME NEW q \in QueueType, NEW m \in Message
  PROVE  /\ Put(q, m) \in QueueType
         /\ Put(q, m).pending = Append(q.pending, m)
         /\ Len(Put(q, m).pending) = Len(q.pending) + 1
  BY MessageAssumption, AppendProperties DEF Put, QueueType

LEMMA EmptyQueueType == /\ EmptyQueue \in QueueType
                        /\ EmptyQueue.pending = <<>>
                        /\ Below(EmptyQueue)
<1>1. <<>> \in Seq(Message) /\ Len(<<>>) = 0
  BY EmptySeq
<1> QED
  BY <1>1, BatchSizeAssumption DEF EmptyQueue, QueueType, Below

\* A result that hands out everything, and one that keeps everything.
LEMMA HandOut ==
  ASSUME NEW s \in Seq(Message), Len(s) <= MaxBatchSize
  PROVE  Splits(s, EmptyQueue, s)
<1>1. s \o <<>> = s
  BY ConcatEmptySeq
<1> QED
  BY <1>1, EmptyQueueType DEF Splits

LEMMA Keep ==
  ASSUME NEW q \in QueueType, Below(q)
  PROVE  Splits(<<>>, q, q.pending)
<1>1. q.pending \in Seq(Message)
  BY DEF QueueType
<1>2. <<>> \in Seq(Message) /\ Len(<<>>) = 0 /\ <<>> \o q.pending = q.pending
  BY <1>1, ConcatEmptySeq, EmptySeq
<1> QED
  BY <1>2, BatchSizeAssumption DEF Splits

\* What push does when it has flushed nothing to make room.
LEMMA PutReturns ==
  ASSUME NEW q \in QueueType, Below(q), NEW m \in Message
  PROVE  IF Len(Put(q, m).pending) = MaxBatchSize
         THEN Splits(Put(q, m).pending, EmptyQueue, Append(q.pending, m))
         ELSE Splits(<<>>, Put(q, m), Append(q.pending, m))
<1> DEFINE after == Put(q, m)
           s == Append(q.pending, m)
<1>1. after \in QueueType /\ after.pending = s /\ Len(s) = Len(q.pending) + 1
  BY PutType
<1>2. s \in Seq(Message) /\ Len(s) \in Nat
  BY <1>1 DEF QueueType
<1>3. Len(q.pending) \in Nat /\ Len(q.pending) < MaxBatchSize /\ MaxBatchSize \in Nat
  BY BatchSizeAssumption DEF QueueType, Below
<1> HIDE DEF after, s
<1>4. CASE Len(s) = MaxBatchSize
  <2>1. Splits(s, EmptyQueue, s)
    BY <1>2, <1>3, <1>4, HandOut
  <2> QED
    BY <1>1, <1>4, <2>1 DEF after, s
<1>5. CASE Len(s) # MaxBatchSize
  <2>1. Below(after)
    BY <1>1, <1>3, <1>5 DEF Below
  <2>2. Splits(<<>>, after, after.pending)
    BY <1>1, <2>1, Keep
  <2> QED
    BY <1>1, <1>5, <2>2 DEF after, s
<1> QED
  BY <1>4, <1>5

\* push returns and leaves what was pending and then the new message.  Its second
\* flush is not needed when the first returned a batch: a queue that had a message
\* and was below the batch size has room for two.
LEMMA PushReturns ==
  ASSUME NEW q \in QueueType, Below(q), NEW m \in Message
  PROVE  Splits(Push(q, m).batch, Push(q, m).queue, Append(q.pending, m))
<1>1. q.pending \in Seq(Message) /\ Len(q.pending) \in Nat
      /\ Len(q.pending) < MaxBatchSize /\ MaxBatchSize \in Nat
  BY BatchSizeAssumption DEF QueueType, Below
<1>2. CASE ~Overflows(q, m)
  BY <1>2, PutReturns DEF Push, Flush
<1>3. CASE Overflows(q, m) /\ q.pending = <<>>
  BY <1>3, PutReturns, EmptyQueueType DEF Push, Flush
<1>4. CASE Overflows(q, m) /\ q.pending # <<>>
  <2> DEFINE after == Put(EmptyQueue, m)
             b == q.pending
  <2>1. /\ after \in QueueType
        /\ after.pending = Append(<<>>, m)
        /\ Len(after.pending) = 1
    <3>1. /\ after \in QueueType
          /\ after.pending = Append(EmptyQueue.pending, m)
          /\ Len(after.pending) = Len(EmptyQueue.pending) + 1
      BY PutType, EmptyQueueType
    <3>2. EmptyQueue.pending = <<>> /\ Len(<<>>) = 0
      BY EmptyQueueType, EmptySeq
    <3> QED
      BY <3>1, <3>2
  <2>2. Len(b) >= 1
    BY <1>1, <1>4, EmptySeq
  <2>3. Below(after) /\ Len(after.pending) # MaxBatchSize
    BY <1>1, <2>1, <2>2 DEF Below
  <2>4. Push(q, m).batch = b /\ Push(q, m).queue = after
    BY <1>4, <2>3 DEF Push, Flush
  <2>5. b \o after.pending = Append(b, m)
    <3>1. b \in Seq(Message) /\ <<>> \in Seq(Message)
      BY <1>1, EmptySeq
    <3> HIDE DEF b
    <3>2. b \o Append(<<>>, m) = Append(b \o <<>>, m) /\ b \o <<>> = b
      BY <3>1, AppendToConcat, ConcatEmptySeq
    <3> QED
      BY <2>1, <3>2
  <2> HIDE DEF after, b
  <2>6. Splits(b, after, Append(b, m))
    BY <1>1, <2>1, <2>3, <2>5 DEF Splits, b
  <2> QED
    BY <2>4, <2>6 DEF b
<1> QED
  BY <1>2, <1>3, <1>4

LEMMA FlushReturns ==
  ASSUME NEW q \in QueueType, Below(q)
  PROVE  Splits(Flush(q).batch, Flush(q).queue, q.pending)
<1>1. q.pending \in Seq(Message) /\ Len(q.pending) <= MaxBatchSize
  BY BatchSizeAssumption DEF QueueType, Below
<1> QED
  BY <1>1, HandOut DEF Flush

-------------------------------------------------------------------------------
LEMMA InitIInv == Init => IInv
<1> SUFFICES ASSUME Init PROVE IInv
  OBVIOUS
<1> USE DEF Init
<1>1. <<>> \in Seq(Message) /\ Len(<<>>) = 0 /\ <<>> \o <<>> = <<>>
  BY EmptySeq, ConcatEmptySeq
<1>2. TypeOK
  BY <1>1, EmptyQueueType DEF TypeOK, QueueType
<1>3. PendingBelowBatchSize
  BY <1>1, EmptyQueueType, BatchSizeAssumption DEF PendingBelowBatchSize, Below
<1>4. BatchesInOrder
  BY <1>1, EmptyQueueType DEF BatchesInOrder
<1> QED
  BY <1>2, <1>3, <1>4 DEF IInv

LEMMA NextIInv == IInv /\ [Next]_vars => IInv'
<1> SUFFICES ASSUME IInv, [Next]_vars PROVE IInv'
  OBVIOUS
<1> DEFINE old == queue.pending
<1>1. /\ queue \in QueueType /\ Below(queue) /\ old \in Seq(Message)
      /\ pushed \in Seq(Message) /\ flushed \in Seq(Message)
      /\ flushed \o old = pushed
  BY DEF IInv, TypeOK, PendingBelowBatchSize, BatchesInOrder, QueueType, Below
<1> HIDE DEF old
\* Both operations add the same messages to pushed and to batch and queue.
<1>2. ASSUME NEW added \in Seq(Message),
             Splits(batch', queue', added),
             flushed' = flushed \o batch',
             pushed' = flushed \o added
      PROVE  IInv'
  <2> DEFINE b == batch'
             p == queue'.pending
  <2>1. b \in Seq(Message) /\ p \in Seq(Message) /\ b \o p = added
    BY <1>2 DEF Splits, QueueType
  <2> HIDE DEF b, p
  <2>2. (flushed \o b) \o p = flushed \o added
    <3>1. flushed \in Seq(Message) /\ b \in Seq(Message) /\ p \in Seq(Message)
      BY <1>1, <2>1
    <3>2. (flushed \o b) \o p = flushed \o (b \o p)
      BY <3>1, HistoryAssociates
    <3> QED
      BY <2>1, <3>2
  <2>3. flushed \o b \in Seq(Message) /\ flushed \o added \in Seq(Message)
    BY <1>1, <1>2, <2>1, HistoryAssociates
  <2>4. TypeOK'
    BY <1>2, <2>3 DEF Splits, TypeOK, QueueType, b
  <2>5. PendingBelowBatchSize'
    BY <1>2 DEF Splits, PendingBelowBatchSize, Below
  <2>6. BatchesInOrder'
    BY <1>2, <2>2 DEF BatchesInOrder, b, p
  <2> QED
    BY <2>4, <2>5, <2>6 DEF IInv
<1>3. ASSUME NEW m \in Message, PushMessage(m) PROVE IInv'
  <2>1. Append(old, m) \in Seq(Message) /\ flushed \o Append(old, m) = Append(flushed \o old, m)
    BY <1>1, HistoryAppends
  <2>2. pushed' = flushed \o Append(old, m)
    BY <1>1, <1>3, <2>1 DEF PushMessage
  <2>3. Splits(batch', queue', Append(old, m))
    BY <1>1, <1>3, PushReturns DEF PushMessage, Returns, old
  <2>4. flushed' = flushed \o batch'
    BY <1>3 DEF PushMessage, Returns
  <2> QED
    BY <1>2, <2>1, <2>2, <2>3, <2>4
<1>4. CASE FlushPending
  <2>1. Splits(batch', queue', old)
    BY <1>1, <1>4, FlushReturns DEF FlushPending, Returns, old
  <2>2. pushed' = flushed \o old /\ flushed' = flushed \o batch'
    BY <1>1, <1>4 DEF FlushPending, Returns
  <2> QED
    BY <1>1, <1>2, <2>1, <2>2
<1>5. CASE UNCHANGED vars
  BY <1>5 DEF vars, IInv, TypeOK, PendingBelowBatchSize, BatchesInOrder
<1> QED
  BY <1>3, <1>4, <1>5 DEF Next

(***************************************************************************)
(* The inductive invariant holds.                                          *)
(***************************************************************************)
THEOREM Invariance == Spec => []IInv
  BY InitIInv, NextIInv, PTL DEF Spec

(***************************************************************************)
(* Type correctness.                                                       *)
(***************************************************************************)
THEOREM TypeCorrect == Spec => []TypeOK
<1>1. IInv => TypeOK
  BY DEF IInv
<1> QED
  BY Invariance, <1>1, PTL

(***************************************************************************)
(* The test for equality in push is enough: the queue never holds a full   *)
(* batch between two operations and no batch exceeds the batch size.       *)
(***************************************************************************)
THEOREM BatchSizeRespected == Spec => []PendingBelowBatchSize
<1>1. IInv => PendingBelowBatchSize
  BY DEF IInv
<1> QED
  BY Invariance, <1>1, PTL

(***************************************************************************)
(* Batching neither loses, doubles nor reorders a message.                 *)
(***************************************************************************)
THEOREM BatchingIsFaithful == Spec => []BatchesInOrder
<1>1. IInv => BatchesInOrder
  BY DEF IInv
<1> QED
  BY Invariance, <1>1, PTL

-------------------------------------------------------------------------------
(* Induction, and what DataLen computes for a batch of any length.         *)

\* The induction principle of the natural numbers, for a set.
LEMMA SetInduction ==
  ASSUME NEW T, 0 \in T, \A n \in Nat : n \in T => n + 1 \in T
  PROVE  Nat \subseteq T
<1> SUFFICES ASSUME NEW n \in Nat, n \notin T PROVE FALSE
  OBVIOUS
<1> DEFINE R == OpToRel(<, Nat)
           U == Nat \ T
<1>1. \A x, y \in Nat : <<y, x>> \in R <=> y < x
  BY DEF OpToRel
<1>2. IsWellFoundedOn(R, Nat)
  BY NatLessThanWellFounded, Zenon
<1>3. U \subseteq Nat /\ U # {}
  OBVIOUS
<1> HIDE DEF R, U
<1>4. PICK x \in U : \A y \in U : ~ (<<y, x>> \in R)
  BY <1>2, <1>3, WFMin
<1>5. x \in Nat /\ x \notin T /\ \A y \in Nat : y \notin T => ~(y < x)
  BY <1>1, <1>3, <1>4 DEF U
<1>6. x # 0 /\ x - 1 \in Nat /\ (x - 1) + 1 = x /\ x - 1 < x
  BY <1>5
<1> QED
  BY <1>5, <1>6

\* g holds the sums of the lengths of the first 0, 1, ..., k messages of s.
Sums(s, k, g) == g = [i \in 0..k |-> IF i = 0 THEN 0 ELSE g[i - 1] + JsonLen[s[i]]]

LEMMA SumsExist ==
  ASSUME NEW s \in Seq(Message), NEW n \in Nat, n <= Len(s)
  PROVE  \E g \in [0..n -> Nat] : Sums(s, n, g)
<1> DEFINE T == {k \in Nat : k <= Len(s) => \E g \in [0..k -> Nat] : Sums(s, k, g)}
<1>1. 0 \in T
  <2> DEFINE g == [i \in 0..0 |-> 0]
  <2>1. g \in [0..0 -> Nat] /\ Sums(s, 0, g)
    BY DEF Sums
  <2> QED
    BY <2>1
<1>2. ASSUME NEW k \in Nat, k \in T PROVE k + 1 \in T
  <2> SUFFICES ASSUME k + 1 <= Len(s) PROVE \E g \in [0..k + 1 -> Nat] : Sums(s, k + 1, g)
    OBVIOUS
  <2>1. Len(s) \in Nat /\ k + 1 \in 1..Len(s) /\ JsonLen[s[k + 1]] \in Nat
    BY MessageAssumption, LenProperties
  <2>2. PICK g \in [0..k -> Nat] : Sums(s, k, g)
    BY <1>2, <2>1
  <2> DEFINE h == [i \in 0..k + 1 |-> IF i = k + 1 THEN g[k] + JsonLen[s[k + 1]] ELSE g[i]]
  <2>3. h \in [0..k + 1 -> Nat]
    BY <2>1
  <2>4. \A i \in 0..k : h[i] = g[i] /\ g[i] = IF i = 0 THEN 0 ELSE g[i - 1] + JsonLen[s[i]]
    BY <2>2 DEF Sums
  <2>5. h[k + 1] = h[k] + JsonLen[s[k + 1]]
    OBVIOUS
  <2>6. DOMAIN h = 0..k + 1
    OBVIOUS
  <2> HIDE DEF h
  <2>7. \A i \in 0..k + 1 : h[i] = IF i = 0 THEN 0 ELSE h[i - 1] + JsonLen[s[i]]
    <3>1. ASSUME NEW i \in 0..k PROVE h[i] = IF i = 0 THEN 0 ELSE h[i - 1] + JsonLen[s[i]]
      <4>1. i # 0 => i - 1 \in 0..k
        OBVIOUS
      <4> QED
        BY <2>4, <4>1
    <3>2. (k + 1) - 1 = k /\ k + 1 # 0 /\ \A i \in 0..k + 1 : i \in 0..k \/ i = k + 1
      OBVIOUS
    <3>3. h[k + 1] = IF k + 1 = 0 THEN 0 ELSE h[(k + 1) - 1] + JsonLen[s[k + 1]]
      BY <2>5, <3>2
    <3> QED
      BY <3>1, <3>2, <3>3
  <2>8. Sums(s, k + 1, h)
    BY <2>3, <2>7 DEF Sums
  <2> QED
    BY <2>3, <2>8
<1>3. Nat \subseteq T
  <2> HIDE DEF T
  <2> QED
    BY <1>1, <1>2, SetInduction
<1> QED
  BY <1>3

SameUpTo(k, s, t) == \A i \in 1..k : s[i] = t[i]

\* Sums depend on the messages they sum only.
LEMMA SumsAgree ==
  ASSUME NEW s \in Seq(Message), NEW t \in Seq(Message), NEW k \in Nat, NEW l \in Nat,
         k <= l, SameUpTo(k, s, t), NEW g, Sums(s, k, g), NEW h, Sums(t, l, h)
  PROVE  \A n \in 0..k : g[n] = h[n]
<1> DEFINE T == {n \in Nat : n <= k => g[n] = h[n]}
<1>1. /\ \A i \in 0..k : g[i] = IF i = 0 THEN 0 ELSE g[i - 1] + JsonLen[s[i]]
      /\ \A i \in 0..l : h[i] = IF i = 0 THEN 0 ELSE h[i - 1] + JsonLen[t[i]]
  BY DEF Sums
<1>2. 0 \in T
  BY <1>1
<1>3. ASSUME NEW n \in Nat, n \in T PROVE n + 1 \in T
  <2> SUFFICES ASSUME n + 1 <= k PROVE g[n + 1] = h[n + 1]
    OBVIOUS
  <2>1. /\ n + 1 \in 1..k /\ n + 1 \in 0..k /\ n + 1 \in 0..l
        /\ (n + 1) - 1 = n /\ n + 1 # 0
    OBVIOUS
  <2>2. g[n] = h[n] /\ s[n + 1] = t[n + 1]
    BY <1>3, <2>1 DEF SameUpTo
  <2>3. g[n + 1] = g[n] + JsonLen[s[n + 1]] /\ h[n + 1] = h[n] + JsonLen[t[n + 1]]
    BY <1>1, <2>1
  <2> QED
    BY <2>2, <2>3
<1>4. Nat \subseteq T
  <2> HIDE DEF T
  <2> QED
    BY <1>2, <1>3, SetInduction
<1> QED
  BY <1>4

\* What DataLen computes, for every sequence of messages.
LEMMA DataLenSums ==
  ASSUME NEW s \in Seq(Message)
  PROVE  \E g \in [0..Len(s) -> Nat] : Sums(s, Len(s), g) /\ DataLen(s) = g[Len(s)]
<1> DEFINE f == CHOOSE g : Sums(s, Len(s), g)
<1>1. DataLen(s) = f[Len(s)]
  BY Zenon DEF DataLen, Sums
<1>2. PICK g \in [0..Len(s) -> Nat] : Sums(s, Len(s), g)
  BY SumsExist, LenProperties
<1>3. Sums(s, Len(s), f)
  BY <1>2
<1> HIDE DEF f
<1>4. f[Len(s)] = g[Len(s)]
  BY <1>2, <1>3, SumsAgree, LenProperties DEF SameUpTo
<1> QED
  BY <1>1, <1>2, <1>4

LEMMA DataLenNat ==
  ASSUME NEW s \in Seq(Message)
  PROVE  DataLen(s) \in Nat
  BY DataLenSums, LenProperties

LEMMA DataLenEmpty == DataLen(<<>>) = 0
<1>1. <<>> \in Seq(Message) /\ Len(<<>>) = 0
  BY EmptySeq
<1>2. PICK g : Sums(<<>>, 0, g) /\ DataLen(<<>>) = g[0]
  BY <1>1, DataLenSums
<1> QED
  BY <1>2 DEF Sums

LEMMA DataLenAppend ==
  ASSUME NEW s \in Seq(Message), NEW m \in Message
  PROVE  DataLen(s) \in Nat /\ DataLen(Append(s, m)) = DataLen(s) + JsonLen[m]
<1> DEFINE n == Len(s)
           t == Append(s, m)
<1>1. /\ n \in Nat /\ t \in Seq(Message) /\ Len(t) = n + 1 /\ t[n + 1] = m
      /\ \A i \in 1..n : s[i] = t[i]
  BY AppendProperties, LenProperties
<1> HIDE DEF n, t
<1>2. PICK g : Sums(s, n, g) /\ g[n] \in Nat /\ DataLen(s) = g[n]
  BY <1>1, DataLenSums DEF n
<1>3. PICK h : Sums(t, n + 1, h) /\ DataLen(t) = h[n + 1]
  BY <1>1, DataLenSums
<1>4. g[n] = h[n]
  <2>1. n \in Nat /\ n + 1 \in Nat /\ n <= n + 1 /\ n \in 0..n
    BY <1>1
  <2>2. SameUpTo(n, s, t)
    BY <1>1 DEF SameUpTo
  <2> QED
    BY <1>1, <1>2, <1>3, <2>1, <2>2, SumsAgree
<1>5. h[n + 1] = h[n] + JsonLen[m]
  <2>1. n + 1 \in 0..n + 1 /\ n + 1 # 0 /\ (n + 1) - 1 = n
    BY <1>1
  <2> QED
    BY <1>1, <1>3, <2>1 DEF Sums
<1> QED
  BY <1>1, <1>2, <1>3, <1>4, <1>5 DEF t

-------------------------------------------------------------------------------
(* The bytes of the batch under construction and of the batches returned.  *)

\* The count is exact and leaves room for the brackets of the array.
Counted(q) == q.bytes = DataLen(q.pending) /\ q.bytes < MaxBatchBytes

BytesInv == Counted(queue) /\ DataLen(batch) < MaxBatchBytes

LEMMA EmptyCounted == Counted(EmptyQueue) /\ DataLen(<<>>) < MaxBatchBytes
  BY DataLenEmpty, BytesAssumption DEF Counted, EmptyQueue, MaxBatchBytes

\* A message that does not overflow the queue is put into it.
LEMMA PutCounted ==
  ASSUME NEW q \in QueueType, Counted(q), NEW m \in Message, ~Overflows(q, m)
  PROVE  Counted(Put(q, m))
<1>1. q.pending \in Seq(Message) /\ q.bytes \in Nat /\ JsonLen[m] \in Nat /\ MaxBatchBytes \in Int
  BY MessageAssumption, BytesAssumption DEF QueueType, MaxBatchBytes
<1>2. Put(q, m).bytes = q.bytes + JsonLen[m] /\ Put(q, m).pending = Append(q.pending, m)
  BY DEF Put
<1>3. DataLen(Append(q.pending, m)) = q.bytes + JsonLen[m]
  BY <1>1, DataLenAppend DEF Counted
<1>4. q.bytes + JsonLen[m] < MaxBatchBytes
  BY <1>1 DEF Overflows, SizeOf
<1> QED
  BY <1>2, <1>3, <1>4 DEF Counted

\* Any message fits into an empty queue.
LEMMA EmptyHasRoom ==
  ASSUME NEW m \in Message, MakeMessage(m) = "ok"
  PROVE  ~Overflows(EmptyQueue, m)
<1>1. JsonLen[m] \in Nat /\ JsonLen[m] <= MaxMessageBytes
  BY MessageAssumption, BytesAssumption DEF MakeMessage
<1>2. MaxMessageBytes \in Nat /\ MaxMessageBytes < MaxBatchBytes /\ MaxBatchBytes \in Int
  BY BytesAssumption DEF MaxBatchBytes
<1> QED
  BY <1>1, <1>2 DEF Overflows, SizeOf, EmptyQueue

LEMMA PushCounted ==
  ASSUME NEW q \in QueueType, Counted(q), NEW m \in Message, MakeMessage(m) = "ok"
  PROVE  Counted(Push(q, m).queue) /\ DataLen(Push(q, m).batch) < MaxBatchBytes
<1> DEFINE before == IF Overflows(q, m) THEN Flush(q) ELSE [batch |-> <<>>, queue |-> q]
           after == Put(before.queue, m)
<1>1. /\ before.queue \in QueueType /\ Counted(before.queue) /\ ~Overflows(before.queue, m)
      /\ DataLen(before.batch) < MaxBatchBytes
  BY EmptyQueueType, EmptyCounted, EmptyHasRoom DEF Flush, Counted
<1>2. Push(q, m) = IF before.batch = <<>> /\ Len(after.pending) = MaxBatchSize
                   THEN Flush(after)
                   ELSE [batch |-> before.batch, queue |-> after]
  BY DEF Push
<1> HIDE DEF before
<1>3. Counted(after)
  BY <1>1, PutCounted
<1> HIDE DEF after
<1> QED
  BY <1>1, <1>2, <1>3, EmptyCounted DEF Flush, Counted

LEMMA BytesStep == IInv /\ BytesInv /\ [Next]_vars => BytesInv'
<1> SUFFICES ASSUME IInv, BytesInv, [Next]_vars PROVE BytesInv'
  OBVIOUS
<1>1. queue \in QueueType /\ Counted(queue)
  BY DEF IInv, TypeOK, QueueType, BytesInv
<1>2. ASSUME NEW m \in Message, PushMessage(m) PROVE BytesInv'
  <2>1. queue' = Push(queue, m).queue /\ batch' = Push(queue, m).batch /\ MakeMessage(m) = "ok"
    BY <1>2 DEF PushMessage, Returns
  <2>2. Counted(Push(queue, m).queue) /\ DataLen(Push(queue, m).batch) < MaxBatchBytes
    BY <1>1, <2>1, PushCounted
  <2> QED
    BY <2>1, <2>2 DEF BytesInv, Counted
<1>3. CASE FlushPending
  <2>1. queue' = EmptyQueue /\ batch' = queue.pending
    BY <1>3 DEF FlushPending, Returns, Flush
  <2> QED
    BY <1>1, <2>1, EmptyCounted DEF BytesInv, Counted
<1>4. CASE UNCHANGED vars
  BY <1>4 DEF vars, BytesInv, Counted
<1> QED
  BY <1>2, <1>3, <1>4 DEF Next

THEOREM BytesInvariance == Spec => []BytesInv
<1>1. Init => BytesInv
  BY EmptyCounted DEF Init, BytesInv
<1> QED
  BY <1>1, BytesStep, Invariance, PTL DEF Spec

(***************************************************************************)
(* bytes is the sum of the lengths of the pending messages, whatever mix   *)
(* of flushes by size, by bytes and by the ticker came before.             *)
(***************************************************************************)
THEOREM BytesAreExact == Spec => []BytesCountPending
<1>1. BytesInv => BytesCountPending
  BY DEF BytesInv, Counted, BytesCountPending
<1> QED
  BY <1>1, BytesInvariance, PTL

(***************************************************************************)
(* The commas that push leaves out are all that a payload can exceed the   *)
(* limit by: n - 4 bytes for a batch of n messages (message.go:88-118).    *)
(***************************************************************************)
THEOREM ExcessIsBounded == Spec => []PayloadExcessBounded
<1>1. IInv /\ BytesInv => PayloadExcessBounded
  <2> SUFFICES ASSUME IInv, BytesInv
               PROVE  PayloadLen(batch) <= PayloadLimit + (Len(batch) - 4)
    BY DEF PayloadExcessBounded
  <2>1. batch \in Seq(Message) /\ Len(batch) \in Nat
    BY LenProperties DEF IInv, TypeOK
  <2>2. DataLen(batch) \in Nat
    BY <2>1, DataLenNat
  <2>3. DataLen(batch) < PayloadLimit - EnvelopeLen
    BY DEF BytesInv, MaxBatchBytes
  <2>4. PayloadLimit \in Nat /\ EnvelopeLen \in Nat
    BY BytesAssumption
  <2> QED
    BY <2>1, <2>2, <2>3, <2>4 DEF PayloadLen
<1> QED
  BY <1>1, BytesInvariance, Invariance, PTL

===============================================================================
