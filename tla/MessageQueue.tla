----------------------------- MODULE MessageQueue -----------------------------
(***************************************************************************)
(* The batch under construction, messageQueue of internal/core/message.go. *)
(* It belongs to the client's loop goroutine alone, so push and flush are  *)
(* operators on a value [pending, bytes]; the state machine below drives   *)
(* them with any sequence of messages and flushes.                         *)
(*                                                                         *)
(* A message is a value whose JSON has JsonLen[m] bytes.  A nil slice of   *)
(* messages is the empty sequence: the code never keeps another empty one. *)
(***************************************************************************)
EXTENDS Integers, Sequences

CONSTANTS Message,
          Encodable,         \* the messages that json.Marshal accepts
          JsonLen,           \* length of the JSON of each message
          MaxBatchSize,      \* Config.BatchSize
          MaxMessageBytes,   \* 32000 in the code
          PayloadLimit,      \* const maxBatchBytes, 500000 in the code
          EnvelopeLen        \* length of a batch marshalled with no messages

\* client.maxBatchBytes: what is left for messages.
MaxBatchBytes == PayloadLimit - EnvelopeLen

ASSUME MessageAssumption == /\ Encodable \subseteq Message
                            /\ JsonLen \in [Message -> Nat \ {0}]

\* makeConfig replaces a batch size of zero and validate refuses a negative one.
ASSUME BatchSizeAssumption == MaxBatchSize \in Nat \ {0}

\* The constants of the code leave room for one message of the largest size.
ASSUME BytesAssumption == /\ PayloadLimit \in Nat
                          /\ EnvelopeLen \in Nat
                          /\ MaxMessageBytes \in Nat
                          /\ MaxMessageBytes < MaxBatchBytes

VARIABLES queue,     \* the messageQueue
          batch,     \* what the last push or flush returned
          pushed,    \* history: the messages pushed, in order
          flushed    \* history: the messages of all batches returned, in order

vars == <<queue, batch, pushed, flushed>>

-------------------------------------------------------------------------------
(* The operations. push and flush return the batch and the queue they      *)
(* leave.                                                                  *)

\* makeMessage
MakeMessage(m) == IF m \notin Encodable THEN "marshalError"
                  ELSE IF JsonLen[m] > MaxMessageBytes THEN "ErrMessageTooBig"
                  ELSE "ok"

EmptyQueue == [pending |-> <<>>, bytes |-> 0]

\* message.size: one byte is for the comma of a JSON array.
SizeOf(m) == JsonLen[m] + 1

\* Faulty variant: the test forgets the message that is about to be added.
Overflows_NotCountingIt(q, m) == q.bytes > MaxBatchBytes

Overflows(q, m) == q.bytes + SizeOf(m) > MaxBatchBytes

\* Faulty variant: bytes counts down from a limit that nobody set.
Put_CountsDown(q, m) == [pending |-> Append(q.pending, m), bytes |-> q.bytes - JsonLen[m]]

Put(q, m) == [pending |-> Append(q.pending, m), bytes |-> q.bytes + JsonLen[m]]

\* Faulty variant: the count of bytes outlives the messages.
Flush_KeepsBytes(q) == [batch |-> q.pending, queue |-> [pending |-> <<>>, bytes |-> q.bytes]]

Flush(q) == [batch |-> q.pending, queue |-> EmptyQueue]

\* Faulty variant: push returns as soon as it has made room.
Push_ReturnsEarly(q, m) ==
  IF Overflows(q, m) THEN Flush(q)
  ELSE LET after == Put(q, m)
       IN  IF Len(after.pending) = MaxBatchSize THEN Flush(after)
           ELSE [batch |-> <<>>, queue |-> after]

\* Faulty variant: the size is tested before the message is added.
Push_TestsSizeFirst(q, m) ==
  LET before == IF Overflows(q, m) THEN Flush(q) ELSE [batch |-> <<>>, queue |-> q]
      after == Put(before.queue, m)
  IN  IF before.batch = <<>> /\ Len(before.queue.pending) = MaxBatchSize
      THEN Flush(after)
      ELSE [batch |-> before.batch, queue |-> after]

\* The first flush of push makes room, the second sends a batch that is full.  If
\* the first returned a batch the second has to wait for the next push.
Push(q, m) ==
  LET before == IF Overflows(q, m) THEN Flush(q) ELSE [batch |-> <<>>, queue |-> q]
      after == Put(before.queue, m)
  IN  IF before.batch = <<>> /\ Len(after.pending) = MaxBatchSize
      THEN Flush(after)
      ELSE [batch |-> before.batch, queue |-> after]

\* The length of the JSON of a batch: the envelope's `null` gives way to the
\* brackets, the messages and the commas between them.
DataLen(b) == LET upTo[i \in 0..Len(b)] == IF i = 0 THEN 0 ELSE upTo[i - 1] + JsonLen[b[i]]
              IN  upTo[Len(b)]
PayloadLen(b) == EnvelopeLen - 4 + 2 + DataLen(b) + (Len(b) - 1)

-------------------------------------------------------------------------------
Init == /\ queue = EmptyQueue
        /\ batch = <<>>
        /\ pushed = <<>>
        /\ flushed = <<>>

Returns(result) == /\ queue' = result.queue
                   /\ batch' = result.batch
                   /\ flushed' = flushed \o result.batch

\* Every message is pushed once at most, which bounds the instance.
PushMessage(m) == /\ \A i \in DOMAIN pushed : pushed[i] # m
                  /\ MakeMessage(m) = "ok"
                  /\ pushed' = Append(pushed, m)
                  /\ Returns(Push(queue, m))

FlushPending == /\ UNCHANGED pushed
                /\ Returns(Flush(queue))

Next == FlushPending \/ \E m \in Message : PushMessage(m)

Spec == Init /\ [][Next]_vars

-------------------------------------------------------------------------------
(***************************************************************************)
(* Type invariant.                                                         *)
(***************************************************************************)
TypeOK == /\ queue \in [pending : Seq(Message), bytes : Nat]
          /\ batch \in Seq(Message)
          /\ pushed \in Seq(Message)
          /\ flushed \in Seq(Message)

(***************************************************************************)
(* The count kept beside the slice is the length of the data in the slice, *)
(* whatever mix of flushes by size, by bytes and by the ticker came        *)
(* before.                                                                 *)
(***************************************************************************)
BytesCountPending == queue.bytes = DataLen(queue.pending)

(***************************************************************************)
(* Between two operations the queue holds fewer messages than a batch. The *)
(* code tests for equality (message.go:111), so a queue that ever held     *)
(* more would never be flushed by size again, and no batch exceeds         *)
(* BatchSize.                                                              *)
(***************************************************************************)
PendingBelowBatchSize == /\ Len(queue.pending) < MaxBatchSize
                         /\ Len(batch) <= MaxBatchSize

(***************************************************************************)
(* Batching neither loses, doubles nor reorders: the batches returned so   *)
(* far followed by the pending messages are the messages pushed.           *)
(***************************************************************************)
BatchesInOrder == flushed \o queue.pending = pushed

(***************************************************************************)
(* How far a payload can go over the limit: push leaves the commas out of  *)
(* the bytes it counts (message.go:109), so a batch of n messages exceeds  *)
(* the limit by n - 4 bytes at most and a small batch never does.          *)
(***************************************************************************)
PayloadExcessBounded ==
  batch # <<>> => PayloadLen(batch) <= PayloadLimit + (Len(batch) - 4)

(***************************************************************************)
(* message.go:88 counts a byte for the comma and HTTP_SPEC.md caps a batch *)
(* at 500KB: under that reading no payload exceeds the limit.              *)
(***************************************************************************)
PayloadWithinLimit == batch # <<>> => PayloadLen(batch) <= PayloadLimit
===============================================================================
