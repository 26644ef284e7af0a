------------------------------- MODULE Segments -------------------------------
(***************************************************************************)
(* One call of AddMembers or RemoveMembers of src/segments.go: the list is *)
(* cut into chunks (write), each chunk is one request that is tried a few  *)
(* times (post), and the answers are added up.                             *)
(*                                                                         *)
(* The API and the network are external.  A request may be lost, refused,  *)
(* taken although its answer is lost or spoilt on the way, or taken late,  *)
(* when the client has long tried again or returned.  Nobody else changes  *)
(* the segment meanwhile.                                                  *)
(***************************************************************************)
EXTENDS Integers, FiniteSets

CONSTANTS RowCount,     \* length of the caller's slice
          Chunk,        \* MaxSegmentMembersPerRequest
          MaxAttempts,  \* segmentMaxAttempts
          Bad,          \* rows that the API rejects
          Spoilt,       \* rows that may fail to marshal
          Present,      \* rows that name somebody in the segment
          SegmentIDs,
          Headers,      \* Retry-After of an answer, in seconds, 0 when absent
          Second, Width \* time.Second, and the bits of a time.Duration

Rows == 0..RowCount - 1

ASSUME SizeAssumption == /\ RowCount \in Nat
                         /\ Chunk \in Nat \ {0}
                         /\ MaxAttempts \in Nat \ {0}
ASSUME RowAssumption == Bad \subseteq Rows /\ Spoilt \subseteq Rows /\ Present \subseteq Rows
ASSUME TimeAssumption == Second \in Nat \ {0} /\ Width \in Nat \ {0} /\ Headers \subseteq Int

\* True of all natural numbers.  The provers do not know it, TLC evaluates it.
ASSUME PowerAssumption == /\ 2^(Width - 1) \in Nat \ {0}
                          /\ 2^Width = 2 * 2^(Width - 1)
                          /\ \A n \in 0..MaxAttempts : 2^n \in Nat

VARIABLES input,    \* segmentID, the operation and the rows that do not marshal
          ctx,      \* "live", or "ended" by a deadline or a cancellation
          pc,       \* "writing" between chunks, "sending", "waiting" or "returned"
          start,    \* the first row of the chunk
          attempt,  \* of the current request
          wait,     \* the duration of the timer
          total,    \* the result so far, returned whatever happens
          err,      \* the error returned, or to be returned if the context ends
          asked,    \* history: the Retry-After of the answer that is waited for
          net,      \* requests under way, as <<start, attempt>>
          reply,    \* the answer to the current request, NoReply until it is there
          members,  \* rows that name somebody in the segment now
          applied   \* history: how often the API took each row

callVars == <<pc, start, attempt, wait, total, err, asked>>
apiVars == <<members, applied>>
vars == <<input, ctx, callVars, net, reply, apiVars>>

ChunkRows(s) == {r \in Rows : s <= r /\ r < s + Chunk}

NoResult == [added |-> 0, removed |-> 0, notFound |-> 0, rejected |-> {}]

NoReply == [kind |-> "none", header |-> 0, result |-> NoResult]

Init == /\ input \in [segmentID : SegmentIDs, op : {"add", "remove"}, spoilt : SUBSET Spoilt]
        /\ ctx = "live"
        /\ pc = "writing" /\ start = 0 /\ attempt = 0 /\ wait = 0
        /\ total = NoResult /\ err = "none" /\ asked = 0
        /\ net = {} /\ reply = NoReply
        /\ members = Present
        /\ applied = [r \in Rows |-> 0]

-------------------------------------------------------------------------------
(* The API and the network                                                 *)

\* The API goes through the rows of a request in its list "add" or "remove".
Answer(s) ==
  LET good == ChunkRows(s) \ Bad
      rejected == {r - s : r \in ChunkRows(s) \intersect Bad}
  IN  IF input.op = "add"
      THEN [added |-> Cardinality(good), removed |-> 0, notFound |-> 0, rejected |-> rejected]
      ELSE [added |-> 0, removed |-> Cardinality(good \intersect members),
            notFound |-> Cardinality(good \ members), rejected |-> rejected]

\* An answer reaches the client if it still waits for that request.
Deliver(r, kind, result) ==
  IF pc = "sending" /\ r = <<start, attempt>>
  THEN \E h \in Headers : reply' = [kind |-> kind, header |-> h, result |-> result]
  ELSE UNCHANGED reply

\* What becomes of an answer that says 200: it may arrive, fail to decode, break
\* off, or be replaced by the 502 or 504 of a gateway.
Take(r) ==
  /\ r \in net
  /\ net' = net \ {r}
  /\ applied' = [row \in Rows |-> IF row \in ChunkRows(r[1]) \ Bad THEN applied[row] + 1
                                                                   ELSE applied[row]]
  /\ members' = IF input.op = "remove" THEN members \ (ChunkRows(r[1]) \ Bad) ELSE members
  /\ \E kind \in {"ok", "garbled", "unreadable", "unavailable"} :
       Deliver(r, kind, IF kind = "ok" THEN Answer(r[1]) ELSE NoResult)
  /\ UNCHANGED <<input, ctx, callVars>>

\* 429 and 503, or a refusal that repeating does not change.
Refuse(r) == /\ r \in net
             /\ net' = net \ {r}
             /\ \E kind \in {"unavailable", "refused"} : Deliver(r, kind, NoResult)
             /\ UNCHANGED <<input, ctx, callVars, apiVars>>

Lose(r) == /\ r \in net
           /\ net' = net \ {r}
           /\ UNCHANGED <<input, ctx, callVars, reply, apiVars>>

EndContext == /\ ctx = "live"
              /\ pc # "returned"
              /\ ctx' = "ended"
              /\ UNCHANGED <<input, callVars, net, reply, apiVars>>

-------------------------------------------------------------------------------
(* Faulty variants of the definitions below. No specification uses them:   *)
(* put in the place of the definition they vary, each must break a         *)
(* property.                                                               *)

\* The header is read as a number of nanoseconds.
RetryAfterHeader_NoUnit(secs) == IF secs <= 0 THEN 0 ELSE secs

\* The indexes stay those of the chunk.
Merge_ChunkIndexes(t, res, first) == [added    |-> t.added + res.added,
                                      removed  |-> t.removed + res.removed,
                                      notFound |-> t.notFound + res.notFound,
                                      rejected |-> t.rejected \union res.rejected]

\* Removed and not found change places.
Merge_Swapped(t, res, first) == [added    |-> t.added + res.added,
                                 removed  |-> t.removed + res.notFound,
                                 notFound |-> t.notFound + res.removed,
                                 rejected |-> t.rejected \union {i + first : i \in res.rejected}]

\* MaxAttempts retries after the first try.
LastAttempt_CountsRetries == attempt >= MaxAttempts

\* A chunk that failed for good is skipped and the call goes on.
ReadError_SkipsChunk == /\ pc = "sending"
                        /\ reply.kind \in {"garbled", "refused"}
                        /\ pc' = "writing"
                        /\ start' = start + Chunk
                        /\ reply' = NoReply
                        /\ UNCHANGED <<input, ctx, attempt, wait, total, err, asked, net, apiVars>>

\* Every try counts as the first.
TryAgain_Uncounted == /\ pc = "waiting"
                      /\ pc' = "sending"
                      /\ net' = IF ctx = "live" THEN net \union {<<start, attempt>>} ELSE net
                      /\ UNCHANGED <<input, ctx, start, attempt, wait, total, err, asked, reply, apiVars>>

-------------------------------------------------------------------------------
(* retryAfterHeader                                                        *)

\* A time.Duration has Width bits and wraps.
Wrap(d) == LET half == 2^(Width - 1) IN ((d + half) % 2^Width) - half

RetryAfterHeader(secs) == IF secs <= 0 THEN 0 ELSE Wrap(secs * Second)

\* The default of NewSegments.
RetryAfter(n) == Wrap(Second * 2^n)

-------------------------------------------------------------------------------
(* write and post                                                          *)

Return(e) == /\ pc' = "returned"
             /\ err' = e
             /\ UNCHANGED <<start, attempt, wait, total, asked>>

\* A segment id that is not positive is refused before anything is sent.
RefuseID == /\ pc = "writing"
            /\ input.segmentID <= 0
            /\ Return("invalid_request")
            /\ UNCHANGED <<input, ctx, net, reply, apiVars>>

BuildFails == /\ pc = "writing"
              /\ input.segmentID > 0
              /\ ChunkRows(start) \intersect input.spoilt # {}
              /\ Return("marshal")
              /\ UNCHANGED <<input, ctx, net, reply, apiVars>>

\* No request leaves once the context has ended.
Submit(n) == /\ attempt' = n
             /\ pc' = "sending"
             /\ net' = IF ctx = "live" THEN net \union {<<start, n>>} ELSE net

SendChunk == /\ pc = "writing"
             /\ input.segmentID > 0
             /\ start < RowCount
             /\ ChunkRows(start) \intersect input.spoilt = {}
             /\ Submit(0)
             /\ UNCHANGED <<input, ctx, start, wait, total, err, asked, reply, apiVars>>

Finish == /\ pc = "writing"
          /\ input.segmentID > 0
          /\ start >= RowCount
          /\ Return("none")
          /\ UNCHANGED <<input, ctx, net, reply, apiVars>>

\* The rows of the chunk are accounted for; its indexes become the caller's.
Merge(t, res, first) == [added    |-> t.added + res.added,
                         removed  |-> t.removed + res.removed,
                         notFound |-> t.notFound + res.notFound,
                         rejected |-> t.rejected \union {i + first : i \in res.rejected}]

ReadResult == /\ pc = "sending"
              /\ reply.kind = "ok"
              /\ total' = Merge(total, reply.result, start)
              /\ start' = start + Chunk
              /\ pc' = "writing"
              /\ reply' = NoReply
              /\ UNCHANGED <<input, ctx, attempt, wait, err, asked, net, apiVars>>

\* An answer that trying again would not change.
ReadError == /\ pc = "sending"
             /\ reply.kind \in {"garbled", "refused"}
             /\ Return(reply.kind)
             /\ reply' = NoReply
             /\ UNCHANGED <<input, ctx, net, apiVars>>

LastAttempt == attempt + 1 >= MaxAttempts

\* Wait as long as the header says, or as the policy says without one.
WaitFor(header, e) ==
  /\ pc' = "waiting"
  /\ wait' = IF RetryAfterHeader(header) = 0 THEN RetryAfter(attempt)
                                             ELSE RetryAfterHeader(header)
  /\ asked' = header
  /\ err' = e
  /\ UNCHANGED <<start, attempt, total>>

ReadUnavailable == /\ pc = "sending"
                   /\ reply.kind \in {"unavailable", "unreadable"}
                   /\ IF LastAttempt THEN Return(reply.kind)
                                     ELSE WaitFor(reply.header, reply.kind)
                   /\ reply' = NoReply
                   /\ UNCHANGED <<input, ctx, net, apiVars>>

\* http.Do fails: no connection, the client's timeout, or the context.  The
\* request, or its answer, may be under way all the same.
TransportFails == /\ pc = "sending"
                  /\ IF ctx = "ended" \/ LastAttempt THEN Return("transport")
                                                     ELSE WaitFor(0, "transport")
                  /\ reply' = NoReply
                  /\ UNCHANGED <<input, ctx, net, apiVars>>

\* The select, when the timer fires, and when the context ends.
TryAgain == /\ pc = "waiting"
            /\ Submit(attempt + 1)
            /\ UNCHANGED <<input, ctx, start, wait, total, err, asked, reply, apiVars>>

StopWaiting == /\ pc = "waiting"
               /\ ctx = "ended"
               /\ Return("context")
               /\ UNCHANGED <<input, ctx, net, reply, apiVars>>

-------------------------------------------------------------------------------

Call == \/ RefuseID \/ BuildFails \/ SendChunk \/ Finish
        \/ ReadResult \/ ReadError \/ ReadUnavailable \/ TransportFails
        \/ TryAgain \/ StopWaiting

Api == \E r \in net : Take(r) \/ Refuse(r) \/ Lose(r)

Next == Call \/ Api \/ EndContext

Spec == Init /\ [][Next]_vars

\* The calling goroutine goes on: http.Do returns after 30 seconds at the latest
\* and a timer fires.  The API owes nothing.
FairSpec == Spec /\ WF_vars(Call)

-------------------------------------------------------------------------------
(* Properties                                                              *)

Counts == [added : 0..RowCount, removed : 0..RowCount, notFound : 0..RowCount,
           rejected : SUBSET Rows]

\* Every variable has its type; no request is tried more than MaxAttempts times.
TypeOK ==
  /\ input \in [segmentID : SegmentIDs, op : {"add", "remove"}, spoilt : SUBSET Spoilt]
  /\ ctx \in {"live", "ended"}
  /\ pc \in {"writing", "sending", "waiting", "returned"}
  /\ start \in 0..RowCount + Chunk - 1
  /\ attempt \in 0..MaxAttempts - 1
  /\ wait \in -2^(Width - 1)..2^(Width - 1) - 1
  /\ total \in Counts
  /\ err \in {"none", "invalid_request", "marshal", "garbled", "refused", "unavailable",
              "unreadable", "transport", "context"}
  /\ asked \in Headers \union {0}
  /\ net \subseteq (0..RowCount) \X (0..MaxAttempts - 1)
  /\ reply \in [kind : {"none", "ok", "garbled", "refused", "unavailable", "unreadable"},
                header : Headers \union {0}, result : Counts]
  /\ members \subseteq Rows
  /\ applied \in [Rows -> 0..MaxAttempts]

\* The rows of the chunks that succeeded.
Covered == {r \in Rows : r < start}

\* The result accounts for every row of the chunks that succeeded, each once, and
\* for no other row, also when the call returns an error; the rejected rows carry
\* the indexes of the caller's slice.
ResultCoversPrefix ==
  /\ total.rejected = Covered \intersect Bad
  /\ total.added + total.removed + total.notFound = Cardinality(Covered \ Bad)

\* A caller that goes on after an error can rely on where the result ends: rows
\* before the failed chunk took effect, rows after it were never sent, not even
\* in a request that is still under way; without an error all rows took effect,
\* and no late copy of a request undoes that.
ChunkBoundary ==
  /\ \A r \in Covered \ Bad : /\ applied[r] > 0
                              /\ input.op = "remove" => r \notin members
  /\ \A r \in Rows : r >= start + Chunk =>
       /\ applied[r] = 0
       /\ \A q \in net : r \notin ChunkRows(q[1])
  /\ pc = "returned" /\ err = "none" => Covered = Rows

\* A removal is reported as not found only if the row named nobody, or an earlier
\* try of the same request, whose answer was lost, had removed the row already.
NotFoundExplained ==
  LET rows == IF input.op = "remove" THEN Covered \ Bad ELSE {}
      absent == Cardinality(rows \ Present)
      repeated == Cardinality({r \in rows \intersect Present : applied[r] > 1})
  IN  absent <= total.notFound /\ total.notFound <= absent + repeated

\* The client waits the seconds that an answer asks for, as long as they fit a
\* time.Duration; beyond, the wait wraps and may end at once.
RetryAfterHonoured ==
  pc = "waiting" /\ asked > 0 /\ asked * Second < 2^(Width - 1) => wait = asked * Second

\* The call returns, whatever the API, the network and the context do.
CallReturns == <>(pc = "returned")
===============================================================================
