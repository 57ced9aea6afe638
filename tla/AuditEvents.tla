---------------------------- MODULE AuditEvents ----------------------------
(***************************************************************************)
(* The audit events of one redactprocessor instance and the control        *)
(* plane's event table they are reported to.                               *)
(*                                                                         *)
(* Pipeline goroutines append one event per rule hit to a bounded buffer   *)
(* that evicts its head when it is full.  The audit loop drains the        *)
(* buffer, posts it in batches without holding auditMu and appends each    *)
(* batch that failed to the buffer again.  The control plane writes a      *)
(* batch event by event, so a request may be handled in part.              *)
(*                                                                         *)
(* An event is identified by its place in the order of recording: the      *)
(* program gives events no identity.                                       *)
(***************************************************************************)
EXTENDS Naturals, Sequences, Functions

CONSTANTS
  BufferMax,   \* auditEventBufferMax
  MaxBatch,    \* auditEventsMaxBatch
  MaxEvents,   \* bound: events recorded in one behaviour
  MaxFailures  \* bound: requests and flush contexts that fail

ASSUME EventsAssumption ==
  /\ BufferMax \in Nat \ {0}
  /\ MaxBatch \in Nat \ {0}
  /\ MaxEvents \in Nat
  /\ MaxFailures \in Nat

VARIABLES
  auditEvents, \* rp.auditEvents
  drained,     \* flushAuditEvents' events from index i on
  flush,       \* where flushAuditEvents stands: idle, range, sent
  written,     \* how much of the batch on the wire the control plane wrote
  ctxExpired,  \* has the flush context timed out?
  stored,      \* the control plane's events, in the order of writing
  late,        \* requests given up by the client that can still be handled
  failures,    \* how many failures have happened
  lastId,      \* history: events recorded
  evicted,     \* history: events the full buffer has dropped
  suspect      \* history: events in a request that failed on the wire

clientVars == <<auditEvents, drained, flush, ctxExpired>>
serverVars == <<written, stored, late>>
historyVars == <<lastId, evicted, suspect>>
vars == <<clientVars, serverVars, failures, historyVars>>

-----------------------------------------------------------------------------

EventIds == 1 .. lastId

\* A plausible slip: a full buffer turns the newcomers away.
NewestRefused(s) == IF Len(s) <= BufferMax THEN s ELSE SubSeq(s, 1, BufferMax)

\* A plausible slip: the head goes before the last place is taken.
NewestButOne(s) ==
  IF Len(s) < BufferMax THEN s ELSE SubSeq(s, Len(s) - BufferMax + 2, Len(s))

\* Appending event after event to the buffer, its head evicted whenever it is
\* full, leaves the newest BufferMax of them.
Newest(s) ==
  IF Len(s) <= BufferMax THEN s ELSE SubSeq(s, Len(s) - BufferMax + 1, Len(s))

\* A plausible slip: a batch that failed is put back whatever its size.
AppendUnbounded(events) ==
  /\ auditEvents' = auditEvents \o events
  /\ UNCHANGED evicted

\* recordAuditEvent and mergeAuditEvents append under auditMu.
AppendEvents(events) ==
  LET all == auditEvents \o events
  IN  /\ auditEvents' = Newest(all)
      /\ evicted' = evicted \cup (Range(all) \ Range(Newest(all)))

BatchLen == IF Len(drained) <= MaxBatch THEN Len(drained) ELSE MaxBatch
Batch == SubSeq(drained, 1, BatchLen)

\* A plausible slip: i advances by one more than the batch.
RestOffByOne == SubSeq(drained, BatchLen + 2, Len(drained))

\* A plausible slip: i does not advance past a short batch.
RestFromStart == SubSeq(drained, BatchLen, Len(drained))

Rest == SubSeq(drained, BatchLen + 1, Len(drained))

LateRequest == [id : 1 .. MaxFailures, events : Seq(EventIds) \ {<<>>}]

TypeOK ==
  /\ lastId \in 0 .. MaxEvents
  /\ auditEvents \in Seq(EventIds)
  /\ Len(auditEvents) <= BufferMax
  /\ drained \in Seq(EventIds)
  /\ flush \in {"idle", "range", "sent"}
  /\ flush = "sent" => drained # <<>>
  /\ flush = "idle" => drained = <<>>
  /\ written \in 0 .. (IF flush = "sent" THEN BatchLen ELSE 0)
  /\ ctxExpired \in BOOLEAN
  /\ stored \in Seq(EventIds)
  /\ late \in SUBSET LateRequest
  /\ failures \in 0 .. MaxFailures
  /\ evicted \in SUBSET EventIds
  /\ suspect \in SUBSET EventIds

Init ==
  /\ auditEvents = <<>>
  /\ drained = <<>>
  /\ flush = "idle"
  /\ written = 0
  /\ ctxExpired = FALSE
  /\ stored = <<>>
  /\ late = {}
  /\ failures = 0
  /\ lastId = 0
  /\ evicted = {}
  /\ suspect = {}

-----------------------------------------------------------------------------
(* The pipeline goroutines.                                                *)

RecordAuditEvent ==
  /\ lastId < MaxEvents
  /\ lastId' = lastId + 1
  /\ AppendEvents(<<lastId'>>)
  /\ UNCHANGED <<drained, flush, ctxExpired, serverVars, failures, suspect>>

-----------------------------------------------------------------------------
(* flushAuditEvents, run by the audit loop after flushAuditCounts.         *)

\* The buffer is copied out and emptied under auditMu.  The context is shared
\* with flushAuditCounts: a slow counter flush may have used it up.
DrainAuditEvents ==
  /\ flush = "idle"
  /\ auditEvents # <<>>
  /\ drained' = auditEvents
  /\ auditEvents' = <<>>
  /\ flush' = "range"
  /\ \/ /\ ctxExpired' = FALSE
        /\ UNCHANGED failures
     \/ /\ failures < MaxFailures
        /\ failures' = failures + 1
        /\ ctxExpired' = TRUE
  /\ UNCHANGED <<serverVars, historyVars>>

PostAuditEvents ==
  /\ flush = "range"
  /\ drained # <<>>
  /\ ~ctxExpired
  /\ flush' = "sent"
  /\ UNCHANGED <<auditEvents, drained, ctxExpired, serverVars, failures,
                 historyVars>>

\* An expired context fails the post before anything is sent, and the batch
\* goes back to the buffer.
PostAfterDeadline ==
  /\ flush = "range"
  /\ drained # <<>>
  /\ ctxExpired
  /\ AppendEvents(Batch)
  /\ drained' = Rest
  /\ UNCHANGED <<flush, ctxExpired, serverVars, failures, lastId, suspect>>

\* A 2xx reply: every event of the batch is written.
PostReturnsNil ==
  /\ flush = "sent"
  /\ written = BatchLen
  /\ drained' = Rest
  /\ flush' = "range"
  /\ written' = 0
  /\ UNCHANGED <<auditEvents, ctxExpired, stored, late, failures,
                 historyVars>>

\* A plausible slip: a batch that failed is logged and forgotten.
PostErrorForgotten ==
  /\ flush = "sent"
  /\ failures < MaxFailures
  /\ failures' = failures + 1
  /\ drained' = Rest
  /\ flush' = "range"
  /\ written' = 0
  /\ suspect' = suspect \cup Range(Batch)
  /\ UNCHANGED <<auditEvents, evicted, ctxExpired, stored, late, lastId>>

\* The request or its reply is lost, the control plane fails at one of the
\* writes, or the context expires.  Unless the handler stopped, what it has not
\* written yet may still be written.  The batch goes back to the buffer as a
\* whole.
PostReturnsError ==
  /\ flush = "sent"
  /\ failures < MaxFailures
  /\ failures' = failures + 1
  /\ AppendEvents(Batch)
  /\ drained' = Rest
  /\ flush' = "range"
  /\ written' = 0
  /\ suspect' = suspect \cup Range(Batch)
  /\ \/ late' = late
     \/ /\ written < BatchLen
        /\ late' = late \cup
             {[id |-> failures', events |-> SubSeq(Batch, written + 1, BatchLen)]}
  /\ ctxExpired' \in {ctxExpired, TRUE}
  /\ UNCHANGED <<stored, lastId>>

FlushEnds ==
  /\ flush = "range"
  /\ drained = <<>>
  /\ flush' = "idle"
  /\ UNCHANGED <<auditEvents, drained, ctxExpired, serverVars, failures,
                 historyVars>>

-----------------------------------------------------------------------------
(* handlePostAuditEvents: the client's rule ids are not blank, so the       *)
(* handler drops none of its events; it writes one item per event, under a *)
(* random key.                                                             *)

\* A plausible slip: the first event of the rest is written again.
PutEventTwice ==
  /\ flush = "sent"
  /\ written < BatchLen
  /\ stored' = Append(stored, Batch[1])
  /\ written' = written + 1
  /\ UNCHANGED <<clientVars, late, failures, historyVars>>

PutEvent ==
  /\ flush = "sent"
  /\ written < BatchLen
  /\ stored' = Append(stored, Batch[written + 1])
  /\ written' = written + 1
  /\ UNCHANGED <<clientVars, late, failures, historyVars>>

\* A request that outlived its client is handled on, or ends.
HandleLate(q) ==
  /\ \/ /\ stored' = Append(stored, Head(q.events))
        /\ late' = (late \ {q}) \cup
             (IF Len(q.events) = 1 THEN {} ELSE {[q EXCEPT !.events = Tail(@)]})
     \/ /\ late' = late \ {q}
        /\ UNCHANGED stored
  /\ UNCHANGED <<clientVars, written, failures, historyVars>>

-----------------------------------------------------------------------------

Flush ==
  \/ DrainAuditEvents
  \/ PostAuditEvents
  \/ PostAfterDeadline
  \/ PostReturnsNil
  \/ FlushEnds

Next ==
  \/ RecordAuditEvent
  \/ DrainAuditEvents
  \/ PostAuditEvents
  \/ PostAfterDeadline
  \/ PostReturnsNil
  \/ PostReturnsError
  \/ FlushEnds
  \/ PutEvent
  \/ \E q \in late : HandleLate(q)

Spec == Init /\ [][Next]_vars

\* The audit loop keeps ticking and the control plane keeps handling requests;
\* neither failures nor further telemetry are promised.
FairSpec == Spec /\ WF_vars(Flush) /\ WF_vars(PutEvent)

-----------------------------------------------------------------------------
(* Properties.                                                             *)

\* The events the processor still holds, in the order it will post them.
Held == drained \o auditEvents

\* What the processor holds and the control plane has not written yet.
Unwritten == SubSeq(drained, written + 1, Len(drained)) \o auditEvents

\* An event is held, written or was evicted by the full buffer: no failure of
\* a batch, in part or as a whole, loses one silently.
NoSilentLoss == EventIds = Range(Held) \cup Range(stored) \cup evicted

\* Draining, slicing into batches and putting failed batches back never makes
\* two of one event in the processor's memory.
HeldOnce == IsInjective(Held)

\* An event that was in no failed request is written at most once, and what is
\* written of it is not waiting to be posted again.
WrittenTwiceOnlyAfterFailure ==
  \A e \in EventIds \ suspect :
    /\ \A i, j \in DOMAIN stored : stored[i] = e /\ stored[j] = e => i = j
    /\ e \in Range(stored) => e \notin Range(Unwritten)

\* While nothing fails the control plane gets the events in the order they were
\* recorded, and what gets evicted is older than all that is still held.
OrderWithoutFailure ==
  failures = 0 =>
    LET all == stored \o Unwritten
    IN  /\ \A i, j \in DOMAIN all : i < j => all[i] < all[j]
        /\ \A e \in evicted : \A k \in Range(auditEvents) : e < k

\* An event is dropped only by a buffer that is full, and a buffer that drops
\* events stays full.
EvictionOnlyWhenFull ==
  [][evicted' # evicted => Len(auditEvents') = BufferMax]_vars

\* Once failures stop, each event gets written or has been evicted.
EventsEventuallyWritten ==
  \A e \in 1 .. MaxEvents :
    (e \in EventIds) ~> (e \in Range(stored) \cup evicted)
=============================================================================
