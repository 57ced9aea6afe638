-------------------------- MODULE AuditEventsProofs --------------------------
(***************************************************************************)
(* The audit events, for every buffer, batch size, number of events and    *)
(* number of failures.  The argument is one of cutting and joining         *)
(* sequences: a batch and the rest make up what was drained, what a full   *)
(* buffer drops and what it keeps make up what was appended, and both      *)
(* "no event twice" and "in order" of a joined sequence split into the     *)
(* same of its parts and a relation between them.                          *)
(***************************************************************************)
EXTENDS AuditEvents, SequenceFacts, TLAPS

-----------------------------------------------------------------------------
(* The model's operators on sequences.                                     *)

\* What is kept of a sequence is its end; something is dropped before it only
\* to keep it within the buffer's size.
LEMMA NewestIsEnd ==
  ASSUME NEW S, NEW s \in Seq(S)
  PROVE  /\ Newest(s) \in Seq(S)
         /\ Len(Newest(s)) <= BufferMax
         /\ \E d \in Seq(S) : /\ s = d \o Newest(s)
                              /\ d # <<>> => Len(Newest(s)) = BufferMax
<1>1. BufferMax \in Nat /\ Len(s) \in Nat
  BY EventsAssumption, LenProperties
<1>2. CASE Len(s) <= BufferMax
  <2>1. <<>> \in Seq(S) /\ s = <<>> \o s /\ Newest(s) = s
    BY <1>2, ConcatEmptySeq, EmptySeq DEF Newest
  <2> QED
    BY <1>2, <2>1
<1>3. CASE ~(Len(s) <= BufferMax)
  <2>1. PICK k \in 0 .. Len(s) : k = Len(s) - BufferMax
    BY <1>1, <1>3
  <2>2. Newest(s) = SubSeq(s, k + 1, Len(s))
    BY <1>3, <2>1 DEF Newest
  <2>3. Len(s) - k = BufferMax
    BY <1>1, <2>1
  <2>4. /\ SubSeq(s, 1, k) \in Seq(S)
        /\ Newest(s) \in Seq(S)
        /\ Len(Newest(s)) = BufferMax
        /\ s = SubSeq(s, 1, k) \o Newest(s)
    BY <2>2, <2>3, CutJoins
  <2> QED
    <3>1. BufferMax <= BufferMax
      BY <1>1
    <3>2. \E d \in Seq(S) : /\ s = d \o Newest(s)
                            /\ d # <<>> => Len(Newest(s)) = BufferMax
      BY <2>4, Zenon
    <3> QED
      BY <2>4, <3>1, <3>2
<1> QED
  BY <1>2, <1>3

\* The buffer after an append is the end of what it held and was given; the
\* events before that end are the evicted ones.
LEMMA AppendKeepsEnd ==
  ASSUME TypeOK, NEW S, NEW events \in Seq(S), EventIds \subseteq S,
         AppendEvents(events)
  PROVE  /\ auditEvents' \in Seq(S)
         /\ Len(auditEvents') <= BufferMax
         /\ Range(auditEvents \o events) = Range(auditEvents) \cup Range(events)
         /\ evicted' = evicted \cup
              ((Range(auditEvents) \cup Range(events)) \ Range(auditEvents'))
         /\ \E d \in Seq(S) :
              /\ auditEvents \o events = d \o auditEvents'
              /\ Range(auditEvents \o events) = Range(d) \cup Range(auditEvents')
              /\ d # <<>> => Len(auditEvents') = BufferMax
<1>1. auditEvents \in Seq(S)
  BY SeqMonotonic DEF TypeOK
<1>2. /\ auditEvents \o events \in Seq(S)
      /\ Range(auditEvents \o events) = Range(auditEvents) \cup Range(events)
  BY <1>1, ConcatProperties, RangeConcatenation
<1>3. auditEvents' = Newest(auditEvents \o events)
      /\ evicted' = evicted \cup (Range(auditEvents \o events) \ Range(auditEvents'))
  BY DEF AppendEvents
<1>4. /\ auditEvents' \in Seq(S)
      /\ Len(auditEvents') <= BufferMax
      /\ \E d \in Seq(S) : /\ auditEvents \o events = d \o auditEvents'
                           /\ d # <<>> => Len(auditEvents') = BufferMax
  BY <1>2, <1>3, NewestIsEnd
<1>5. \A d \in Seq(S) : Range(d \o auditEvents') = Range(d) \cup Range(auditEvents')
  BY <1>4, RangeConcatenation
<1> QED
  BY <1>2, <1>3, <1>4, <1>5

\* A batch and the rest make up what was drained.
LEMMA BatchAndRest ==
  ASSUME TypeOK
  PROVE  /\ BatchLen \in 0 .. Len(drained)
         /\ drained # <<>> => BatchLen > 0
         /\ Batch \in Seq(EventIds) /\ Rest \in Seq(EventIds)
         /\ Len(Batch) = BatchLen
         /\ drained = Batch \o Rest
         /\ Range(drained) = Range(Batch) \cup Range(Rest)
<1>1. drained \in Seq(EventIds) /\ Len(drained) \in Nat
      /\ (drained # <<>> => Len(drained) > 0)
  BY LenProperties, EmptySeq DEF TypeOK
<1>2. BatchLen \in 0 .. Len(drained) /\ (drained # <<>> => BatchLen > 0)
  BY <1>1, EventsAssumption DEF BatchLen
<1>3. /\ Batch \in Seq(EventIds) /\ Rest \in Seq(EventIds)
      /\ Len(Batch) = BatchLen
      /\ drained = Batch \o Rest
  BY <1>1, <1>2, CutJoins DEF Batch, Rest
<1> QED
  BY <1>2, <1>3, RangeConcatenation

-----------------------------------------------------------------------------
(* The types.                                                              *)

LEMMA TypeInit == Init => TypeOK
<1> SUFFICES ASSUME Init PROVE TypeOK
  OBVIOUS
<1>1. <<>> \in Seq(EventIds) /\ Len(<<>>) = 0
  BY EmptySeq
<1>2. written \in 0 .. (IF flush = "sent" THEN BatchLen ELSE 0)
  BY DEF Init
<1>3. 0 <= BufferMax /\ 0 \in 0 .. MaxEvents /\ 0 \in 0 .. MaxFailures
  BY EventsAssumption
<1> QED
  BY <1>1, <1>2, <1>3 DEF Init, TypeOK

LEMMA TypeStep == TypeOK /\ [Next]_vars => TypeOK'
<1> SUFFICES ASSUME TypeOK, [Next]_vars PROVE TypeOK'
  OBVIOUS
<1> USE EventsAssumption
<1>1. ASSUME RecordAuditEvent PROVE TypeOK'
  <2>1. /\ EventIds \subseteq EventIds' /\ lastId' \in EventIds'
        /\ <<lastId'>> \in Seq(EventIds') /\ lastId' \in 0 .. MaxEvents
    BY <1>1 DEF RecordAuditEvent, EventIds, TypeOK
  <2>2. AppendEvents(<<lastId'>>)
    BY <1>1 DEF RecordAuditEvent
  <2>3. /\ auditEvents' \in Seq(EventIds') /\ Len(auditEvents') <= BufferMax
        /\ evicted' \subseteq EventIds'
    <3>1. Range(auditEvents) \subseteq EventIds'
          /\ Range(<<lastId'>>) \subseteq EventIds'
          /\ evicted \subseteq EventIds'
      BY <2>1, RangeOfSeq DEF TypeOK
    <3>2. /\ auditEvents' \in Seq(EventIds') /\ Len(auditEvents') <= BufferMax
          /\ evicted' = evicted \cup
               ((Range(auditEvents) \cup Range(<<lastId'>>)) \ Range(auditEvents'))
      BY <2>1, <2>2, AppendKeepsEnd
    <3> QED
      BY <3>1, <3>2
  <2>4. drained' \in Seq(EventIds') /\ stored' \in Seq(EventIds')
        /\ LateRequest \subseteq LateRequest'
    BY <1>1, <2>1, SeqMonotonic
    DEF RecordAuditEvent, TypeOK, serverVars, LateRequest
  <2>5. BatchLen' = BatchLen
    BY <1>1 DEF RecordAuditEvent, BatchLen
  <2> QED
    BY <1>1, <2>1, <2>3, <2>4, <2>5 DEF RecordAuditEvent, TypeOK, serverVars
<1>2. ASSUME lastId' = lastId
      PROVE  EventIds' = EventIds /\ LateRequest' = LateRequest
  BY <1>2 DEF EventIds, LateRequest
<1>3. BatchLen \in Nat /\ Batch \in Seq(EventIds) /\ Rest \in Seq(EventIds)
      /\ Len(Batch) = BatchLen
  BY BatchAndRest, LenProperties DEF TypeOK
<1>4. <<>> \in Seq(EventIds) /\ Len(<<>>) = 0
  BY EmptySeq
<1>5. ASSUME DrainAuditEvents PROVE TypeOK'
  <2>1. written' = 0 /\ flush' = "range"
    BY <1>5 DEF DrainAuditEvents, TypeOK, serverVars
  <2>2. written' \in 0 .. (IF flush' = "sent" THEN BatchLen' ELSE 0)
    BY <2>1
  <2>3. auditEvents' = <<>> /\ Len(auditEvents') <= BufferMax
    BY <1>4, <1>5 DEF DrainAuditEvents
  <2>4. drained' = auditEvents /\ failures' \in 0 .. MaxFailures
    BY <1>5, SMT DEF DrainAuditEvents, TypeOK
  <2>5. ctxExpired' \in BOOLEAN
    BY <1>5, Zenon DEF DrainAuditEvents
  <2> QED
    BY <1>2, <1>4, <1>5, <2>1, <2>2, <2>3, <2>4, <2>5
    DEF DrainAuditEvents, TypeOK, serverVars, historyVars
<1>6. ASSUME PostAuditEvents PROVE TypeOK'
  <2>1. written' = 0 /\ BatchLen' = BatchLen
    BY <1>6 DEF PostAuditEvents, TypeOK, serverVars, BatchLen
  <2>2. written' \in 0 .. (IF flush' = "sent" THEN BatchLen' ELSE 0)
    BY <1>3, <2>1
  <2> QED
    BY <1>2, <1>6, <2>2
    DEF PostAuditEvents, TypeOK, serverVars, historyVars
<1>7. ASSUME AppendEvents(Batch), lastId' = lastId
      PROVE  /\ auditEvents' \in Seq(EventIds') /\ Len(auditEvents') <= BufferMax
             /\ evicted' \subseteq EventIds'
  <2>1. Range(auditEvents) \subseteq EventIds /\ Range(Batch) \subseteq EventIds
    BY <1>3, RangeOfSeq DEF TypeOK
  <2> QED
    BY <1>2, <1>3, <1>7, <2>1, AppendKeepsEnd DEF TypeOK
<1>8. ASSUME PostAfterDeadline PROVE TypeOK'
  <2>1. AppendEvents(Batch) /\ lastId' = lastId
    BY <1>8 DEF PostAfterDeadline
  <2> QED
    BY <1>2, <1>3, <1>7, <1>8, <2>1
    DEF PostAfterDeadline, TypeOK, serverVars
<1>9. ASSUME PostReturnsNil PROVE TypeOK'
  BY <1>2, <1>3, <1>9
  DEF PostReturnsNil, TypeOK, historyVars
<1>10. ASSUME PostReturnsError PROVE TypeOK'
  <2>1. AppendEvents(Batch) /\ lastId' = lastId
    BY <1>10 DEF PostReturnsError
  <2>2. Range(Batch) \subseteq EventIds
    BY <1>3, RangeOfSeq
  <2>3. late' \in SUBSET LateRequest
    <3>1. CASE written < BatchLen
      <4>1. SubSeq(Batch, written + 1, Len(Batch)) \in Seq(EventIds)
            /\ Len(SubSeq(Batch, written + 1, Len(Batch))) = Len(Batch) - written
        BY <1>3, <1>10, <3>1, CutJoins DEF TypeOK, PostReturnsError
      <4>2. SubSeq(Batch, written + 1, BatchLen) \in Seq(EventIds) \ {<<>>}
        <5>1. Len(SubSeq(Batch, written + 1, BatchLen)) # 0
          BY <1>3, <1>10, <3>1, <4>1 DEF TypeOK, PostReturnsError
        <5> QED
          BY <1>3, <4>1, <5>1, NotEmpty
      <4>3. failures' \in 1 .. MaxFailures
        BY <1>10 DEF PostReturnsError, TypeOK
      <4>4. [id |-> failures', events |-> SubSeq(Batch, written + 1, BatchLen)]
              \in LateRequest
        BY <4>2, <4>3 DEF LateRequest
      <4> QED
        BY <1>10, <4>4 DEF PostReturnsError, TypeOK
    <3>2. CASE ~(written < BatchLen)
      BY <1>10, <3>2 DEF PostReturnsError, TypeOK
    <3> QED
      BY <3>1, <3>2
  <2>4. suspect' \in SUBSET EventIds
    BY <1>10, <2>2 DEF PostReturnsError, TypeOK
  <2>5. written' = 0 /\ flush' = "range" /\ drained' = Rest
        /\ ctxExpired' \in {ctxExpired, TRUE} /\ stored' = stored
        /\ failures < MaxFailures /\ failures' = failures + 1
    BY <1>10 DEF PostReturnsError
  <2>6. failures' \in 0 .. MaxFailures
    BY <2>5, SMT DEF TypeOK
  <2>7. written' \in 0 .. (IF flush' = "sent" THEN BatchLen' ELSE 0)
    BY <2>5
  <2>8. ctxExpired' \in BOOLEAN
    BY <2>5, Zenon DEF TypeOK
  <2> QED
    BY <1>2, <1>3, <1>7, <2>1, <2>3, <2>4, <2>5, <2>6, <2>7, <2>8 DEF TypeOK
<1>11. ASSUME FlushEnds PROVE TypeOK'
  BY <1>2, <1>11
  DEF FlushEnds, TypeOK, serverVars, historyVars
<1>12. ASSUME PutEvent PROVE TypeOK'
  <2>1. Batch[written + 1] \in EventIds
    BY <1>3, <1>12, ElementOfSeq DEF PutEvent, TypeOK
  <2>2. stored' \in Seq(EventIds)
    BY <1>12, <2>1, AppendProperties DEF PutEvent, TypeOK
  <2>3. BatchLen' = BatchLen
    BY <1>12 DEF PutEvent, clientVars, BatchLen
  <2> QED
    BY <1>2, <1>3, <1>12, <2>2, <2>3
    DEF PutEvent, TypeOK, clientVars, historyVars
<1>13. ASSUME NEW q \in late, HandleLate(q) PROVE TypeOK'
  <2>1. q.id \in 1 .. MaxFailures /\ q.events \in Seq(EventIds) /\ q.events # <<>>
        /\ q \in LateRequest
    BY DEF TypeOK, LateRequest
  <2>2. /\ Head(q.events) \in EventIds
        /\ Tail(q.events) \in Seq(EventIds)
        /\ Len(Tail(q.events)) = Len(q.events) - 1
        /\ Len(q.events) \in Nat
    BY <2>1, HeadTailProperties, LenProperties
  <2>3. stored' \in Seq(EventIds)
    <3>1. stored \in Seq(EventIds)
      BY DEF TypeOK
    <3>2. Append(stored, Head(q.events)) \in Seq(EventIds)
      BY <2>2, <3>1, AppendProperties
    <3> QED
      BY <1>13, <3>1, <3>2 DEF HandleLate
  <2>4. ASSUME Len(q.events) # 1
        PROVE  [q EXCEPT !.events = Tail(@)] \in LateRequest
    <3>1. Len(q.events) # 0
      BY <2>1, EmptySeq
    <3>2. Len(Tail(q.events)) # 0
      BY <2>2, <2>4
    <3>3. Tail(q.events) # <<>>
      BY <3>2, NotEmpty
    <3> QED
      BY <2>1, <2>2, <3>3 DEF LateRequest
  <2>5. late' \in SUBSET LateRequest
    BY <1>13, <2>4 DEF HandleLate, TypeOK
  <2>6. BatchLen' = BatchLen
    BY <1>13 DEF HandleLate, clientVars, BatchLen
  <2> QED
    BY <1>2, <1>13, <2>3, <2>5, <2>6
    DEF HandleLate, TypeOK, clientVars, historyVars
<1>14. ASSUME UNCHANGED vars PROVE TypeOK'
  <2>1. BatchLen' = BatchLen
    BY <1>14 DEF vars, clientVars, BatchLen
  <2> QED
    BY <1>2, <1>14, <2>1 DEF TypeOK, vars, clientVars, serverVars, historyVars
<1> QED
  BY <1>1, <1>5, <1>6, <1>8, <1>9, <1>10, <1>11, <1>12, <1>13, <1>14 DEF Next

\* Every event kept, posted, written or counted is one that was recorded, the
\* buffer holds at most BufferMax, and the post under way has a batch.
THEOREM EventsTyped == Spec => []TypeOK
BY TypeInit, TypeStep, PTL DEF Spec

-----------------------------------------------------------------------------
(* What the actions do to the events in the processor's memory.            *)

\* What is left to write of the events under way.
Unsent == SubSeq(drained, written + 1, Len(drained))

\* The events under way after a first part that has been written; what comes
\* after the batch is among them, and they begin with the next event to write.
LEMMA UnsentParts ==
  ASSUME TypeOK
  PROVE  /\ Unsent \in Seq(EventIds) /\ auditEvents \in Seq(EventIds)
         /\ drained \in Seq(EventIds)
         /\ Unwritten = Unsent \o auditEvents
         /\ Unwritten \in Seq(EventIds)
         /\ Range(Unwritten) = Range(Unsent) \cup Range(auditEvents)
         /\ Range(Held) = Range(drained) \cup Range(auditEvents)
         /\ Range(Unsent) \subseteq Range(drained)
         /\ Range(Rest) \subseteq Range(Unsent)
         /\ IsInjective(drained) => IsInjective(Unsent)
         /\ written = 0 => Unsent = drained
         /\ written = BatchLen => Unsent = Rest
<1>1. /\ drained \in Seq(EventIds) /\ auditEvents \in Seq(EventIds)
      /\ Len(drained) \in Nat
  BY LenProperties DEF TypeOK
<1>2. BatchLen \in 0 .. Len(drained) /\ written \in 0 .. BatchLen
  BY BatchAndRest DEF TypeOK
<1>3. written \in 0 .. Len(drained)
  BY <1>1, <1>2
<1>4. /\ Unsent \in Seq(EventIds)
      /\ SubSeq(drained, 1, written) \in Seq(EventIds)
      /\ drained = SubSeq(drained, 1, written) \o Unsent
  BY <1>1, <1>3, CutJoins DEF Unsent
<1>5. Range(Unsent) \subseteq Range(drained)
  <2>1. Range(SubSeq(drained, 1, written) \o Unsent)
          = Range(SubSeq(drained, 1, written)) \cup Range(Unsent)
    BY <1>4, RangeConcatenation
  <2> QED
    BY <1>4, <2>1
<1>6. IsInjective(drained) => IsInjective(Unsent)
  BY <1>4, JoinedInjective
<1>7. Range(Rest) \subseteq Range(Unsent)
  <2>1. PICK k \in 0 .. Len(Unsent) : k = BatchLen - written
    BY <1>1, <1>2, <1>3, CutJoins DEF Unsent
  <2>2. DOMAIN Rest = 1 .. (Len(drained) - BatchLen)
        /\ \A i \in DOMAIN Rest : Rest[i] = drained[BatchLen + i]
    BY <1>1, <1>2 DEF Rest
  <2>3. DOMAIN Unsent = 1 .. (Len(drained) - written)
        /\ \A i \in DOMAIN Unsent : Unsent[i] = drained[written + i]
    BY <1>1, <1>3 DEF Unsent
  <2>4. ASSUME NEW i \in DOMAIN Rest
        PROVE  k + i \in DOMAIN Unsent /\ Unsent[k + i] = Rest[i]
    <3>1. k + i \in DOMAIN Unsent /\ written + (k + i) = BatchLen + i
      BY <1>1, <1>2, <2>1, <2>2, <2>3
    <3> QED
      BY <2>2, <2>3, <3>1
  <2> QED
    BY <2>4 DEF Range
<1>8. written = 0 => Unsent = drained
  BY <1>1, SubSeqFull DEF Unsent
<1>9. written = BatchLen => Unsent = Rest
  BY DEF Unsent, Rest
<1>10. /\ Unwritten = Unsent \o auditEvents
       /\ Unwritten \in Seq(EventIds)
       /\ Range(Unwritten) = Range(Unsent) \cup Range(auditEvents)
  <2>1. Unwritten = Unsent \o auditEvents
    BY DEF Unwritten, Unsent
  <2>2. /\ Unsent \o auditEvents \in Seq(EventIds)
        /\ Range(Unsent \o auditEvents) = Range(Unsent) \cup Range(auditEvents)
    BY <1>1, <1>4, ConcatProperties, RangeConcatenation
  <2> QED
    BY <2>1, <2>2
<1>11. Range(Held) = Range(drained) \cup Range(auditEvents)
  BY <1>1, RangeConcatenation DEF Held
<1> QED
  BY <1>1, <1>4, <1>5, <1>6, <1>7, <1>8, <1>9, <1>10, <1>11

\* Draining the buffer, putting a batch on the wire and ending the flush move
\* events about, and a 2xx reply ends a batch that is written: what is left to
\* write stays as it is, in its order.
LEMMA MovesAbout ==
  ASSUME TypeOK, DrainAuditEvents \/ PostAuditEvents \/ PostReturnsNil \/ FlushEnds
  PROVE  /\ Unwritten' = Unwritten
         /\ HeldOnce => HeldOnce'
<1> USE DEF serverVars, historyVars
<1>1. drained \in Seq(EventIds) /\ auditEvents \in Seq(EventIds)
  BY DEF TypeOK
<1>2. CASE DrainAuditEvents
  <2>1. drained = <<>> /\ drained' = auditEvents /\ auditEvents' = <<>>
        /\ written = 0 /\ written' = 0
    BY <1>2 DEF DrainAuditEvents, TypeOK
  <2>2. Held = auditEvents /\ Held' = auditEvents
    BY <1>1, <2>1, ConcatEmptySeq DEF Held
  <2>3. Unwritten = auditEvents
    BY <1>1, <2>1, UnsentParts, ConcatEmptySeq
  <2>4. SubSeq(auditEvents, 0 + 1, Len(auditEvents)) = auditEvents
    BY <1>1, SubSeqFull
  <2>5. Unwritten' = auditEvents
    BY <1>1, <2>1, <2>4, ConcatEmptySeq DEF Unwritten
  <2> QED
    BY <2>2, <2>3, <2>5 DEF HeldOnce
<1>3. CASE PostAuditEvents \/ FlushEnds
  BY <1>3 DEF PostAuditEvents, FlushEnds, HeldOnce, Held, Unwritten
<1>4. CASE PostReturnsNil
  <2>1. written = BatchLen /\ drained' = Rest /\ auditEvents' = auditEvents
        /\ written' = 0
    BY <1>4 DEF PostReturnsNil
  <2>2. Rest \in Seq(EventIds)
    BY BatchAndRest
  <2>3. Unwritten = Rest \o auditEvents
    BY <2>1, UnsentParts
  <2>4. SubSeq(Rest, 0 + 1, Len(Rest)) = Rest
    BY <2>2, SubSeqFull
  <2>5. Unwritten' = Rest \o auditEvents
    BY <2>1, <2>4 DEF Unwritten
  <2>6. HeldOnce => HeldOnce'
    <3>1. HeldOnce => /\ IsInjective(Rest) /\ IsInjective(auditEvents)
                      /\ Range(Rest) \cap Range(auditEvents) = {}
      BY <1>1, <2>2, BatchAndRest, JoinedInjective DEF HeldOnce, Held
    <3>2. Held' = Rest \o auditEvents
      BY <2>1 DEF Held
    <3> QED
      BY <1>1, <2>2, <3>1, <3>2, JoinedInjective DEF HeldOnce
  <2> QED
    BY <2>3, <2>5, <2>6
<1> QED
  BY <1>2, <1>3, <1>4

\* A batch that failed goes to the end of the buffer: what is left to write is
\* then among what was held, what is missing from it was evicted, and no event
\* is held twice, since the batch has left its place.
LEMMA PutsBack ==
  ASSUME TypeOK, AppendEvents(Batch), drained' = Rest, written' = 0,
         lastId' = lastId
  PROVE  /\ Range(Unwritten') = Range(Rest) \cup Range(auditEvents')
         /\ Range(auditEvents') \subseteq Range(auditEvents) \cup Range(Batch)
         /\ Range(Unwritten') \cup evicted' = Range(Held) \cup evicted
         /\ HeldOnce => HeldOnce'
<1>1. /\ Batch \in Seq(EventIds) /\ Rest \in Seq(EventIds)
      /\ auditEvents \in Seq(EventIds)
      /\ drained = Batch \o Rest
      /\ Range(drained) = Range(Batch) \cup Range(Rest)
  BY BatchAndRest DEF TypeOK
<1>2. PICK d \in Seq(EventIds) :
        /\ auditEvents \o Batch = d \o auditEvents'
        /\ Range(auditEvents) \cup Range(Batch) = Range(d) \cup Range(auditEvents')
        /\ auditEvents' \in Seq(EventIds)
        /\ evicted' = evicted \cup
             ((Range(auditEvents) \cup Range(Batch)) \ Range(auditEvents'))
  BY <1>1, AppendKeepsEnd
<1>3. Unwritten' = Rest \o auditEvents'
  <2>1. SubSeq(Rest, 0 + 1, Len(Rest)) = Rest
    BY <1>1, SubSeqFull
  <2> QED
    BY <2>1 DEF Unwritten
<1>4. Range(Unwritten') = Range(Rest) \cup Range(auditEvents')
  BY <1>1, <1>2, <1>3, RangeConcatenation
<1>5. Range(Held) = Range(Batch) \cup Range(Rest) \cup Range(auditEvents)
  BY <1>1, UnsentParts
<1>6. ASSUME HeldOnce PROVE HeldOnce'
  <2>1. /\ IsInjective(Batch) /\ IsInjective(Rest) /\ IsInjective(auditEvents)
        /\ Range(Batch) \cap Range(Rest) = {}
        /\ (Range(Batch) \cup Range(Rest)) \cap Range(auditEvents) = {}
    <3>1. /\ IsInjective(drained) /\ IsInjective(auditEvents)
          /\ Range(drained) \cap Range(auditEvents) = {}
      BY <1>1, <1>6, JoinedInjective DEF HeldOnce, Held, TypeOK
    <3> QED
      BY <1>1, <3>1, JoinedInjective
  <2>2. IsInjective(auditEvents \o Batch)
    BY <1>1, <2>1, JoinedInjective
  <2>3. IsInjective(auditEvents')
    BY <1>2, <2>2, JoinedInjective
  <2>4. Range(Rest) \cap Range(auditEvents') = {}
    BY <1>2, <2>1
  <2>5. Held' = Rest \o auditEvents'
    BY DEF Held
  <2> QED
    BY <1>1, <1>2, <2>1, <2>3, <2>4, <2>5, JoinedInjective DEF HeldOnce
<1> QED
  BY <1>2, <1>4, <1>5, <1>6

\* A recorded event is new, and goes to the end of the buffer.
LEMMA Records ==
  ASSUME TypeOK, RecordAuditEvent
  PROVE  /\ lastId' = lastId + 1 /\ lastId' \notin EventIds
         /\ EventIds' = EventIds \cup {lastId'}
         /\ Unsent' = Unsent
         /\ Unwritten' = Unsent \o auditEvents'
         /\ auditEvents' \in Seq(EventIds')
         /\ Range(Unwritten') = Range(Unsent) \cup Range(auditEvents')
         /\ Range(auditEvents') \subseteq Range(auditEvents) \cup {lastId'}
         /\ Range(Unwritten') \cup evicted' = Range(Unwritten) \cup {lastId'} \cup evicted
         /\ HeldOnce => HeldOnce'
<1> DEFINE new == <<lastId'>>
<1>1. /\ lastId' = lastId + 1 /\ AppendEvents(new)
      /\ drained' = drained /\ written' = written /\ lastId \in Nat
  BY DEF RecordAuditEvent, serverVars, TypeOK
<1>2. /\ lastId' \notin EventIds /\ EventIds' = EventIds \cup {lastId'}
  BY <1>1 DEF EventIds
<1>3. /\ new \in Seq(EventIds') /\ Range(new) = {lastId'} /\ IsInjective(new)
  BY <1>2 DEF Range, IsInjective
<1>4. /\ auditEvents \in Seq(EventIds') /\ drained \in Seq(EventIds')
      /\ Unsent \in Seq(EventIds')
      /\ Range(drained) \subseteq EventIds /\ Range(auditEvents) \subseteq EventIds
  BY <1>2, UnsentParts, SeqMonotonic, RangeOfSeq
<1> HIDE DEF new
<1>5. PICK d \in Seq(EventIds') :
        /\ auditEvents \o new = d \o auditEvents'
        /\ Range(auditEvents) \cup Range(new) = Range(d) \cup Range(auditEvents')
        /\ auditEvents' \in Seq(EventIds')
        /\ evicted' = evicted \cup
             ((Range(auditEvents) \cup Range(new)) \ Range(auditEvents'))
  <2>1. EventIds \subseteq EventIds'
    BY <1>2
  <2> QED
    BY <1>1, <1>3, <2>1, AppendKeepsEnd
<1>6. Unsent' = Unsent /\ Unwritten' = Unsent \o auditEvents'
  BY <1>1 DEF Unsent, Unwritten
<1>7. Range(Unwritten') = Range(Unsent) \cup Range(auditEvents')
  BY <1>4, <1>5, <1>6, RangeConcatenation
<1>8. Range(Unwritten) = Range(Unsent) \cup Range(auditEvents)
  BY UnsentParts
<1>9. ASSUME HeldOnce PROVE HeldOnce'
  <2>1. /\ IsInjective(drained) /\ IsInjective(auditEvents)
        /\ Range(drained) \cap Range(auditEvents) = {}
    BY <1>4, <1>9, JoinedInjective DEF HeldOnce, Held
  <2>2. IsInjective(auditEvents \o new)
    BY <1>2, <1>3, <1>4, <2>1, JoinedInjective
  <2>3. IsInjective(auditEvents')
    BY <1>5, <2>2, JoinedInjective
  <2>4. Range(drained) \cap Range(auditEvents') = {}
    BY <1>2, <1>3, <1>4, <1>5, <2>1
  <2>5. Held' = drained \o auditEvents'
    BY <1>1 DEF Held
  <2> QED
    BY <1>4, <1>5, <2>1, <2>3, <2>4, <2>5, JoinedInjective DEF HeldOnce
<1> QED
  BY <1>1, <1>2, <1>3, <1>5, <1>6, <1>7, <1>8, <1>9

\* The control plane writes the first of the events that are left to write.
LEMMA Writes ==
  ASSUME TypeOK, PutEvent
  PROVE  \E e \in EventIds :
           /\ stored' = Append(stored, e)
           /\ Unwritten' \in Seq(EventIds)
           /\ Unwritten = <<e>> \o Unwritten'
           /\ Range(Unwritten) = {e} \cup Range(Unwritten')
           /\ HeldOnce => HeldOnce'
           /\ HeldOnce => e \notin Range(Unwritten')
<1>1. /\ stored' = Append(stored, Batch[written + 1])
      /\ written' = written + 1 /\ written < BatchLen
      /\ drained' = drained /\ auditEvents' = auditEvents
  BY DEF PutEvent, clientVars
<1>2. /\ drained \in Seq(EventIds) /\ auditEvents \in Seq(EventIds)
      /\ Unsent \in Seq(EventIds) /\ Unwritten = Unsent \o auditEvents
      /\ written \in Nat /\ BatchLen \in 0 .. Len(drained) /\ Len(drained) \in Nat
  <2>1. written \in 0 .. BatchLen /\ BatchLen \in 0 .. Len(drained)
        /\ Len(drained) \in Nat
    BY BatchAndRest, LenProperties DEF TypeOK
  <2> QED
    BY <2>1, UnsentParts
<1>3. PICK e \in EventIds : e = drained[written + 1]
  BY <1>1, <1>2, ElementOfSeq
<1>4. Batch[written + 1] = e
  BY <1>1, <1>2, <1>3 DEF Batch
<1> DEFINE rest == SubSeq(drained, written + 1 + 1, Len(drained))
<1>5. rest \in Seq(EventIds)
  BY <1>1, <1>2, SubSeqProperties, ElementOfSeq
<1>6. Unsent = <<e>> \o rest
  <2>1. written + 1 \in 1 .. Len(drained) /\ Len(drained) \in (written + 1) .. Len(drained)
    BY <1>1, <1>2
  <2> QED
    BY <1>2, <1>3, <2>1, SubSeqRecursiveFirst DEF Unsent
<1>7. Unwritten' = rest \o auditEvents
  BY <1>1 DEF Unwritten
<1>8. <<e>> \in Seq(EventIds) /\ Range(<<e>>) = {e}
  BY DEF Range
<1> HIDE DEF rest
<1>9. /\ Unwritten' \in Seq(EventIds)
      /\ Unwritten = <<e>> \o Unwritten'
      /\ Range(Unwritten) = {e} \cup Range(Unwritten')
  <2>1. Unwritten' \in Seq(EventIds)
    BY <1>2, <1>5, <1>7, ConcatProperties
  <2>2. Unwritten = <<e>> \o Unwritten'
    <3>1. (<<e>> \o rest) \o auditEvents = <<e>> \o (rest \o auditEvents)
      BY <1>2, <1>5, <1>8, ConcatAssociative
    <3> QED
      BY <1>2, <1>6, <1>7, <3>1
  <2>3. \A s, t \in Seq(EventIds) : Range(s \o t) = Range(s) \cup Range(t)
    BY RangeConcatenation
  <2> QED
    BY <1>8, <2>1, <2>2, <2>3
<1>10. HeldOnce => HeldOnce'
  BY <1>1 DEF HeldOnce, Held
<1>11. ASSUME HeldOnce PROVE e \notin Range(Unwritten')
  <2>1. /\ IsInjective(drained) /\ IsInjective(auditEvents)
        /\ Range(drained) \cap Range(auditEvents) = {}
    BY <1>2, <1>11, JoinedInjective DEF HeldOnce, Held
  <2>2. IsInjective(Unsent) /\ Range(Unsent) \subseteq Range(drained)
    BY <2>1, UnsentParts
  <2>3. IsInjective(Unwritten)
    BY <1>2, <2>1, <2>2, JoinedInjective
  <2> QED
    BY <1>8, <1>9, <2>3, JoinedInjective
<1> QED
  BY <1>1, <1>4, <1>9, <1>10, <1>11

-----------------------------------------------------------------------------
(* No event is lost, and none is held twice.                               *)

\* NoSilentLoss in a form that steps preserve: it has to speak of the events
\* that are left to write, since a written batch leaves the memory.
NothingLost == EventIds \subseteq Range(Unwritten) \cup Range(stored) \cup evicted

KeptInv == TypeOK /\ NothingLost /\ HeldOnce

\* Writing an event adds it to the table and keeps the others.
LEMMA WriteAdds ==
  ASSUME TypeOK, NEW e \in EventIds, stored' = Append(stored, e)
  PROVE  Range(stored') = Range(stored) \cup {e}
<1>1. stored \in Seq(EventIds) /\ <<e>> \in Seq(EventIds) /\ Range(<<e>>) = {e}
  BY DEF TypeOK, Range
<1>2. stored' = stored \o <<e>>
  BY <1>1, AppendIsConcat
<1>3. \A s, t \in Seq(EventIds) : Range(s \o t) = Range(s) \cup Range(t)
  BY RangeConcatenation
<1> QED
  BY <1>1, <1>2, <1>3

\* A late request writes one of its own events, or nothing.
LEMMA WritesLate ==
  ASSUME TypeOK, NEW q \in late, HandleLate(q)
  PROVE  /\ Unwritten' = Unwritten /\ Held' = Held
         /\ q.events \in Seq(EventIds)
         /\ \/ stored' = stored
            \/ \E e \in Range(q.events) : e \in EventIds /\ stored' = Append(stored, e)
         /\ \A r \in late' : r \in late \/ Range(r.events) \subseteq Range(q.events)
<1>1. q.events \in Seq(EventIds) /\ q.events # <<>>
  BY DEF TypeOK, LateRequest
<1>2. /\ Head(q.events) \in Range(q.events) /\ Head(q.events) \in EventIds
      /\ Range(Tail(q.events)) \subseteq Range(q.events)
  <2>1. Len(q.events) \in Nat \ {0} /\ DOMAIN q.events = 1 .. Len(q.events)
    BY <1>1, EmptySeq, LenProperties
  <2>2. Head(q.events) = q.events[1]
    BY <1>1, <2>1
  <2>3. /\ DOMAIN Tail(q.events) = 1 .. (Len(q.events) - 1)
        /\ \A i \in DOMAIN Tail(q.events) : Tail(q.events)[i] = q.events[i + 1]
    BY <1>1, <2>1, HeadTailProperties, LenProperties
  <2>4. \A i \in DOMAIN Tail(q.events) : i + 1 \in DOMAIN q.events
    BY <2>1, <2>3
  <2> QED
    BY <1>1, <2>1, <2>2, <2>3, <2>4, HeadTailProperties DEF Range
<1>3. q \in LateRequest
  BY DEF TypeOK
<1>4. [q EXCEPT !.events = Tail(@)].events = Tail(q.events)
  BY <1>3 DEF LateRequest
<1>5. \A r \in late' : r \in late \/ r = [q EXCEPT !.events = Tail(@)]
  BY DEF HandleLate
<1>6. Unwritten' = Unwritten /\ Held' = Held
  BY DEF HandleLate, Unwritten, Held, clientVars
<1>7. stored' = stored \/ stored' = Append(stored, Head(q.events))
  BY DEF HandleLate
<1> QED
  BY <1>1, <1>2, <1>4, <1>5, <1>6, <1>7

LEMMA KeptInit == Init => KeptInv
<1> SUFFICES ASSUME Init PROVE KeptInv
  OBVIOUS
<1>1. TypeOK
  BY TypeInit
<1>2. EventIds = {}
  BY DEF Init, EventIds
<1>3. HeldOnce
  <2>1. Held = <<>>
    BY <1>1, ConcatEmptySeq DEF Held, Init, TypeOK
  <2> QED
    BY <2>1 DEF HeldOnce, IsInjective
<1> QED
  BY <1>1, <1>2, <1>3 DEF KeptInv, NothingLost

LEMMA KeptStep == KeptInv /\ [Next]_vars => KeptInv'
<1> SUFFICES ASSUME TypeOK, NothingLost, HeldOnce, [Next]_vars
             PROVE  NothingLost' /\ HeldOnce'
  BY TypeStep DEF KeptInv
<1>1. CASE RecordAuditEvent
  <2>1. stored' = stored
    BY <1>1 DEF RecordAuditEvent, serverVars
  <2> QED
    BY <1>1, <2>1, Records DEF NothingLost
<1>2. CASE DrainAuditEvents \/ PostAuditEvents \/ PostReturnsNil \/ FlushEnds
  <2>1. stored' = stored /\ evicted' = evicted /\ EventIds' = EventIds
    BY <1>2 DEF DrainAuditEvents, PostAuditEvents, PostReturnsNil, FlushEnds,
                serverVars, historyVars, EventIds
  <2> QED
    BY <1>2, <2>1, MovesAbout DEF NothingLost
<1>3. CASE PostAfterDeadline \/ PostReturnsError
  <2>0. flush = "range" => written = 0
    BY DEF TypeOK
  <2>1. AppendEvents(Batch) /\ drained' = Rest /\ written' = 0 /\ lastId' = lastId
        /\ stored' = stored
    BY <1>3, <2>0 DEF PostAfterDeadline, PostReturnsError, serverVars
  <2>2. EventIds' = EventIds
    BY <2>1 DEF EventIds
  <2>3. Range(Unwritten) \subseteq Range(Held)
    BY UnsentParts
  <2>4. Range(Unwritten') \cup evicted' = Range(Held) \cup evicted /\ HeldOnce'
    BY <2>1, PutsBack
  <2> QED
    BY <2>1, <2>2, <2>3, <2>4 DEF NothingLost
<1>4. CASE PutEvent
  <2>1. PICK e \in EventIds : /\ stored' = Append(stored, e)
                              /\ Range(Unwritten) = {e} \cup Range(Unwritten')
                              /\ HeldOnce => HeldOnce'
    BY <1>4, Writes
  <2>2. Range(stored') = Range(stored) \cup {e}
    BY <2>1, WriteAdds
  <2>3. evicted' = evicted /\ EventIds' = EventIds
    BY <1>4 DEF PutEvent, historyVars, EventIds
  <2> QED
    BY <2>1, <2>2, <2>3 DEF NothingLost
<1>5. ASSUME NEW q \in late, HandleLate(q) PROVE NothingLost' /\ HeldOnce'
  <2>1. evicted' = evicted /\ EventIds' = EventIds
    BY <1>5 DEF HandleLate, historyVars, EventIds
  <2>2. Range(stored) \subseteq Range(stored')
    BY <1>5, WritesLate, WriteAdds
  <2>3. Unwritten' = Unwritten /\ Held' = Held
    BY <1>5, WritesLate
  <2> QED
    BY <2>1, <2>2, <2>3 DEF NothingLost, HeldOnce
<1>6. CASE UNCHANGED vars
  BY <1>6 DEF vars, clientVars, serverVars, historyVars, NothingLost, HeldOnce,
              Unwritten, Held, EventIds
<1> QED
  BY <1>1, <1>2, <1>3, <1>4, <1>5, <1>6 DEF Next

\* No failed batch, and no failure of the control plane part of the way
\* through one, loses an event other than by a full buffer.
THEOREM NeverLostSilently == Spec => []NoSilentLoss
<1>1. KeptInv => NoSilentLoss
  <2> SUFFICES ASSUME KeptInv PROVE NoSilentLoss
    OBVIOUS
  <2>1. Range(Unwritten) \subseteq Range(Held)
    BY UnsentParts DEF KeptInv
  <2>2. /\ Range(drained) \subseteq EventIds /\ Range(auditEvents) \subseteq EventIds
        /\ Range(stored) \subseteq EventIds /\ evicted \subseteq EventIds
    BY RangeOfSeq DEF KeptInv, TypeOK
  <2>3. Range(Held) \subseteq EventIds
    BY <2>2, UnsentParts DEF KeptInv
  <2> QED
    BY <2>1, <2>2, <2>3 DEF KeptInv, NothingLost, NoSilentLoss
<1> QED
  BY <1>1, KeptInit, KeptStep, PTL DEF Spec

\* Draining, slicing and putting back never duplicate an event in memory.
THEOREM NeverHeldTwice == Spec => []HeldOnce
BY KeptInit, KeptStep, PTL DEF Spec, KeptInv

\* A buffer drops an event only to stay within its size, and is then full.
THEOREM EvictsOnlyWhenFull == Spec => EvictionOnlyWhenFull
<1>1. TypeOK /\ [Next]_vars
        => [evicted' # evicted => Len(auditEvents') = BufferMax]_vars
  <2> SUFFICES ASSUME TypeOK, Next, evicted' # evicted
               PROVE  Len(auditEvents') = BufferMax
    BY DEF vars, historyVars
  <2>1. \E S : \E events \in Seq(S) : EventIds \subseteq S /\ AppendEvents(events)
    <3>1. CASE RecordAuditEvent
      <4>1. EventIds \subseteq EventIds' /\ <<lastId'>> \in Seq(EventIds')
        BY <3>1 DEF RecordAuditEvent, EventIds, TypeOK
      <4> QED
        BY <3>1, <4>1 DEF RecordAuditEvent
    <3>2. CASE PostAfterDeadline \/ PostReturnsError
      BY <3>2, BatchAndRest DEF PostAfterDeadline, PostReturnsError
    <3> QED
      BY <3>1, <3>2
      DEF Next, DrainAuditEvents, PostAuditEvents, PostReturnsNil, FlushEnds,
          PutEvent, HandleLate, historyVars
  <2>2. PICK S : \E events \in Seq(S) : EventIds \subseteq S /\ AppendEvents(events)
    BY <2>1
  <2>3. PICK events \in Seq(S) : EventIds \subseteq S /\ AppendEvents(events)
    BY <2>2
  <2>4. PICK d \in Seq(S) :
          /\ Range(auditEvents) \cup Range(events) = Range(d) \cup Range(auditEvents')
          /\ evicted' = evicted \cup
               ((Range(auditEvents) \cup Range(events)) \ Range(auditEvents'))
          /\ d # <<>> => Len(auditEvents') = BufferMax
    BY <2>3, AppendKeepsEnd
  <2>5. CASE d = <<>>
    <3>1. Range(d) = {}
      BY <2>5 DEF Range
    <3> QED
      BY <2>4, <3>1
  <2> QED
    BY <2>4, <2>5
<1> QED
  BY <1>1, EventsTyped, PTL DEF Spec, EvictionOnlyWhenFull

-----------------------------------------------------------------------------
(* What is written twice, and in which order.                              *)

\* What a late request can still write was in a request that failed.
LateSuspect == \A q \in late : Range(q.events) \subseteq suspect

WrittenInv == KeptInv /\ LateSuspect /\ WrittenTwiceOnlyAfterFailure

\* Writing an event that is not in the table, or has been in a failed request,
\* writes none of the others a second time.
LEMMA WriteOnce ==
  ASSUME TypeOK, WrittenTwiceOnlyAfterFailure,
         NEW e \in EventIds, stored' = Append(stored, e),
         e \in suspect \/ e \notin Range(stored)
  PROVE  \A x \in EventIds \ suspect :
           \A i, j \in DOMAIN stored' : stored'[i] = x /\ stored'[j] = x => i = j
<1>1. /\ DOMAIN stored = 1 .. Len(stored) /\ Len(stored) \in Nat
      /\ DOMAIN stored' = 1 .. Len(stored) + 1
      /\ \A i \in 1 .. Len(stored) : stored'[i] = stored[i]
      /\ stored'[Len(stored) + 1] = e
  BY AppendProperties, LenProperties DEF TypeOK
<1> SUFFICES ASSUME NEW x \in EventIds \ suspect,
                    NEW i \in DOMAIN stored', NEW j \in DOMAIN stored',
                    stored'[i] = x, stored'[j] = x
             PROVE  i = j
  OBVIOUS
<1>2. ASSUME x = e PROVE \A k \in DOMAIN stored : stored[k] # x
  BY <1>2 DEF Range
<1>3. CASE i \in DOMAIN stored /\ j \in DOMAIN stored
  BY <1>1, <1>3 DEF WrittenTwiceOnlyAfterFailure
<1>4. CASE i \notin DOMAIN stored /\ j \notin DOMAIN stored
  BY <1>1, <1>4
<1>5. CASE i \in DOMAIN stored /\ j \notin DOMAIN stored
  BY <1>1, <1>2, <1>5
<1>6. CASE i \notin DOMAIN stored /\ j \in DOMAIN stored
  BY <1>1, <1>2, <1>6
<1> QED
  BY <1>3, <1>4, <1>5, <1>6

LEMMA LateSuspectStep == TypeOK /\ LateSuspect /\ [Next]_vars => LateSuspect'
<1> SUFFICES ASSUME TypeOK, LateSuspect, [Next]_vars PROVE LateSuspect'
  OBVIOUS
<1>1. CASE PostReturnsError
  <2> DEFINE events == SubSeq(Batch, written + 1, BatchLen)
  <2>1. /\ suspect' = suspect \cup Range(Batch)
        /\ \A q \in late' : q \in late \/ q.events = events
    BY <1>1 DEF PostReturnsError
  <2>2. Batch \in Seq(EventIds) /\ Len(Batch) = BatchLen /\ BatchLen \in Nat
        /\ written \in Nat
    BY BatchAndRest, LenProperties DEF TypeOK
  <2>3. Range(events) \subseteq Range(Batch)
    BY <2>2 DEF Range
  <2> QED
    BY <2>1, <2>3 DEF LateSuspect
<1>2. ASSUME NEW q \in late, HandleLate(q) PROVE LateSuspect'
  <2>1. suspect' = suspect
    BY <1>2 DEF HandleLate, historyVars
  <2> QED
    BY <1>2, <2>1, WritesLate DEF LateSuspect
<1> QED
  BY <1>1, <1>2
  DEF LateSuspect, Next, vars, RecordAuditEvent, DrainAuditEvents, PostAuditEvents,
      PostAfterDeadline, PostReturnsNil, FlushEnds, PutEvent, serverVars, historyVars

LEMMA WrittenStep == WrittenInv /\ [Next]_vars => WrittenInv'
<1> DEFINE Once(x) ==
             \A i, j \in DOMAIN stored : stored[i] = x /\ stored[j] = x => i = j
           Done(x) == x \in Range(stored) => x \notin Range(Unwritten)
<1> SUFFICES ASSUME KeptInv, TypeOK, HeldOnce, LateSuspect,
                    WrittenTwiceOnlyAfterFailure, [Next]_vars,
                    NEW x, x \in EventIds', x \notin suspect'
             PROVE  Once(x)' /\ Done(x)'
  BY KeptStep, LateSuspectStep DEF WrittenInv, KeptInv, WrittenTwiceOnlyAfterFailure
<1>1. ASSUME x \in EventIds \ suspect PROVE Once(x) /\ Done(x)
  BY <1>1 DEF WrittenTwiceOnlyAfterFailure
<1>2. Range(stored) \subseteq EventIds
  BY RangeOfSeq DEF TypeOK
<1>3. CASE RecordAuditEvent
  <2>1. stored' = stored /\ suspect' = suspect
    BY <1>3 DEF RecordAuditEvent, serverVars
  <2>2. CASE x = lastId'
    <3>1. x \notin Range(stored)
      BY <1>2, <1>3, <2>2, Records
    <3> QED
      BY <2>1, <3>1 DEF Range
  <2>3. CASE x # lastId'
    <3>1. x \in EventIds \ suspect
      BY <1>3, <2>1, <2>3, Records
    <3>2. x \in Range(Unwritten') => x \in Range(Unwritten)
      BY <1>3, <2>3, Records, UnsentParts
    <3> QED
      BY <1>1, <2>1, <3>1, <3>2
  <2> QED
    BY <2>2, <2>3
<1>4. ASSUME EventIds' = EventIds, stored' = stored, suspect \subseteq suspect',
             x \in Range(Unwritten') => x \in Range(Unwritten)
      PROVE  Once(x)' /\ Done(x)'
  BY <1>1, <1>4
<1>5. CASE DrainAuditEvents \/ PostAuditEvents \/ PostReturnsNil \/ FlushEnds
  <2>1. stored' = stored /\ suspect' = suspect /\ EventIds' = EventIds
    BY <1>5 DEF DrainAuditEvents, PostAuditEvents, PostReturnsNil, FlushEnds,
                serverVars, historyVars, EventIds
  <2> QED
    BY <1>4, <1>5, <2>1, MovesAbout
<1>6. ASSUME AppendEvents(Batch), drained' = Rest, written' = 0, lastId' = lastId,
             stored' = stored, suspect \subseteq suspect',
             x \in Range(Batch) => x \in Range(Unwritten)
      PROVE  Once(x)' /\ Done(x)'
  <2>1. EventIds' = EventIds
    BY <1>6 DEF EventIds
  <2>2. Range(Unwritten') \subseteq Range(Unwritten) \cup Range(Batch)
    BY <1>6, PutsBack, UnsentParts
  <2> QED
    BY <1>4, <1>6, <2>1, <2>2
<1>7. CASE PostAfterDeadline
  <2>0. flush = "range" => written = 0
    BY DEF TypeOK
  <2>1. /\ AppendEvents(Batch) /\ drained' = Rest /\ written' = 0 /\ written = 0
        /\ lastId' = lastId /\ stored' = stored /\ suspect' = suspect
    BY <1>7, <2>0 DEF PostAfterDeadline, serverVars
  <2>2. Range(Batch) \subseteq Range(Unwritten)
    BY <2>1, BatchAndRest, UnsentParts
  <2> QED
    BY <1>6, <2>1, <2>2
<1>8. CASE PostReturnsError
  <2>1. /\ AppendEvents(Batch) /\ drained' = Rest /\ written' = 0
        /\ lastId' = lastId /\ stored' = stored
        /\ suspect' = suspect \cup Range(Batch)
    BY <1>8 DEF PostReturnsError
  <2> QED
    BY <1>6, <2>1
<1>9. CASE PutEvent
  <2>1. PICK e \in EventIds : /\ stored' = Append(stored, e)
                              /\ Range(Unwritten) = {e} \cup Range(Unwritten')
                              /\ e \notin Range(Unwritten')
    BY <1>9, Writes
  <2>2. Range(stored') = Range(stored) \cup {e}
    BY <2>1, WriteAdds
  <2>3. EventIds' = EventIds /\ suspect' = suspect
    BY <1>9 DEF PutEvent, historyVars, EventIds
  <2>4. e \in suspect \/ e \notin Range(stored)
    BY <2>1 DEF WrittenTwiceOnlyAfterFailure
  <2>5. Once(x)'
    BY <2>1, <2>3, <2>4, WriteOnce
  <2>6. Done(x)'
    BY <1>1, <2>1, <2>2, <2>3
  <2> QED
    BY <2>5, <2>6
<1>10. ASSUME NEW q \in late, HandleLate(q) PROVE Once(x)' /\ Done(x)'
  <2>1. EventIds' = EventIds /\ suspect' = suspect /\ Unwritten' = Unwritten
    BY <1>10, WritesLate DEF HandleLate, historyVars, EventIds
  <2>2. CASE stored' = stored
    BY <1>4, <2>1, <2>2
  <2>3. CASE \E e \in Range(q.events) : e \in EventIds /\ stored' = Append(stored, e)
    <3>1. PICK e \in EventIds : e \in suspect /\ stored' = Append(stored, e)
      BY <2>3 DEF LateSuspect
    <3>2. Range(stored') = Range(stored) \cup {e}
      BY <3>1, WriteAdds
    <3>3. Once(x)'
      BY <2>1, <3>1, WriteOnce
    <3>4. Done(x)'
      BY <1>1, <2>1, <3>1, <3>2
    <3> QED
      BY <3>3, <3>4
  <2> QED
    BY <1>10, <2>2, <2>3, WritesLate
<1>11. CASE UNCHANGED vars
  BY <1>4, <1>11
  DEF vars, clientVars, serverVars, historyVars, Unwritten, EventIds
<1> QED
  BY <1>3, <1>5, <1>7, <1>8, <1>9, <1>10, <1>11 DEF Next

\* An event that was in no failed request reaches the control plane once, and
\* is not waiting to be posted when it has.
THEOREM WrittenOnceUnlessFailed == Spec => []WrittenTwiceOnlyAfterFailure
<1>1. Init => WrittenInv
  <2> SUFFICES ASSUME Init PROVE LateSuspect /\ WrittenTwiceOnlyAfterFailure
    BY KeptInit DEF WrittenInv
  <2>1. EventIds = {} /\ late = {}
    BY DEF Init, EventIds
  <2> QED
    BY <2>1 DEF LateSuspect, WrittenTwiceOnlyAfterFailure
<1> QED
  BY <1>1, WrittenStep, PTL DEF Spec, WrittenInv

\* Before the first failure no request is late and no context has expired.
NothingFailed == failures = 0 => late = {} /\ ctxExpired = FALSE

OrderInv == TypeOK /\ NothingFailed /\ OrderWithoutFailure

\* Failures are counted; without one, nothing is put back and nothing is late.
LEMMA FailureStep ==
  ASSUME TypeOK, NothingFailed, [Next]_vars, failures' = 0
  PROVE  /\ failures = 0 /\ late' = {} /\ ctxExpired' = FALSE
         /\ \/ RecordAuditEvent \/ DrainAuditEvents \/ PostAuditEvents
            \/ PostReturnsNil \/ FlushEnds \/ PutEvent \/ UNCHANGED vars
<1>1. failures \in Nat
  BY DEF TypeOK
<1>2. failures' = failures \/ failures' = failures + 1
  BY DEF Next, vars, RecordAuditEvent, DrainAuditEvents, PostAuditEvents,
         PostAfterDeadline, PostReturnsNil, PostReturnsError, FlushEnds, PutEvent,
         HandleLate
<1>3. failures = 0 /\ failures' = failures
  BY <1>1, <1>2
<1>4. late = {} /\ ctxExpired = FALSE
  BY <1>3 DEF NothingFailed
<1>5. ~PostAfterDeadline
  BY <1>4 DEF PostAfterDeadline
<1>6. ~PostReturnsError
  BY <1>3 DEF PostReturnsError
<1>7. \/ RecordAuditEvent \/ DrainAuditEvents \/ PostAuditEvents
      \/ PostReturnsNil \/ FlushEnds \/ PutEvent \/ UNCHANGED vars
  BY <1>4, <1>5, <1>6 DEF Next
<1>8. late' = {}
  BY <1>4, <1>7
  DEF vars, serverVars, RecordAuditEvent, DrainAuditEvents, PostAuditEvents,
      PostReturnsNil, FlushEnds, PutEvent
<1>9. DrainAuditEvents => ctxExpired' = FALSE
  BY <1>3 DEF DrainAuditEvents
<1>10. ctxExpired' = FALSE
  BY <1>4, <1>7, <1>9
  DEF vars, clientVars, RecordAuditEvent, PostAuditEvents, PostReturnsNil,
      FlushEnds, PutEvent
<1> QED
  BY <1>3, <1>7, <1>8, <1>10

\* What OrderWithoutFailure says once nothing has failed.
InOrder == Increasing(stored \o Unwritten)
EvictedOlder == \A e \in evicted : \A k \in Range(auditEvents) : e < k

\* A new event goes behind all others; the buffer drops its oldest.
LEMMA RecordsInOrder ==
  ASSUME TypeOK, InOrder, EvictedOlder, RecordAuditEvent
  PROVE  InOrder' /\ EvictedOlder'
<1> DEFINE new == <<lastId'>>
<1>1. /\ AppendEvents(new) /\ lastId' = lastId + 1 /\ lastId \in Nat
      /\ stored' = stored /\ EventIds' = EventIds \cup {lastId'}
  BY Records DEF RecordAuditEvent, serverVars, TypeOK
<1>2. /\ \A e \in EventIds : e < lastId'
      /\ EventIds \subseteq Nat /\ EventIds' \subseteq Nat
  BY <1>1 DEF EventIds
<1>3. /\ new \in Seq(Nat) /\ Range(new) = {lastId'} /\ Increasing(new)
  BY <1>1 DEF Range, Increasing
<1>4. /\ stored \in Seq(Nat) /\ Unsent \in Seq(Nat) /\ auditEvents \in Seq(Nat)
      /\ Unsent \o auditEvents \in Seq(Nat)
      /\ Unwritten = Unsent \o auditEvents
      /\ Range(Unwritten) = Range(Unsent) \cup Range(auditEvents)
      /\ Range(stored) \subseteq EventIds /\ Range(Unsent) \subseteq EventIds
      /\ Range(auditEvents) \subseteq EventIds /\ evicted \subseteq EventIds
  BY <1>2, UnsentParts, SeqMonotonic, RangeOfSeq, ConcatProperties DEF TypeOK
<1>5. /\ Increasing(stored) /\ Increasing(Unsent) /\ Increasing(auditEvents)
      /\ \A x \in Range(stored), y \in Range(Unsent) \cup Range(auditEvents) : x < y
      /\ \A x \in Range(Unsent), y \in Range(auditEvents) : x < y
  BY <1>4, JoinedIncreasing DEF InOrder
<1> HIDE DEF new
<1>6. PICK d \in Seq(Nat) :
        /\ auditEvents \o new = d \o auditEvents'
        /\ auditEvents' \in Seq(Nat)
        /\ Range(auditEvents) \cup Range(new) = Range(d) \cup Range(auditEvents')
        /\ evicted' = evicted \cup
             ((Range(auditEvents) \cup Range(new)) \ Range(auditEvents'))
  BY <1>1, <1>2, <1>3, AppendKeepsEnd
<1>7. Increasing(auditEvents \o new)
  <2>1. \A x \in Range(auditEvents), y \in Range(new) : x < y
    BY <1>2, <1>3, <1>4
  <2> QED
    BY <1>3, <1>4, <1>5, <2>1, JoinedIncreasing
<1>8. /\ Increasing(auditEvents')
      /\ \A x \in Range(d), y \in Range(auditEvents') : x < y
  BY <1>6, <1>7, JoinedIncreasing
<1>9. Range(auditEvents') \subseteq Range(auditEvents) \cup {lastId'}
  BY <1>3, <1>6
<1>10. InOrder'
  <2>1. Unwritten' = Unsent \o auditEvents' /\ Unsent \o auditEvents' \in Seq(Nat)
        /\ Range(Unsent \o auditEvents') = Range(Unsent) \cup Range(auditEvents')
    BY <1>4, <1>6, Records, ConcatProperties, RangeConcatenation
  <2>2. \A x \in Range(Unsent), y \in Range(auditEvents') : x < y
    BY <1>2, <1>4, <1>5, <1>9
  <2>3. Increasing(Unsent \o auditEvents')
    BY <1>4, <1>5, <1>6, <1>8, <2>2, JoinedIncreasing
  <2>4. \A x \in Range(stored), y \in Range(Unsent \o auditEvents') : x < y
    BY <1>2, <1>4, <1>5, <1>9, <2>1
  <2> QED
    BY <1>1, <1>4, <1>5, <2>1, <2>3, <2>4, JoinedIncreasing DEF InOrder
<1>11. EvictedOlder'
  BY <1>2, <1>3, <1>4, <1>6, <1>8, <1>9 DEF EvictedOlder
<1> QED
  BY <1>10, <1>11

LEMMA OrderStep == OrderInv /\ [Next]_vars => OrderInv'
<1> SUFFICES ASSUME TypeOK, NothingFailed, OrderWithoutFailure, [Next]_vars,
                    failures' = 0
             PROVE  late' = {} /\ ctxExpired' = FALSE /\ InOrder' /\ EvictedOlder'
  BY TypeStep
  DEF OrderInv, NothingFailed, OrderWithoutFailure, InOrder, EvictedOlder, Increasing
<1>1. /\ failures = 0 /\ late' = {} /\ ctxExpired' = FALSE
      /\ \/ RecordAuditEvent \/ DrainAuditEvents \/ PostAuditEvents
         \/ PostReturnsNil \/ FlushEnds \/ PutEvent \/ UNCHANGED vars
  BY FailureStep
<1>2. InOrder /\ EvictedOlder
  BY <1>1 DEF OrderWithoutFailure, InOrder, EvictedOlder, Increasing
<1>3. CASE RecordAuditEvent
  BY <1>1, <1>2, <1>3, RecordsInOrder
<1>4. CASE DrainAuditEvents \/ PostAuditEvents \/ PostReturnsNil \/ FlushEnds
  <2>1. stored' = stored /\ evicted' = evicted
        /\ (auditEvents' = auditEvents \/ auditEvents' = <<>>)
    BY <1>4 DEF DrainAuditEvents, PostAuditEvents, PostReturnsNil, FlushEnds,
                serverVars, historyVars
  <2>2. Range(auditEvents') \subseteq Range(auditEvents)
    BY <2>1 DEF Range
  <2> QED
    BY <1>1, <1>2, <1>4, <2>1, <2>2, MovesAbout DEF InOrder, EvictedOlder
<1>5. CASE PutEvent
  <2>1. PICK e \in EventIds : /\ stored' = Append(stored, e)
                              /\ Unwritten' \in Seq(EventIds)
                              /\ Unwritten = <<e>> \o Unwritten'
    BY <1>5, Writes
  <2>2. stored \in Seq(EventIds) /\ <<e>> \in Seq(EventIds)
    BY DEF TypeOK
  <2>3. stored' = stored \o <<e>>
    BY <2>1, <2>2, AppendIsConcat
  <2>4. \A s, t, u \in Seq(EventIds) : (s \o t) \o u = s \o (t \o u)
    BY ConcatAssociative
  <2>5. stored' \o Unwritten' = stored \o Unwritten
    BY <2>1, <2>2, <2>3, <2>4
  <2>6. evicted' = evicted /\ auditEvents' = auditEvents
    BY <1>5 DEF PutEvent, clientVars, historyVars
  <2> QED
    BY <1>1, <1>2, <2>5, <2>6 DEF InOrder, EvictedOlder
<1>6. CASE UNCHANGED vars
  BY <1>1, <1>2, <1>6
  DEF vars, clientVars, serverVars, historyVars, InOrder, EvictedOlder, Unwritten
<1> QED
  BY <1>1, <1>3, <1>4, <1>5, <1>6

\* As long as nothing fails the control plane has the events in the order of
\* recording, the processor holds later ones than those, and the buffer has
\* dropped only events older than all it still has.
THEOREM InOrderUntilFailure == Spec => []OrderWithoutFailure
<1>1. Init => OrderInv
  <2> SUFFICES ASSUME Init PROVE NothingFailed /\ InOrder /\ EvictedOlder
    BY TypeInit
    DEF OrderInv, OrderWithoutFailure, InOrder, EvictedOlder, Increasing
  <2>1. stored \o Unwritten = <<>>
    BY TypeInit, UnsentParts, ConcatEmptySeq DEF Init, TypeOK
  <2> QED
    BY <2>1 DEF NothingFailed, InOrder, EvictedOlder, Increasing, Init
<1> QED
  BY <1>1, OrderStep, PTL DEF Spec, OrderInv
=============================================================================
