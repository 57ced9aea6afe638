--------------------------- MODULE LifecycleProofs ---------------------------
(***************************************************************************)
(* One instance from start to shutdown, for every number of callers and    *)
(* every bound of the two pipelines.  The argument: each channel is closed *)
(* in a place that is passed once, and how often it is closed can be read  *)
(* off where its owner stands; a flag is set as long as its loop may touch *)
(* anything, so a caller that saw it cleared, or the channel closed, finds *)
(* the loop quiet, and nothing starts a loop once a caller has come; in    *)
(* the stop branch nothing is recorded any more, so without a failure each *)
(* flush leaves empty what it has drained.                                 *)
(***************************************************************************)
EXTENDS Lifecycle, Integers, TLAPS

CountsProofs == INSTANCE AuditCountsProofs WITH
  flush <- countsFlush, ctxExpired <- countsExpired, late <- lateCounts,
  suspect <- suspectRules

EventsProofs == INSTANCE AuditEventsProofs WITH
  flush <- eventsFlush, ctxExpired <- eventsExpired, late <- lateEvents,
  failures <- eventFailures, suspect <- suspectEvents,
  MaxFailures <- 2 * MaxFailures

-----------------------------------------------------------------------------
(* What is proved of the two pipelines is proved of the instance's.        *)

LEMMA Assumed == CountsProofs!CountsAssumption /\ EventsProofs!EventsAssumption
BY LifecycleAssumption
DEF CountsProofs!CountsAssumption, EventsProofs!EventsAssumption

LEMMA SameCounts ==
  /\ Counts!Init <=> CountsProofs!Init
  /\ Counts!TypeOK <=> CountsProofs!TypeOK
  /\ [Counts!Next]_(Counts!vars) <=> [CountsProofs!Next]_(CountsProofs!vars)
<1> USE DEF Counts!Zero, CountsProofs!Zero
<1>1. Counts!Init <=> CountsProofs!Init
  BY Zenon DEF Counts!Init, CountsProofs!Init
<1>2. Counts!TypeOK <=> CountsProofs!TypeOK
  BY Zenon DEF Counts!TypeOK, CountsProofs!TypeOK, Counts!LateRequest,
               CountsProofs!LateRequest
<1>3. [Counts!Next]_(Counts!vars) <=> [CountsProofs!Next]_(CountsProofs!vars)
  BY Zenon
  DEF Counts!Next, CountsProofs!Next,
      Counts!vars, CountsProofs!vars,
      Counts!clientVars, CountsProofs!clientVars,
      Counts!serverVars, CountsProofs!serverVars,
      Counts!RuleHits, CountsProofs!RuleHits,
      Counts!Plus, CountsProofs!Plus,
      Counts!AddAuditHits, CountsProofs!AddAuditHits,
      Counts!DrainAuditCounts, CountsProofs!DrainAuditCounts,
      Counts!PostAuditCount, CountsProofs!PostAuditCount,
      Counts!PostAfterDeadline, CountsProofs!PostAfterDeadline,
      Counts!PostReturnsNil, CountsProofs!PostReturnsNil,
      Counts!PostReturnsError, CountsProofs!PostReturnsError,
      Counts!MergeAuditCounts, CountsProofs!MergeAuditCounts,
      Counts!HandlePostAuditCount, CountsProofs!HandlePostAuditCount,
      Counts!HandleLate, CountsProofs!HandleLate
<1> QED
  BY <1>1, <1>2, <1>3

LEMMA SameEvents ==
  /\ Events!Init <=> EventsProofs!Init
  /\ Events!TypeOK <=> EventsProofs!TypeOK
  /\ [Events!Next]_(Events!vars) <=> [EventsProofs!Next]_(EventsProofs!vars)
<1> USE DEF Events!EventIds, EventsProofs!EventIds,
            Events!BatchLen, EventsProofs!BatchLen
<1>1. Events!Init <=> EventsProofs!Init
  BY Zenon DEF Events!Init, EventsProofs!Init
<1>2. Events!TypeOK <=> EventsProofs!TypeOK
  BY Zenon DEF Events!TypeOK, EventsProofs!TypeOK, Events!LateRequest,
               EventsProofs!LateRequest
<1>3. [Events!Next]_(Events!vars) <=> [EventsProofs!Next]_(EventsProofs!vars)
  <2> USE DEF Events!clientVars, EventsProofs!clientVars,
              Events!serverVars, EventsProofs!serverVars,
              Events!historyVars, EventsProofs!historyVars,
              Events!Range, EventsProofs!Range
  <2>1. ASSUME NEW s PROVE Events!Newest(s) = EventsProofs!Newest(s)
    BY DEF Events!Newest, EventsProofs!Newest
  <2>2. ASSUME NEW e PROVE Events!AppendEvents(e) <=> EventsProofs!AppendEvents(e)
    <3>1. Events!Newest(auditEvents \o e) = EventsProofs!Newest(auditEvents \o e)
      BY <2>1
    <3> QED
      BY <3>1, Zenon DEF Events!AppendEvents, EventsProofs!AppendEvents
  <2>3. Events!RecordAuditEvent <=> EventsProofs!RecordAuditEvent
    BY <2>2, Zenon
    DEF Events!RecordAuditEvent, EventsProofs!RecordAuditEvent
  <2>4. /\ Events!DrainAuditEvents <=> EventsProofs!DrainAuditEvents
        /\ Events!PostAuditEvents <=> EventsProofs!PostAuditEvents
        /\ Events!FlushEnds <=> EventsProofs!FlushEnds
    BY Zenon
    DEF Events!DrainAuditEvents, EventsProofs!DrainAuditEvents,
        Events!PostAuditEvents, EventsProofs!PostAuditEvents,
        Events!FlushEnds, EventsProofs!FlushEnds
  <2> USE DEF Events!Batch, EventsProofs!Batch, Events!Rest, EventsProofs!Rest
  <2>5. Events!PostAfterDeadline <=> EventsProofs!PostAfterDeadline
    BY <2>2, Zenon
    DEF Events!PostAfterDeadline, EventsProofs!PostAfterDeadline
  <2>6. Events!PostReturnsNil <=> EventsProofs!PostReturnsNil
    BY Zenon DEF Events!PostReturnsNil, EventsProofs!PostReturnsNil
  <2>7. Events!PostReturnsError <=> EventsProofs!PostReturnsError
    <3>1. Events!AppendEvents(Events!Batch)
            <=> EventsProofs!AppendEvents(EventsProofs!Batch)
      BY <2>2
    <3> QED
      BY <3>1, Zenon DEF Events!PostReturnsError, EventsProofs!PostReturnsError
  <2>8. Events!PutEvent <=> EventsProofs!PutEvent
    BY Zenon DEF Events!PutEvent, EventsProofs!PutEvent
  <2>9. ASSUME NEW q PROVE Events!HandleLate(q) <=> EventsProofs!HandleLate(q)
    BY Zenon DEF Events!HandleLate, EventsProofs!HandleLate
  <2> QED
    BY <2>3, <2>4, <2>5, <2>6, <2>7, <2>8, <2>9, Zenon
    DEF Events!Next, EventsProofs!Next, Events!vars, EventsProofs!vars
<1> QED
  BY <1>1, <1>2, <1>3

-----------------------------------------------------------------------------
(* The inductive invariant.                                                *)

RefreshQuiet == refreshLoop \in {"none", "close", "done"}
AuditQuiet == auditLoop \in {"none", "close", "done"}

\* The types of what is not in the pipelines.
ControlTyped ==
  /\ config \in Config
  /\ started \in BOOLEAN
  /\ stopOnce \in {"free", "held", "done"}
  /\ shutdown \in [Callers -> {"not called", "running?", "await done",
                               "audit running?", "await audit", "returned"}]
  /\ stopClosed \in Nat /\ doneClosed \in Nat /\ auditClosed \in Nat
  /\ running \in BOOLEAN /\ auditRunning \in BOOLEAN
  /\ refreshLoop \in {"none", "select", "fetch", "clear", "close", "done"}
  /\ auditLoop \in {"none", "select", "counts", "flush counts", "events",
                    "flush events", "cancel", "clear", "close", "done"}
  /\ final \in BOOLEAN
  /\ failuresThen \in Nat

\* A channel has been closed when its owner is past the place that closes it.
ClosedAsReached ==
  /\ stopClosed = IF stopOnce = "free" THEN 0 ELSE 1
  /\ doneClosed = IF refreshLoop = "done" THEN 1 ELSE 0
  /\ auditClosed = IF auditLoop = "done" THEN 1 ELSE 0

\* A flag is set for as long as its loop may touch anything, and each pipeline
\* flushes only where the audit loop stands in that flush.
Flags ==
  /\ running <=> ~RefreshQuiet
  /\ auditRunning <=> ~AuditQuiet
  /\ ~started => refreshLoop = "none" /\ auditLoop = "none"
  /\ countsFlush # "idle" <=> auditLoop = "flush counts"
  /\ eventsFlush # "idle" <=> auditLoop = "flush events"

\* Who has come to shut down finds no loop started later, and who has got past
\* a loop finds it quiet.
Waiting ==
  /\ stopOnce = "free" <=> NotStopping
  /\ \A c \in Callers :
       /\ shutdown[c] \in {"audit running?", "await audit"} => RefreshQuiet
       /\ shutdown[c] = "returned" => stopOnce = "done"
  /\ stopOnce = "done" => RefreshQuiet /\ AuditQuiet

Control == ControlTyped /\ ClosedAsReached /\ Flags /\ Waiting

\* Without events enabled none is buffered or flushed; the audit loop runs when
\* there is an audit sink, and where it does not there is nothing to report.
Untouched ==
  /\ config.events => config.audit
  /\ auditLoop = "none" <=> ~started \/ ~config.audit
  /\ auditLoop = "flush events" => config.events
  /\ ~config.events => auditEvents = <<>>
  /\ auditLoop = "none" => auditCounts = Counts!Zero /\ auditEvents = <<>>

Failures == failures + eventFailures

\* A flush without failures leaves empty what it has drained, and the context
\* it shares has not expired.
CleanFlush ==
  /\ auditLoop \in {"flush counts", "events"} => countsExpired = FALSE
  /\ auditLoop = "flush counts" => failed = Counts!Zero
  /\ auditLoop # "counts" => auditCounts = Counts!Zero
  /\ auditLoop = "flush events" => eventsExpired = FALSE
  /\ auditLoop \notin {"counts", "flush counts", "events"} => auditEvents = <<>>

\* The stop branch is taken once stopCh is closed, is left only by way of a
\* flush, and is clean as long as nothing has failed in it.
FinalFlush ==
  /\ final => stopOnce # "free" /\ auditLoop \notin {"none", "select"}
  /\ auditLoop \in {"clear", "close", "done"} => final
  /\ final => failuresThen <= Failures
  /\ final /\ Failures = failuresThen => CleanFlush

Pipelines ==
  /\ CountsProofs!TypeOK /\ CountsProofs!IdleEmpty /\ CountsProofs!ExpiredOwes
  /\ EventsProofs!TypeOK

IInv == Control /\ Pipelines /\ Untouched /\ FinalFlush

-----------------------------------------------------------------------------
(* Each step is one of the two pipelines', or leaves them alone.            *)

LEMMA CountsUnchanged ==
  UNCHANGED countsVars => [Counts!Next]_(Counts!vars) /\ countsFlush' = countsFlush
BY DEF countsVars, Counts!vars, Counts!clientVars, Counts!serverVars

LEMMA EventsUnchanged ==
  UNCHANGED eventsVars => [Events!Next]_(Events!vars) /\ eventsFlush' = eventsFlush
BY DEF eventsVars, Events!vars, Events!clientVars, Events!serverVars,
       Events!historyVars

\* A flush that finds no hits began with a context of its own already: the
\* fresh context it creates makes no difference to the counters.
LEMMA NoCountsStutters ==
  ASSUME Flags, Pipelines, NoCounts
  PROVE  UNCHANGED countsVars
<1>1. auditLoop = "counts" /\ auditCounts = Counts!Zero /\ countsExpired' = FALSE
  BY DEF NoCounts, AuditMoves
<1>2. countsFlush = "idle"
  BY <1>1 DEF Flags
<1>3. \A r \in RuleIDs : auditCounts[r] = 0 /\ failed[r] = 0
  BY <1>1, <1>2 DEF Pipelines, CountsProofs!IdleEmpty, Counts!Zero
<1>4. countsExpired # TRUE
  <2>1. ~CountsProofs!OwesSomething
    BY <1>3 DEF CountsProofs!OwesSomething
  <2> QED
    BY <2>1, Zenon DEF Pipelines, CountsProofs!ExpiredOwes
<1>5. countsExpired = FALSE
  BY <1>4 DEF Pipelines, CountsProofs!TypeOK
<1> QED
  BY <1>1, <1>5 DEF NoCounts, countsVars

LEMMA CountsStepped ==
  Flags /\ Pipelines /\ [Next]_vars => [Counts!Next]_(Counts!vars)
<1> SUFFICES ASSUME Flags, Pipelines, [Next]_vars PROVE [Counts!Next]_(Counts!vars)
  OBVIOUS
<1>1. CASE UNCHANGED countsVars
  BY <1>1, CountsUnchanged
<1>2. CASE AddAuditHits
  BY <1>2 DEF AddAuditHits, Counts!Next
<1>3. CASE FlushCounts \/ CountsFlushed
  BY <1>3 DEF FlushCounts, CountsFlushed, Counts!Next
<1>4. CASE CountsStep
  BY <1>4 DEF CountsStep, Counts!Next
<1>5. CASE HandleLate
  BY <1>1, <1>5 DEF HandleLate, Counts!Next
<1>6. CASE NoCounts
  BY <1>1, <1>6, NoCountsStutters
<1>7. ASSUME NEW c \in Callers, Shutdown(c) PROVE UNCHANGED countsVars
  BY <1>7 DEF Shutdown, CloseStop, ReturnLater, IsRunning, AwaitDone,
              IsAuditRunning, ShutdownReturns, ShutdownMoves
<1>8. CASE RefreshStep
  <2>1. UNCHANGED countsVars
    BY <1>8 DEF RefreshStep, RefreshTick, RefreshEnds, RefreshStop, ClearRunning,
                CloseDone, RefreshMoves
  <2> QED
    BY <1>1, <2>1
<1>9. CASE Start \/ RecordAuditEvent \/ EventsStep
  BY <1>1, <1>9 DEF Start, RecordAuditEvent, EventsStep
<1>10. CASE AuditTick \/ AuditStop \/ NoEvents \/ FlushEvents \/ EventsFlushed
            \/ CancelContext \/ ClearAuditRunning \/ CloseAuditDone
  BY <1>1, <1>10 DEF AuditTick, AuditStop, NoEvents, FlushEvents, EventsFlushed,
                     CancelContext, ClearAuditRunning, CloseAuditDone
<1>11. CASE UNCHANGED vars
  BY <1>1, <1>11 DEF vars
<1> QED
  BY <1>1, <1>2, <1>3, <1>4, <1>5, <1>6, <1>7, <1>8, <1>9, <1>10, <1>11
  DEF Next, AuditStep

LEMMA EventsStepped == [Next]_vars => [Events!Next]_(Events!vars)
<1> SUFFICES ASSUME [Next]_vars PROVE [Events!Next]_(Events!vars)
  OBVIOUS
<1>1. CASE UNCHANGED eventsVars
  BY <1>1, EventsUnchanged
<1>2. CASE RecordAuditEvent
  BY <1>2 DEF RecordAuditEvent, Events!Next
<1>3. CASE FlushEvents \/ EventsFlushed
  BY <1>3 DEF FlushEvents, EventsFlushed, Events!Next
<1>4. CASE EventsStep
  BY <1>4 DEF EventsStep, Events!Next
<1>5. CASE HandleLate
  BY <1>1, <1>5 DEF HandleLate, Events!Next
<1>6. ASSUME NEW c \in Callers, Shutdown(c) PROVE UNCHANGED eventsVars
  BY <1>6 DEF Shutdown, CloseStop, ReturnLater, IsRunning, AwaitDone,
              IsAuditRunning, ShutdownReturns, ShutdownMoves
<1>7. CASE RefreshStep
  <2>1. UNCHANGED eventsVars
    BY <1>7 DEF RefreshStep, RefreshTick, RefreshEnds, RefreshStop, ClearRunning,
                CloseDone, RefreshMoves
  <2> QED
    BY <1>1, <2>1
<1>8. CASE Start \/ AddAuditHits \/ CountsStep
  BY <1>1, <1>8 DEF Start, AddAuditHits, CountsStep
<1>9. CASE AuditTick \/ AuditStop \/ NoCounts \/ FlushCounts \/ CountsFlushed
           \/ NoEvents \/ CancelContext \/ ClearAuditRunning \/ CloseAuditDone
  BY <1>1, <1>9 DEF AuditTick, AuditStop, NoCounts, FlushCounts, CountsFlushed,
                    NoEvents, CancelContext, ClearAuditRunning, CloseAuditDone
<1>10. CASE UNCHANGED vars
  BY <1>1, <1>10 DEF vars
<1> QED
  BY <1>1, <1>2, <1>3, <1>4, <1>5, <1>6, <1>7, <1>8, <1>9, <1>10 DEF Next, AuditStep

LEMMA PipelinesStep == Flags /\ Pipelines /\ [Next]_vars => Pipelines'
<1> SUFFICES ASSUME Flags, Pipelines, [Next]_vars PROVE Pipelines'
  OBVIOUS
<1>1. [CountsProofs!Next]_(CountsProofs!vars)
  BY CountsStepped, SameCounts
<1>2. [EventsProofs!Next]_(EventsProofs!vars)
  BY EventsStepped, SameEvents
<1>3. CountsProofs!TypeOK'
  BY <1>1, Assumed, CountsProofs!TypeStep DEF Pipelines
<1>4. CountsProofs!IdleEmpty'
  BY <1>1, Assumed, CountsProofs!IdleEmptyStep DEF Pipelines
<1>5. CountsProofs!ExpiredOwes'
  BY <1>1, Assumed, CountsProofs!ExpiredStep DEF Pipelines
<1>6. EventsProofs!TypeOK'
  BY <1>2, Assumed, EventsProofs!TypeStep DEF Pipelines
<1> QED
  BY <1>3, <1>4, <1>5, <1>6 DEF Pipelines

-----------------------------------------------------------------------------
(* Where the callers and the loops stand.                                  *)

\* A step within the pipelines, seen from outside.
WithinFlush ==
  /\ UNCHANGED <<hostVars, refreshVars, auditVars>>
  /\ countsFlush = "idle" <=> countsFlush' = "idle"
  /\ eventsFlush = "idle" <=> eventsFlush' = "idle"

LEMMA WithinFlushStep ==
  AddAuditHits \/ RecordAuditEvent \/ CountsStep \/ EventsStep \/ HandleLate
    => WithinFlush
<1>1. CASE AddAuditHits
  <2>1. countsFlush' = countsFlush
    BY <1>1 DEF AddAuditHits, Counts!AddAuditHits
  <2> QED
    BY <1>1, <2>1, EventsUnchanged DEF AddAuditHits, WithinFlush
<1>2. CASE RecordAuditEvent
  <2>1. eventsFlush' = eventsFlush
    BY <1>2 DEF RecordAuditEvent, Events!RecordAuditEvent
  <2> QED
    BY <1>2, <2>1, CountsUnchanged DEF RecordAuditEvent, WithinFlush
<1>3. CASE CountsStep
  <2>1. countsFlush # "idle" /\ countsFlush' # "idle"
    BY <1>3
    DEF CountsStep, Counts!PostAuditCount, Counts!PostAfterDeadline,
        Counts!PostReturnsNil, Counts!PostReturnsError, Counts!HandlePostAuditCount
  <2> QED
    BY <1>3, <2>1, EventsUnchanged DEF CountsStep, WithinFlush
<1>4. CASE EventsStep
  <2>1. eventsFlush # "idle" /\ eventsFlush' # "idle"
    BY <1>4
    DEF EventsStep, Events!PostAuditEvents, Events!PostAfterDeadline,
        Events!PostReturnsNil, Events!PostReturnsError, Events!PutEvent,
        Events!clientVars
  <2> QED
    BY <1>4, <2>1, CountsUnchanged DEF EventsStep, WithinFlush
<1>5. CASE HandleLate
  <2>1. countsFlush' = countsFlush /\ eventsFlush' = eventsFlush
    BY <1>5, CountsUnchanged, EventsUnchanged
    DEF HandleLate, Counts!HandleLate, Events!HandleLate, Counts!clientVars,
        Events!clientVars
  <2> QED
    BY <1>5, <2>1 DEF HandleLate, WithinFlush
<1> QED
  BY <1>1, <1>2, <1>3, <1>4, <1>5

\* How often a channel has been closed tells where its owner stands.
LEMMA ClosedMeansDone ==
  ASSUME ClosedAsReached
  PROVE  /\ stopOnce = "free" => stopClosed = 0
         /\ stopOnce # "free" => stopClosed = 1
         /\ refreshLoop # "done" => doneClosed = 0
         /\ doneClosed > 0 => refreshLoop = "done"
         /\ auditLoop # "done" => auditClosed = 0
         /\ auditClosed > 0 => auditLoop = "done"
BY DEF ClosedAsReached

LEMMA StartControls == Control /\ Start => Control'
<1> SUFFICES ASSUME Control, Start PROVE Control'
  OBVIOUS
<1>1. /\ NotStopping /\ started = FALSE /\ stopOnce = "free"
      /\ refreshLoop = "none" /\ auditLoop = "none"
  BY DEF Control, Start, Flags, Waiting, ControlTyped
<1>2. /\ countsFlush' = countsFlush /\ eventsFlush' = eventsFlush
  BY CountsUnchanged, EventsUnchanged DEF Start
<1>3. /\ config \in Config /\ config.aws \in BOOLEAN /\ config.audit \in BOOLEAN
  BY DEF Control, ControlTyped, Config
<1> USE DEF Start, Control
<1>4. ControlTyped'
  BY <1>1, <1>3 DEF ControlTyped
<1>5. ClosedAsReached'
  BY <1>1 DEF ClosedAsReached
<1>6. Flags'
  <2>1. running' <=> ~RefreshQuiet'
    BY <1>3 DEF RefreshQuiet
  <2>2. auditRunning' <=> ~AuditQuiet'
    BY <1>3 DEF AuditQuiet
  <2>3. auditLoop' \in {"none", "select"}
    BY <1>3
  <2>4. countsFlush' = "idle" /\ eventsFlush' = "idle"
    BY <1>1, <1>2 DEF Flags
  <2> QED
    BY <2>1, <2>2, <2>3, <2>4 DEF Flags
<1>7. Waiting'
  BY <1>1 DEF Waiting, NotStopping
<1> QED
  BY <1>4, <1>5, <1>6, <1>7

LEMMA ShutdownControls ==
  ASSUME Control, NEW c \in Callers, Shutdown(c)
  PROVE  Control'
<1>1. /\ countsFlush' = countsFlush /\ eventsFlush' = eventsFlush
      /\ UNCHANGED <<config, started, refreshVars, auditVars>>
  BY CountsUnchanged, EventsUnchanged
  DEF Shutdown, CloseStop, ReturnLater, IsRunning, AwaitDone, IsAuditRunning,
      ShutdownReturns, ShutdownMoves
<1>2. Flags'
  BY <1>1 DEF Control, Flags, refreshVars, auditVars, RefreshQuiet, AuditQuiet
<1>3. RefreshQuiet' = RefreshQuiet /\ AuditQuiet' = AuditQuiet
  BY <1>1 DEF refreshVars, auditVars, RefreshQuiet, AuditQuiet
<1>4. stopOnce' \in {"free", "held", "done"} /\ stopClosed' \in Nat
      /\ stopClosed' = IF stopOnce' = "free" THEN 0 ELSE 1
  <2>1. CASE CloseStop(c)
    <3>1. stopOnce' = "held" /\ stopClosed' = stopClosed + 1 /\ stopClosed = 0
      BY <2>1, ClosedMeansDone DEF CloseStop, Control
    <3>2. stopClosed' = 1
      BY <3>1
    <3> QED
      BY <3>1, <3>2
  <2>2. CASE ShutdownReturns(c)
    <3>1. stopOnce # "free"
      <4>1. shutdown[c] \in {"audit running?", "await audit"}
        BY <2>2 DEF ShutdownReturns
      <4> QED
        BY <4>1 DEF Control, Waiting, NotStopping
    <3>2. stopOnce' = "done" /\ stopClosed' = stopClosed /\ stopClosed = 1
      BY <2>2, <3>1, ClosedMeansDone DEF ShutdownReturns, Control
    <3> QED
      BY <3>2
  <2>3. CASE UNCHANGED <<stopOnce, stopClosed>>
    BY <2>3 DEF Control, ControlTyped, ClosedAsReached
  <2> QED
    BY <2>1, <2>2, <2>3
    DEF Shutdown, ReturnLater, IsRunning, AwaitDone, IsAuditRunning, ShutdownMoves
<1>5. PICK to \in {"running?", "await done", "audit running?", "await audit",
                   "returned"} :
        shutdown' = [shutdown EXCEPT ![c] = to]
  BY DEF Shutdown, CloseStop, ReturnLater, IsRunning, AwaitDone, IsAuditRunning,
         ShutdownReturns, ShutdownMoves
<1>6. /\ shutdown'[c] = to /\ ~NotStopping'
      /\ \A d \in Callers \ {c} : shutdown'[d] = shutdown[d]
  BY <1>5 DEF Control, ControlTyped, NotStopping
<1>7. ControlTyped'
  BY <1>1, <1>5, <1>4 DEF Control, ControlTyped, refreshVars, auditVars
<1>8. ClosedAsReached'
  BY <1>1, <1>4 DEF Control, ClosedAsReached, refreshVars, auditVars
<1>9. stopOnce = "done" => stopOnce' = "done"
  BY DEF Shutdown, CloseStop, ReturnLater, IsRunning, AwaitDone, IsAuditRunning,
         ShutdownReturns, ShutdownMoves
<1>10. to \in {"audit running?", "await audit"} => RefreshQuiet
  <2>1. CASE IsRunning(c)
    BY <1>6, <2>1 DEF IsRunning, ShutdownMoves, Control, Flags, ControlTyped
  <2>2. CASE AwaitDone(c)
    BY <2>2, ClosedMeansDone DEF AwaitDone, Control, RefreshQuiet
  <2>3. CASE IsAuditRunning(c)
    BY <2>3 DEF IsAuditRunning, ShutdownMoves, Control, Waiting
  <2>4. CASE CloseStop(c) \/ ReturnLater(c) \/ ShutdownReturns(c)
    BY <1>6, <2>4 DEF CloseStop, ReturnLater, ShutdownReturns, Control, ControlTyped
  <2> QED
    BY <2>1, <2>2, <2>3, <2>4 DEF Shutdown
<1>11. ASSUME ShutdownReturns(c) PROVE RefreshQuiet /\ AuditQuiet
  <2>1. RefreshQuiet
    BY <1>11 DEF ShutdownReturns, Control, Waiting
  <2>2. AuditQuiet
    <3>1. CASE auditRunning = FALSE
      BY <3>1 DEF Control, Flags
    <3>2. CASE auditClosed > 0
      BY <3>2, ClosedMeansDone DEF Control, AuditQuiet
    <3> QED
      BY <1>11, <3>1, <3>2 DEF ShutdownReturns, Control, ControlTyped
  <2> QED
    BY <2>1, <2>2
<1>12. stopOnce' = "done" => RefreshQuiet' /\ AuditQuiet'
  <2>1. stopOnce = "done" \/ stopOnce' # "done" \/ ShutdownReturns(c)
    BY DEF Shutdown, CloseStop, ReturnLater, IsRunning, AwaitDone, IsAuditRunning,
           ShutdownMoves
  <2> QED
    BY <1>3, <1>11, <2>1 DEF Control, Waiting
<1>13. to = "returned" => stopOnce' = "done"
  BY <1>6
  DEF Shutdown, CloseStop, ReturnLater, IsRunning, AwaitDone, IsAuditRunning,
      ShutdownReturns, ShutdownMoves, Control, ControlTyped
<1>14. Waiting'
  <2>1. stopOnce' # "free"
    <3>1. CloseStop(c) \/ ShutdownReturns(c) => stopOnce' # "free"
      BY DEF CloseStop, ShutdownReturns
    <3>2. CASE UNCHANGED stopOnce /\ shutdown[c] # "not called"
      BY <3>2 DEF Control, Waiting, NotStopping
    <3>3. CASE UNCHANGED stopOnce /\ stopOnce = "done"
      BY <3>3
    <3> QED
      BY <3>1, <3>2, <3>3
      DEF Shutdown, ReturnLater, IsRunning, AwaitDone, IsAuditRunning, ShutdownMoves
  <2>2. ASSUME NEW d \in Callers, shutdown'[d] \in {"audit running?", "await audit"}
        PROVE  RefreshQuiet'
    <3>1. CASE d = c
      BY <1>3, <1>6, <1>10, <2>2, <3>1
    <3>2. CASE d # c
      BY <1>3, <1>6, <2>2, <3>2 DEF Control, Waiting
    <3> QED
      BY <3>1, <3>2
  <2>3. ASSUME NEW d \in Callers, shutdown'[d] = "returned" PROVE stopOnce' = "done"
    <3>1. CASE d = c
      BY <1>6, <1>13, <2>3, <3>1
    <3>2. CASE d # c
      BY <1>6, <1>9, <2>3, <3>2 DEF Control, Waiting
    <3> QED
      BY <3>1, <3>2
  <2> QED
    BY <1>6, <1>12, <2>1, <2>2, <2>3 DEF Waiting
<1> QED
  BY <1>2, <1>7, <1>8, <1>14 DEF Control

LEMMA RefreshControls == Control /\ RefreshStep => Control'
<1> SUFFICES ASSUME Control, RefreshStep PROVE Control'
  OBVIOUS
<1>1. /\ countsFlush' = countsFlush /\ eventsFlush' = eventsFlush
      /\ UNCHANGED <<hostVars, auditVars>>
  BY CountsUnchanged, EventsUnchanged
  DEF RefreshStep, RefreshTick, RefreshEnds, RefreshStop, ClearRunning, CloseDone,
      RefreshMoves
<1> USE DEF Control, hostVars, auditVars
<1>2. /\ refreshLoop \in {"select", "fetch", "clear", "close"}
      /\ refreshLoop' \in {"select", "fetch", "clear", "close", "done"}
      /\ RefreshQuiet => RefreshQuiet'
      /\ running' \in BOOLEAN
      /\ running' <=> ~RefreshQuiet'
      /\ doneClosed' \in Nat
      /\ doneClosed' = IF refreshLoop' = "done" THEN 1 ELSE 0
  <2>1. CASE RefreshTick \/ RefreshEnds \/ RefreshStop
    BY <2>1 DEF RefreshTick, RefreshEnds, RefreshStop, RefreshMoves, ControlTyped,
                ClosedAsReached, Flags, RefreshQuiet
  <2>2. CASE ClearRunning
    BY <2>2 DEF ClearRunning, ControlTyped, ClosedAsReached, Flags, RefreshQuiet
  <2>3. CASE CloseDone
    <3>1. /\ refreshLoop = "close" /\ refreshLoop' = "done"
          /\ doneClosed = 0 /\ doneClosed' = doneClosed + 1
          /\ running' = running
      BY <2>3, ClosedMeansDone DEF CloseDone
    <3>2. doneClosed' = 1
      BY <3>1
    <3>3. running' = FALSE
      BY <3>1 DEF ControlTyped, Flags, RefreshQuiet
    <3>4. doneClosed' \in Nat /\ doneClosed' = IF refreshLoop' = "done" THEN 1 ELSE 0
      BY <3>1, <3>2
    <3>5. RefreshQuiet' /\ running' \in BOOLEAN /\ (running' <=> ~RefreshQuiet')
      BY <3>1, <3>3 DEF RefreshQuiet
    <3> QED
      BY <3>1, <3>4, <3>5
  <2> QED
    BY <2>1, <2>2, <2>3 DEF RefreshStep
<1>3. ControlTyped'
  BY <1>1, <1>2 DEF ControlTyped
<1>4. ClosedAsReached'
  BY <1>1, <1>2 DEF ClosedAsReached
<1>5. Flags'
  BY <1>1, <1>2 DEF Flags, AuditQuiet
<1>6. Waiting'
  BY <1>1, <1>2 DEF Waiting, AuditQuiet, NotStopping
<1> QED
  BY <1>3, <1>4, <1>5, <1>6

\* What a step of the audit loop has to keep.
AuditTyped ==
  /\ auditLoop \in {"none", "select", "counts", "flush counts", "events",
                    "flush events", "cancel", "clear", "close", "done"}
  /\ auditRunning \in BOOLEAN /\ auditClosed \in Nat
  /\ final \in BOOLEAN /\ failuresThen \in Nat

AuditAsReached ==
  /\ auditClosed = IF auditLoop = "done" THEN 1 ELSE 0
  /\ auditRunning <=> ~AuditQuiet
  /\ countsFlush # "idle" <=> auditLoop = "flush counts"
  /\ eventsFlush # "idle" <=> auditLoop = "flush events"

LEMMA AuditKeeps ==
  ASSUME Control, UNCHANGED <<hostVars, refreshVars>>, AuditTyped', AuditAsReached',
         auditLoop # "none", AuditQuiet => AuditQuiet'
  PROVE  Control'
<1> USE DEF Control, hostVars, refreshVars
<1>1. ControlTyped'
  BY DEF ControlTyped, AuditTyped
<1>2. ClosedAsReached'
  BY DEF ClosedAsReached, AuditAsReached
<1>3. Flags'
  BY DEF Flags, AuditAsReached, RefreshQuiet
<1>4. Waiting'
  BY DEF Waiting, NotStopping, RefreshQuiet
<1> QED
  BY <1>1, <1>2, <1>3, <1>4

Busy == {"select", "counts", "flush counts", "events", "flush events", "cancel", "clear"}

\* From one busy place to another; the flushes begin and end in their places.
LEMMA AuditBusy ==
  ASSUME Control, UNCHANGED <<hostVars, refreshVars, auditRunning, auditClosed>>,
         auditLoop \in Busy, auditLoop' \in Busy,
         final' \in BOOLEAN, failuresThen' \in Nat,
         countsFlush' # "idle" <=> auditLoop' = "flush counts",
         eventsFlush' # "idle" <=> auditLoop' = "flush events"
  PROVE  Control'
<1>1. /\ ~AuditQuiet /\ ~AuditQuiet'
      /\ auditLoop # "none" /\ auditLoop # "done" /\ auditLoop' # "done"
  <2>1. \A at \in Busy : at \notin {"none", "close", "done"}
    BY DEF Busy
  <2> QED
    BY <2>1, Zenon DEF AuditQuiet
<1>2. auditRunning = TRUE /\ auditClosed = 0
  BY <1>1, ClosedMeansDone DEF Control, ControlTyped, Flags
<1>3. auditClosed' = 0 /\ auditRunning' = TRUE
  BY <1>2
<1>4. AuditTyped'
  <2>1. auditLoop' \in {"none", "select", "counts", "flush counts", "events",
                        "flush events", "cancel", "clear", "close", "done"}
    BY DEF Busy
  <2>2. auditRunning' \in BOOLEAN
    BY <1>3, Zenon
  <2>3. auditClosed' \in Nat
    BY ONLY <1>3
  <2> QED
    BY <2>1, <2>2, <2>3, Zenon DEF AuditTyped
<1>5. AuditAsReached'
  <2>1. auditClosed' = IF auditLoop' = "done" THEN 1 ELSE 0
    BY <1>1, <1>3
  <2> QED
    BY <1>1, <1>3, <2>1 DEF AuditAsReached
<1> QED
  BY <1>1, <1>4, <1>5, AuditKeeps

LEMMA AuditControls == Control /\ Pipelines /\ AuditStep => Control'
<1> SUFFICES ASSUME Control, Pipelines, AuditStep PROVE Control'
  OBVIOUS
<1>1. UNCHANGED <<hostVars, refreshVars>>
  BY DEF AuditStep, AuditTick, AuditStop, NoCounts, FlushCounts, CountsFlushed,
         NoEvents, FlushEvents, EventsFlushed, CancelContext, ClearAuditRunning,
         CloseAuditDone, AuditMoves
<1>2. final \in BOOLEAN /\ failuresThen \in Nat
  BY DEF Control, ControlTyped
<1>3. failures + eventFailures \in Nat
  <2>1. failures \in Nat
    BY LifecycleAssumption DEF Pipelines, CountsProofs!TypeOK
  <2>2. eventFailures \in Nat
    BY LifecycleAssumption DEF Pipelines, EventsProofs!TypeOK
  <2> QED
    BY <2>1, <2>2
<1>4. /\ countsFlush # "idle" <=> auditLoop = "flush counts"
      /\ eventsFlush # "idle" <=> auditLoop = "flush events"
  BY DEF Control, Flags
<1>5. CASE AuditTick \/ AuditStop
  <2>1. /\ auditLoop = "select" /\ auditLoop' = "counts"
        /\ UNCHANGED <<auditRunning, auditClosed, countsVars, eventsVars>>
        /\ \/ UNCHANGED <<final, failuresThen>>
           \/ final' = TRUE /\ failuresThen' = failures + eventFailures
    BY <1>5 DEF AuditTick, AuditStop
  <2>2. final' \in BOOLEAN
    BY <1>2, <2>1
  <2>3. failuresThen' \in Nat
    BY <1>2, <1>3, <2>1
  <2> QED
    BY <1>1, <1>4, <2>1, <2>2, <2>3, AuditBusy, CountsUnchanged, EventsUnchanged
    DEF Busy
<1>6. ASSUME NEW from \in Busy, NEW to \in Busy, AuditMoves(from, to),
             countsFlush' # "idle" <=> to = "flush counts",
             eventsFlush' # "idle" <=> to = "flush events"
      PROVE  Control'
  <2>1. auditLoop = from /\ auditLoop' = to /\ final' = final
        /\ failuresThen' = failuresThen /\ UNCHANGED <<auditRunning, auditClosed>>
    BY <1>6 DEF AuditMoves
  <2> QED
    BY <1>1, <1>2, <1>6, <2>1, AuditBusy
<1>7. CASE NoCounts
  <2>1. AuditMoves("counts", "events") /\ countsFlush' = countsFlush
        /\ eventsFlush' = eventsFlush
    BY <1>7, EventsUnchanged DEF NoCounts
  <2>2. auditLoop = "counts"
    BY <2>1 DEF AuditMoves
  <2> QED
    BY <1>4, <1>6, <2>1, <2>2 DEF Busy
<1>8. CASE FlushCounts
  <2>1. AuditMoves("counts", "flush counts") /\ countsFlush' = "range"
        /\ eventsFlush' = eventsFlush
    BY <1>8, EventsUnchanged DEF FlushCounts, Counts!DrainAuditCounts
  <2>2. auditLoop = "counts"
    BY <2>1 DEF AuditMoves
  <2> QED
    BY <1>4, <1>6, <2>1, <2>2 DEF Busy
<1>9. CASE CountsFlushed
  <2>1. AuditMoves("flush counts", "events") /\ countsFlush' = "idle"
        /\ eventsFlush' = eventsFlush
    BY <1>9, EventsUnchanged DEF CountsFlushed, Counts!MergeAuditCounts
  <2>2. auditLoop = "flush counts"
    BY <2>1 DEF AuditMoves
  <2> QED
    BY <1>4, <1>6, <2>1, <2>2 DEF Busy
<1>10. CASE NoEvents
  <2>1. AuditMoves("events", "cancel") /\ countsFlush' = countsFlush
        /\ eventsFlush' = eventsFlush
    BY <1>10, CountsUnchanged, EventsUnchanged DEF NoEvents
  <2>2. auditLoop = "events"
    BY <2>1 DEF AuditMoves
  <2> QED
    BY <1>4, <1>6, <2>1, <2>2 DEF Busy
<1>11. CASE FlushEvents
  <2>1. AuditMoves("events", "flush events") /\ countsFlush' = countsFlush
        /\ eventsFlush' = "range"
    BY <1>11, CountsUnchanged DEF FlushEvents, Events!DrainAuditEvents
  <2>2. auditLoop = "events"
    BY <2>1 DEF AuditMoves
  <2> QED
    BY <1>4, <1>6, <2>1, <2>2 DEF Busy
<1>12. CASE EventsFlushed
  <2>1. AuditMoves("flush events", "cancel") /\ countsFlush' = countsFlush
        /\ eventsFlush' = "idle"
    BY <1>12, CountsUnchanged DEF EventsFlushed, Events!FlushEnds
  <2>2. auditLoop = "flush events"
    BY <2>1 DEF AuditMoves
  <2> QED
    BY <1>4, <1>6, <2>1, <2>2 DEF Busy
<1>13. CASE CancelContext
  <2>1. PICK to \in {"clear", "select"} : AuditMoves("cancel", to)
    BY <1>13 DEF CancelContext
  <2>2. countsFlush' = countsFlush /\ eventsFlush' = eventsFlush
    BY <1>13, CountsUnchanged, EventsUnchanged DEF CancelContext
  <2>3. auditLoop = "cancel"
    BY <2>1 DEF AuditMoves
  <2> QED
    BY <1>4, <1>6, <2>1, <2>2, <2>3 DEF Busy
<1>14. CASE ClearAuditRunning
  <2>1. /\ auditLoop = "clear" /\ auditLoop' = "close" /\ auditRunning' = FALSE
        /\ UNCHANGED <<auditClosed, final, failuresThen>>
        /\ countsFlush' = countsFlush /\ eventsFlush' = eventsFlush
    BY <1>14, CountsUnchanged, EventsUnchanged DEF ClearAuditRunning
  <2>2. auditClosed = 0
    BY <2>1, ClosedMeansDone DEF Control
  <2>3. AuditTyped'
    BY <1>2, <2>1, <2>2 DEF AuditTyped
  <2>4. AuditAsReached' /\ AuditQuiet'
    BY <1>4, <2>1, <2>2 DEF AuditAsReached, AuditQuiet
  <2> QED
    BY <1>1, <2>1, <2>3, <2>4, AuditKeeps
<1>15. CASE CloseAuditDone
  <2>1. /\ auditLoop = "close" /\ auditLoop' = "done" /\ auditRunning' = auditRunning
        /\ auditClosed' = auditClosed + 1
        /\ UNCHANGED <<final, failuresThen>>
        /\ countsFlush' = countsFlush /\ eventsFlush' = eventsFlush
    BY <1>15, CountsUnchanged, EventsUnchanged DEF CloseAuditDone
  <2>2. auditClosed = 0
    BY <2>1, ClosedMeansDone DEF Control
  <2>3. auditClosed' = 1
    BY <2>1, <2>2
  <2>4. auditRunning = FALSE
    BY <2>1 DEF Control, ControlTyped, Flags, AuditQuiet
  <2>5. AuditTyped'
    <3>1. auditClosed' \in Nat
      BY <2>3
    <3>2. auditRunning' \in BOOLEAN /\ final' \in BOOLEAN /\ failuresThen' \in Nat
      BY <1>2, <2>1, <2>4
    <3> QED
      BY <2>1, <3>1, <3>2 DEF AuditTyped
  <2>6. AuditAsReached' /\ AuditQuiet'
    BY <1>4, <2>1, <2>3, <2>4 DEF AuditAsReached, AuditQuiet
  <2> QED
    BY <1>1, <2>1, <2>5, <2>6, AuditKeeps
<1> QED
  BY <1>5, <1>7, <1>8, <1>9, <1>10, <1>11, <1>12, <1>13, <1>14, <1>15 DEF AuditStep

LEMMA ControlStep == Control /\ Pipelines /\ [Next]_vars => Control'
<1> SUFFICES ASSUME Control, Pipelines, [Next]_vars PROVE Control'
  OBVIOUS
<1>1. CASE WithinFlush
  <2>1. UNCHANGED <<hostVars, refreshVars, auditVars>>
        /\ (countsFlush = "idle" <=> countsFlush' = "idle")
        /\ (eventsFlush = "idle" <=> eventsFlush' = "idle")
    BY <1>1 DEF WithinFlush
  <2> USE DEF Control, hostVars, refreshVars, auditVars
  <2>2. ControlTyped' /\ ClosedAsReached'
    BY <2>1 DEF ControlTyped, ClosedAsReached
  <2>3. RefreshQuiet' = RefreshQuiet /\ AuditQuiet' = AuditQuiet
        /\ NotStopping' = NotStopping
    BY <2>1 DEF RefreshQuiet, AuditQuiet, NotStopping
  <2>4. Flags'
    BY <2>1, <2>3 DEF Flags
  <2>5. Waiting'
    BY <2>1, <2>3 DEF Waiting
  <2> QED
    BY <2>2, <2>4, <2>5
<1>2. CASE UNCHANGED vars
  BY <1>1, <1>2, CountsUnchanged, EventsUnchanged DEF vars, WithinFlush
<1> QED
  BY <1>1, <1>2, WithinFlushStep, StartControls, ShutdownControls, RefreshControls,
     AuditControls
  DEF Next

-----------------------------------------------------------------------------
(* What the buffers hold.                                                  *)

\* The audit loop does not end by itself, nor start.
LEMMA AuditStepMoves == AuditStep => auditLoop # "none" /\ auditLoop' # "none"
BY DEF AuditStep, AuditTick, NoCounts, FlushCounts, CountsFlushed, NoEvents,
       FlushEvents, EventsFlushed, CancelContext, ClearAuditRunning,
       CloseAuditDone, AuditMoves, AuditStop

\* It moves in its own steps, and is started once.
LEMMA LoopMoves ==
  ASSUME [Next]_vars
  PROVE  /\ AuditStep \/ Start \/ auditLoop' = auditLoop
         /\ AuditStop \/ UNCHANGED <<final, failuresThen>>
         /\ config' = config /\ (started' = started \/ Start)
         /\ auditLoop' = "flush events" => auditLoop = "flush events" \/ FlushEvents
<1>1. CASE WithinFlush \/ UNCHANGED vars
  BY <1>1 DEF WithinFlush, vars, hostVars, auditVars
<1>2. CASE \E c \in Callers : Shutdown(c)
  BY <1>2 DEF Shutdown, CloseStop, ReturnLater, IsRunning, AwaitDone,
              IsAuditRunning, ShutdownReturns, ShutdownMoves, auditVars
<1>3. CASE RefreshStep
  BY <1>3 DEF RefreshStep, RefreshTick, RefreshEnds, RefreshStop, ClearRunning,
              CloseDone, RefreshMoves, auditVars, hostVars
<1>4. CASE Start
  BY <1>4 DEF Start
<1>5. CASE AuditStep
  <2>1. UNCHANGED hostVars /\ (AuditStop \/ UNCHANGED <<final, failuresThen>>)
    BY <1>5
    DEF AuditStep, AuditTick, NoCounts, FlushCounts, CountsFlushed, NoEvents,
        FlushEvents, EventsFlushed, CancelContext, ClearAuditRunning,
        CloseAuditDone, AuditMoves, AuditStop
  <2>2. auditLoop' = "flush events" => FlushEvents
    BY <1>5
    DEF AuditStep, AuditTick, NoCounts, FlushCounts, CountsFlushed, NoEvents,
        EventsFlushed, CancelContext, ClearAuditRunning, CloseAuditDone,
        AuditMoves, AuditStop
  <2> QED
    BY <1>5, <2>1, <2>2 DEF hostVars
<1> QED
  BY <1>1, <1>2, <1>3, <1>4, <1>5, WithinFlushStep DEF Next

\* What fills a buffer: telemetry, and what a flush puts back.
LEMMA BuffersMove ==
  ASSUME Flags, [Next]_vars
  PROVE  /\ \/ auditEvents' = auditEvents \/ auditEvents' = <<>>
            \/ RecordAuditEvent
            \/ EventsStep /\ auditLoop = "flush events"
         /\ auditCounts' = auditCounts \/ AddAuditHits \/ FlushCounts \/ CountsFlushed
<1> USE DEF countsVars, eventsVars
<1>1. CASE CountsStep
  BY <1>1
  DEF CountsStep, Counts!PostAuditCount, Counts!PostAfterDeadline,
      Counts!PostReturnsNil, Counts!PostReturnsError, Counts!HandlePostAuditCount
<1>2. CASE EventsStep
  <2>1. eventsFlush # "idle"
    BY <1>2
    DEF EventsStep, Events!PostAuditEvents, Events!PostAfterDeadline,
        Events!PostReturnsNil, Events!PostReturnsError, Events!PutEvent
  <2> QED
    BY <1>2, <2>1 DEF EventsStep, Flags
<1>3. CASE HandleLate
  BY <1>3 DEF HandleLate, Counts!HandleLate, Events!HandleLate, Counts!clientVars,
              Events!clientVars
<1>4. CASE AddAuditHits \/ RecordAuditEvent
  BY <1>4 DEF AddAuditHits, RecordAuditEvent
<1>5. CASE \E c \in Callers : Shutdown(c)
  BY <1>5 DEF Shutdown, CloseStop, ReturnLater, IsRunning, AwaitDone,
              IsAuditRunning, ShutdownReturns, ShutdownMoves
<1>6. CASE RefreshStep
  BY <1>6 DEF RefreshStep, RefreshTick, RefreshEnds, RefreshStop, ClearRunning,
              CloseDone, RefreshMoves
<1>7. CASE Start \/ AuditTick \/ AuditStop \/ NoCounts \/ FlushCounts
           \/ CountsFlushed \/ NoEvents
  BY <1>7 DEF Start, AuditTick, AuditStop, NoCounts, FlushCounts, CountsFlushed,
              NoEvents
<1>8. CASE FlushEvents \/ EventsFlushed \/ CancelContext \/ ClearAuditRunning
           \/ CloseAuditDone
  BY <1>8 DEF FlushEvents, EventsFlushed, CancelContext, ClearAuditRunning,
              CloseAuditDone, Events!DrainAuditEvents, Events!FlushEnds
<1>9. CASE UNCHANGED vars
  BY <1>9 DEF vars
<1> QED
  BY <1>1, <1>2, <1>3, <1>4, <1>5, <1>6, <1>7, <1>8, <1>9 DEF Next, AuditStep

LEMMA UntouchedStep == Control /\ Untouched /\ [Next]_vars => Untouched'
<1> SUFFICES ASSUME Control, Untouched, [Next]_vars PROVE Untouched'
  OBVIOUS
<1>1. /\ config' = config /\ config.audit \in BOOLEAN /\ config.events \in BOOLEAN
      /\ started \in BOOLEAN /\ Flags
  BY LoopMoves DEF Control, ControlTyped, Config
<1>2. auditLoop' = "none" <=> ~started' \/ ~config'.audit
  <2>1. CASE Start
    BY <1>1, <2>1 DEF Start
  <2>2. CASE ~Start
    <3>1. auditLoop' = "none" <=> auditLoop = "none"
      BY <2>2, LoopMoves, AuditStepMoves
    <3>2. started' = started /\ config'.audit = config.audit
      BY <1>1, <2>2, LoopMoves
    <3> QED
      BY <3>1, <3>2, Zenon DEF Untouched
  <2> QED
    BY <2>1, <2>2
<1>3. auditLoop' = "flush events" => config'.events
  BY <1>1, LoopMoves DEF Untouched, FlushEvents
<1>4. ~config'.events => auditEvents' = <<>>
  BY <1>1, BuffersMove DEF Untouched, RecordAuditEvent
<1>5. ASSUME auditLoop' = "none"
      PROVE  auditCounts' = Counts!Zero /\ auditEvents' = <<>>
  <2>1. auditLoop = "none"
    <3>1. CASE Start
      BY <1>1, <3>1 DEF Start, Flags
    <3>2. CASE ~Start
      BY <1>5, <3>2, LoopMoves, AuditStepMoves
    <3> QED
      BY <3>1, <3>2
  <2>2. ~started \/ ~config.audit
    BY <2>1 DEF Untouched
  <2>3. ~AddAuditHits /\ ~RecordAuditEvent
    BY <1>1, <2>2 DEF AddAuditHits, RecordAuditEvent, Untouched
  <2>4. ~FlushCounts /\ ~CountsFlushed
    BY <2>1 DEF FlushCounts, CountsFlushed, AuditMoves
  <2> QED
    BY <1>1, <2>1, <2>3, <2>4, BuffersMove DEF Untouched
<1> QED
  BY <1>1, <1>2, <1>3, <1>4, <1>5 DEF Untouched

-----------------------------------------------------------------------------
(* The final flush.                                                        *)

LEMMA FailuresGrow ==
  ASSUME Flags, Pipelines, [Next]_vars
  PROVE  /\ failures \in Nat /\ eventFailures \in Nat
         /\ failures' = failures \/ failures' = failures + 1
         /\ eventFailures' = eventFailures \/ eventFailures' = eventFailures + 1
<1>1. failures \in Nat
  BY LifecycleAssumption DEF Pipelines, CountsProofs!TypeOK
<1>2. eventFailures \in Nat
  BY LifecycleAssumption DEF Pipelines, EventsProofs!TypeOK
<1>3. failures' = failures \/ failures' = failures + 1
  BY CountsStepped, Zenon
  DEF Counts!Next, Counts!vars, Counts!AddAuditHits, Counts!DrainAuditCounts,
      Counts!PostAuditCount, Counts!PostAfterDeadline, Counts!PostReturnsNil,
      Counts!PostReturnsError, Counts!MergeAuditCounts,
      Counts!HandlePostAuditCount, Counts!HandleLate
<1>4. eventFailures' = eventFailures \/ eventFailures' = eventFailures + 1
  BY EventsStepped, Zenon
  DEF Events!Next, Events!vars, Events!RecordAuditEvent, Events!DrainAuditEvents,
      Events!PostAuditEvents, Events!PostAfterDeadline, Events!PostReturnsNil,
      Events!PostReturnsError, Events!FlushEnds, Events!PutEvent,
      Events!HandleLate
<1> QED
  BY <1>1, <1>2, <1>3, <1>4

\* A flush that is clean stays so as long as nothing fails and nothing is
\* recorded.
LEMMA CleanStep ==
  ASSUME IInv, [Next]_vars, final, CleanFlush, UNCHANGED <<failures, eventFailures>>
  PROVE  CleanFlush'
<1>1. Control /\ Flags /\ Pipelines /\ Untouched /\ FinalFlush
  BY DEF IInv, Control
<1>2. ~Start /\ ~AddAuditHits /\ ~RecordAuditEvent /\ ~AuditTick /\ ~AuditStop
  BY <1>1 DEF FinalFlush, Control, Waiting, Start, AddAuditHits, RecordAuditEvent,
              AuditTick, AuditStop
<1>3. CASE /\ UNCHANGED <<auditLoop, auditCounts, failed, auditEvents>>
           /\ UNCHANGED <<countsExpired, eventsExpired>>
  BY <1>3 DEF CleanFlush, Counts!Zero
<1>4. CASE CountsStep
  <2>1. countsFlush # "idle" /\ UNCHANGED <<auditVars, eventsVars, auditCounts>>
    BY <1>4
    DEF CountsStep, Counts!PostAuditCount, Counts!PostAfterDeadline,
        Counts!PostReturnsNil, Counts!PostReturnsError, Counts!HandlePostAuditCount
  <2>2. countsExpired = FALSE
    BY <1>1, <2>1 DEF Flags, CleanFlush
  <2>3. failures' # failures + 1
    BY <1>1, FailuresGrow
  <2>4. UNCHANGED <<failed, countsExpired>>
    BY <1>4, <2>2, <2>3
    DEF CountsStep, Counts!PostAuditCount, Counts!PostAfterDeadline,
        Counts!PostReturnsNil, Counts!PostReturnsError, Counts!HandlePostAuditCount
  <2> QED
    BY <1>3, <2>1, <2>4 DEF auditVars, eventsVars
<1>5. CASE EventsStep
  <2>1. eventsFlush # "idle" /\ UNCHANGED <<auditVars, countsVars>>
    BY <1>5
    DEF EventsStep, Events!PostAuditEvents, Events!PostAfterDeadline,
        Events!PostReturnsNil, Events!PostReturnsError, Events!PutEvent
  <2>2. eventsExpired = FALSE
    BY <1>1, <2>1 DEF Flags, CleanFlush
  <2>3. eventFailures' # eventFailures + 1
    BY <1>1, FailuresGrow
  <2>4. UNCHANGED <<auditEvents, eventsExpired>>
    BY <1>5, <2>2, <2>3
    DEF EventsStep, Events!PostAuditEvents, Events!PostAfterDeadline,
        Events!PostReturnsNil, Events!PostReturnsError, Events!PutEvent,
        Events!clientVars
  <2> QED
    BY <1>3, <2>1, <2>4 DEF auditVars, countsVars
<1>6. CASE HandleLate
  <2>1. UNCHANGED <<auditVars, auditCounts, failed, auditEvents, countsExpired,
                    eventsExpired>>
    BY <1>6 DEF HandleLate, Counts!HandleLate, Events!HandleLate,
                Counts!clientVars, Events!clientVars, countsVars, eventsVars
  <2> QED
    BY <1>3, <2>1 DEF auditVars
<1>7. CASE (\E c \in Callers : Shutdown(c)) \/ RefreshStep \/ UNCHANGED vars
  <2>1. UNCHANGED <<auditVars, countsVars, eventsVars>>
    BY <1>7
    DEF Shutdown, CloseStop, ReturnLater, IsRunning, AwaitDone, IsAuditRunning,
        ShutdownReturns, ShutdownMoves, RefreshStep, RefreshTick, RefreshEnds,
        RefreshStop, ClearRunning, CloseDone, RefreshMoves, vars
  <2> QED
    BY <1>3, <2>1 DEF auditVars, countsVars, eventsVars
<1>8. CASE NoCounts
  <2>1. /\ auditLoop' = "events" /\ countsExpired' = FALSE
        /\ auditCounts' = Counts!Zero
    BY <1>8 DEF NoCounts, AuditMoves
  <2> QED
    BY <2>1 DEF CleanFlush, Counts!Zero
<1>9. CASE FlushCounts
  <2>1. /\ auditLoop' = "flush counts" /\ countsFlush = "idle" /\ failed' = failed
        /\ auditCounts' = Counts!Zero /\ countsExpired' = FALSE
    BY <1>9 DEF FlushCounts, AuditMoves, Counts!DrainAuditCounts
  <2>2. failed = Counts!Zero
    BY <1>1, <2>1 DEF Pipelines, CountsProofs!IdleEmpty, CountsProofs!TypeOK,
                      Counts!Zero
  <2> QED
    BY <2>1, <2>2 DEF CleanFlush, Counts!Zero
<1>10. CASE CountsFlushed
  <2>1. /\ auditLoop = "flush counts" /\ auditLoop' = "events"
        /\ auditCounts' = Counts!Plus(auditCounts, failed)
        /\ countsExpired' = countsExpired
    BY <1>10 DEF CountsFlushed, AuditMoves, Counts!MergeAuditCounts
  <2>2. auditCounts = Counts!Zero /\ failed = Counts!Zero /\ countsExpired = FALSE
    BY <2>1 DEF CleanFlush
  <2>3. Counts!Plus(Counts!Zero, Counts!Zero) = Counts!Zero
    BY DEF Counts!Plus, Counts!Zero
  <2> QED
    BY <2>1, <2>2, <2>3 DEF CleanFlush, Counts!Zero
<1>11. CASE NoEvents
  <2>1. /\ auditLoop = "events" /\ auditLoop' = "cancel"
        /\ auditCounts' = auditCounts /\ auditEvents' = auditEvents
        /\ ~config.events \/ auditEvents = <<>>
    BY <1>11 DEF NoEvents, AuditMoves, countsVars, eventsVars
  <2>2. auditCounts = Counts!Zero /\ auditEvents = <<>>
    BY <1>1, <2>1 DEF CleanFlush, Untouched
  <2> QED
    BY <2>1, <2>2 DEF CleanFlush, Counts!Zero
<1>12. CASE FlushEvents
  <2>1. /\ auditLoop = "events" /\ auditLoop' = "flush events"
        /\ auditCounts' = auditCounts /\ auditEvents' = <<>>
        /\ eventsExpired' = countsExpired
    BY <1>12 DEF FlushEvents, AuditMoves, countsVars, Events!DrainAuditEvents
  <2>2. auditCounts = Counts!Zero /\ countsExpired = FALSE
    BY <2>1 DEF CleanFlush
  <2> QED
    BY <2>1, <2>2 DEF CleanFlush, Counts!Zero
<1>13. CASE EventsFlushed \/ CancelContext \/ ClearAuditRunning \/ CloseAuditDone
  <2>1. /\ auditLoop \in {"flush events", "cancel", "clear", "close"}
        /\ auditLoop' \in {"cancel", "clear", "close", "done"}
        /\ auditCounts' = auditCounts /\ auditEvents' = auditEvents
    BY <1>13 DEF EventsFlushed, CancelContext, ClearAuditRunning, CloseAuditDone,
                 AuditMoves, countsVars, eventsVars, Events!FlushEnds
  <2>2. auditCounts = Counts!Zero /\ auditEvents = <<>>
    BY <2>1 DEF CleanFlush
  <2> QED
    BY <2>1, <2>2 DEF CleanFlush, Counts!Zero
<1> QED
  BY <1>2, <1>4, <1>5, <1>6, <1>7, <1>8, <1>9, <1>10, <1>11, <1>12, <1>13
  DEF Next, AuditStep

\* Nothing reopens stopOnce, and the stop branch is left only at its end.
LEMMA StopBranch ==
  ASSUME Control, FinalFlush, [Next]_vars
  PROVE  /\ stopOnce # "free" => stopOnce' # "free"
         /\ final => final' /\ auditLoop' \notin {"none", "select"}
         /\ auditLoop' \in {"clear", "close", "done"} => final
<1>1. CASE WithinFlush \/ UNCHANGED vars \/ RefreshStep
  <2>1. UNCHANGED <<hostVars, auditVars>>
    BY <1>1
    DEF WithinFlush, vars, RefreshStep, RefreshTick, RefreshEnds, RefreshStop,
        ClearRunning, CloseDone, RefreshMoves
  <2> QED
    BY <2>1 DEF hostVars, auditVars, FinalFlush
<1>2. CASE \E c \in Callers : Shutdown(c)
  <2>1. /\ UNCHANGED auditVars
        /\ stopOnce' = stopOnce \/ stopOnce' \in {"held", "done"}
    BY <1>2 DEF Shutdown, CloseStop, ReturnLater, IsRunning, AwaitDone,
                IsAuditRunning, ShutdownReturns, ShutdownMoves
  <2> QED
    BY <2>1 DEF auditVars, FinalFlush
<1>3. CASE Start
  <2>1. stopOnce = "free" /\ stopOnce' = stopOnce /\ ~final
        /\ auditLoop' \in {"none", "select"}
    BY <1>3 DEF Start, Control, Waiting, FinalFlush
  <2> QED
    BY <2>1
<1>4. CASE AuditStep
  <2>1. stopOnce' = stopOnce
    BY <1>4
    DEF AuditStep, AuditTick, AuditStop, NoCounts, FlushCounts, CountsFlushed,
        NoEvents, FlushEvents, EventsFlushed, CancelContext, ClearAuditRunning,
        CloseAuditDone, AuditMoves, hostVars
  <2>2. CASE AuditTick \/ AuditStop
    BY <2>1, <2>2 DEF AuditTick, AuditStop, FinalFlush
  <2>3. CASE NoCounts \/ FlushCounts \/ CountsFlushed \/ NoEvents \/ FlushEvents
             \/ EventsFlushed
    <3>1. /\ auditLoop' \in {"flush counts", "events", "flush events", "cancel"}
          /\ final' = final
      BY <2>3 DEF NoCounts, FlushCounts, CountsFlushed, NoEvents, FlushEvents,
                  EventsFlushed, AuditMoves
    <3> QED
      BY <2>1, <3>1
  <2>4. CASE CancelContext
    BY <2>1, <2>4 DEF CancelContext, AuditMoves
  <2>5. CASE ClearAuditRunning \/ CloseAuditDone
    BY <2>1, <2>5 DEF ClearAuditRunning, CloseAuditDone, FinalFlush
  <2> QED
    BY <1>4, <2>2, <2>3, <2>4, <2>5 DEF AuditStep
<1> QED
  BY <1>1, <1>2, <1>3, <1>4, WithinFlushStep DEF Next

LEMMA FinalFlushStep == IInv /\ [Next]_vars => FinalFlush'
<1> SUFFICES ASSUME IInv, [Next]_vars PROVE FinalFlush'
  OBVIOUS
<1>1. Control /\ Flags /\ Pipelines /\ FinalFlush
  BY DEF IInv, Control
<1>2. failuresThen \in Nat
  BY <1>1 DEF Control, ControlTyped
<1>3. CASE AuditStop
  <2>1. /\ auditLoop' = "counts" /\ final' = TRUE /\ stopOnce' = stopOnce
        /\ failures' = failures /\ eventFailures' = eventFailures
        /\ failuresThen' = failures + eventFailures /\ stopClosed > 0
    BY <1>3 DEF AuditStop, hostVars, countsVars, eventsVars
  <2>2. stopOnce' # "free"
    BY <1>1, <2>1, ClosedMeansDone DEF Control
  <2>3. failuresThen' <= Failures'
    BY ONLY <1>1, <2>1, FailuresGrow, [Next]_vars DEF Failures
  <2>4. CleanFlush'
    BY <2>1 DEF CleanFlush
  <2> QED
    BY <2>1, <2>2, <2>3, <2>4 DEF FinalFlush
<1>4. CASE ~AuditStop
  <2>1. final' = final /\ failuresThen' = failuresThen
    BY <1>4, LoopMoves
  <2>2. /\ final' => stopOnce' # "free" /\ auditLoop' \notin {"none", "select"}
        /\ auditLoop' \in {"clear", "close", "done"} => final'
    BY <1>1, <2>1, StopBranch DEF FinalFlush
  <2>3. Failures \in Nat /\ Failures' \in Nat /\ Failures <= Failures'
        /\ (Failures' = Failures => UNCHANGED <<failures, eventFailures>>)
    BY <1>1, FailuresGrow DEF Failures
  <2>4. final' => failuresThen' <= Failures'
    BY <1>1, <1>2, <2>1, <2>3 DEF FinalFlush
  <2>5. ASSUME final', Failures' = failuresThen' PROVE CleanFlush'
    <3>1. final /\ failuresThen <= Failures /\ Failures' = failuresThen
      BY <1>1, <2>1, <2>5 DEF FinalFlush
    <3>2. Failures' = Failures /\ Failures = failuresThen
      BY <1>2, <2>3, <3>1
    <3> QED
      BY <1>1, <2>3, <3>1, <3>2, CleanStep DEF FinalFlush
  <2> QED
    BY <2>2, <2>4, <2>5 DEF FinalFlush
<1> QED
  BY <1>3, <1>4

-----------------------------------------------------------------------------

LEMMA InitIInv == Init => IInv
<1> SUFFICES ASSUME Init PROVE IInv
  OBVIOUS
<1>1. ControlTyped
  BY DEF Init, ControlTyped, Config
<1>2. ClosedAsReached
  BY DEF Init, ClosedAsReached
<1>3. countsFlush = "idle" /\ eventsFlush = "idle"
  BY DEF Init, Counts!Init, Events!Init
<1>4. Flags
  BY <1>3 DEF Init, Flags, RefreshQuiet, AuditQuiet
<1>5. Waiting
  BY DEF Init, Waiting, NotStopping
<1>6. Pipelines
  <2>1. CountsProofs!Init /\ EventsProofs!Init
    BY SameCounts, SameEvents DEF Init
  <2>2. CountsProofs!TypeOK /\ CountsProofs!IdleEmpty
    BY <2>1, Assumed, CountsProofs!InitIInv DEF CountsProofs!IInv
  <2>3. EventsProofs!TypeOK
    BY <2>1, Assumed, EventsProofs!TypeInit
  <2>4. CountsProofs!ExpiredOwes
    BY <2>1, Assumed, CountsProofs!ExpiredInit
  <2> QED
    BY <2>2, <2>3, <2>4 DEF Pipelines
<1>7. Untouched
  BY DEF Init, Untouched, Counts!Init, Events!Init, Counts!Zero
<1>8. FinalFlush
  BY DEF Init, FinalFlush
<1> QED
  BY <1>1, <1>2, <1>4, <1>5, <1>6, <1>7, <1>8 DEF IInv, Control

LEMMA Inductive == Spec => []IInv
<1>1. IInv /\ [Next]_vars => IInv'
  <2> SUFFICES ASSUME IInv, [Next]_vars PROVE IInv'
    OBVIOUS
  <2>1. Control' /\ Pipelines' /\ Untouched' /\ FinalFlush'
    BY ControlStep, PipelinesStep, UntouchedStep, FinalFlushStep DEF IInv, Control
  <2> QED
    BY <2>1 DEF IInv
<1> QED
  BY <1>1, InitIInv, PTL DEF Spec

-----------------------------------------------------------------------------
(* The theorems.                                                           *)

\* Every variable of the instance has its type, those of both pipelines within
\* their bounds included.
THEOREM LifecycleTyped == Spec => []TypeOK
<1>1. IInv => TypeOK
  <2> SUFFICES ASSUME IInv PROVE TypeOK
    OBVIOUS
  <2>1. Counts!TypeOK /\ Events!TypeOK
    BY SameCounts, SameEvents DEF IInv, Pipelines
  <2>2. ControlTyped
    BY DEF IInv, Control
  <2> QED
    BY <2>1, <2>2 DEF ControlTyped, TypeOK
<1> QED
  BY <1>1, Inductive, PTL

\* However many callers shut the instance down, in whatever order with its start
\* and the steps of its loops, no channel is closed a second time.
THEOREM ChannelsClosedOnce == Spec => []ClosedOnce
<1>1. IInv => ClosedOnce
  BY DEF IInv, Control, ClosedAsReached, ClosedOnce
<1> QED
  BY <1>1, Inductive, PTL

\* Once any caller of shutdown has returned, both loops are past everything they
\* do, or never started, and no flush is half-way.
THEOREM QuietOnceReturned == Spec => []QuietAfterShutdown
<1>1. IInv => QuietAfterShutdown
  <2> SUFFICES ASSUME IInv, Returned PROVE QuietAfterShutdown
    BY DEF QuietAfterShutdown
  <2>1. Flags /\ Waiting
    BY DEF IInv, Control
  <2>2. RefreshQuiet /\ AuditQuiet
    BY <2>1 DEF Waiting, Returned
  <2>3. countsFlush = "idle" /\ eventsFlush = "idle"
    BY <2>1, <2>2 DEF Flags, AuditQuiet
  <2> QED
    BY <2>2, <2>3 DEF QuietAfterShutdown, RefreshQuiet, AuditQuiet
<1> QED
  BY <1>1, Inductive, PTL

\* When shutdown has returned and nothing failed since the stop branch was
\* taken, no hit and no event is left in memory.
THEOREM FinalFlushReports == Spec => []FinalFlushComplete
<1>1. IInv => FinalFlushComplete
  <2> SUFFICES ASSUME IInv, Returned, failures + eventFailures = failuresThen
               PROVE  auditCounts = Counts!Zero /\ auditEvents = <<>>
    BY DEF FinalFlushComplete
  <2>1. AuditQuiet
    BY DEF IInv, Control, Waiting, Returned
  <2>2. CASE auditLoop = "none"
    BY <2>2 DEF IInv, Untouched
  <2>3. CASE auditLoop # "none"
    <3>1. auditLoop \in {"close", "done"}
      BY <2>1, <2>3 DEF AuditQuiet
    <3>2. CleanFlush
      BY <3>1 DEF IInv, FinalFlush, Failures
    <3> QED
      BY <3>1, <3>2 DEF CleanFlush
  <2> QED
    BY <2>2, <2>3
<1> QED
  BY <1>1, Inductive, PTL

\* What an instance does to its counters is what AuditCounts says, whatever its
\* host and its other loop do.
THEOREM RefinesCounts == Spec => CountsImplemented
<1>1. Init => Counts!Init
  BY DEF Init
<1>2. IInv /\ [Next]_vars => [Counts!Next]_(Counts!vars)
  BY CountsStepped DEF IInv, Control
<1> QED
  BY <1>1, <1>2, Inductive, PTL DEF Spec, CountsImplemented, Counts!Spec

\* What an instance does to its events is what AuditEvents says, the context
\* that a counter flush has used up included.
THEOREM RefinesEvents == Spec => EventsImplemented
<1>1. Init => Events!Init
  BY DEF Init
<1> QED
  BY <1>1, EventsStepped, PTL DEF Spec, EventsImplemented, Events!Spec

LEMMA ActsAsCounts == Spec => CountsProofs!Spec
<1>1. Init => CountsProofs!Init
  BY SameCounts DEF Init
<1>2. IInv /\ [Next]_vars => [CountsProofs!Next]_(CountsProofs!vars)
  BY CountsStepped, SameCounts DEF IInv, Control
<1> QED
  BY <1>1, <1>2, Inductive, PTL DEF Spec, CountsProofs!Spec

LEMMA ActsAsEvents == Spec => EventsProofs!Spec
<1>1. Init => EventsProofs!Init
  BY SameEvents DEF Init
<1>2. [Next]_vars => [EventsProofs!Next]_(EventsProofs!vars)
  BY EventsStepped, SameEvents
<1> QED
  BY <1>1, <1>2, PTL DEF Spec, EventsProofs!Spec

\* In a running instance, from its start to its shutdown, no hit is lost or
\* invented, none leaves its memory uncounted, and only a request that failed on
\* the wire can be counted twice.
THEOREM InstanceCountsHits ==
  Spec => [](/\ Counts!HitsConserved
             /\ Counts!NeverUndercounted
             /\ Counts!CountedTwiceOnlyAfterFailure)
<1>1. CountsProofs!Spec => []CountsProofs!HitsConserved
  BY Assumed, CountsProofs!Conservation
<1>2. CountsProofs!Spec => []CountsProofs!NeverUndercounted
  BY Assumed, CountsProofs!NoUndercount
<1>3. CountsProofs!Spec => []CountsProofs!CountedTwiceOnlyAfterFailure
  BY Assumed, CountsProofs!DoubleCountNeedsFailure
<1>4. /\ CountsProofs!HitsConserved <=> Counts!HitsConserved
      /\ CountsProofs!NeverUndercounted <=> Counts!NeverUndercounted
      /\ CountsProofs!CountedTwiceOnlyAfterFailure
           <=> Counts!CountedTwiceOnlyAfterFailure
  BY Zenon
  DEF CountsProofs!HitsConserved, Counts!HitsConserved,
      CountsProofs!NeverUndercounted, Counts!NeverUndercounted,
      CountsProofs!CountedTwiceOnlyAfterFailure,
      Counts!CountedTwiceOnlyAfterFailure,
      CountsProofs!Pending, Counts!Pending, CountsProofs!Handled, Counts!Handled
<1> QED
  BY <1>1, <1>2, <1>3, <1>4, ActsAsCounts, PTL

\* And no event is lost but by an eviction, none is held twice, and only one
\* of a request that failed on the wire can be written twice.
THEOREM InstanceKeepsEvents ==
  Spec => [](/\ Events!NoSilentLoss
             /\ Events!HeldOnce
             /\ Events!WrittenTwiceOnlyAfterFailure)
<1>1. EventsProofs!Spec => []EventsProofs!NoSilentLoss
  BY Assumed, EventsProofs!NeverLostSilently
<1>2. EventsProofs!Spec => []EventsProofs!HeldOnce
  BY Assumed, EventsProofs!NeverHeldTwice
<1>3. EventsProofs!Spec => []EventsProofs!WrittenTwiceOnlyAfterFailure
  BY Assumed, EventsProofs!WrittenOnceUnlessFailed
<1>4. /\ EventsProofs!NoSilentLoss <=> Events!NoSilentLoss
      /\ EventsProofs!HeldOnce <=> Events!HeldOnce
      /\ EventsProofs!WrittenTwiceOnlyAfterFailure
           <=> Events!WrittenTwiceOnlyAfterFailure
  BY Zenon
  DEF EventsProofs!NoSilentLoss, Events!NoSilentLoss,
      EventsProofs!HeldOnce, Events!HeldOnce,
      EventsProofs!WrittenTwiceOnlyAfterFailure,
      Events!WrittenTwiceOnlyAfterFailure,
      EventsProofs!EventIds, Events!EventIds, EventsProofs!Range, Events!Range,
      EventsProofs!IsInjective, Events!IsInjective,
      EventsProofs!Held, Events!Held, EventsProofs!Unwritten, Events!Unwritten
<1> QED
  BY <1>1, <1>2, <1>3, <1>4, ActsAsEvents, PTL
=============================================================================
