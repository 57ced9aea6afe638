----------------------------- MODULE Lifecycle -----------------------------
(***************************************************************************)
(* One redactprocessor instance from start to shutdown: the host's calls,  *)
(* the refresh loop, and the audit loop that runs the flushes of           *)
(* AuditCounts and AuditEvents one after the other under one context.      *)
(*                                                                         *)
(* The collector starts a processor before it consumes telemetry and stops *)
(* the sources of telemetry before it shuts the processor down; after a    *)
(* failed start it also shuts down processors it has not started.          *)
(***************************************************************************)
EXTENDS Naturals, Sequences, Functions

CONSTANTS
  Callers,      \* those that call shutdown
  RuleIDs, NoRule, MaxBatchHits, MaxRecorded, MaxFailures, \* of AuditCounts
  BufferMax, MaxBatch, MaxEvents                           \* of AuditEvents

ASSUME LifecycleAssumption ==
  /\ NoRule \notin RuleIDs
  /\ MaxBatchHits \in Nat /\ MaxRecorded \in Nat /\ MaxFailures \in Nat
  /\ BufferMax \in Nat \ {0} /\ MaxBatch \in Nat \ {0} /\ MaxEvents \in Nat

VARIABLES
  config,       \* mode aws? audit sink enabled? audit events enabled?
  started,      \* has startOnce fired?
  stopOnce,     \* shutdown's body: free, held by a caller, done
  shutdown,     \* where each caller stands in shutdown
  stopClosed,   \* how often stopCh has been closed
  doneClosed,   \* how often doneCh has been closed
  auditClosed,  \* how often auditDone has been closed
  running,      \* rp.running
  auditRunning, \* rp.auditRunning
  refreshLoop,  \* where refreshLoop stands
  auditLoop,    \* where auditLoop stands
  final,        \* is auditLoop in its stop branch?
  failuresThen, \* history: failures when the stop branch was taken
  \* the counter pipeline
  auditCounts, batch, failed, countsFlush, current, countsExpired,
  serverCounts, lateCounts, failures, recorded, acked, suspectRules,
  \* the event pipeline
  auditEvents, drained, eventsFlush, written, eventsExpired,
  stored, lateEvents, eventFailures, lastId, evicted, suspectEvents

countsVars ==
  <<auditCounts, batch, failed, countsFlush, current, countsExpired,
    serverCounts, lateCounts, failures, recorded, acked, suspectRules>>
eventsVars ==
  <<auditEvents, drained, eventsFlush, written, eventsExpired,
    stored, lateEvents, eventFailures, lastId, evicted, suspectEvents>>
hostVars == <<config, started, stopOnce, shutdown, stopClosed>>
refreshVars == <<refreshLoop, running, doneClosed>>
auditVars == <<auditLoop, auditRunning, auditClosed, final, failuresThen>>
vars == <<hostVars, refreshVars, auditVars, countsVars, eventsVars>>

Counts == INSTANCE AuditCounts WITH
  flush <- countsFlush, ctxExpired <- countsExpired, late <- lateCounts,
  suspect <- suspectRules

\* Beside the requests that fail, up to MaxFailures of the contexts the counters
\* have used up fail an event flush.
Events == INSTANCE AuditEvents WITH
  flush <- eventsFlush, ctxExpired <- eventsExpired, late <- lateEvents,
  failures <- eventFailures, suspect <- suspectEvents,
  MaxFailures <- 2 * MaxFailures

-----------------------------------------------------------------------------

Config == [aws : BOOLEAN, audit : BOOLEAN, events : BOOLEAN]

TypeOK ==
  /\ config \in Config
  /\ started \in BOOLEAN
  /\ stopOnce \in {"free", "held", "done"}
  /\ shutdown \in [Callers -> {"not called", "running?", "await done",
                               "audit running?", "await audit", "returned"}]
  /\ stopClosed \in Nat /\ doneClosed \in Nat /\ auditClosed \in Nat
  /\ running \in BOOLEAN /\ auditRunning \in BOOLEAN
  /\ refreshLoop \in {"none", "select", "fetch", "clear", "close", "done"}
  /\ auditLoop \in {"none", "select", "counts", "flush counts", "events",
                    "flush events", "cancel", "clear", "close", "done"}
  /\ final \in BOOLEAN
  /\ failuresThen \in Nat
  /\ Counts!TypeOK
  /\ Events!TypeOK

\* Without an audit sink there are no audit events either.
Init ==
  /\ config \in {c \in Config : c.events => c.audit}
  /\ started = FALSE
  /\ stopOnce = "free"
  /\ shutdown = [c \in Callers |-> "not called"]
  /\ stopClosed = 0 /\ doneClosed = 0 /\ auditClosed = 0
  /\ running = FALSE /\ auditRunning = FALSE
  /\ refreshLoop = "none"
  /\ auditLoop = "none"
  /\ final = FALSE
  /\ failuresThen = 0
  /\ Counts!Init
  /\ Events!Init

-----------------------------------------------------------------------------
(* The host.                                                               *)

NotStopping == \A c \in Callers : shutdown[c] = "not called"

\* start, whole: nothing the two loops share with it is read before it returns.
Start ==
  /\ ~started
  /\ NotStopping
  /\ started' = TRUE
  /\ running' = config.aws
  /\ refreshLoop' = IF config.aws THEN "select" ELSE "none"
  /\ auditRunning' = config.audit
  /\ auditLoop' = IF config.audit THEN "select" ELSE "none"
  /\ UNCHANGED <<config, stopOnce, shutdown, stopClosed, doneClosed,
                 auditClosed, final, failuresThen, countsVars, eventsVars>>

\* A processX call adds the hits of its batch.
AddAuditHits ==
  /\ started /\ NotStopping /\ config.audit
  /\ \E hits \in Counts!RuleHits : Counts!AddAuditHits(hits)
  /\ UNCHANGED <<hostVars, refreshVars, auditVars, eventsVars>>

\* And it has recorded their events one by one before.
RecordAuditEvent ==
  /\ started /\ NotStopping /\ config.events
  /\ Events!RecordAuditEvent
  /\ UNCHANGED <<hostVars, refreshVars, auditVars, countsVars>>

\* A plausible slip: shutdown is not guarded by stopOnce.
CloseStopAgain(c) ==
  /\ shutdown[c] = "not called"
  /\ stopOnce' = "held"
  /\ stopClosed' = stopClosed + 1
  /\ shutdown' = [shutdown EXCEPT ![c] = "running?"]
  /\ UNCHANGED <<config, started, refreshVars, auditVars, countsVars,
                 eventsVars>>

\* shutdown: the first caller runs the body of stopOnce ...
CloseStop(c) ==
  /\ shutdown[c] = "not called"
  /\ stopOnce = "free"
  /\ stopOnce' = "held"
  /\ stopClosed' = stopClosed + 1
  /\ shutdown' = [shutdown EXCEPT ![c] = "running?"]
  /\ UNCHANGED <<config, started, refreshVars, auditVars, countsVars,
                 eventsVars>>

\* ... and every other one waits for it in Do.
ReturnLater(c) ==
  /\ shutdown[c] = "not called"
  /\ stopOnce = "done"
  /\ shutdown' = [shutdown EXCEPT ![c] = "returned"]
  /\ UNCHANGED <<config, started, stopOnce, stopClosed, refreshVars, auditVars,
                 countsVars, eventsVars>>

ShutdownMoves(c, from, to) ==
  /\ shutdown[c] = from
  /\ shutdown' = [shutdown EXCEPT ![c] = to]
  /\ UNCHANGED <<config, started, stopOnce, stopClosed, refreshVars, auditVars,
                 countsVars, eventsVars>>

\* A plausible slip: shutdown waits for a loop that may never have been started.
IsRunningAssumed(c) == ShutdownMoves(c, "running?", "await done")

\* A plausible slip: shutdown does not wait for the refresh loop.
IsRunningIgnored(c) == ShutdownMoves(c, "running?", "audit running?")

IsRunning(c) ==
  ShutdownMoves(c, "running?",
                IF running THEN "await done" ELSE "audit running?")

AwaitDone(c) ==
  doneClosed > 0 /\ ShutdownMoves(c, "await done", "audit running?")

ShutdownReturns(c) ==
  /\ \/ shutdown[c] = "audit running?" /\ ~auditRunning
     \/ shutdown[c] = "await audit" /\ auditClosed > 0
  /\ shutdown' = [shutdown EXCEPT ![c] = "returned"]
  /\ stopOnce' = "done"
  /\ UNCHANGED <<config, started, stopClosed, refreshVars, auditVars,
                 countsVars, eventsVars>>

IsAuditRunning(c) ==
  auditRunning /\ ShutdownMoves(c, "audit running?", "await audit")

-----------------------------------------------------------------------------
(* refreshLoop.  A fetch changes what PolicyRefresh is about and nothing    *)
(* here; its context bounds it.                                            *)

RefreshMoves(from, to) ==
  /\ refreshLoop = from
  /\ refreshLoop' = to
  /\ UNCHANGED <<hostVars, running, doneClosed, auditVars, countsVars,
                 eventsVars>>

RefreshTick == RefreshMoves("select", "fetch")

RefreshEnds == RefreshMoves("fetch", "select")

\* When stopCh is closed and a tick is due, select takes either.
RefreshStop == stopClosed > 0 /\ RefreshMoves("select", "clear")

\* The deferred calls, last one first.
ClearRunning ==
  /\ refreshLoop = "clear"
  /\ refreshLoop' = "close"
  /\ running' = FALSE
  /\ UNCHANGED <<hostVars, doneClosed, auditVars, countsVars, eventsVars>>

CloseDone ==
  /\ refreshLoop = "close"
  /\ refreshLoop' = "done"
  /\ doneClosed' = doneClosed + 1
  /\ UNCHANGED <<hostVars, running, auditVars, countsVars, eventsVars>>

-----------------------------------------------------------------------------
(* auditLoop.                                                              *)

AuditTick ==
  /\ auditLoop = "select"
  /\ auditLoop' = "counts"
  /\ UNCHANGED <<hostVars, refreshVars, auditRunning, auditClosed, final,
                 failuresThen, countsVars, eventsVars>>

\* A plausible slip: the stop branch leaves without a last flush.
AuditStopAtOnce ==
  /\ auditLoop = "select"
  /\ stopClosed > 0
  /\ auditLoop' = "clear"
  /\ final' = TRUE
  /\ failuresThen' = failures + eventFailures
  /\ UNCHANGED <<hostVars, refreshVars, auditRunning, auditClosed, countsVars,
                 eventsVars>>

AuditStop ==
  /\ auditLoop = "select"
  /\ stopClosed > 0
  /\ auditLoop' = "counts"
  /\ final' = TRUE
  /\ failuresThen' = failures + eventFailures
  /\ UNCHANGED <<hostVars, refreshVars, auditRunning, auditClosed, countsVars,
                 eventsVars>>

AuditMoves(from, to) ==
  /\ auditLoop = from
  /\ auditLoop' = to
  /\ UNCHANGED <<hostVars, refreshVars, auditRunning, auditClosed, final,
                 failuresThen>>

\* flushAuditCounts with nothing to flush, under a fresh context.
NoCounts ==
  /\ AuditMoves("counts", "events")
  /\ auditCounts = Counts!Zero
  /\ countsExpired' = FALSE
  /\ UNCHANGED <<auditCounts, batch, failed, countsFlush, current, serverCounts,
                 lateCounts, failures, recorded, acked, suspectRules,
                 eventsVars>>

FlushCounts ==
  /\ AuditMoves("counts", "flush counts")
  /\ Counts!DrainAuditCounts
  /\ UNCHANGED eventsVars

\* A plausible slip: the loop goes on with the posts that failed unmerged.
CountsFlushedUnmerged ==
  /\ AuditMoves("flush counts", "events")
  /\ countsFlush = "range"
  /\ batch = Counts!Zero
  /\ countsFlush' = "idle"
  /\ UNCHANGED <<auditCounts, batch, failed, current, countsExpired,
                 serverCounts, lateCounts, failures, recorded, acked,
                 suspectRules, eventsVars>>

CountsFlushed ==
  /\ AuditMoves("flush counts", "events")
  /\ Counts!MergeAuditCounts
  /\ UNCHANGED eventsVars

\* What goes on between the two; the control plane's part goes on at any time.
CountsStep ==
  /\ \/ \E r \in RuleIDs :
          Counts!PostAuditCount(r) \/ Counts!PostAfterDeadline(r)
     \/ Counts!PostReturnsNil
     \/ Counts!PostReturnsError
     \/ Counts!HandlePostAuditCount
  /\ UNCHANGED <<hostVars, refreshVars, auditVars, eventsVars>>

NoEvents ==
  /\ AuditMoves("events", "cancel")
  /\ ~config.events \/ auditEvents = <<>>
  /\ UNCHANGED <<countsVars, eventsVars>>

\* flushAuditEvents gets the context flushAuditCounts has used: if that has
\* expired, nothing is sent.
FlushEvents ==
  /\ config.events
  /\ AuditMoves("events", "flush events")
  /\ Events!DrainAuditEvents
  /\ eventsExpired' = countsExpired
  /\ UNCHANGED countsVars

\* A plausible slip: an expired context ends the event flush half-way.
EventsFlushedEarly ==
  /\ AuditMoves("flush events", "cancel")
  /\ eventsFlush = "range"
  /\ drained = <<>> \/ eventsExpired
  /\ eventsFlush' = "idle"
  /\ UNCHANGED <<auditEvents, drained, written, eventsExpired, stored,
                 lateEvents, eventFailures, lastId, evicted, suspectEvents,
                 countsVars>>

EventsFlushed ==
  /\ AuditMoves("flush events", "cancel")
  /\ Events!FlushEnds
  /\ UNCHANGED countsVars

EventsStep ==
  /\ \/ Events!PostAuditEvents
     \/ Events!PostAfterDeadline
     \/ Events!PostReturnsNil
     \/ eventFailures < MaxFailures /\ Events!PostReturnsError
     \/ Events!PutEvent
  /\ UNCHANGED <<hostVars, refreshVars, auditVars, countsVars>>

\* Back to select, or out of the loop.
CancelContext ==
  /\ AuditMoves("cancel", IF final THEN "clear" ELSE "select")
  /\ UNCHANGED <<countsVars, eventsVars>>

\* The deferred calls, last one first.
ClearAuditRunning ==
  /\ auditLoop = "clear"
  /\ auditLoop' = "close"
  /\ auditRunning' = FALSE
  /\ UNCHANGED <<hostVars, refreshVars, auditClosed, final, failuresThen,
                 countsVars, eventsVars>>

CloseAuditDone ==
  /\ auditLoop = "close"
  /\ auditLoop' = "done"
  /\ auditClosed' = auditClosed + 1
  /\ UNCHANGED <<hostVars, refreshVars, auditRunning, final, failuresThen,
                 countsVars, eventsVars>>

\* Requests that outlived their client.
HandleLate ==
  /\ \/ (\E q \in lateCounts : Counts!HandleLate(q)) /\ UNCHANGED eventsVars
     \/ (\E q \in lateEvents : Events!HandleLate(q)) /\ UNCHANGED countsVars
  /\ UNCHANGED <<hostVars, refreshVars, auditVars>>

-----------------------------------------------------------------------------

Shutdown(c) ==
  \/ CloseStop(c)
  \/ ReturnLater(c)
  \/ IsRunning(c)
  \/ AwaitDone(c)
  \/ IsAuditRunning(c)
  \/ ShutdownReturns(c)

RefreshStep ==
  RefreshTick \/ RefreshEnds \/ RefreshStop \/ ClearRunning \/ CloseDone

AuditStep ==
  \/ AuditTick \/ AuditStop
  \/ NoCounts \/ FlushCounts \/ CountsFlushed
  \/ NoEvents \/ FlushEvents \/ EventsFlushed
  \/ CancelContext \/ ClearAuditRunning \/ CloseAuditDone

Next ==
  \/ Start
  \/ AddAuditHits
  \/ RecordAuditEvent
  \/ \E c \in Callers : Shutdown(c)
  \/ RefreshStep
  \/ AuditStep
  \/ CountsStep
  \/ EventsStep
  \/ HandleLate

Spec == Init /\ [][Next]_vars

\* The goroutines and the callers of shutdown keep running, requests end, by
\* their context if by nothing else, and a select that has its stop branch ready
\* again and again takes it in the end, as Go chooses among the ready branches
\* at random.
FairSpec ==
  /\ Spec
  /\ \A c \in Callers :
       WF_vars(IsRunning(c) \/ AwaitDone(c) \/ IsAuditRunning(c)
               \/ ShutdownReturns(c))
  /\ WF_vars(RefreshStep) /\ SF_vars(RefreshStop)
  /\ WF_vars(AuditStep \/ CountsStep \/ EventsStep) /\ SF_vars(AuditStop)

-----------------------------------------------------------------------------
(* Properties.                                                             *)

\* Closing a closed channel would bring the collector down: however often
\* shutdown is called, and whatever the loops are doing, each is closed once.
ClosedOnce == stopClosed <= 1 /\ doneClosed <= 1 /\ auditClosed <= 1

Returned == \E c \in Callers : shutdown[c] = "returned"

\* When a call of shutdown has returned no loop will touch anything again: no
\* fetch and no flush is under way, for the first caller and for the others.
QuietAfterShutdown ==
  Returned => /\ refreshLoop \in {"none", "close", "done"}
              /\ auditLoop \in {"none", "close", "done"}
              /\ countsFlush = "idle" /\ eventsFlush = "idle"

\* Every hit and event recorded before shutdown has been reported by the time
\* shutdown returns, unless a request or the context of the last flush failed:
\* what is left then is lost with the process.
FinalFlushComplete ==
  Returned /\ failures + eventFailures = failuresThen =>
    /\ auditCounts = Counts!Zero
    /\ auditEvents = <<>>

\* Shutdown returns: whether or not the loops were started, and whatever they
\* are doing when it is called.
ShutdownEnds == (stopClosed > 0) ~> Returned

\* What the instance does to its counters and to its events, with one loop
\* flushing both, is what AuditCounts and AuditEvents say.
CountsImplemented == Counts!Spec
EventsImplemented == Events!Spec
=============================================================================
