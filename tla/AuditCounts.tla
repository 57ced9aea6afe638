---------------------------- MODULE AuditCounts ----------------------------
(***************************************************************************)
(* The audit counters of one redactprocessor instance and the control      *)
(* plane's counters they are reported to.                                  *)
(*                                                                         *)
(* Pipeline goroutines add the hits of a finished batch to auditCounts     *)
(* under auditMu.  The audit loop drains that map, posts one request per   *)
(* rule without holding the lock, collects what failed and merges it back. *)
(* Requests travel over HTTP under one flush context: a request may be     *)
(* lost, its reply may be lost, and a request the client has given up on   *)
(* may still be handled later.                                             *)
(***************************************************************************)
EXTENDS Integers

CONSTANTS
  RuleIDs,      \* the ids ruleIdentifier gives to the rules of the policy
  NoRule,       \* "no post under way"
  MaxBatchHits, \* bound: hits of one rule in one telemetry batch
  MaxRecorded,  \* bound: hits of one rule in one behaviour
  MaxFailures   \* bound: requests and flush contexts that fail

ASSUME CountsAssumption ==
  /\ NoRule \notin RuleIDs
  /\ MaxBatchHits \in Nat
  /\ MaxRecorded \in Nat
  /\ MaxFailures \in Nat

VARIABLES
  auditCounts,  \* rp.auditCounts; a rule that is not in the Go map counts 0
  batch,        \* the drained map: what flushAuditCounts has not resolved yet
  failed,       \* its map of failed posts
  flush,        \* where flushAuditCounts stands: idle, range, sent, handled
  current,      \* the rule whose post is under way
  ctxExpired,   \* has the flush context timed out?
  serverCounts, \* the control plane's counters
  late,         \* requests given up by the client that can still be handled
  failures,     \* how many failures have happened
  recorded,     \* history: hits handed to addAuditHits
  acked,        \* history: hits whose post returned nil
  suspect       \* history: rules of which a request on the wire failed

clientVars == <<auditCounts, batch, failed, flush, current, ctxExpired>>
serverVars == <<serverCounts, late>>
vars == <<clientVars, serverVars, failures, recorded, acked, suspect>>

-----------------------------------------------------------------------------

Zero == [r \in RuleIDs |-> 0]
Plus(f, g) == [r \in RuleIDs |-> f[r] + g[r]]

\* ruleHits of one processX call: addRuleHit keeps positive counts only.
RuleHits == [RuleIDs -> 0 .. MaxBatchHits] \ {Zero}

LateRequest == [id : 1 .. MaxFailures, rule : RuleIDs, count : Nat]

TypeOK ==
  /\ auditCounts \in [RuleIDs -> Nat]
  /\ batch \in [RuleIDs -> Nat]
  /\ failed \in [RuleIDs -> Nat]
  /\ flush \in {"idle", "range", "sent", "handled"}
  /\ current \in RuleIDs \cup {NoRule}
  /\ (flush \in {"sent", "handled"}) <=> (current \in RuleIDs)
  /\ ctxExpired \in BOOLEAN
  /\ serverCounts \in [RuleIDs -> Nat]
  /\ late \in SUBSET LateRequest
  /\ failures \in 0 .. MaxFailures
  /\ recorded \in [RuleIDs -> Nat]
  /\ acked \in [RuleIDs -> Nat]
  /\ suspect \in SUBSET RuleIDs

Init ==
  /\ auditCounts = Zero
  /\ batch = Zero
  /\ failed = Zero
  /\ flush = "idle"
  /\ current = NoRule
  /\ ctxExpired = FALSE
  /\ serverCounts = Zero
  /\ late = {}
  /\ failures = 0
  /\ recorded = Zero
  /\ acked = Zero
  /\ suspect = {}

-----------------------------------------------------------------------------
(* The pipeline goroutines.                                                *)

AddAuditHits(hits) ==
  /\ \A r \in RuleIDs : recorded[r] + hits[r] <= MaxRecorded
  /\ auditCounts' = Plus(auditCounts, hits)
  /\ recorded' = Plus(recorded, hits)
  /\ UNCHANGED <<batch, failed, flush, current, ctxExpired, serverVars,
                 failures, acked, suspect>>

-----------------------------------------------------------------------------
(* flushAuditCounts, run by the audit loop.                                *)

\* A fresh context, then the map is copied out and emptied under auditMu.  An
\* empty map ends the flush at once, which changes nothing.
DrainAuditCounts ==
  /\ flush = "idle"
  /\ auditCounts # Zero
  /\ batch' = auditCounts
  /\ auditCounts' = Zero
  /\ flush' = "range"
  /\ ctxExpired' = FALSE
  /\ UNCHANGED <<failed, current, serverVars, failures, recorded, acked,
                 suspect>>

\* The range over the drained map visits its rules in any order.
PostAuditCount(r) ==
  /\ flush = "range"
  /\ batch[r] > 0
  /\ ~ctxExpired
  /\ flush' = "sent"
  /\ current' = r
  /\ UNCHANGED <<auditCounts, batch, failed, ctxExpired, serverVars, failures,
                 recorded, acked, suspect>>

\* An expired context fails the post before anything is sent.
PostAfterDeadline(r) ==
  /\ flush = "range"
  /\ batch[r] > 0
  /\ ctxExpired
  /\ failed' = [failed EXCEPT ![r] = @ + batch[r]]
  /\ batch' = [batch EXCEPT ![r] = 0]
  /\ UNCHANGED <<auditCounts, flush, current, ctxExpired, serverVars,
                 failures, recorded, acked, suspect>>

\* A plausible slip: any reply counts as success, whatever its status.
PostReturnsUnchecked ==
  /\ flush \in {"sent", "handled"}
  /\ ~ctxExpired
  /\ acked' = [acked EXCEPT ![current] = @ + batch[current]]
  /\ batch' = [batch EXCEPT ![current] = 0]
  /\ flush' = "range"
  /\ current' = NoRule
  /\ UNCHANGED <<auditCounts, failed, ctxExpired, serverVars, failures,
                 recorded, suspect>>

\* A plausible slip: what was posted is taken off the live map once more.
PostReturnsSubtracts ==
  /\ flush = "handled"
  /\ ~ctxExpired
  /\ acked' = [acked EXCEPT ![current] = @ + batch[current]]
  /\ auditCounts' = [auditCounts EXCEPT ![current] = @ - batch[current]]
  /\ batch' = [batch EXCEPT ![current] = 0]
  /\ flush' = "range"
  /\ current' = NoRule
  /\ UNCHANGED <<failed, ctxExpired, serverVars, failures, recorded, suspect>>

\* A plausible slip: some 2xx replies are taken for failures.
PostReturnsRetried ==
  /\ flush = "handled"
  /\ ~ctxExpired
  /\ failed' = [failed EXCEPT ![current] = @ + batch[current]]
  /\ batch' = [batch EXCEPT ![current] = 0]
  /\ flush' = "range"
  /\ current' = NoRule
  /\ UNCHANGED <<auditCounts, ctxExpired, serverVars, failures, recorded,
                 acked, suspect>>

\* A 2xx reply: the control plane has handled the request.
PostReturnsNil ==
  /\ flush = "handled"
  /\ ~ctxExpired
  /\ acked' = [acked EXCEPT ![current] = @ + batch[current]]
  /\ batch' = [batch EXCEPT ![current] = 0]
  /\ flush' = "range"
  /\ current' = NoRule
  /\ UNCHANGED <<auditCounts, failed, ctxExpired, serverVars, failures,
                 recorded, suspect>>

\* The request is lost or refused, its reply is lost, or the context expires
\* while it is under way.  A request that was not handled yet may stay
\* under way to the control plane.
PostReturnsError ==
  /\ flush \in {"sent", "handled"}
  /\ failures < MaxFailures
  /\ failures' = failures + 1
  /\ failed' = [failed EXCEPT ![current] = @ + batch[current]]
  /\ batch' = [batch EXCEPT ![current] = 0]
  /\ flush' = "range"
  /\ current' = NoRule
  /\ suspect' = suspect \cup {current}
  /\ \/ late' = late
     \/ /\ flush = "sent"
        /\ late' = late \cup
             {[id |-> failures', rule |-> current, count |-> batch[current]]}
  /\ ctxExpired' \in {ctxExpired, TRUE}
  /\ UNCHANGED <<auditCounts, serverCounts, recorded, acked>>

\* A plausible slip: the failed counts replace what was recorded meanwhile.
MergeOverwrites ==
  /\ flush = "range"
  /\ batch = Zero
  /\ auditCounts' = IF failed = Zero THEN auditCounts ELSE failed
  /\ failed' = Zero
  /\ flush' = "idle"
  /\ UNCHANGED <<batch, current, ctxExpired, serverVars, failures, recorded,
                 acked, suspect>>

\* A plausible slip: a failed post is logged and forgotten.
MergeForgets ==
  /\ flush = "range"
  /\ batch = Zero
  /\ failed' = Zero
  /\ flush' = "idle"
  /\ UNCHANGED <<auditCounts, batch, current, ctxExpired, serverVars,
                 failures, recorded, acked, suspect>>

\* The range is over: the failed counts are added back under auditMu.
MergeAuditCounts ==
  /\ flush = "range"
  /\ batch = Zero
  /\ auditCounts' = Plus(auditCounts, failed)
  /\ failed' = Zero
  /\ flush' = "idle"
  /\ UNCHANGED <<batch, current, ctxExpired, serverVars, failures, recorded,
                 acked, suspect>>

-----------------------------------------------------------------------------
(* handlePostAuditCount: the client's rule ids are trimmed and not blank    *)
(* and its counts are positive, so the handler adds what it is sent.       *)

HandlePostAuditCount ==
  /\ flush = "sent"
  /\ serverCounts' = [serverCounts EXCEPT ![current] = @ + batch[current]]
  /\ flush' = "handled"
  /\ UNCHANGED <<auditCounts, batch, failed, current, ctxExpired, late,
                 failures, recorded, acked, suspect>>

\* A request that outlived its client is handled, or gets lost after all.
HandleLate(q) ==
  /\ late' = late \ {q}
  /\ \/ serverCounts' = [serverCounts EXCEPT ![q.rule] = @ + q.count]
     \/ UNCHANGED serverCounts
  /\ UNCHANGED <<clientVars, failures, recorded, acked, suspect>>

-----------------------------------------------------------------------------

Flush ==
  \/ DrainAuditCounts
  \/ \E r \in RuleIDs : PostAuditCount(r) \/ PostAfterDeadline(r)
  \/ PostReturnsNil
  \/ MergeAuditCounts

Next ==
  \/ \E hits \in RuleHits : AddAuditHits(hits)
  \/ DrainAuditCounts
  \/ \E r \in RuleIDs : PostAuditCount(r) \/ PostAfterDeadline(r)
  \/ PostReturnsNil
  \/ PostReturnsError
  \/ MergeAuditCounts
  \/ HandlePostAuditCount
  \/ \E q \in late : HandleLate(q)

Spec == Init /\ [][Next]_vars

\* The audit loop keeps ticking and the control plane keeps handling requests;
\* neither failures nor further telemetry are promised.
FairSpec == Spec /\ WF_vars(Flush) /\ WF_vars(HandlePostAuditCount)

-----------------------------------------------------------------------------
(* Properties.                                                             *)

\* Hits in the processor's memory: buffered, drained, or waiting to be merged.
Pending(r) == auditCounts[r] + batch[r] + failed[r]

\* What the control plane has counted of the post that is under way.
Handled(r) == IF flush = "handled" /\ current = r THEN batch[r] ELSE 0

\* Draining, posting, failing and merging, interleaved with goroutines that
\* add hits, neither lose a hit nor invent one: each is in memory or was
\* acknowledged, and is there once.
HitsConserved == \A r \in RuleIDs : recorded[r] = Pending(r) + acked[r]

\* The control plane's counter holds every hit the processor has dropped from
\* its memory: a counter is never below the hits that are not pending.
NeverUndercounted ==
  \A r \in RuleIDs : recorded[r] <= serverCounts[r] + Pending(r)

\* Posts carry no id the control plane could recognise, so a retry of what was
\* handled counts twice.  Only that does: for a rule of which no request on the
\* wire has failed, the counter and the processor's memory hold each hit once,
\* except for the post that is handled and not answered yet.
CountedTwiceOnlyAfterFailure ==
  \A r \in RuleIDs \ suspect :
    serverCounts[r] + Pending(r) = recorded[r] + Handled(r)

\* The hits the processor still holds and the control plane has not counted in
\* the post that is under way.
Owed == [r \in RuleIDs |-> Pending(r) - Handled(r)]

Ledger == INSTANCE HitLedger WITH owed <- Owed, counted <- serverCounts

\* Flushes, failed posts, retries, merges and late requests amount to
\* at-least-once counting: no step of the pipeline takes a hit off its books
\* but the one in which the control plane counts it, and what is counted again
\* is never more than was recorded.
ImplementsLedger == Ledger!Spec

\* Once failures stop, each hit gets counted: it survives any number of failed
\* flushes and expired contexts on the way.
HitsEventuallyCounted ==
  \A r \in RuleIDs : \A n \in 1 .. MaxRecorded :
    (recorded[r] >= n) ~> (serverCounts[r] >= n)
=============================================================================
