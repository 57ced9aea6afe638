# OTelShield: a verification project in TLA+

OTelShield is an OpenTelemetry collector with a processor, `redactprocessor`,
that redacts telemetry by a policy it fetches from a control plane, and that
reports to the control plane what it has redacted.  This directory holds TLA+
modules of that system, the TLC configurations that check them, and proofs that
TLAPS checks.

## 1. The system

| part | source | state it keeps | operations |
|---|---|---|---|
| audit counters | `redaction.go` | `auditCounts` under `auditMu`; the map drained by a flush | `addAuditHits`, `flushAuditCounts` (drain, one post per rule, merge) |
| audit events | `redaction.go` | `auditEvents`, at most `auditEventBufferMax`, under `auditMu`; the slice drained by a flush | `recordAuditEvent`, `flushAuditEvents` (drain, posts in batches, merge per batch) |
| policy refresh | `redaction.go` | `policy` and `etag` under `mu` | `newRedactProcessor`'s first fetch, `refreshLoop`, `fetchAndCompile` |
| lifecycle | `redaction.go`, `factory.go` | `startOnce`, `stopOnce`, `stopCh`, `doneCh`, `auditDone`, `running`, `auditRunning` | `start`, `shutdown`, the two loops |
| redaction | `redaction.go`, `processor_*.go` | none beyond a call; reads the policy once per call | `compilePolicy`, `applyAttributeRules`, `applyMaskRules`, `processLogs/Traces/Metrics` |
| serverless control plane | `controlplane/cmd/api/main.go` | four DynamoDB tables | policy POST and GET, counter and event POST and GET, simulate |
| mock control plane | `deploy/mock-controlplane/main.go` | policies, counters and events in memory under one lock | the same, and `/metrics` |
| policy editor and audit view | `deploy/mock-controlplane/ui/index.html` | `loadedEvents`, `eventsCursor`, `eventsLoading`, the filters, a timer; the policy draft | refresh, load more, typing into and clearing filters; save |
| others | `sample-app`, `collector/dist`, `deploy`, `.github` | none | a load generator, generated code, configuration |

### How the parts interact

- The collector makes one `redactprocessor` instance per signal pipeline
  (`factory.go`): logs, traces and metrics each have their own policy, ETag,
  counters, events and loops, and share only the control plane.
- Pipeline goroutines call `processX`, which reads the policy pointer once,
  redacts, records an event per hit and adds the hits of the batch at its end.
- `refreshLoop` fetches the policy at every tick with the ETag it holds;
  `auditLoop` flushes first the counters and then the events at every tick,
  under one context, and once more when it is stopped.
- Everything between processor and control plane is HTTP: a request, its reply,
  or both may be lost, and a request whose client has given up may still be
  handled.
- The audit view reads pages of events from the mock plane, which serves it, by
  requests that may overlap; the serverless plane answers the same query.

### What is hard about it

Flushes run without the lock while hits and events come in; posts are retried
without an identity; a batch may be handled in part; the buffer is bounded and
failed batches compete with new events for it; a 304 is trusted; policies may be
unusable; the tables of the serverless control plane are written and read one
after the other, with stale reads; shutdown waits for channels after looking at
flags; the policy is replaced while batches are walked, and maps are visited in
any order; page cursors are used on a list that has changed, and that a lagging
replica may show, by requests whose answers overtake each other.  `PROJECT.json`
lists these hazards line by line with the properties that cover them.

### What makes each part correct

- counters: no hit is lost or invented, the control plane never counts too
  little, and too much only after a failed request;
- events: the bound holds, nothing is lost but by eviction from a full buffer,
  nothing is written twice without a failed request, order is kept while nothing
  fails;
- policy refresh: the policy in force is usable and the last good one seen, the
  ETag names it, a successful refresh means it is fresh, instances converge;
- lifecycle: shutdown returns, nothing runs on after it, the last flush is
  complete;
- control plane: an active version has a document, an answer of 200 means the
  write is done, a client gets what was put under a version that was put active;
- redaction: a batch is redacted by one policy, the result does not depend on
  the order of maps, of two rules with one key the later wins, and events and
  counters tell the same of every rule;
- audit view: paging skips nothing that is still there while its cursor is
  accepted, repeats events only after the list was cut, "loading" ends, and the
  view comes to show what its filters ask for.

## 2. The modules

| module | models | state |
|---|---|---|
| `AuditCounts` | counter pipeline of one instance and the control plane's counters | `auditCounts`, `batch` and `failed` (the locals of `flushAuditCounts`), `flush`, `current`, `ctxExpired`; `serverCounts`, `late` |
| `AuditEvents` | event pipeline of one instance and the event table | `auditEvents`, `drained` (the events from index `i` on), `flush`, `ctxExpired`; `stored`, `written`, `late` |
| `PolicyRefresh` | the instances and the mock control plane's active policy | `policy`, `etag`, `fetch`, `phase`, `reply` per instance; `activations` |
| `Lifecycle` | one instance from start to shutdown; composes `AuditCounts` and `AuditEvents` | once, channels, flags, the positions of both loops and of each caller of `shutdown` |
| `ControlPlane` | policies and active versions in two DynamoDB tables | the values put to each item and how many have reached every replica; which POSTs have put what (`stored`, `activated`, history); POSTs and GETs under way |
| `Redaction` | compiling a policy, and calls that redact batches while the policy is replaced | `policy` and its `source`; per call the policy it read, the batch as far as it is redacted, the position and the tally; `recorded`, `audited` |
| `EventsView` | the event lists of both control planes, their pages, and the audit view | `plane`, `list`, `lagging`; `query`, `loaded`, `cursor`, `loading`, `requests` |
| `HitLedger` | what the counter pipeline promises: counting at least once | `recorded`, `owed`, `counted` |
| `AuditCountsProofs`, `AuditEventsProofs`, `PolicyRefreshProofs`, `LifecycleProofs`, `ControlPlaneProofs`, `RedactionProofs`, `EventsViewProofs` | theorems about the module in the name | |
| `SequenceFacts` | lemmas on numbers, finite sets and sequences that several of these use | |
| `MC...` | the constants' symmetry for TLC, and why the bounds suffice | |

One action stands for one critical section, one HTTP step or one handler.  The
definitions named "A plausible slip" are not used by any specification: each is
a way the code could have been written wrongly that one of the properties would
notice.

### AuditCounts

The drain, each post and the merge are actions of their own, so that
`AddAuditHits` can come between any two.  The range over the map visits the
rules in any order (`PostAuditCount(r)`).  A post on the wire is handled
(`HandlePostAuditCount`), answered (`PostReturnsNil`), or fails
(`PostReturnsError`): before or after it was handled, and if before, possibly
staying under way (`late`, `HandleLate`).  A failure may be the context's, and
then the rest of the flush fails unsent (`PostAfterDeadline`).  The day on which
the control plane books a count is left out.

### AuditEvents

Events are numbered in the order of recording; the program itself gives them no
identity.  `Newest` is what appending one after the other with eviction of the
head leaves.  The handler is the serverless one, which writes item by item
(`PutEvent`): a request that fails at `written` items has stored a prefix of its
batch.  The mock stores a batch at once, which is one of the behaviours.  The
context may have been used up by the counters (`DrainAuditEvents`).

### PolicyRefresh

A policy document is a member of `GoodDocs` (it parses and compiles) or
`BadDocs`.  An ETag is what it hashes: version and document.  (The two are
joined by a colon before hashing; no JSON document has a proper suffix after a
colon that is one, so the pair is determined.)  `BeginFetch` is the request
with the ETag read, `HandleGetActive` the handler, and the reply ends in
`FetchNotModified`, `FetchRejected` or in `SetPolicy` and then `SetETag`, the
two critical sections.  The first fetch, in `newRedactProcessor`, takes the same
steps in phase "new"; without a local policy and without a remote one the
instance is "refused".  The mock's restart is `Restart`.  In the code one
refused instance keeps the whole collector from starting; here the others may go
on, which adds behaviours.

### Lifecycle

`start` is one action, as its goroutines read nothing of what it still sets.
`shutdown` is followed statement by statement for several callers.  The audit
loop drives the flushes of `AuditCounts` and `AuditEvents`, which are
instantiated here with their own variables; the event flush inherits
`ctxExpired` of the counter flush.  A fetch of the refresh loop is one position
of the loop.  The host's contract is that of the collector: telemetry only
between start and shutdown; shutdown possibly without start.

### ControlPlane

Each POST is followed from its first to its second put, each of which may fail
with or without effect; the history variables `stored` and `activated` keep which
POSTs have done which put (`StoreDocument`, `ActivateVersion`), a failed one that
was done all the same included.  Each GET is followed from its first to its
second read.  A read
finds any value of the item from the last settled one on, or none
while none has settled.  A version may be used by several POSTs: it is given by
the administrator or made of the time in seconds.

### Redaction

A string is a sequence of atoms, a pattern matches every atom of one kind, and a
token is one atom that names the secret and the value it hashes.  The loops over
rules, fields and masks are recursive functions of how far they got: `Compile`
adds rule after rule (`AddRule`) as `compilePolicy` does; `Claim` is the
assignment to a map that lets a later rule take a key over, `AddMask` the append
to the mask rules of a field, which is skipped, as in the code, for a scope that
is not known or an empty key; the key of a body is `body`.  A `Carrier` is an
attribute map or a log body with the scope of the masks that apply to it, and
`CarriersOfBatch` lists the carriers of a batch in the order in which the three
`process` functions visit them.  A call reads the policy in `Begin`; `DropKey`,
`TokenizeKey` and `MaskKey` are one iteration each of the three loops of
`applyAttributeRules`, over any key of the map left, and `Advance` goes to the
next loop or the next carrier.  `Finish` is `addAuditHits`.  `SetPolicy` happens
at any time.  Iterations that find nothing to do are not steps.  `Fate` and
`Redacted` say what becomes of a key without any order of evaluation; they are
the reference the walk is compared with.  What a policy file and a batch may be
is an assumption on the constants (`IsPolicyFile`, `IsBatch`, with `Atoms` for
what strings are made of).

### EventsView

An event is its place in the order of event ids, and events arrive in any order.
The mock plane appends (`Posted`) and cuts its list to `EventLimit`; the
serverless plane's table is sorted.  `MockPage` filters, then cuts by index;
`ServerlessPage` cuts from the cursor down, then filters, as DynamoDB counts the
limit before the filter.  `Filtered` is the loop over the events that takes the
selected ones, and `Sorted` the list an event is sorted into.

The serverless query sets no `ConsistentRead`: an event is `lagging` until the
last replica has it (`Replicate`), and each page is made of the list without any
of the lagging events (`Replicas`, `Pages`), another selection for every page.
The mock plane reads its list under a lock, and refuses with 400 a cursor past
the end of its filtered list (`InRange`); the view then keeps the cursor.

A request (`Send`) carries the filters and the cursor of the moment it is made,
is answered by `HandleGetAuditEvents` from the events of that moment, and the
answer arrives (`ShowRefresh`, `ShowMore`) at any later one; it may fail before
or after it is answered (`Fail`).  Every event is posted in a request of its
own: `handlePostAuditEvents` appends and cuts event by event under its lock.
`Arrivals` is a bound only: the orders in which events may arrive in a run; the
theorems hold for every set of orders.  No client of the serverless pages is in
the repository; they are read here by the same view.

### HitLedger

`recorded`, `owed` and `counted` per rule.  A hit that is recorded is owed, and
stops being owed only in the step that counts it (`Count`).  Where no one can
know whether a hit was counted it may be owed again (`Doubt`) or counted again
(`CountAgain`).  `AuditCounts` implements it with `Owed`, what the processor
still has pending less what the control plane has handled of it, and
`serverCounts` for `counted`: the handler is a `Count`, a failure after handling
a `Doubt`, a late request a `CountAgain`; drains, posts, replies and merges
stutter.

## 3. What the runs check

| run | bounds | what it shows |
|---|---|---|
| `counts` | 2 rules, 2 hits each, 2 failures | `HitsConserved`, `NeverUndercounted`, `CountedTwiceOnlyAfterFailure` in every interleaving, that the pipeline implements `HitLedger` (`ImplementsLedger`), and, under fairness, `HitsEventuallyCounted`. Two rules let one post of a flush fail and the other succeed; two hits let one come in during the flush of the other; two failures let a retry fail again. |
| `events` | buffer 3, batches of 2, 4 events, 2 failures | `NoSilentLoss`, `HeldOnce`, `WrittenTwiceOnlyAfterFailure`, `OrderWithoutFailure`, `EvictionOnlyWhenFull`. A full buffer takes a full and a short batch; the fourth event overflows it, alone or together with a failed batch. |
| `events_live` | buffer 2, batches of 1, 3 events | `EventsEventuallyWritten` |
| `refresh` | 2 instances, 3 posts or restarts, 3 documents, one unusable, 1 failure | `LastKnownGood`, `ETagNamesPolicy`, `SuccessMeansFresh`. Three posts let a version come again with another document and an earlier policy again after another one. |
| `refresh_live` | 2 posts | `ConvergesToActive` |
| `lifecycle` | 2 callers, 1 hit, 2 events, 1 failure of each kind | `ClosedOnce`, `QuietAfterShutdown`, `FinalFlushComplete`, and that the composition implements `AuditCounts!Spec` and `AuditEvents!Spec` |
| `lifecycle_live` | 1 caller, 1 event | `ShutdownEnds` |
| `plane` | 3 POSTs, 2 versions, 2 documents | `ActiveHasDocument`, `AnsweredMeansWritten`, `ServedAsPosted`. Three POSTs on two versions use one of them twice, so that a document stored only can come under a version another POST has activated, or failed to. |
| `plane_live` | 2 POSTs | `ClientsConverge` |
| `redaction` | 2 calls; 4 policy files; 3 batches | `RedactedByOnePolicy`, `HitsMatchEvents`, `LastRuleWins`. Of the files, one layers drops, tokens and masks on the same keys, one treats the keys in other ways and has no secrets of its own, one does not compile and one cannot be loaded; each is also tried as inline configuration. The batches are a log with a body, spans with events and links, and metrics of a type with points and of one without; their values match a pattern twice, or are no strings. Two calls overlap with any number of policy changes. |
| `events_view` | 6 events in 2 orders and a list of 4 at the mock plane, 3 in 2 orders at the serverless one; pages of 1, 2 filters, 2 requests under way, no more loaded once 2 are | `NothingSkipped`, `TwiceOnlyAfterTrimming`, `ListedInOrder`, `LoadingEnds`. Four events that a filter selects and two that it does not fill the list and cut two of the four while the cursor stands behind three: the mock refuses it, with an event left that cannot be loaded, and without its exception `NothingSkipped` fails there. Other orders cut the list between two pages or put an event behind the cursor; an event that lags is missing from one page and not from the next; two requests let one answer overtake another; a filter that hides the middle event leaves pages of the serverless plane empty though older ones follow. |
| `events_view_live` | 3 events, a list of 2, at the mock plane, 2 at the serverless one | `ViewConverges` |

Every module has a type invariant `TypeOK`, which also states the bound of the
event buffer.  Deadlock is not checked: a behaviour ends when the bounds are used
up, and a processor that was shut down has really stopped.

### Fairness

Safety runs assume none.  The liveness runs assume that

- the loops keep ticking and running goroutines proceed (weak fairness): a
  ticker fires again and again, and each request is bounded by its context;
- the control plane handles requests it gets (weak fairness of the handlers);
- a `select` whose stop branch is ready time and again takes it in the end
  (strong fairness of `AuditStop` and `RefreshStop`): Go chooses among ready
  branches at random;
- replicas catch up (`ControlPlane`, `EventsView`), and a client's second read does
  not fail for ever (`ControlPlane`);
- the timer of the audit view is on and fires whatever is under way (strong
  fairness of `RefreshEvents`, as the bound on requests under way disables it
  now and then), each request ends, and not every refresh fails.  Filters need
  not rest: `ViewConverges` is about views whose filters do.

Failures, posts and telemetry are never promised, and each is bounded, so that
"once failures stop" is part of every behaviour.

## 4. What is proved

For every set of rules, instances, versions and documents and every bound:

- `AuditCountsProofs`: `TypeOK`, `HitsConserved`, `NeverUndercounted` and
  `CountedTwiceOnlyAfterFailure`, and that the specification implements
  `HitLedger` (`RefinesLedger`).  `HitsConserved` is not inductive alone: a
  drain overwrites `batch`, so nothing may be left in it between flushes
  (`IdleEmpty`).  The two statements about the control plane need more: what is
  acknowledged is counted (`Counted`), counted exactly while no request of the
  rule has failed (`Exact`), and a request that is still under way after its
  client gave up belongs to a rule marked as failed (`LateMarked`), without
  which handling it would break `Exact`.  The refinement needs beside these that
  a late request carries no more hits than were recorded of its rule
  (`LateRecorded`); each action is then mapped to one of the ledger or to a
  stutter, rule by rule (the `Pointwise` and `Ledger...` lemmas).
- `AuditEventsProofs`: `TypeOK`, `NoSilentLoss`, `HeldOnce`,
  `EvictionOnlyWhenFull`, `WrittenTwiceOnlyAfterFailure` and
  `OrderWithoutFailure`.  All of it is about cutting and joining sequences.
  That nothing is lost has to be said of the events left to write (`Unwritten`),
  as a written batch leaves the memory (`KeptInv`).  An event is written twice
  only if a failed request had it: what a late request can still write was in
  one (`LateSuspect`, in `WrittenInv`), and what is held and not yet written is
  held once.  Before the first failure the table and what is left to write form
  one increasing sequence, and what was evicted is older than all that is
  buffered (`OrderInv`).
- `PolicyRefreshProofs`: `TypeOK`, `LastKnownGood`, `ETagNamesPolicy` and the
  action property `SuccessMeansFresh`.  The invariant is stated of one instance:
  a fetch under way carries the reason of its own success.  Since the instance
  asked, its reply, or for a 304 the ETag it sent, was the active entry
  (`Vouched`); this survives every activation, as entries are only appended.
  Between the critical sections of `setPolicy` and `setETag` the ETag is that of
  the policy before, and `Vouched` says that the reply is that of the new one,
  so that `ETagNamesPolicy` holds again after `setETag`.
- `LifecycleProofs`: `TypeOK`, `ClosedOnce`, `QuietAfterShutdown`,
  `FinalFlushComplete`, that the composition implements `AuditCounts!Spec` and
  `AuditEvents!Spec` (`RefinesCounts`, `RefinesEvents`), and with these that the
  safety properties of the two pipelines hold of a running instance
  (`InstanceCountsHits`, `InstanceKeepsEvents`).  How often a channel is closed
  can be read off the position of its owner (`ClosedAsReached`); a flag is set
  as long as its loop may touch anything (`Flags`), so that a caller that saw it
  cleared, or the channel closed, finds the loop quiet, and none starts any more
  (`Waiting`).  In the stop branch nothing is recorded, so each flush without a
  failure leaves empty what it drained (`FinalFlush`); this needs of the counter
  pipeline that an expired context comes of a failure (`ExpiredOwes`).
- `ControlPlaneProofs`: `TypeOK`, `ActiveHasDocument`, `AnsweredMeansWritten`
  and `ServedAsPosted`.  A handler that is past its first put has its document
  in the table (`PutFirst`), and it is answered with 200 only past the second
  put if it has one to do (`Activated`); items are only ever overwritten with
  other documents.  What a client holds was put as that version by a POST of it,
  and a POST that was to activate the version has put it active, since both are
  so of every value in the tables and of every version a client has read
  (`Provenance`); only a POST that is to activate gets to its second put
  (`SecondPut`), none changes what it asks (`SentStays`), and what was put stays
  on record (`HistoryGrows`).
- `EventsViewProofs`: `TypeOK`, `NothingSkipped`, `TwiceOnlyAfterTrimming`,
  `ListedInOrder` and `LoadingEnds`.  The argument is about `Whole`, what a list
  loaded page by page owes its query: of the events selected at its refresh it
  holds, or its cursor still reaches, all that the plane still has; and while
  none was cut, the list stands where they stand in the plane's.  An event that
  arrives, a cut and a restart keep what is whole (`WholeKept`), a refresh is
  whole (`RefreshPage`), and a page joined to a list that is whole makes one
  (`OlderPage`); each page may come of another replica, which has at least the
  settled events (`ReplicaFacts`).  `Whole` counts what lies before the cursor,
  refused or not (`BehindCursor`); that only a plane which has cut or lost
  selected events refuses the cursor is a step of its own (`InPlaceInRange`),
  and gives the exception in `NothingSkipped`.  It is claimed of the view, of
  the answer to a refresh under way and of a page joined to the view as it is
  now (`Views`).
- `RedactionProofs`: `TypeOK`, `LastRuleWins`, `HitsMatchEvents` and
  `RedactedByOnePolicy`.  The loop of `compilePolicy` is unfolded rule by rule:
  a key belongs to the last rule so far that names it, and the masks of a field
  are those of the rules so far (`LastClaimWins`, `MasksCompiled`); so the
  policy has every key and field its rules name, and no other.  The inductive
  invariant (`RedactionOK`) says of a call how many of the three loops each key
  of each carrier has been through, and that the map, the tally and what is left
  to visit are what that makes of the batch (`CallOK`, `Progress`); hence the
  order of keys does not matter, as a step moves one key on by one loop
  (`OneLoopOn`, `OneKeyOn`) and the others stay.  A key that has been through
  three is what `Fate` says (`KeyFate`).  Hits are compared copy by copy, with
  sums over finite sets that do not depend on the order of adding
  (`TotalTakes`); the ledger says that what was recorded is what was counted
  plus what the calls that still walk owe (`LedgerOK`), which gives
  `HitsMatchEvents`.
- `SequenceFacts`: induction up to a number and over the subsets of a finite
  set, with a set in place of the predicate, and recursion, with a function in
  place of the operator, which lets the provers instantiate them.  By these
  `EventsViewProofs` shows what `Filtered` computes for every list and every
  filter (`FilteredPicks`, `FilteredConcat`), and `RedactionProofs` what
  compiling, masking and the sums do.

The assumptions are those of the modules' ASSUMEs: the bounds are natural
numbers, the placeholders for "nothing" are not members of the sets they are
used with, calls are finitely many, and policy files and batches are what the
code can be given.

Proving corrected the model of `Redaction` in two places.  The reference
(`Naming`, `MaskOrder`) counted rules that name an empty key, which the code
skips; the bounds had no such file, and now they do.  And two CASE expressions
(`Targets`, `Fate`) had guards that could hold together, so that either
branch could be their value; they exclude each other now.

Only model-checked: all liveness, which is out of the prover's reach
(`HitsEventuallyCounted`, `EventsEventuallyWritten`, `ConvergesToActive`,
`ShutdownEnds`, `ClientsConverge`, `ViewConverges`).  Every safety property that a
run checks is proved.

## 5. What is not modelled

- `handleSimulate` (a constant answer), the GET of the counters and `/metrics`
  (reads without effect), request validation that the processor's requests
  always pass, authentication headers.
- The day a count is booked on, and events of several days or tenants: each
  module is about one tenant and day.
- Of the user interface the policy editor, the charts, and the filter that
  `renderEvents` applies once more to the rows it draws.
- Of redaction what regular expressions can do beyond atoms: matches of the empty
  string, matches across the border of a replacement, references in a
  replacement; two values with one hash; the writing of types and fields (case,
  blanks).  Metric exemplars, scope attributes, nested values and
  span names are not touched by the code, and so are no carriers.
- That DynamoDB may stop a query before its limit, at its size bound.  Ids of
  events are compared as strings that begin with a time without trailing zeros,
  so their order is not quite that of time; the model only uses their order.
- The sample application, generated collector code, dashboards, deployment.
- A crash of the processor: nothing of it is persisted, so what it holds is
  lost; the model's behaviours may stop at any point.

Five behaviours the models allow deserve attention, though no document of the
repository excludes them.  A batch of events that failed is appended behind
newer ones and can push them out of a full buffer, so eviction is not always of
the oldest event.  A POST with `activate: false` that uses the active version
again replaces the active document, in the serverless control plane only
(`ServedAsPosted` permits it, and says of a document what must have been put for
it to be served).  A page of events that
was asked for before a refresh and arrives after it is put before a list it does
not belong to, and its cursor is used on: the view stays mixed until the next
refresh is shown (`mixed` in `EventsView`; `ViewConverges`).  Once the mock's list
of a day is full, every new event shifts the index cursors, so that a page
repeats events already loaded, which the view shows twice
(`TwiceOnlyAfterTrimming`).  When the cuts leave the cursor past the end of the
filtered list, the mock refuses it with 400 and the view keeps it: "Load more"
fails, time and again, until the next refresh, though events it has not loaded
are still there (the exception in `NothingSkipped`).  The view does not say so:
`updateEventsMeta` in the `finally` branch writes over the text "Load failed" at
once.

## 6. Plan

1. A register of active policies as an abstract specification, implemented by the
   mock, and by the serverless control plane when versions are not reused and
   reads are consistent.
2. Three instances reporting to one control plane, with the day a count is
   booked on.
