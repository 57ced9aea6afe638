----------------------------- MODULE EventsView -----------------------------
(***************************************************************************)
(* Reading audit events page by page.  A control plane keeps the events of *)
(* one tenant and day and answers a query with its newest page and, while  *)
(* older events remain, a cursor to the page before.  The mock plane's     *)
(* cursor is an index into a list whose head is cut off when the list is   *)
(* full; the serverless plane's is an event id, and it filters a page only *)
(* after cutting it.  Its query is eventually consistent: a replica that   *)
(* answers may lack events that were put before.  The audit view reads     *)
(* pages by asynchronous requests: several can be in flight, and their     *)
(* answers arrive in any order.                                            *)
(*                                                                         *)
(* An event is its place in the order of event ids; events arrive in any   *)
(* order.  A query is the set of events it selects.                        *)
(***************************************************************************)
EXTENDS Integers, SequencesExt

CONSTANTS
  Events,      \* bound: the events that can be posted
  Arrivals,    \* bound: the orders in which they can arrive at each plane
  Queries,     \* the settings of the view's four filters
  EventLimit,  \* state.eventLimit of the mock plane
  PageSize,    \* the limit parameter
  MaxInFlight, \* bound: requests under way at once
  MaxLoaded    \* bound: events loaded before the view asks for no more

ASSUME ViewAssumption ==
  /\ Events \subseteq Nat \ {0}
  /\ Arrivals \in [{"mock", "serverless"} -> SUBSET Seq(Events)]
  /\ Events \in Queries /\ Queries \subseteq SUBSET Events
  /\ {EventLimit, PageSize, MaxInFlight, MaxLoaded} \subseteq Nat \ {0}

VARIABLES
  plane,     \* which control plane answers: mock or serverless
  list,      \* its events, oldest first
  posted,    \* the events posted so far
  lagging,   \* those of the table that not every replica has yet
  query,     \* the filters as the view shows them
  loaded,    \* loadedEvents
  cursor,    \* eventsCursor, 0 for null
  loading,   \* eventsLoading
  requests,  \* requests under way
  loadedFor, \* history: the query of the refresh loaded starts from
  base,      \* history: what that query then selected of the settled events
  mixed      \* history: has a page been added to a list it was not asked for?

serverVars == <<plane, list, posted, lagging>>
listVars == <<loaded, cursor, loadedFor, base, mixed>>
vars == <<serverVars, query, listVars, loading, requests>>

-----------------------------------------------------------------------------
(* The control planes.                                                     *)

Least(m, n) == IF m < n THEN m ELSE n

\* filterAuditEvents, and the filter expression of the serverless query.
Filtered(s, q) ==
  LET upTo[n \in 0 .. Len(s)] ==
        IF n = 0 THEN <<>>
        ELSE IF s[n] \in q THEN Append(upTo[n - 1], s[n]) ELSE upTo[n - 1]
  IN  upTo[Len(s)]

\* A plausible slip: the cursor is the index of the event before the page.
MockPageOffByOne(shown, q, c) ==
  LET filtered == Filtered(shown, q)
      end == IF c = 0 THEN Len(filtered) ELSE c
      start == end - Least(end, PageSize)
  IN  [events |-> SubSeq(filtered, start + 1, end), next |-> IF start > 0 THEN start - 1 ELSE 0]

MockPage(shown, q, c) ==
  LET filtered == Filtered(shown, q)
      end == IF c = 0 THEN Len(filtered) ELSE c
      start == end - Least(end, PageSize)
  IN  [events |-> SubSeq(filtered, start + 1, end), next |-> start]

\* A plausible slip: the page starts with the event the cursor names.
ServerlessPageInclusive(shown, q, c) ==
  LET older == Filtered(Reverse(shown), {e \in Events : c = 0 \/ e <= c})
      items == SubSeq(older, 1, Least(Len(older), PageSize))
  IN  [events |-> Filtered(items, q),
       next |-> IF Len(items) = PageSize THEN items[PageSize] ELSE 0]

\* The database evaluates Limit items from the cursor down, then filters them;
\* it names the last it evaluated whenever the limit stopped it.
ServerlessPage(shown, q, c) ==
  LET older == Filtered(Reverse(shown), {e \in Events : c = 0 \/ e < c})
      items == SubSeq(older, 1, Least(Len(older), PageSize))
  IN  [events |-> Filtered(items, q),
       next |-> IF Len(items) = PageSize THEN items[PageSize] ELSE 0]

\* The mock plane refuses a cursor past the end of its list.
InRange(q, c) == plane = "mock" => c <= Len(Filtered(list, q))

\* The page a plane makes of the list a read of its events has shown it.
Page(shown, q, c) ==
  IF plane = "mock" THEN MockPage(shown, q, c) ELSE ServerlessPage(shown, q, c)

\* The lists a read can find: a replica of the table may lack lagging events.
Replicas == {Filtered(list, posted \ missing) : missing \in SUBSET lagging}

Pages(q, c) == {Page(shown, q, c) : shown \in Replicas}

\* What the pages from cursor c on still show: none when the plane refuses it.
Remaining(q, c) ==
  IF ~InRange(q, c) THEN {}
  ELSE IF plane = "mock" THEN ToSet(SubSeq(Filtered(list, q), 1, c))
  ELSE {e \in ToSet(list) \cap q : e < c}

\* The table of the serverless plane is sorted by event id.
Sorted(e) ==
  Filtered(list, {x \in Events : x < e}) \o <<e>> \o Filtered(list, {x \in Events : x > e})

\* A plausible slip: the mock plane's list is not cut.
PostedUncut(e) == IF plane = "mock" THEN Append(list, e) ELSE Sorted(e)

Posted(e) ==
  IF plane = "mock"
  THEN LET all == Append(list, e)
       IN  SubSeq(all, Len(all) - Least(Len(all), EventLimit) + 1, Len(all))
  ELSE Sorted(e)

\* bound: e is the next of one of the orders.
Arrives(e) ==
  \E s \in Arrivals[plane] : \E n \in 1 .. Len(s) :
    posted = ToSet(SubSeq(s, 1, n - 1)) /\ e = s[n]

-----------------------------------------------------------------------------

Request ==
  [id : 1 .. MaxInFlight, kind : {"refresh", "more"}, query : Queries, cursor : Nat,
   answered : BOOLEAN, events : Seq(Events), next : Nat, base : SUBSET Events,
   fresh : BOOLEAN]

TypeOK ==
  /\ plane \in {"mock", "serverless"}
  /\ list \in Seq(posted)
  /\ plane = "mock" => Len(list) <= EventLimit
  /\ posted \subseteq Events
  /\ lagging \subseteq posted
  /\ plane = "mock" => lagging = {}
  /\ query \in Queries
  /\ loaded \in Seq(posted)
  /\ cursor \in Nat
  /\ loading \in BOOLEAN
  /\ requests \subseteq Request
  /\ loadedFor \in Queries
  /\ base \subseteq posted
  /\ mixed \in BOOLEAN

Init ==
  /\ plane \in {"mock", "serverless"}
  /\ list = <<>>
  /\ posted = {}
  /\ lagging = {}
  /\ query \in Queries \* loadFilters restores what was saved
  /\ loaded = <<>>
  /\ cursor = 0
  /\ loading = FALSE
  /\ requests = {}
  /\ loadedFor = query
  /\ base = {}
  /\ mixed = FALSE

-----------------------------------------------------------------------------
(* Events arrive; the mock plane keeps them in memory only.                *)

PostAuditEvent(e) ==
  /\ e \notin posted
  /\ Arrives(e)
  /\ list' = Posted(e)
  /\ posted' = posted \cup {e}
  /\ lagging' = IF plane = "mock" THEN {} ELSE lagging \cup {e}
  /\ UNCHANGED <<plane, query, listVars, loading, requests>>

Restart ==
  /\ plane = "mock"
  /\ list # <<>>
  /\ list' = <<>>
  /\ UNCHANGED <<plane, posted, lagging, query, listVars, loading, requests>>

\* The last replica of the table gets an event.
Replicate(e) ==
  /\ lagging' = lagging \ {e}
  /\ UNCHANGED <<plane, list, posted, query, listVars, loading, requests>>

-----------------------------------------------------------------------------
(* The audit view sends requests.                                          *)

Send(kind, q, c) ==
  LET free == 1 .. MaxInFlight \ {r.id : r \in requests}
  IN  /\ free # {}
      /\ requests' = requests \cup
           {[id |-> Min(free), kind |-> kind, query |-> q, cursor |-> c,
             answered |-> FALSE, events |-> <<>>, next |-> 0, base |-> {}, fresh |-> TRUE]}
      /\ loading' = TRUE

\* The refresh button, the timer of toggleAuto, the end of savePolicy: a
\* refresh does not ask whether another request is under way.
RefreshEvents ==
  /\ Send("refresh", query, 0)
  /\ UNCHANGED <<serverVars, query, listVars>>

\* Typing into a filter refreshes at once.
InputFilter(q) ==
  /\ q # query
  /\ query' = q
  /\ Send("refresh", q, 0)
  /\ UNCHANGED <<serverVars, listVars>>

\* Clearing the filters refreshes the policy and the counts first.
ClearFilters ==
  /\ query # Events
  /\ query' = Events
  /\ UNCHANGED <<serverVars, listVars, loading, requests>>

LoadMoreEvents ==
  /\ cursor # 0
  /\ ~loading
  /\ Len(loaded) < MaxLoaded
  /\ Send("more", query, cursor)
  /\ UNCHANGED <<serverVars, query, listVars>>

-----------------------------------------------------------------------------
(* Requests are answered and their answers arrive.                         *)

\* The table is read without ConsistentRead: any replica may answer.
HandleGetAuditEvents(r) ==
  /\ ~r.answered
  /\ InRange(r.query, r.cursor)
  /\ \E page \in Pages(r.query, r.cursor) :
       requests' = (requests \ {r}) \cup
         {[r EXCEPT !.answered = TRUE, !.events = page.events, !.next = page.next,
                    !.base = IF r.kind = "refresh" THEN (ToSet(list) \ lagging) \cap r.query
                             ELSE {}]}
  /\ UNCHANGED <<serverVars, query, listVars, loading>>

\* r is over, and what is asked for more belongs to another list now.
Done(r) ==
  requests' = {[x EXCEPT !.fresh = x.kind = "refresh"] : x \in requests \ {r}}

\* A plausible slip: an answer without events leaves the list as it was.
ShowRefreshUnlessEmpty(r) ==
  /\ r.kind = "refresh" /\ r.answered
  /\ loaded' = IF r.events = <<>> THEN loaded ELSE r.events
  /\ cursor' = r.next
  /\ loading' = FALSE
  /\ loadedFor' = r.query
  /\ base' = r.base
  /\ mixed' = FALSE
  /\ Done(r)
  /\ UNCHANGED <<serverVars, query>>

\* refreshEvents after its await.
ShowRefresh(r) ==
  /\ r.kind = "refresh" /\ r.answered
  /\ loaded' = r.events
  /\ cursor' = r.next
  /\ loading' = FALSE
  /\ loadedFor' = r.query
  /\ base' = r.base
  /\ mixed' = FALSE
  /\ Done(r)
  /\ UNCHANGED <<serverVars, query>>

\* A plausible slip: the older page goes behind the younger ones.
ShowMoreBehind(r) ==
  /\ r.kind = "more" /\ r.answered
  /\ loaded' = loaded \o r.events
  /\ cursor' = r.next
  /\ loading' = FALSE
  /\ mixed' = (mixed \/ ~r.fresh \/ r.query # loadedFor)
  /\ Done(r)
  /\ UNCHANGED <<serverVars, query, loadedFor, base>>

\* loadMoreEvents after its await.
ShowMore(r) ==
  /\ r.kind = "more" /\ r.answered
  /\ loaded' = r.events \o loaded
  /\ cursor' = r.next
  /\ loading' = FALSE
  /\ mixed' = (mixed \/ ~r.fresh \/ r.query # loadedFor)
  /\ Done(r)
  /\ UNCHANGED <<serverVars, query, loadedFor, base>>

\* A plausible slip: the catch branch does not end the loading.
FailStillLoading(r) ==
  /\ requests' = requests \ {r}
  /\ UNCHANGED <<serverVars, query, listVars, loading>>

\* The request fails, on the wire or at the plane.
Fail(r) ==
  /\ requests' = requests \ {r}
  /\ loading' = FALSE
  /\ UNCHANGED <<serverVars, query, listVars>>

Next ==
  \/ \E e \in Events : PostAuditEvent(e)
  \/ Restart
  \/ \E e \in lagging : Replicate(e)
  \/ RefreshEvents
  \/ \E q \in Queries : InputFilter(q)
  \/ ClearFilters
  \/ LoadMoreEvents
  \/ \E r \in requests :
       HandleGetAuditEvents(r) \/ ShowRefresh(r) \/ ShowMore(r) \/ Fail(r)

Spec == Init /\ [][Next]_vars

\* The timer of toggleAuto is on and fires whatever is under way: strong, since
\* the bound on requests in flight can hold it up.  Every request ends, and not
\* every refresh fails.  Every event reaches every replica.
Fairness ==
  /\ WF_vars(\E e \in lagging : Replicate(e))
  /\ SF_vars(RefreshEvents)
  /\ \A id \in 1 .. MaxInFlight : WF_vars(\E r \in requests :
       r.id = id /\ (Fail(r) \/ ShowRefresh(r) \/ ShowMore(r) \/ HandleGetAuditEvents(r)))
  /\ SF_vars(\E r \in requests : r.kind = "refresh" /\ HandleGetAuditEvents(r))
  /\ SF_vars(\E r \in requests : ShowRefresh(r))

FairSpec == Spec /\ Fairness

-----------------------------------------------------------------------------
(* Properties.                                                             *)

\* A view that has added no page to another list than the one it was asked for
\* misses nothing: an event its query selected when it was refreshed, settled on
\* every replica, and that the plane still has, is loaded or on a page the
\* cursor still reaches, though events arrive behind the cursor, the mock
\* plane's list is cut or lost between two pages, and each page may be read
\* from another replica.  The one exception is a cursor the mock plane refuses,
\* and it refuses the view's cursor only after it has cut or lost events the
\* query had selected; "Load more" then fails until the next refresh.
NothingSkipped ==
  ~mixed =>
    \/ base \cap ToSet(list) \subseteq ToSet(loaded) \cup Remaining(loadedFor, cursor)
    \/ ~InRange(loadedFor, cursor) /\ ~(base \subseteq ToSet(list))

\* The same event is loaded twice only when the mock plane has cut events the
\* query had selected, which moves younger ones under the cursor.
TwiceOnlyAfterTrimming ==
  ~mixed /\ base \subseteq ToSet(list) => IsInjective(loaded)

\* Against the mock plane, pages are joined in the order in which their events
\* arrived, also when events arrive between two pages.
ListedInOrder ==
  plane = "mock" /\ ~mixed /\ base \subseteq ToSet(list) =>
    loaded = Filtered(list, ToSet(loaded))

\* While "Load more" is disabled for loading there is a request whose end
\* enables it, however refreshes and failures overlap.
LoadingEnds == loading => requests # {}

\* With the timer on, a view whose filters come to rest shows the newest page
\* of its query again and again, whatever late answers and answers of replicas
\* that lag were shown before.
ViewConverges ==
  \/ []<><<query' # query>>_query
  \/ []<>(loadedFor = query /\ loaded = Page(list, query, 0).events)
=============================================================================
