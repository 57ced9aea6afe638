---------------------------- MODULE MCEventsView ----------------------------
(* Pages of one event from a mock list of four.  Six events in this order,  *)
(* the first four selected by the second query, make the plane cut two of   *)
(* the four while the cursor stands behind three of them, so it refuses the *)
(* cursor; five in another order mix selected events with others.  At the   *)
(* serverless plane an event with a younger id may come before older ones.  *)
(* With two requests in flight a page for one list can arrive after a       *)
(* refresh under another query.  The live run has fewer events.             *)
EXTENDS EventsView

MCEvents == 1 .. 6
MCArrivals ==
  [mock |-> {<<1, 3, 4, 6, 2, 5>>, <<2, 1, 3, 5, 4>>},
   serverless |-> {<<1, 2, 3>>, <<3, 1, 2>>}]
MCQueries == {MCEvents, {1, 3, 4, 6}}

MCLiveEvents == 1 .. 3
MCLiveArrivals == [mock |-> {<<1, 2, 3>>}, serverless |-> {<<3, 2>>}]
MCLiveQueries == {MCLiveEvents, {1, 3}}
=============================================================================
