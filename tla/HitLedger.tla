----------------------------- MODULE HitLedger -----------------------------
(***************************************************************************)
(* What the counter pipeline promises: at-least-once counting.  A hit is   *)
(* owed from the moment it is recorded and stops being owed in the very    *)
(* step that counts it.  A hit that was counted may come to be owed again, *)
(* and recorded hits may be counted once more, when no one knows whether   *)
(* they were counted; nothing else happens to a counter.                   *)
(***************************************************************************)
EXTENDS Naturals

CONSTANTS
  RuleIDs,
  MaxBatchHits \* bound: hits of one rule recorded in one step

VARIABLES
  recorded, \* hits so far
  owed,     \* hits still to be counted
  counted   \* the control plane's counters

vars == <<recorded, owed, counted>>

Zero == [r \in RuleIDs |-> 0]

Init == recorded = Zero /\ owed = Zero /\ counted = Zero

Record(hits) ==
  /\ recorded' = [r \in RuleIDs |-> recorded[r] + hits[r]]
  /\ owed' = [r \in RuleIDs |-> owed[r] + hits[r]]
  /\ UNCHANGED counted

Count(r) ==
  /\ \E n \in 1 .. owed[r] :
       /\ owed' = [owed EXCEPT ![r] = @ - n]
       /\ counted' = [counted EXCEPT ![r] = @ + n]
  /\ UNCHANGED recorded

Doubt(r) ==
  /\ \E n \in 1 .. counted[r] : owed' = [owed EXCEPT ![r] = @ + n]
  /\ UNCHANGED <<recorded, counted>>

CountAgain(r) ==
  /\ \E n \in 1 .. recorded[r] : counted' = [counted EXCEPT ![r] = @ + n]
  /\ UNCHANGED <<recorded, owed>>

Next ==
  \/ \E hits \in [RuleIDs -> 0 .. MaxBatchHits] : Record(hits)
  \/ \E r \in RuleIDs : Count(r) \/ Doubt(r) \/ CountAgain(r)

Spec == Init /\ [][Next]_vars
=============================================================================
