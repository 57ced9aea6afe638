------------------------- MODULE AuditCountsProofs -------------------------
(***************************************************************************)
(* The safety of the audit counters, for every set of rules and every      *)
(* bound.  The argument: each step moves hits between auditCounts, batch,  *)
(* failed and the acknowledged ones and keeps their sum (HitsConserved);   *)
(* a drain overwrites nothing, as a flush begins with nothing left of the  *)
(* one before it (IdleEmpty); the control plane's counter only grows, and  *)
(* a post is acknowledged only once it has been handled (Counted); the     *)
(* counter runs ahead of the acknowledged hits only through a request on   *)
(* the wire that failed, and such a request marks its rule, also while it  *)
(* is still under way (Exact, LateMarked).                                 *)
(***************************************************************************)
EXTENDS AuditCounts, TLAPS

\* Between flushes nothing is drained or waiting to be merged.
IdleEmpty == flush = "idle" => \A r \in RuleIDs : batch[r] = 0 /\ failed[r] = 0

\* Every acknowledged hit, and what is handled of the current post, is counted.
Counted == \A r \in RuleIDs : serverCounts[r] >= acked[r] + Handled(r)

\* And counted once while no request of the rule has failed on the wire.
Exact == \A r \in RuleIDs \ suspect : serverCounts[r] = acked[r] + Handled(r)

LateMarked == \A q \in late : q.rule \in suspect

\* The inductive invariant.
IInv ==
  TypeOK /\ IdleEmpty /\ HitsConserved /\ Counted /\ Exact /\ LateMarked

-----------------------------------------------------------------------------

LEMMA InitIInv == Init => IInv
<1> SUFFICES ASSUME Init PROVE IInv
  OBVIOUS
<1> USE DEF Init, Zero
<1>1. TypeOK
  <2>1. current \notin RuleIDs /\ failures \in 0 .. MaxFailures
    BY CountsAssumption DEF CountsAssumption
  <2> QED
    BY <2>1 DEF TypeOK
<1>2. IdleEmpty
  BY DEF IdleEmpty
<1>3. HitsConserved
  <2> SUFFICES ASSUME NEW r \in RuleIDs
               PROVE recorded[r] = Pending(r) + acked[r]
    BY DEF HitsConserved
  <2> QED
    BY DEF Pending
<1>4. Counted /\ Exact /\ LateMarked
  BY DEF Counted, Exact, LateMarked, Handled
<1> QED
  BY <1>1, <1>2, <1>3, <1>4 DEF IInv

\* The variables of the flush keep their types in every step.
LEMMA TypeStep == TypeOK /\ [Next]_vars => TypeOK'
<1> SUFFICES ASSUME TypeOK, [Next]_vars PROVE TypeOK'
  OBVIOUS
<1> USE CountsAssumption DEF CountsAssumption, TypeOK
<1>1. ASSUME NEW hits \in RuleHits, AddAuditHits(hits) PROVE TypeOK'
  BY <1>1 DEF AddAuditHits, RuleHits, Plus, serverVars
<1>2. CASE DrainAuditCounts
  BY <1>2 DEF DrainAuditCounts, Zero, serverVars
<1>3. ASSUME NEW r \in RuleIDs, PostAuditCount(r) PROVE TypeOK'
  BY <1>3 DEF PostAuditCount, serverVars
<1>4. ASSUME NEW r \in RuleIDs, PostAfterDeadline(r) PROVE TypeOK'
  BY <1>4 DEF PostAfterDeadline, serverVars
<1>5. CASE PostReturnsNil
  BY <1>5 DEF PostReturnsNil, serverVars
<1>6. CASE PostReturnsError
  <2>1. current \in RuleIDs /\ failures' \in 1 .. MaxFailures
    BY <1>6 DEF PostReturnsError
  <2>2. [id |-> failures', rule |-> current, count |-> batch[current]]
          \in LateRequest
    BY <2>1 DEF LateRequest
  <2>3. late' \in SUBSET LateRequest
    BY <1>6, <2>2 DEF PostReturnsError
  <2>4. batch' \in [RuleIDs -> Nat] /\ failed' \in [RuleIDs -> Nat]
    BY <1>6, <2>1 DEF PostReturnsError
  <2>5. flush' = "range" /\ current' = NoRule /\ ctxExpired' \in BOOLEAN
    BY <1>6 DEF PostReturnsError
  <2>6. suspect' \in SUBSET RuleIDs
    BY <1>6, <2>1 DEF PostReturnsError
  <2> QED
    BY <1>6, <2>1, <2>3, <2>4, <2>5, <2>6 DEF PostReturnsError
<1>7. CASE MergeAuditCounts
  BY <1>7 DEF MergeAuditCounts, Plus, Zero, serverVars
<1>8. CASE HandlePostAuditCount
  BY <1>8 DEF HandlePostAuditCount
<1>9. ASSUME NEW q \in late, HandleLate(q) PROVE TypeOK'
  BY <1>9 DEF HandleLate, LateRequest, clientVars
<1>10. CASE UNCHANGED vars
  BY <1>10 DEF vars, clientVars, serverVars
<1> QED
  BY <1>1, <1>2, <1>3, <1>4, <1>5, <1>6, <1>7, <1>8, <1>9, <1>10 DEF Next

\* Only the end of a flush makes it idle, with the batch used up.
LEMMA IdleEmptyStep == TypeOK /\ IdleEmpty /\ [Next]_vars => IdleEmpty'
<1> SUFFICES ASSUME TypeOK, IdleEmpty, [Next]_vars PROVE IdleEmpty'
  OBVIOUS
<1> USE DEF TypeOK, IdleEmpty
<1>1. CASE UNCHANGED <<flush, batch, failed>>
  BY <1>1
<1>2. CASE flush' # "idle"
  BY <1>2
<1>3. CASE \E r \in RuleIDs : PostAfterDeadline(r)
  BY <1>3 DEF PostAfterDeadline
<1>4. CASE MergeAuditCounts
  BY <1>4 DEF MergeAuditCounts, Zero
<1> QED
  BY <1>1, <1>2, <1>3, <1>4
  DEF Next, vars, clientVars, AddAuditHits, DrainAuditCounts, PostAuditCount,
      PostReturnsNil, PostReturnsError, HandlePostAuditCount, HandleLate

\* No step loses a hit or invents one.
LEMMA ConservedStep ==
  TypeOK /\ IdleEmpty /\ HitsConserved /\ [Next]_vars => HitsConserved'
<1> SUFFICES ASSUME TypeOK, IdleEmpty, HitsConserved, [Next]_vars,
                    NEW r \in RuleIDs
             PROVE (recorded[r] = Pending(r) + acked[r])'
  BY DEF HitsConserved
<1>0. recorded[r] = auditCounts[r] + batch[r] + failed[r] + acked[r]
  BY DEF HitsConserved, Pending
<1> DEFINE Same == recorded'[r] = auditCounts'[r] + batch'[r] + failed'[r]
                                  + acked'[r]
<1> SUFFICES Same
  BY DEF Pending
<1> USE <1>0 DEF TypeOK
<1>1. ASSUME NEW hits \in RuleHits, AddAuditHits(hits) PROVE Same
  BY <1>1 DEF AddAuditHits, RuleHits, Plus
<1>2. CASE DrainAuditCounts
  BY <1>2 DEF DrainAuditCounts, Zero, IdleEmpty
<1>3. ASSUME NEW s \in RuleIDs, PostAuditCount(s) PROVE Same
  BY <1>3 DEF PostAuditCount
<1>4. ASSUME NEW s \in RuleIDs, PostAfterDeadline(s) PROVE Same
  BY <1>4 DEF PostAfterDeadline
<1>5. CASE PostReturnsNil
  BY <1>5 DEF PostReturnsNil
<1>6. CASE PostReturnsError
  BY <1>6 DEF PostReturnsError
<1>7. CASE MergeAuditCounts
  BY <1>7 DEF MergeAuditCounts, Plus, Zero
<1>8. CASE HandlePostAuditCount
  BY <1>8 DEF HandlePostAuditCount
<1>9. ASSUME NEW q \in late, HandleLate(q) PROVE Same
  BY <1>9 DEF HandleLate, clientVars
<1>10. CASE UNCHANGED vars
  BY <1>10 DEF vars, clientVars
<1> QED
  BY <1>1, <1>2, <1>3, <1>4, <1>5, <1>6, <1>7, <1>8, <1>9, <1>10 DEF Next

\* What is acknowledged is counted, and counted exactly while no request of
\* the rule has failed.
LEMMA CountedStep ==
  TypeOK /\ Counted /\ Exact /\ LateMarked /\ [Next]_vars
    => Counted' /\ Exact' /\ LateMarked'
<1> SUFFICES ASSUME TypeOK, Counted, Exact, LateMarked, [Next]_vars
             PROVE Counted' /\ Exact' /\ LateMarked'
  OBVIOUS
<1> USE DEF TypeOK, Counted, Exact, LateMarked, Handled
<1>1. CASE \E hits \in RuleHits : AddAuditHits(hits)
  BY <1>1 DEF AddAuditHits, serverVars
<1>2. CASE DrainAuditCounts
  BY <1>2 DEF DrainAuditCounts, serverVars
<1>3. ASSUME NEW r \in RuleIDs, PostAuditCount(r)
      PROVE Counted' /\ Exact' /\ LateMarked'
  BY <1>3 DEF PostAuditCount, serverVars
<1>4. ASSUME NEW r \in RuleIDs, PostAfterDeadline(r)
      PROVE Counted' /\ Exact' /\ LateMarked'
  BY <1>4 DEF PostAfterDeadline, serverVars
<1>5. CASE PostReturnsNil
  BY <1>5 DEF PostReturnsNil, serverVars
<1>6. CASE PostReturnsError
  \* what was handled and not answered becomes an excess, of a marked rule
  BY <1>6 DEF PostReturnsError
<1>7. CASE MergeAuditCounts
  BY <1>7 DEF MergeAuditCounts, serverVars
<1>8. CASE HandlePostAuditCount
  BY <1>8 DEF HandlePostAuditCount
<1>9. ASSUME NEW q \in late, HandleLate(q)
      PROVE Counted' /\ Exact' /\ LateMarked'
  <2>1. q.rule \in suspect /\ q.rule \in RuleIDs /\ q.count \in Nat
    BY DEF LateRequest
  <2>2. \A r \in RuleIDs : serverCounts'[r] >= serverCounts[r]
    BY <1>9, <2>1 DEF HandleLate
  <2>3. \A r \in RuleIDs \ suspect : serverCounts'[r] = serverCounts[r]
    BY <1>9, <2>1 DEF HandleLate
  <2>4. serverCounts' \in [RuleIDs -> Nat]
    BY <1>9, <2>1 DEF HandleLate
  <2>5. /\ UNCHANGED <<acked, batch, flush, current, suspect>>
        /\ late' \in SUBSET late
    BY <1>9 DEF HandleLate, clientVars
  <2> QED
    BY <2>2, <2>3, <2>4, <2>5
<1>10. CASE UNCHANGED vars
  BY <1>10 DEF vars, clientVars, serverVars
<1> QED
  BY <1>1, <1>2, <1>3, <1>4, <1>5, <1>6, <1>7, <1>8, <1>9, <1>10 DEF Next

-----------------------------------------------------------------------------

LEMMA Inductive == Spec => []IInv
<1>1. IInv /\ [Next]_vars => IInv'
  BY TypeStep, IdleEmptyStep, ConservedStep, CountedStep DEF IInv
<1> QED
  BY InitIInv, <1>1, PTL DEF Spec

\* Every variable of the counter pipeline keeps its type; in particular no
\* counter, drained count or failed count is ever negative.
THEOREM TypeCorrect == Spec => []TypeOK
<1>1. IInv => TypeOK
  BY DEF IInv
<1> QED
  BY <1>1, Inductive, PTL

\* Flushing concurrently with the pipeline goroutines neither loses a hit nor
\* invents one.
THEOREM Conservation == Spec => []HitsConserved
<1>1. IInv => HitsConserved
  BY DEF IInv
<1> QED
  BY <1>1, Inductive, PTL

\* The control plane's counters cover every hit the processor has dropped from
\* its memory, whatever requests and replies are lost.
THEOREM NoUndercount == Spec => []NeverUndercounted
<1>1. IInv => NeverUndercounted
  <2> SUFFICES ASSUME IInv, NEW r \in RuleIDs
               PROVE recorded[r] <= serverCounts[r] + Pending(r)
    BY DEF NeverUndercounted
  <2>1. recorded[r] = Pending(r) + acked[r]
    BY DEF IInv, HitsConserved
  <2>2. serverCounts[r] >= acked[r] + Handled(r) /\ Handled(r) \in Nat
    BY DEF IInv, TypeOK, Counted, Handled
  <2>3. acked[r] \in Nat /\ serverCounts[r] \in Nat /\ Pending(r) \in Nat
    BY DEF IInv, TypeOK, Pending
  <2> QED
    BY <2>1, <2>2, <2>3
<1> QED
  BY <1>1, Inductive, PTL

\* A hit is counted twice only for a rule of which a request has failed on the
\* wire.
THEOREM DoubleCountNeedsFailure == Spec => []CountedTwiceOnlyAfterFailure
<1>1. IInv => CountedTwiceOnlyAfterFailure
  <2> SUFFICES ASSUME IInv, NEW r \in RuleIDs \ suspect
               PROVE serverCounts[r] + Pending(r) = recorded[r] + Handled(r)
    BY DEF CountedTwiceOnlyAfterFailure
  <2>1. recorded[r] = Pending(r) + acked[r]
    BY DEF IInv, HitsConserved
  <2>2. serverCounts[r] = acked[r] + Handled(r) /\ Handled(r) \in Nat
    BY DEF IInv, TypeOK, Exact, Handled
  <2>3. acked[r] \in Nat /\ Pending(r) \in Nat
    BY DEF IInv, TypeOK, Pending
  <2> QED
    BY <2>1, <2>2, <2>3
<1> QED
  BY <1>1, Inductive, PTL

-----------------------------------------------------------------------------
(* A context that has expired leaves hits behind: the post that was under   *)
(* way failed, so that the next flush finds something and begins with a    *)
(* context of its own.                                                     *)

OwesSomething == \E r \in RuleIDs : auditCounts[r] > 0 \/ failed[r] > 0

ExpiredOwes ==
  /\ flush \in {"sent", "handled"} => batch[current] > 0 /\ ctxExpired = FALSE
  /\ ctxExpired = TRUE => OwesSomething

LEMMA ExpiredInit == Init => ExpiredOwes
BY DEF Init, ExpiredOwes

LEMMA ExpiredStep == TypeOK /\ ExpiredOwes /\ [Next]_vars => ExpiredOwes'
<1> SUFFICES ASSUME TypeOK, ExpiredOwes, [Next]_vars PROVE ExpiredOwes'
  OBVIOUS
<1>1. ASSUME NEW hits \in RuleHits, AddAuditHits(hits) PROVE ExpiredOwes'
  <2>1. /\ hits \in [RuleIDs -> Nat] /\ auditCounts \in [RuleIDs -> Nat]
        /\ failed' = failed /\ ctxExpired' = ctxExpired
        /\ flush' = flush /\ current' = current /\ batch' = batch
        /\ auditCounts' = [r \in RuleIDs |-> auditCounts[r] + hits[r]]
    BY <1>1 DEF AddAuditHits, RuleHits, Plus, TypeOK
  <2>2. OwesSomething => OwesSomething'
    BY <2>1 DEF OwesSomething
  <2> QED
    BY <2>1, <2>2 DEF ExpiredOwes
<1>2. CASE DrainAuditCounts
  BY <1>2 DEF DrainAuditCounts, ExpiredOwes
<1>3. ASSUME NEW r \in RuleIDs, PostAuditCount(r) PROVE ExpiredOwes'
  BY <1>3 DEF PostAuditCount, ExpiredOwes, OwesSomething, TypeOK
<1>4. ASSUME NEW r \in RuleIDs, PostAfterDeadline(r) PROVE ExpiredOwes'
  <2>1. OwesSomething'
    BY <1>4 DEF PostAfterDeadline, OwesSomething, TypeOK
  <2> QED
    BY <1>4, <2>1 DEF PostAfterDeadline, ExpiredOwes
<1>5. CASE PostReturnsNil
  BY <1>5 DEF PostReturnsNil, ExpiredOwes, OwesSomething
<1>6. CASE PostReturnsError
  <2>1. /\ current \in RuleIDs /\ batch[current] > 0 /\ flush' = "range"
        /\ failed' = [failed EXCEPT ![current] = @ + batch[current]]
    BY <1>6 DEF PostReturnsError, ExpiredOwes, TypeOK
  <2>2. failed'[current] > 0
    BY <2>1 DEF TypeOK
  <2> QED
    BY <2>1, <2>2 DEF ExpiredOwes, OwesSomething
<1>7. CASE MergeAuditCounts
  <2>1. /\ auditCounts' = [r \in RuleIDs |-> auditCounts[r] + failed[r]]
        /\ flush' = "idle" /\ ctxExpired' = ctxExpired
    BY <1>7 DEF MergeAuditCounts, Plus
  <2>2. OwesSomething => OwesSomething'
    BY <2>1 DEF OwesSomething, TypeOK
  <2> QED
    BY <2>1, <2>2 DEF ExpiredOwes
<1>8. CASE HandlePostAuditCount
  BY <1>8 DEF HandlePostAuditCount, ExpiredOwes, OwesSomething
<1>9. CASE UNCHANGED clientVars
  BY <1>9 DEF clientVars, ExpiredOwes, OwesSomething
<1> QED
  BY <1>1, <1>2, <1>3, <1>4, <1>5, <1>6, <1>7, <1>8, <1>9
  DEF Next, vars, HandleLate

-----------------------------------------------------------------------------
(* The pipeline implements the ledger.  What a step does to Owed decides    *)
(* which of the ledger's steps it is: the handler counts, an error after it *)
(* is a doubt, a late request counts again, and all else leaves the books   *)
(* alone.                                                                  *)

\* A request that outlives its client asks for no more than was recorded.
LateRecorded == \A q \in late : q.count <= recorded[q.rule]

LEMMA LateStep ==
  TypeOK /\ HitsConserved /\ LateRecorded /\ [Next]_vars => LateRecorded'
<1> SUFFICES ASSUME TypeOK, HitsConserved, LateRecorded, [Next]_vars
             PROVE LateRecorded'
  OBVIOUS
<1>1. \A r \in RuleIDs : batch[r] <= recorded[r]
  BY DEF TypeOK, HitsConserved, Pending
<1>2. \A q \in late : q.rule \in RuleIDs /\ q.count \in Nat
  BY DEF TypeOK, LateRequest
<1>3. ASSUME NEW hits \in RuleHits, AddAuditHits(hits) PROVE LateRecorded'
  BY <1>2, <1>3 DEF AddAuditHits, RuleHits, Plus, TypeOK, LateRecorded, serverVars
<1>4. CASE PostReturnsError
  <2>1. current \in RuleIDs /\ UNCHANGED recorded
    BY <1>4 DEF PostReturnsError, TypeOK
  <2>2. ASSUME NEW q \in late' PROVE q \in late \/ (q.rule = current /\ q.count = batch[current])
    BY <1>4 DEF PostReturnsError
  <2> QED
    BY <1>1, <2>1, <2>2 DEF LateRecorded
<1>5. CASE UNCHANGED recorded /\ late' \in SUBSET late
  BY <1>5 DEF LateRecorded
<1> QED
  BY <1>3, <1>4, <1>5
  DEF Next, vars, clientVars, serverVars, DrainAuditCounts, PostAuditCount, PostAfterDeadline,
      PostReturnsNil, MergeAuditCounts, HandlePostAuditCount, HandleLate

\* The books of the ledger, rule by rule.
Books ==
  /\ Owed \in [RuleIDs -> Nat]
  /\ \A r \in RuleIDs :
       Owed[r] = auditCounts[r] + batch[r] + failed[r] - Handled(r)

LEMMA BooksOK == TypeOK => Books
  BY DEF TypeOK, Owed, Pending, Handled, Books

LEMMA PointwiseEqual ==
  ASSUME NEW S, NEW f \in [S -> Nat], NEW g \in [S -> Nat], \A r \in S : g[r] = f[r]
  PROVE g = f
OBVIOUS

LEMMA PointwiseMore ==
  ASSUME NEW S, NEW f \in [S -> Nat], NEW g \in [S -> Nat], NEW c \in S, NEW n \in Nat,
         \A r \in S : g[r] = f[r] + (IF r = c THEN n ELSE 0)
  PROVE g = [f EXCEPT ![c] = @ + n]
OBVIOUS

LEMMA PointwiseLess ==
  ASSUME NEW S, NEW f \in [S -> Nat], NEW g \in [S -> Nat], NEW c \in S, NEW n \in Nat,
         \A r \in S : g[r] = f[r] - (IF r = c THEN n ELSE 0)
  PROVE g = [f EXCEPT ![c] = @ - n]
OBVIOUS

\* These steps leave the ledger as it is.
LEMMA LedgerStutter ==
  ASSUME TypeOK, IdleEmpty, Books, Books',
         \/ DrainAuditCounts
         \/ \E r \in RuleIDs : PostAuditCount(r) \/ PostAfterDeadline(r)
         \/ PostReturnsNil
         \/ MergeAuditCounts
  PROVE UNCHANGED Ledger!vars
<1> USE DEF TypeOK, Books, Handled
<1>1. (\A r \in RuleIDs : Owed'[r] = Owed[r]) /\ UNCHANGED <<recorded, serverCounts>>
        => UNCHANGED Ledger!vars
  BY PointwiseEqual DEF Ledger!vars
<1>2. CASE DrainAuditCounts
  BY <1>1, <1>2 DEF DrainAuditCounts, Zero, IdleEmpty, serverVars
<1>3. ASSUME NEW s \in RuleIDs, PostAuditCount(s) PROVE UNCHANGED Ledger!vars
  BY <1>1, <1>3 DEF PostAuditCount, serverVars
<1>4. ASSUME NEW s \in RuleIDs, PostAfterDeadline(s) PROVE UNCHANGED Ledger!vars
  BY <1>1, <1>4 DEF PostAfterDeadline, serverVars
<1>5. CASE PostReturnsNil
  <2>1. \A r \in RuleIDs : Owed'[r] = Owed[r]
    <3> SUFFICES ASSUME NEW r \in RuleIDs PROVE Owed'[r] = Owed[r]
      OBVIOUS
    <3>1. Owed'[r] = auditCounts[r] + batch'[r] + failed[r]
      BY <1>5 DEF PostReturnsNil
    <3>2. batch'[r] = IF r = current THEN 0 ELSE batch[r]
      BY <1>5 DEF PostReturnsNil
    <3>3. Owed[r] = auditCounts[r] + batch[r] + failed[r]
                      - (IF r = current THEN batch[r] ELSE 0)
      BY <1>5 DEF PostReturnsNil
    <3> QED
      BY <3>1, <3>2, <3>3
  <2> QED
    BY <1>1, <1>5, <2>1 DEF PostReturnsNil, serverVars
<1>6. CASE MergeAuditCounts
  BY <1>1, <1>6 DEF MergeAuditCounts, Plus, Zero, serverVars
<1> QED
  BY <1>2, <1>3, <1>4, <1>5, <1>6

LEMMA LedgerRecord ==
  ASSUME TypeOK, Books, Books', NEW hits \in RuleHits, AddAuditHits(hits)
  PROVE Ledger!Next
<1>1. hits \in [RuleIDs -> 0 .. MaxBatchHits] /\ hits \in [RuleIDs -> Nat]
  BY CountsAssumption DEF RuleHits, CountsAssumption
<1>2. \A r \in RuleIDs : Owed'[r] = Owed[r] + hits[r]
  BY <1>1 DEF AddAuditHits, Plus, TypeOK, Books, Handled
<1>3. Owed' = [r \in RuleIDs |-> Owed[r] + hits[r]]
  BY <1>1, <1>2 DEF Books
<1>4. /\ recorded' = [r \in RuleIDs |-> recorded[r] + hits[r]]
      /\ UNCHANGED serverCounts
  BY DEF AddAuditHits, Plus, serverVars
<1>5. Ledger!Record(hits)
  BY <1>3, <1>4 DEF Ledger!Record
<1> QED
  BY <1>1, <1>5 DEF Ledger!Next

\* The handler takes the post off the books as it counts it.
LEMMA LedgerCount ==
  ASSUME TypeOK, Books, Books', HandlePostAuditCount
  PROVE [Ledger!Next]_(Ledger!vars)
<1> DEFINE n == batch[current]
<1>1. current \in RuleIDs /\ n \in Nat /\ n <= Owed[current]
  BY DEF HandlePostAuditCount, TypeOK, Books, Handled
<1>2. \A r \in RuleIDs : Owed'[r] = Owed[r] - (IF r = current THEN n ELSE 0)
  BY DEF HandlePostAuditCount, TypeOK, Books, Handled
<1>3. UNCHANGED recorded /\ serverCounts' = [serverCounts EXCEPT ![current] = @ + n]
  BY DEF HandlePostAuditCount
<1>4. CASE n = 0
  <2>1. UNCHANGED <<Owed, serverCounts>>
    BY <1>1, <1>2, <1>3, <1>4, PointwiseEqual DEF TypeOK, Books
  <2> QED
    BY <1>3, <2>1 DEF Ledger!vars
<1>5. CASE n # 0
  <2>1. n \in 1 .. Owed[current]
    BY <1>1, <1>5 DEF Books
  <2>2. Owed' = [Owed EXCEPT ![current] = @ - n]
    BY <1>1, <1>2, PointwiseLess DEF Books
  <2>3. Ledger!Count(current)
    BY <1>3, <2>1, <2>2 DEF Ledger!Count
  <2> QED
    BY <1>1, <2>3 DEF Ledger!Next
<1> QED
  BY <1>4, <1>5

\* An error after the post was handled puts back on the books what is counted.
LEMMA LedgerDoubt ==
  ASSUME TypeOK, Counted, Books, Books', PostReturnsError
  PROVE [Ledger!Next]_(Ledger!vars)
<1> DEFINE n == Handled(current)
<1>1. current \in RuleIDs /\ n \in Nat /\ n <= serverCounts[current]
  BY DEF PostReturnsError, TypeOK, Counted, Handled
<1>2. \A r \in RuleIDs : Owed'[r] = Owed[r] + (IF r = current THEN n ELSE 0)
  BY DEF PostReturnsError, TypeOK, Books, Handled
<1>3. UNCHANGED <<recorded, serverCounts>>
  BY DEF PostReturnsError
<1>4. CASE n = 0
  <2>1. UNCHANGED Owed
    BY <1>1, <1>2, <1>4, PointwiseEqual DEF Books
  <2> QED
    BY <1>3, <2>1 DEF Ledger!vars
<1>5. CASE n # 0
  <2>1. n \in 1 .. serverCounts[current]
    BY <1>1, <1>5 DEF TypeOK
  <2>2. Owed' = [Owed EXCEPT ![current] = @ + n]
    BY <1>1, <1>2, PointwiseMore DEF Books
  <2>3. Ledger!Doubt(current)
    BY <1>3, <2>1, <2>2 DEF Ledger!Doubt
  <2> QED
    BY <1>1, <2>3 DEF Ledger!Next
<1> QED
  BY <1>4, <1>5

LEMMA LedgerLate ==
  ASSUME TypeOK, LateRecorded, Books, Books', NEW q \in late, HandleLate(q)
  PROVE [Ledger!Next]_(Ledger!vars)
<1>1. q.rule \in RuleIDs /\ q.count \in Nat /\ q.count <= recorded[q.rule]
  BY DEF TypeOK, LateRequest, LateRecorded
<1>2. UNCHANGED recorded /\ \A r \in RuleIDs : Owed'[r] = Owed[r]
  BY DEF HandleLate, clientVars, TypeOK, Books, Handled
<1>3. UNCHANGED Owed
  BY <1>2, PointwiseEqual DEF Books
<1>4. CASE UNCHANGED serverCounts
  BY <1>2, <1>3, <1>4 DEF Ledger!vars
<1>5. CASE serverCounts' = [serverCounts EXCEPT ![q.rule] = @ + q.count]
  <2>1. CASE q.count = 0
    <3>1. UNCHANGED serverCounts
      BY <1>1, <1>5, <2>1 DEF TypeOK
    <3> QED
      BY <1>4, <3>1
  <2>2. CASE q.count # 0
    <3>1. q.count \in 1 .. recorded[q.rule]
      BY <1>1, <2>2 DEF TypeOK
    <3>2. Ledger!CountAgain(q.rule)
      BY <1>2, <1>3, <1>5, <3>1 DEF Ledger!CountAgain
    <3> QED
      BY <1>1, <3>2 DEF Ledger!Next
  <2> QED
    BY <2>1, <2>2
<1> QED
  BY <1>4, <1>5 DEF HandleLate

LEMMA LedgerStep ==
  ASSUME IInv, Books, Books', LateRecorded, [Next]_vars
  PROVE [Ledger!Next]_(Ledger!vars)
<1>1. CASE UNCHANGED vars
  BY <1>1 DEF vars, clientVars, serverVars, Ledger!vars, Owed, Pending, Handled
<1> QED
  BY <1>1, LedgerStutter, LedgerRecord, LedgerCount, LedgerDoubt, LedgerLate DEF IInv, Next

\* For any number of rules, hits and failures, the pipeline is at-least-once
\* counting: its initial state is the ledger's, and each of its steps one of
\* the ledger's or none.
THEOREM RefinesLedger == Spec => ImplementsLedger
<1>1. Init => Ledger!Init /\ LateRecorded
  BY DEF Init, Ledger!Init, Owed, Pending, Handled, Zero, Ledger!Zero, LateRecorded
<1>2. IInv /\ LateRecorded /\ [Next]_vars => LateRecorded'
  BY LateStep DEF IInv
<1>3. IInv /\ Books /\ Books' /\ LateRecorded /\ [Next]_vars
        => [Ledger!Next]_(Ledger!vars)
  BY LedgerStep
<1>4. IInv => Books
  BY BooksOK DEF IInv
<1> QED
  BY <1>1, <1>2, <1>3, <1>4, Inductive, PTL DEF Spec, ImplementsLedger, Ledger!Spec
=============================================================================
