------------------------ MODULE PolicyRefreshProofs ------------------------
(***************************************************************************)
(* The refresh of the policy, for every number of instances and every      *)
(* bound.  The argument is about one instance at a time: a fetch under way *)
(* holds the proof of its own success, an activation since it asked that   *)
(* the reply or, for a 304, the ETag it sent is the entry of (Vouched);    *)
(* only a policy that compiles is put in force (Usable), and it has been   *)
(* active (Origin); and the ETag is that of the policy in force except     *)
(* between setPolicy and setETag, where the reply is (Vouched).            *)
(***************************************************************************)
EXTENDS PolicyRefresh, TLAPS

\* Some activation since p asked was of the entry e.
ActiveSince(p, e) ==
  \E i \in askedAt[p] .. Len(activations) : activations[i] = e

Underway(p) ==
  fetch[p] # "idle" =>
    phase[p] # "refused" /\ askedAt[p] \in 1 .. Len(activations)

Vouched(p) ==
  /\ fetch[p] = "answered" /\ reply[p] \in Entry => ActiveSince(p, reply[p])
  /\ fetch[p] = "answered" /\ reply[p] = NotModified =>
       etag[p] # NoEntry /\ ActiveSince(p, etag[p])
  /\ fetch[p] = "compiled" =>
       /\ reply[p] \in Entry /\ reply[p].doc = policy[p]
       /\ ActiveSince(p, reply[p])

Usable(p) ==
  /\ policy[p] \in GoodDocs \cup {NoDoc}
  /\ phase[p] = "running" => policy[p] # NoDoc

Origin(p) ==
  \/ policy[p] \in {NoDoc, LocalDoc}
  \/ \E i \in DOMAIN activations :
       activations[i] # NoEntry /\ activations[i].doc = policy[p]

ETagOf(p) ==
  fetch[p] # "compiled" /\ etag[p] # NoEntry => etag[p].doc = policy[p]

InstanceOK(p) ==
  Underway(p) /\ Vouched(p) /\ Usable(p) /\ Origin(p) /\ ETagOf(p)

\* The inductive invariant.
IInv == TypeOK /\ \A p \in Processors : InstanceOK(p)

-----------------------------------------------------------------------------

\* Initially no instance has fetched, and its policy is the local one or none.
LEMMA InitIInv == Init => IInv
<1> SUFFICES ASSUME Init PROVE IInv
  OBVIOUS
<1>1. TypeOK
  <2>1. InitialEntry \in Entry
    <3>1. InitialDoc \in Docs
      BY RefreshAssumption DEF RefreshAssumption
    <3> QED
      BY <3>1 DEF InitialEntry, Entry
  <2>2. /\ activations \in Seq(Entry \cup {NoEntry})
        /\ Len(activations) = 1
    <3>1. PICK e \in Entry \cup {NoEntry} : activations = <<e>>
      BY <2>1 DEF Init
    <3> QED
      BY <3>1
  <2>3. MaxPosts \in Nat /\ MaxFailures \in Nat /\ LocalDoc \in Docs
    BY RefreshAssumption DEF RefreshAssumption, Docs
  <2> QED
    BY <2>2, <2>3 DEF Init, TypeOK
<1>2. ASSUME NEW p \in Processors PROVE InstanceOK(p)
  <2>1. /\ phase[p] = "new" /\ fetch[p] = "idle" /\ etag[p] = NoEntry
        /\ policy[p] \in {LocalDoc, NoDoc}
    BY DEF Init
  <2>2. LocalDoc \in GoodDocs
    BY RefreshAssumption DEF RefreshAssumption
  <2> QED
    BY <2>1, <2>2
    DEF InstanceOK, Underway, Vouched, Usable, Origin, ETagOf
<1> QED
  BY <1>1, <1>2 DEF IInv

\* Every step keeps the types.
LEMMA TypeStep == IInv /\ [Next]_vars => TypeOK'
<1> SUFFICES ASSUME IInv, TypeOK, [Next]_vars PROVE TypeOK'
  BY DEF IInv
<1>1. ASSUME NEW e \in Entry \cup {NoEntry}, Len(activations) <= MaxPosts,
             activations' = Append(activations, e),
             UNCHANGED <<instanceVars, failures>>
      PROVE  TypeOK'
  <2>1. /\ activations' \in Seq(Entry \cup {NoEntry})
        /\ Len(activations') = Len(activations) + 1
    BY <1>1 DEF TypeOK
  <2>2. Len(activations') \in 1 .. MaxPosts + 1
    BY <1>1, <2>1, RefreshAssumption DEF TypeOK, RefreshAssumption
  <2> QED
    BY <1>1, <2>1, <2>2 DEF TypeOK, instanceVars
<1>2. ASSUME NEW v \in Versions, NEW d \in Docs, HandlePostPolicy(v, d)
      PROVE  TypeOK'
  <2>1. [version |-> v, doc |-> d] \in Entry
    BY DEF Entry
  <2> QED
    BY <1>1, <1>2, <2>1 DEF HandlePostPolicy
<1>3. CASE Restart
  <2>1. activations[1] \in Entry \cup {NoEntry}
    BY DEF TypeOK
  <2> QED
    BY <1>1, <1>3, <2>1 DEF Restart
<1>4. ASSUME NEW p \in Processors, KeepPolicy(p), failures' \in 0 .. MaxFailures
      PROVE  TypeOK'
  BY <1>4, RefreshAssumption
  DEF KeepPolicy, PhaseWithout, TypeOK, RefreshAssumption
<1>5. ASSUME NEW p \in Processors, BeginFetch(p) PROVE TypeOK'
  BY <1>5 DEF BeginFetch, TypeOK
<1>6. ASSUME NEW p \in Processors, HandleGetActive(p) PROVE TypeOK'
  <2>1. Active \in Entry \cup {NoEntry}
    BY DEF TypeOK, Active
  <2> QED
    BY <1>6, <2>1 DEF HandleGetActive, TypeOK
<1>7. ASSUME NEW p \in Processors, SetPolicy(p) PROVE TypeOK'
  <2>1. reply[p].doc \in Docs
    BY <1>7 DEF SetPolicy, Docs
  <2> QED
    BY <1>7, <2>1 DEF SetPolicy, TypeOK
<1>8. ASSUME NEW p \in Processors, SetETag(p) PROVE TypeOK'
  <2>1. reply[p] \in Entry
    BY <1>8 DEF SetETag, IInv, InstanceOK, Vouched
  <2> QED
    BY <1>8, <2>1, RefreshAssumption DEF SetETag, TypeOK, RefreshAssumption
<1>9. ASSUME NEW p \in Processors, FetchFails(p) PROVE TypeOK'
  BY <1>4, <1>9, RefreshAssumption DEF FetchFails, TypeOK, RefreshAssumption
<1>10. ASSUME NEW p \in Processors, FetchNotModified(p) \/ FetchRejected(p)
       PROVE  TypeOK'
  BY <1>4, <1>10 DEF FetchNotModified, FetchRejected, TypeOK
<1>11. CASE UNCHANGED vars
  BY <1>11 DEF vars, instanceVars, TypeOK
<1> QED
  BY <1>2, <1>3, <1>5, <1>6, <1>7, <1>8, <1>9, <1>10, <1>11
  DEF Next, Proceed

-----------------------------------------------------------------------------

\* An activation changes nothing of an instance, and what has been active
\* since it asked still has.
LEMMA ActivationStep ==
  ASSUME TypeOK, NEW e \in Entry \cup {NoEntry},
         activations' = Append(activations, e), UNCHANGED instanceVars,
         NEW p \in Processors, InstanceOK(p)
  PROVE  InstanceOK(p)'
<1>1. /\ DOMAIN activations = 1 .. Len(activations)
      /\ Len(activations) \in Nat /\ Len(activations') = Len(activations) + 1
      /\ DOMAIN activations' = 1 .. Len(activations')
      /\ \A i \in 1 .. Len(activations) : activations'[i] = activations[i]
  BY DEF TypeOK
<1>2. Underway(p)'
  BY <1>1 DEF InstanceOK, Underway, instanceVars
<1>3. ASSUME NEW x, ActiveSince(p, x), askedAt[p] \in 1 .. Len(activations)
      PROVE  ActiveSince(p, x)'
  <2>1. PICK i \in askedAt[p] .. Len(activations) : activations[i] = x
    BY <1>3 DEF ActiveSince
  <2>2. askedAt'[p] = askedAt[p] /\ askedAt[p] \in Nat
    BY DEF instanceVars, TypeOK
  <2>3. i \in askedAt'[p] .. Len(activations') /\ activations'[i] = x
    BY <1>1, <1>3, <2>1, <2>2
  <2> QED
    BY <2>3 DEF ActiveSince
<1>4. Vouched(p)'
  BY <1>3 DEF InstanceOK, Underway, Vouched, instanceVars
<1>5. Usable(p)' /\ ETagOf(p)'
  BY DEF InstanceOK, Usable, ETagOf, instanceVars
<1>6. Origin(p)'
  BY <1>1 DEF InstanceOK, Origin, instanceVars
<1> QED
  BY <1>2, <1>4, <1>5, <1>6 DEF InstanceOK

\* A step of another instance changes nothing of this one.
LEMMA OtherStep ==
  ASSUME NEW p \in Processors, InstanceOK(p), UNCHANGED activations,
         UNCHANGED <<phase[p], fetch[p], policy[p], etag[p], reply[p],
                     askedAt[p]>>
  PROVE  InstanceOK(p)'
BY DEF InstanceOK, Underway, Vouched, Usable, Origin, ETagOf, ActiveSince

\* A fetch that is given up, by a failure, a 304, or a policy that cannot be
\* used, leaves the policy and its ETag as they were.
LEMMA KeepStep ==
  ASSUME TypeOK, NEW p \in Processors, InstanceOK(p), KeepPolicy(p),
         fetch[p] \in {"asked", "answered"}
  PROVE  InstanceOK(p)'
<1>1. /\ fetch'[p] = "idle" /\ phase'[p] = PhaseWithout(p)
      /\ UNCHANGED <<activations, policy, etag>>
  BY DEF KeepPolicy, TypeOK
<1>2. Underway(p)' /\ Vouched(p)' /\ Origin(p)' /\ ETagOf(p)'
  BY <1>1 DEF InstanceOK, Underway, Vouched, Origin, ETagOf
<1>3. Usable(p)'
  <2>1. phase[p] # "refused"
    BY DEF InstanceOK, Underway
  <2>2. CASE phase[p] = "new" /\ policy[p] = NoDoc
    BY <1>1, <2>2 DEF PhaseWithout, InstanceOK, Usable
  <2>3. CASE phase[p] = "new" /\ policy[p] # NoDoc
    BY <1>1, <2>3 DEF InstanceOK, Usable
  <2>4. CASE phase[p] = "running"
    BY <1>1, <2>4 DEF InstanceOK, Usable
  <2> QED
    BY <2>1, <2>2, <2>3, <2>4 DEF TypeOK
<1> QED
  BY <1>2, <1>3 DEF InstanceOK

\* A fetch begins with the activation that is in force.
LEMMA BeginStep ==
  ASSUME TypeOK, NEW p \in Processors, InstanceOK(p), BeginFetch(p)
  PROVE  InstanceOK(p)'
<1>1. /\ fetch'[p] = "asked" /\ askedAt'[p] = Len(activations)
      /\ phase[p] # "refused" /\ fetch[p] = "idle"
      /\ UNCHANGED <<activations, phase, policy, etag, reply>>
  BY DEF BeginFetch, TypeOK
<1>2. Len(activations) >= 1
  BY DEF TypeOK
<1> QED
  BY <1>1, <1>2
  DEF InstanceOK, Underway, Vouched, Usable, Origin, ETagOf

\* The reply is the active policy or vouches that the ETag is its.
LEMMA AnswerStep ==
  ASSUME TypeOK, NEW p \in Processors, InstanceOK(p), HandleGetActive(p)
  PROVE  InstanceOK(p)'
<1>1. /\ fetch[p] = "asked" /\ fetch'[p] = "answered"
      /\ UNCHANGED <<activations, phase, policy, etag, askedAt>>
      /\ \/ reply'[p] = Active
         \/ /\ reply'[p] = NotModified /\ Active # NoEntry
            /\ etag[p] = Active
  BY DEF HandleGetActive, MatchesETag, TypeOK
<1>2. Underway(p)' /\ Usable(p)' /\ Origin(p)' /\ ETagOf(p)'
  BY <1>1 DEF InstanceOK, Underway, Usable, Origin, ETagOf
<1>3. ActiveSince(p, Active)'
  <2>1. Len(activations) \in askedAt[p] .. Len(activations)
    BY <1>1 DEF InstanceOK, Underway
  <2> QED
    BY <1>1, <2>1 DEF ActiveSince, Active
<1>4. Vouched(p)'
  <2>1. Active' = Active
    BY <1>1 DEF Active
  <2>2. Active \in Entry \cup {NoEntry}
    BY DEF TypeOK, Active
  <2>3. NotModified \notin Entry \cup {NoEntry}
    BY RefreshAssumption DEF RefreshAssumption
  <2>4. CASE reply'[p] = Active
    BY <1>1, <1>3, <2>1, <2>2, <2>3, <2>4 DEF Vouched
  <2>5. CASE /\ reply'[p] = NotModified /\ Active # NoEntry
             /\ etag[p] = Active
    BY <1>1, <1>3, <2>1, <2>3, <2>5 DEF Vouched
  <2> QED
    BY <1>1, <2>4, <2>5
<1> QED
  BY <1>2, <1>4 DEF InstanceOK

\* A policy that compiles is put in force: it is the one of a reply that was
\* active since the instance asked.
LEMMA SetPolicyStep ==
  ASSUME TypeOK, NEW p \in Processors, InstanceOK(p), SetPolicy(p)
  PROVE  InstanceOK(p)'
<1>1. /\ fetch[p] = "answered" /\ fetch'[p] = "compiled"
      /\ reply[p] \in Entry /\ reply[p].doc \in GoodDocs
      /\ policy'[p] = reply[p].doc
      /\ UNCHANGED <<activations, phase, etag, reply, askedAt>>
  BY DEF SetPolicy, TypeOK
<1>2. ActiveSince(p, reply[p])
  BY <1>1 DEF InstanceOK, Vouched
<1>3. Underway(p)' /\ ETagOf(p)'
  BY <1>1 DEF InstanceOK, Underway, ETagOf
<1>4. Vouched(p)'
  BY <1>1, <1>2 DEF Vouched, ActiveSince
<1>5. Usable(p)'
  <2>1. NoDoc \notin GoodDocs
    BY RefreshAssumption DEF RefreshAssumption, Docs
  <2> QED
    BY <1>1, <2>1 DEF Usable
<1>6. Origin(p)'
  <2>1. PICK i \in askedAt[p] .. Len(activations) : activations[i] = reply[p]
    BY <1>2 DEF ActiveSince
  <2>2. i \in DOMAIN activations
    BY <1>1 DEF InstanceOK, Underway, TypeOK
  <2>3. activations'[i] # NoEntry /\ activations'[i].doc = policy'[p]
    BY <1>1, <2>1, RefreshAssumption DEF RefreshAssumption
  <2> QED
    BY <1>1, <2>2, <2>3 DEF Origin
<1> QED
  BY <1>3, <1>4, <1>5, <1>6 DEF InstanceOK

\* The ETag that is remembered is that of the policy put in force before.
LEMMA SetETagStep ==
  ASSUME TypeOK, NEW p \in Processors, InstanceOK(p), SetETag(p)
  PROVE  InstanceOK(p)'
<1>1. /\ fetch[p] = "compiled" /\ fetch'[p] = "idle"
      /\ etag'[p] = reply[p] /\ phase'[p] = "running"
      /\ UNCHANGED <<activations, policy>>
  BY DEF SetETag, TypeOK
<1>2. reply[p] \in Entry /\ reply[p].doc = policy[p]
  BY <1>1 DEF InstanceOK, Vouched
<1>3. policy[p] # NoDoc
  BY <1>2, RefreshAssumption DEF RefreshAssumption, Entry
<1>4. Underway(p)' /\ Vouched(p)' /\ Origin(p)' /\ ETagOf(p)'
  BY <1>1, <1>2 DEF InstanceOK, Underway, Vouched, Origin, ETagOf
<1>5. Usable(p)'
  BY <1>1, <1>3 DEF InstanceOK, Usable
<1> QED
  BY <1>4, <1>5 DEF InstanceOK

\* Every step keeps the invariant of every instance.
LEMMA InstanceStep ==
  ASSUME IInv, [Next]_vars, NEW q \in Processors
  PROVE  InstanceOK(q)'
<1> USE DEF IInv
<1>1. ASSUME NEW v \in Versions, NEW d \in Docs, HandlePostPolicy(v, d)
      PROVE  InstanceOK(q)'
  <2>1. [version |-> v, doc |-> d] \in Entry
    BY DEF Entry
  <2> QED
    BY <1>1, <2>1, ActivationStep DEF HandlePostPolicy
<1>2. CASE Restart
  <2>1. activations[1] \in Entry \cup {NoEntry}
    BY DEF TypeOK
  <2> QED
    BY <1>2, <2>1, ActivationStep DEF Restart
<1>3. ASSUME NEW p \in Processors, Proceed(p) \/ FetchFails(p)
      PROVE  InstanceOK(q)'
  <2>1. CASE p # q
    <3>1. UNCHANGED <<activations, phase[q], fetch[q], policy[q], etag[q],
                      reply[q], askedAt[q]>>
      BY <1>3, <2>1
      DEF Proceed, BeginFetch, HandleGetActive, FetchNotModified,
          FetchRejected, SetPolicy, SetETag, FetchFails, KeepPolicy, TypeOK
    <3> QED
      BY <3>1, OtherStep
  <2>2. CASE p = q
    <3>1. ASSUME FetchNotModified(p) \/ FetchRejected(p) \/ FetchFails(p)
          PROVE  InstanceOK(p)'
      BY <3>1, KeepStep DEF FetchNotModified, FetchRejected, FetchFails
    <3> QED
      BY <1>3, <2>2, <3>1, BeginStep, AnswerStep, SetPolicyStep, SetETagStep
      DEF Proceed
  <2> QED
    BY <2>1, <2>2
<1>4. CASE UNCHANGED vars
  BY <1>4, OtherStep DEF vars, instanceVars
<1> QED
  BY <1>1, <1>2, <1>3, <1>4 DEF Next

-----------------------------------------------------------------------------

\* The invariant holds in every reachable state.
LEMMA Invariance == Spec => []IInv
<1>1. IInv /\ [Next]_vars => IInv'
  BY TypeStep, InstanceStep DEF IInv
<1> QED
  BY InitIInv, <1>1, PTL DEF Spec

\* The instances and what they exchange with the control plane keep their
\* types.
THEOREM TypeCorrect == Spec => []TypeOK
<1>1. IInv => TypeOK
  BY DEF IInv
<1> QED
  BY Invariance, <1>1, PTL

\* An instance that runs has a policy that compiles, of its own configuration
\* or active at some time: newRedactProcessor refuses to start without one, and
\* no fetch puts anything else in force.
THEOREM RunsWithGoodPolicy == Spec => []LastKnownGood
<1>1. IInv => LastKnownGood
  BY DEF IInv, InstanceOK, Usable, Origin, LastKnownGood
<1> QED
  BY Invariance, <1>1, PTL

\* The ETag sent is that of the policy in force, although setPolicy and setETag
\* are two critical sections.
THEOREM ETagOfPolicyInForce == Spec => []ETagNamesPolicy
<1>1. IInv => ETagNamesPolicy
  BY DEF IInv, InstanceOK, ETagOf, ETagNamesPolicy
<1> QED
  BY Invariance, <1>1, PTL

\* A refresh that succeeds leaves a policy in force that was active since it
\* asked, by a 304 as well, which says that the ETag sent is the active one's.
THEOREM RefreshIsFresh == Spec => SuccessMeansFresh
<1> DEFINE Fresh == \A p \in Processors :
                      SetETag(p) \/ FetchNotModified(p) => RefreshedSince(p)
<1>1. ASSUME IInv, NEW p \in Processors, SetETag(p) \/ FetchNotModified(p)
      PROVE  RefreshedSince(p)
  <2>1. PICK e : e # NoEntry /\ e.doc = policy[p] /\ ActiveSince(p, e)
    <3>1. CASE SetETag(p)
      <4>1. reply[p] \in Entry /\ reply[p].doc = policy[p]
            /\ ActiveSince(p, reply[p])
        BY <1>1, <3>1 DEF SetETag, IInv, InstanceOK, Vouched
      <4> QED
        BY <4>1, RefreshAssumption DEF RefreshAssumption
    <3>2. CASE FetchNotModified(p)
      BY <1>1, <3>2
      DEF FetchNotModified, IInv, InstanceOK, Vouched, ETagOf
    <3> QED
      BY <1>1, <3>1, <3>2
  <2>2. policy'[p] = policy[p]
    BY <1>1 DEF SetETag, FetchNotModified, KeepPolicy
  <2> QED
    BY <2>1, <2>2 DEF RefreshedSince, ActiveSince
<1>2. IInv /\ [Next]_vars => [Fresh]_vars
  BY <1>1
<1>3. Spec => [][Fresh]_vars
  BY <1>2, Invariance, PTL DEF Spec
<1> QED
  BY <1>3 DEF SuccessMeansFresh

=============================================================================
