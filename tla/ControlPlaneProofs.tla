------------------------- MODULE ControlPlaneProofs -------------------------
(***************************************************************************)
(* The policy tables, for every number of POSTs, clients, versions and     *)
(* documents.  The argument: the handler puts the document first, items    *)
(* are only ever overwritten with other documents, and a POST that is to   *)
(* put the active version, or is answered with 200, has its document among *)
(* those put (PutFirst).  What a client holds was put, and its version put *)
(* active, by POSTs that were to do so, because that is so of every value  *)
(* in the tables and of every version a client has read (Provenance).      *)
(***************************************************************************)
EXTENDS ControlPlane, TLAPS

\* A POST that got past its first put has put its document.
PutFirst ==
  \A p \in Posts : post[p].at \in {"put active", "200"} =>
    post[p].req.doc \in Range(policies[post[p].req.version])

\* A POST answered with 200 that was to activate its version has.
Activated ==
  \A p \in Posts : post[p].at = "200" /\ post[p].req.activate =>
    post[p].req.version \in Range(active)

IInv == TypeOK /\ PutFirst /\ Activated /\ ActiveHasDocument

-----------------------------------------------------------------------------

\* Appending adds one element to the range and keeps the others.
LEMMA RangeAppend ==
  ASSUME NEW S, NEW s \in Seq(S), NEW e \in S
  PROVE  Range(Append(s, e)) = Range(s) \cup {e}
<1>1. /\ DOMAIN s = 1 .. Len(s) /\ DOMAIN Append(s, e) = 1 .. Len(s) + 1
      /\ Len(s) \in Nat
      /\ \A i \in 1 .. Len(s) : Append(s, e)[i] = s[i]
      /\ Append(s, e)[Len(s) + 1] = e
  OBVIOUS
<1>2. \A x \in Range(Append(s, e)) : x \in Range(s) \cup {e}
  BY <1>1 DEF Range
<1>3. \A x \in Range(s) : x \in Range(Append(s, e))
  BY <1>1 DEF Range
<1>4. e \in Range(Append(s, e))
  BY <1>1 DEF Range
<1> QED
  BY <1>2, <1>3, <1>4

\* The empty sequence has no elements.
LEMMA RangeOfEmpty == Range(<<>>) = {}
BY DEF Range

\* A POST under way or answered carries a request.
LEMMA PostTyped ==
  ASSUME TypeOK, NEW p \in Posts, post[p].at # "not sent"
  PROVE  /\ post[p] \in PostState
         /\ post[p].req.version \in Versions /\ post[p].req.doc \in Docs
         /\ post[p].req.activate \in BOOLEAN
<1>1. post[p] \in PostState \cup {NotSent}
  BY DEF TypeOK
<1>2. NotSent.at = "not sent"
  BY DEF NotSent
<1>3. post[p] \in PostState
  BY <1>1, <1>2
<1> QED
  BY <1>3 DEF PostState, Request

\* Answering a POST moves that POST and keeps its request.
LEMMA AnswerMoves ==
  ASSUME TypeOK, NEW p \in Posts, post[p].at # "not sent",
         NEW status \in {"put active", "200", "500"}, Answer(p, status)
  PROVE  /\ post' \in [Posts -> PostState \cup {NotSent}]
         /\ post'[p].at = status /\ post'[p].req = post[p].req
         /\ \A q \in Posts \ {p} : post'[q] = post[q]
<1>1. post[p] \in PostState
  BY PostTyped
<1>2. post' = [post EXCEPT ![p] = [post[p] EXCEPT !.at = status]]
  BY DEF Answer
<1>3. [post[p] EXCEPT !.at = status] \in PostState
  BY <1>1 DEF PostState
<1>4. /\ [post[p] EXCEPT !.at = status].at = status
      /\ [post[p] EXCEPT !.at = status].req = post[p].req
  BY <1>1 DEF PostState
<1> QED
  BY <1>2, <1>3, <1>4 DEF TypeOK

\* Putting a document under a version.
LEMMA PutDocument ==
  ASSUME TypeOK, NEW v \in Versions, NEW d \in Docs,
         policies' = [policies EXCEPT ![v] = Append(@, d)]
  PROVE  /\ policies' \in [Versions -> Seq(Docs)]
         /\ \A w \in Versions : Len(policies[w]) <= Len(policies'[w])
         /\ \A w \in Versions : Range(policies[w]) \subseteq Range(policies'[w])
         /\ d \in Range(policies'[v])
<1>1. policies[v] \in Seq(Docs)
  BY DEF TypeOK
<1>2. Append(policies[v], d) \in Seq(Docs)
      /\ Len(Append(policies[v], d)) = Len(policies[v]) + 1
      /\ Len(policies[v]) \in Nat
  BY <1>1
<1>3. Range(Append(policies[v], d)) = Range(policies[v]) \cup {d}
  BY <1>1, RangeAppend
<1>4. \A w \in Versions : Len(policies[w]) \in Nat
  BY DEF TypeOK
<1>5. policies'[v] = Append(policies[v], d)
      /\ \A w \in Versions \ {v} : policies'[w] = policies[w]
  BY DEF TypeOK
<1> QED
  BY <1>2, <1>3, <1>4, <1>5 DEF TypeOK

\* Putting an active version.
LEMMA PutVersion ==
  ASSUME TypeOK, NEW v \in Versions, active' = Append(active, v)
  PROVE  /\ active' \in Seq(Versions)
         /\ activeSettled \in 0 .. Len(active')
         /\ Range(active') = Range(active) \cup {v}
<1>1. active \in Seq(Versions) /\ activeSettled \in 0 .. Len(active)
  BY DEF TypeOK
<1>2. /\ Append(active, v) \in Seq(Versions)
      /\ Len(Append(active, v)) = Len(active) + 1
      /\ Len(active) \in Nat
  BY <1>1
<1>3. activeSettled \in 0 .. Len(active) + 1
  BY <1>1, <1>2
<1>4. Range(Append(active, v)) = Range(active) \cup {v}
  BY <1>1, RangeAppend
<1> QED
  BY <1>2, <1>3, <1>4

-----------------------------------------------------------------------------

\* Initially nothing is put and nothing is sent.
LEMMA InitIInv == Init => IInv
<1> SUFFICES ASSUME Init PROVE IInv
  OBVIOUS
<1>1. NotSent.at = "not sent"
  BY DEF NotSent
<1>2. TypeOK
  BY DEF Init, TypeOK
<1>3. \A p \in Posts : post[p].at = "not sent"
  BY <1>1 DEF Init
<1>4. PutFirst /\ Activated
  BY <1>3 DEF PutFirst, Activated
<1>5. ActiveHasDocument
  BY DEF Init, ActiveHasDocument
<1> QED
  BY <1>2, <1>4, <1>5 DEF IInv

\* What a replica may return has the type of the values put.
LEMMA FoundTyped ==
  ASSUME NEW S, NEW values \in Seq(S), NEW settled \in Nat, NEW none
  PROVE  Found(values, settled, none) \subseteq S \cup {none}
<1>1. \A i \in (IF settled = 0 THEN 1 ELSE settled) .. Len(values) :
        values[i] \in S
  OBVIOUS
<1> QED
  BY <1>1 DEF Found

\* Every step keeps the types.
LEMMA TypeStep == TypeOK /\ [Next]_vars => TypeOK'
<1> SUFFICES ASSUME TypeOK, [Next]_vars PROVE TypeOK'
  OBVIOUS
<1>1. ASSUME NEW p \in Posts, NEW req \in Request, PostPolicy(p, req)
      PROVE  TypeOK'
  <2>1. [at |-> "put policy", req |-> req] \in PostState
    BY DEF PostState
  <2> QED
    BY <1>1, <2>1 DEF PostPolicy, TypeOK, tables, history, clients
<1>2. ASSUME NEW p \in Posts, PutPolicy(p) PROVE TypeOK'
  <2>1. post[p].at # "not sent"
    BY <1>2 DEF PutPolicy
  <2>2. /\ post[p].req.version \in Versions /\ post[p].req.doc \in Docs
    BY <2>1, PostTyped
  <2>3. post' \in [Posts -> PostState \cup {NotSent}]
    <3>1. (IF post[p].req.activate THEN "put active" ELSE "200")
            \in {"put active", "200", "500"}
      OBVIOUS
    <3> QED
      BY <1>2, <2>1, <3>1, AnswerMoves DEF PutPolicy
  <2>4. /\ policies' \in [Versions -> Seq(Docs)]
        /\ \A w \in Versions : Len(policies[w]) <= Len(policies'[w])
    BY <1>2, <2>2, PutDocument DEF PutPolicy, StoreDocument
  <2>5. \A w \in Versions : policiesSettled[w] <= Len(policies'[w])
    <3>1. \A w \in Versions :
            Len(policies[w]) \in Nat /\ Len(policies'[w]) \in Nat
      BY <2>4 DEF TypeOK
    <3> QED
      BY <2>4, <3>1 DEF TypeOK
  <2> QED
    BY <1>2, <2>3, <2>4, <2>5 DEF PutPolicy, StoreDocument, TypeOK, history, clients
<1>3. ASSUME NEW p \in Posts, PutActive(p) PROVE TypeOK'
  <2>1. post[p].at # "not sent"
    BY <1>3 DEF PutActive
  <2>2. post[p].req.version \in Versions
    BY <2>1, PostTyped
  <2>3. post' \in [Posts -> PostState \cup {NotSent}]
    BY <1>3, <2>1, AnswerMoves DEF PutActive
  <2>4. active' \in Seq(Versions) /\ activeSettled \in 0 .. Len(active')
    BY <1>3, <2>2, PutVersion DEF PutActive, ActivateVersion
  <2> QED
    BY <1>3, <2>3, <2>4 DEF PutActive, ActivateVersion, TypeOK, history, clients
<1>4. ASSUME NEW p \in Posts, PutFails(p) PROVE TypeOK'
  <2>1. post[p].at # "not sent"
    BY <1>4 DEF PutFails
  <2>2. /\ post[p].req.version \in Versions /\ post[p].req.doc \in Docs
    BY <2>1, PostTyped
  <2>3. post' \in [Posts -> PostState \cup {NotSent}]
    BY <1>4, <2>1, AnswerMoves DEF PutFails
  <2>4. CASE UNCHANGED <<policies, active, history>>
    BY <1>4, <2>3, <2>4 DEF PutFails, TypeOK, history, clients
  <2>5. CASE StoreDocument(p)
    <3>1. /\ policies' \in [Versions -> Seq(Docs)]
          /\ \A w \in Versions : Len(policies[w]) <= Len(policies'[w])
      BY <2>2, <2>5, PutDocument DEF StoreDocument
    <3>2. \A w \in Versions :
            Len(policies[w]) \in Nat /\ Len(policies'[w]) \in Nat
      BY <3>1 DEF TypeOK
    <3>3. \A w \in Versions : policiesSettled[w] <= Len(policies'[w])
      BY <3>1, <3>2 DEF TypeOK
    <3> QED
      BY <1>4, <2>3, <2>5, <3>1, <3>3 DEF PutFails, StoreDocument, TypeOK, history, clients
  <2>6. CASE ActivateVersion(p)
    <3>1. active' \in Seq(Versions) /\ activeSettled \in 0 .. Len(active')
      BY <2>2, <2>6, PutVersion DEF ActivateVersion
    <3> QED
      BY <1>4, <2>3, <2>6, <3>1 DEF PutFails, ActivateVersion, TypeOK, history, clients
  <2> QED
    BY <1>4, <2>4, <2>5, <2>6 DEF PutFails
<1>5. ASSUME NEW v \in Versions, SettlePolicy(v) PROVE TypeOK'
  <2>1. Len(policies[v]) \in Nat
    BY DEF TypeOK
  <2> QED
    BY <1>5, <2>1 DEF SettlePolicy, TypeOK, history, clients
<1>6. CASE SettleActive
  <2>1. Len(active) \in Nat
    BY DEF TypeOK
  <2> QED
    BY <1>6, <2>1 DEF SettleActive, TypeOK, history, clients
<1>7. ASSUME NEW g \in Gets, ReadActive(g) PROVE TypeOK'
  <2>1. PICK v \in Found(active, activeSettled, NoVersion) :
          seenVersion' = [seenVersion EXCEPT ![g] = v]
    BY <1>7 DEF ReadActive
  <2>2. v \in Versions \cup {NoVersion}
    <3>1. activeSettled \in Nat
      BY DEF TypeOK
    <3> QED
      BY <2>1, <3>1, FoundTyped DEF TypeOK
  <2> QED
    BY <1>7, <2>1, <2>2 DEF ReadActive, TypeOK, tables, history
<1>8. ASSUME NEW g \in Gets, ReadPolicy(g) PROVE TypeOK'
  <2> DEFINE v == seenVersion[g]
  <2>1. v \in Versions
    BY <1>8 DEF ReadPolicy, TypeOK
  <2>2. PICK d \in Found(policies[v], policiesSettled[v], NoDoc) :
          held' = [held EXCEPT ![g] =
                     IF d = NoDoc THEN @ ELSE [version |-> v, doc |-> d]]
    BY <1>8 DEF ReadPolicy
  <2>3. d \in Docs \cup {NoDoc}
    <3>1. policiesSettled[v] \in Nat /\ policies[v] \in Seq(Docs)
      BY <2>1 DEF TypeOK
    <3> QED
      BY <2>2, <3>1, FoundTyped
  <2>4. held' \in [Gets -> Entry \cup {NoEntry}]
    BY <2>1, <2>2, <2>3 DEF TypeOK, Entry
  <2> QED
    BY <1>8, <2>4 DEF ReadPolicy, TypeOK, tables, history
<1>9. ASSUME NEW g \in Gets, ReadFails(g) PROVE TypeOK'
  BY <1>9 DEF ReadFails, TypeOK, tables, history
<1>10. CASE UNCHANGED vars
  BY <1>10 DEF vars, tables, history, clients, TypeOK
<1> QED
  BY <1>1, <1>2, <1>3, <1>4, <1>5, <1>6, <1>7, <1>8, <1>9, <1>10 DEF Next

-----------------------------------------------------------------------------

\* A POST that got past its first put keeps its document in the table, and one
\* gets there only by putting it.
LEMMA PutFirstStep == TypeOK /\ PutFirst /\ [Next]_vars => PutFirst'
<1> SUFFICES ASSUME TypeOK, PutFirst, [Next]_vars,
                    NEW q \in Posts, post'[q].at \in {"put active", "200"}
             PROVE  post'[q].req.doc \in Range(policies'[post'[q].req.version])
  BY DEF PutFirst
<1> DEFINE Done(p) == post[p].at \in {"put active", "200"}
           Kept == Done(q) =>
             post[q].req.doc \in Range(policies[post[q].req.version])
<1>1. Kept
  BY DEF PutFirst
<1>2. ASSUME NEW p \in Posts, NEW req \in Request, PostPolicy(p, req)
      PROVE  Done(q) /\ UNCHANGED <<post[q], policies>>
  <2>1. post'[p].at = "put policy"
    BY <1>2 DEF PostPolicy, TypeOK
  <2>2. p # q
    BY <2>1
  <2> QED
    BY <1>2, <2>2 DEF PostPolicy, TypeOK, tables
<1>3. ASSUME NEW p \in Posts, PutPolicy(p) \/ PutFails(p),
             NEW v \in Versions, NEW d \in Docs,
             v = post[p].req.version, d = post[p].req.doc,
             policies' = [policies EXCEPT ![v] = Append(@, d)],
             post'[p].req = post[p].req,
             \A r \in Posts \ {p} : post'[r] = post[r]
      PROVE  post'[q].req.doc \in Range(policies'[post'[q].req.version])
  <2>1. /\ \A w \in Versions : Range(policies[w]) \subseteq Range(policies'[w])
        /\ d \in Range(policies'[v])
    BY <1>3, PutDocument
  <2>2. CASE q = p
    BY <1>3, <2>1, <2>2
  <2>3. CASE q # p
    <3>1. post'[q] = post[q]
      BY <1>3, <2>3
    <3>2. post[q].req.version \in Versions
      BY <3>1, PostTyped
    <3> QED
      BY <1>1, <2>1, <3>1, <3>2
  <2> QED
    BY <2>2, <2>3
<1>4. ASSUME NEW p \in Posts, PutPolicy(p)
      PROVE  post'[q].req.doc \in Range(policies'[post'[q].req.version])
  <2>1. post[p].at # "not sent"
    BY <1>4 DEF PutPolicy
  <2>2. /\ post'[p].req = post[p].req
        /\ \A r \in Posts \ {p} : post'[r] = post[r]
    <3>1. (IF post[p].req.activate THEN "put active" ELSE "200")
            \in {"put active", "200", "500"}
      OBVIOUS
    <3> QED
      BY <1>4, <2>1, <3>1, AnswerMoves DEF PutPolicy
  <2> QED
    BY <1>3, <1>4, <2>1, <2>2, PostTyped DEF PutPolicy, StoreDocument
<1>5. ASSUME NEW p \in Posts, PutActive(p)
      PROVE  Done(q) /\ post'[q].req = post[q].req /\ UNCHANGED policies
  <2>1. post[p].at # "not sent"
    BY <1>5 DEF PutActive
  <2>2. /\ post'[p].req = post[p].req
        /\ \A r \in Posts \ {p} : post'[r] = post[r]
    BY <1>5, <2>1, AnswerMoves DEF PutActive
  <2> QED
    BY <1>5, <2>2 DEF PutActive, ActivateVersion
<1>6. ASSUME NEW p \in Posts, PutFails(p)
      PROVE  post'[q].req.doc \in Range(policies'[post'[q].req.version])
  <2>1. post[p].at # "not sent"
    BY <1>6 DEF PutFails
  <2>2. /\ post'[p].at = "500" /\ post'[p].req = post[p].req
        /\ \A r \in Posts \ {p} : post'[r] = post[r]
    BY <1>6, <2>1, AnswerMoves DEF PutFails
  <2>3. post'[q] = post[q] /\ Done(q)
    BY <2>2
  <2>4. CASE UNCHANGED policies
    BY <1>1, <2>3, <2>4
  <2>5. CASE policies' = [policies EXCEPT ![post[p].req.version] =
                            Append(@, post[p].req.doc)]
    BY <1>3, <1>6, <2>1, <2>2, <2>5, PostTyped
  <2> QED
    BY <1>6, <2>4, <2>5 DEF PutFails, StoreDocument, ActivateVersion
<1>7. ASSUME UNCHANGED <<post, policies>>
      PROVE  post'[q].req.doc \in Range(policies'[post'[q].req.version])
  BY <1>1, <1>7
<1>8. ASSUME NEW v \in Versions, SettlePolicy(v)
      PROVE  UNCHANGED <<post, policies>>
  BY <1>8 DEF SettlePolicy
<1>9. ASSUME SettleActive PROVE UNCHANGED <<post, policies>>
  BY <1>9 DEF SettleActive
<1>10. ASSUME NEW g \in Gets, ReadActive(g) \/ ReadPolicy(g) \/ ReadFails(g)
       PROVE  UNCHANGED <<post, policies>>
  BY <1>10 DEF ReadActive, ReadPolicy, ReadFails, tables
<1>11. ASSUME UNCHANGED vars PROVE UNCHANGED <<post, policies>>
  BY <1>11 DEF vars, tables
<1> QED
  BY <1>1, <1>2, <1>4, <1>5, <1>6, <1>7, <1>8, <1>9, <1>10, <1>11 DEF Next

\* A POST that was to activate its version is answered with 200 only by the
\* step that puts the active version, and no step takes it out.
LEMMA ActivatedStep == TypeOK /\ Activated /\ [Next]_vars => Activated'
<1> SUFFICES ASSUME TypeOK, Activated, [Next]_vars,
                    NEW q \in Posts, post'[q].at = "200", post'[q].req.activate
             PROVE  post'[q].req.version \in Range(active')
  BY DEF Activated
<1> DEFINE Before == post[q].at = "200" /\ post[q].req.activate
<1>1. Before => post[q].req.version \in Range(active)
  BY DEF Activated
<1>2. ASSUME NEW p \in Posts, NEW req \in Request, PostPolicy(p, req)
      PROVE  UNCHANGED <<post[q], active>>
  <2>1. post'[p].at = "put policy"
    BY <1>2 DEF PostPolicy, TypeOK
  <2>2. p # q
    BY <2>1
  <2> QED
    BY <1>2, <2>2 DEF PostPolicy, TypeOK, tables
<1>3. ASSUME NEW p \in Posts, PutPolicy(p) PROVE UNCHANGED <<post[q], active>>
  <2>1. post[p].at # "not sent"
    BY <1>3 DEF PutPolicy
  <2> DEFINE status == IF post[p].req.activate THEN "put active" ELSE "200"
  <2>2. status \in {"put active", "200", "500"}
    OBVIOUS
  <2>3. /\ post'[p].at = status /\ post'[p].req = post[p].req
        /\ \A r \in Posts \ {p} : post'[r] = post[r]
    BY <1>3, <2>1, <2>2, AnswerMoves DEF PutPolicy
  <2>4. q # p
    BY <2>3
  <2> QED
    BY <1>3, <2>3, <2>4 DEF PutPolicy, StoreDocument
<1>4. ASSUME NEW p \in Posts, PutActive(p)
      PROVE  post'[q].req.version \in Range(active')
  <2>1. post[p].at # "not sent"
    BY <1>4 DEF PutActive
  <2>2. /\ post'[p].req = post[p].req
        /\ \A r \in Posts \ {p} : post'[r] = post[r]
    BY <1>4, <2>1, AnswerMoves DEF PutActive
  <2>3. Range(active') = Range(active) \cup {post[p].req.version}
    BY <1>4, <2>1, PostTyped, PutVersion DEF PutActive, ActivateVersion
  <2> QED
    BY <1>1, <2>2, <2>3
<1>5. ASSUME NEW p \in Posts, PutFails(p)
      PROVE  post'[q].req.version \in Range(active')
  <2>1. post[p].at # "not sent"
    BY <1>5 DEF PutFails
  <2>2. /\ post'[p].at = "500"
        /\ \A r \in Posts \ {p} : post'[r] = post[r]
    BY <1>5, <2>1, AnswerMoves DEF PutFails
  <2>3. post'[q] = post[q]
    BY <2>2
  <2>4. Range(active) \subseteq Range(active')
    <3>1. active' = Append(active, post[p].req.version)
            => Range(active) \subseteq Range(active')
      BY <2>1, PostTyped, PutVersion
    <3> QED
      BY <1>5, <3>1 DEF PutFails, StoreDocument, ActivateVersion
  <2> QED
    BY <1>1, <2>3, <2>4
<1>6. ASSUME NEW v \in Versions, SettlePolicy(v)
      PROVE  UNCHANGED <<post, active>>
  BY <1>6 DEF SettlePolicy
<1>7. ASSUME SettleActive PROVE UNCHANGED <<post, active>>
  BY <1>7 DEF SettleActive
<1>8. ASSUME NEW g \in Gets, ReadActive(g) \/ ReadPolicy(g) \/ ReadFails(g)
      PROVE  UNCHANGED <<post, active>>
  BY <1>8 DEF ReadActive, ReadPolicy, ReadFails, tables
<1>9. ASSUME UNCHANGED vars PROVE UNCHANGED <<post, active>>
  BY <1>9 DEF vars, tables
<1> QED
  BY <1>1, <1>2, <1>3, <1>4, <1>5, <1>6, <1>7, <1>8, <1>9 DEF Next

-----------------------------------------------------------------------------

\* A version that has a document when it is made active keeps one.
LEMMA GrownHasDocument ==
  ASSUME TypeOK, ActiveHasDocument,
         \/ UNCHANGED policies
         \/ \E v \in Versions, d \in Docs :
              policies' = [policies EXCEPT ![v] = Append(@, d)]
  PROVE  \A i \in DOMAIN active : policies'[active[i]] # <<>>
<1>1. CASE UNCHANGED policies
  BY <1>1 DEF ActiveHasDocument
<1>2. ASSUME NEW v \in Versions, NEW d \in Docs,
             policies' = [policies EXCEPT ![v] = Append(@, d)]
      PROVE  \A i \in DOMAIN active : policies'[active[i]] # <<>>
  <2>1. /\ policies' \in [Versions -> Seq(Docs)]
        /\ \A w \in Versions : Len(policies[w]) <= Len(policies'[w])
    BY <1>2, PutDocument
  <2>2. \A w \in Versions : policies[w] # <<>> => policies'[w] # <<>>
    <3> SUFFICES ASSUME NEW w \in Versions, policies[w] # <<>>
                 PROVE  policies'[w] # <<>>
      OBVIOUS
    <3>1. policies[w] \in Seq(Docs) /\ policies'[w] \in Seq(Docs)
      BY <2>1 DEF TypeOK
    <3>2. Len(policies[w]) > 0
      BY <3>1
    <3>3. Len(policies'[w]) > 0
      BY <2>1, <3>1, <3>2
    <3> QED
      BY <3>1, <3>3
  <2>3. \A i \in DOMAIN active : active[i] \in Versions
    BY DEF TypeOK
  <2> QED
    BY <2>1, <2>2, <2>3 DEF ActiveHasDocument
<1> QED
  BY <1>1, <1>2

\* A version of which some POST has put the document may be made active.
LEMMA PutActiveHasDocument ==
  ASSUME TypeOK, PutFirst, ActiveHasDocument, NEW p \in Posts,
         post[p].at = "put active",
         active' = Append(active, post[p].req.version), UNCHANGED policies
  PROVE  ActiveHasDocument'
<1>1. PICK v \in Versions : v = post[p].req.version
  BY PostTyped
<1>2. policies[v] # <<>>
  <2>1. post[p].req.doc \in Range(policies[v])
    BY <1>1 DEF PutFirst
  <2> QED
    BY <2>1, RangeOfEmpty
<1>3. Range(active') = Range(active) \cup {v}
  BY <1>1, PutVersion
<1>4. \A w \in Range(active) : policies[w] # <<>>
  BY DEF ActiveHasDocument, Range
<1>5. \A w \in Range(active') : policies'[w] # <<>>
  BY <1>2, <1>3, <1>4
<1>6. \A i \in DOMAIN active' : active'[i] \in Range(active')
  BY DEF Range
<1> QED
  BY <1>5, <1>6 DEF ActiveHasDocument

\* A version that is made active has a document, and none is ever taken away.
LEMMA ActiveStep ==
  TypeOK /\ PutFirst /\ ActiveHasDocument /\ [Next]_vars => ActiveHasDocument'
<1> SUFFICES ASSUME TypeOK, PutFirst, ActiveHasDocument, [Next]_vars
             PROVE  ActiveHasDocument'
  OBVIOUS
<1>1. ASSUME NEW p \in Posts, NEW req \in Request, PostPolicy(p, req)
      PROVE  UNCHANGED <<policies, active>>
  BY <1>1 DEF PostPolicy, tables
<1>2. ASSUME NEW p \in Posts, PutPolicy(p) PROVE ActiveHasDocument'
  <2>1. post[p].at # "not sent"
    BY <1>2 DEF PutPolicy
  <2>2. \A i \in DOMAIN active : policies'[active[i]] # <<>>
    BY <1>2, <2>1, PostTyped, GrownHasDocument DEF PutPolicy, StoreDocument
  <2> QED
    BY <1>2, <2>2 DEF PutPolicy, StoreDocument, ActiveHasDocument
<1>3. ASSUME NEW p \in Posts, PutActive(p) PROVE ActiveHasDocument'
  BY <1>3, PutActiveHasDocument DEF PutActive, ActivateVersion
<1>4. ASSUME NEW p \in Posts, PutFails(p) PROVE ActiveHasDocument'
  <2>1. post[p].at # "not sent"
    BY <1>4 DEF PutFails
  <2>2. CASE UNCHANGED <<policies, active>>
    BY <2>2 DEF ActiveHasDocument
  <2>3. CASE StoreDocument(p)
    <3>1. \A i \in DOMAIN active : policies'[active[i]] # <<>>
      BY <2>1, <2>3, PostTyped, GrownHasDocument DEF StoreDocument
    <3> QED
      BY <2>3, <3>1 DEF StoreDocument, ActiveHasDocument
  <2>4. CASE post[p].at = "put active" /\ ActivateVersion(p)
    BY <2>4, PutActiveHasDocument DEF ActivateVersion
  <2> QED
    BY <1>4, <2>2, <2>3, <2>4 DEF PutFails
<1>5. ASSUME NEW v \in Versions, SettlePolicy(v)
      PROVE  UNCHANGED <<policies, active>>
  BY <1>5 DEF SettlePolicy
<1>6. ASSUME SettleActive PROVE UNCHANGED <<policies, active>>
  BY <1>6 DEF SettleActive
<1>7. ASSUME NEW g \in Gets, ReadActive(g) \/ ReadPolicy(g) \/ ReadFails(g)
      PROVE  UNCHANGED <<policies, active>>
  BY <1>7 DEF ReadActive, ReadPolicy, ReadFails, tables
<1>8. ASSUME UNCHANGED vars PROVE UNCHANGED <<policies, active>>
  BY <1>8 DEF vars, tables
<1>9. ASSUME UNCHANGED <<policies, active>> PROVE ActiveHasDocument'
  BY <1>9 DEF ActiveHasDocument
<1> QED
  BY <1>1, <1>2, <1>3, <1>4, <1>5, <1>6, <1>7, <1>8, <1>9 DEF Next

-----------------------------------------------------------------------------

\* The invariant holds in every reachable state.
LEMMA Invariance == Spec => []IInv
<1>1. IInv /\ [Next]_vars => IInv'
  BY TypeStep, PutFirstStep, ActivatedStep, ActiveStep DEF IInv
<1> QED
  BY InitIInv, <1>1, PTL DEF Spec

\* The tables, the handlers and the clients keep their types.
THEOREM TypeCorrect == Spec => []TypeOK
<1>1. IInv => TypeOK
  BY DEF IInv
<1> QED
  BY Invariance, <1>1, PTL

\* However many POSTs run at once and wherever they fail, a version is active
\* only when its document is there, as handlePostPolicy puts it first.
THEOREM ActiveIsServable == Spec => []ActiveHasDocument
<1>1. IInv => ActiveHasDocument
  BY DEF IInv
<1> QED
  BY Invariance, <1>1, PTL

\* A POST answered with 200 has put its document and, if it was asked to, the
\* active version.
THEOREM AnsweredPostIsWritten == Spec => []AnsweredMeansWritten
<1>1. IInv => AnsweredMeansWritten
  BY DEF IInv, PutFirst, Activated, AnsweredMeansWritten
<1> QED
  BY Invariance, <1>1, PTL

-----------------------------------------------------------------------------
(* Where what a client holds comes from.  A request keeps what it asked for  *)
(* once it is sent (SentStays); every document in a table was put there by a *)
(* POST of it, and every version in one, or read from one, by a POST that    *)
(* was to activate it (Provenance).                                          *)

Sent(p, v) == post[p] # NotSent /\ post[p].req.version = v

\* Some POST has put the document under the version, some POST that was to
\* activate the version has put it active.
PostedAs(v, d) == \E p \in stored : Sent(p, v) /\ post[p].req.doc = d
ActivatedAs(v) == \E p \in activated : Sent(p, v) /\ post[p].req.activate

\* Only a POST that was to activate its version gets to its second put.
SecondPut ==
  \A p \in Posts : post[p].at = "put active" => post[p].req.activate

Provenance ==
  /\ \A v \in Versions : \A d \in Range(policies[v]) : PostedAs(v, d)
  /\ \A v \in Range(active) : ActivatedAs(v)
  /\ \A g \in Gets : seenVersion[g] # NoVersion => ActivatedAs(seenVersion[g])

\* No step changes what a POST that was sent has asked for.
LEMMA SentStays ==
  ASSUME TypeOK, [Next]_vars, NEW p \in Posts, post[p] # NotSent
  PROVE  post'[p] # NotSent /\ post'[p].req = post[p].req
<1>1. NotSent.at = "not sent"
  BY DEF NotSent
<1>2. ASSUME NEW q \in Posts, NEW status \in {"put active", "200", "500"},
             post[q].at # "not sent", Answer(q, status)
      PROVE  post'[p] # NotSent /\ post'[p].req = post[p].req
  <2>1. /\ post'[q].at = status /\ post'[q].req = post[q].req
        /\ \A r \in Posts \ {q} : post'[r] = post[r]
    BY <1>2, AnswerMoves
  <2> QED
    BY <1>1, <2>1
<1>3. ASSUME NEW q \in Posts, NEW req \in Request, PostPolicy(q, req)
      PROVE  UNCHANGED post[p]
  BY <1>3 DEF PostPolicy, TypeOK
<1>4. ASSUME NEW q \in Posts, PutPolicy(q) \/ PutActive(q) \/ PutFails(q)
      PROVE  post'[p] # NotSent /\ post'[p].req = post[p].req
  <2>1. post[q].at # "not sent"
    BY <1>4 DEF PutPolicy, PutActive, PutFails
  <2>2. \E status \in {"put active", "200", "500"} : Answer(q, status)
    BY <1>4 DEF PutPolicy, PutActive, PutFails
  <2> QED
    BY <1>2, <2>1, <2>2
<1>5. CASE UNCHANGED post
  BY <1>5
<1> QED
  BY <1>3, <1>4, <1>5
  DEF Next, vars, tables, clients, SettlePolicy, SettleActive, ReadActive, ReadPolicy,
      ReadFails

\* No step forgets that a POST has put something.
LEMMA HistoryGrows ==
  ASSUME TypeOK, [Next]_vars
  PROVE  /\ stored \subseteq stored' /\ stored' \subseteq Posts
         /\ activated \subseteq activated' /\ activated' \subseteq Posts
<1>1. stored' \subseteq Posts /\ activated' \subseteq Posts
  BY TypeStep DEF TypeOK
<1>2. ASSUME NEW p \in Posts, PutPolicy(p) \/ PutActive(p) \/ PutFails(p)
      PROVE  stored \subseteq stored' /\ activated \subseteq activated'
  BY <1>2 DEF PutPolicy, PutActive, PutFails, StoreDocument, ActivateVersion, history
<1>3. CASE UNCHANGED history
  BY <1>1, <1>3 DEF history
<1> QED
  BY <1>1, <1>2, <1>3
  DEF Next, vars, tables, PostPolicy, SettlePolicy, SettleActive, ReadActive, ReadPolicy,
      ReadFails

\* So what was put stays put.
LEMMA PostedStays ==
  ASSUME TypeOK, [Next]_vars
  PROVE  /\ \A p \in Posts, v \in Versions : Sent(p, v) => Sent(p, v)'
         /\ \A v \in Versions, d \in Docs : PostedAs(v, d) => PostedAs(v, d)'
         /\ \A v \in Versions : ActivatedAs(v) => ActivatedAs(v)'
<1>1. \A p \in Posts : post[p] # NotSent =>
        post'[p] # NotSent /\ post'[p].req = post[p].req
  BY SentStays
<1>2. /\ stored \subseteq stored' /\ stored \subseteq Posts
      /\ activated \subseteq activated' /\ activated \subseteq Posts
  BY HistoryGrows DEF TypeOK
<1> QED
  BY <1>1, <1>2 DEF Sent, PostedAs, ActivatedAs

\* Only the first put leads to the second, and only if it is asked for.
LEMMA SecondPutStep == TypeOK /\ SecondPut /\ [Next]_vars => SecondPut'
<1> SUFFICES ASSUME TypeOK, SecondPut, [Next]_vars, NEW q \in Posts,
                    post'[q].at = "put active"
             PROVE  post'[q].req.activate
  BY DEF SecondPut
<1>1. post[q].at = "put active" => post[q].req.activate
  BY DEF SecondPut
<1>2. ASSUME NEW p \in Posts, NEW req \in Request, PostPolicy(p, req)
      PROVE  post'[q].req.activate
  BY <1>1, <1>2 DEF PostPolicy, TypeOK
<1>3. ASSUME NEW p \in Posts, NEW status \in {"put active", "200", "500"},
             post[p].at # "not sent", Answer(p, status),
             status = "put active" => post[p].req.activate
      PROVE  post'[q].req.activate
  <2>1. /\ post'[p].at = status /\ post'[p].req = post[p].req
        /\ \A r \in Posts \ {p} : post'[r] = post[r]
    BY <1>3, AnswerMoves
  <2> QED
    BY <1>1, <1>3, <2>1
<1>4. ASSUME NEW p \in Posts, PutPolicy(p) \/ PutActive(p) \/ PutFails(p)
      PROVE  post'[q].req.activate
  <2>1. post[p].at # "not sent"
    BY <1>4 DEF PutPolicy, PutActive, PutFails
  <2>2. \E status \in {"put active", "200", "500"} :
          Answer(p, status) /\ (status = "put active" => post[p].req.activate)
    BY <1>4 DEF PutPolicy, PutActive, PutFails
  <2> QED
    BY <1>3, <2>1, <2>2
<1>5. CASE UNCHANGED post
  BY <1>1, <1>5
<1> QED
  BY <1>2, <1>4, <1>5
  DEF Next, vars, tables, clients, SettlePolicy, SettleActive, ReadActive, ReadPolicy,
      ReadFails

\* A read finds nothing that was not put.
LEMMA FoundWasPut ==
  ASSUME NEW S, NEW values \in Seq(S), NEW settled \in Nat, NEW none,
         NEW x \in Found(values, settled, none), x # none
  PROVE  x \in Range(values)
BY DEF Found, Range

\* What a put adds to a table was asked for by its POST, which is on record.
LEMMA TablesStep ==
  ASSUME TypeOK, SecondPut, Provenance, [Next]_vars
  PROVE  /\ \A v \in Versions : \A d \in Range(policies'[v]) : PostedAs(v, d)'
         /\ \A v \in Range(active') : ActivatedAs(v)'
<1> DEFINE Documents == \A v \in Versions : \A d \in Range(policies'[v]) : PostedAs(v, d)'
           Activations == \A v \in Range(active') : ActivatedAs(v)'
<1>1. /\ \A v \in Versions : Range(policies[v]) \subseteq Docs
      /\ Range(active) \subseteq Versions
  BY DEF TypeOK, Range
<1>2. UNCHANGED policies => Documents
  BY <1>1, PostedStays DEF Provenance
<1>3. UNCHANGED active => Activations
  BY <1>1, PostedStays DEF Provenance
<1>4. ASSUME NEW p \in Posts, post[p].at # "not sent",
             StoreDocument(p)
      PROVE  Documents
  <2>1. PICK v \in Versions, d \in Docs : v = post[p].req.version /\ d = post[p].req.doc
    BY <1>4, PostTyped
  <2>2. Range(policies'[v]) = Range(policies[v]) \cup {d}
        /\ \A w \in Versions \ {v} : policies'[w] = policies[w]
    <3>1. policies[v] \in Seq(Docs) /\ policies'[v] = Append(policies[v], d)
      BY <1>4, <2>1 DEF StoreDocument, TypeOK
    <3>2. Range(policies'[v]) = Range(policies[v]) \cup {d}
      BY <3>1, RangeAppend
    <3>3. \A w \in Versions \ {v} : policies'[w] = policies[w]
      BY <1>4, <2>1 DEF StoreDocument, TypeOK
    <3> QED
      BY <3>2, <3>3
  <2>3. PostedAs(v, d)'
    <3>1. NotSent.at = "not sent"
      BY DEF NotSent
    <3>2. post[p] # NotSent
      BY <1>4, <3>1
    <3>3. post'[p] # NotSent /\ post'[p].req = post[p].req
      BY <3>2, SentStays
    <3>4. p \in stored'
      BY <1>4 DEF StoreDocument
    <3> QED
      BY <2>1, <3>3, <3>4 DEF PostedAs, Sent
  <2> QED
    BY <1>1, <2>2, <2>3, PostedStays DEF Provenance
<1>5. ASSUME NEW p \in Posts, post[p].at = "put active", ActivateVersion(p)
      PROVE  Activations
  <2>1. PICK v \in Versions : v = post[p].req.version
    BY <1>5, PostTyped
  <2>2. Range(active') = Range(active) \cup {v}
    BY <1>5, <2>1, PutVersion DEF ActivateVersion
  <2>3. ActivatedAs(v)'
    <3>1. NotSent.at = "not sent"
      BY DEF NotSent
    <3>2. post[p] # NotSent
      BY <1>5, <3>1
    <3>3. post'[p] # NotSent /\ post'[p].req = post[p].req
      BY <3>2, SentStays
    <3>4. p \in activated'
      BY <1>5 DEF ActivateVersion
    <3>5. post[p].req.activate
      BY <1>5 DEF SecondPut
    <3> QED
      BY <2>1, <3>3, <3>4, <3>5 DEF ActivatedAs, Sent
  <2> QED
    BY <1>1, <2>1, <2>2, <2>3, PostedStays DEF Provenance
<1>6. ASSUME NEW p \in Posts, PutPolicy(p) \/ PutActive(p) \/ PutFails(p)
      PROVE  Documents /\ Activations
  <2>1. CASE post[p].at = "put policy" /\ StoreDocument(p)
    BY <1>3, <1>4, <2>1 DEF StoreDocument
  <2>2. CASE post[p].at = "put active" /\ ActivateVersion(p)
    BY <1>2, <1>5, <2>2 DEF ActivateVersion
  <2>3. CASE UNCHANGED <<policies, active>>
    BY <1>2, <1>3, <2>3
  <2> QED
    BY <1>6, <2>1, <2>2, <2>3 DEF PutPolicy, PutActive, PutFails
<1>7. CASE UNCHANGED <<policies, active>>
  BY <1>2, <1>3, <1>7
<1> QED
  BY <1>6, <1>7
  DEF Next, vars, tables, clients, PostPolicy, SettlePolicy, SettleActive, ReadActive,
      ReadPolicy, ReadFails

LEMMA ProvenanceStep ==
  TypeOK /\ SecondPut /\ Provenance /\ [Next]_vars => Provenance'
<1> SUFFICES ASSUME TypeOK, SecondPut, Provenance, [Next]_vars,
                    NEW g \in Gets, NEW v, v = seenVersion'[g], v # NoVersion
             PROVE  ActivatedAs(v)'
  BY TablesStep DEF Provenance
<1>1. ASSUME v = seenVersion[g] PROVE ActivatedAs(v)'
  <2>1. v \in Versions /\ ActivatedAs(v)
    BY <1>1 DEF Provenance, TypeOK
  <2> QED
    BY <2>1, PostedStays
<1>2. ASSUME NEW c \in Gets, ReadActive(c) PROVE ActivatedAs(v)'
  <2>1. CASE c = g
    <3>1. v \in Found(active, activeSettled, NoVersion)
      BY <1>2, <2>1 DEF ReadActive, TypeOK
    <3>2. v \in Range(active)
      BY <3>1, FoundWasPut DEF TypeOK
    <3>3. v \in Versions /\ ActivatedAs(v)
      BY <3>2 DEF Provenance, TypeOK, Range
    <3> QED
      BY <3>3, PostedStays
  <2> QED
    BY <1>1, <1>2, <2>1 DEF ReadActive, TypeOK
<1>3. ASSUME NEW c \in Gets, ReadPolicy(c) \/ ReadFails(c) PROVE ActivatedAs(v)'
  BY <1>1, <1>3 DEF ReadPolicy, ReadFails, TypeOK
<1>4. CASE UNCHANGED seenVersion
  BY <1>1, <1>4
<1> QED
  BY <1>2, <1>3, <1>4
  DEF Next, vars, tables, clients, PostPolicy, PutPolicy, PutActive, PutFails, SettlePolicy,
      SettleActive

\* What ServedAsPosted says of one entry.
Served(entry) ==
  PostedAs(entry.version, entry.doc) /\ ActivatedAs(entry.version)

Delivered == \A g \in Gets : held[g] # NoEntry => Served(held[g])

\* A client that reads a document under a version it has read to be active.
LEMMA DeliveredStep ==
  TypeOK /\ Provenance /\ Delivered /\ [Next]_vars => Delivered'
<1> SUFFICES ASSUME TypeOK, Provenance, Delivered, [Next]_vars,
                    NEW g \in Gets, NEW entry, entry = held'[g], entry # NoEntry
             PROVE  Served(entry)'
  BY DEF Delivered, Served
<1>1. ASSUME NEW e \in Entry, Served(e) PROVE Served(e)'
  <2>1. e.version \in Versions /\ e.doc \in Docs
    BY DEF Entry
  <2> QED
    BY <1>1, <2>1, PostedStays DEF Served
<1>2. ASSUME entry = held[g] PROVE Served(entry)'
  <2>1. entry \in Entry /\ Served(entry)
    BY <1>2 DEF Delivered, TypeOK
  <2> QED
    BY <1>1, <2>1
<1>3. ASSUME NEW c \in Gets, ReadPolicy(c) PROVE Served(entry)'
  <2>1. PICK v \in Versions : v = seenVersion[c] /\ ActivatedAs(v)
    BY <1>3 DEF ReadPolicy, TypeOK, Provenance
  <2>2. PICK d \in Found(policies[v], policiesSettled[v], NoDoc) :
          held' = [held EXCEPT ![c] =
                     IF d = NoDoc THEN @ ELSE [version |-> v, doc |-> d]]
    BY <1>3, <2>1 DEF ReadPolicy
  <2>3. CASE c # g \/ d = NoDoc
    BY <1>2, <2>2, <2>3 DEF TypeOK
  <2>4. CASE c = g /\ d # NoDoc
    <3>1. d \in Range(policies[v]) /\ d \in Docs
      <4>1. policiesSettled[v] \in Nat /\ policies[v] \in Seq(Docs)
        BY <2>1 DEF TypeOK
      <4>2. d \in Range(policies[v])
        BY <2>4, <4>1, FoundWasPut
      <4> QED
        BY <4>1, <4>2 DEF Range
    <3>2. PostedAs(v, d)
      BY <2>1, <3>1 DEF Provenance
    <3>3. entry = [version |-> v, doc |-> d] /\ entry \in Entry
      BY <2>1, <2>2, <2>4, <3>1 DEF TypeOK, Entry
    <3>4. Served(entry)
      BY <2>1, <3>2, <3>3 DEF Served
    <3> QED
      BY <1>1, <3>3, <3>4
  <2> QED
    BY <2>3, <2>4
<1>4. CASE UNCHANGED held
  BY <1>2, <1>4
<1> QED
  BY <1>3, <1>4
  DEF Next, vars, clients, PostPolicy, PutPolicy, PutActive, PutFails, SettlePolicy,
      SettleActive, ReadActive, ReadFails

\* What a client gets was put, by a POST of it, under the version it gets it
\* under, and some POST that was to activate that version has put it active:
\* however many POSTs overlap and fail, and however stale the reads are.
THEOREM ServedIsPosted == Spec => []ServedAsPosted
<1> DEFINE From == SecondPut /\ Provenance /\ Delivered
<1>1. Init => From
  <2> SUFFICES ASSUME Init PROVE From
    OBVIOUS
  <2>1. \A p \in Posts : post[p].at = "not sent"
    BY DEF Init, NotSent
  <2>2. /\ \A v \in Versions : Range(policies[v]) = {}
        /\ Range(active) = {}
    BY RangeOfEmpty DEF Init
  <2>3. SecondPut /\ Delivered
    BY <2>1 DEF Init, SecondPut, Delivered
  <2>4. Provenance
    BY <2>2 DEF Init, Provenance
  <2> QED
    BY <2>3, <2>4
<1>2. IInv /\ From /\ [Next]_vars => From'
  BY SecondPutStep, ProvenanceStep, DeliveredStep DEF IInv
<1>3. From => ServedAsPosted
  BY DEF Delivered, Served, PostedAs, ActivatedAs, Sent, ServedAsPosted
<1> QED
  BY <1>1, <1>2, <1>3, Invariance, PTL DEF Spec

=============================================================================
