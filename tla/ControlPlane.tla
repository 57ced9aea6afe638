---------------------------- MODULE ControlPlane ----------------------------
(***************************************************************************)
(* The policies of one tenant in the serverless control plane.  A policy   *)
(* is stored in two tables: policies holds a document per version, active  *)
(* the version that is active.  handlePostPolicy writes first the one and  *)
(* then the other, handleGetActive reads first the other and then the one, *)
(* and nothing makes either of them atomic.                                *)
(*                                                                         *)
(* The reads are eventually consistent: they may return an older value of  *)
(* the item, or none, until the newer ones have reached every replica.     *)
(***************************************************************************)
EXTENDS Naturals, Sequences, Functions

CONSTANTS
  Posts,       \* the calls of handlePostPolicy
  Gets,        \* the clients of handleGetActive, one call after the other
  Versions,    \* version strings, given or made of the time in seconds
  Docs,        \* policy documents
  NoVersion,   \* no active version
  NoDoc,       \* no document
  NoEntry      \* a client that has nothing yet

Entry == [version : Versions, doc : Docs]

ASSUME PlaneAssumption ==
  /\ NoVersion \notin Versions
  /\ NoDoc \notin Docs
  /\ NoEntry \notin Entry

VARIABLES
  policies,        \* table of policies: every document put under a version
  policiesSettled, \* how many of them have reached every replica
  active,          \* table of active versions: every version put there
  activeSettled,   \* how many of them have reached every replica
  stored,          \* the POSTs whose document was put (history)
  activated,       \* the POSTs whose version was put active (history)
  post,            \* where each POST stands, and its request
  seenVersion,     \* the active version a client's GET has read
  held             \* the policy a client got last, whose ETag it sends

history == <<stored, activated>>
tables == <<policies, policiesSettled, active, activeSettled, history>>
clients == <<seenVersion, held>>
vars == <<tables, post, clients>>

-----------------------------------------------------------------------------

Request == [version : Versions, doc : Docs, activate : BOOLEAN]

\* What a POST has got to: it is to put its policy, to put the active version,
\* and is then answered, with 200 or 500.
PostState == [at : {"put policy", "put active", "200", "500"}, req : Request]

NotSent == [at |-> "not sent"]

TypeOK ==
  /\ policies \in [Versions -> Seq(Docs)]
  /\ policiesSettled \in [Versions -> Nat]
  /\ \A v \in Versions : policiesSettled[v] <= Len(policies[v])
  /\ active \in Seq(Versions)
  /\ activeSettled \in 0 .. Len(active)
  /\ stored \subseteq Posts /\ activated \subseteq Posts
  /\ post \in [Posts -> PostState \cup {NotSent}]
  /\ seenVersion \in [Gets -> Versions \cup {NoVersion}]
  /\ held \in [Gets -> Entry \cup {NoEntry}]

Init ==
  /\ policies = [v \in Versions |-> <<>>]
  /\ policiesSettled = [v \in Versions |-> 0]
  /\ active = <<>>
  /\ activeSettled = 0
  /\ stored = {} /\ activated = {}
  /\ post = [p \in Posts |-> NotSent]
  /\ seenVersion = [g \in Gets |-> NoVersion]
  /\ held = [g \in Gets |-> NoEntry]

-----------------------------------------------------------------------------
(* The tables.                                                             *)

\* A replica catches up.
SettlePolicy(v) ==
  /\ policiesSettled[v] < Len(policies[v])
  /\ policiesSettled' = [policiesSettled EXCEPT ![v] = @ + 1]
  /\ UNCHANGED <<policies, active, activeSettled, history, post, clients>>

SettleActive ==
  /\ activeSettled < Len(active)
  /\ activeSettled' = activeSettled + 1
  /\ UNCHANGED <<policies, policiesSettled, active, history, post, clients>>

\* What an eventually consistent read of an item may find: one of its values
\* from the last settled one on, none while none has settled.
Found(values, settled, none) ==
  {values[i] : i \in (IF settled = 0 THEN 1 ELSE settled) .. Len(values)}
    \cup (IF settled = 0 THEN {none} ELSE {})

-----------------------------------------------------------------------------
(* handlePostPolicy.                                                       *)

StoreDocument(p) ==
  /\ policies' = [policies EXCEPT ![post[p].req.version] =
                    Append(@, post[p].req.doc)]
  /\ stored' = stored \cup {p}
  /\ UNCHANGED <<active, activated>>

ActivateVersion(p) ==
  /\ active' = Append(active, post[p].req.version)
  /\ activated' = activated \cup {p}
  /\ UNCHANGED <<policies, stored>>

PostPolicy(p, req) ==
  /\ post[p] = NotSent
  /\ post' = [post EXCEPT ![p] = [at |-> "put policy", req |-> req]]
  /\ UNCHANGED <<tables, clients>>

Answer(p, status) == post' = [post EXCEPT ![p].at = status]

\* A plausible slip: the active version is put whatever activate says.
PutPolicyAlwaysActive(p) ==
  /\ post[p].at = "put policy"
  /\ StoreDocument(p)
  /\ Answer(p, "put active")
  /\ UNCHANGED <<policiesSettled, activeSettled, clients>>

PutPolicy(p) ==
  /\ post[p].at = "put policy"
  /\ StoreDocument(p)
  /\ Answer(p, IF post[p].req.activate THEN "put active" ELSE "200")
  /\ UNCHANGED <<policiesSettled, activeSettled, clients>>

PutActive(p) ==
  /\ post[p].at = "put active"
  /\ ActivateVersion(p)
  /\ Answer(p, "200")
  /\ UNCHANGED <<policiesSettled, activeSettled, clients>>

\* A plausible slip: a put that fails is taken for one that was done.
PutFailsUnnoticed(p) ==
  /\ \/ post[p].at = "put policy" /\ Answer(p, "put active")
     \/ post[p].at = "put active" /\ Answer(p, "200")
  /\ UNCHANGED <<tables, clients>>

\* A put that fails may have been done all the same.  It ends the handler: what
\* was put before stays, and nothing is put after.
PutFails(p) ==
  /\ \/ /\ post[p].at \in {"put policy", "put active"}
        /\ UNCHANGED <<policies, active, history>>
     \/ post[p].at = "put policy" /\ StoreDocument(p)
     \/ post[p].at = "put active" /\ ActivateVersion(p)
  /\ Answer(p, "500")
  /\ UNCHANGED <<policiesSettled, activeSettled, clients>>

-----------------------------------------------------------------------------
(* handleGetActive, called by a client time and again.                     *)

\* No item: 404, and the client stays as it is.
ReadActive(g) ==
  /\ seenVersion[g] = NoVersion
  /\ \E v \in Found(active, activeSettled, NoVersion) :
       seenVersion' = [seenVersion EXCEPT ![g] = v]
  /\ UNCHANGED <<tables, post, held>>

\* A plausible slip: a client that holds the version gets a 304.
ReadPolicyByVersion(g) ==
  /\ seenVersion[g] # NoVersion
  /\ LET v == seenVersion[g]
     IN  \E d \in Found(policies[v], policiesSettled[v], NoDoc) :
           held' = [held EXCEPT ![g] =
                      IF d = NoDoc \/ (@ # NoEntry /\ @.version = v) THEN @
                      ELSE [version |-> v, doc |-> d]]
  /\ seenVersion' = [seenVersion EXCEPT ![g] = NoVersion]
  /\ UNCHANGED <<tables, post>>

\* A plausible slip: an item that is not there is served like any other.
ReadPolicyUnchecked(g) ==
  /\ seenVersion[g] # NoVersion
  /\ LET v == seenVersion[g]
     IN  \E d \in Found(policies[v], policiesSettled[v], NoDoc) :
           held' = [held EXCEPT ![g] = [version |-> v, doc |-> d]]
  /\ seenVersion' = [seenVersion EXCEPT ![g] = NoVersion]
  /\ UNCHANGED <<tables, post>>

\* No item: 404.  The ETag hashes version and document: a client that holds
\* both gets a 304, which leaves it as it is.
ReadPolicy(g) ==
  /\ seenVersion[g] # NoVersion
  /\ LET v == seenVersion[g]
     IN  \E d \in Found(policies[v], policiesSettled[v], NoDoc) :
           held' = [held EXCEPT ![g] =
                      IF d = NoDoc THEN @ ELSE [version |-> v, doc |-> d]]
  /\ seenVersion' = [seenVersion EXCEPT ![g] = NoVersion]
  /\ UNCHANGED <<tables, post>>

\* A read that fails: 500.
ReadFails(g) ==
  /\ seenVersion[g] # NoVersion
  /\ seenVersion' = [seenVersion EXCEPT ![g] = NoVersion]
  /\ UNCHANGED <<tables, post, held>>

-----------------------------------------------------------------------------

Next ==
  \/ \E p \in Posts : \E req \in Request : PostPolicy(p, req)
  \/ \E p \in Posts : PutPolicy(p) \/ PutActive(p) \/ PutFails(p)
  \/ \E v \in Versions : SettlePolicy(v)
  \/ SettleActive
  \/ \E g \in Gets : ReadActive(g) \/ ReadPolicy(g) \/ ReadFails(g)

Spec == Init /\ [][Next]_vars

\* Handlers run to their end, replicas catch up and clients keep asking; not
\* every second read of a client fails.
FairSpec ==
  /\ Spec
  /\ \A p \in Posts : WF_vars(PutPolicy(p) \/ PutActive(p) \/ PutFails(p))
  /\ \A v \in Versions : WF_vars(SettlePolicy(v))
  /\ WF_vars(SettleActive)
  /\ \A g \in Gets : WF_vars(ReadActive(g)) /\ SF_vars(ReadPolicy(g))

-----------------------------------------------------------------------------
(* Properties.                                                             *)

\* A version is made active only when its document is there: no crash or
\* failed write between the two puts leaves an active version without one.
ActiveHasDocument == \A i \in DOMAIN active : policies[active[i]] # <<>>

\* A POST answered with 200 has done all that it was asked.
AnsweredMeansWritten ==
  \A p \in Posts : post[p].at = "200" =>
    /\ post[p].req.doc \in Range(policies[post[p].req.version])
    /\ post[p].req.activate => post[p].req.version \in Range(active)

\* A client gets a document only under a version it was put under; and one that
\* was posted to be stored only, or whose POST failed before its active version
\* was put, is served only if another POST of that version, one that was to
\* activate it, has put it active.
ServedAsPosted ==
  \A g \in Gets : held[g] # NoEntry =>
    /\ \E p \in stored :
         post[p].req.version = held[g].version /\ post[p].req.doc = held[g].doc
    /\ \E q \in activated :
         post[q].req.version = held[g].version /\ post[q].req.activate

\* Once nothing is posted any more, every client gets to the version activated
\* last with the document put last under it, in spite of stale reads.
ClientsConverge ==
  \A g \in Gets :
    <>[](active # <<>> =>
           LET v == active[Len(active)]
           IN  held[g] = [version |-> v, doc |-> policies[v][Len(policies[v])]])
=============================================================================
