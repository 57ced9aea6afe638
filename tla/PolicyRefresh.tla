--------------------------- MODULE PolicyRefresh ---------------------------
(***************************************************************************)
(* How the active policy of the control plane reaches the redactprocessor  *)
(* instances of a collector: each signal pipeline has an instance of its   *)
(* own, which fetches the policy when it is created and then at every tick *)
(* of its refresh loop, with the ETag of what it holds.                    *)
(*                                                                         *)
(* The control plane is the mock one, which reads and replaces the active  *)
(* policy under one lock and loses it in a restart.                        *)
(***************************************************************************)
EXTENDS Naturals, Sequences, Functions

CONSTANTS
  Processors,  \* the instances: logs, traces, metrics
  Versions,    \* version strings an administrator gives
  GoodDocs,    \* policy documents that parse and compile
  BadDocs,     \* policy documents that do not
  LocalDoc,    \* the rules of the collector's own configuration
  NoDoc,       \* no policy (rp.policy = nil)
  NoEntry,     \* no active policy; no ETag
  NotModified, \* the reply 304
  InitialVersion, \* the version of the file the mock loads: local-initial
  InitialDoc,  \* its contents
  MaxPosts,    \* bound: policies activated and restarts
  MaxFailures  \* bound: fetches that fail on the wire

Docs == GoodDocs \cup BadDocs

Entry == [version : Versions \cup {InitialVersion}, doc : Docs]

ASSUME RefreshAssumption ==
  /\ GoodDocs \cap BadDocs = {}
  /\ LocalDoc \in GoodDocs
  /\ InitialDoc \in Docs
  /\ NoDoc \notin Docs
  /\ NoEntry \notin Entry
  /\ NotModified \notin Entry \cup {NoEntry}
  /\ MaxPosts \in Nat
  /\ MaxFailures \in Nat

VARIABLES
  activations, \* history: every active policy so far; the last one is active
  phase,       \* of an instance: new, running, refused
  fetch,       \* where its fetch stands: idle, asked, answered, compiled
  policy,      \* rp.policy, by its document
  etag,        \* rp.etag, by what was hashed into it
  reply,       \* what the control plane answered
  askedAt,     \* history: how many activations there were when it asked
  failures     \* how many fetches have failed

instanceVars == <<phase, fetch, policy, etag, reply, askedAt>>
vars == <<activations, instanceVars, failures>>

-----------------------------------------------------------------------------

Active == activations[Len(activations)]

InitialEntry == [version |-> InitialVersion, doc |-> InitialDoc]

TypeOK ==
  /\ activations \in Seq(Entry \cup {NoEntry})
  /\ Len(activations) \in 1 .. MaxPosts + 1
  /\ phase \in [Processors -> {"new", "running", "refused"}]
  /\ fetch \in [Processors -> {"idle", "asked", "answered", "compiled"}]
  /\ policy \in [Processors -> Docs \cup {NoDoc}]
  /\ etag \in [Processors -> Entry \cup {NoEntry}]
  /\ reply \in [Processors -> Entry \cup {NoEntry, NotModified}]
  /\ askedAt \in [Processors -> 0 .. MaxPosts + 1]
  /\ failures \in 0 .. MaxFailures

\* The mock has loaded a policy file or found none.  newRedactProcessor has put
\* the local rules in force, if there are any.
Init ==
  /\ activations \in {<<NoEntry>>, <<InitialEntry>>}
  /\ phase = [p \in Processors |-> "new"]
  /\ fetch = [p \in Processors |-> "idle"]
  /\ policy \in [Processors -> {LocalDoc, NoDoc}]
  /\ etag = [p \in Processors |-> NoEntry]
  /\ reply = [p \in Processors |-> NoEntry]
  /\ askedAt = [p \in Processors |-> 0]
  /\ failures = 0

-----------------------------------------------------------------------------
(* The control plane.                                                      *)

\* The handler stores what it is given, whether it compiles or not; a version
\* may come again with another document.
HandlePostPolicy(v, d) ==
  /\ Len(activations) <= MaxPosts
  /\ activations' = Append(activations, [version |-> v, doc |-> d])
  /\ UNCHANGED <<instanceVars, failures>>

\* The policies are kept in memory only: after a restart the mock has those of
\* its file, if it has one.
Restart ==
  /\ Len(activations) <= MaxPosts
  /\ activations' = Append(activations, activations[1])
  /\ UNCHANGED <<instanceVars, failures>>

\* A plausible slip: the ETag is made of the version alone.
MatchesVersion(ifNoneMatch, entry) ==
  ifNoneMatch # NoEntry /\ ifNoneMatch.version = entry.version

\* The ETag hashes version and document.
MatchesETag(ifNoneMatch, entry) == ifNoneMatch = entry

HandleGetActive(p) ==
  /\ fetch[p] = "asked"
  /\ reply' = [reply EXCEPT ![p] =
       IF Active # NoEntry /\ MatchesETag(etag[p], Active) THEN NotModified
                                                           ELSE Active]
  /\ fetch' = [fetch EXCEPT ![p] = "answered"]
  /\ UNCHANGED <<activations, phase, policy, etag, askedAt, failures>>

-----------------------------------------------------------------------------
(* fetchAndCompile, called by newRedactProcessor and by refreshLoop.       *)

\* The request carries the ETag read under mu.
BeginFetch(p) ==
  /\ phase[p] # "refused"
  /\ fetch[p] = "idle"
  /\ fetch' = [fetch EXCEPT ![p] = "asked"]
  /\ askedAt' = [askedAt EXCEPT ![p] = Len(activations)]
  /\ UNCHANGED <<activations, phase, policy, etag, reply, failures>>

\* newRedactProcessor refuses to start without any policy.
PhaseWithout(p) ==
  IF phase[p] = "new" /\ policy[p] = NoDoc THEN "refused" ELSE "running"

\* Back to the refresh loop, or out of newRedactProcessor, with the policy as
\* it was.
KeepPolicy(p) ==
  /\ fetch' = [fetch EXCEPT ![p] = "idle"]
  /\ reply' = [reply EXCEPT ![p] = NoEntry]
  /\ askedAt' = [askedAt EXCEPT ![p] = 0]
  /\ phase' = [phase EXCEPT ![p] = PhaseWithout(p)]
  /\ UNCHANGED <<activations, policy, etag>>

\* The request or its reply is lost, or the request times out.
FetchFails(p) ==
  /\ fetch[p] \in {"asked", "answered"}
  /\ failures < MaxFailures
  /\ failures' = failures + 1
  /\ KeepPolicy(p)

FetchNotModified(p) ==
  /\ fetch[p] = "answered"
  /\ reply[p] = NotModified
  /\ KeepPolicy(p)
  /\ UNCHANGED failures

\* A plausible slip: the ETag of a policy that does not compile is kept.
RejectKeepingETag(p) ==
  /\ fetch[p] = "answered"
  /\ reply[p] = NoEntry \/ (reply[p] \in Entry /\ reply[p].doc \in BadDocs)
  /\ etag' = [etag EXCEPT ![p] = reply[p]]
  /\ fetch' = [fetch EXCEPT ![p] = "idle"]
  /\ reply' = [reply EXCEPT ![p] = NoEntry]
  /\ askedAt' = [askedAt EXCEPT ![p] = 0]
  /\ phase' = [phase EXCEPT ![p] = PhaseWithout(p)]
  /\ UNCHANGED <<activations, policy, failures>>

\* 404, or a policy that does not parse or compile: the last good one stays.
FetchRejected(p) ==
  /\ fetch[p] = "answered"
  /\ reply[p] = NoEntry \/ (reply[p] \in Entry /\ reply[p].doc \in BadDocs)
  /\ KeepPolicy(p)
  /\ UNCHANGED failures

\* A plausible slip: every reply that is no error is put in force, a 304 and a
\* policy that does not compile among them.
SetPolicyUnchecked(p) ==
  /\ fetch[p] = "answered"
  /\ reply[p] # NoEntry
  /\ policy' = [policy EXCEPT ![p] =
                  IF reply[p] = NotModified THEN NoDoc ELSE reply[p].doc]
  /\ fetch' = [fetch EXCEPT ![p] = "compiled"]
  /\ UNCHANGED <<activations, phase, etag, reply, askedAt, failures>>

\* The policy compiles: setPolicy puts it in force under mu ...
SetPolicy(p) ==
  /\ fetch[p] = "answered"
  /\ reply[p] \in Entry /\ reply[p].doc \in GoodDocs
  /\ policy' = [policy EXCEPT ![p] = reply[p].doc]
  /\ fetch' = [fetch EXCEPT ![p] = "compiled"]
  /\ UNCHANGED <<activations, phase, etag, reply, askedAt, failures>>

\* A plausible slip: the ETag is set once, by the first fetch.
SetFirstETag(p) ==
  /\ fetch[p] = "compiled"
  /\ etag' = [etag EXCEPT ![p] = IF @ = NoEntry THEN reply[p] ELSE @]
  /\ fetch' = [fetch EXCEPT ![p] = "idle"]
  /\ reply' = [reply EXCEPT ![p] = NoEntry]
  /\ askedAt' = [askedAt EXCEPT ![p] = 0]
  /\ phase' = [phase EXCEPT ![p] = "running"]
  /\ UNCHANGED <<activations, policy, failures>>

\* ... and setETag remembers its ETag, under mu again.
SetETag(p) ==
  /\ fetch[p] = "compiled"
  /\ etag' = [etag EXCEPT ![p] = reply[p]]
  /\ fetch' = [fetch EXCEPT ![p] = "idle"]
  /\ reply' = [reply EXCEPT ![p] = NoEntry]
  /\ askedAt' = [askedAt EXCEPT ![p] = 0]
  /\ phase' = [phase EXCEPT ![p] = "running"]
  /\ UNCHANGED <<activations, policy, failures>>

-----------------------------------------------------------------------------

Proceed(p) ==
  \/ BeginFetch(p)
  \/ HandleGetActive(p)
  \/ FetchNotModified(p)
  \/ FetchRejected(p)
  \/ SetPolicy(p)
  \/ SetETag(p)

Next ==
  \/ \E v \in Versions, d \in Docs : HandlePostPolicy(v, d)
  \/ Restart
  \/ \E p \in Processors : Proceed(p) \/ FetchFails(p)

Spec == Init /\ [][Next]_vars

\* Each refresh loop keeps ticking and the control plane keeps answering.
FairSpec == Spec /\ \A p \in Processors : WF_vars(Proceed(p))

-----------------------------------------------------------------------------
(* Properties.                                                             *)

\* An instance that runs has a policy it can apply: its local one or one that
\* has been active, never one that does not compile and never nil.
LastKnownGood ==
  \A p \in Processors : phase[p] = "running" =>
    /\ policy[p] \in GoodDocs
    /\ \/ policy[p] = LocalDoc
       \/ \E i \in DOMAIN activations :
            activations[i] # NoEntry /\ activations[i].doc = policy[p]

\* The ETag an instance sends is that of the policy it holds, although the two
\* are set in two critical sections: a 304 always vouches for the policy in
\* force.
ETagNamesPolicy ==
  \A p \in Processors :
    fetch[p] # "compiled" /\ etag[p] # NoEntry => etag[p].doc = policy[p]

\* A refresh that succeeds, by 200 or by 304, leaves a policy in force that was
\* the active one at some time since the request was made, whatever was posted
\* and whatever version was used again meanwhile.
RefreshedSince(p) ==
  \E i \in askedAt[p] .. Len(activations) :
    activations[i] # NoEntry /\ activations[i].doc = policy'[p]

SuccessMeansFresh ==
  [][\A p \in Processors : SetETag(p) \/ FetchNotModified(p)
       => RefreshedSince(p)]_vars

\* Once posts and failures stop, every running instance gets to the active
\* policy and stays there, unless that policy is unusable.
ConvergesToActive ==
  \A p \in Processors :
    <>[](\/ phase[p] = "refused"
         \/ Active = NoEntry
         \/ Active # NoEntry /\ Active.doc \in BadDocs \cup {policy[p]})
=============================================================================
