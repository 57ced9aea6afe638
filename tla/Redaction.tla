----------------------------- MODULE Redaction -----------------------------
(***************************************************************************)
(* What the redactprocessor does to telemetry: rules are compiled into a   *)
(* policy, the refresher replaces the active policy at any time, and       *)
(* pipeline goroutines walk their own batch under the policy they read     *)
(* when they began, visiting the keys of Go maps in any order and telling  *)
(* the audit side of every hit twice: as an event, and in a tally added to *)
(* the counters when the call ends.                                        *)
(*                                                                         *)
(* A string is a sequence of atoms, an atom a tuple that starts with its   *)
(* kind; a pattern matches every atom of one kind, BadPattern does not     *)
(* compile, and a token is one atom that names what was hashed.  Attribute *)
(* maps are functions from keys to values.  Hits are bags of rule ids.     *)
(***************************************************************************)
EXTENDS Integers, SequencesExt

CONSTANTS
  Calls,     \* bound: the calls of process{Logs,Traces,Metrics}
  Batches,   \* the telemetry they can be given
  Policies,  \* the policy files
  Atoms,     \* what strings of telemetry and replacements are made of
  NonString, \* every value that is not a string
  Rejected   \* the error of compilePolicy

\* A value is tokenized at most once, so a token hashes a value as it came.
Tokens == {"hex"} \X STRING \X Seq(Atoms)
Strings == Seq(Atoms \cup Tokens)

\* A field is a pair of a scope and a key; the key of a body is always "body".
Rule == [id : STRING, type : STRING, keys : Seq(STRING), fields : Seq(STRING \X STRING),
         pattern : STRING, replacement : Seq(Atoms), keyID : STRING]

IsPolicyFile(file) ==
  /\ file = [rules |-> file.rules, secrets |-> file.secrets]
  /\ file.rules \in Seq(Rule)
  /\ file.secrets \in [DOMAIN file.secrets -> STRING]

IsMap(m) == IsFiniteSet(DOMAIN m) /\ m \in [DOMAIN m -> {NonString} \cup Seq(Atoms)]

AllOf(seq, Is(_)) == seq \in Seq(ToSet(seq)) /\ \A x \in ToSet(seq) : Is(x)

WithPoints == {"Gauge", "Sum", "Histogram", "ExponentialHistogram", "Summary"}

IsItem(signal, item) ==
  CASE signal = "logs" -> IsMap(item.attrs) /\ item.body \in {NonString} \cup Seq(Atoms)
    [] signal = "traces" ->
         IsMap(item.attrs) /\ AllOf(item.events, IsMap) /\ AllOf(item.links, IsMap)
    [] signal = "metrics" -> item.type \in WithPoints => AllOf(item.points, IsMap)

IsBatch(batch) ==
  LET IsScope(items) == AllOf(items, LAMBDA item : IsItem(batch.signal, item))
      IsResource(r) == IsMap(r.attrs) /\ AllOf(r.scopes, IsScope)
  IN  batch.signal \in {"logs", "traces", "metrics"} /\ AllOf(batch.resources, IsResource)

ASSUME RedactionAssumption ==
  /\ IsFiniteSet(Calls)
  /\ \A file \in Policies : IsPolicyFile(file)
  /\ \A batch \in Batches : IsBatch(batch)
  /\ NonString \notin Strings

VARIABLES
  policy,   \* rp.policy, compiled
  source,   \* history: the policy file it was compiled from
  call,     \* the state of each call
  recorded, \* history: hits handed to the event recorder
  audited   \* history: hits handed to addAuditHits

vars == <<policy, source, call, recorded, audited>>

-----------------------------------------------------------------------------
(* Compiling a policy.                                                     *)

BadPattern == "("

RuleIdentifier(rules, i) ==
  IF rules[i].id # "" THEN <<rules[i].id>> ELSE <<rules[i].type, i>>

\* A plausible slip: whoever claims a key first keeps it.
ClaimOnce(owners, keys, owner) ==
  [k \in DOMAIN owners \cup (ToSet(keys) \ {""}) |->
    IF k \in DOMAIN owners THEN owners[k] ELSE owner]

\* The later of two rules that name a key overwrites the earlier.
Claim(owners, keys, owner) ==
  [k \in DOMAIN owners \cup (ToSet(keys) \ {""}) |->
    IF k \in ToSet(keys) THEN owner ELSE owners[k]]

Acceptable(rule, secrets) ==
  \/ rule.type = "drop_key"
  \/ /\ rule.type = "mask_regex"
     /\ rule.pattern \notin {"", BadPattern}
  \/ /\ rule.type = "tokenize_hmac"
     /\ rule.keys # <<>>
     /\ rule.keyID \in DOMAIN secrets \ {""}
     /\ secrets[rule.keyID] # ""

MasksAt(masks, field) == IF field \in DOMAIN masks THEN masks[field] ELSE <<>>

\* Fields of other scopes are ignored, and so is an empty key.
Known(field) == field[1] \in {"attributes", "resource", "log.body"} /\ field[2] # ""

AppendAt(masks, field, mask) ==
  IF Known(field)
  THEN [f \in DOMAIN masks \cup {field} |->
         IF f = field THEN Append(MasksAt(masks, f), mask) ELSE masks[f]]
  ELSE masks

\* The loops over fields, rules and masks are functions of how far they got.
AddMask(masks, fields, mask) ==
  LET upTo[n \in 0 .. Len(fields)] ==
        IF n = 0 THEN masks ELSE AppendAt(upTo[n - 1], fields[n], mask)
  IN  upTo[Len(fields)]

MaskOf(rules, i) ==
  [id |-> RuleIdentifier(rules, i), pattern |-> rules[i].pattern,
   replacement |-> rules[i].replacement]

\* The policy with the i-th rule of the file added.
AddRule(p, file, i) ==
  LET rule == file.rules[i]
      id == RuleIdentifier(file.rules, i)
  IN  CASE rule.type = "drop_key" ->
             [p EXCEPT !.drop = Claim(@, rule.keys, id)]
        [] rule.type = "mask_regex" ->
             [p EXCEPT !.masks = AddMask(@, rule.fields, MaskOf(file.rules, i))]
        [] rule.type = "tokenize_hmac" ->
             [p EXCEPT !.tokens = Claim(@, rule.keys,
                [id |-> id, secret |-> file.secrets[rule.keyID]])]

Compile(file) ==
  LET upTo[n \in 0 .. Len(file.rules)] ==
        IF n = 0 THEN [drop |-> <<>>, tokens |-> <<>>, masks |-> <<>>]
        ELSE AddRule(upTo[n - 1], file, n)
  IN  IF file.rules # <<>> /\ \A i \in DOMAIN file.rules :
                                Acceptable(file.rules[i], file.secrets)
      THEN upTo[Len(file.rules)]
      ELSE Rejected

\* buildPolicyFromConfig: what the file leaves out, or all of it if the file
\* cannot be loaded, comes from the collector's own configuration.
FromConfig(file, inline) ==
  [rules |-> IF file.rules # <<>> THEN file.rules ELSE inline.rules,
   secrets |-> IF DOMAIN file.secrets # {} THEN file.secrets ELSE inline.secrets]

-----------------------------------------------------------------------------
(* The batch as the walk meets it: a sequence of attribute maps and bodies. *)

Carrier(scope, attrs) == [scope |-> scope, attrs |-> attrs]
Attributes(maps) == [i \in DOMAIN maps |-> Carrier("attributes", maps[i])]

CarriersOfLog(lr) ==
  <<Carrier("attributes", lr.attrs), Carrier("log.body", [body |-> lr.body])>>

CarriersOfSpan(span) ==
  <<Carrier("attributes", span.attrs)>>
    \o Attributes(span.events) \o Attributes(span.links)

CarriersOfMetric(metric) ==
  IF metric.type \in WithPoints THEN Attributes(metric.points) ELSE <<>>

CarriersOfItem(signal, item) ==
  CASE signal = "logs" -> CarriersOfLog(item)
    [] signal = "traces" -> CarriersOfSpan(item)
    [] signal = "metrics" -> CarriersOfMetric(item)

CarriersOfBatch(batch) ==
  LET Scope(items) ==
        FlattenSeq([k \in DOMAIN items |-> CarriersOfItem(batch.signal, items[k])])
      Resource(r) == <<Carrier("resource", r.attrs)>>
                       \o FlattenSeq([j \in DOMAIN r.scopes |-> Scope(r.scopes[j])])
  IN  FlattenSeq([i \in DOMAIN batch.resources |-> Resource(batch.resources[i])])

-----------------------------------------------------------------------------
(* Applying the compiled rules to one key.                                 *)

HmacToken(secret, value) == << <<"hex", secret, value>> >>

Hits(id, count) == IF count > 0 THEN [x \in {id} |-> count] ELSE EmptyBag

\* A mask counts the matches in what the masks before it made of the value.
Mask(v, m) ==
  [str |-> FlattenSeq([i \in DOMAIN v.str |->
             IF v.str[i][1] = m.pattern THEN m.replacement ELSE <<v.str[i]>>]),
   hits |-> v.hits (+) Hits(m.id,
              Cardinality({i \in DOMAIN v.str : v.str[i][1] = m.pattern}))]

ApplyMaskRules(value, masks) ==
  LET upTo[n \in 0 .. Len(masks)] ==
        IF n = 0 THEN [str |-> value, hits |-> EmptyBag] ELSE Mask(upTo[n - 1], masks[n])
  IN  upTo[Len(masks)]

\* The keys of a carrier a phase has something to do with; a body is only masked.
Targets(p, c, phase) ==
  LET strings == {k \in DOMAIN c.attrs : c.attrs[k] # NonString}
      keys == IF c.scope = "log.body" THEN {} ELSE DOMAIN c.attrs
  IN  CASE phase = "drop" -> keys \cap DOMAIN p.drop
        [] phase = "tokenize" -> keys \cap strings \cap DOMAIN p.tokens
        [] phase = "mask" -> {k \in strings : <<c.scope, k>> \in DOMAIN p.masks}

TodoAt(p, carriers, at, phase) ==
  IF at > Len(carriers) THEN {} ELSE Targets(p, carriers[at], phase)

-----------------------------------------------------------------------------
(* The processor.                                                          *)

Idle == [pc |-> "idle"]
Here(c) == call[c].carriers[call[c].at]
Working(c) == call[c].pc = "walking" /\ call[c].at <= Len(call[c].carriers)

TypeOK ==
  /\ policy # Rejected
  /\ source \in [rules : {p.rules : p \in Policies}, secrets : {p.secrets : p \in Policies}]
  /\ \A c \in Calls :
       \/ call[c] = Idle
       \/ /\ call[c].pc \in {"walking", "done"}
          /\ call[c].at \in 1 .. Len(call[c].carriers) + 1
          /\ call[c].phase \in {"drop", "tokenize", "mask"}
          /\ Working(c) => call[c].todo \subseteq DOMAIN Here(c).attrs
          /\ IsABag(call[c].hits)
  /\ IsABag(recorded)
  /\ IsABag(audited)

Init ==
  /\ \E file, inline \in Policies : source = FromConfig(file, inline)
  /\ policy = Compile(source)
  /\ policy # Rejected
  /\ call = [c \in Calls |-> Idle]
  /\ recorded = EmptyBag
  /\ audited = EmptyBag

\* A plausible slip: a policy that does not compile is installed.
SetPolicyUnchecked(file) ==
  /\ policy' = Compile(file)
  /\ source' = file
  /\ UNCHANGED <<call, recorded, audited>>

\* A fetched policy that compiles replaces the active one.
SetPolicy(file) ==
  /\ Compile(file) # Rejected
  /\ policy' = Compile(file)
  /\ source' = file
  /\ UNCHANGED <<call, recorded, audited>>

\* The call keeps the policy it reads here.
Begin(c, batch) ==
  /\ call[c] = Idle
  /\ LET carriers == CarriersOfBatch(batch)
     IN  call' = [call EXCEPT ![c] =
           [pc |-> "walking", policy |-> policy, source |-> source, batch |-> batch,
            carriers |-> carriers, at |-> 1, phase |-> "drop",
            todo |-> TodoAt(policy, carriers, 1, "drop"), hits |-> EmptyBag]]
  /\ UNCHANGED <<policy, source, recorded, audited>>

\* A plausible slip: tokens are reported as events but not counted.
StepTokenUncounted(c, k, attrs, hits) ==
  /\ call' = [call EXCEPT ![c].carriers[call[c].at].attrs = attrs,
                          ![c].todo = @ \ {k},
                          ![c].hits = IF call[c].phase = "tokenize" THEN @ ELSE @ (+) hits]
  /\ recorded' = recorded (+) hits
  /\ UNCHANGED <<policy, source, audited>>

\* Every hit is tallied and handed to the recorder.
Step(c, k, attrs, hits) ==
  /\ call' = [call EXCEPT ![c].carriers[call[c].at].attrs = attrs,
                          ![c].todo = @ \ {k},
                          ![c].hits = @ (+) hits]
  /\ recorded' = recorded (+) hits
  /\ UNCHANGED <<policy, source, audited>>

DropKey(c) ==
  /\ Working(c)
  /\ call[c].phase = "drop"
  /\ \E k \in call[c].todo :
       Step(c, k, [x \in DOMAIN Here(c).attrs \ {k} |-> Here(c).attrs[x]],
            Hits(call[c].policy.drop[k], 1))

TokenizeKey(c) ==
  /\ Working(c)
  /\ call[c].phase = "tokenize"
  /\ \E k \in call[c].todo :
       LET owner == call[c].policy.tokens[k]
       IN  Step(c, k, [Here(c).attrs EXCEPT ![k] = HmacToken(owner.secret, @)],
                Hits(owner.id, 1))

MaskKey(c) ==
  /\ Working(c)
  /\ call[c].phase = "mask"
  /\ \E k \in call[c].todo :
       LET masked == ApplyMaskRules(Here(c).attrs[k],
                                    MasksAt(call[c].policy.masks, <<Here(c).scope, k>>))
       IN  Step(c, k, [Here(c).attrs EXCEPT ![k] = masked.str], masked.hits)

\* The next loop of applyAttributeRules, or the next carrier of the walk.
Proceed(c, p) ==
  /\ Working(c)
  /\ call[c].todo = {}
  /\ LET phase == CASE call[c].phase = "drop" -> "tokenize"
                    [] call[c].phase = "tokenize" -> "mask"
                    [] call[c].phase = "mask" -> "drop"
         at == IF phase = "drop" THEN call[c].at + 1 ELSE call[c].at
     IN  call' = [call EXCEPT ![c].policy = p,
                              ![c].phase = phase,
                              ![c].at = at,
                              ![c].todo = TodoAt(p, call[c].carriers, at, phase)]
  /\ UNCHANGED <<policy, source, recorded, audited>>

\* A plausible slip: the walk asks for the active policy as it goes.
AdvanceActive(c) == Proceed(c, policy)

Advance(c) == Proceed(c, call[c].policy)

\* addAuditHits, and the batch goes on to the next consumer.
Finish(c) ==
  /\ call[c].pc = "walking"
  /\ ~Working(c)
  /\ call' = [call EXCEPT ![c].pc = "done"]
  /\ audited' = audited (+) call[c].hits
  /\ UNCHANGED <<policy, source, recorded>>

Next ==
  \/ \E file \in Policies : SetPolicy(file)
  \/ \E c \in Calls :
       \/ \E batch \in Batches : Begin(c, batch)
       \/ DropKey(c) \/ TokenizeKey(c) \/ MaskKey(c)
       \/ Advance(c) \/ Finish(c)

Spec == Init /\ [][Next]_vars

-----------------------------------------------------------------------------
(* What the rules of a policy file promise, without order of evaluation.   *)

Naming(file, type, key) ==
  {i \in DOMAIN file.rules : /\ file.rules[i].type = type
                             /\ key \in ToSet(file.rules[i].keys) \ {""}}

\* The masks of a field: rule by rule, once for every time a rule lists it.
MaskOrder(file, field) ==
  LET Of(i) ==
        LET rule == file.rules[i]
            times == IF rule.type = "mask_regex" /\ field[2] # ""
                     THEN Cardinality({j \in DOMAIN rule.fields : rule.fields[j] = field})
                     ELSE 0
        IN  [n \in 1 .. times |-> MaskOf(file.rules, i)]
  IN  FlattenSeq([i \in DOMAIN file.rules |-> Of(i)])

\* Where a key ends: dropped if any rule drops it, else tokenized by the last
\* rule that does, else as it came; what is left is masked.
Fate(file, scope, key, value) ==
  LET drops == IF scope = "log.body" THEN {} ELSE Naming(file, "drop_key", key)
      tokens == IF scope = "log.body" \/ value = NonString THEN {}
                ELSE Naming(file, "tokenize_hmac", key)
      last == Max(tokens)
      start == IF tokens = {} THEN value
               ELSE HmacToken(file.secrets[file.rules[last].keyID], value)
      masked == ApplyMaskRules(start, MaskOrder(file, <<scope, key>>))
      tokenHit == IF tokens = {} THEN EmptyBag ELSE Hits(RuleIdentifier(file.rules, last), 1)
  IN  CASE drops # {} -> [kept |-> FALSE, hits |-> Hits(RuleIdentifier(file.rules, Max(drops)), 1)]
        [] drops = {} /\ value = NonString -> [kept |-> TRUE, value |-> value, hits |-> EmptyBag]
        [] OTHER -> [kept |-> TRUE, value |-> masked.str, hits |-> tokenHit (+) masked.hits]

AllHits(bags) == FoldFunction((+), EmptyBag, bags)

Redacted(file, c) ==
  LET fate == [k \in DOMAIN c.attrs |-> Fate(file, c.scope, k, c.attrs[k])]
      kept == {k \in DOMAIN c.attrs : fate[k].kept}
  IN  [carrier |-> Carrier(c.scope, [k \in kept |-> fate[k].value]),
       hits |-> AllHits([k \in DOMAIN c.attrs |-> fate[k].hits])]

-----------------------------------------------------------------------------
(* Properties.                                                             *)

Copies(id, hits) == IF id \in DOMAIN hits THEN hits[id] ELSE 0

\* Whatever policy is installed while a batch is walked, and in whatever order
\* the keys of the maps are visited, processLogs, processTraces and
\* processMetrics return what the rules of one policy, the one active when the
\* call began, make of the batch, and count exactly their hits.
RedactedByOnePolicy ==
  \A c \in Calls : call[c].pc = "done" =>
    LET carriers == CarriersOfBatch(call[c].batch)
        expected == [i \in DOMAIN carriers |-> Redacted(call[c].source, carriers[i])]
    IN  /\ call[c].carriers = [i \in DOMAIN carriers |-> expected[i].carrier]
        /\ call[c].hits = AllHits([i \in DOMAIN carriers |-> expected[i].hits])

\* The events the recorder was given and the counters agree rule by rule: they
\* differ by the hits of the calls that have not reached addAuditHits.
HitsMatchEvents ==
  LET open == {c \in Calls : call[c].pc = "walking"}
  IN  \A id \in BagToSet(recorded) \cup BagToSet(audited) :
        Copies(id, recorded) =
          Copies(id, audited) + SumFunction([c \in open |-> Copies(id, call[c].hits)])

\* The compiled policy has every key and every field the rules of the file name,
\* and no other.  A key belongs, for dropping and for tokenizing, to the last rule
\* that names it, with that rule's audit id and secret, and the masks of a field
\* stand in the order of the rules.
LastRuleWins ==
  LET KeysOf(type) ==
        UNION {ToSet(rule.keys) \ {""} : rule \in {r \in ToSet(source.rules) : r.type = type}}
      fields == {f \in UNION {ToSet(rule.fields) : rule \in ToSet(source.rules)} : Known(f)}
  IN  /\ DOMAIN policy.drop = KeysOf("drop_key")
      /\ \A k \in DOMAIN policy.drop :
           policy.drop[k] = RuleIdentifier(source.rules, Max(Naming(source, "drop_key", k)))
      /\ DOMAIN policy.tokens = KeysOf("tokenize_hmac")
      /\ \A k \in DOMAIN policy.tokens :
           LET last == Max(Naming(source, "tokenize_hmac", k))
           IN  policy.tokens[k] = [id |-> RuleIdentifier(source.rules, last),
                                   secret |-> source.secrets[source.rules[last].keyID]]
      /\ \A f \in fields \cup DOMAIN policy.masks :
           MasksAt(policy.masks, f) = MaskOrder(source, f)
=============================================================================
