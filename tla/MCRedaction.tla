---------------------------- MODULE MCRedaction ----------------------------
(* Two calls that overlap with each other and with the refresher.  The      *)
(* rules of Layered drop one key twice, tokenize another twice and mask the *)
(* token; Plain, which has no secrets of its own, treats the same keys in   *)
(* other ways; Broken does not compile, and Missing is a file that cannot   *)
(* be loaded.                                                               *)
EXTENDS Redaction

CONSTANTS c1, c2

Blank == [id |-> "", type |-> "", keys |-> <<>>, fields |-> <<>>,
          pattern |-> "", replacement |-> <<>>, keyID |-> ""]
Drop(id, keys) == [Blank EXCEPT !.id = id, !.type = "drop_key", !.keys = keys]
Tokenize(id, keys, keyID) ==
  [Blank EXCEPT !.id = id, !.type = "tokenize_hmac", !.keys = keys, !.keyID = keyID]
Masking(id, fields, pattern, kind) ==
  [Blank EXCEPT !.id = id, !.type = "mask_regex", !.fields = fields,
                !.pattern = pattern, !.replacement = << <<kind>> >>]

B == <<"attributes", "b">>
Empty == <<"attributes", "">>
Body == <<"log.body", "body">>

Layered ==
  [rules |-> << Drop("d1", <<"a", "">>), Drop("", <<"a">>),
                Tokenize("t1", <<"a", "b">>, "k1"), Tokenize("t2", <<"b">>, "k2"),
                Masking("m1", <<B, Body, <<"resource", "b">>, <<"span", "b">> >>, "hex", "x"),
                Masking("m2", <<Body, B, B>>, "x", "y") >>,
   secrets |-> [k \in {"k1", "k2", "k3"} |-> IF k = "k3" THEN "" ELSE k]]
Plain ==
  [rules |-> << Masking("m2", <<Body, Empty, B, Body>>, "ssn", "x"),
                Masking("m1", <<Body>>, "x", "y"),
                Drop("d1", <<"b">>) >>,
   secrets |-> <<>>]
Broken == [Plain EXCEPT !.rules = Append(@, Masking("m3", <<B>>, BadPattern, "x"))]
Missing == [rules |-> <<>>, secrets |-> <<>>]

MCCalls == {c1, c2}
MCAtoms == {<<kind>> : kind \in {"ssn", "txt", "x", "y"}}
MCPolicies == {Layered, Plain, Broken, Missing}

SSN == << <<"ssn">>, <<"txt">>, <<"ssn">> >>
Attrs == [a |-> SSN, b |-> SSN]
Number == [b |-> NonString]
MCBatches == {
  [signal |-> "logs", resources |->
    << [attrs |-> Number, scopes |-> << << [attrs |-> Attrs, body |-> SSN] >> >>] >>],
  [signal |-> "traces", resources |->
    << [attrs |-> [a |-> SSN], scopes |->
         << << >>, << [attrs |-> [b |-> SSN], events |-> <<Number @@ ("" :> SSN)>>, links |-> <<[a |-> SSN]>>] >> >>] >>],
  [signal |-> "metrics", resources |->
    << [attrs |-> << >>, scopes |-> << << [type |-> "Empty"], [type |-> "Sum", points |-> <<Attrs>>] >> >>] >>] }
=============================================================================
