------------------------------ MODULE MCEgress ------------------------------
(* Instances of Egress: which detectors there are, what requests carry.    *)
EXTENDS Egress

T(names) == [i \in DOMAIN names |-> Literal(names[i])]
P(names) == [i \in DOMAIN names |-> T(<<names[i]>>)]

(* The second field is below a key that a detector matches: what it holds  *)
(* comes back at another position than it was taken from.                  *)
MCFields == <<P(<<"messages", "0", "content">>), P(<<"metadata", "mail">>), P(<<"model">>)>>
MCModelPointer == P(<<"choices", "0", "message", "content">>)
MCIndices == {T(<<"0">>)}
MCKnownKeys == {T(<<"content">>)}
MCStructuralKeys == {T(<<"model">>)}

(* Decoding uncovers a key; casefolding hides one that only matches in     *)
(* upper case.                                                             *)
MCHidden == "encoded" :> "key1" @@ "KEY3" :> "plain"

(* A leaf secret, and an assignment of which only the value is secret.     *)
Leaf == Detector(<<{"key1", "key2", "KEY3"}>>, 0, {}, {}, TRUE)
Assignment == Detector(<<{"name"}, {"pass1", "pass2", "low"}>>, 2, {"low"}, {"name"}, TRUE)
(* A URL with credentials: any password between its scheme and its host.   *)
DbUrl == Detector(<<{"db"}, {"key1", "pass1", "placeholder", "masked", "plain"}, {"host"}>>,
                  0, {}, {"db"}, TRUE)
Mail == Detector(<<{"mail"}>>, 0, {}, {}, FALSE)

Bearer == Detector(<<{"bearer"}, {"blob"}>>, 0, {}, {"bearer"}, TRUE)

Nesting == <<Leaf, Assignment, DbUrl, Bearer, Mail>>

(* No rule matches in two places that overlap; all but the URL leave the   *)
(* marks of redaction alone.                                               *)
ASSUME \A d \in ToSet(Nesting) : Apart(d) /\ (Separate(d) <=> d # DbUrl)

(* Secrets twice and beside each other; a key that only decoding uncovers  *)
(* or casefolding hides; credentials in a URL: harmless, around a *)
(* key, and around a token that a later rule takes out of their middle; a  *)
(* value below its rule's entropy.                                         *)
TwoSessions ==
  "s1" :> {T(<<"key1", "name", "pass1", "key1">>), T(<<"encoded", "KEY3">>),
           T(<<"db", "key1", "host">>), T(<<"db", "bearer", "blob", "host">>),
           T(<<"name", "low">>)}
    @@ "s2" :> {T(<<"key2", "plain">>)}

BlockTexts ==
  "s1" :> {T(<<"plain">>), T(<<"name", "low">>), T(<<"name", "pass1">>), T(<<"encoded">>)}
    @@ "s2" :> {T(<<"key2">>), T(<<"plain", "name">>)}

MCTexts == [redact |-> TwoSessions, block |-> BlockTexts]
=============================================================================
