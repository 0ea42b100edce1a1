-------------------------- MODULE MCContextGateway --------------------------
(* An instance of ContextGateway: what the wrapped server may write.       *)
EXTENDS ContextGateway

T(names) == [i \in DOMAIN names |-> Literal(names[i])]
L(kind, keys, values) == [kind |-> kind, keys |-> keys, values |-> values]

(* A result with a secret, and with another one behind a line break that   *)
(* only decoding uncovers, one with such a secret for a key of an object,  *)
(* and a message that is no tool result.                                   *)
MCLines ==
  {L("result", <<T(<<"plain">>)>>, <<T(<<"key1">>), T(<<"break_encoded">>)>>),
   L("result", <<T(<<"encoded">>)>>, <<T(<<"plain">>)>>),
   L("other", <<>>, <<T(<<"key1">>)>>)}

MCFragments == {L("torn", <<>>, <<T(<<"key1">>)>>)}

MCHidden == "encoded" :> "key1" @@ "break_encoded" :> "key1"

(* The letter that a line break is escaped as is glued to what follows.    *)
MCEscapes == "break_encoded" :> "n_encoded"

MCDetectors ==
  <<Detector(<<{"key1"}>>, 0, {}, {}, TRUE),
    Detector(<<{"name"}, {"pass1"}>>, 2, {}, {"name"}, TRUE)>>

(* Here the rules match in no two places that overlap, and the probe       *)
(* reaches what it is there for.                                           *)
ASSUME RulesApart /\ ProbeReaches
=============================================================================
