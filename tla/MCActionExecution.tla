-------------------------- MODULE MCActionExecution --------------------------
(* Instances of ActionExecution: policies, stores and detectors.           *)
EXTENDS ActionExecution

Ref(scheme, path, field) == [scheme |-> scheme, path |-> path, field |-> field]

Token1 == Ref("env", "DEPLOY_TOKEN", NoField)
DbPassword == Ref("vault", "infra/db", "password")
(* Turned down: an env reference with a field, a vault reference without   *)
(* one, and a scheme nobody registered.                                    *)
EnvField == Ref("env", "DEPLOY_TOKEN", "part")
VaultWhole == Ref("vault", "infra/db", NoField)
NoBackend == Ref("keychain", "infra/db", NoField)

Def(env, output, unsupported) ==
  [env |-> env, output |-> output, unsupported |-> unsupported]

MCActions ==
  {Def(<<Token1>>, "redact", FALSE),
   Def(<<Token1, DbPassword>>, "redact", FALSE),
   Def(<<DbPassword>>, "suppress", FALSE),
   Def(<<Token1, EnvField>>, "redact", FALSE),
   Def(<<VaultWhole>>, "redact", FALSE),
   Def(<<DbPassword, NoBackend>>, "redact", FALSE),
   Def(<<>>, "redact", TRUE)}

MCRegistered == {"env", "vault"}

T(names) == [i \in DOMAIN names |-> Literal(names[i])]

(* A key with a shape, a password without one, an empty variable; a secret *)
(* that only its two halves together give away.                            *)
MCStored ==
  [ref \in {Token1, DbPassword, EnvField, VaultWhole, NoBackend} |->
     IF ref.scheme = "env" THEN {T(<<"key1">>), T(<<"pass1">>), <<>>}
     ELSE {T(<<"head", "tail">>)}]

MCHidden == "encoded" :> "key1"

(* The later rules match what the earlier ones leave.                      *)
MCDetectors ==
  <<Detector(<<{"key1"}>>, 0, {}, {}, TRUE),
    Detector(<<{"head"}, {"tail"}>>, 0, {}, {}, TRUE),
    Detector(<<{"name"}, {"pass1", "masked"}>>, 2, {}, {"name"}, TRUE),
    Detector(<<{"mail"}>>, 0, {}, {}, FALSE)>>

(* Here the rules leave nothing that only one of the two looks finds.     *)
ASSUME RedactionLasts(BoundedSeq({Literal(name) : name \in
  {"key1", "pass1", "head", "tail", "encoded", "plain", "name", "mail"}}, 3))
=============================================================================
