--------------------------- MODULE MCRuleIntegrity ---------------------------
(* Instances of RuleIntegrity.                                             *)
EXTENDS RuleIntegrity

(* Two configured files in one directory.                                  *)
Beside == <<"secrets", "more">>
=============================================================================
