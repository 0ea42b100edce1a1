---------------------------- MODULE MCPolicyLoad ----------------------------
(* Instances of PolicyLoad.                                                *)
EXTENDS PolicyLoad, TLC

Symmetry == Permutations(Keys) \cup Permutations(Valid)
=============================================================================
