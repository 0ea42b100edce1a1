----------------------------- MODULE MCApproveCli -----------------------------
(* The broker with the polling CLI on a small instance.  The handlers of    *)
(* one kind are interchangeable, and so are the codes.                      *)
EXTENDS ApproveCli, TLC

Symmetry == Permutations(Approvers) \cup Permutations(Readers) \cup Permutations(Codes)
=============================================================================
