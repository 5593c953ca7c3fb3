----------------------------- MODULE MCApproval -----------------------------
(***************************************************************************)
(* Model-checking instances of ApprovalAuthority.                          *)
(***************************************************************************)
EXTENDS ApprovalProperties, TLC

Symmetry == Permutations(Answerers) \cup Permutations(Finalizers) \cup Permutations(Escalating)
=============================================================================
