--------------------------- MODULE MCConsumerIntent ---------------------------
(***************************************************************************)
(* Model-checking instances of ConsumerIntent.  Requests are alike, and so *)
(* are workers: safety is checked up to their permutation.                 *)
(***************************************************************************)
EXTENDS ConsumerIntentProperties, TLC

Symmetry == Permutations(Requests) \cup Permutations(Workers)
=============================================================================
