------------------------- MODULE MCMutationDelivery ---------------------------
(* Finite instances of MutationDelivery for TLC.                           *)
EXTENDS MutationDelivery, TLC

Symmetry == Permutations(Tokens) \cup Permutations(Results) \cup Permutations(Workers)

=============================================================================
