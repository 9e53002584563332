-------------------------- MODULE MCStandaloneLoop ----------------------------
(* Finite instances of StandaloneLoop for TLC.                             *)
EXTENDS StandaloneLoop, TLC

Symmetry == Permutations(Tokens) \cup Permutations(Results) \cup Permutations(Callers)

=============================================================================
