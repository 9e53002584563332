---------------------------- MODULE MCInstallation ----------------------------
(* Installation on small instances. *)
EXTENDS Installation, TLC

Symmetry == Permutations(Updates)

=============================================================================
