------------------------- MODULE MCCaptureDelivery ----------------------------
(* Finite instances of CaptureDelivery for TLC.                            *)
EXTENDS CaptureDelivery, TLC

Symmetry == Permutations(Tokens) \cup Permutations(Results) \cup Permutations(Workers)
              \cup Permutations(Payloads)

=============================================================================
