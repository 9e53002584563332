--------------------------- MODULE MCQueueServer ------------------------------
(* Finite instances of QueueServer for TLC.                                *)
EXTENDS QueueServer, TLC

\* Interchangeable model values: nothing in QueueServer tells two tokens, two
\* results, two payloads or two concurrent requests of one kind apart.
Symmetry ==
  Permutations(Tokens) \cup Permutations(Results) \cup Permutations(Payloads)
    \cup Permutations(Reporters) \cup Permutations(Pollers) \cup Permutations(Callers)

=============================================================================
