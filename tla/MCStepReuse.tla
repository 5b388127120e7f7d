----------------------------- MODULE MCStepReuse -----------------------------
(* Small instances of StepReuse: two of each kind, a cache of two.          *)
EXTENDS StepReuse, TLC

Interchangeable ==
  Permutations(Contracts) \cup Permutations(Scopes) \cup Permutations(Shapes)
=============================================================================
