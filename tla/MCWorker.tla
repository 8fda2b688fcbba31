------------------------------ MODULE MCWorker ------------------------------
(* Model checking of Worker: events, slots and targets are interchangeable. *)
EXTENDS Worker, TLC

Symmetry ==
  Permutations(Events) \cup Permutations(Slots) \cup Permutations(Targets)
=============================================================================
