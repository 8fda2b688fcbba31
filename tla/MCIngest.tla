------------------------------ MODULE MCIngest ------------------------------
(* Model checking of Ingest: requests are interchangeable, and so are keys. *)
EXTENDS Ingest, TLC

Symmetry == Permutations(Requests) \cup Permutations(Keys)
=============================================================================
