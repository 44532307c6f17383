-------------------------- MODULE MCBlockingQueue ---------------------------
(* BlockingQueue for TLC, with the specification it implements. *)
EXTENDS QueueRefinement, TLC

Symmetry == Permutations(Threads) \cup Permutations(Elements)
=============================================================================
