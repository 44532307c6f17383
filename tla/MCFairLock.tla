----------------------------- MODULE MCFairLock -----------------------------
(* FairLock for TLC: threads are interchangeable. *)
EXTENDS FairLock, TLC

Symmetry == Permutations(Threads)
=============================================================================
