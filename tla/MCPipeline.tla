----------------------------- MODULE MCPipeline -----------------------------
(***************************************************************************)
(* Small instances of Pipeline.                                            *)
(***************************************************************************)
EXTENDS Pipeline, TLC

\* Every queue holds one item: each can be full while the next is too.
One == [n \in Queues |-> 1]

\* The workers run the same code on the same queue.
Symmetry == Permutations(Workers)
=============================================================================
