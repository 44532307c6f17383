--------------------------- MODULE MCIdaReassembly ---------------------------
(***************************************************************************)
(* Small instances of IdaReassembly.                                       *)
(***************************************************************************)
EXTENDS IdaReassembly

\* Two channels of one direction, out of each other's tolerance.
Two == {[dir |-> "DL", freq |-> 0], [dir |-> "DL", freq |-> 3]}

\* A single sender.
One == {[dir |-> "UL", freq |-> 0]}
=============================================================================
