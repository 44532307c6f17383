------------------------------ MODULE BeamCache ------------------------------
(***************************************************************************)
(* The beam cache of main.c: a ring of the ground beams last decoded, with *)
(* the time each was received, looked up for the beam an ACARS message     *)
(* came by.  Times are ticks; 0 marks an entry never written.              *)
(***************************************************************************)
EXTENDS Integers, FiniteSetsExt

CONSTANTS
    BeamSlots,  \* BEAM_CACHE_SIZE, 64
    BeamWindow  \* 10 s

ASSUME BeamAssumption == BeamSlots \in Nat \ {0} /\ BeamWindow \in Nat

NoBeam == [time |-> 0, pos |-> 0]

EmptyCache == [entry |-> [i \in 0 .. BeamSlots - 1 |-> NoBeam], head |-> 0]

\* The output thread's part for a beam on the ground.  head counts up for ever.
beam_cache_insert(c, beam) ==
    [entry |-> [c.entry EXCEPT ![c.head % BeamSlots] = beam], head |-> c.head + 1]

\* The i-th entry back from the newest.
Back(c, i) == c.entry[(c.head - 1 - i + BeamSlots) % BeamSlots]

\* An entry too old does not end the search: it may be taken.
beam_cache_lookup_NoLimit(c, time) ==
    LET past == {i \in 0 .. BeamSlots - 1 : Back(c, i).time <= time}
    IN  IF past = {} THEN NoBeam ELSE Back(c, Min(past))

\* Entries of the future are passed over; the first other one decides, and an
\* empty or an old one ends the search.  NoBeam stands for "not found".
beam_cache_lookup(c, time) ==
    LET past == {i \in 0 .. BeamSlots - 1 : Back(c, i).time <= time}
        e == Back(c, Min(past))
    IN  IF past = {} \/ e.time = 0 \/ time - e.time > BeamWindow
        THEN NoBeam ELSE e
=============================================================================
