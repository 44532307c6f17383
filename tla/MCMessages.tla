----------------------------- MODULE MCMessages -----------------------------
(***************************************************************************)
(* What is made of the bursts, for TLC: decoding, the SBD messages and the *)
(* outputs.  A behaviour is one part's; the others do not move.            *)
(***************************************************************************)
EXTENDS SbdReassembly, AircraftFeed, AcarsRouting, Decoding, TLC

CONSTANT Parts

VARIABLE part

\* SBD: two senders of one direction and one of the other.
Dirs(s) == IF s = "u" THEN "UL" ELSE "DL"

\* Both builds, with and without estimated positions for the SBS clients.
TwoOptionSets ==
    LET with(libacars, beam) ==
          [libacars |-> libacars, web |-> TRUE, json |-> FALSE, udp |-> FALSE,
           feeds |-> TRUE, sbs |-> TRUE, beam |-> beam]
    IN  {with(FALSE, TRUE), with(TRUE, FALSE)}

TwoTraffics == {{"ground", "acars"}, {"between", "orbit", "broadcast", "paging"}}

\* No soft information, weak bits apart and weak bits among the wrong ones.
ThreeWeakLists == {<<>>, <<30, 0, 5>>, <<9, 14>>}

\* Aircraft differ by name only, and so do the senders of one direction.
Symmetry == Permutations(Regs) \cup Permutations(Senders \ {"u"})

OneOf(S) == CHOOSE x \in S : TRUE

\* The choices of a part that does not move are fixed; without estimates for
\* the SBS clients frames come in order.
MessagesInit ==
    /\ part \in Parts
    /\ SbdInit /\ FeedInit /\ RouteInit /\ DecodeInit
    /\ part # "sbd" => clean
    /\ opt.beam \/ ordered
    /\ part # "feed" => opt = OneOf(OptionSets) /\ traffic = OneOf(Traffics) /\ ordered

MessagesNext ==
    /\ UNCHANGED part
    /\ \/ part = "sbd" /\ SbdNext /\ UNCHANGED <<feedVars, routeVars, decodeVars>>
       \/ part = "feed" /\ FeedNext /\ UNCHANGED <<sbdVars, routeVars, decodeVars>>
       \/ part = "route" /\ RouteNext /\ UNCHANGED <<sbdVars, feedVars, decodeVars>>
       \/ part = "decode" /\ DecodeNext /\ UNCHANGED <<sbdVars, feedVars, routeVars>>

MessagesSpec ==
    MessagesInit /\ [][MessagesNext]_<<part, sbdVars, feedVars, routeVars, decodeVars>>
=============================================================================
