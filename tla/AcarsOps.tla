------------------------------ MODULE AcarsOps ------------------------------
(***************************************************************************)
(* Where an ACARS message goes: acars_parse_libacars and, in a build       *)
(* without libacars, acars_parse_fallback of sbd_acars.c.  An option set o *)
(* is [libacars, web, json, udp, feeds, sbs, beam]; a message is           *)
(* [reg, err, more, txt, heartbeat, adsc, text, wp]: its aircraft, whether *)
(* its check failed, whether libacars waits for more of its blocks, and    *)
(* the positions it holds in the three forms the program reads.            *)
(***************************************************************************)
EXTENDS Integers

CONSTANTS
    NoPos,   \* no position
    NoReg    \* a registration of dots alone

\* Priority: ADS-C, which only libacars decodes, then the text's coordinates,
\* the waypoint it names and last the beam the message came by.
PositionOf(o, m, beam) ==
    CASE o.libacars /\ m.adsc # NoPos -> [pos |-> m.adsc, exact |-> TRUE]
      [] ~(o.libacars /\ m.adsc # NoPos) /\ m.txt /\ m.text # NoPos ->
           [pos |-> m.text, exact |-> TRUE]
      [] ~(o.libacars /\ m.adsc # NoPos) /\ m.txt /\ m.text = NoPos /\ m.wp # NoPos ->
           [pos |-> m.wp, exact |-> TRUE]
      [] OTHER -> [pos |-> beam, exact |-> FALSE]

\* JSON and UDP are for clean messages, and an erroneous one ends there.
EndsEarly(o, m) == (o.libacars /\ m.more) \/ ((o.json \/ o.udp) /\ m.err)

\* The sidebar of the map: in the fallback it hangs on the feeds.
Sidebar(o, m) ==
    /\ o.web /\ ~m.err /\ m.txt /\ ~m.heartbeat
    /\ o.libacars \/ (o.feeds /\ m.reg # NoReg)

\* In the fallback the map hangs on the feeds, like the sidebar.
Mapped_Feeds(o, m, beam) ==
    /\ o.web /\ ~m.err /\ m.reg # NoReg /\ PositionOf(o, m, beam).pos # NoPos
    /\ o.libacars \/ o.feeds

Mapped(o, m, beam) ==
    o.web /\ ~m.err /\ m.reg # NoReg /\ PositionOf(o, m, beam).pos # NoPos

\* Estimates go out by --basestation-beam only.
Sent(o, m, beam) ==
    Mapped(o, m, beam) /\ o.sbs /\ (PositionOf(o, m, beam).exact \/ o.beam)

\* Everywhere the message goes.
Outputs(o, m, beam) ==
    IF EndsEarly(o, m) THEN {}
    ELSE {x \in {"json", "udp", "text", "sidebar", "hub", "map", "sbs"} :
            CASE x = "json" -> o.json
              [] x = "udp" -> o.udp
              [] x = "text" -> ~o.json
              [] x = "sidebar" -> Sidebar(o, m)
              [] x = "hub" -> o.feeds /\ ~m.err
              [] x = "map" -> Mapped(o, m, beam)
              [] x = "sbs" -> Sent(o, m, beam)}
=============================================================================
