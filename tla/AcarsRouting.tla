---------------------------- MODULE AcarsRouting ----------------------------
(***************************************************************************)
(* Where a single ACARS message goes, for every command line, every kind of *)
(* message and both builds, with and without libacars.                     *)
(***************************************************************************)
EXTENDS AcarsOps

CONSTANT Somewhere  \* a position

VARIABLE route  \* the message handled and how; its kind is "none" before

routeVars == <<route>>

OptionSpace ==
    [libacars : BOOLEAN, web : BOOLEAN, json : BOOLEAN, udp : BOOLEAN,
     feeds : BOOLEAN, sbs : BOOLEAN, beam : BOOLEAN]

Messages ==
    [reg : {NoReg, "reg"}, err : BOOLEAN, more : BOOLEAN, txt : BOOLEAN,
     heartbeat : BOOLEAN, adsc : {NoPos, Somewhere}, text : {NoPos, Somewhere},
     wp : {NoPos, Somewhere}]

RouteInit == route = [kind |-> "none"]

\* acars_parse_libacars or acars_parse_fallback, as far as its outputs go.
Route(o, m, beam) ==
    route' = [kind |-> "acars", o |-> o, m |-> m, beam |-> beam]

RouteNext ==
    /\ route.kind = "none"
    /\ \E o \in OptionSpace, m \in Messages, beam \in {NoPos, Somewhere} : Route(o, m, beam)

RouteSpec == RouteInit /\ [][RouteNext]_routeVars
-----------------------------------------------------------------------------
(* Whatever is on the command line, a message whose check failed reaches    *)
(* nothing but the text on standard output, and a place estimated from a    *)
(* beam is sent to SBS clients only if --basestation-beam asks for it.      *)
OnlyCleanIsShared ==
    route.kind = "acars" =>
      LET out == Outputs(route.o, route.m, route.beam)
      IN  /\ route.m.err => out \subseteq {"text"}
          /\ "sbs" \in out /\ ~route.o.beam =>
               PositionOf(route.o, route.m, route.beam).exact

(* With and without libacars the same messages reach the map, the feeds and *)
(* the SBS clients, unless only libacars can read the position (ADS-C) or   *)
(* waits for more blocks.  (The sidebar of the map is not compared: without *)
(* libacars it is filled only when a feed is configured.)                   *)
BuildsAgree ==
    route.kind = "acars" /\ ~route.m.more /\ route.m.adsc = NoPos =>
      LET by(lib) == Outputs([route.o EXCEPT !.libacars = lib], route.m, route.beam)
      IN  by(TRUE) \ {"sidebar"} = by(FALSE) \ {"sidebar"}

(* Each message goes where it should, by both parsers: nothing damaged or   *)
(* guessed is passed on, and the two agree on all the rest.                 *)
RoutesAreRight == OnlyCleanIsShared /\ BuildsAgree
=============================================================================
