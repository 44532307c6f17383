----------------------------- MODULE MCReceiver -----------------------------
(***************************************************************************)
(* The threads around the queues, for TLC: the detector at one end, the    *)
(* VITA 49 listener before it, and positioning, the SBS server, the web    *)
(* server and the TCP feeds at the other.  A behaviour is one part's; the  *)
(* others do not move.                                                     *)
(***************************************************************************)
EXTENDS BurstDetector, Positioning, SbsServer, WebServer, HubFeed, Vita49, TLC

CONSTANT Parts

VARIABLE part

\* Detector: eight bins, the DC notch at bin 4, so peaks at 1, 2, 3, 5 and 6, and
\* bursts one bin to each side.  Silence, one signal, one that drifts, two in
\* each other's band, one beside an edge and the notch, enough for the squelch.
SmallSpectra == {{}, {1}, {2}, {1, 2}, {0, 4, 6}, {1, 3, 5}}

\* Positioning: nothing yet, or three satellites with two measurements each,
\* near each other or not.
Pass(id, p) ==
    [NewSat(id) EXCEPT !.meas[0] = [pos |-> p, time |-> 1],
                       !.meas[1] = [pos |-> p + 1, time |-> 2], !.head = 2, !.count = 2]

SmallTables ==
    {<<>>} \cup {<<Pass(1, p), Pass(2, q), Pass(3, r)>> : p, q, r \in {1, 2, 9}}

\* VITA 49: no setting, all of them, some, and a format that may be asked for.
Holding(rate, freq, format) == [rate |-> rate, freq |-> freq, format |-> format]

SmallContexts ==
    {Holding(Absent, Absent, Absent), Holding(1, 1, 1), Holding(2, Absent, 0),
     Holding(Absent, 2, Absent)}

SmallExplicitSets == {{}, {"rate"}, {"freq"}, {"format"}, Settings}

\* The choices of a part that does not move are fixed.
ReceiverInit ==
    /\ part \in Parts
    /\ Init /\ PosInit /\ SbsInit /\ WebInit /\ HubInit /\ VitaInit
    /\ part # "detector" => mode = "cpu"
    /\ part # "doppler" => satellites = <<>>
    /\ part # "sbs" => bs_mode = "client"
    /\ part # "hub" => ~up
    /\ part # "vita" => explicit = {}

ReceiverNext ==
    /\ UNCHANGED part
    /\ \/ part = "detector" /\ Next /\ UNCHANGED <<posVars, sbsVars, webVars, hubVars, vitaVars>>
       \/ part = "doppler" /\ PosNext /\ UNCHANGED <<vars, sbsVars, webVars, hubVars, vitaVars>>
       \/ part = "sbs" /\ SbsNext /\ UNCHANGED <<vars, posVars, webVars, hubVars, vitaVars>>
       \/ part = "web" /\ WebNext /\ UNCHANGED <<vars, posVars, sbsVars, hubVars, vitaVars>>
       \/ part = "hub" /\ HubNext /\ UNCHANGED <<vars, posVars, sbsVars, webVars, vitaVars>>
       \/ part = "vita" /\ VitaNext /\ UNCHANGED <<vars, posVars, sbsVars, webVars, hubVars>>

ReceiverSpec ==
    ReceiverInit /\ [][ReceiverNext]_<<part, vars, posVars, sbsVars, webVars, hubVars, vitaVars>>
=============================================================================
