---------------------------- MODULE AircraftFeed ----------------------------
(***************************************************************************)
(* The output thread's way from decoded frames to what is shown of them:   *)
(* ring alerts fill the map's beams, the beam cache and the satellites'    *)
(* places, broadcasts the list of satellites, paging messages the places   *)
(* of terminals, and ACARS messages go to the outputs chosen on the        *)
(* command line, the table of aircraft and the SBS tracks.                 *)
(* Frames are decoded by several workers: their times may go back.         *)
(***************************************************************************)
EXTENDS BeamCache, WebTables, AcarsOps

CONSTANTS
    Regs,       \* registrations
    InDatabase, \* those aircraft_db_lookup knows
    Places,     \* positions, on a line
    OptionSets, \* the option sets to run with
    Satellites, \* their identities, 0 among them
    Traffics,   \* the mixtures of frames to run with
    Late,       \* how far a frame's time may lie behind the newest
    Ahead,      \* and how far before it
    MaxFrames   \* bound on the frames handled

\* A frame's time lies so little behind the newest that, taken for a time
\* ahead, it would be longer than any time a speed is derived over.
ASSUME FeedAssumption ==
    /\ Places \subseteq Int /\ NoPos \notin Places /\ NoReg \notin Regs
    /\ {Late, Ahead, MaxFrames} \subseteq Nat /\ Late + LongAgo <= Word

VARIABLES
    opt,      \* the command line
    traffic,  \* the kinds of frame received
    ordered,  \* whether frames come in the order of their times
    cache,    \* beam_cache
    web,      \* state of web_map.c
    track,    \* bs_track
    newest,   \* the newest time so far
    frames,   \* how many frames were handled
    last,     \* the frame handled last and where it went
    log       \* what was received, and when each aircraft got a fix

feedVars == <<opt, traffic, ordered, cache, web, track, newest, frames, last, log>>

NoFrame == [kind |-> "none"]

FeedInit ==
    /\ opt \in OptionSets
    /\ traffic \in Traffics
    /\ ordered \in BOOLEAN
    /\ cache = EmptyCache
    /\ web = [beams |-> EmptyRing, orbits |-> EmptyRing, terminals |-> EmptyRing,
              texts |-> EmptyRing, sats |-> <<>>, aircraft |-> <<>>]
    /\ track = <<>>
    /\ newest = 1
    /\ frames = 0
    /\ last = NoFrame
    /\ log = [beams |-> <<>>, orbits |-> <<>>, terminals |-> <<>>, texts |-> <<>>,
              sats |-> [i \in Satellites |-> 0],
              fix |-> [r \in Regs |-> 0], sbs |-> [r \in Regs |-> 0]]

\* The times the next frame may have.
Times == {t \in newest - Late .. newest + Ahead : t > 0 /\ (ordered => t >= newest)}

At(t) ==
    /\ frames < MaxFrames
    /\ frames' = frames + 1
    /\ newest' = IF t > newest THEN t ELSE newest
    /\ UNCHANGED <<opt, traffic, ordered>>

\* A ring-alert frame, by the height of the place it gives: web_map_add_ra
\* and, for a beam on the ground, the beam cache.
RingAlert(t, pos, height) ==
    /\ opt.web
    /\ At(t)
    /\ web' = CASE height = "ground" ->
                     [web EXCEPT !.beams = add_beam_locked(@, [beam |-> pos, time |-> t])]
                [] height = "orbit" -> [web EXCEPT !.orbits = RingAdd(@, pos)]
                [] OTHER -> web
    /\ cache' = IF height = "ground"
                THEN beam_cache_insert(cache, [time |-> t, pos |-> pos]) ELSE cache
    /\ log' = CASE height = "ground" ->
                     [log EXCEPT !.beams = Append(@, [time |-> t, pos |-> pos])]
                [] height = "orbit" -> [log EXCEPT !.orbits = Append(@, pos)]
                [] OTHER -> log
    /\ last' = [kind |-> "alert"]
    /\ UNCHANGED track

\* A broadcast frame: web_map_add_sat, which leaves identity 0 out.
Broadcast(t, id, beam) ==
    /\ opt.web
    /\ At(t)
    /\ web' = IF id = 0 THEN web
              ELSE [web EXCEPT !.sats = web_map_add_sat(@, id, beam, t)]
    /\ log' = [log EXCEPT !.sats[id] = @ + 1]
    /\ last' = [kind |-> "broadcast"]
    /\ UNCHANGED <<cache, track>>

\* mtpos_ida_cb: a paging message that holds a place, or none that is valid.
Paging(t, pos) ==
    /\ opt.web
    /\ At(t)
    /\ web' = IF pos = NoPos THEN web ELSE [web EXCEPT !.terminals = RingAdd(@, pos)]
    /\ log' = IF pos = NoPos THEN log ELSE [log EXCEPT !.terminals = Append(@, pos)]
    /\ last' = [kind |-> "paging"]
    /\ UNCHANGED <<cache, track>>

\* The place of the beam a message came by, or NoPos.
BeamAt(t) == LET b == beam_cache_lookup(cache, t)
             IN  IF b = NoBeam THEN NoPos ELSE b.pos

\* acars_parse_libacars or acars_parse_fallback: the outputs, in order the
\* sidebar, the map's aircraft and the SBS line with its track.
Acars(t, m) ==
    LET out == Outputs(opt, m, BeamAt(t))
        at == PositionOf(opt, m, BeamAt(t))
        fix == [pos |-> at.pos, time |-> t, exact |-> at.exact]
        table == web_map_add_aircraft(web.aircraft, m.reg, fix)
        sbs == "sbs" \in out /\ m.reg \in InDatabase
    IN  /\ At(t)
        /\ web' = [web EXCEPT
                     !.texts = IF "sidebar" \in out THEN RingAdd(@, m.reg) ELSE @,
                     !.aircraft = IF "map" \in out THEN table ELSE @]
        /\ track' = IF sbs THEN bs_derive_track(track, m.reg, fix) ELSE track
        /\ last' = [kind |-> "acars", time |-> t, beam |-> BeamAt(t), before |-> log.sbs[m.reg],
                    speed |-> sbs /\ HaveTrack(track, m.reg, fix)]
        /\ log' = [log EXCEPT
                     !.texts = IF "sidebar" \in out THEN Append(@, m.reg) ELSE @,
                     !.fix = IF "map" \in out /\ table # web.aircraft
                             THEN [@ EXCEPT ![m.reg] = t] ELSE @,
                     !.sbs = IF sbs THEN [@ EXCEPT ![m.reg] = t] ELSE @]
        /\ UNCHANGED cache

\* The messages of this traffic: clean, with and without a place in the text.
Plain(r, p) ==
    [reg |-> r, err |-> FALSE, more |-> FALSE, txt |-> TRUE, heartbeat |-> FALSE,
     adsc |-> NoPos, text |-> p, wp |-> NoPos]

Heights == {"ground", "between", "orbit"}

FeedNext ==
    \/ \E t \in Times, p \in Places, h \in traffic \cap Heights : RingAlert(t, p, h)
    \/ \E t \in Times, i \in Satellites, p \in Places :
         "broadcast" \in traffic /\ Broadcast(t, i, p)
    \/ \E t \in Times, p \in Places \cup {NoPos} : "paging" \in traffic /\ Paging(t, p)
    \/ \E t \in Times, r \in Regs, p \in Places \cup {NoPos} :
         "acars" \in traffic /\ Acars(t, Plain(r, p))

FeedSpec == FeedInit /\ [][FeedNext]_feedVars
-----------------------------------------------------------------------------
(* The tables keep their shape: rings and tables within their sizes.        *)
FeedTypeOK ==
    /\ \A r \in {web.beams, web.orbits, web.terminals, web.texts} : r.head < RingSlots /\ r.count <= RingSlots
    /\ Len(web.aircraft) <= MaxAircraft /\ Len(track) <= MaxAircraft
    /\ Len(web.sats) <= MaxSatellites
    /\ \A i \in DOMAIN web.aircraft : Len(web.aircraft[i].fixes) \in 1 .. MaxFixes
    /\ cache.head = Len(log.beams)

(* A message is placed by a beam received at most BeamWindow before it, and *)
(* never after it; while frames come in order it is the newest beam, and    *)
(* there is a place whenever that beam is not too old.                      *)
BeamIsRecent ==
    last.kind = "acars" =>
      LET fits(b) == b.pos = last.beam /\ last.time - b.time \in 0 .. BeamWindow
          n == Len(log.beams)
      IN  /\ last.beam # NoPos => \E i \in 1 .. n : fits(log.beams[i])
          /\ ordered /\ n > 0 /\ last.time - log.beams[n].time <= BeamWindow =>
               last.beam = log.beams[n].pos

\* The entries of table are those last given a time in seen.
KeepsNewest(table, seen) ==
    LET keys == {table[i].key : i \in DOMAIN table}
    IN  /\ \A i, j \in DOMAIN table : table[i].key = table[j].key => i = j
        /\ \A i \in DOMAIN table : table[i].seen = seen[table[i].key]
        /\ \A r \in Regs \ keys : seen[r] = 0 \/ Len(table) = MaxAircraft
        /\ ordered => \A r \in Regs \ keys, k \in keys : seen[r] <= seen[k]

(* An aircraft is listed once, in the map's table and in the SBS tracks,    *)
(* with its newest fix; only a full table forgets one, and while frames     *)
(* come in order the one forgotten was heard of least recently.             *)
TablesKeepNewest ==
    KeepsNewest(web.aircraft, log.fix) /\ KeepsNewest(track, log.sbs)

(* While frames come in order, no aircraft's line on the map makes it fly   *)
(* faster than TopSpeed to a place that is only a beam's.                   *)
PlausibleLines ==
    ordered => \A i \in DOMAIN web.aircraft :
      LET f == web.aircraft[i].fixes
      IN  \A k \in 1 .. Len(f) - 1 :
            LET dt == f[k + 1].time - f[k].time
            IN  \/ f[k + 1].exact \/ dt = 0 \/ dt >= LongAgo
                \/ Apart(f[k].pos, f[k + 1].pos) <= TopSpeed * dt

Backwards(l) == [i \in 1 .. Len(l) |-> l[(Len(l) - i) + 1]]

(* Each ring lists the newest of what was received, newest first, and no    *)
(* beam is listed twice among the newest Dedup + 1: what a duplicate        *)
(* refreshes is the one it repeats.                                         *)
MapShowsNewest ==
    /\ \A ring \in {"orbits", "terminals", "texts"} :
         LET max == IF ring = "texts" THEN RingSlots ELSE Min({RingSlots, MaxListed})
         IN  Listed(web[ring], max) =
               SubSeq(Backwards(log[ring]), 1, Min({max, Len(log[ring])}))
    /\ LET b == Listed(web.beams, MaxListed)
       IN  \A i, j \in DOMAIN b : i < j /\ j <= i + Dedup => b[i].beam # b[j].beam

(* A satellite is listed once, with all the broadcasts heard of it, or not  *)
(* at all because the table was already full of others: none that is listed *)
(* is ever lost.                                                            *)
SatellitesAreCounted ==
    LET ids == {web.sats[i].id : i \in DOMAIN web.sats}
        heard == {i \in Satellites \ {0} : log.sats[i] > 0}
    IN  /\ \A i, j \in DOMAIN web.sats : web.sats[i].id = web.sats[j].id => i = j
        /\ ids \subseteq heard
        /\ ids # heard => Len(web.sats) = MaxSatellites
        /\ \A i \in DOMAIN web.sats : web.sats[i].count = log.sats[web.sats[i].id]

(* A speed is only derived from a line sent earlier, by the clock of the   *)
(* frames: a frame that comes late gives none, however the times compare.   *)
SpeedsLookBack ==
    last.kind = "acars" /\ last.speed => last.before > 0 /\ last.time - last.before > MinGap

(* The map and the SBS tracks show what was received last: full tables and  *)
(* rings, duplicates and frames that come late lose nothing else.           *)
MapKeepsNewest ==
    FeedTypeOK /\ TablesKeepNewest /\ MapShowsNewest /\ SatellitesAreCounted

(* Speeds make sense, those drawn as lines and those sent to SBS clients,   *)
(* although times are unsigned and frames come late.                        *)
SpeedsArePlausible == PlausibleLines /\ SpeedsLookBack
=============================================================================
