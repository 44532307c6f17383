------------------------------ MODULE WebTables ------------------------------
(***************************************************************************)
(* What web_map.c and basestation.c remember of the traffic: rings of the  *)
(* newest points and messages, a table of aircraft with their last fixes   *)
(* and a table of the last position sent for each.  Positions are places   *)
(* on a line, times ticks of an unsigned clock.                            *)
(***************************************************************************)
EXTENDS Integers, Sequences, FiniteSetsExt

CONSTANTS
    Word,       \* times are modulo 2^64 ns
    RingSlots,  \* MAX_BEAM_POINTS, MAX_RA_POINTS, MAX_MT_POINTS, MAX_ACARS_MSGS
    MaxListed,  \* 500, 300 and 200: how many points build_json lists
    Dedup,      \* how far back add_beam_locked looks, 20
    MaxAircraft,\* MAX_AIRCRAFT, 32; and BS_TRACK_MAX, 64
    MaxSatellites, \* MAX_SATELLITES, 100
    MaxFixes,   \* MAX_AIRCRAFT_FIXES, 8
    LongAgo,    \* 7200 s: no speed is derived over a longer time
    MinGap,     \* 10 s: nor, for an SBS track, over a shorter one
    TopSpeed    \* 1200 km/h and 700 kt, in places per tick

ASSUME TablesAssumption ==
    /\ {Word, RingSlots, MaxAircraft, MaxSatellites, MaxFixes} \subseteq Nat \ {0}
    /\ {MaxListed, Dedup, LongAgo, MinGap, TopSpeed} \subseteq Nat
    /\ LongAgo < Word

\* The size of the difference, whichever time is the later.
Elapsed_Absolute(now, then) == IF now < then THEN then - now ELSE now - then

\* (double)(timestamp_ns - last_seen): the difference of unsigned times.
Elapsed(now, then) == (now - then) % Word

Apart(x, y) == IF x < y THEN y - x ELSE x - y

\* The rings: head is the slot written next, count the slots written.
EmptyRing == [slot |-> [i \in 0 .. RingSlots - 1 |-> <<>>], head |-> 0, count |-> 0]

RingAdd(r, x) ==
    [slot |-> [r.slot EXCEPT ![r.head] = x],
     head |-> (r.head + 1) % RingSlots,
     count |-> IF r.count < RingSlots THEN r.count + 1 ELSE r.count]

NthNewest(r, i) == (r.head - 1 - i + RingSlots) % RingSlots

\* build_json lists the newest first, at most max of them.
Listed(r, max) == [i \in 1 .. Min({r.count, max}) |-> r.slot[NthNewest(r, i - 1)]]

Duplicates(r, b) ==
    {i \in 0 .. Min({r.count, Dedup}) - 1 : r.slot[NthNewest(r, i)].beam = b.beam}

\* A beam listed shortly before only gets the new time.
add_beam_locked(r, b) ==
    LET old == Duplicates(r, b)
    IN  IF old # {} THEN [r EXCEPT !.slot[NthNewest(r, Min(old))].time = b.time]
                    ELSE RingAdd(r, b)
-----------------------------------------------------------------------------
\* The place of key in a table kept as a sequence of entries: its own, a new
\* one at the end, or that of the entry seen longest ago.
PlaceOf(table, key) ==
    LET own == {i \in DOMAIN table : table[i].key = key}
    IN  CASE own # {} -> Min(own)
          [] own = {} /\ Len(table) < MaxAircraft -> Len(table) + 1
          [] OTHER -> Min({i \in DOMAIN table :
                             \A j \in DOMAIN table : table[i].seen <= table[j].seen})

Known(table, key) == \E i \in DOMAIN table : table[i].key = key

Put(table, i, e) == IF i > Len(table) THEN Append(table, e) ELSE [table EXCEPT ![i] = e]

\* A beam estimate the aircraft could not have flown to.
Implausible(e, fix) ==
    LET dt == Elapsed(fix.time, e.seen)
    IN  /\ ~fix.exact /\ e.fixes # <<>> /\ 0 < dt /\ dt < LongAgo
        /\ Apart(e.fixes[Len(e.fixes)].pos, fix.pos) > TopSpeed * dt

WithFix(fixes, fix) ==
    Append(IF Len(fixes) >= MaxFixes THEN Tail(fixes) ELSE fixes, fix)

\* An entry is found by its place alone, so a full table forgets the newest.
web_map_add_aircraft_EvictLast(table, key, fix) ==
    LET i == IF Known(table, key) THEN PlaceOf(table, key)
             ELSE Min({Len(table) + 1, MaxAircraft})
        e == IF Known(table, key) THEN table[i] ELSE [key |-> key, seen |-> 0, fixes |-> <<>>]
    IN  IF Implausible(e, fix) THEN table
        ELSE Put(table, i, [e EXCEPT !.seen = fix.time, !.fixes = WithFix(@, fix)])

\* A new entry has no fixes, so its first is always kept.
web_map_add_aircraft(table, key, fix) ==
    LET i == PlaceOf(table, key)
        e == IF Known(table, key) THEN table[i] ELSE [key |-> key, seen |-> 0, fixes |-> <<>>]
    IN  IF Implausible(e, fix) THEN table
        ELSE Put(table, i, [e EXCEPT !.seen = fix.time, !.fixes = WithFix(@, fix)])

\* Nothing leaves this table; once it is full, newcomers are not listed.
web_map_add_sat(table, id, beam, time) ==
    LET own == {i \in DOMAIN table : table[i].id = id}
        e == [id |-> id, beam |-> beam, seen |-> time,
              count |-> IF own # {} THEN table[Min(own)].count + 1 ELSE 1]
    IN  CASE own # {} -> [table EXCEPT ![Min(own)] = e]
          [] own = {} /\ Len(table) < MaxSatellites -> Append(table, e)
          [] OTHER -> table

\* Ground speed and track are derived from the position sent before.
HaveTrack(table, key, fix) ==
    Known(table, key) /\
      LET e == table[PlaceOf(table, key)]
          dt == Elapsed(fix.time, e.seen)
          way == Apart(e.pos, fix.pos)
      IN  MinGap < dt /\ dt < LongAgo /\ 0 < way /\ way < TopSpeed * dt

bs_derive_track(table, key, fix) ==
    Put(table, PlaceOf(table, key), [key |-> key, seen |-> fix.time, pos |-> fix.pos])
=============================================================================
