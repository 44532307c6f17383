----------------------------- MODULE DopplerOps -----------------------------
(***************************************************************************)
(* The measurements of doppler_pos.c: a ring for each satellite heard, and *)
(* which of them the solver may use.  A measurement is [pos, time]: where    *)
(* the satellite says it is (a place on a line for its coordinates), when. *)
(***************************************************************************)
EXTENDS Integers, Sequences, FiniteSetsExt

CONSTANTS
    Word,         \* times are modulo 2^64 ns
    MaxSats,      \* MAX_SATELLITES, 128
    PerSat,       \* MEAS_PER_SAT, 200
    MaxAge,       \* MAX_MEAS_AGE_NS, 30 min
    MinVelGap,    \* MIN_VEL_INTERVAL_NS, 2 s
    MaxVelGap,    \* 600 s
    GapReset,     \* SAT_GAP_RESET_S, 600 s
    ShortGap,     \* 120 s
    TopMove,      \* 10 km/s, in places per tick
    ClusterDist   \* MAX_SAT_CLUSTER_DIST, 8000 km

ASSUME DopplerAssumption ==
    /\ {Word, MaxSats, PerSat} \subseteq Nat \ {0}
    /\ {MaxAge, MinVelGap, MaxVelGap, GapReset, ShortGap, TopMove, ClusterDist} \subseteq Nat
    /\ MinVelGap > 0 /\ 2 * GapReset < Word

Elapsed(now, then) == (now - then) % Word

Distance(x, y) == IF x < y THEN y - x ELSE x - y

Blank == [pos |-> 0, time |-> 0]

NewSat(id) == [id |-> id, meas |-> [i \in 0 .. PerSat - 1 |-> Blank], head |-> 0, count |-> 0]

\* Its place in the table, a new one at the end, or 0 when the table is full.
find_or_create_sat(sats, id) ==
    LET own == {i \in DOMAIN sats : sats[i].id = id}
    IN  CASE own # {} -> Min(own)
          [] own = {} /\ Len(sats) < MaxSats -> Len(sats) + 1
          [] OTHER -> 0

sat_buf_add(s, m) ==
    [s EXCEPT !.meas[s.head] = m, !.head = (@ + 1) % PerSat,
              !.count = IF @ < PerSat THEN @ + 1 ELSE @]

\* The i-th measurement, 0 being the oldest.
sat_buf_get(s, i) ==
    LET start == IF s.count < PerSat THEN 0 ELSE (s.head - s.count + PerSat) % PerSat
    IN  s.meas[(start + i) % PerSat]

Held(s) == [i \in 1 .. s.count |-> sat_buf_get(s, i - 1)]

Newest(s) == s.meas[(s.head - 1 + PerSat) % PerSat]

\* The reset empties the ring and leaves head where it is.
Reset_KeepHead(s) == [s EXCEPT !.count = 0]

Reset(s) == [s EXCEPT !.count = 0, !.head = 0]

\* A frame that is late counts as a long gap: the difference is unsigned.
doppler_pos_add_measurement(s, m) ==
    LET dt == Elapsed(m.time, Newest(s).time)
        way == Distance(m.pos, Newest(s).pos)
    IN  CASE s.count > 0 /\ dt > GapReset -> sat_buf_add(Reset(s), m)
          [] s.count > 0 /\ 0 < dt /\ dt <= GapReset /\ dt < ShortGap /\ way > TopMove * dt -> s
          [] OTHER -> sat_buf_add(s, m)
-----------------------------------------------------------------------------
\* The measurement that fixes the orbital plane with the i-th of h: the first
\* of those farthest in time, 0 if there is none.  The difference is taken of
\* unsigned times, and only then given to fabs.
Partner(h, i) ==
    LET dt == [j \in DOMAIN h |-> Elapsed(h[j].time, h[i].time)]
        fit == {j \in DOMAIN h \ {i} : MinVelGap <= dt[j] /\ dt[j] < MaxVelGap}
    IN  IF fit = {} THEN 0
        ELSE Min({j \in fit : \A k \in fit : dt[k] <= dt[j]})

\* A satellite that seems not to have moved gives no plane.
estimate_velocity(h, i) ==
    LET j == Partner(h, i) IN j # 0 /\ h[j].pos # h[i].pos

Latest(sats) ==
    Max({0} \cup UNION {{Held(sats[k])[i].time : i \in 1 .. sats[k].count} : k \in DOMAIN sats})

Fresh(h, now) == {i \in DOMAIN h : now - h[i].time <= MaxAge}

\* What the solver knows of a satellite: its fresh measurements, those of them
\* with a velocity, and its place by the last of these, or of those.
View(s, now) ==
    LET h == Held(s)
        fresh == Fresh(h, now)
        usable == {i \in fresh : estimate_velocity(h, i)}
        at == IF usable # {} THEN usable ELSE fresh
    IN  [fresh |-> fresh # {}, usable |-> usable,
         pos |-> IF at = {} THEN 0 ELSE h[Max(at)].pos]

Views(sats) == [k \in DOMAIN sats |-> View(sats[k], Latest(sats))]

Moving(view) == {k \in DOMAIN view : view[k].usable # {}}

Near(view, j, k) == Distance(view[j].pos, view[k].pos) < ClusterDist

\* How many satellites seen to move are near each of them.
Neighbours(view) ==
    [k \in Moving(view) |-> Cardinality({j \in Moving(view) \ {k} : Near(view, j, k)})]

\* The most neighbours, then the most usable measurements.
Core(view) ==
    LET n == Neighbours(view)
        v(k) == Cardinality(view[k].usable)
    IN  Min({k \in Moving(view) : \A j \in Moving(view) :
               n[j] < n[k] \/ (n[j] = n[k] /\ v(j) <= v(k))})

\* The visibility filter: with three satellites or more seen to move, those
\* near the core are kept, and newcomers by their last place.
Kept(view) ==
    LET fresh == {k \in DOMAIN view : view[k].fresh}
        c == Core(view)
    IN  IF Cardinality(Moving(view)) < 3 THEN fresh
        ELSE {c} \cup {k \in fresh : Near(view, k, c)}

\* all_meas: for each satellite kept the measurements the solver gets.
Collected(sats) ==
    LET view == Views(sats)
        kept == Kept(view)
    IN  [k \in DOMAIN sats |-> IF k \in kept THEN view[k].usable ELSE {}]
=============================================================================
