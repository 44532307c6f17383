----------------------------- MODULE Positioning -----------------------------
(***************************************************************************)
(* Doppler positioning: the output thread adds measurements, the stats     *)
(* thread collects them under pos_lock, solves without it and publishes.   *)
(* The least-squares numbers are not modelled: whether a solve converges,  *)
(* where, and which residuals are large is chosen, within what the         *)
(* arithmetic allows.                                                      *)
(***************************************************************************)
EXTENDS DopplerOps

CONSTANTS
    Ids,          \* satellite identities
    Spots,        \* places of satellites
    Tables,       \* the tables to start from
    Fixes,        \* places of the receiver
    MinMeas,      \* MIN_MEASUREMENTS, 8
    MinSats,      \* MIN_SATELLITES, 2
    Sigma2,       \* OUTLIER_SIGMA squared, 9
    Params,       \* what the fit determines: 4
    JumpDist,     \* MAX_SOLUTION_JUMP, 500 km
    JumpLimit,    \* 5
    Late, Ahead,  \* how far a frame's time may lie from the newest
    MaxFrames,    \* bound on the measurements added
    MaxSteps      \* and on those and the solves begun together

ASSUME PositioningAssumption ==
    /\ {MinMeas, MinSats, Sigma2, Params, JumpDist, JumpLimit} \subseteq Nat \ {0}
    /\ MinMeas <= Sigma2 + Params
    /\ Spots \cup Fixes \subseteq Int
    /\ {Late, Ahead} \subseteq Nat /\ Late + GapReset < Word

\* A ring is well formed, and what it holds is one pass: in the order of the
\* times, without a gap over GapReset.
OnePass(s) ==
    \A i \in 1 .. s.count - 1 : Held(s)[i + 1].time - Held(s)[i].time \in 0 .. GapReset

Measurements == [pos : Int, time : 0 .. Word - 1]

IsRing(s) ==
    /\ s \in [id : {s.id}, meas : [0 .. PerSat - 1 -> Measurements],
              head : 0 .. PerSat - 1, count : 0 .. PerSat]
    /\ s.count < PerSat => s.head = s.count

IsSat(s) == IsRing(s) /\ OnePass(s)

IsTable(sats) ==
    /\ sats \in Seq({sats[k] : k \in DOMAIN sats}) /\ Len(sats) <= MaxSats
    /\ \A j, k \in DOMAIN sats : sats[j].id = sats[k].id => j = k
    /\ \A k \in DOMAIN sats : IsSat(sats[k])

ASSUME TablesAssumption == \A sats \in Tables : IsTable(sats)

VARIABLES
    satellites, \* the table
    fed,        \* per satellite, what was added since its ring was last reset
    newest,     \* the newest time so far
    frames, solves,
    all_meas,   \* what the solve in progress collected, <<>> when there is none
    prev,       \* prev_ecef and has_prev_solution: a sequence of at most one place
    jump_reject_count,
    shown,      \* the place the map shows: a sequence of at most one
    refused,    \* solves refused as a jump since the last one accepted
    diverged,   \* whether a solve ever started afresh
    counts      \* the counters of the last solve

posVars == <<satellites, fed, newest, frames, solves, all_meas, prev,
             jump_reject_count, shown, refused, diverged, counts>>

NoCounts == [collected |-> 0, screened |-> 0, hdop |-> 0]

PosInit ==
    /\ satellites \in Tables
    /\ fed = [k \in DOMAIN satellites |-> Held(satellites[k])]
    /\ newest = Max({1, Latest(satellites)})
    /\ frames = 0 /\ solves = 0
    /\ all_meas = <<>>
    /\ prev = <<>> /\ shown = <<>>
    /\ jump_reject_count = 0 /\ refused = 0 /\ diverged = FALSE
    /\ counts = NoCounts

\* doppler_pos_add_measurement, for a frame with a plausible orbit.
AddMeasurement(id, m) ==
    LET k == find_or_create_sat(satellites, id)
        s == IF k > Len(satellites) THEN NewSat(id) ELSE satellites[k]
        t == doppler_pos_add_measurement(s, m)
        f == IF k > Len(satellites) THEN <<>> ELSE fed[k]
        g == CASE t = s -> f
               [] t # s /\ t.count = 1 /\ PerSat > 1 -> <<m>>
               [] OTHER -> Append(f, m)
        put(q, x) == IF k > Len(q) THEN Append(q, x) ELSE [q EXCEPT ![k] = x]
    IN  /\ frames < MaxFrames /\ frames + solves < MaxSteps
        /\ frames' = frames + 1
        /\ newest' = Max({newest, m.time})
        /\ IF k = 0 THEN UNCHANGED <<satellites, fed>>
           ELSE satellites' = put(satellites, t) /\ fed' = put(fed, g)
        /\ UNCHANGED <<solves, all_meas, prev, jump_reject_count, shown, refused,
                       diverged, counts>>

NumberOf(c) == Cardinality(UNION {{k} \X c[k] : k \in DOMAIN c})

Contributing(c) == {k \in DOMAIN c : c[k] # {}}

\* The part of doppler_pos_solve under pos_lock, and its early return.
SolveBegin ==
    LET c == Collected(satellites)
    IN  /\ all_meas = <<>> /\ frames + solves < MaxSteps
        /\ solves' = solves + 1
        /\ all_meas' = IF NumberOf(c) < MinMeas \/ Cardinality(Contributing(c)) < MinSats
                       THEN <<>> ELSE c
        /\ UNCHANGED <<satellites, fed, newest, frames, prev, jump_reject_count, shown,
                       refused, diverged, counts>>

\* A singular matrix at any stage, or a later stage that does not converge.
SolveFails ==
    /\ all_meas # <<>>
    /\ all_meas' = <<>>
    /\ UNCHANGED <<satellites, fed, newest, frames, solves, prev, jump_reject_count, shown,
                   refused, diverged, counts>>

\* The first stage does not converge: the next solve starts afresh.
SolveDiverges ==
    /\ all_meas # <<>>
    /\ all_meas' = <<>>
    /\ prev' = <<>>
    /\ diverged' = TRUE
    /\ UNCHANGED <<satellites, fed, newest, frames, solves, jump_reject_count, shown,
                   refused, counts>>

\* The count does not follow the second fit.
AfterOutliers_Stays(n, rejected) == n

\* n_meas once the outliers of n measurements are out: the count follows the
\* second fit, so it stays when too few are left for one.
AfterOutliers(n, rejected) ==
    IF rejected > 0 /\ n - rejected >= MinMeas THEN n - rejected ELSE n

\* Outliers are as many as the residuals' own sigma allows.
Outliers(n) == {r \in 0 .. n : r = 0 \/ (n > Params /\ Sigma2 * r < n - Params)}

\* The satellites whose mean residual may exceed three times the median.
Droppable(active) ==
    IF Cardinality(active) < 3 THEN {{}}
    ELSE {d \in SUBSET active :
            Cardinality(d) < Cardinality(active) - Cardinality(active) \div 2}

\* Every jump is taken.
Accepted_Always(place, count) == TRUE

Accepted(place, count) ==
    \/ prev = <<>>
    \/ Distance(prev[1], place) <= JumpDist
    \/ count + 1 >= JumpLimit

\* A solve that converges at place, with rejected outliers and satellites
\* dropped; left is how many measurements of the others kept their weight.
SolveEnds(place, rejected, dropped, left) ==
    LET n == NumberOf(all_meas)
        n_meas == AfterOutliers(n, rejected)
        jump == prev # <<>> /\ Distance(prev[1], place) > JumpDist
        ok == Accepted(place, jump_reject_count)
    IN  /\ all_meas # <<>>
        /\ dropped = {} => left = n_meas
        /\ dropped # {} => left >= MinMeas /\
              Cardinality(Contributing(all_meas) \ dropped) >= MinSats
        /\ counts' = [collected |-> n, screened |-> n_meas + rejected, hdop |-> left + rejected]
        /\ all_meas' = <<>>
        /\ prev' = IF ok THEN <<place>> ELSE prev
        /\ shown' = IF ok THEN <<place>> ELSE prev
        /\ jump_reject_count' = IF jump /\ ~ok THEN jump_reject_count + 1
                                ELSE IF prev = <<>> THEN jump_reject_count ELSE 0
        /\ refused' = IF ok THEN 0 ELSE refused + 1
        /\ UNCHANGED <<satellites, fed, newest, frames, solves, diverged>>

\* Too few are left once satellites are dropped: SolveFails.
SolveSucceeds ==
    all_meas # <<>> /\
      \E place \in Fixes, r \in Outliers(NumberOf(all_meas)),
         d \in Droppable(Contributing(all_meas)) :
        LET gone == NumberOf([k \in d |-> all_meas[k]])
            n == NumberOf(all_meas)
        IN  \E left \in IF d = {} THEN {AfterOutliers(n, r)}
                        ELSE Max({0, n - r - gone}) .. n - Max({r, gone}) :
              SolveEnds(place, r, d, left)

PosNext ==
    \/ \E id \in Ids, p \in Spots,
         t \in (newest - Late .. newest + Ahead) \cap (1 .. Word - 1) :
         AddMeasurement(id, [pos |-> p, time |-> t])
    \/ SolveBegin
    \/ SolveFails
    \/ SolveDiverges
    \/ SolveSucceeds
-----------------------------------------------------------------------------
(* Each satellite has one ring, and the ring holds the newest of what was   *)
(* added since it was last reset, oldest first, in the order of the times   *)
(* and without a gap over GapReset, however late frames come.               *)
RingsHoldOnePass ==
    /\ \A j, k \in DOMAIN satellites : satellites[j].id = satellites[k].id => j = k
    /\ \A k \in DOMAIN satellites :
         /\ OnePass(satellites[k])
         /\ Held(satellites[k]) =
              SubSeq(fed[k], Len(fed[k]) - satellites[k].count + 1, Len(fed[k]))

(* After the outliers and the satellites are screened, the solver never     *)
(* walks past the measurements it collected, into those of an earlier solve.*)
ReadsWhatWasCollected ==
    counts.screened <= counts.collected /\ counts.hdop <= counts.collected

(* A satellite that says it is far from two others that are near each other *)
(* is not used in a solve of the three.                                     *)
LonersAreLeftOut ==
    LET view == Views(satellites)
        n == Neighbours(view)
        used == Collected(satellites)
    IN  Cardinality(Moving(view)) >= 3 =>
          \A j, k \in Moving(view) : n[k] = 0 /\ n[j] > 0 => used[k] = {}

(* The place shown moves farther than JumpDist only after JumpLimit - 1     *)
(* solves in a row were refused as jumps, as long as no solve has diverged. *)
JumpsAreConfirmed ==
    [][shown # <<>> /\ shown' # shown /\ ~diverged =>
         Distance(shown[1], shown'[1]) <= JumpDist \/ refused >= JumpLimit - 1]_posVars

(* A solve uses measurements it has collected in this solve, of satellites  *)
(* that can be above one receiver, and no others.                           *)
SolvesUseTheirOwn == ReadsWhatWasCollected /\ LonersAreLeftOut
=============================================================================
