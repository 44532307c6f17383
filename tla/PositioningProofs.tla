------------------------- MODULE PositioningProofs -------------------------
(***************************************************************************)
(* Safety of positioning for every size of the rings and of the table,     *)
(* every table to start from and every limit of the solver.                *)
(***************************************************************************)
EXTENDS Positioning, FiniteSetTheorems, SequenceTheorems, TLAPS

PosSpec == PosInit /\ [][PosNext]_posVars

(* As long as no solve has diverged, the map shows the place that the next *)
(* solve is compared with, and the refusals in a row are counted right.    *)
JumpInv ==
  /\ refused \in Nat /\ jump_reject_count \in Nat
  /\ ~diverged => /\ shown = prev /\ jump_reject_count = refused
                  /\ prev = <<>> => refused = 0
  /\ prev # <<>> => prev[1] \in Fixes

LEMMA JumpNext ==
  JumpInv /\ [PosNext]_posVars =>
    /\ JumpInv'
    /\ shown # <<>> /\ shown' # shown /\ ~diverged =>
         Distance(shown[1], shown'[1]) <= JumpDist \/ refused >= JumpLimit - 1
<1> SUFFICES ASSUME JumpInv, [PosNext]_posVars
             PROVE  /\ JumpInv'
                    /\ shown # <<>> /\ shown' # shown /\ ~diverged =>
                         Distance(shown[1], shown'[1]) <= JumpDist \/ refused >= JumpLimit - 1
  OBVIOUS
<1>1. ASSUME NEW place \in Fixes, NEW r, NEW d, NEW left, SolveEnds(place, r, d, left)
      PROVE  /\ JumpInv'
             /\ shown # <<>> /\ shown' # shown /\ ~diverged =>
                  Distance(shown[1], shown'[1]) <= JumpDist \/ refused >= JumpLimit - 1
  <2>1. CASE Accepted(place, jump_reject_count)
    <3>1. /\ prev' = <<place>> /\ shown' = <<place>> /\ refused' = 0 /\ diverged' = diverged
          /\ jump_reject_count' = IF prev = <<>> THEN jump_reject_count ELSE 0
      BY Zenon, <1>1, <2>1 DEF SolveEnds
    <3>2. shown # <<>> /\ ~diverged => Distance(shown[1], place) <= JumpDist \/ refused + 1 >= JumpLimit
      BY Zenon, <2>1 DEF Accepted, JumpInv
    <3>3. JumpInv'
      BY Zenon, <3>1 DEF JumpInv
    <3>4. shown # <<>> /\ ~diverged => Distance(shown[1], shown'[1]) <= JumpDist \/ refused >= JumpLimit - 1
      <4>1. JumpLimit \in Nat /\ refused \in Nat
        BY Zenon, PositioningAssumption DEF JumpInv
      <4>2. shown'[1] = place
        BY Zenon, <3>1
      <4>3. refused + 1 >= JumpLimit => refused >= JumpLimit - 1
        BY <4>1
      <4> QED BY Zenon, <3>2, <4>2, <4>3
    <3> QED BY Zenon, <3>3, <3>4
  <2>2. CASE ~Accepted(place, jump_reject_count)
    <3>1. prev # <<>> /\ Distance(prev[1], place) > JumpDist
      <4>1. prev # <<>> /\ ~(Distance(prev[1], place) <= JumpDist)
        BY Zenon, <2>2 DEF Accepted
      <4>2. prev[1] \in Int /\ place \in Int /\ JumpDist \in Int
        BY <4>1, PositioningAssumption DEF JumpInv
      <4> QED BY <4>1, <4>2 DEF Distance
    <3>2. /\ prev' = prev /\ shown' = prev /\ refused' = refused + 1 /\ diverged' = diverged
          /\ jump_reject_count' = jump_reject_count + 1
      BY Zenon, <1>1, <2>2, <3>1 DEF SolveEnds
    <3> QED BY <3>1, <3>2 DEF JumpInv
  <2> QED BY Zenon, <2>1, <2>2
<1>2. CASE SolveSucceeds
  BY Zenon, <1>1, <1>2 DEF SolveSucceeds
<1>3. ASSUME NEW id \in Ids, NEW m, AddMeasurement(id, m)
      PROVE  UNCHANGED <<prev, jump_reject_count, shown, refused, diverged>>
  BY Zenon, <1>3 DEF AddMeasurement
<1>4. CASE SolveBegin \/ SolveFails \/ SolveDiverges
  BY Zenon, <1>4 DEF SolveBegin, SolveFails, SolveDiverges, JumpInv
<1>5. CASE UNCHANGED posVars
  BY Zenon, <1>5 DEF posVars, JumpInv
<1>6. CASE \E id \in Ids, p \in Spots,
                t \in (newest - Late .. newest + Ahead) \cap (1 .. Word - 1) :
             AddMeasurement(id, [pos |-> p, time |-> t])
  BY Zenon, <1>3, <1>6 DEF JumpInv
<1> QED BY Zenon, <1>2, <1>4, <1>5, <1>6 DEF PosNext

(* The place shown on the map never jumps before the jump was confirmed.   *)
THEOREM JumpsHold == PosSpec => JumpsAreConfirmed
<1>1. PosInit => JumpInv
  BY DEF PosInit, JumpInv
<1> QED BY <1>1, JumpNext, PTL DEF PosSpec, JumpsAreConfirmed

-----------------------------------------------------------------------------
(* A set of naturals has a least member, and a largest if it is bounded.   *)
LEMMA LeastNat ==
  ASSUME NEW T \in SUBSET Nat, T # {}
  PROVE  Min(T) \in T /\ \A y \in T : Min(T) <= y
<1>1. PICK x \in T : \A y \in T : ~(<<y, x>> \in OpToRel(<, Nat))
  BY Zenon, NatLessThanWellFounded, WFMin
<1>2. \A y \in T : x <= y
  <2> SUFFICES ASSUME NEW y \in T, y < x PROVE FALSE
    OBVIOUS
  <2>1. OpToRel(<, Nat) = {p \in Nat \X Nat : p[1] < p[2]}
    BY Zenon DEF OpToRel
  <2>2. <<y, x>> \in {p \in Nat \X Nat : p[1] < p[2]}
    OBVIOUS
  <2> QED BY Zenon, <1>1, <2>1, <2>2
<1> QED BY Zenon, <1>1, <1>2 DEF Min

LEMMA LargestNat ==
  ASSUME NEW T \in SUBSET Nat, T # {}, NEW N \in Nat, \A x \in T : x <= N
  PROVE  Max(T) \in T /\ \A y \in T : Max(T) >= y
<1> DEFINE U == {i \in Nat : N - i \in T}
<1>1. U # {}
  <2>1. PICK x \in T : TRUE
    BY Zenon
  <2>2. N - x \in Nat /\ N - (N - x) = x
    BY <2>1
  <2> QED BY Zenon, <2>1, <2>2
<1>2. Min(U) \in U /\ \A y \in U : Min(U) <= y
  BY Zenon, <1>1, LeastNat
<1> DEFINE a == N - Min(U)
<1>3. a \in T
  BY Zenon, <1>2
<1>4. \A y \in T : a >= y
  <2> SUFFICES ASSUME NEW y \in T PROVE a >= y
    OBVIOUS
  <2>1. N - y \in Nat /\ N - (N - y) = y
    OBVIOUS
  <2>2. N - y \in U
    BY Zenon, <2>1
  <2> QED BY <1>2, <2>1, <2>2
<1> HIDE DEF a
<1> QED BY Zenon, <1>3, <1>4 DEF Max

LEMMA IntervalSize ==
  ASSUME NEW N \in Nat
  PROVE  IsFiniteSet(1 .. N) /\ Cardinality(1 .. N) = N
<1>1. /\ IsFiniteSet(1 .. N)
      /\ Cardinality(1 .. N) = IF 1 > N THEN 0 ELSE N - 1 + 1
  BY FS_Interval
<1> QED BY <1>1

(* Of a set some member has the largest f, and of these the largest g.     *)
Ranks(S, f, M, g, N) ==
  S # {} /\ M \in Nat /\ N \in Nat /\ f \in [S -> 0 .. M] /\ g \in [S -> 0 .. N]

LEMMA LexLargest ==
  ASSUME NEW S, NEW f, NEW M, NEW g, NEW N, Ranks(S, f, M, g, N)
  PROVE  \E k \in S : \A j \in S : f[j] < f[k] \/ (f[j] = f[k] /\ g[j] <= g[k])
<1> DEFINE A == {f[k] : k \in S}
           a == Max(A)
           B == {g[k] : k \in {i \in S : f[i] = a}}
           b == Max(B)
<1>0. S # {} /\ M \in Nat /\ N \in Nat /\ f \in [S -> 0 .. M] /\ g \in [S -> 0 .. N]
  BY Zenon DEF Ranks
<1>1. A \in SUBSET Nat /\ A # {} /\ \A x \in A : x <= M
  BY <1>0
<1>2. a \in A /\ \A y \in A : a >= y
  <2> HIDE DEF A
  <2> QED BY Zenon, <1>0, <1>1, LargestNat
<1> HIDE DEF a
<1>3. B \in SUBSET Nat /\ B # {} /\ \A x \in B : x <= N
  BY SMTT(40), <1>0, <1>2
<1>4. b \in B /\ \A y \in B : b >= y
  <2> HIDE DEF B
  <2> QED BY Zenon, <1>0, <1>3, LargestNat
<1> HIDE DEF b
<1>5. PICK k \in S : f[k] = a /\ g[k] = b
  BY Zenon, <1>4
<1>6. \A j \in S : f[j] <= a /\ (f[j] = a => g[j] <= b)
  BY <1>0, <1>1, <1>2, <1>3, <1>4
<1> QED BY <1>0, <1>5, <1>6

(* An index less than twice the size wraps around once at most.            *)
LEMMA WrapOnce ==
  ASSUME NEW c \in Nat \ {0}, NEW x \in 0 .. 2 * c - 1
  PROVE  x % c = IF x < c THEN x ELSE x - c
  OBVIOUS

LEMMA TableSeq ==
  ASSUME NEW q, IsTable(q)
  PROVE  DOMAIN q = 1 .. Len(q) /\ Len(q) \in 0 .. MaxSats
  BY LenProperties DEF IsTable

-----------------------------------------------------------------------------
(* What the solver makes of a table of rings.                              *)
LEMMA ViewOK ==
  ASSUME NEW sats, IsTable(sats), NEW k \in DOMAIN sats, NEW now
  PROVE  /\ View(sats[k], now).usable \subseteq 1 .. sats[k].count
         /\ View(sats[k], now).pos \in Int
         /\ View(sats[k], now).usable # {} => View(sats[k], now).fresh
<1> DEFINE s == sats[k]
           h == Held(s)
           fresh == Fresh(h, now)
           usable == {i \in fresh : estimate_velocity(h, i)}
           at == IF usable # {} THEN usable ELSE fresh
<1>1. /\ s.count \in Nat /\ s.head \in 0 .. PerSat - 1 /\ PerSat \in Nat \ {0}
      /\ s.meas \in [0 .. PerSat - 1 -> Measurements]
  <2>1. IsSat(s)
    BY Zenon DEF IsTable
  <2>2. PerSat \in Nat \ {0}
    BY Zenon, DopplerAssumption
  <2> HIDE DEF s
  <2> QED BY <2>1, <2>2 DEF IsSat, IsRing
<1>2. DOMAIN h = 1 .. s.count
  BY Zenon DEF Held
<1>3. ASSUME NEW i \in 1 .. s.count PROVE h[i].pos \in Int
  <2> DEFINE start == IF s.count < PerSat THEN 0 ELSE (s.head - s.count + PerSat) % PerSat
  <2>1. start \in Nat
    BY <1>1
  <2> HIDE DEF start
  <2>2. (start + (i - 1)) % PerSat \in 0 .. PerSat - 1
    BY <1>1, <2>1
  <2>3. h[i] = s.meas[(start + (i - 1)) % PerSat]
    BY Zenon DEF Held, sat_buf_get, start
  <2> QED BY Zenon, <1>1, <2>2, <2>3 DEF Measurements
<1> HIDE DEF h, s
<1>4. fresh \subseteq 1 .. s.count /\ usable \subseteq fresh
  BY Zenon, <1>2 DEF Fresh
<1> HIDE DEF fresh
<1>5. ASSUME at # {} PROVE h[Max(at)].pos \in Int
  <2>1. at \in SUBSET Nat /\ \A x \in at : x <= s.count
    <3>1. at \subseteq 1 .. s.count
      <4> HIDE DEF usable
      <4> QED BY Zenon, <1>4
    <3> HIDE DEF at
    <3> QED BY <1>1, <3>1
  <2>2. Max(at) \in at
    <3> HIDE DEF at
    <3> QED BY Zenon, <1>1, <1>5, <2>1, LargestNat
  <2> QED BY Zenon, <1>3, <1>4, <2>2
<1>6. View(s, now) = [fresh |-> fresh # {}, usable |-> usable,
                      pos |-> IF at = {} THEN 0 ELSE h[Max(at)].pos]
  BY Zenon DEF View, h, fresh
<1> HIDE DEF at
<1>7. (IF at = {} THEN 0 ELSE h[Max(at)].pos) \in Int
  BY <1>5
<1> HIDE DEF usable
<1>8. /\ View(s, now).usable = usable
      /\ View(s, now).pos \in Int
      /\ View(s, now).fresh = (fresh # {})
  BY <1>6, <1>7
<1> QED BY Zenon, <1>4, <1>8 DEF s

(* With three satellites seen to move the core is one of them, and none    *)
(* has more neighbours.                                                    *)
LEMMA CoreOK ==
  ASSUME NEW sats, IsTable(sats), Moving(Views(sats)) # {}
  PROVE  LET view == Views(sats)
         IN  /\ Core(view) \in Moving(view)
             /\ \A j \in Moving(view) : /\ Neighbours(view)[j] \in Nat
                                        /\ Neighbours(view)[j] <= Neighbours(view)[Core(view)]
<1> DEFINE view == Views(sats)
           S == Moving(view)
           n == Neighbours(view)
           v == [k \in S |-> Cardinality(view[k].usable)]
           best == {k \in S : \A j \in S : n[j] < n[k] \/ (n[j] = n[k] /\ v[j] <= v[k])}
<1>1. /\ DOMAIN view = DOMAIN sats /\ DOMAIN sats = 1 .. Len(sats) /\ Len(sats) \in Nat
      /\ PerSat \in Nat
  BY DopplerAssumption DEF IsTable, Views
<1>2. S \subseteq 1 .. Len(sats)
  BY Zenon, <1>1 DEF Moving
<1>3. n \in [S -> 0 .. Len(sats)]
  <2>1. ASSUME NEW k \in S
        PROVE  Cardinality({j \in S \ {k} : Near(view, j, k)}) \in 0 .. Len(sats)
    <3> DEFINE T == {j \in S \ {k} : Near(view, j, k)}
    <3>1. T \in SUBSET (1 .. Len(sats))
      BY Zenon, <1>2
    <3>2. IsFiniteSet(1 .. Len(sats)) /\ Cardinality(1 .. Len(sats)) = Len(sats)
      BY Zenon, <1>1, IntervalSize
    <3> HIDE DEF T
    <3>3. IsFiniteSet(T) /\ Cardinality(T) <= Len(sats)
      BY ZenonT(40), <3>1, <3>2, FS_Subset
    <3>4. Cardinality(T) \in Nat
      BY Zenon, <3>3, FS_CardinalityType
    <3> QED BY <1>1, <3>3, <3>4 DEF T
  <2> QED BY Zenon, <2>1 DEF Neighbours
<1>4. v \in [S -> 0 .. PerSat]
  <2>1. ASSUME NEW k \in S PROVE Cardinality(view[k].usable) \in 0 .. PerSat
    <3>1. k \in DOMAIN sats /\ view[k] = View(sats[k], Latest(sats))
      BY Zenon, <1>1, <1>2 DEF Views
    <3>2. sats[k].count \in 0 .. PerSat
      BY Zenon, <3>1 DEF IsTable, IsSat, IsRing
    <3>3. view[k].usable \in SUBSET (1 .. PerSat)
      BY <1>1, <3>1, <3>2, ViewOK
    <3>4. IsFiniteSet(1 .. PerSat) /\ Cardinality(1 .. PerSat) = PerSat
      BY Zenon, <1>1, IntervalSize
    <3>5. IsFiniteSet(view[k].usable) /\ Cardinality(view[k].usable) <= PerSat
      BY ZenonT(40), <3>3, <3>4, FS_Subset
    <3>6. Cardinality(view[k].usable) \in Nat
      BY Zenon, <3>5, FS_CardinalityType
    <3> QED BY <1>1, <3>5, <3>6
  <2> QED BY Zenon, <2>1
<1>5. Core(view) = Min(best)
  BY Zenon DEF Core
<1>6. best # {} /\ best \in SUBSET Nat
  <2>0. S # {} /\ Len(sats) \in Nat /\ PerSat \in Nat
    BY Zenon, <1>1
  <2> HIDE DEF n, v, view
  <2>1. \E k \in S : \A j \in S : n[j] < n[k] \/ (n[j] = n[k] /\ v[j] <= v[k])
    <3> HIDE DEF S
    <3>1. Ranks(S, n, Len(sats), v, PerSat)
      BY Zenon, <1>3, <1>4, <2>0 DEF Ranks
    <3> QED BY Zenon, <3>1, LexLargest
  <2> QED BY <1>1, <1>2, <2>1
<1>7. Core(view) \in best
  <2> HIDE DEF best
  <2> QED BY Zenon, <1>5, <1>6, LeastNat
<1> HIDE DEF n, v, view
<1>8. Core(view) \in S /\ \A j \in S : n[j] \in Nat /\ n[j] <= n[Core(view)]
  BY <1>1, <1>3, <1>7
<1> QED BY Zenon, <1>8 DEF view, n

(* The visibility filter leaves out a satellite without neighbours as soon *)
(* as another one has some.                                                *)
LEMMA Loners == IsTable(satellites) => LonersAreLeftOut
<1> DEFINE view == Views(satellites)
           n == Neighbours(view)
           S == Moving(view)
<1> SUFFICES ASSUME IsTable(satellites), Cardinality(S) >= 3,
                    NEW j \in S, NEW k \in S, n[k] = 0, n[j] > 0
             PROVE  Collected(satellites)[k] = {}
  BY Zenon DEF LonersAreLeftOut
<1> DEFINE c == Core(view)
<1>1. c \in S /\ n[j] \in Nat /\ n[c] \in Nat /\ n[j] <= n[c]
  BY Zenon, CoreOK
<1>2. c # k
  BY <1>1
<1>3. S \subseteq DOMAIN satellites
  BY Zenon DEF Moving, Views
<1>4. ASSUME NEW i \in S PROVE view[i].pos \in Int
  BY Zenon, <1>3, ViewOK DEF Views
<1>5. ~Near(view, k, c)
  <2> SUFFICES ASSUME Near(view, k, c) PROVE FALSE
    OBVIOUS
  <2> DEFINE T == {i \in S \ {k} : Near(view, i, k)}
  <2>1. Near(view, c, k)
    <3>1. view[c].pos \in Int /\ view[k].pos \in Int
      BY Zenon, <1>1, <1>4
    <3> QED BY <3>1 DEF Near, Distance
  <2>2. c \in T
    BY Zenon, <1>1, <1>2, <2>1
  <2>3. IsFiniteSet(T)
    <3>0. DOMAIN satellites = 1 .. Len(satellites) /\ Len(satellites) \in Int
      BY TableSeq
    <3>1. IsFiniteSet(1 .. Len(satellites)) /\ T \in SUBSET (1 .. Len(satellites))
      BY <1>3, <3>0, FS_Interval
    <3> QED BY Zenon, <3>1, FS_Subset
  <2>4. n[k] = Cardinality(T)
    BY Zenon DEF Neighbours
  <2> HIDE DEF T
  <2> QED BY Zenon, <2>2, <2>3, <2>4, FS_EmptySet
<1>6. Kept(view) = {c} \cup {i \in {x \in DOMAIN view : view[x].fresh} : Near(view, i, c)}
  <2>1. ~(Cardinality(S) < 3)
    <3>0. DOMAIN satellites = 1 .. Len(satellites) /\ Len(satellites) \in Int
      BY TableSeq
    <3>1. IsFiniteSet(1 .. Len(satellites)) /\ S \in SUBSET (1 .. Len(satellites))
      BY <1>3, <3>0, FS_Interval
    <3>2. Cardinality(S) \in Nat
      <4> HIDE DEF S
      <4> QED BY Zenon, <3>1, FS_Subset, FS_CardinalityType
    <3> QED BY <3>2
  <2> QED BY Zenon, <2>1 DEF Kept
<1>7. k \notin Kept(view)
  <2> HIDE DEF c, view
  <2> QED BY Zenon, <1>2, <1>5, <1>6
<1> QED BY Zenon, <1>3, <1>7 DEF Collected

-----------------------------------------------------------------------------
(* The fields of a ring.                                                   *)
LEMMA RingFields ==
  ASSUME NEW s, IsRing(s)
  PROVE  /\ s.meas \in [0 .. PerSat - 1 -> Measurements]
         /\ s.head \in 0 .. PerSat - 1 /\ s.count \in 0 .. PerSat
         /\ s.count < PerSat => s.head = s.count
  BY Zenon DEF IsRing

(* Where a ring keeps what it holds.                                       *)
Index(s, i) ==
  IF s.count < PerSat THEN i - 1
  ELSE IF s.head + (i - 1) < PerSat THEN s.head + (i - 1) ELSE (s.head + (i - 1)) - PerSat

LEMMA HeldAt ==
  ASSUME NEW s, s.head \in 0 .. PerSat - 1, s.count \in 0 .. PerSat
  PROVE  /\ DOMAIN Held(s) = 1 .. s.count
         /\ \A i \in 1 .. s.count : /\ Index(s, i) \in 0 .. PerSat - 1
                                    /\ Held(s)[i] = s.meas[Index(s, i)]
<1>0. PerSat \in Nat \ {0}
  BY Zenon, DopplerAssumption
<1>1. DOMAIN Held(s) = 1 .. s.count
  BY Zenon DEF Held
<1>2. ASSUME NEW i \in 1 .. s.count
      PROVE  Index(s, i) \in 0 .. PerSat - 1 /\ Held(s)[i] = s.meas[Index(s, i)]
  <2> DEFINE start == IF s.count < PerSat THEN 0 ELSE (s.head - s.count + PerSat) % PerSat
  <2>1. Held(s)[i] = s.meas[(start + (i - 1)) % PerSat]
    BY Zenon DEF Held, sat_buf_get
  <2>2. CASE s.count < PerSat
    <3>0. i - 1 \in 0 .. 2 * PerSat - 1
      BY <1>0, <2>2
    <3>1. start = 0 /\ (0 + (i - 1)) % PerSat = i - 1
      BY <1>0, <2>2, <3>0, WrapOnce
    <3> QED BY <1>0, <2>1, <2>2, <3>1 DEF Index
  <2>3. CASE ~(s.count < PerSat)
    <3>1. s.count = PerSat /\ (s.head - s.count) + PerSat = s.head
      BY <1>0, <2>3
    <3>0. s.head \in 0 .. 2 * PerSat - 1
      BY <1>0
    <3>c. s.head % PerSat = IF s.head < PerSat THEN s.head ELSE s.head - PerSat
      BY Zenon, <1>0, <3>0, WrapOnce
    <3>a. s.head % PerSat = s.head
      BY <1>0, <3>c
    <3>b. start = ((s.head - s.count) + PerSat) % PerSat
      BY Zenon, <2>3
    <3>2. start = s.head
      BY Zenon, <3>1, <3>a, <3>b
    <3> HIDE DEF start
    <3>3. s.head + (i - 1) \in 0 .. 2 * PerSat - 1
      BY <1>0, <3>1
    <3>4. (s.head + (i - 1)) % PerSat = IF s.head + (i - 1) < PerSat THEN s.head + (i - 1)
                                        ELSE (s.head + (i - 1)) - PerSat
      BY Zenon, <1>0, <3>3, WrapOnce
    <3> QED BY <1>0, <2>1, <2>3, <3>2, <3>3, <3>4 DEF Index
  <2> QED BY Zenon, <2>2, <2>3
<1> QED BY Zenon, <1>1, <1>2

(* A ring with other contents is one still.                                *)
LEMMA RingPut ==
  ASSUME NEW s, NEW q \in [0 .. PerSat - 1 -> Measurements],
         NEW h \in 0 .. PerSat - 1, NEW c \in 0 .. PerSat,
         s \in [id : {s.id}, meas : [0 .. PerSat - 1 -> Measurements],
               head : 0 .. PerSat - 1, count : 0 .. PerSat]
  PROVE  [[[s EXCEPT !.meas = q] EXCEPT !.head = h] EXCEPT !.count = c]
            \in [id : {s.id}, meas : [0 .. PerSat - 1 -> Measurements],
                head : 0 .. PerSat - 1, count : 0 .. PerSat]
<1> DEFINE R == [id : {s.id}, meas : [0 .. PerSat - 1 -> Measurements],
                 head : 0 .. PerSat - 1, count : 0 .. PerSat]
           a == [s EXCEPT !.meas = q]
           b == [a EXCEPT !.head = h]
<1>1. a \in R
  OBVIOUS
<1> HIDE DEF a
<1>2. b \in R
  BY Zenon, <1>1
<1> HIDE DEF b
<1>3. [b EXCEPT !.count = c] \in R
  BY Zenon, <1>2
<1> QED BY Zenon, <1>3 DEF a, b

(* sat_buf_add puts m behind what the ring holds, less the oldest if it is *)
(* full.                                                                   *)
LEMMA HeldAdd ==
  ASSUME NEW s, NEW m \in Measurements, IsRing(s)
  PROVE  LET t == sat_buf_add(s, m)
         IN  /\ IsRing(t) /\ t.id = s.id
             /\ t.count = (IF s.count < PerSat THEN s.count + 1 ELSE s.count)
             /\ Held(t)[t.count] = m
             /\ \A i \in 1 .. t.count - 1 :
                  Held(t)[i] = Held(s)[i + ((s.count + 1) - t.count)]
<1> DEFINE t == sat_buf_add(s, m)
           P == PerSat
<1>0. /\ P \in Nat \ {0}
      /\ s.meas \in [0 .. P - 1 -> Measurements]
      /\ s.head \in 0 .. P - 1 /\ s.count \in 0 .. P
      /\ s.count < P => s.head = s.count
  BY Zenon, DopplerAssumption, RingFields
<1>1. /\ t.meas = [s.meas EXCEPT ![s.head] = m] /\ t.head = (s.head + 1) % P
      /\ t.count = (IF s.count < P THEN s.count + 1 ELSE s.count)
      /\ t.id = s.id
  BY Zenon DEF sat_buf_add, IsRing
<1>2. t = [[[s EXCEPT !.meas = t.meas] EXCEPT !.head = t.head] EXCEPT !.count = t.count]
  BY Zenon, <1>1 DEF sat_buf_add
<1> HIDE DEF t
<1>3. t.head = IF s.head + 1 < P THEN s.head + 1 ELSE (s.head + 1) - P
  <2>1. s.head + 1 \in 0 .. 2 * P - 1
    BY <1>0
  <2> QED BY Zenon, <1>0, <1>1, <2>1, WrapOnce
<1>4. /\ t.meas \in [0 .. P - 1 -> Measurements]
      /\ t.head \in 0 .. P - 1 /\ t.count \in 1 .. P
      /\ t.count < P => t.head = t.count
  BY SMTT(40), <1>0, <1>1, <1>3
<1>a. IsRing(t)
  <2>1. s \in [id : {s.id}, meas : [0 .. P - 1 -> Measurements], head : 0 .. P - 1, count : 0 .. P]
    BY Zenon DEF IsRing
  <2>2. t \in [id : {s.id}, meas : [0 .. P - 1 -> Measurements], head : 0 .. P - 1, count : 0 .. P]
    <3>1. t.count \in 0 .. P
      BY <1>0, <1>4
    <3>2. [[[s EXCEPT !.meas = t.meas] EXCEPT !.head = t.head] EXCEPT !.count = t.count]
            \in [id : {s.id}, meas : [0 .. P - 1 -> Measurements], head : 0 .. P - 1, count : 0 .. P]
      BY Zenon, <1>4, <2>1, <3>1, RingPut
    <3> QED BY Zenon, <1>2, <3>2
  <2> QED BY Zenon, <1>1, <1>4, <2>2 DEF IsRing
<1>5. /\ \A i \in 1 .. t.count : Index(t, i) \in 0 .. P - 1 /\ Held(t)[i] = t.meas[Index(t, i)]
      /\ \A i \in 1 .. s.count : Index(s, i) \in 0 .. P - 1 /\ Held(s)[i] = s.meas[Index(s, i)]
  BY <1>0, <1>4, HeldAt
<1>6. Index(t, t.count) = s.head
  BY SMTT(40), <1>0, <1>1, <1>3 DEF Index
<1>7. Held(t)[t.count] = m
  <2>1. t.count \in 1 .. t.count /\ t.meas[s.head] = m
    BY <1>0, <1>1, <1>4
  <2> QED BY Zenon, <1>5, <1>6, <2>1
<1>8. ASSUME NEW i \in 1 .. t.count - 1
      PROVE  Held(t)[i] = Held(s)[i + ((s.count + 1) - t.count)]
  <2>1. /\ i + ((s.count + 1) - t.count) \in 1 .. s.count
        /\ Index(t, i) = Index(s, i + ((s.count + 1) - t.count))
        /\ Index(t, i) # s.head
    <3>1. CASE s.count < P
      <4>1. t.count = s.count + 1
        BY Zenon, <1>1, <3>1
      <4>2. CASE t.count < P
        BY <1>0, <3>1, <4>1, <4>2 DEF Index
      <4>3. CASE ~(t.count < P)
        <5>1. t.count = P /\ s.head + 1 = P /\ t.head = 0
          BY <1>0, <1>3, <3>1, <4>1, <4>3
        <5>2. i + ((s.count + 1) - t.count) = i /\ i \in 1 .. s.count /\ i < P
          BY <1>0, <4>1, <5>1
        <5>3. Index(t, i) = i - 1
          BY <1>0, <5>1, <5>2 DEF Index
        <5>4. Index(s, i) = i - 1 /\ i - 1 # s.head
          BY <1>0, <3>1, <5>1, <5>2 DEF Index
        <5> QED BY Zenon, <5>2, <5>3, <5>4
      <4> QED BY Zenon, <4>2, <4>3
    <3>2. CASE ~(s.count < P)
      <4>1. t.count = P /\ s.count = P
        BY <1>0, <1>1, <3>2
      <4>2. i + ((s.count + 1) - t.count) = i + 1 /\ i + 1 \in 1 .. s.count /\ i < P
        BY <1>0, <4>1
      <4>3. CASE s.head + 1 < P
        BY <1>0, <1>3, <4>1, <4>2, <4>3 DEF Index
      <4>4. CASE ~(s.head + 1 < P)
        <5>1. s.head = P - 1 /\ t.head = 0
          BY <1>0, <1>3, <4>4
        <5>2. Index(t, i) = i - 1
          BY <1>0, <4>1, <4>2, <5>1 DEF Index
        <5>3. Index(s, i + 1) = i - 1
          BY <1>0, <4>1, <4>2, <5>1 DEF Index
        <5> QED BY <1>0, <4>2, <5>1, <5>2, <5>3
      <4> QED BY Zenon, <4>3, <4>4
    <3> QED BY Zenon, <3>1, <3>2
  <2>2. t.meas[Index(t, i)] = s.meas[Index(t, i)]
    BY Zenon, <1>0, <1>1, <1>4, <1>5, <2>1
  <2>3. i \in 1 .. t.count
    BY <1>4
  <2> QED BY Zenon, <1>5, <2>1, <2>2, <2>3
<1> QED BY Zenon, <1>1, <1>7, <1>8, <1>a DEF t

(* The newest measurement is the last one held.                            *)
LEMMA NewestIsLast ==
  ASSUME NEW s, IsRing(s), s.count > 0
  PROVE  /\ Newest(s) = Held(s)[s.count] /\ Newest(s) \in Measurements
         /\ \A i \in 1 .. s.count : Held(s)[i] \in Measurements
<1>0. /\ PerSat \in Nat \ {0}
      /\ s.meas \in [0 .. PerSat - 1 -> Measurements]
      /\ s.head \in 0 .. PerSat - 1 /\ s.count \in 1 .. PerSat
      /\ s.count < PerSat => s.head = s.count
  <2>1. s.count \in 0 .. PerSat
    BY Zenon, RingFields
  <2> QED BY SMTT(40), <2>1, DopplerAssumption, RingFields
<1>1. \A i \in 1 .. s.count : Index(s, i) \in 0 .. PerSat - 1 /\ Held(s)[i] = s.meas[Index(s, i)]
  BY <1>0, HeldAt
<1>2. s.count \in 1 .. s.count
  BY <1>0
<1> DEFINE x == (s.head - 1) + PerSat
<1>3. x \in 0 .. 2 * PerSat - 1
  BY <1>0
<1>4. x % PerSat = IF x < PerSat THEN x ELSE x - PerSat
  BY Zenon, <1>0, <1>3, WrapOnce
<1>5. (IF x < PerSat THEN x ELSE x - PerSat) = Index(s, s.count)
  BY <1>0 DEF Index
<1>6. Newest(s) = s.meas[x % PerSat]
  BY Zenon DEF Newest
<1> HIDE DEF x
<1> QED BY Zenon, <1>0, <1>1, <1>2, <1>4, <1>5, <1>6

(* Adding what follows the newest measurement within the gap keeps one     *)
(* pass.                                                                   *)
LEMMA AddInOrder ==
  ASSUME NEW s, IsSat(s), NEW m \in Measurements,
         s.count > 0 => m.time - Newest(s).time \in 0 .. GapReset
  PROVE  IsSat(sat_buf_add(s, m))
<1> DEFINE t == sat_buf_add(s, m)
<1>1. /\ IsRing(t) /\ IsRing(s)
      /\ t.count = (IF s.count < PerSat THEN s.count + 1 ELSE s.count)
      /\ Held(t)[t.count] = m
      /\ \A i \in 1 .. t.count - 1 : Held(t)[i] = Held(s)[i + ((s.count + 1) - t.count)]
  <2>1. IsRing(s)
    BY Zenon DEF IsSat
  <2> QED BY Zenon, <2>1, HeldAdd
<1> HIDE DEF t
<1>2. s.count \in 0 .. PerSat /\ PerSat \in Nat \ {0}
  BY Zenon, <1>1, RingFields, DopplerAssumption
<1>3. ASSUME NEW i \in 1 .. t.count - 1
      PROVE  Held(t)[i + 1].time - Held(t)[i].time \in 0 .. GapReset
  <2> DEFINE j == i + ((s.count + 1) - t.count)
  <2>1. Held(t)[i] = Held(s)[j] /\ j \in 1 .. s.count /\ i + 1 \in 1 .. t.count
    BY <1>1, <1>2
  <2>2. CASE i + 1 = t.count
    <3>1. j = s.count /\ s.count > 0
      BY <1>1, <1>2, <2>1, <2>2
    <3>2. Held(s)[s.count] = Newest(s)
      BY Zenon, <1>1, <3>1, NewestIsLast
    <3>3. Held(t)[i + 1] = m /\ Held(t)[i] = Newest(s)
      BY Zenon, <1>1, <2>1, <2>2, <3>1, <3>2
    <3> QED BY Zenon, <3>1, <3>3
  <2>3. CASE i + 1 # t.count
    <3>1. i + 1 \in 1 .. t.count - 1
      BY <1>1, <1>2, <2>1, <2>3
    <3>2. Held(t)[i + 1] = Held(s)[j + 1]
      <4>1. (i + 1) + ((s.count + 1) - t.count) = j + 1
        BY <1>1, <1>2, <3>1
      <4> QED BY <1>1, <3>1, <4>1
    <3>3. j \in 1 .. s.count - 1
      BY <1>1, <1>2, <3>1
    <3>4. Held(s)[j + 1].time - Held(s)[j].time \in 0 .. GapReset
      BY Zenon, <3>3 DEF IsSat, OnePass
    <3> QED BY Zenon, <2>1, <3>2, <3>4
  <2> QED BY Zenon, <2>2, <2>3
<1> QED BY Zenon, <1>1, <1>3 DEF t, IsSat, OnePass

(* A difference of times that is short as an unsigned number is so indeed: *)
(* a frame that is late shows as a long gap.                               *)
LEMMA ShortElapsed ==
  ASSUME NEW a \in 0 .. Word - 1, NEW b \in 0 .. Word - 1, a >= b - Late,
         Elapsed(a, b) <= GapReset
  PROVE  a - b \in 0 .. GapReset
<1>0. Word \in Nat \ {0} /\ Late \in Nat /\ GapReset \in Nat /\ Late + GapReset < Word
  BY Zenon, DopplerAssumption, PositioningAssumption
<1>1. CASE a >= b
  <2>1. a - b \in 0 .. 2 * Word - 1 /\ a - b < Word
    BY <1>0, <1>1
  <2>2. (a - b) % Word = IF a - b < Word THEN a - b ELSE (a - b) - Word
    BY Zenon, <1>0, <2>1, WrapOnce
  <2> QED BY <1>0, <1>1, <2>1, <2>2 DEF Elapsed
<1>2. CASE ~(a >= b)
  <2>1. (a - b) + Word \in 0 .. Word - 1 /\ (a - b) + Word > GapReset
    BY <1>0, <1>2
  <2>2. (a - b) % Word = (a - b) + Word
    <3> DEFINE x == a - b
    <3>1. x \in Int /\ x + Word \in 0 .. Word - 1
      BY <2>1
    <3> HIDE DEF x
    <3>2. x % Word = x + Word
      BY <1>0, <3>1
    <3> QED BY Zenon, <3>2 DEF x
  <2> QED BY <1>0, <2>1, <2>2 DEF Elapsed
<1> QED BY Zenon, <1>1, <1>2

LEMMA EmptyRings ==
  /\ \A s : IsRing(s) => IsSat(Reset(s)) /\ Reset(s).count = 0 /\ Reset(s).id = s.id
  /\ \A id : IsSat(NewSat(id)) /\ NewSat(id).count = 0 /\ NewSat(id).id = id
<1>0. PerSat \in Nat \ {0} /\ Word \in Nat \ {0}
  BY Zenon, DopplerAssumption
<1>1. ASSUME NEW s, s.count = 0 PROVE OnePass(s)
  BY <1>1 DEF OnePass
<1>2. ASSUME NEW s, IsRing(s)
      PROVE  IsSat(Reset(s)) /\ Reset(s).count = 0 /\ Reset(s).id = s.id
  <2>1. IsRing(Reset(s)) /\ Reset(s).count = 0 /\ Reset(s).id = s.id
    <3> DEFINE R == [id : {s.id}, meas : [0 .. PerSat - 1 -> Measurements],
                     head : 0 .. PerSat - 1, count : 0 .. PerSat]
               a == [s EXCEPT !.count = 0]
    <3>1. s \in R
      BY Zenon, <1>2 DEF IsRing
    <3>2. a \in R /\ a.count = 0 /\ a.id = s.id
      BY <1>0, <3>1
    <3>3. Reset(s) = [a EXCEPT !.head = 0]
      BY Zenon DEF Reset
    <3> HIDE DEF a
    <3>4. Reset(s) \in R /\ Reset(s).count = 0 /\ Reset(s).id = s.id /\ Reset(s).head = 0
      BY <1>0, <3>2, <3>3
    <3> QED BY Zenon, <3>4 DEF IsRing
  <2> QED BY Zenon, <1>1, <2>1 DEF IsSat
<1>3. ASSUME NEW id
      PROVE  IsSat(NewSat(id)) /\ NewSat(id).count = 0 /\ NewSat(id).id = id
  <2>1. Blank \in Measurements
    BY <1>0 DEF Blank, Measurements
  <2>2. IsRing(NewSat(id)) /\ NewSat(id).count = 0 /\ NewSat(id).id = id
    BY <1>0, <2>1 DEF IsRing, NewSat
  <2> QED BY Zenon, <1>1, <2>2 DEF IsSat
<1> QED BY Zenon, <1>2, <1>3

(* doppler_pos_add_measurement keeps one pass in every ring.               *)
LEMMA MeasurementAdded ==
  ASSUME NEW s, IsSat(s), NEW m \in Measurements,
         s.count > 0 => m.time >= Newest(s).time - Late
  PROVE  LET t == doppler_pos_add_measurement(s, m)
         IN  /\ IsSat(t) /\ t.id = s.id
             /\ t = s \/ t = sat_buf_add(Reset(s), m) \/ t = sat_buf_add(s, m)
<1> DEFINE t == doppler_pos_add_measurement(s, m)
           dt == Elapsed(m.time, Newest(s).time)
<1>0. IsRing(s)
  BY Zenon DEF IsSat
<1>1. CASE s.count > 0 /\ dt > GapReset
  <2>1. t = sat_buf_add(Reset(s), m)
    <3>1. Newest(s).time \in Int /\ m.time \in Int
      BY <1>0, <1>1, NewestIsLast DEF Measurements
    <3>2. dt \in Int /\ GapReset \in Nat
      BY <3>1, DopplerAssumption DEF Elapsed
    <3>3. ~(dt <= GapReset)
      BY <1>1, <3>2
    <3> QED BY <1>1, <3>3, ZenonT(30) DEF doppler_pos_add_measurement
  <2>2. IsSat(Reset(s)) /\ IsRing(Reset(s)) /\ Reset(s).count = 0 /\ Reset(s).id = s.id
    BY Zenon, <1>0, EmptyRings DEF IsSat
  <2>3. IsSat(sat_buf_add(Reset(s), m))
    BY <2>2, AddInOrder
  <2>4. sat_buf_add(Reset(s), m).id = s.id
    BY Zenon, <2>2, HeldAdd
  <2> QED BY Zenon, <2>1, <2>3, <2>4
<1>2. CASE t = s
  BY Zenon, <1>2
<1>3. CASE ~(s.count > 0 /\ dt > GapReset) /\ t # s
  <2>1. t = sat_buf_add(s, m)
    BY <1>3, ZenonT(30) DEF doppler_pos_add_measurement
  <2>2. ASSUME s.count > 0 PROVE m.time - Newest(s).time \in 0 .. GapReset
    <3>1. Newest(s) \in Measurements
      BY Zenon, <1>0, <2>2, NewestIsLast
    <3>2. m.time \in 0 .. Word - 1 /\ Newest(s).time \in 0 .. Word - 1
      BY Zenon, <3>1 DEF Measurements
    <3>3. dt \in Int /\ GapReset \in Nat
      BY <3>2, DopplerAssumption DEF Elapsed
    <3>4. dt <= GapReset
      BY <1>3, <2>2, <3>3
    <3> QED BY Zenon, <2>2, <3>2, <3>4, ShortElapsed
  <2>3. IsSat(sat_buf_add(s, m))
    BY Zenon, <2>2, AddInOrder
  <2>4. sat_buf_add(s, m).id = s.id
    BY Zenon, <1>0, HeldAdd
  <2> QED BY Zenon, <2>1, <2>3, <2>4
<1> QED BY Zenon, <1>1, <1>2, <1>3

(* What a ring holds is the end of what it was fed since its last reset.   *)
FedOK(s, f) ==
  /\ f \in Seq(Measurements) /\ s.count <= Len(f)
  /\ \A i \in 1 .. s.count : Held(s)[i] = f[(Len(f) - s.count) + i]

FedNext(s, f, m) ==
  LET t == doppler_pos_add_measurement(s, m)
  IN  CASE t = s -> f
        [] t # s /\ t.count = 1 /\ PerSat > 1 -> <<m>>
        [] OTHER -> Append(f, m)

LEMMA Shift ==
  ASSUME NEW c \in Nat, NEW d, NEW n \in Nat, NEW g, NEW i \in 1 .. d - 1,
         d = c + 1 \/ d = c, g = n + 1, c <= n
  PROVE  /\ i + ((c + 1) - d) \in 1 .. c
         /\ (n - c) + (i + ((c + 1) - d)) = (g - d) + i
         /\ (g - d) + i \in 1 .. n
<1>1. CASE d = c + 1
  BY <1>1
<1>2. CASE d = c
  BY <1>2
<1> QED BY Zenon, <1>1, <1>2

LEMMA FedAdded ==
  ASSUME NEW s, IsSat(s), NEW m \in Measurements, NEW f, FedOK(s, f),
         s.count > 0 => m.time >= Newest(s).time - Late
  PROVE  FedOK(doppler_pos_add_measurement(s, m), FedNext(s, f, m))
<1> DEFINE t == doppler_pos_add_measurement(s, m)
           r == Reset(s)
           g == FedNext(s, f, m)
<1>0. /\ IsRing(s) /\ IsRing(r) /\ r.count = 0 /\ PerSat \in Nat \ {0}
      /\ s.count \in 0 .. PerSat
      /\ f \in Seq(Measurements) /\ Len(f) \in Nat
  <2>1. IsRing(s)
    BY Zenon DEF IsSat
  <2> QED BY Zenon, <2>1, EmptyRings, RingFields, DopplerAssumption, LenProperties DEF IsSat, FedOK
<1>1. t = s \/ t = sat_buf_add(r, m) \/ t = sat_buf_add(s, m)
  BY Zenon, MeasurementAdded
<1>2. CASE t = s
  <2>1. g = f
    BY Zenon, <1>2 DEF FedNext
  <2> QED BY Zenon, <1>2, <2>1
<1>3. CASE t # s
  <2>1. Held(t)[t.count] = m /\ t.count \in 1 .. PerSat
    <3>1. CASE t = sat_buf_add(r, m)
      BY SMTT(40), <1>0, <3>1, HeldAdd
    <3>2. CASE t = sat_buf_add(s, m)
      BY <1>0, <3>2, HeldAdd
    <3> QED BY Zenon, <1>1, <1>3, <3>1, <3>2
  <2>2. CASE t.count = 1 /\ PerSat > 1
    <3>1. g = <<m>>
      BY Zenon, <1>3, <2>2 DEF FedNext
    <3>2. <<m>> \in Seq(Measurements) /\ Len(<<m>>) = 1 /\ <<m>>[1] = m
      OBVIOUS
    <3> HIDE DEF t, g
    <3>3. /\ g \in Seq(Measurements) /\ t.count <= Len(g) /\ (Len(g) - t.count) + 1 = 1
          /\ Held(t)[1] = g[1] /\ t.count = 1
      BY <2>1, <2>2, <3>1, <3>2
    <3>4. \A i \in 1 .. t.count : i = 1
      BY <2>2
    <3>5. FedOK(t, g)
      BY Zenon, <3>3, <3>4 DEF FedOK
    <3> QED BY Zenon, <3>5 DEF t, g
  <2>3. CASE ~(t.count = 1 /\ PerSat > 1)
    <3>1. g = Append(f, m)
      BY Zenon, <1>3, <2>3 DEF FedNext
    <3>2. /\ g \in Seq(Measurements) /\ Len(g) = Len(f) + 1 /\ g[Len(f) + 1] = m
          /\ \A i \in 1 .. Len(f) : g[i] = f[i]
      BY SMTT(40), <1>0, <3>1, AppendProperties
    <3>3. CASE t = sat_buf_add(r, m)
      <4>1. t.count = 1
        BY <1>0, <3>3, HeldAdd
      <4> HIDE DEF t, g
      <4>2. /\ g \in Seq(Measurements) /\ t.count <= Len(g)
            /\ (Len(g) - t.count) + 1 = Len(f) + 1 /\ Held(t)[1] = g[Len(f) + 1]
        BY <1>0, <2>1, <3>2, <4>1
      <4>3. \A i \in 1 .. t.count : i = 1
        BY <4>1
      <4>4. FedOK(t, g)
        BY Zenon, <4>2, <4>3 DEF FedOK
      <4> QED BY Zenon, <4>4 DEF t, g
    <3>4. CASE t = sat_buf_add(s, m)
      <4>1. /\ t.count = (IF s.count < PerSat THEN s.count + 1 ELSE s.count)
            /\ \A i \in 1 .. t.count - 1 : Held(t)[i] = Held(s)[i + ((s.count + 1) - t.count)]
        BY <1>0, <3>4, HeldAdd
      <4>a. s.count <= Len(f) /\ \A i \in 1 .. s.count : Held(s)[i] = f[(Len(f) - s.count) + i]
        BY Zenon DEF FedOK
      <4> HIDE DEF t, g
      <4>2. t.count <= Len(g)
        BY <1>0, <3>2, <4>1, <4>a
      <4>3. ASSUME NEW i \in 1 .. t.count PROVE Held(t)[i] = g[(Len(g) - t.count) + i]
        <5>1. CASE i = t.count
          <6>1. (Len(g) - t.count) + i = Len(f) + 1
            BY <1>0, <2>1, <3>2, <5>1
          <6> QED BY Zenon, <2>1, <3>2, <5>1, <6>1
        <5>2. CASE i # t.count
          <6> DEFINE j == i + ((s.count + 1) - t.count)
                     k == (Len(g) - t.count) + i
          <6>0. t.count = s.count + 1 \/ t.count = s.count
            BY Zenon, <1>0, <4>1
          <6>1. j \in 1 .. s.count /\ (Len(f) - s.count) + j = k /\ k \in 1 .. Len(f)
            <7>1. i \in 1 .. t.count - 1 /\ Len(g) = Len(f) + 1 /\ s.count <= Len(f)
              BY <2>1, <3>2, <4>a, <5>2
            <7>2. s.count \in Nat /\ Len(f) \in Nat
              BY <1>0
            <7> DEFINE c == s.count
                       d == t.count
                       n == Len(f)
                       h == Len(g)
            <7>3. c \in Nat /\ n \in Nat /\ i \in 1 .. d - 1 /\ h = n + 1 /\ c <= n
                  /\ (d = c + 1 \/ d = c)
              BY Zenon, <6>0, <7>1, <7>2
            <7> HIDE DEF c, d, n, h
            <7>4. /\ i + ((c + 1) - d) \in 1 .. c
                  /\ (n - c) + (i + ((c + 1) - d)) = (h - d) + i
                  /\ (h - d) + i \in 1 .. n
              BY SMTT(40), <7>3, Shift
            <7> QED BY Zenon, <7>4 DEF c, d, n, h
          <6>2. Held(t)[i] = Held(s)[j]
            BY <2>1, <4>1, <5>2
          <6> HIDE DEF j, k
          <6>3. Held(s)[j] = f[k]
            BY Zenon, <4>a, <6>1
          <6>4. g[k] = f[k]
            BY Zenon, <3>2, <6>1
          <6> QED BY Zenon, <6>2, <6>3, <6>4 DEF k
        <5> QED BY Zenon, <5>1, <5>2
      <4>4. g \in Seq(Measurements)
        BY Zenon, <3>2
      <4>5. FedOK(t, g)
        BY Zenon, <4>2, <4>3, <4>4 DEF FedOK
      <4> QED BY Zenon, <4>5 DEF t, g
    <3> QED BY Zenon, <1>1, <1>3, <3>3, <3>4
  <2> QED BY Zenon, <2>2, <2>3
<1> QED BY Zenon, <1>2, <1>3

-----------------------------------------------------------------------------
(* A satellite's ring with what it was fed, the newest time being w.       *)
RowOK(s, f, w) ==
  /\ IsSat(s) /\ FedOK(s, f)
  /\ \A i \in 1 .. Len(f) : f[i].time <= w

LEMMA RowAdded ==
  ASSUME NEW w \in Nat, NEW x \in Nat, NEW s, NEW f, RowOK(s, f, w),
         NEW m \in Measurements, m.time >= w - Late, x >= w, x >= m.time
  PROVE  /\ RowOK(doppler_pos_add_measurement(s, m), FedNext(s, f, m), x)
         /\ doppler_pos_add_measurement(s, m).id = s.id
<1> DEFINE t == doppler_pos_add_measurement(s, m)
           g == FedNext(s, f, m)
<1>1. /\ IsSat(s) /\ FedOK(s, f) /\ f \in Seq(Measurements) /\ Len(f) \in Nat
      /\ \A i \in 1 .. Len(f) : f[i].time <= w /\ f[i] \in Measurements
  BY Zenon, ElementOfSeq, LenProperties DEF RowOK, FedOK
<1>2. m.time \in 0 .. Word - 1 /\ Late \in Nat /\ Word \in Nat
  BY Zenon, DopplerAssumption, PositioningAssumption DEF Measurements
<1>3. ASSUME s.count > 0 PROVE m.time >= Newest(s).time - Late
  <2>1. IsRing(s) /\ s.count \in 0 .. PerSat /\ PerSat \in Nat
    BY Zenon, <1>1, RingFields, DopplerAssumption DEF IsSat
  <2>2. Newest(s) = Held(s)[s.count] /\ Newest(s) \in Measurements
    BY Zenon, <1>3, <2>1, NewestIsLast
  <2>3. Held(s)[s.count] = f[(Len(f) - s.count) + s.count] /\ s.count <= Len(f)
    BY SMTT(40), <1>1, <1>3, <2>1 DEF FedOK
  <2>4. (Len(f) - s.count) + s.count = Len(f) /\ Len(f) \in 1 .. Len(f)
    BY <1>1, <1>3, <2>1, <2>3
  <2>5. Newest(s).time <= w /\ Newest(s).time \in 0 .. Word - 1
    BY Zenon, <1>1, <2>2, <2>3, <2>4 DEF Measurements
  <2> QED BY <1>2, <2>5
<1>4. IsSat(t) /\ t.id = s.id
  BY Zenon, <1>1, <1>3, MeasurementAdded
<1>5. FedOK(t, g)
  BY Zenon, <1>1, <1>3, FedAdded
<1>6. g = f \/ g = <<m>> \/ g = Append(f, m)
  BY ZenonT(30) DEF FedNext
<1> HIDE DEF t, g
<1>7. \A i \in 1 .. Len(g) : g[i].time <= x
  <2>1. CASE g = f
    BY SMTT(40), <1>1, <2>1 DEF Measurements
  <2>2. CASE g = <<m>>
    BY <2>2
  <2>3. CASE g = Append(f, m)
    <3>1. /\ Len(g) = Len(f) + 1 /\ g[Len(f) + 1] = m
          /\ \A i \in 1 .. Len(f) : g[i] = f[i]
      BY <1>1, <2>3, AppendProperties
    <3>2. ASSUME NEW i \in 1 .. Len(g) PROVE g[i].time <= x
      <4>1. CASE i = Len(f) + 1
        BY Zenon, <3>1, <4>1
      <4>2. CASE i # Len(f) + 1
        <5>1. i \in 1 .. Len(f)
          BY <1>1, <3>1, <4>2
        <5>2. g[i] = f[i] /\ f[i].time <= w /\ f[i].time \in 0 .. Word - 1
          BY Zenon, <1>1, <3>1, <5>1 DEF Measurements
        <5>3. f[i].time <= x
          BY <1>2, <5>2
        <5> QED BY Zenon, <5>2, <5>3
      <4> QED BY Zenon, <4>1, <4>2
    <3> QED BY Zenon, <3>2
  <2> QED BY Zenon, <1>6, <2>1, <2>2, <2>3
<1>8. RowOK(t, g, x)
  BY Zenon, <1>4, <1>5, <1>7 DEF RowOK
<1> QED BY Zenon, <1>4, <1>8 DEF t, g

LEMMA RowLater ==
  ASSUME NEW w \in Nat, NEW x \in Nat, x >= w, NEW s, NEW f, RowOK(s, f, w)
  PROVE  RowOK(s, f, x)
<1>1. \A i \in 1 .. Len(f) : f[i] \in Measurements
  BY Zenon, ElementOfSeq DEF RowOK, FedOK
<1>2. ASSUME NEW i \in 1 .. Len(f) PROVE f[i].time <= x
  <2>1. f[i].time \in 0 .. Word - 1
    BY Zenon, <1>1 DEF Measurements
  <2>2. f[i].time <= w
    BY Zenon DEF RowOK
  <2> QED BY <2>1, <2>2
<1> QED BY Zenon, <1>2 DEF RowOK

(* The rows of the table: one for each satellite heard.                    *)
RowsOK(q, p, w) ==
  /\ q \in Seq({q[k] : k \in DOMAIN q}) /\ p \in Seq(Seq(Measurements))
  /\ Len(q) <= MaxSats /\ Len(p) = Len(q)
  /\ \A j, k \in 1 .. Len(q) : q[j].id = q[k].id => j = k
  /\ \A k \in 1 .. Len(q) : RowOK(q[k], p[k], w)

TableInv == newest \in Nat /\ RowsOK(satellites, fed, newest)

LEMMA SeqOfItsOwn ==
  ASSUME NEW S, NEW q \in Seq(S)
  PROVE  q \in Seq({q[k] : k \in DOMAIN q}) /\ DOMAIN q = 1 .. Len(q) /\ Len(q) \in Nat
<1>1. DOMAIN q = 1 .. Len(q) /\ Len(q) \in Nat /\ q = [k \in 1 .. Len(q) |-> q[k]]
  BY Zenon, LenProperties, ElementOfSeq
<1> QED BY <1>1

LEMMA RowsFacts ==
  ASSUME NEW q, NEW p, NEW w, RowsOK(q, p, w)
  PROVE  /\ DOMAIN q = 1 .. Len(q) /\ Len(q) \in Nat
         /\ DOMAIN p = 1 .. Len(q) /\ IsTable(q)
<1>1. DOMAIN q = 1 .. Len(q) /\ Len(q) \in Nat /\ DOMAIN p = 1 .. Len(q)
  BY Zenon, LenProperties DEF RowsOK
<1> QED BY Zenon, <1>1 DEF RowsOK, RowOK, IsTable

(* The row of one satellite changes, or one is added.                      *)
LEMMA RowChanges ==
  ASSUME NEW q, NEW p, NEW w \in Nat, NEW x \in Nat, x >= w, RowsOK(q, p, w),
         NEW k \in 1 .. Len(q), NEW t, NEW g, RowOK(t, g, x), t.id = q[k].id
  PROVE  RowsOK([q EXCEPT ![k] = t], [p EXCEPT ![k] = g], x)
<1> DEFINE r == [q EXCEPT ![k] = t]
           v == [p EXCEPT ![k] = g]
           S == {q[i] : i \in DOMAIN q} \cup {t}
<1>1. /\ DOMAIN q = 1 .. Len(q) /\ Len(q) \in Nat /\ DOMAIN p = 1 .. Len(q) /\ Len(p) = Len(q)
      /\ q \in Seq(S) /\ p \in Seq(Seq(Measurements)) /\ g \in Seq(Measurements)
  BY RowsFacts DEF RowsOK, RowOK, FedOK
<1>2. /\ r \in Seq(S) /\ Len(r) = Len(q)
      /\ \A i \in 1 .. Len(q) : r[i] = IF i = k THEN t ELSE q[i]
  BY <1>1
<1>3. /\ v \in Seq(Seq(Measurements)) /\ Len(v) = Len(q)
      /\ \A i \in 1 .. Len(q) : v[i] = IF i = k THEN g ELSE p[i]
  BY <1>1
<1>4. ASSUME NEW i \in 1 .. Len(q), i # k PROVE RowOK(q[i], p[i], x)
  <2>1. RowOK(q[i], p[i], w)
    BY Zenon DEF RowsOK
  <2> QED BY Zenon, <2>1, RowLater
<1> HIDE DEF r, v
<1>5. r \in Seq({r[i] : i \in DOMAIN r})
  BY Zenon, <1>2, SeqOfItsOwn
<1>6. \A i, j \in 1 .. Len(r) : r[i].id = r[j].id => i = j
  BY Zenon, <1>2 DEF RowsOK
<1>7. \A i \in 1 .. Len(r) : RowOK(r[i], v[i], x)
  BY Zenon, <1>2, <1>3, <1>4
<1>8. Len(q) <= MaxSats
  BY Zenon DEF RowsOK
<1>9. RowsOK(r, v, x)
  BY Zenon, <1>2, <1>3, <1>5, <1>6, <1>7, <1>8 DEF RowsOK
<1> QED BY Zenon, <1>9 DEF r, v

LEMMA RowAppears ==
  ASSUME NEW q, NEW p, NEW w \in Nat, NEW x \in Nat, x >= w, RowsOK(q, p, w),
         NEW t, NEW g, RowOK(t, g, x), Len(q) < MaxSats,
         \A i \in 1 .. Len(q) : q[i].id # t.id
  PROVE  RowsOK(Append(q, t), Append(p, g), x)
<1> DEFINE r == Append(q, t)
           v == Append(p, g)
           S == {q[i] : i \in DOMAIN q} \cup {t}
<1>1. /\ DOMAIN q = 1 .. Len(q) /\ Len(q) \in Nat /\ DOMAIN p = 1 .. Len(q) /\ Len(p) = Len(q)
      /\ q \in Seq(S) /\ p \in Seq(Seq(Measurements)) /\ g \in Seq(Measurements)
  BY RowsFacts DEF RowsOK, RowOK, FedOK
<1>2. /\ r \in Seq(S) /\ Len(r) = Len(q) + 1
      /\ \A i \in 1 .. Len(q) + 1 : r[i] = IF i = Len(q) + 1 THEN t ELSE q[i]
  <2> HIDE DEF S
  <2>1. t \in S
    BY Zenon DEF S
  <2> QED BY <1>1, <2>1, AppendProperties
<1>3. /\ v \in Seq(Seq(Measurements)) /\ Len(v) = Len(q) + 1
      /\ \A i \in 1 .. Len(q) + 1 : v[i] = IF i = Len(q) + 1 THEN g ELSE p[i]
  <2> DEFINE T == Seq(Measurements)
  <2>1. p \in Seq(T) /\ g \in T /\ Len(p) = Len(q) /\ Len(q) \in Nat
    BY Zenon, <1>1
  <2> HIDE DEF T
  <2>2. /\ v \in Seq(T) /\ Len(v) = Len(p) + 1 /\ v[Len(p) + 1] = g
        /\ \A i \in 1 .. Len(p) : v[i] = p[i]
    BY <2>1, AppendProperties
  <2> HIDE DEF v
  <2>3. ASSUME NEW i \in 1 .. Len(q) + 1 PROVE v[i] = IF i = Len(q) + 1 THEN g ELSE p[i]
    <3>1. i = Len(q) + 1 \/ i \in 1 .. Len(q)
      BY <2>1
    <3> QED BY Zenon, <2>1, <2>2, <3>1
  <2> QED BY Zenon, <2>1, <2>2, <2>3 DEF T
<1>4. ASSUME NEW i \in 1 .. Len(q) PROVE RowOK(q[i], p[i], x)
  <2>1. RowOK(q[i], p[i], w)
    BY Zenon DEF RowsOK
  <2> QED BY Zenon, <2>1, RowLater
<1> HIDE DEF r, v
<1>5. r \in Seq({r[i] : i \in DOMAIN r})
  BY <1>2, SeqOfItsOwn
<1>a. \A i \in 1 .. Len(r) : i = Len(q) + 1 \/ i \in 1 .. Len(q)
  BY <1>1, <1>2
<1>b. Len(q) + 1 \notin 1 .. Len(q)
  BY <1>1
<1>6. \A i, j \in 1 .. Len(r) : r[i].id = r[j].id => i = j
  <2> SUFFICES ASSUME NEW i \in 1 .. Len(r), NEW j \in 1 .. Len(r), r[i].id = r[j].id PROVE i = j
    OBVIOUS
  <2>1. CASE i \in 1 .. Len(q) /\ j \in 1 .. Len(q)
    <3>1. r[i] = q[i] /\ r[j] = q[j]
      BY Zenon, <1>2, <1>b, <2>1
    <3> QED BY Zenon, <2>1, <3>1 DEF RowsOK
  <2>2. CASE i \in 1 .. Len(q) /\ j = Len(q) + 1
    BY Zenon, <1>2, <1>b, <2>2
  <2>3. CASE j \in 1 .. Len(q) /\ i = Len(q) + 1
    BY Zenon, <1>2, <1>b, <2>3
  <2> QED BY Zenon, <1>a, <2>1, <2>2, <2>3
<1>7. ASSUME NEW i \in 1 .. Len(r) PROVE RowOK(r[i], v[i], x)
  <2>1. CASE i = Len(q) + 1
    BY Zenon, <1>2, <1>3, <2>1
  <2>2. CASE i \in 1 .. Len(q)
    <3>1. r[i] = q[i] /\ v[i] = p[i]
      BY Zenon, <1>2, <1>3, <1>b, <2>2
    <3> QED BY Zenon, <1>4, <2>2, <3>1
  <2> QED BY Zenon, <1>a, <2>1, <2>2
<1>8. Len(r) <= MaxSats
  BY SMTT(40), <1>1, <1>2, DopplerAssumption
<1>9. RowsOK(r, v, x)
  BY Zenon, <1>2, <1>3, <1>5, <1>6, <1>7, <1>8 DEF RowsOK
<1> QED BY Zenon, <1>9 DEF r, v

(* The table with one measurement more.                                    *)
LEMMA AddKeepsTable ==
  ASSUME TableInv, NEW id, NEW m \in Measurements, m.time >= newest - Late,
         AddMeasurement(id, m)
  PROVE  TableInv'
<1> DEFINE k == find_or_create_sat(satellites, id)
           own == {i \in DOMAIN satellites : satellites[i].id = id}
<1>1. /\ newest \in Nat /\ RowsOK(satellites, fed, newest) /\ DOMAIN satellites = 1 .. Len(satellites)
      /\ Len(satellites) \in Nat /\ Len(fed) = Len(satellites)
  BY Zenon, RowsFacts DEF TableInv, RowsOK
<1>2. /\ newest' \in Nat /\ newest' >= newest /\ newest' >= m.time
  <2>1. newest' = Max({newest, m.time}) /\ m.time \in Nat
    BY DEF AddMeasurement, Measurements
  <2>2. Max({newest, m.time}) = IF newest >= m.time THEN newest ELSE m.time
    BY <1>1, <2>1 DEF Max
  <2> QED BY <1>1, <2>1, <2>2
<1>3. CASE own # {}
  <2>1. k \in 1 .. Len(satellites) /\ satellites[k].id = id
    <3>1. k = Min(own) /\ own \in SUBSET Nat
      BY <1>1, <1>3 DEF find_or_create_sat
    <3>2. Min(own) \in own
      BY Zenon, <1>3, <3>1, LeastNat
    <3> QED BY Zenon, <1>1, <3>1, <3>2
  <2> DEFINE s == satellites[k]
             f == fed[k]
             t == doppler_pos_add_measurement(s, m)
             g == FedNext(s, f, m)
  <2> HIDE DEF k
  <2>2. satellites' = [satellites EXCEPT ![k] = t] /\ fed' = [fed EXCEPT ![k] = g]
    <3>1. k # 0 /\ ~(k > Len(satellites)) /\ ~(k > Len(fed))
      BY <1>1, <2>1
    <3> QED BY <3>1, ZenonT(30) DEF AddMeasurement, FedNext, k
  <2>3. RowOK(s, f, newest)
    BY Zenon, <1>1, <2>1 DEF RowsOK
  <2>4. RowOK(t, g, newest') /\ t.id = s.id
    <3> HIDE DEF s, f
    <3> QED BY <1>1, <1>2, <2>3, RowAdded
  <2> HIDE DEF t, g
  <2>5. RowsOK([satellites EXCEPT ![k] = t], [fed EXCEPT ![k] = g], newest')
    BY Zenon, <1>1, <1>2, <2>1, <2>4, RowChanges
  <2> QED BY Zenon, <1>2, <2>2, <2>5 DEF TableInv
<1>4. CASE own = {} /\ Len(satellites) < MaxSats
  <2>1. k = Len(satellites) + 1
    BY Zenon, <1>4 DEF find_or_create_sat
  <2> DEFINE s == NewSat(id)
             t == doppler_pos_add_measurement(s, m)
             g == FedNext(s, <<>>, m)
  <2> HIDE DEF k
  <2>2. satellites' = Append(satellites, t) /\ fed' = Append(fed, g)
    <3>1. k # 0 /\ k > Len(satellites) /\ k > Len(fed)
      BY <1>1, <2>1
    <3> QED BY <3>1, ZenonT(30) DEF AddMeasurement, FedNext, k
  <2>3. RowOK(s, <<>>, newest) /\ s.id = id
    <3>1. IsSat(s) /\ s.count = 0 /\ s.id = id
      BY Zenon, EmptyRings
    <3>2. <<>> \in Seq(Measurements) /\ Len(<<>>) = 0
      OBVIOUS
    <3> HIDE DEF s
    <3> QED BY <3>1, <3>2 DEF RowOK, FedOK
  <2>4. RowOK(t, g, newest') /\ t.id = id
    <3> HIDE DEF s
    <3> QED BY <1>1, <1>2, <2>3, RowAdded
  <2> HIDE DEF t, g
  <2>5. \A i \in 1 .. Len(satellites) : satellites[i].id # t.id
    BY Zenon, <1>1, <1>4, <2>4
  <2>6. RowsOK(Append(satellites, t), Append(fed, g), newest')
    BY Zenon, <1>1, <1>2, <1>4, <2>4, <2>5, RowAppears
  <2> QED BY Zenon, <1>2, <2>2, <2>6 DEF TableInv
<1>5. CASE own = {} /\ ~(Len(satellites) < MaxSats)
  <2>1. k = 0
    BY Zenon, <1>5 DEF find_or_create_sat
  <2>2. satellites' = satellites /\ fed' = fed
    BY <2>1, ZenonT(30) DEF AddMeasurement
  <2>3. RowsOK(satellites, fed, newest')
    <3>1. \A i \in 1 .. Len(satellites) : RowOK(satellites[i], fed[i], newest)
      BY Zenon, <1>1 DEF RowsOK
    <3>2. \A i \in 1 .. Len(satellites) : RowOK(satellites[i], fed[i], newest')
      BY Zenon, <1>1, <1>2, <3>1, RowLater
    <3> QED BY Zenon, <1>1, <3>2 DEF RowsOK
  <2> QED BY Zenon, <1>2, <2>2, <2>3 DEF TableInv
<1> QED BY Zenon, <1>3, <1>4, <1>5

LEMMA HeldSeq ==
  ASSUME NEW s, IsRing(s)
  PROVE  /\ Held(s) \in Seq(Measurements) /\ Len(Held(s)) = s.count
         /\ s.count \in Nat
         /\ \A i \in 1 .. s.count : Held(s)[i] \in Measurements
<1>1. s.head \in 0 .. PerSat - 1 /\ s.count \in 0 .. PerSat /\ PerSat \in Nat
  BY Zenon, RingFields, DopplerAssumption
<1>2. DOMAIN Held(s) = 1 .. s.count
  BY Zenon DEF Held
<1>3. \A i \in 1 .. s.count : Held(s)[i] \in Measurements
  <2>1. s.count > 0 => \A i \in 1 .. s.count : Held(s)[i] \in Measurements
    BY Zenon, NewestIsLast
  <2> QED BY <1>1, <2>1
<1>4. Held(s) = [i \in 1 .. s.count |-> Held(s)[i]]
  BY Zenon DEF Held
<1>5. Held(s) \in [1 .. s.count -> Measurements]
  BY Zenon, <1>3, <1>4
<1> QED BY <1>1, <1>2, <1>3, <1>5

LEMMA LatestOK ==
  ASSUME NEW q, IsTable(q)
  PROVE  /\ Latest(q) \in Nat
         /\ \A k \in DOMAIN q : \A i \in 1 .. q[k].count : Held(q[k])[i].time <= Latest(q)
<1> DEFINE T == UNION {{Held(q[k])[i].time : i \in 1 .. q[k].count} : k \in DOMAIN q}
           U == {0} \cup T
<1>1. ASSUME NEW k \in DOMAIN q, NEW i \in 1 .. q[k].count
      PROVE  Held(q[k])[i].time \in 0 .. Word - 1
  <2>1. IsRing(q[k])
    BY Zenon DEF IsTable, IsSat
  <2> QED BY Zenon, <2>1, HeldSeq DEF Measurements
<1>2. T \subseteq 0 .. Word - 1
  BY <1>1
<1>3. \A k \in DOMAIN q : \A i \in 1 .. q[k].count : Held(q[k])[i].time \in T
  OBVIOUS
<1>4. Latest(q) = Max(U)
  BY Zenon DEF Latest
<1> HIDE DEF T
<1>5. U \in SUBSET Nat /\ U # {} /\ Word \in Nat /\ \A x \in U : x <= Word
  BY <1>2, DopplerAssumption
<1>6. T \subseteq U
  OBVIOUS
<1> HIDE DEF U
<1>7. Max(U) \in U /\ \A y \in U : Max(U) >= y
  BY Zenon, <1>5, LargestNat
<1>8. Latest(q) \in Nat /\ \A y \in T : y <= Latest(q)
  BY Zenon, <1>2, <1>4, <1>5, <1>6, <1>7
<1> QED BY Zenon, <1>3, <1>8

LEMMA TableInit == PosInit => TableInv
<1> SUFFICES ASSUME PosInit PROVE TableInv
  OBVIOUS
<1> DEFINE q == satellites
<1>1. /\ IsTable(q) /\ DOMAIN q = 1 .. Len(q) /\ Len(q) \in 0 .. MaxSats
      /\ fed = [k \in DOMAIN q |-> Held(q[k])] /\ newest = Max({1, Latest(q)})
      /\ MaxSats \in Nat
  <2>1. IsTable(q)
    BY Zenon, TablesAssumption DEF PosInit
  <2> QED BY Zenon, <2>1, TableSeq, DopplerAssumption DEF PosInit
<1>2. Latest(q) \in Nat /\ newest \in Nat /\ newest >= Latest(q)
  <2>1. Latest(q) \in Nat
    BY Zenon, <1>1, LatestOK
  <2>2. Max({1, Latest(q)}) = IF 1 >= Latest(q) THEN 1 ELSE Latest(q)
    <3> DEFINE n == Latest(q)
    <3>1. n \in Nat
      BY Zenon, <2>1
    <3> HIDE DEF n
    <3>2. Max({1, n}) = IF 1 >= n THEN 1 ELSE n
      BY <3>1 DEF Max
    <3> QED BY Zenon, <3>2 DEF n
  <2> QED BY <1>1, <2>1, <2>2
<1>3. ASSUME NEW k \in 1 .. Len(q) PROVE RowOK(q[k], fed[k], newest) /\ fed[k] \in Seq(Measurements)
  <2> DEFINE s == q[k]
  <2>1. IsSat(s) /\ IsRing(s) /\ fed[k] = Held(s)
    BY Zenon, <1>1 DEF IsTable, IsSat
  <2>2. \A i \in 1 .. s.count : Held(s)[i].time <= Latest(q)
    BY Zenon, <1>1, LatestOK
  <2> HIDE DEF s
  <2>3. /\ Held(s) \in Seq(Measurements) /\ Len(Held(s)) = s.count /\ s.count \in Nat
        /\ \A i \in 1 .. s.count : Held(s)[i] \in Measurements
    BY Zenon, <2>1, HeldSeq
  <2>4. FedOK(s, Held(s))
    <3>1. \A i \in 1 .. s.count : (s.count - s.count) + i = i
      BY <2>3
    <3> QED BY <2>3, <3>1 DEF FedOK
  <2>5. ASSUME NEW i \in 1 .. s.count PROVE Held(s)[i].time <= newest
    <3>1. Held(s)[i].time \in 0 .. Word - 1
      BY Zenon, <2>3 DEF Measurements
    <3> QED BY <1>2, <2>2, <3>1
  <2>6. RowOK(s, Held(s), newest)
    BY Zenon, <2>1, <2>3, <2>4, <2>5 DEF RowOK
  <2> QED BY Zenon, <2>1, <2>3, <2>6 DEF s
<1>4. fed \in Seq(Seq(Measurements)) /\ Len(fed) = Len(q)
  <2>1. fed \in [1 .. Len(q) -> Seq(Measurements)]
    BY Zenon, <1>1, <1>3
  <2> QED BY <1>1, <2>1
<1>5. RowsOK(q, fed, newest)
  BY Zenon, <1>1, <1>3, <1>4 DEF RowsOK, IsTable
<1> QED BY Zenon, <1>2, <1>5 DEF TableInv

(* One step keeps the table.                                               *)
LEMMA TableNext == TableInv /\ [PosNext]_posVars => TableInv'
<1> SUFFICES ASSUME TableInv, [PosNext]_posVars PROVE TableInv'
  OBVIOUS
<1>1. ASSUME NEW id \in Ids, NEW p \in Spots,
             NEW t \in (newest - Late .. newest + Ahead) \cap (1 .. Word - 1),
             AddMeasurement(id, [pos |-> p, time |-> t])
      PROVE  TableInv'
  <2> DEFINE m == [pos |-> p, time |-> t]
  <2>1. newest \in Nat /\ Late \in Nat /\ Ahead \in Nat /\ Word \in Nat
    BY Zenon, PositioningAssumption, DopplerAssumption DEF TableInv
  <2>2. t \in 0 .. Word - 1 /\ t >= newest - Late /\ p \in Int
    BY <2>1, PositioningAssumption
  <2>3. m \in Measurements /\ m.time >= newest - Late
    BY Zenon, <2>2 DEF Measurements
  <2> HIDE DEF m
  <2> QED BY Zenon, <1>1, <2>3, AddKeepsTable DEF m
<1>2. CASE UNCHANGED <<satellites, fed, newest>>
  BY Zenon, <1>2 DEF TableInv
<1>3. CASE SolveBegin \/ SolveFails \/ SolveDiverges
  BY Zenon, <1>2, <1>3 DEF SolveBegin, SolveFails, SolveDiverges
<1>4. CASE SolveSucceeds
  <2>1. \E place, r, d, left : SolveEnds(place, r, d, left)
    BY Zenon, <1>4 DEF SolveSucceeds
  <2> QED BY Zenon, <1>2, <2>1 DEF SolveEnds
<1>5. CASE UNCHANGED posVars
  BY Zenon, <1>2, <1>5 DEF posVars
<1> QED BY Zenon, <1>1, <1>3, <1>4, <1>5 DEF PosNext

(* In every reachable state the rings hold one pass each: their order does *)
(* not depend on the order in which frames arrive, nor on how many came.   *)
THEOREM RingsHold == PosSpec => []RingsHoldOnePass
<1>1. TableInv => RingsHoldOnePass
  <2> SUFFICES ASSUME TableInv PROVE RingsHoldOnePass
    OBVIOUS
  <2>1. /\ DOMAIN satellites = 1 .. Len(satellites) /\ RowsOK(satellites, fed, newest)
    BY Zenon, RowsFacts DEF TableInv
  <2>2. ASSUME NEW k \in DOMAIN satellites
        PROVE  /\ OnePass(satellites[k])
               /\ Held(satellites[k]) =
                    SubSeq(fed[k], Len(fed[k]) - satellites[k].count + 1, Len(fed[k]))
    <3> DEFINE s == satellites[k]
               f == fed[k]
               n == Len(f)
    <3>1. IsSat(s) /\ IsRing(s) /\ FedOK(s, f)
      BY Zenon, <2>1 DEF RowsOK, RowOK, IsSat
    <3> HIDE DEF s, f
    <3>2. /\ Held(s) \in Seq(Measurements) /\ Len(Held(s)) = s.count /\ s.count \in Nat
          /\ f \in Seq(Measurements) /\ s.count <= n /\ n \in Nat
          /\ \A i \in 1 .. s.count : Held(s)[i] = f[(n - s.count) + i]
      BY Zenon, <3>1, HeldSeq, LenProperties DEF FedOK
    <3> DEFINE a == (n - s.count) + 1
               u == SubSeq(f, a, n)
    <3>3. a \in 1 .. Len(f) + 1 /\ n \in a - 1 .. Len(f) /\ (n - a) + 1 = s.count
      BY <3>2
    <3>5. \A i \in 1 .. s.count : a + i - 1 = (n - s.count) + i
      BY <3>2
    <3> HIDE DEF a
    <3>4. /\ u \in Seq(Measurements) /\ Len(u) = (n - a) + 1
          /\ \A i \in 1 .. (n - a) + 1 : u[i] = f[a + i - 1]
      BY <3>2, <3>3, SubSeqProperties
    <3> HIDE DEF u, n
    <3>6. Held(s) = u
      <4>1. Len(Held(s)) = Len(u) /\ \A i \in 1 .. Len(Held(s)) : Held(s)[i] = u[i]
        BY Zenon, <3>2, <3>3, <3>4, <3>5
      <4> QED BY Zenon, <3>2, <3>4, <4>1, SeqEqual
    <3>7. OnePass(s)
      BY Zenon, <3>1 DEF IsSat
    <3>8. a = n - s.count + 1
      BY Zenon, <3>2 DEF a
    <3> QED BY Zenon, <3>6, <3>7, <3>8 DEF u, s, f, n
  <2>3. \A j, k \in DOMAIN satellites : satellites[j].id = satellites[k].id => j = k
    BY Zenon, <2>1 DEF RowsOK
  <2> QED BY Zenon, <2>2, <2>3 DEF RingsHoldOnePass
<1> QED BY <1>1, TableInit, TableNext, PTL DEF PosSpec

-----------------------------------------------------------------------------
(* What a solve may collect: some measurements of some satellites.         *)
Collection(c) ==
  DOMAIN c \subseteq 1 .. MaxSats /\ \A k \in DOMAIN c : c[k] \subseteq 1 .. PerSat

LEMMA NumberIsNat ==
  ASSUME NEW c, Collection(c)
  PROVE  NumberOf(c) \in Nat
<1> DEFINE A == 1 .. MaxSats
           B == 1 .. PerSat
           P == UNION {{k} \X c[k] : k \in DOMAIN c}
<1>1. IsFiniteSet(A) /\ IsFiniteSet(B)
  <2>1. MaxSats \in Nat /\ PerSat \in Nat
    BY Zenon, DopplerAssumption
  <2> QED BY Zenon, <2>1, IntervalSize
<1>2. P \in SUBSET (A \X B)
  BY DEF Collection
<1> HIDE DEF A, B, P
<1>3. IsFiniteSet(A \X B)
  BY Zenon, <1>1, FS_Product
<1>4. IsFiniteSet(P)
  BY Zenon, <1>2, <1>3, FS_Subset
<1>5. Cardinality(P) \in Nat
  BY Zenon, <1>4, FS_CardinalityType
<1> QED BY Zenon, <1>5 DEF NumberOf, P

LEMMA CollectedOK ==
  ASSUME NEW q, IsTable(q)
  PROVE  Collection(Collected(q))
<1>1. DOMAIN q = 1 .. Len(q) /\ Len(q) \in 0 .. MaxSats
  BY Zenon, TableSeq
<1>2. DOMAIN Collected(q) = DOMAIN q
  BY Zenon DEF Collected
<1>3. ASSUME NEW k \in DOMAIN q PROVE Collected(q)[k] \subseteq 1 .. PerSat
  <2>1. Views(q)[k].usable \subseteq 1 .. q[k].count
    BY Zenon, ViewOK DEF Views
  <2>2. q[k].count \in 0 .. PerSat
    BY Zenon, RingFields DEF IsTable, IsSat
  <2>3. Collected(q)[k] = {} \/ Collected(q)[k] = Views(q)[k].usable
    BY Zenon DEF Collected
  <2>4. 1 .. q[k].count \subseteq 1 .. PerSat
    BY <2>2, DopplerAssumption
  <2> QED BY Zenon, <2>1, <2>3, <2>4
<1>4. 1 .. Len(q) \subseteq 1 .. MaxSats
  BY SMTT(40), <1>1, DopplerAssumption
<1> QED BY Zenon, <1>1, <1>2, <1>3, <1>4 DEF Collection

(* The outliers that sigma allows leave enough for a second fit.           *)
LEMMA OutliersLeaveEnough ==
  ASSUME NEW n \in Nat, NEW r \in Outliers(n)
  PROVE  r \in 0 .. n /\ AfterOutliers(n, r) + r = n
<1> DEFINE s == Sigma2
<1>1. /\ s \in Nat \ {0} /\ Params \in Nat /\ MinMeas \in Nat /\ MinMeas <= s + Params
  BY Zenon, PositioningAssumption
<1>2. r \in 0 .. n /\ (r = 0 \/ s * r < n - Params)
  BY Zenon DEF Outliers
<1>3. CASE r = 0
  BY <1>3 DEF AfterOutliers
<1>4. CASE r > 0
  <2>1. s * r < n - Params
    BY <1>2, <1>4
  <2> HIDE DEF s
  <2>2. PICK a \in Nat, b \in Nat : s = a + 1 /\ r = b + 1
    <3>1. s - 1 \in Nat /\ r - 1 \in Nat /\ s = (s - 1) + 1 /\ r = (r - 1) + 1
      BY <1>1, <1>2, <1>4
    <3> QED BY Zenon, <3>1
  <2>3. s * r = (((a * b) + a) + b) + 1
    BY <2>2
  <2>4. a * b \in Nat
    BY <2>2
  <2>5. n - r >= MinMeas
    <3> DEFINE ab == a * b
    <3>1. ab \in Nat /\ (((ab + a) + b) + 1) < n - Params
      BY Zenon, <2>1, <2>3, <2>4
    <3> HIDE DEF ab
    <3> QED BY <1>1, <1>2, <2>2, <3>1
  <2> QED BY <1>2, <1>4, <2>5 DEF AfterOutliers
<1> QED BY <1>2, <1>3, <1>4

CountsInv ==
  /\ Collection(all_meas)
  /\ counts.screened <= counts.collected /\ counts.hdop <= counts.collected

LEMMA CountsNext == TableInv /\ CountsInv /\ [PosNext]_posVars => CountsInv'
<1> SUFFICES ASSUME TableInv, CountsInv, [PosNext]_posVars PROVE CountsInv'
  OBVIOUS
<1>0. Collection(<<>>)
  BY DEF Collection
<1>1. CASE SolveBegin
  <2>1. Collection(Collected(satellites))
    BY Zenon, RowsFacts, CollectedOK DEF TableInv
  <2>2. counts' = counts /\ (all_meas' = <<>> \/ all_meas' = Collected(satellites))
    BY Zenon, <1>1 DEF SolveBegin
  <2> QED BY Zenon, <1>0, <2>1, <2>2 DEF CountsInv
<1>2. CASE SolveFails \/ SolveDiverges
  BY Zenon, <1>0, <1>2 DEF SolveFails, SolveDiverges, CountsInv
<1>3. CASE SolveSucceeds
  <2> DEFINE n == NumberOf(all_meas)
             gone(d) == NumberOf([k \in d |-> all_meas[k]])
  <2>1. PICK place \in Fixes, r \in Outliers(n), d \in Droppable(Contributing(all_meas)) :
           \E left \in IF d = {} THEN {AfterOutliers(n, r)}
                       ELSE Max({0, n - r - gone(d)}) .. n - Max({r, gone(d)}) :
             SolveEnds(place, r, d, left)
    BY Zenon, <1>3 DEF SolveSucceeds
  <2>2. PICK left \in IF d = {} THEN {AfterOutliers(n, r)}
                     ELSE Max({0, n - r - gone(d)}) .. n - Max({r, gone(d)}) :
             SolveEnds(place, r, d, left)
    BY Zenon, <2>1
  <2>3. n \in Nat
    BY Zenon, NumberIsNat DEF CountsInv
  <2>4. r \in 0 .. n /\ AfterOutliers(n, r) + r = n
    BY Zenon, <2>3, OutliersLeaveEnough
  <2>5. gone(d) \in Nat
    <3>1. d \subseteq DOMAIN all_meas
      BY Zenon DEF Droppable, Contributing
    <3>2. Collection([k \in d |-> all_meas[k]])
      BY Zenon, <3>1 DEF Collection, CountsInv
    <3> QED BY Zenon, <3>2, NumberIsNat
  <2>6. /\ counts' = [collected |-> n, screened |-> AfterOutliers(n, r) + r, hdop |-> left + r]
        /\ all_meas' = <<>>
    BY Zenon, <2>2 DEF SolveEnds
  <2> HIDE DEF n, gone
  <2>7. left + r <= n
    <3>1. CASE d = {}
      BY <2>2, <2>3, <2>4, <3>1
    <3>2. CASE d # {}
      <4> DEFINE g == gone(d)
      <4>1. g \in Nat /\ left \in Max({0, n - r - g}) .. n - Max({r, g})
        BY Zenon, <2>2, <2>5, <3>2
      <4> HIDE DEF g
      <4>2. Max({r, g}) = IF r >= g THEN r ELSE g
        BY <2>3, <2>4, <4>1 DEF Max
      <4>3. Max({r, g}) \in Nat /\ Max({r, g}) >= r
        BY SMTT(40), <2>3, <2>4, <4>1, <4>2
      <4>4. left \in Int /\ left <= n - Max({r, g})
        BY <4>1
      <4> QED BY <2>3, <2>4, <4>3, <4>4
    <3> QED BY Zenon, <3>1, <3>2
  <2> QED BY <1>0, <2>3, <2>4, <2>6, <2>7 DEF CountsInv
<1>4. ASSUME NEW id \in Ids, NEW m, AddMeasurement(id, m)
      PROVE  UNCHANGED <<all_meas, counts>>
  BY Zenon, <1>4 DEF AddMeasurement
<1>5. CASE \E id \in Ids, p \in Spots,
                t \in (newest - Late .. newest + Ahead) \cap (1 .. Word - 1) :
             AddMeasurement(id, [pos |-> p, time |-> t])
  BY Zenon, <1>4, <1>5 DEF CountsInv
<1>6. CASE UNCHANGED posVars
  BY Zenon, <1>6 DEF posVars, CountsInv
<1> QED BY Zenon, <1>1, <1>2, <1>3, <1>5, <1>6 DEF PosNext

(* A solve reads what it has collected, however the outliers and the       *)
(* satellites are screened, and leaves out the satellite that is alone.    *)
THEOREM SolvesHold == PosSpec => []SolvesUseTheirOwn
<1>1. PosInit => CountsInv
  BY DEF PosInit, CountsInv, Collection, NoCounts
<1>2. TableInv => IsTable(satellites)
  BY Zenon, RowsFacts DEF TableInv
<1>3. TableInv /\ CountsInv => SolvesUseTheirOwn
  BY Zenon, <1>2, Loners DEF SolvesUseTheirOwn, ReadsWhatWasCollected, CountsInv
<1> QED BY <1>1, <1>3, TableInit, TableNext, CountsNext, PTL DEF PosSpec

=============================================================================
