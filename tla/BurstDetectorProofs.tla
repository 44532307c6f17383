------------------------- MODULE BurstDetectorProofs -------------------------
(***************************************************************************)
(* The detector's state machine for every spectrum, every limit and every  *)
(* buffer length: the mask, the lifetime of a burst, and the read cursor.   *)
(***************************************************************************)
EXTENDS BurstDetector, TLAPS

Burst == [bin : Bins, start : Int, last : Int]

Histories == [index : Nat, primed : BOOLEAN]

(* MaskIsExact and BoundedLife hold together: the frame that ages bursts    *)
(* without looking for their end is one of the noise history, which is only *)
(* filled while there are none.                                             *)
BurstInv ==
  /\ bursts \subseteq Burst
  /\ index \in Nat
  /\ hist \in Histories
  /\ MaskIsExact
  /\ BoundedLife

LEMMA BurstInit == Init => BurstInv
BY DetectorAssumption DEF Init, BurstInv, MaskIsExact, MaskOfAll, BoundedLife, Histories

LEMMA LearnKeeps ==
  ASSUME NEW h \in Histories
  PROVE  Learn(h) \in Histories /\ (h.primed => Learn(h).primed)
BY DEF Learn, Histories

LEMMA MaskIsSymmetric ==
  ASSUME NEW b, NEW c, b.bin \in Bins, c.bin \in Bins, c.bin \notin MaskOf(b)
  PROVE  b.bin \notin MaskOf(c)
<1>1. Half \in Int /\ b.bin \in Int /\ c.bin \in Int
  BY DetectorAssumption DEF Half, Bins
<1> QED BY <1>1 DEF MaskOf

(* update_bursts changes nothing but the time of the last activity. *)
LEMMA UpdateKeeps ==
  ASSUME BurstInv, NEW hot, NEW b \in update_bursts(hot)
  PROVE  /\ b \in Burst
         /\ \E a \in bursts : /\ b.bin = a.bin /\ b.start = a.start
                              /\ b.last \in {a.last, index}
                              /\ b = IF hot \cap {a.bin - 1, a.bin, a.bin + 1} # {}
                                     THEN [a EXCEPT !.last = index] ELSE a
<1>1. PICK a \in bursts : b = IF hot \cap {a.bin - 1, a.bin, a.bin + 1} # {}
                              THEN [a EXCEPT !.last = index] ELSE a
  BY Zenon DEF update_bursts
<1>2. a \in Burst /\ index \in Int
  BY DEF BurstInv
<1> QED BY Zenon, <1>1, <1>2 DEF Burst

(* Bursts that are apart stay apart. *)
LEMMA UpdateKeepsApart ==
  ASSUME BurstInv, NEW hot, NEW b \in update_bursts(hot), NEW c \in update_bursts(hot), b # c
  PROVE  c.bin \notin MaskOf(b)
<1>1. PICK a \in bursts : /\ b.bin = a.bin
                          /\ b = IF hot \cap {a.bin - 1, a.bin, a.bin + 1} # {}
                                 THEN [a EXCEPT !.last = index] ELSE a
  BY UpdateKeeps
<1>2. PICK d \in bursts : /\ c.bin = d.bin
                          /\ c = IF hot \cap {d.bin - 1, d.bin, d.bin + 1} # {}
                                 THEN [d EXCEPT !.last = index] ELSE d
  BY UpdateKeeps
<1>3. a # d
  BY Zenon, <1>1, <1>2
<1>4. d.bin \notin MaskOf(a)
  BY Zenon, <1>3 DEF BurstInv, MaskIsExact
<1> QED BY Zenon, <1>1, <1>2, <1>4 DEF MaskOf

(* The frame's bursts, kept and new, before the squelch. *)
LEMMA AllAreApart ==
  ASSUME BurstInv, NEW hot \in Spectra,
         NEW kept, kept \subseteq update_bursts(hot),
         NEW ps \in Chosen(extract_peaks(hot) \ MaskOfAll(kept))
  PROVE  /\ kept \cup NewBursts(ps) \subseteq Burst
         /\ \A b, c \in kept \cup NewBursts(ps) : b # c => c.bin \notin MaskOf(b)
<1>0. index \in Int /\ Pre \in Int /\ hot \subseteq Bins
  BY DetectorAssumption DEF BurstInv
<1>1. ps \subseteq Bins /\ ps \cap MaskOfAll(kept) = {}
  BY Zenon, <1>0 DEF Chosen, extract_peaks
<1>2. \A p, q \in ps : p # q => q \notin MaskOf([bin |-> p])
  BY Zenon DEF Chosen
<1>3. \A c \in NewBursts(ps) : c \in Burst /\ c.bin \in ps
      /\ c = [bin |-> c.bin, start |-> index - Pre, last |-> index - Pre]
  BY <1>0, <1>1 DEF NewBursts, Burst
<1>4. \A b \in kept : b \in Burst
  BY Zenon, UpdateKeeps
<1>5. ASSUME NEW b \in kept, NEW c \in kept, b # c PROVE c.bin \notin MaskOf(b)
  BY Zenon, <1>5, UpdateKeepsApart
<1>6. ASSUME NEW b \in NewBursts(ps), NEW c \in NewBursts(ps), b # c PROVE c.bin \notin MaskOf(b)
  <2>1. b.bin # c.bin
    BY Zenon, <1>3, <1>6
  <2>2. c.bin \notin MaskOf([bin |-> b.bin])
    BY Zenon, <1>2, <1>3, <2>1
  <2> QED BY Zenon, <2>2 DEF MaskOf
<1>7. ASSUME NEW b \in kept, NEW c \in NewBursts(ps)
      PROVE  c.bin \notin MaskOf(b) /\ b.bin \notin MaskOf(c)
  <2>1. c.bin \notin MaskOf(b)
    BY Zenon, <1>1, <1>3 DEF MaskOfAll
  <2>2. b.bin \in Bins /\ c.bin \in Bins
    BY Zenon, <1>1, <1>3, <1>4 DEF Burst
  <2> QED BY Zenon, <2>1, <2>2, MaskIsSymmetric
<1> QED BY Zenon, <1>3, <1>4, <1>5, <1>6, <1>7

(* One frame, on either path, moves index by Fft. *)
LEMMA FrameKeeps ==
  ASSUME BurstInv, NEW samples, ProcessFrame(samples), index' = index + Fft
  PROVE  BurstInv'
<1>0. index \in Nat /\ Fft \in Nat /\ Pre \in Nat /\ Post \in Nat /\ MaxLen \in Nat /\ Pre < Post
      /\ index' \in Nat /\ hist \in Histories
  BY DetectorAssumption DEF BurstInv
<1>1. CASE ~hist.primed
  <2>1. bursts = {} /\ hist' = Learn(hist) /\ bursts' = bursts /\ mask' = mask
    BY Zenon, <1>1 DEF BurstInv, MaskIsExact, ProcessFrame
  <2> QED BY Zenon, <1>0, <2>1, LearnKeeps DEF BurstInv, MaskIsExact, MaskOfAll, BoundedLife
<1>2. CASE hist.primed
  <2>1. PICK hot \in Spectra :
          LET active == update_bursts(hot)
              peaks == extract_peaks(hot)
              ended == {b \in active : Ended(b)}
              kept == active \ ended
              h == IF \E b \in active : Long(b) THEN Learn(hist) ELSE hist
          IN  \E ps \in Chosen(peaks \ MaskOfAll(kept)) :
                LET all == kept \cup NewBursts(ps)
                    squelched == Cardinality(all) > MaxBursts
                IN  IF squelched THEN Squelch(all, ended, h) ELSE Track(all, ended, h)
    BY Zenon, <1>2 DEF ProcessFrame
  <2> DEFINE ended == {b \in update_bursts(hot) : Ended(b)}
             kept == update_bursts(hot) \ ended
             h == IF \E b \in update_bursts(hot) : Long(b) THEN Learn(hist) ELSE hist
  <2>2. PICK ps \in Chosen(extract_peaks(hot) \ MaskOfAll(kept)) :
          Squelch(kept \cup NewBursts(ps), ended, h) \/ Track(kept \cup NewBursts(ps), ended, h)
    BY Zenon, <2>1
  <2> DEFINE all == kept \cup NewBursts(ps)
  <2>3. h \in Histories /\ h.primed
    BY Zenon, <1>0, <1>2, LearnKeeps
  <2>4. all \subseteq Burst /\ \A b, c \in all : b # c => c.bin \notin MaskOf(b)
    BY Zenon, AllAreApart
  <2>5. ASSUME NEW b \in all PROVE index' - b.start < MaxLen + Post + Fft
    <3>1. CASE b \in kept
      <4>1. ~Ended(b) /\ b \in Burst
        BY Zenon, <2>4, <3>1
      <4> QED BY <1>0, <4>1 DEF Ended, Long, Burst
    <3>2. CASE b \in NewBursts(ps)
      <4>1. b.start = index - Pre
        BY <3>2 DEF NewBursts
      <4> QED BY <1>0, <4>1
    <3> QED BY Zenon, <3>1, <3>2
  <2> HIDE DEF ended, h, kept, all
  <2>6. CASE Track(all, ended, h)
    <3>1. bursts' = all /\ mask' = MaskOfAll(all) /\ hist' = IF all = {} THEN Learn(h) ELSE h
      BY Zenon, <2>6 DEF Track
    <3>2. hist' \in Histories /\ hist'.primed
      BY Zenon, <2>3, <3>1, LearnKeeps
    <3> QED BY Zenon, <1>0, <2>4, <2>5, <3>1, <3>2 DEF BurstInv, MaskIsExact, MaskOfAll, BoundedLife, MaskOf
  <2>7. CASE Squelch(all, ended, h)
    <3>1. bursts' = {} /\ mask' = {}
          /\ (hist' = Learn(h) \/ hist' = Learn(Unprimed))
      BY Zenon, <2>7 DEF Squelch
    <3>2. Unprimed \in Histories
      BY Zenon DEF Unprimed, Histories
    <3>3. hist' \in Histories
      BY Zenon, <2>3, <3>1, <3>2, LearnKeeps
    <3> QED BY Zenon, <1>0, <3>1, <3>3 DEF BurstInv, MaskIsExact, MaskOfAll, BoundedLife
  <2> QED BY Zenon, <2>2, <2>6, <2>7 DEF all
<1> QED BY Zenon, <1>1, <1>2

LEMMA BurstNext == BurstInv /\ [Next]_vars => BurstInv'
<1> SUFFICES ASSUME BurstInv, [Next]_vars PROVE BurstInv'
  OBVIOUS
<1>1. CASE CpuFrame \/ GpuFrame
  BY Zenon, <1>1, FrameKeeps DEF CpuFrame, GpuFrame
<1>2. CASE ~(CpuFrame \/ GpuFrame)
  <2>1. UNCHANGED <<index, hist, bursts, mask>>
    BY Zenon, <1>2 DEF Next, vars, Feed, GpuCopy, GpuFlush, GpuEmit, FeedReturns, trackVars
  <2> QED BY Zenon, <2>1 DEF BurstInv, MaskIsExact, MaskOfAll, MaskOf, BoundedLife
<1> QED BY Zenon, <1>1, <1>2

LEMMA BurstInvHolds == Spec => []BurstInv
BY BurstInit, BurstNext, PTL DEF Spec

(* Through detection, the end of bursts, squelches and resets of the noise *)
(* history the mask is that of the active bursts, for every spectrum.      *)
THEOREM MaskHolds == Spec => []MaskIsExact
<1>1. BurstInv => MaskIsExact
  BY Zenon DEF BurstInv
<1> QED BY <1>1, BurstInvHolds, PTL

(* A burst is ended in bounded time, for every signal and every setting.    *)
THEOREM LifeIsBounded == Spec => []BoundedLife
<1>1. BurstInv => BoundedLife
  BY Zenon DEF BurstInv
<1> QED BY <1>1, BurstInvHolds, PTL
-----------------------------------------------------------------------------
(* The remainder is the one number below the divisor that fits. *)
LEMMA RemainderIs ==
  ASSUME NEW c \in Nat \ {0}, NEW q \in Int, NEW r \in 0 .. c - 1
  PROVE  (c * q + r) % c = r
<1> DEFINE a == c * q + r
           p == a \div c
           s == a % c
<1>1. a \in Int /\ p \in Int /\ s \in 0 .. c - 1 /\ a = c * p + s
  OBVIOUS
<1>2. c * (p - q) = r - s
  BY <1>1
<1> HIDE DEF p, s
<1>3. (p - q >= 1 => c * (p - q) >= c) /\ (p - q <= -1 => c * (p - q) <= -c)
  BY <1>1
<1>4. p = q
  BY <1>1, <1>2, <1>3
<1> QED BY <1>1, <1>2, <1>4 DEF s

LEMMA Quotient ==
  ASSUME NEW c \in Nat \ {0}, NEW a \in Nat
  PROVE  \E q \in Int : a = c * q + (a % c) /\ a % c \in 0 .. c - 1
<1>1. a = c * (a \div c) + (a % c) /\ a \div c \in Int /\ a % c \in 0 .. c - 1
  OBVIOUS
<1> QED BY Zenon, <1>1

LEMMA RingSizeIsPositive == RingSize \in Nat \ {0} /\ Fft \in Nat \ {0} /\ Fft <= RingSize
BY DetectorAssumption

(* Both halves of a copy that wraps are where the sample numbers say. *)
LEMMA PlacesAreModulo ==
  ASSUME NEW s \in Nat, NEW n \in 0 .. RingSize, NEW k \in 1 .. n
  PROVE  /\ Places(s % RingSize, n)[k] = (s + k - 1) % RingSize
         /\ (s + k - 1) % RingSize \in 0 .. RingSize - 1
<1> DEFINE R == RingSize
           pos == s % R
<1>0. R \in Nat \ {0}
  BY Zenon, RingSizeIsPositive
<1>1. PICK q \in Int : s = R * q + pos /\ pos \in 0 .. R - 1
  BY Zenon, <1>0, Quotient
<1> HIDE DEF pos, R
<1>2. CASE pos + k - 1 < R
  <2>1. s + k - 1 = R * q + (pos + k - 1) /\ pos + k - 1 \in 0 .. R - 1
    BY <1>0, <1>1, <1>2
  <2>2. (s + k - 1) % R = pos + k - 1
    BY Zenon, <1>0, <2>1, RemainderIs
  <2>3. Places(pos, n)[k] = pos + k - 1
    BY <1>0, <1>1, <1>2 DEF Places, R
  <2> QED BY Zenon, <2>1, <2>2, <2>3 DEF pos, R
<1>3. CASE pos + k - 1 >= R
  <2>1. /\ R * (q + 1) = R * q + R
        /\ pos + k - 1 - R \in 0 .. R - 1
    BY <1>0, <1>1, <1>3 DEF R
  <2>2. s + k - 1 = R * (q + 1) + (pos + k - 1 - R)
    BY <1>0, <1>1, <2>1
  <2>3. (s + k - 1) % R = pos + k - 1 - R
    BY <1>0, <2>1, <2>2, RemainderIs, q + 1 \in Int
  <2>4. Places(pos, n)[k] = k - (R - pos) - 1
    BY <1>0, <1>1, <1>3 DEF Places, R
  <2>5. k - (R - pos) - 1 = pos + k - 1 - R
    BY <1>0, <1>1
  <2> QED BY Zenon, <2>1, <2>3, <2>4, <2>5 DEF pos, R
<1> QED BY <1>0, <1>1, <1>2, <1>3

(* Samples less than a lap apart have different places. *)
LEMMA PlacesDiffer ==
  ASSUME NEW a \in Nat, NEW b \in Nat, a < b, b - a < RingSize
  PROVE  a % RingSize # b % RingSize
<1> DEFINE R == RingSize
<1>0. R \in Nat \ {0}
  BY Zenon, RingSizeIsPositive
<1>1. SUFFICES ASSUME a % R = b % R PROVE FALSE
  OBVIOUS
<1>2. PICK p \in Int : a = R * p + (a % R)
  BY Zenon, <1>0, Quotient
<1>3. PICK q \in Int : b = R * q + (b % R)
  BY Zenon, <1>0, Quotient
<1>4. a % R \in Int /\ R * q - R * p = b - a
  BY <1>0, <1>1, <1>2, <1>3
<1>5. R * (q - p) = b - a
  BY <1>0, <1>4
<1>6. (q - p >= 1 => R * (q - p) >= R) /\ (q - p <= 0 => R * (q - p) <= 0)
  BY <1>0
<1> QED BY <1>0, <1>5, <1>6

(* The ring r holds the last RingSize of count samples, each at its place. *)
HoldsLast(r, count) ==
  \A q \in Nat : q < count /\ count - q <= RingSize => r[q % RingSize] = q

RingInv ==
  /\ ring \in [0 .. RingSize - 1 -> Int]
  /\ sample_count \in Nat
  /\ ringbuf_write = sample_count % RingSize
  /\ HoldsLast(ring, sample_count)

LEMMA NextWriteIs ==
  ASSUME NEW s \in Nat, NEW n \in 1 .. RingSize
  PROVE  NextWrite(s % RingSize, n) = (s + n) % RingSize
<1> DEFINE R == RingSize
           pos == s % R
<1>0. R \in Nat \ {0}
  BY Zenon, RingSizeIsPositive
<1>1. PICK q \in Int : s = R * q + pos /\ pos \in 0 .. R - 1
  BY Zenon, <1>0, Quotient
<1> HIDE DEF pos, R
<1>2. CASE pos + n < R
  <2>1. s + n = R * q + (pos + n) /\ pos + n \in 0 .. R - 1
    BY <1>0, <1>1, <1>2
  <2>2. (s + n) % R = pos + n
    BY Zenon, <1>0, <2>1, RemainderIs
  <2> QED BY <1>0, <1>1, <1>2, <2>2 DEF NextWrite, R, pos
<1>3. CASE pos + n >= R
  <2>1. R * (q + 1) = R * q + R /\ pos + n - R \in 0 .. R - 1
    BY <1>0, <1>1, <1>3 DEF R
  <2>2. s + n = R * (q + 1) + (pos + n - R)
    BY <1>0, <1>1, <2>1
  <2>3. (s + n) % R = pos + n - R
    BY <1>0, <2>1, <2>2, RemainderIs, q + 1 \in Int
  <2>4. NextWrite(pos, n) = pos + n - R
    BY <1>0, <1>1, <1>3 DEF NextWrite, R
  <2> QED BY Zenon, <2>3, <2>4 DEF R, pos
<1> QED BY <1>0, <1>1, <1>2, <1>3

(* ringbuf_write replaces the oldest samples and nothing else. *)
LEMMA WriteKeeps ==
  ASSUME RingInv, NEW n \in 1 .. RingSize, RingWrite(n), sample_count' = sample_count + n
  PROVE  RingInv'
<1> DEFINE R == RingSize
           c == sample_count
           at == Places(ringbuf_write, n)
<1>0. R \in Nat \ {0} /\ c \in Nat /\ n \in Nat /\ n <= R /\ n >= 1
      /\ ring \in [0 .. R - 1 -> Int] /\ HoldsLast(ring, c)
  BY RingSizeIsPositive DEF RingInv
<1>1. ASSUME NEW k \in 1 .. n
      PROVE  at[k] = (c + k - 1) % R /\ at[k] \in 0 .. R - 1
  <2>1. n \in 0 .. RingSize /\ ringbuf_write = c % RingSize
    BY <1>0 DEF RingInv
  <2> QED BY Zenon, <1>0, <2>1, PlacesAreModulo
<1>2. \A j, k \in 1 .. n : at[j] = at[k] => j = k
  <2> SUFFICES ASSUME NEW j \in 1 .. n, NEW k \in 1 .. n, j < k PROVE at[j] # at[k]
    BY <1>0
  <2>1. c + j - 1 \in Nat /\ c + k - 1 \in Nat /\ c + j - 1 < c + k - 1
        /\ (c + k - 1) - (c + j - 1) < R
    BY <1>0
  <2> QED BY Zenon, <1>1, <2>1, PlacesDiffer
<1> HIDE DEF at
<1>3. ring' = [p \in 0 .. R - 1 |-> IF \E k \in 1 .. n : at[k] = p
                                    THEN c + (CHOOSE k \in 1 .. n : at[k] = p) - 1
                                    ELSE ring[p]]
  BY Zenon, <1>0 DEF RingWrite, at
<1>4. ASSUME NEW k \in 1 .. n PROVE ring'[at[k]] = c + k - 1
  <2> DEFINE ch == CHOOSE j \in 1 .. n : at[j] = at[k]
  <2>1. ch \in 1 .. n /\ at[ch] = at[k]
    OBVIOUS
  <2>2. ch = k
    BY Zenon, <1>2, <2>1
  <2>3. ring'[at[k]] = c + ch - 1
    BY Zenon, <1>1, <1>3
  <2> QED BY Zenon, <2>2, <2>3
<1>5. ring' \in [0 .. R - 1 -> Int]
  <2>1. ASSUME NEW p \in 0 .. R - 1 PROVE ring'[p] \in Int
    <3>1. CASE \E k \in 1 .. n : at[k] = p
      BY <1>0, <1>4, <3>1
    <3>2. CASE ~\E k \in 1 .. n : at[k] = p
      BY Zenon, <1>0, <1>3, <3>2
    <3> QED BY Zenon, <3>1, <3>2
  <2> QED BY Zenon, <1>3, <2>1
<1>6. HoldsLast(ring', c + n)
  <2> SUFFICES ASSUME NEW q \in Nat, q < c + n, (c + n) - q <= R PROVE ring'[q % R] = q
    BY Zenon DEF HoldsLast
  <2>1. CASE q >= c
    <3>1. PICK k \in 1 .. n : q = c + k - 1
      <4>1. q - c + 1 \in 1 .. n /\ q = c + (q - c + 1) - 1
        BY <1>0, <2>1
      <4> QED BY Zenon, <4>1
    <3> QED BY Zenon, <1>1, <1>4, <3>1
  <2>2. CASE q < c
    <3>0. c - q <= R
      BY <1>0, <2>2
    <3>1. ring[q % R] = q
      BY Zenon, <1>0, <2>2, <3>0 DEF HoldsLast
    <3>2. ASSUME NEW k \in 1 .. n PROVE at[k] # q % R
      <4>1. c + k - 1 \in Nat /\ q < c + k - 1 /\ (c + k - 1) - q < R
        BY <1>0, <2>2
      <4> QED BY Zenon, <1>1, <4>1, PlacesDiffer
    <3>3. q % R \in 0 .. R - 1
      BY Zenon, <1>0, Quotient
    <3> QED BY Zenon, <1>3, <3>1, <3>2, <3>3
  <2> QED BY <1>0, <2>1, <2>2
<1>7. ringbuf_write' = (c + n) % R
  BY Zenon, <1>0, NextWriteIs DEF RingWrite, RingInv
<1> QED BY <1>0, <1>5, <1>6, <1>7 DEF RingInv

(* What is read back is what was written under those numbers, as long as it *)
(* is there and no more than a lap old.                                     *)
LEMMA ReadIs ==
  ASSUME RingInv, NEW start \in Nat, NEW n \in 0 .. RingSize
  PROVE  /\ ReadRing(start, n) \in [1 .. n -> Int]
         /\ sample_count - start <= RingSize =>
              \A k \in 1 .. n : start + k <= sample_count => ReadRing(start, n)[k] = start + k - 1
<1> DEFINE at == Places(start % RingSize, n)
<1>0. RingSize \in Nat \ {0} /\ sample_count \in Nat /\ ring \in [0 .. RingSize - 1 -> Int]
  BY Zenon, RingSizeIsPositive DEF RingInv
<1>1. \A k \in 1 .. n : at[k] = (start + k - 1) % RingSize /\ at[k] \in 0 .. RingSize - 1
  BY Zenon, PlacesAreModulo
<1> HIDE DEF at
<1>2. ReadRing(start, n) = [k \in 1 .. n |-> ring[at[k]]]
  BY Zenon DEF ReadRing, at
<1>3. ASSUME sample_count - start <= RingSize, NEW k \in 1 .. n, start + k <= sample_count
      PROVE  ring[at[k]] = start + k - 1
  <2>1. start + k - 1 \in Nat /\ start + k - 1 < sample_count
        /\ sample_count - (start + k - 1) <= RingSize
    BY <1>0, <1>3
  <2> QED BY Zenon, <1>1, <2>1 DEF RingInv, HoldsLast
<1> QED BY Zenon, <1>0, <1>1, <1>2, <1>3
-----------------------------------------------------------------------------
(* What the frames are made of, and how far reading has come.  The GPU path *)
(* copies a batch before it processes one, so its read cursor is ahead of   *)
(* index by the frames of the batch; a batch that fails breaks this until   *)
(* the next feed sets the cursor back.                                      *)
CursorIsAhead ==
  mode = "gpu" /\ ~failing /\ pc # "idle" => read_idx = index + Fft * Len(batch)

BatchInPlace ==
  /\ batch \in Seq([1 .. Fft -> Int])
  /\ fails = 0 => \A j \in 1 .. Len(batch) : \A k \in 1 .. Fft :
                    batch[j][k] = index + Fft * (j - 1) + k - 1

ControlInv ==
  /\ mode \in {"cpu", "gpu"} /\ pc \in {"idle", "read", "batch", "emit"}
  /\ index \in Nat /\ read_idx \in Nat /\ fails \in Nat /\ failing \in BOOLEAN
  /\ failing => fails # 0
  /\ pc \in {"idle", "emit"} => batch = <<>>
  /\ pc = "batch" => batch # <<>>
  /\ mode = "cpu" => batch = <<>> /\ pc \in {"idle", "read"}

InReach == fails = 0 => sample_count - index <= RingSize

StreamInv ==
  /\ ControlInv /\ RingInv /\ InReach /\ CursorIsAhead /\ BatchInPlace
  /\ CatchesUp /\ FramesInPlace

LEMMA StreamInit == Init => StreamInv
<1> SUFFICES ASSUME Init PROVE StreamInv
  OBVIOUS
<1> USE RingSizeIsPositive
<1>1. RingInv
  <2>1. 0 % RingSize = 0
    <3>1. 0 = RingSize * 0 + 0 /\ 0 \in 0 .. RingSize - 1
      OBVIOUS
    <3> QED BY <3>1, RemainderIs
  <2>2. ring \in [0 .. RingSize - 1 -> Int]
    BY DEF Init
  <2>3. HoldsLast(ring, 0)
    BY DEF HoldsLast
  <2> QED BY Zenon, <2>1, <2>2, <2>3 DEF Init, RingInv
<1>2. FramesInPlace
  BY DEF Init, FramesInPlace, NoFrame
<1>3. ControlInv
  BY Zenon, DetectorAssumption DEF Init, ControlInv
<1>4. CursorIsAhead /\ BatchInPlace /\ CatchesUp /\ InReach
  BY DEF Init, CursorIsAhead, BatchInPlace, CatchesUp, InReach
<1> QED BY Zenon, <1>1, <1>2, <1>3, <1>4 DEF StreamInv

LEMMA FeedStream ==
  ASSUME StreamInv, NEW n \in BufLens, Feed(n)
  PROVE  StreamInv'
<1>0. /\ n \in 1 .. RingSize /\ Fft + n <= RingSize /\ Fft \in Nat /\ RingSize \in Nat
  BY DetectorAssumption
<1>1. /\ pc = "idle" /\ RingWrite(n) /\ sample_count' = sample_count + n
      /\ read_idx' = index /\ pc' = "read" /\ failing' = FALSE /\ frame' = NoFrame
      /\ UNCHANGED <<mode, index, batch, fails>>
  BY Zenon DEF Feed
<1>2. RingInv'
  BY Zenon, <1>0, <1>1, WriteKeeps DEF StreamInv
<1>3. batch = <<>> /\ sample_count \in Nat /\ index \in Nat
  BY Zenon, <1>1 DEF StreamInv, RingInv, ControlInv
<1>4. InReach'
  BY <1>0, <1>1, <1>3 DEF StreamInv, ControlInv, CatchesUp, InReach
<1>5. FramesInPlace'
  BY <1>1 DEF FramesInPlace, NoFrame
<1>6. Fft * Len(batch) = 0
  BY <1>0, <1>3
<1>7. CursorIsAhead' /\ BatchInPlace' /\ CatchesUp'
  BY <1>1, <1>3, <1>6 DEF CursorIsAhead, BatchInPlace, CatchesUp
<1>8. ControlInv'
  BY Zenon, <1>1 DEF StreamInv, ControlInv
<1> QED BY Zenon, <1>2, <1>4, <1>5, <1>7, <1>8 DEF StreamInv

(* A frame whose samples carry their own numbers is in place. *)
LEMMA InPlace ==
  ASSUME NEW at \in Nat, NEW s \in [1 .. Fft -> Int], \A k \in 1 .. Fft : s[k] = at + k - 1
  PROVE  s = [k \in 1 .. Len(s) |-> at + k - 1]
<1>1. Len(s) = Fft
  BY RingSizeIsPositive
<1> QED BY Zenon, <1>1

LEMMA FrameIsSet ==
  ASSUME NEW samples, ProcessFrame(samples)
  PROVE  frame'.at = index /\ frame'.samples = samples
<1>1. PICK x : frame' = [at |-> index, samples |-> samples, hot |-> x]
  BY Zenon DEF ProcessFrame
<1> QED BY Zenon, <1>1

LEMMA FrameIsRead ==
  ASSUME RingInv, NEW at \in Nat, at + Fft <= sample_count
  PROVE  /\ ReadRing(at, Fft) \in [1 .. Fft -> Int]
         /\ sample_count - at <= RingSize =>
              \A k \in 1 .. Fft : ReadRing(at, Fft)[k] = at + k - 1
<1>1. Fft \in 0 .. RingSize /\ sample_count \in Nat
  BY RingSizeIsPositive DEF RingInv
<1>2. /\ ReadRing(at, Fft) \in [1 .. Fft -> Int]
      /\ sample_count - at <= RingSize =>
           \A k \in 1 .. Fft : at + k <= sample_count => ReadRing(at, Fft)[k] = at + k - 1
  BY Zenon, <1>1, ReadIs
<1>3. \A k \in 1 .. Fft : at + k <= sample_count
  BY <1>1
<1> QED BY Zenon, <1>2, <1>3

LEMMA CpuStream ==
  ASSUME StreamInv, CpuFrame
  PROVE  StreamInv'
<1>1. /\ pc = "read" /\ mode = "cpu" /\ index + Fft <= sample_count
      /\ index' = index + Fft
      /\ UNCHANGED <<mode, ring, ringbuf_write, sample_count, read_idx, batch, pc, fails, failing>>
      /\ frame'.at = index /\ frame'.samples = ReadRing(index, Fft)
  BY Zenon, FrameIsSet DEF CpuFrame, MoreFrames, ringVars
<1>2. RingInv' /\ batch = <<>> /\ index \in Nat /\ sample_count \in Nat /\ Fft \in Nat
  BY Zenon, <1>1, RingSizeIsPositive DEF StreamInv, RingInv, HoldsLast, ControlInv
<1>4. FramesInPlace'
  <2> SUFFICES ASSUME fails = 0
               PROVE  frame'.samples = [k \in 1 .. Len(frame'.samples) |-> frame'.at + k - 1]
    BY Zenon, <1>1 DEF FramesInPlace
  <2>1. ReadRing(index, Fft) \in [1 .. Fft -> Int]
        /\ \A k \in 1 .. Fft : ReadRing(index, Fft)[k] = index + k - 1
    BY Zenon, <1>1, <1>2, FrameIsRead DEF StreamInv, InReach
  <2> QED BY Zenon, <1>1, <1>2, <2>1, InPlace
<1>5. InReach'
  BY <1>1, <1>2, RingSizeIsPositive DEF StreamInv, InReach
<1>6. CursorIsAhead' /\ BatchInPlace' /\ CatchesUp'
  BY <1>1, <1>2 DEF CursorIsAhead, BatchInPlace, CatchesUp
<1>7. ControlInv'
  BY <1>1, <1>2 DEF StreamInv, ControlInv
<1> QED BY Zenon, <1>2, <1>4, <1>5, <1>6, <1>7 DEF StreamInv

LEMMA CopyStream ==
  ASSUME StreamInv, GpuCopy
  PROVE  StreamInv'
<1> DEFINE s == ReadRing(read_idx, Fft)
<1>1. /\ pc = "read" /\ mode = "gpu" /\ read_idx + Fft <= sample_count
      /\ batch' = Append(batch, s) /\ read_idx' = read_idx + Fft /\ frame' = NoFrame
      /\ UNCHANGED <<mode, ring, ringbuf_write, sample_count, index, pc, fails, failing>>
  BY Zenon DEF GpuCopy, MoreFrames, ringVars
<1>2. /\ RingInv' /\ index \in Nat /\ read_idx \in Nat /\ sample_count \in Nat /\ Fft \in Nat
      /\ batch \in Seq([1 .. Fft -> Int]) /\ Len(batch) \in Nat
  BY <1>1, RingSizeIsPositive DEF StreamInv, RingInv, HoldsLast, ControlInv, BatchInPlace
<1>3. ~failing => read_idx = index + Fft * Len(batch)
  BY Zenon, <1>1 DEF StreamInv, CursorIsAhead
<1>4. Fft * Len(batch) \in Nat
  BY <1>2
<1>5. s \in [1 .. Fft -> Int]
  BY Zenon, <1>1, <1>2, FrameIsRead DEF StreamInv
<1>6. fails = 0 => \A k \in 1 .. Fft : s[k] = index + Fft * Len(batch) + k - 1
  <2> SUFFICES ASSUME fails = 0 PROVE \A k \in 1 .. Fft : s[k] = index + Fft * Len(batch) + k - 1
    OBVIOUS
  <2>1. read_idx = index + Fft * Len(batch)
    BY Zenon, <1>3 DEF StreamInv, ControlInv
  <2>2. sample_count - read_idx <= RingSize
    <3>1. sample_count - index <= RingSize
      BY Zenon DEF StreamInv, InReach
    <3> HIDE DEF StreamInv
    <3> DEFINE d == Fft * Len(batch)
    <3>2. d \in Nat /\ read_idx = index + d
      BY Zenon, <1>4, <2>1
    <3> HIDE DEF d
    <3> QED BY <1>2, <3>1, <3>2, RingSizeIsPositive
  <2> QED BY Zenon, <1>1, <1>2, <2>1, <2>2, FrameIsRead DEF StreamInv
<1> HIDE DEF s
<1>7. /\ batch' \in Seq([1 .. Fft -> Int]) /\ Len(batch') = Len(batch) + 1
      /\ \A j \in 1 .. Len(batch) : batch'[j] = batch[j]
      /\ batch'[Len(batch) + 1] = s
  BY <1>1, <1>2, <1>5
<1>8. BatchInPlace'
  <2> SUFFICES ASSUME fails = 0, NEW j \in 1 .. Len(batch'), NEW k \in 1 .. Fft
               PROVE  batch'[j][k] = index + Fft * (j - 1) + k - 1
    BY Zenon, <1>1, <1>7 DEF BatchInPlace
  <2>1. CASE j \in 1 .. Len(batch)
    BY Zenon, <1>7, <2>1 DEF StreamInv, BatchInPlace
  <2>2. CASE j = Len(batch) + 1
    <3>1. j - 1 = Len(batch) /\ batch'[j] = s
      BY <1>2, <1>7, <2>2
    <3> QED BY Zenon, <1>6, <3>1
  <2> QED BY <1>2, <1>7, <2>1, <2>2
<1>9. CursorIsAhead'
  <2>1. Fft * Len(batch') = Fft * Len(batch) + Fft
    BY <1>2, <1>7
  <2> QED BY <1>1, <1>2, <1>3, <1>4, <2>1 DEF CursorIsAhead
<1>10. FramesInPlace' /\ CatchesUp' /\ InReach'
  BY <1>1 DEF FramesInPlace, NoFrame, CatchesUp, StreamInv, InReach
<1>11. ControlInv'
  <2>1. read_idx' \in Nat
    BY <1>1, <1>2
  <2> QED BY Zenon, <1>1, <2>1 DEF StreamInv, ControlInv
<1> QED BY Zenon, <1>2, <1>8, <1>9, <1>10, <1>11 DEF StreamInv

LEMMA FlushStream ==
  ASSUME StreamInv, NEW ok \in BOOLEAN, GpuFlush(ok)
  PROVE  StreamInv'
<1>1. /\ pc = "read" /\ batch # <<>> /\ frame' = NoFrame
      /\ UNCHANGED <<mode, ring, ringbuf_write, sample_count, index, read_idx>>
  BY Zenon DEF GpuFlush, ringVars
<1>2. RingInv' /\ FramesInPlace' /\ mode = "gpu" /\ fails \in Nat
  BY <1>1 DEF StreamInv, RingInv, HoldsLast, FramesInPlace, NoFrame, ControlInv
<1>3. CASE ok
  <2>1. pc' = "batch" /\ UNCHANGED <<batch, fails, failing>>
    BY Zenon, <1>3 DEF GpuFlush
  <2>2. ControlInv'
    BY Zenon, <1>1, <2>1 DEF StreamInv, ControlInv
  <2> QED BY Zenon, <1>1, <1>2, <2>1, <2>2
          DEF StreamInv, CursorIsAhead, BatchInPlace, CatchesUp, InReach
<1>4. CASE ~ok
  <2>1. pc' = "emit" /\ batch' = <<>> /\ failing' = TRUE /\ fails' = fails + 1
    BY Zenon, <1>4 DEF GpuFlush
  <2>2. fails' \in Nat /\ fails' # 0
    BY <1>2, <2>1
  <2>3. ControlInv'
    BY Zenon, <1>1, <1>2, <2>1, <2>2 DEF StreamInv, ControlInv
  <2>4. CursorIsAhead' /\ CatchesUp' /\ InReach' /\ BatchInPlace'
    BY <2>1, <2>2 DEF CursorIsAhead, CatchesUp, InReach, BatchInPlace
  <2> QED BY Zenon, <1>2, <2>3, <2>4 DEF StreamInv
<1> QED BY Zenon, <1>3, <1>4

LEMMA GpuStream ==
  ASSUME StreamInv, GpuFrame
  PROVE  StreamInv'
<1>1. /\ pc = "batch" /\ index' = index + Fft /\ batch' = Tail(batch)
      /\ pc' = IF Len(batch) = 1 THEN "emit" ELSE "batch"
      /\ UNCHANGED <<mode, ring, ringbuf_write, sample_count, read_idx, fails, failing>>
      /\ frame'.at = index /\ frame'.samples = Head(batch)
  BY Zenon, FrameIsSet DEF GpuFrame, ringVars
<1>2. /\ RingInv' /\ index \in Nat /\ sample_count \in Nat /\ Fft \in Nat /\ mode = "gpu"
      /\ batch \in Seq([1 .. Fft -> Int]) /\ batch # <<>>
  BY Zenon, <1>1, RingSizeIsPositive DEF StreamInv, RingInv, HoldsLast, ControlInv, BatchInPlace
<1>3. /\ Len(batch) \in Nat /\ Len(batch) >= 1
      /\ Head(batch) = batch[1] /\ batch[1] \in [1 .. Fft -> Int]
      /\ batch' \in Seq([1 .. Fft -> Int]) /\ Len(batch') = Len(batch) - 1
      /\ \A j \in 1 .. Len(batch') : batch'[j] = batch[j + 1] /\ j + 1 \in 1 .. Len(batch)
  BY <1>1, <1>2
<1>4. FramesInPlace'
  <2> SUFFICES ASSUME fails = 0
               PROVE  frame'.samples = [k \in 1 .. Len(frame'.samples) |-> frame'.at + k - 1]
    BY Zenon, <1>1 DEF FramesInPlace
  <2>1. Fft * (1 - 1) = 0 /\ 1 \in 1 .. Len(batch)
    BY <1>2, <1>3
  <2>2. \A k \in 1 .. Fft : batch[1][k] = index + Fft * (1 - 1) + k - 1
    BY Zenon, <2>1 DEF StreamInv, BatchInPlace
  <2>3. \A k \in 1 .. Fft : batch[1][k] = index + k - 1
    BY <1>2, <2>1, <2>2
  <2> DEFINE s == batch[1]
  <2>4. s \in [1 .. Fft -> Int] /\ \A k \in 1 .. Fft : s[k] = index + k - 1
    BY Zenon, <1>3, <2>3
  <2>5. frame'.samples = s /\ frame'.at = index
    BY Zenon, <1>1, <1>3
  <2> HIDE DEF s
  <2>6. s = [k \in 1 .. Len(s) |-> index + k - 1]
    BY Zenon, <1>2, <2>4, InPlace
  <2> QED BY Zenon, <2>5, <2>6
<1>5. BatchInPlace'
  <2> SUFFICES ASSUME fails = 0, NEW j \in 1 .. Len(batch'), NEW k \in 1 .. Fft
               PROVE  batch'[j][k] = index' + Fft * (j - 1) + k - 1
    BY Zenon, <1>1, <1>3 DEF BatchInPlace
  <2>1. batch'[j][k] = index + Fft * ((j + 1) - 1) + k - 1
    BY Zenon, <1>3 DEF StreamInv, BatchInPlace
  <2>2. j \in Int /\ k \in Int
    BY <1>3
  <2>3. Fft * ((j + 1) - 1) = Fft * (j - 1) + Fft
    BY <1>2, <2>2
  <2>4. Fft * (j - 1) \in Int
    BY <1>2, <2>2
  <2> QED BY <1>1, <1>2, <2>1, <2>2, <2>3, <2>4
<1>6. CursorIsAhead'
  <2>1. Fft * Len(batch) = Fft * Len(batch') + Fft /\ Fft * Len(batch') \in Int
    BY <1>2, <1>3
  <2>2. ~failing => read_idx = index + Fft * Len(batch)
    BY Zenon, <1>1, <1>2 DEF StreamInv, CursorIsAhead
  <2> QED BY <1>1, <1>2, <2>1, <2>2 DEF CursorIsAhead
<1>7. InReach'
  BY <1>1, <1>2, RingSizeIsPositive DEF StreamInv, InReach
<1>8. ControlInv'
  <2>1. index' \in Nat
    BY <1>1, <1>2
  <2>2. (Len(batch) = 1 => batch' = <<>>) /\ (Len(batch) # 1 => batch' # <<>>)
    BY <1>2, <1>3
  <2> QED BY Zenon, <1>1, <1>2, <2>1, <2>2 DEF StreamInv, ControlInv
<1>9. CatchesUp'
  BY Zenon, <1>1 DEF CatchesUp
<1> QED BY Zenon, <1>2, <1>4, <1>5, <1>6, <1>7, <1>8, <1>9 DEF StreamInv

LEMMA EmitStream ==
  ASSUME StreamInv, GpuEmit \/ FeedReturns
  PROVE  StreamInv'
<1>1. /\ frame' = NoFrame /\ gone' = {}
      /\ UNCHANGED <<mode, ring, ringbuf_write, sample_count, index, read_idx, batch, fails, failing>>
      /\ batch = <<>> /\ pc # "idle"
  BY Zenon DEF GpuEmit, FeedReturns, EmitGone, ringVars, StreamInv, ControlInv
<1>2. RingInv' /\ FramesInPlace' /\ InReach' /\ BatchInPlace'
  BY <1>1 DEF StreamInv, RingInv, HoldsLast, FramesInPlace, NoFrame, InReach, BatchInPlace
<1>3. pc' = "read" \/ (pc' = "idle" /\ FeedReturns)
  BY Zenon DEF GpuEmit, FeedReturns
<1>4. ControlInv' /\ CursorIsAhead'
  BY Zenon, <1>1, <1>3 DEF StreamInv, ControlInv, CursorIsAhead
<1>5. ASSUME FeedReturns, ~failing PROVE sample_count - index < Fft
  <2>1. index \in Nat /\ sample_count \in Nat /\ Fft \in Nat /\ Fft * Len(batch) = 0
        /\ mode \in {"cpu", "gpu"}
    BY <1>1, RingSizeIsPositive DEF StreamInv, RingInv, ControlInv
  <2>2. mode = "gpu" => read_idx = index
    BY <1>1, <1>5, <2>1 DEF StreamInv, CursorIsAhead
  <2>3. ~MoreFrames(IF mode = "gpu" THEN read_idx ELSE index)
    BY Zenon, <1>5 DEF FeedReturns
  <2>4. ~MoreFrames(index)
    BY Zenon, <2>2, <2>3
  <2> QED BY <2>1, <2>4 DEF MoreFrames
<1>6. CatchesUp'
  BY Zenon, <1>1, <1>3, <1>5 DEF CatchesUp
<1> QED BY Zenon, <1>2, <1>4, <1>6 DEF StreamInv

LEMMA StreamNext == StreamInv /\ [Next]_vars => StreamInv'
<1> SUFFICES ASSUME StreamInv, [Next]_vars PROVE StreamInv'
  OBVIOUS
<1>1. CASE \E n \in BufLens : Feed(n)
  BY Zenon, <1>1, FeedStream
<1>2. CASE CpuFrame
  BY Zenon, <1>2, CpuStream
<1>3. CASE GpuCopy
  BY Zenon, <1>3, CopyStream
<1>4. CASE \E ok \in BOOLEAN : GpuFlush(ok)
  BY Zenon, <1>4, FlushStream
<1>5. CASE GpuFrame
  BY Zenon, <1>5, GpuStream
<1>6. CASE GpuEmit \/ FeedReturns
  BY Zenon, <1>6, EmitStream
<1>7. CASE UNCHANGED vars
  <2>1. UNCHANGED <<mode, ring, ringbuf_write, sample_count, index, read_idx, batch, gone, pc,
                    fails, failing, frame>>
    BY Zenon, <1>7 DEF vars, ringVars, trackVars
  <2> QED BY Zenon, <2>1 DEF StreamInv, ControlInv, RingInv, HoldsLast, InReach, CursorIsAhead,
                      BatchInPlace, CatchesUp, FramesInPlace
<1> QED BY Zenon, <1>1, <1>2, <1>3, <1>4, <1>5, <1>6, <1>7 DEF Next

LEMMA StreamInvHolds == Spec => []StreamInv
BY StreamInit, StreamNext, PTL DEF Spec

(* Whatever the buffer lengths and wherever they leave the ring, a frame is *)
(* made of the samples of its place in the stream, copied singly or in      *)
(* batches, as long as the GPU works.                                       *)
THEOREM FramesAreInPlace == Spec => []FramesInPlace
<1>1. StreamInv => FramesInPlace
  BY Zenon DEF StreamInv
<1> QED BY <1>1, StreamInvHolds, PTL

(* A feed without a failing batch leaves less than a frame unread and no    *)
(* ended burst behind, after any number of feeds that failed.               *)
THEOREM DetectorCatchesUp == Spec => []CatchesUp
<1>1. StreamInv => CatchesUp
  BY Zenon DEF StreamInv
<1> QED BY <1>1, StreamInvHolds, PTL
-----------------------------------------------------------------------------
(* The bursts' place in the stream: none starts before sample 0, since the  *)
(* history has to be filled first, and one that is found is at least a frame *)
(* old in the next frame, which is how the squelch tells new from old.      *)
AgeInv ==
  /\ \A b \in bursts : b.start \in Nat /\ b.start + Pre + Fft <= index
  /\ hist.primed => Pre <= index
  /\ ~hist.primed => Fft * hist.index <= index

LEMMA LearnAges ==
  ASSUME NEW h \in Histories, NEW at \in Nat,
         h.primed => Pre <= at, ~h.primed => Fft * h.index <= at
  PROVE  /\ Learn(h).primed => Pre <= at + Fft
         /\ ~Learn(h).primed => Fft * Learn(h).index <= at + Fft
<1>0. Fft \in Nat /\ Pre \in Nat /\ History \in Nat /\ Pre <= History * Fft
      /\ h.index \in Nat /\ h.primed \in BOOLEAN
  BY Zenon, DetectorAssumption DEF Histories
<1>1. Fft * (h.index + 1) = Fft * h.index + Fft /\ Fft * h.index \in Nat
  BY <1>0
<1>2. CASE h.primed
  BY <1>0, <1>2, LearnKeeps
<1>3. CASE ~h.primed /\ h.index + 1 = History
  <2>1. Pre <= at + Fft
    BY <1>0, <1>1, <1>3
  <2> QED BY Zenon, <1>3, <2>1 DEF Learn
<1>4. CASE ~h.primed /\ h.index + 1 # History
  <2>1. Learn(h).index = h.index + 1 /\ Learn(h).primed = FALSE
    BY Zenon, <1>4 DEF Learn, Histories
  <2>2. Fft * (h.index + 1) <= at + Fft
    BY <1>0, <1>1, <1>4
  <2> QED BY Zenon, <2>1, <2>2
<1> QED BY Zenon, <1>0, <1>2, <1>3, <1>4

(* What a frame does to the bursts under way and to the ended ones. *)
FrameMoves ==
  /\ AgeInv'
  /\ gone \subseteq gone'
  /\ \A g \in gone' : g \in gone \/ (g.stop = index /\ \E b \in bursts : g.start = b.start)
  /\ \A b \in bursts : \E c \in bursts' \cup gone' : c.bin = b.bin /\ c.start = b.start
  /\ SignalIsCovered'

LEMMA LearningMoves ==
  ASSUME BurstInv, AgeInv, NEW samples, ProcessFrame(samples), index' = index + Fft, ~hist.primed
  PROVE  FrameMoves
<1>1. /\ bursts = {} /\ hist' = Learn(hist) /\ bursts' = bursts /\ gone' = gone
      /\ frame' = [at |-> index, samples |-> samples, hot |-> {}]
  BY Zenon DEF BurstInv, MaskIsExact, ProcessFrame
<1>2. SignalIsCovered'
  BY Zenon, <1>1 DEF SignalIsCovered
<1>3. AgeInv'
  BY Zenon, <1>1, LearnAges DEF BurstInv, AgeInv
<1> QED BY Zenon, <1>1, <1>2, <1>3 DEF FrameMoves

(* The bursts of a frame, before and after the ended ones are taken out. *)
LEMMA ActiveAre ==
  ASSUME BurstInv, AgeInv, NEW hot
  PROVE  /\ \A b \in update_bursts(hot) : /\ b.start \in Nat /\ b.start + Pre + Fft <= index
                                          /\ \E a \in bursts : b.start = a.start /\ b.bin = a.bin
         /\ \A a \in bursts : \E b \in update_bursts(hot) : b.start = a.start /\ b.bin = a.bin
<1>1. ASSUME NEW b \in update_bursts(hot)
      PROVE  /\ b.start \in Nat /\ b.start + Pre + Fft <= index
             /\ \E a \in bursts : b.start = a.start /\ b.bin = a.bin
  <2>1. PICK a \in bursts : b.start = a.start /\ b.bin = a.bin
    BY UpdateKeeps
  <2> QED BY Zenon, <2>1 DEF AgeInv
<1>2. ASSUME NEW a \in bursts
      PROVE  \E b \in update_bursts(hot) : b.start = a.start /\ b.bin = a.bin
  <2> DEFINE b == IF hot \cap {a.bin - 1, a.bin, a.bin + 1} # {}
                  THEN [a EXCEPT !.last = index] ELSE a
  <2>1. b \in update_bursts(hot)
    BY Zenon DEF update_bursts
  <2>2. a \in Burst /\ index \in Int
    BY DEF BurstInv
  <2>3. b.start = a.start /\ b.bin = a.bin
    BY Zenon, <2>2 DEF Burst
  <2> QED BY Zenon, <2>1, <2>3
<1> QED BY Zenon, <1>1, <1>2

LEMMA StoppedAre ==
  ASSUME NEW bs
  PROVE  /\ \A g \in Stopped(bs) : g.stop = index /\ \E b \in bs : g.start = b.start /\ g.bin = b.bin
         /\ \A b \in bs : \E g \in Stopped(bs) : g.bin = b.bin /\ g.start = b.start /\ g.stop = index
<1> DEFINE End(b) == [bin |-> b.bin, start |-> b.start, last |-> b.last, stop |-> index]
<1>1. \A b : End(b).bin = b.bin /\ End(b).start = b.start /\ End(b).stop = index
  OBVIOUS
<1>2. Stopped(bs) = {End(b) : b \in bs}
  BY Zenon DEF Stopped
<1> HIDE DEF End
<1> QED BY Zenon, <1>1, <1>2

LEMMA PrimedMoves ==
  ASSUME BurstInv, AgeInv, NEW samples, ProcessFrame(samples), index' = index + Fft, hist.primed
  PROVE  FrameMoves
<1>0. /\ index \in Nat /\ Fft \in Nat \ {0} /\ Pre \in Nat /\ Fft <= Pre /\ Pre <= index
      /\ hist \in Histories /\ Half \in Nat
  BY DetectorAssumption DEF BurstInv, AgeInv, Half
<1>1. PICK hot \in Spectra :
        LET active == update_bursts(hot)
            peaks == extract_peaks(hot)
            ended == {b \in active : Ended(b)}
            kept == active \ ended
            h == IF \E b \in active : Long(b) THEN Learn(hist) ELSE hist
        IN  \E ps \in Chosen(peaks \ MaskOfAll(kept)) :
              LET all == kept \cup NewBursts(ps)
                  squelched == Cardinality(all) > MaxBursts
              IN  /\ IF squelched THEN Squelch(all, ended, h) ELSE Track(all, ended, h)
                  /\ frame' = [at |-> index, samples |-> samples,
                               hot |-> IF squelched THEN {} ELSE peaks \cup (hot \cap mask)]
  BY Zenon DEF ProcessFrame
<1> DEFINE active == update_bursts(hot)
           ended == {b \in active : Ended(b)}
           kept == active \ ended
           h == IF \E b \in active : Long(b) THEN Learn(hist) ELSE hist
           peaks == extract_peaks(hot)
<1>2. PICK ps \in Chosen(peaks \ MaskOfAll(kept)) :
        \/ /\ Squelch(kept \cup NewBursts(ps), ended, h)
           /\ frame' = [at |-> index, samples |-> samples, hot |-> {}]
        \/ /\ Track(kept \cup NewBursts(ps), ended, h)
           /\ frame' = [at |-> index, samples |-> samples, hot |-> peaks \cup (hot \cap mask)]
  BY Zenon, <1>1
<1> DEFINE all == kept \cup NewBursts(ps)
<1>3. h \in Histories /\ h.primed
  BY Zenon, <1>0, LearnKeeps
<1>4. active = kept \cup ended
  OBVIOUS
<1>5. /\ \A b \in active : /\ b.start \in Nat /\ b.start + Pre + Fft <= index
                           /\ \E a \in bursts : b.start = a.start /\ b.bin = a.bin
      /\ \A a \in bursts : \E b \in active : b.start = a.start /\ b.bin = a.bin
  BY Zenon, ActiveAre
<1>6. \A b \in NewBursts(ps) : b.start = index - Pre
  BY DEF NewBursts
<1>7. ASSUME NEW b \in active PROVE b.start # index - Pre
  <2>1. b.start \in Nat /\ b.start + Pre + Fft <= index
    BY Zenon, <1>5
  <2> QED BY <1>0, <2>1
<1>8. /\ peaks \subseteq Bins /\ ps \subseteq peaks
      /\ \A q \in (peaks \ MaskOfAll(kept)) \ ps : \E p \in ps : q \in MaskOf([bin |-> p])
  BY Zenon, DetectorAssumption DEF Chosen, extract_peaks
<1>9. ASSUME NEW x \in peaks \ MaskOfAll(kept)
      PROVE  \E b \in NewBursts(ps) : x \in MaskOf(b)
  <2>1. PICK p \in ps : x \in MaskOf([bin |-> p])
    <3>1. CASE x \in ps
      <4>1. x \in MaskOf([bin |-> x])
        <5>1. x \in Bins /\ x \in Int
          BY <1>8 DEF Bins
        <5> QED BY <1>0, <5>1 DEF MaskOf
      <4> QED BY Zenon, <3>1, <4>1
    <3> QED BY Zenon, <1>8, <3>1
  <2> DEFINE b == [bin |-> p, start |-> index - Pre, last |-> index - Pre]
  <2>2. b \in NewBursts(ps)
    BY Zenon DEF NewBursts
  <2>3. x \in MaskOf(b)
    BY Zenon, <2>1 DEF MaskOf
  <2> QED BY Zenon, <2>2, <2>3
<1>10. mask = MaskOfAll(bursts)
  BY Zenon DEF BurstInv, MaskIsExact
<1> HIDE DEF active, ended, kept, h, peaks
<1>11. CASE /\ Track(all, ended, h)
            /\ frame' = [at |-> index, samples |-> samples, hot |-> peaks \cup (hot \cap mask)]
  <2>1. bursts' = all /\ gone' = gone \cup Stopped(ended) /\ hist' = IF all = {} THEN Learn(h) ELSE h
    BY Zenon, <1>11 DEF Track
  <2>2. hist'.primed
    BY Zenon, <1>3, <2>1, LearnKeeps
  <2>3. AgeInv'
    <3>1. \A b \in all : b.start \in Nat /\ b.start + Pre + Fft <= index'
      BY <1>0, <1>4, <1>5, <1>6
    <3>2. Pre <= index'
      BY <1>0
    <3> QED BY Zenon, <2>1, <2>2, <3>1, <3>2 DEF AgeInv
  <2>4. ASSUME NEW g \in gone', g \notin gone
        PROVE  g.stop = index /\ \E b \in bursts : g.start = b.start
    <3>1. g \in Stopped(ended)
      BY Zenon, <2>1, <2>4
    <3>2. PICK e \in ended : g.stop = index /\ g.start = e.start
      <4>1. \A x \in Stopped(ended) : x.stop = index /\ \E b \in ended : x.start = b.start /\ x.bin = b.bin
        BY Zenon, StoppedAre
      <4> QED BY Zenon, <3>1, <4>1
    <3>3. e \in active
      BY Zenon, <1>4
    <3> QED BY ZenonT(30), <1>5, <3>2, <3>3
  <2>5. ASSUME NEW a \in bursts
        PROVE  \/ \E c \in bursts' : c.bin = a.bin /\ c.start = a.start
               \/ \E g \in gone' : g.bin = a.bin /\ g.start = a.start /\ g.stop = index
    <3>1. PICK b \in active : b.start = a.start /\ b.bin = a.bin
      BY Zenon, <1>5
    <3>2. CASE b \in kept
      BY Zenon, <2>1, <3>1, <3>2
    <3>3. CASE b \in ended
      BY <2>1, <3>1, <3>3, StoppedAre
    <3> QED BY Zenon, <1>4, <3>2, <3>3
  <2>6. SignalIsCovered'
    <3> SUFFICES ASSUME NEW x \in peaks \cup (hot \cap mask)
                 PROVE  \/ \E b \in bursts' : x \in MaskOf(b) /\ b.start <= index
                        \/ \E g \in gone' : /\ x \in MaskOf(g) /\ g.start <= index
                                            /\ index + Fft <= g.stop + Pre
      BY Zenon, <1>11 DEF SignalIsCovered, MaskOf
    <3>1. CASE x \in peaks /\ x \in MaskOfAll(kept)
      <4>1. PICK b \in kept : x \in MaskOf(b)
        BY Zenon, <3>1 DEF MaskOfAll
      <4> QED BY <1>0, <1>4, <1>5, <2>1, <4>1
    <3>2. CASE x \in peaks /\ x \notin MaskOfAll(kept)
      <4>1. PICK b \in NewBursts(ps) : x \in MaskOf(b)
        BY Zenon, <1>9, <3>2
      <4>2. b.start <= index
        BY <1>0, <1>6
      <4> QED BY Zenon, <2>1, <4>1, <4>2
    <3>3. CASE x \in mask
      <4>1. PICK a \in bursts : x \in MaskOf(a)
        BY Zenon, <1>10, <3>3 DEF MaskOfAll
      <4>2. a.start <= index
        BY <1>0 DEF AgeInv
      <4>3. ASSUME NEW c, c.bin = a.bin PROVE x \in MaskOf(c)
        BY Zenon, <4>1, <4>3 DEF MaskOf
      <4>4. index + Fft <= index + Pre
        BY <1>0
      <4> QED BY Zenon, <2>5, <4>2, <4>3, <4>4
    <3> QED BY Zenon, <3>1, <3>2, <3>3
  <2> QED BY Zenon, <2>1, <2>3, <2>4, <2>5, <2>6 DEF FrameMoves
<1>12. CASE /\ Squelch(all, ended, h)
            /\ frame' = [at |-> index, samples |-> samples, hot |-> {}]
  <2> DEFINE old == ended \cup {b \in all : b.start # index - Pre}
  <2>1. /\ bursts' = {} /\ gone' = gone \cup Stopped(old)
        /\ (hist' = Learn(h) \/ hist' = Learn(Unprimed))
    BY Zenon, <1>12 DEF Squelch
  <2>2. old = active
    BY Zenon, <1>4, <1>6, <1>7
  <2> HIDE DEF old
  <2>3. AgeInv'
    <3>1. Unprimed \in Histories /\ ~Unprimed.primed /\ Fft * Unprimed.index <= index
      BY <1>0 DEF Unprimed, Histories
    <3> QED BY Zenon, <1>0, <1>3, <2>1, <3>1, LearnAges DEF AgeInv
  <2>4. \A g \in gone' : g \in gone \/ (g.stop = index /\ \E b \in bursts : g.start = b.start)
    BY <1>5, <2>1, <2>2, StoppedAre
  <2>5. \A a \in bursts : \E g \in gone' : g.bin = a.bin /\ g.start = a.start
    BY <1>5, <2>1, <2>2, StoppedAre
  <2>6. SignalIsCovered'
    BY Zenon, <1>12 DEF SignalIsCovered
  <2> QED BY Zenon, <2>1, <2>3, <2>4, <2>5, <2>6 DEF FrameMoves
<1> QED BY Zenon, <1>2, <1>11, <1>12

(* The ended bursts that wait to be handed on are still in the ring. *)
Waits(g) ==
  /\ g.start \in Nat /\ g.stop \in Nat
  /\ g.start + Pre + Fft <= g.stop /\ g.stop - g.start < MaxLen + Post + Fft
  /\ fails = 0 => sample_count - g.start < RingSize

OldEnd ==
  /\ ringbuf_start \in Nat
  /\ ringbuf_start = 0 \/ ringbuf_start <= sample_count - RingSize

Headroom == fails = 0 /\ pc # "idle" => sample_count - index <= RingSize - MaxLen - Post - Fft

GoneInv ==
  /\ AgeInv /\ OldEnd /\ Headroom
  /\ \A g \in gone : Waits(g)
  /\ SignalIsCovered /\ ExtractionIsWhole

LEMMA Lengths ==
  /\ {Fft, MaxLen} \subseteq Nat \ {0} /\ {Pre, Post, RingSize} \subseteq Nat
  /\ MaxLen + Post + Pre + Fft <= RingSize
  /\ \A n \in BufLens : n \in Nat /\ MaxLen + Post + 2 * Fft + n <= RingSize + 1
BY Zenon, DetectorAssumption

(* What the extraction of a waiting burst finds. *)
LEMMA ExtractedWhole ==
  ASSUME RingInv, OldEnd, fails = 0, NEW g, Waits(g)
  PROVE  /\ Len(Extracted(g).samples) = Extracted(g).stop - Extracted(g).start
         /\ \A k \in DOMAIN Extracted(g).samples :
              Extracted(g).start + k <= sample_count => Extracted(g).samples[k] = Extracted(g).start + k - 1
         /\ Extracted(g).samples # <<>>
         /\ Extracted(g).start = g.start /\ Extracted(g).stop = g.stop + Pre
<1> DEFINE n == (g.stop + Pre) - g.start
           s == ReadRing(g.start, n)
<1>0. /\ sample_count \in Nat /\ g.start \in Nat /\ g.stop \in Nat /\ sample_count - g.start < RingSize
      /\ g.start + Pre + Fft <= g.stop /\ g.stop - g.start < MaxLen + Post + Fft
  BY Zenon DEF RingInv, Waits
<1>1. n \in 1 .. RingSize /\ n \in 0 .. RingSize
  <2>1. Fft \in Nat \ {0} /\ MaxLen \in Nat /\ Pre \in Nat /\ Post \in Nat /\ RingSize \in Nat
        /\ MaxLen + Post + Pre + Fft <= RingSize
    BY Zenon, Lengths
  <2>2. n \in Int /\ n >= 1 /\ n <= RingSize
    BY <1>0, <2>1
  <2> HIDE DEF n
  <2> QED BY <2>1, <2>2
<1>2. ~(g.start < ringbuf_start) /\ ~(g.stop + Pre <= g.start)
  BY <1>0, Lengths DEF OldEnd
<1>3. /\ Extracted(g).start = g.start /\ Extracted(g).stop = g.stop + Pre
      /\ Extracted(g).samples = s
  <2>1. ringbuf_extract(g.start, g.stop + Pre) = s
    BY <1>2, Zenon DEF ringbuf_extract
  <2> HIDE DEF s
  <2> QED BY Zenon, <2>1 DEF Extracted
<1> HIDE DEF n
<1>4. /\ s \in [1 .. n -> Int]
      /\ \A k \in 1 .. n : g.start + k <= sample_count => s[k] = g.start + k - 1
  <2>1. sample_count - g.start <= RingSize
    BY <1>0, Lengths
  <2>2. /\ ReadRing(g.start, n) \in [1 .. n -> Int]
        /\ sample_count - g.start <= RingSize =>
             \A k \in 1 .. n : g.start + k <= sample_count => ReadRing(g.start, n)[k] = g.start + k - 1
    BY Zenon, <1>0, <1>1, ReadIs
  <2> QED BY Zenon, <2>1, <2>2
<1> HIDE DEF s
<1>5. Len(s) = n /\ DOMAIN s = 1 .. n /\ s # <<>>
  BY <1>1, <1>4
<1>6. n = Extracted(g).stop - Extracted(g).start
  BY Zenon, <1>3 DEF n
<1> QED BY Zenon, <1>3, <1>4, <1>5, <1>6

LEMMA GoneInit == Init => GoneInv
BY Lengths DEF Init, GoneInv, AgeInv, OldEnd, Headroom, SignalIsCovered, ExtractionIsWhole, NoFrame

LEMMA FeedGone ==
  ASSUME StreamInv, GoneInv, NEW n \in BufLens, Feed(n)
  PROVE  GoneInv'
<1>1. /\ pc = "idle" /\ sample_count' = sample_count + n /\ pc' = "read"
      /\ ringbuf_start' = IF sample_count > RingSize THEN sample_count - RingSize ELSE ringbuf_start
      /\ frame' = NoFrame /\ out' = {} /\ UNCHANGED <<index, hist, bursts, gone, fails>>
  BY Zenon DEF Feed, RingWrite, trackVars
<1>2. gone = {} /\ sample_count \in Nat /\ index \in Nat /\ (fails = 0 => sample_count - index < Fft)
  BY Zenon, <1>1 DEF StreamInv, ControlInv, RingInv, CatchesUp
<1>3. AgeInv' /\ SignalIsCovered' /\ ExtractionIsWhole'
  BY Zenon, <1>1 DEF GoneInv, AgeInv, SignalIsCovered, ExtractionIsWhole, NoFrame
<1>4. OldEnd'
  BY <1>1, <1>2, Lengths DEF GoneInv, OldEnd
<1>5. Headroom'
  BY <1>1, <1>2, Lengths DEF Headroom
<1> QED BY Zenon, <1>1, <1>2, <1>3, <1>4, <1>5 DEF GoneInv

LEMMA FrameGone ==
  ASSUME BurstInv, StreamInv, GoneInv, CpuFrame \/ GpuFrame
  PROVE  GoneInv' /\ FrameMoves
<1>1. /\ index' = index + Fft /\ pc # "idle" /\ out' = {}
      /\ UNCHANGED <<ring, ringbuf_start, sample_count, fails>>
      /\ \E samples : ProcessFrame(samples)
  BY Zenon DEF CpuFrame, GpuFrame, ringVars
<1>2. FrameMoves
  BY Zenon, <1>1, LearningMoves, PrimedMoves DEF GoneInv
<1>3. index \in Nat /\ sample_count \in Nat
  BY Zenon DEF BurstInv, StreamInv, RingInv
<1>4. Headroom'
  BY <1>1, <1>3, Lengths DEF GoneInv, Headroom
<1>5. ASSUME NEW g \in gone' PROVE Waits(g)'
  <2>1. CASE g \in gone
    BY Zenon, <1>1, <2>1 DEF GoneInv, Waits
  <2>2. CASE g.stop = index /\ \E b \in bursts : g.start = b.start
    <3>1. PICK b \in bursts : g.start = b.start
      BY Zenon, <2>2
    <3>2. b.start \in Nat /\ b.start + Pre + Fft <= index /\ index - b.start < MaxLen + Post + Fft
      BY Zenon DEF GoneInv, AgeInv, BurstInv, BoundedLife
    <3>3. fails = 0 => sample_count - b.start < RingSize
      BY <1>1, <1>3, <3>2, Lengths DEF GoneInv, Headroom
    <3> QED BY Zenon, <1>1, <1>3, <2>2, <3>1, <3>2, <3>3 DEF Waits
  <2> QED BY Zenon, <1>2, <2>1, <2>2 DEF FrameMoves
<1>6. OldEnd' /\ ExtractionIsWhole'
  BY Zenon, <1>1 DEF GoneInv, OldEnd, ExtractionIsWhole
<1> QED BY Zenon, <1>2, <1>4, <1>5, <1>6 DEF GoneInv, FrameMoves

LEMMA EmitGoneWhole ==
  ASSUME StreamInv, GoneInv, GpuEmit \/ FeedReturns
  PROVE  GoneInv'
<1>1. /\ frame' = NoFrame /\ gone' = {} /\ pc # "idle"
      /\ out' = {e \in {Extracted(g) : g \in gone} : e.samples # <<>>}
      /\ UNCHANGED <<ringbuf_start, sample_count, index, hist, bursts, fails>>
  BY Zenon DEF GpuEmit, FeedReturns, EmitGone, ringVars
<1>2. AgeInv' /\ OldEnd' /\ Headroom' /\ SignalIsCovered'
  BY Zenon, <1>1 DEF GoneInv, AgeInv, OldEnd, Headroom, SignalIsCovered, NoFrame
<1>3. ExtractionIsWhole'
  <2> SUFFICES ASSUME fails = 0, NEW e \in out'
               PROVE  /\ Len(e.samples) = e.stop - e.start
                      /\ \A k \in DOMAIN e.samples :
                           e.start + k <= sample_count => e.samples[k] = e.start + k - 1
    BY Zenon, <1>1 DEF ExtractionIsWhole
  <2>1. PICK g \in gone : e = Extracted(g)
    BY Zenon, <1>1
  <2>2. Waits(g) /\ RingInv /\ OldEnd
    BY Zenon DEF GoneInv, StreamInv
  <2> QED BY Zenon, <2>1, <2>2, ExtractedWhole
<1> QED BY Zenon, <1>1, <1>2, <1>3 DEF GoneInv

PlaceInv == BurstInv /\ StreamInv /\ GoneInv

LEMMA PlaceNext == PlaceInv /\ [Next]_vars => PlaceInv'
<1> SUFFICES ASSUME BurstInv, StreamInv, GoneInv, [Next]_vars PROVE GoneInv'
  BY Zenon, BurstNext, StreamNext DEF PlaceInv
<1>1. CASE \E n \in BufLens : Feed(n)
  BY Zenon, <1>1, FeedGone
<1>2. CASE CpuFrame \/ GpuFrame
  BY Zenon, <1>2, FrameGone
<1>3. CASE GpuEmit \/ FeedReturns
  BY Zenon, <1>3, EmitGoneWhole
<1>4. CASE GpuCopy \/ \E ok \in BOOLEAN : GpuFlush(ok)
  <2>1. /\ frame' = NoFrame /\ out' = {} /\ pc # "idle" /\ (fails' = 0 => fails = 0)
        /\ UNCHANGED <<ringbuf_start, sample_count, index, hist, bursts, gone>>
    <3>1. fails \in Nat
      BY Zenon DEF StreamInv, ControlInv
    <3> QED BY <1>4, <3>1 DEF GpuCopy, GpuFlush, ringVars, trackVars
  <2>2. AgeInv' /\ OldEnd' /\ Headroom' /\ SignalIsCovered' /\ ExtractionIsWhole'
    BY Zenon, <2>1 DEF GoneInv, AgeInv, OldEnd, Headroom, SignalIsCovered, ExtractionIsWhole, NoFrame
  <2>3. \A g \in gone' : Waits(g)'
    BY Zenon, <2>1 DEF GoneInv, Waits
  <2> QED BY Zenon, <2>2, <2>3 DEF GoneInv
<1>5. CASE UNCHANGED vars
  BY Zenon, <1>5 DEF vars, ringVars, trackVars, GoneInv, AgeInv, OldEnd, Headroom, Waits,
              SignalIsCovered, MaskOf, ExtractionIsWhole
<1> QED BY Zenon, <1>1, <1>2, <1>3, <1>4, <1>5 DEF Next

LEMMA PlaceInvHolds == Spec => []PlaceInv
<1>1. Init => PlaceInv
  BY Zenon, BurstInit, StreamInit, GoneInit DEF PlaceInv
<1> QED BY <1>1, PlaceNext, PTL DEF Spec

(* While the GPU works a burst is handed on with the samples of its own     *)
(* place, from its start on: the ring is long enough for every burst and    *)
(* every buffer, wherever either wraps.                                     *)
THEOREM ExtractionHolds == Spec => []ExtractionIsWhole
<1>1. PlaceInv => ExtractionIsWhole
  BY Zenon DEF PlaceInv, GoneInv
<1> QED BY <1>1, PlaceInvHolds, PTL

(* Every signal above the threshold in a frame that is not squelched lies   *)
(* in a burst, whatever peaks mask each other and whichever bursts end.     *)
THEOREM SignalsAreCovered == Spec => []SignalIsCovered
<1>1. PlaceInv => SignalIsCovered
  BY Zenon DEF PlaceInv, GoneInv
<1> QED BY <1>1, PlaceInvHolds, PTL

(* No burst is lost between its detection and the callback, in the squelch  *)
(* too, and while the GPU works the extraction of none comes out empty.     *)
THEOREM NoBurstIsLost == Spec => BurstsAreHandedOn
<1>1. ASSUME PlaceInv, Next PROVE HandsOn
  <2>1. CASE CpuFrame \/ GpuFrame
    BY Zenon, <1>1, <2>1, FrameGone DEF PlaceInv, FrameMoves, HandsOn
  <2>2. CASE GpuEmit \/ FeedReturns
    <3>1. /\ bursts' = bursts
          /\ out' = {e \in {Extracted(g) : g \in gone} : e.samples # <<>>}
      BY Zenon, <2>2 DEF GpuEmit, FeedReturns, EmitGone
    <3>2. ASSUME fails = 0, NEW g \in gone
          PROVE  \E e \in out' : e.start = g.start /\ e.stop = g.stop + Pre
      <4>1. Waits(g) /\ RingInv /\ OldEnd
        BY Zenon, <1>1 DEF PlaceInv, GoneInv, StreamInv
      <4>2. /\ Extracted(g).samples # <<>>
            /\ Extracted(g).start = g.start /\ Extracted(g).stop = g.stop + Pre
        BY Zenon, <3>2, <4>1, ExtractedWhole
      <4> QED BY Zenon, <3>1, <4>2
    <3> QED BY Zenon, <3>1, <3>2 DEF HandsOn
  <2>3. CASE ~(CpuFrame \/ GpuFrame \/ GpuEmit \/ FeedReturns)
    <3>1. bursts' = bursts /\ gone' = gone
      BY Zenon, <1>1, <2>3 DEF Next, Feed, GpuCopy, GpuFlush, trackVars
    <3> QED BY Zenon, <3>1 DEF HandsOn
  <2> QED BY Zenon, <2>1, <2>2, <2>3
<1>2. PlaceInv /\ [Next]_vars => [HandsOn]_vars
  BY Zenon, <1>1
<1> QED BY <1>2, PlaceInvHolds, PTL DEF Spec, BurstsAreHandedOn

LEMMA DetectorTypeCorrect == Spec => []TypeOK
<1>1. PlaceInv => TypeOK
  <2> SUFFICES ASSUME PlaceInv PROVE TypeOK
    OBVIOUS
  <2>1. ringbuf_write \in 0 .. RingSize - 1
    BY RingSizeIsPositive DEF PlaceInv, StreamInv, RingInv
  <2>2. \A b \in bursts : b.bin \in Bins /\ b.start \in Nat
    BY Zenon DEF PlaceInv, BurstInv, GoneInv, AgeInv, Burst
  <2> QED BY Zenon, <2>1, <2>2 DEF PlaceInv, StreamInv, ControlInv, RingInv, GoneInv, OldEnd, TypeOK
<1> QED BY <1>1, PlaceInvHolds, PTL

(* The active bursts are exactly what is masked, apart from each other, in  *)
(* the stream and of bounded length, for every spectrum and every setting.  *)
THEOREM BurstsHold == Spec => []BurstsAreSound
<1>1. TypeOK /\ MaskIsExact /\ BoundedLife => BurstsAreSound
  BY Zenon DEF BurstsAreSound
<1> QED BY <1>1, DetectorTypeCorrect, MaskHolds, LifeIsBounded, PTL

(* Frames are read in place and none is left unread, for every ring size,   *)
(* batch size and buffer length.                                            *)
THEOREM StreamHolds == Spec => []StreamIsFollowed
<1>1. FramesInPlace /\ CatchesUp => StreamIsFollowed
  BY Zenon DEF StreamIsFollowed
<1> QED BY <1>1, FramesAreInPlace, DetectorCatchesUp, PTL
=============================================================================
