----------------------------- MODULE IdaProofs -----------------------------
(***************************************************************************)
(* Safety of the reassembly of IDA messages for every number of slots,     *)
(* every window, every modulus of the counter and every traffic.           *)
(***************************************************************************)
EXTENDS IdaReassembly, FiniteSetTheorems, SequenceTheorems, TLAPS

Burst ==
  [chan : Channels, began : Int, part : Int, total : Int, at : Int,
   dir : {"DL", "UL"}, freq : Int, time : Nat, ctr : 0 .. CtrMod - 1,
   cont : BOOLEAN, len : Lengths, ok : BOOLEAN]

Slot ==
  [active : BOOLEAN, dir : {"DL", "UL"}, freq : Int, last : Nat,
   ctr : 0 .. CtrMod - 1, data : Seq(Burst), len : 0 .. DataCap, accepted : Nat]

(* The bursts of d can be the beginning of a message: of one direction and *)
(* nearly one frequency, numbered from 0, close after each other.          *)
Linked(d) ==
  \A k \in 1 .. Len(d) :
    /\ d[k].ok /\ d[k].dir = d[1].dir
    /\ Distance(d[k].freq, d[1].freq) <= Tolerance
    /\ d[k].ctr = (k - 1) % CtrMod
    /\ k > 1 => d[k].time - d[k - 1].time \in 0 .. Window

(* Every one announces another; or all but the last do.                    *)
Goes(d) == Linked(d) /\ \A k \in 1 .. Len(d) : d[k].cont
Ends(d) == Linked(d) /\ \A k \in 1 .. Len(d) : d[k].cont <=> k < Len(d)

(* The bursts of d lie one behind the other in an array, up to len.        *)
Packed(d, len) ==
  /\ len = IF d = <<>> THEN 0 ELSE d[Len(d)].at + d[Len(d)].len
  /\ \A k \in 1 .. Len(d) : d[k].at = IF k = 1 THEN 0 ELSE d[k - 1].at + d[k - 1].len

(* A slot in use that has copied all it accepted holds the beginning of a  *)
(* message, and knows its last burst.                                      *)
SlotInv(s) ==
  /\ s \in Slot /\ Packed(s.data, s.len)
  /\ s.active =>
       /\ Len(s.data) \in 1 .. s.accepted
       /\ s.accepted = Len(s.data) =>
            /\ Goes(s.data)
            /\ s.dir = s.data[1].dir /\ s.freq = s.data[1].freq
            /\ s.ctr = s.data[Len(s.data)].ctr /\ s.last = s.data[Len(s.data)].time

MessageInv(m) ==
  /\ m.data \in Seq(Burst)
  /\ m.accepted = Len(m.data) => Ends(m.data)

SlotsOK(ctx) == ctx \in [1 .. NSlots -> Slot] /\ \A i \in 1 .. NSlots : SlotInv(ctx[i])

PInv ==
  /\ faulty \in BOOLEAN /\ clock \in 0 .. MaxTime
  /\ sender \in [Channels -> [sent : 0 .. MaxParts - 1, began : Int, last : Int, total : Int]]
  /\ pending \in Seq(Burst)
  /\ SlotsOK(slots)
  /\ MessageInv(out)
  /\ got = <<>> \/ \E b \in Burst : got = <<b>>

-----------------------------------------------------------------------------
(* A set of naturals has a least member.                                   *)
LEMMA LeastNat ==
  ASSUME NEW T \in SUBSET Nat, T # {}
  PROVE  Min(T) \in T /\ \A y \in T : Min(T) <= y
<1>1. PICK x \in T : \A y \in T : ~(<<y, x>> \in OpToRel(<, Nat))
  BY Zenon, NatLessThanWellFounded, WFMin
<1>2. \A y \in T : x <= y
  <2> SUFFICES ASSUME NEW y \in T, y < x PROVE FALSE
    OBVIOUS
  <2>1. OpToRel(<, Nat) = {p \in Nat \X Nat : p[1] < p[2]}
    BY Zenon DEF OpToRel
  <2>2. <<y, x>> \in {p \in Nat \X Nat : p[1] < p[2]}
    OBVIOUS
  <2> QED BY Zenon, <1>1, <2>1, <2>2
<1> QED BY Zenon, <1>1, <1>2 DEF Min

(* The remainder is the one number below the divisor that fits.            *)
LEMMA RemainderIs ==
  ASSUME NEW c \in Nat \ {0}, NEW q \in Int, NEW r \in 0 .. c - 1
  PROVE  (c * q + r) % c = r
<1> DEFINE a == c * q + r
           p == a \div c
           s == a % c
<1>1. a \in Int /\ p \in Int /\ s \in 0 .. c - 1 /\ a = c * p + s
  OBVIOUS
<1>2. c * (p - q) = r - s
  BY <1>1
<1> HIDE DEF p, s
<1>3. (p - q >= 1 => c * (p - q) >= c) /\ (p - q <= -1 => c * (p - q) <= -c)
  BY <1>1
<1>4. p = q
  BY <1>1, <1>2, <1>3
<1> QED BY <1>1, <1>2, <1>4 DEF s

(* The number after the (n - 1)-th burst's is that of the n-th.            *)
LEMMA NextCtr ==
  ASSUME NEW n \in Nat
  PROVE  /\ n % CtrMod \in 0 .. CtrMod - 1
         /\ ((n % CtrMod) + 1) % CtrMod = (n + 1) % CtrMod
<1> DEFINE c == CtrMod
           q == n \div c
           r == n % c
<1>0. c \in Nat \ {0}
  BY Zenon, IdaAssumption
<1>1. q \in Int /\ r \in 0 .. c - 1 /\ n = c * q + r
  BY <1>0
<1> HIDE DEF q, r, c
<1>2. CASE r + 1 < c
  <2>1. r + 1 \in 0 .. c - 1 /\ n + 1 = c * q + (r + 1) /\ r + 1 = c * 0 + (r + 1) /\ 0 \in Int
    BY <1>0, <1>1, <1>2
  <2>2. (c * q + (r + 1)) % c = r + 1
    BY Zenon, <1>0, <1>1, <2>1, RemainderIs
  <2>3. (c * 0 + (r + 1)) % c = r + 1
    BY Zenon, <1>0, <2>1, RemainderIs
  <2> QED BY Zenon, <1>1, <2>1, <2>2, <2>3 DEF r, c
<1>3. CASE r + 1 = c
  <2>1. n + 1 = c * (q + 1) + 0 /\ r + 1 = c * 1 + 0 /\ 1 \in Int /\ q + 1 \in Int /\ 0 \in 0 .. c - 1
    BY <1>0, <1>1, <1>3
  <2>2. (c * (q + 1) + 0) % c = 0
    BY Zenon, <1>0, <2>1, RemainderIs
  <2>3. (c * 1 + 0) % c = 0
    BY Zenon, <1>0, <2>1, RemainderIs
  <2> QED BY Zenon, <1>1, <2>1, <2>2, <2>3 DEF r, c
<1> QED BY <1>0, <1>1, <1>2, <1>3

LEMMA DistanceFacts ==
  /\ \A x, y \in Int : Distance(x, y) = Distance(y, x) /\ Distance(x, y) \in Nat
  /\ \A x \in Int : Distance(x, x) = 0
  BY DEF Distance

(* One burst more, behind the others.                                      *)
LEMMA PackedMore ==
  ASSUME NEW d \in Seq(Burst), NEW len \in Nat, Packed(d, len),
         NEW b \in Burst, b.at = len
  PROVE  Packed(Append(d, b), len + b.len)
<1> DEFINE e == Append(d, b)
           n == Len(d)
<1>1. /\ n \in Nat /\ e \in Seq(Burst) /\ Len(e) = n + 1 /\ e[n + 1] = b
      /\ \A k \in 1 .. n : e[k] = d[k]
  BY AppendProperties, LenProperties
<1>2. e # <<>>
  BY <1>1
<1> HIDE DEF e
<1>3. len + b.len = IF e = <<>> THEN 0 ELSE e[Len(e)].at + e[Len(e)].len
  BY Zenon, <1>1, <1>2
<1>4. ASSUME NEW k \in 1 .. Len(e)
      PROVE  e[k].at = IF k = 1 THEN 0 ELSE e[k - 1].at + e[k - 1].len
  <2>1. CASE k \in 1 .. n
    <3>1. e[k] = d[k] /\ (k # 1 => e[k - 1] = d[k - 1])
      BY <1>1, <2>1
    <3> QED BY Zenon, <2>1, <3>1 DEF Packed
  <2>2. CASE k = n + 1 /\ n = 0
    <3>1. d = <<>>
      BY Zenon, <2>2, EmptySeq
    <3> QED BY <1>1, <2>2, <3>1 DEF Packed
  <2>3. CASE k = n + 1 /\ n # 0
    <3>1. e[k] = b /\ k - 1 = n /\ e[n] = d[n] /\ k # 1 /\ d # <<>>
      BY <1>1, <2>3
    <3>2. len = d[n].at + d[n].len
      BY Zenon, <3>1 DEF Packed
    <3> QED BY Zenon, <3>1, <3>2
  <2> QED BY <1>1, <2>1, <2>2, <2>3
<1> QED BY Zenon, <1>3, <1>4 DEF Packed, e

LEMMA LinkMore ==
  ASSUME NEW d \in Seq(Burst), Len(d) > 0, Goes(d),
         NEW b \in Burst, b.ok, b.dir = d[1].dir,
         Distance(b.freq, d[1].freq) <= Tolerance,
         b.ctr = Len(d) % CtrMod,
         b.time - d[Len(d)].time \in 0 .. Window
  PROVE  /\ b.cont => Goes(Append(d, b))
         /\ ~b.cont => Ends(Append(d, b))
<1> DEFINE e == Append(d, b)
           n == Len(d)
<1>1. /\ n \in Nat /\ e \in Seq(Burst) /\ Len(e) = n + 1 /\ e[n + 1] = b
      /\ \A k \in 1 .. n : e[k] = d[k]
  BY AppendProperties, LenProperties
<1>2. e[1] = d[1] /\ n > 0
  BY <1>1
<1> HIDE DEF e
<1>3. \A k \in 1 .. n + 1 : k = n + 1 \/ k \in 1 .. n
  BY <1>1
<1>4. ASSUME NEW k \in 1 .. n + 1
      PROVE  /\ e[k].ok /\ e[k].dir = e[1].dir
             /\ Distance(e[k].freq, e[1].freq) <= Tolerance
             /\ e[k].ctr = (k - 1) % CtrMod
             /\ k > 1 => e[k].time - e[k - 1].time \in 0 .. Window
  <2>1. CASE k = n + 1
    <3>1. e[k] = b /\ k - 1 = n /\ e[k - 1] = d[n]
      BY <1>1, <1>2, <2>1
    <3> QED BY Zenon, <1>2, <3>1
  <2>2. CASE k \in 1 .. n
    <3>1. e[k] = d[k] /\ (k > 1 => e[k - 1] = d[k - 1])
      BY <1>1, <2>2
    <3>2. /\ d[k].ok /\ d[k].dir = d[1].dir
          /\ Distance(d[k].freq, d[1].freq) <= Tolerance
          /\ d[k].ctr = (k - 1) % CtrMod
          /\ k > 1 => d[k].time - d[k - 1].time \in 0 .. Window
      BY Zenon, <2>2 DEF Goes, Linked
    <3> QED BY Zenon, <1>2, <3>1, <3>2
  <2> QED BY Zenon, <1>3, <2>1, <2>2
<1>5. Linked(e)
  BY Zenon, <1>1, <1>4 DEF Linked
<1>6. \A k \in 1 .. n : e[k].cont /\ k < n + 1
  <2>1. \A k \in 1 .. n : d[k].cont /\ k < n + 1
    BY <1>1 DEF Goes
  <2> QED BY Zenon, <1>1, <2>1
<1>7. e[n + 1].cont <=> b.cont
  BY Zenon, <1>1
<1>8. ASSUME b.cont PROVE Goes(e)
  BY Zenon, <1>1, <1>3, <1>5, <1>6, <1>7, <1>8 DEF Goes
<1>9. ASSUME ~b.cont PROVE Ends(e)
  <2>1. ~(n + 1 < n + 1)
    BY <1>1
  <2>2. \A k \in 1 .. n + 1 : e[k].cont <=> k < n + 1
    BY Zenon, <1>3, <1>6, <1>7, <1>9, <2>1
  <2> QED BY Zenon, <1>1, <1>5, <2>2 DEF Ends
<1> QED BY Zenon, <1>8, <1>9 DEF e

LEMMA SlotFields ==
  ASSUME NEW s \in Slot
  PROVE  /\ s.active \in BOOLEAN /\ s.dir \in {"DL", "UL"} /\ s.freq \in Int /\ s.last \in Nat
         /\ s.ctr \in 0 .. CtrMod - 1 /\ s.data \in Seq(Burst) /\ s.len \in 0 .. DataCap
         /\ s.accepted \in Nat /\ Len(s.data) \in Nat
  BY Zenon, LenProperties DEF Slot

LEMMA BurstFields ==
  ASSUME NEW b \in Burst
  PROVE  /\ b.chan \in Channels /\ b.began \in Int /\ b.part \in Int /\ b.total \in Int
         /\ b.dir \in {"DL", "UL"} /\ b.freq \in Int /\ b.time \in Nat
         /\ b.ctr \in 0 .. CtrMod - 1 /\ b.cont \in BOOLEAN /\ b.ok \in BOOLEAN
         /\ b.len \in Nat \ {0} /\ b.len <= DataCap /\ b.at \in Int
<1>1. b.len \in Lengths
  BY Zenon DEF Burst
<1>2. b.len \in Nat \ {0} /\ b.len <= DataCap
  <2>1. b.len \in 1 .. DataCap /\ DataCap \in Nat
    BY Zenon, <1>1, IdaAssumption
  <2> QED BY <2>1
<1>3. b.chan \in Channels /\ b.began \in Int /\ b.part \in Int /\ b.total \in Int /\ b.at \in Int
  BY Zenon DEF Burst
<1> QED BY Zenon, <1>2, <1>3 DEF Burst

LEMMA BurstAt ==
  ASSUME NEW b \in Burst, NEW x \in Int
  PROVE  LET c == [b EXCEPT !.at = x]
         IN  /\ c \in Burst /\ c.at = x
             /\ c.chan = b.chan /\ c.began = b.began /\ c.part = b.part /\ c.total = b.total
             /\ c.dir = b.dir /\ c.freq = b.freq /\ c.time = b.time /\ c.ctr = b.ctr
             /\ c.cont = b.cont /\ c.ok = b.ok /\ c.len = b.len
  BY Zenon DEF Burst

(* What a matching burst makes of its slot.                                *)
LEMMA AcceptFields ==
  ASSUME NEW s \in Slot, NEW b \in Burst
  PROVE  LET t == Accept(s, b)
             fits == s.len + b.len <= DataCap
         IN  /\ t \in Slot /\ t.active = s.active /\ t.dir = s.dir /\ t.freq = s.freq
             /\ t.last = b.time /\ t.ctr = b.ctr /\ t.accepted = s.accepted + 1
             /\ t.data = IF fits THEN Append(s.data, [b EXCEPT !.at = s.len]) ELSE s.data
             /\ t.len = IF fits THEN s.len + b.len ELSE s.len
<1> DEFINE fits == s.len + b.len <= DataCap
           d == IF fits THEN Append(s.data, [b EXCEPT !.at = s.len]) ELSE s.data
           n == IF fits THEN s.len + b.len ELSE s.len
<1>1. d \in Seq(Burst)
  <2>1. [b EXCEPT !.at = s.len] \in Burst
    BY SlotFields, BurstAt
  <2> QED BY <2>1, SlotFields
<1>2. n \in 0 .. DataCap
  BY SlotFields, BurstFields
<1>3. Accept(s, b) = [s EXCEPT !.data = d, !.len = n, !.last = b.time, !.ctr = b.ctr,
                               !.accepted = s.accepted + 1]
  BY Zenon DEF Accept
<1> HIDE DEF d, n
<1> DEFINE t == [s EXCEPT !.data = d, !.len = n, !.last = b.time, !.ctr = b.ctr,
                          !.accepted = s.accepted + 1]
<1>4. t \in Slot
  <2>0. b.time \in Nat /\ b.ctr \in 0 .. CtrMod - 1 /\ s.accepted + 1 \in Nat
    BY SlotFields, BurstFields
  <2> DEFINE t1 == [s EXCEPT !.data = d]
             t2 == [t1 EXCEPT !.len = n]
             t3 == [t2 EXCEPT !.last = b.time]
             t4 == [t3 EXCEPT !.ctr = b.ctr]
  <2>1. t1 \in Slot
    BY Zenon, <1>1 DEF Slot
  <2> HIDE DEF t1
  <2>2. t2 \in Slot
    BY Zenon, <1>2, <2>1 DEF Slot
  <2> HIDE DEF t2
  <2>3. t3 \in Slot
    BY Zenon, <2>0, <2>2 DEF Slot
  <2> HIDE DEF t3
  <2>4. t4 \in Slot
    BY Zenon, <2>0, <2>3 DEF Slot
  <2> HIDE DEF t4
  <2>5. [t4 EXCEPT !.accepted = s.accepted + 1] \in Slot
    BY Zenon, <2>0, <2>4 DEF Slot
  <2> QED BY Zenon, <2>5 DEF t1, t2, t3, t4
<1>5. /\ t.active = s.active /\ t.dir = s.dir /\ t.freq = s.freq
      /\ t.last = b.time /\ t.ctr = b.ctr /\ t.accepted = s.accepted + 1
      /\ t.data = d /\ t.len = n
  BY Zenon DEF Slot
<1> QED BY Zenon, <1>3, <1>4, <1>5 DEF d, n

LEMMA AcceptOK ==
  ASSUME NEW s, SlotInv(s), NEW b \in Burst, b.ok, Matches(s, b)
  PROVE  LET t == Accept(s, b)
         IN  /\ b.cont => SlotInv(t)
             /\ ~b.cont => MessageInv([data |-> t.data, accepted |-> t.accepted])
<1> DEFINE t == Accept(s, b)
           c == [b EXCEPT !.at = s.len]
           fits == s.len + b.len <= DataCap
           n == Len(s.data)
<1>1. /\ s \in Slot /\ s.active /\ Packed(s.data, s.len) /\ n \in 1 .. s.accepted
      /\ s.accepted = n => /\ Goes(s.data)
                           /\ s.dir = s.data[1].dir /\ s.freq = s.data[1].freq
                           /\ s.ctr = s.data[n].ctr /\ s.last = s.data[n].time
  BY Zenon DEF SlotInv, Matches
<1>2. /\ s.data \in Seq(Burst) /\ s.len \in Nat /\ s.accepted \in Nat /\ n \in Nat
      /\ s.freq \in Int /\ s.last \in Nat
  BY <1>1, SlotFields
<1>3. /\ t \in Slot /\ t.active = s.active /\ t.dir = s.dir /\ t.freq = s.freq
      /\ t.last = b.time /\ t.ctr = b.ctr /\ t.accepted = s.accepted + 1
      /\ t.data = IF fits THEN Append(s.data, c) ELSE s.data
      /\ t.len = IF fits THEN s.len + b.len ELSE s.len
  BY Zenon, <1>1, AcceptFields
<1>4. /\ c \in Burst /\ c.at = s.len
      /\ c.dir = b.dir /\ c.freq = b.freq /\ c.time = b.time /\ c.ctr = b.ctr
      /\ c.cont = b.cont /\ c.ok = b.ok /\ c.len = b.len
  <2>1. s.len \in Int
    BY <1>2
  <2> QED BY <2>1, BurstAt, Zenon
<1>5. /\ s.dir = b.dir /\ Distance(s.freq, b.freq) <= Tolerance
      /\ b.time >= s.last /\ b.time - s.last <= Window /\ (s.ctr + 1) % CtrMod = b.ctr
  BY Zenon DEF Matches
<1>6. b.cont \in BOOLEAN /\ b.freq \in Int /\ b.time \in Nat
  BY Zenon, BurstFields
<1> HIDE DEF t, c
<1>7. CASE fits
  <2> DEFINE e == Append(s.data, c)
  <2>1. /\ t.data = e /\ t.len = s.len + c.len /\ Len(e) = n + 1 /\ e[n + 1] = c
        /\ e \in Seq(Burst) /\ \A k \in 1 .. n : e[k] = s.data[k]
    BY <1>2, <1>3, <1>4, <1>7, AppendProperties
  <2>2. Packed(e, s.len + c.len)
    BY Zenon, <1>1, <1>2, <1>4, PackedMore
  <2>3. ASSUME s.accepted = n
        PROVE  (b.cont => Goes(e)) /\ (~b.cont => Ends(e))
    <3>0. /\ Goes(s.data) /\ s.dir = s.data[1].dir /\ s.freq = s.data[1].freq
          /\ s.ctr = s.data[n].ctr /\ s.last = s.data[n].time
      BY Zenon, <1>1, <2>3
    <3>1. b.ctr = n % CtrMod
      <4>1. n \in 1 .. n /\ n - 1 \in Nat /\ (n - 1) + 1 = n
        BY <1>1, <1>2
      <4>2. s.ctr = (n - 1) % CtrMod
        BY Zenon, <3>0, <4>1 DEF Goes, Linked
      <4>3. (((n - 1) % CtrMod) + 1) % CtrMod = ((n - 1) + 1) % CtrMod
        BY Zenon, <4>1, NextCtr
      <4> QED BY Zenon, <1>5, <4>1, <4>2, <4>3
    <3>2. Distance(c.freq, s.data[1].freq) <= Tolerance
      BY Zenon, <1>2, <1>4, <1>5, <1>6, <3>0, DistanceFacts
    <3>3. c.time - s.data[n].time \in 0 .. Window
      <4>1. c.time = b.time /\ s.data[n].time = s.last
        BY Zenon, <1>4, <3>0
      <4>2. b.time - s.last \in 0 .. Window
        BY SMTT(40), <1>2, <1>5, <1>6, IdaAssumption
      <4> QED BY Zenon, <4>1, <4>2
    <3>4. n > 0 /\ c.ctr = n % CtrMod /\ c.dir = s.data[1].dir
      <4>1. n > 0
        BY <1>1, <1>2
      <4>2. c.ctr = n % CtrMod /\ c.dir = s.data[1].dir
        BY <1>4, <1>5, <3>0, <3>1, Zenon
      <4> QED BY Zenon, <4>1, <4>2
    <3>5. c.ok /\ (c.cont <=> b.cont)
      BY Zenon, <1>4
    <3>6. (c.cont => Goes(e)) /\ (~c.cont => Ends(e))
      BY Zenon, <1>2, <1>4, <3>0, <3>2, <3>3, <3>4, <3>5, LinkMore
    <3> QED BY Zenon, <3>5, <3>6
  <2> HIDE DEF e
  <2>4. e[1] = s.data[1] /\ n + 1 \in 1 .. s.accepted + 1
    BY <1>1, <1>2, <2>1
  <2>5. ASSUME b.cont PROVE SlotInv(t)
    <3>1. s.accepted + 1 = n + 1 => Goes(e)
      BY <1>2, <2>3, <2>5
    <3>2. s.accepted + 1 = n + 1 =>
            /\ t.dir = e[1].dir /\ t.freq = e[1].freq
            /\ t.ctr = e[n + 1].ctr /\ t.last = e[n + 1].time
      <4>1. s.accepted + 1 = n + 1 => s.accepted = n
        BY <1>2
      <4>2. s.accepted = n => s.dir = s.data[1].dir /\ s.freq = s.data[1].freq
        BY Zenon, <1>1
      <4>3. t.dir = s.dir /\ t.freq = s.freq /\ t.ctr = c.ctr /\ t.last = c.time
        BY <1>3, <1>4, Zenon
      <4> QED BY Zenon, <2>1, <2>4, <4>1, <4>2, <4>3
    <3> QED BY Zenon, <1>3, <2>1, <2>2, <2>4, <3>1, <3>2 DEF SlotInv
  <2>6. ASSUME ~b.cont PROVE MessageInv([data |-> t.data, accepted |-> t.accepted])
    <3>1. s.accepted + 1 = n + 1 => Ends(e)
      BY <1>2, <2>3, <2>6
    <3> QED BY Zenon, <1>3, <2>1, <3>1 DEF MessageInv
  <2> QED BY Zenon, <2>5, <2>6 DEF t
<1>8. CASE ~fits
  <2>1. t.data = s.data /\ t.len = s.len /\ t.accepted # Len(t.data) /\ Len(t.data) \in 1 .. t.accepted
    BY <1>1, <1>2, <1>3, <1>8
  <2>2. SlotInv(t)
    BY Zenon, <1>1, <1>3, <2>1 DEF SlotInv
  <2>3. MessageInv([data |-> t.data, accepted |-> t.accepted])
    BY Zenon, <1>2, <2>1 DEF MessageInv
  <2> QED BY Zenon, <2>2, <2>3 DEF t
<1> QED BY Zenon, <1>7, <1>8

LEMMA EmptySlotOK == SlotInv(EmptySlot)
<1>1. <<>> \in Seq(Burst) /\ Len(<<>>) = 0
  OBVIOUS
<1>2. EmptySlot \in Slot
  BY <1>1, IdaAssumption DEF EmptySlot, Slot
<1>3. Packed(EmptySlot.data, EmptySlot.len)
  BY <1>1 DEF EmptySlot, Packed
<1> QED BY Zenon, <1>2, <1>3 DEF SlotInv, EmptySlot

LEMMA OneBurst ==
  ASSUME NEW b \in Burst, b.ok, b.ctr = 0
  PROVE  LET d == <<b>>
         IN  /\ d \in Seq(Burst) /\ Len(d) = 1 /\ d[1] = b
             /\ b.cont => Goes(d)
             /\ ~b.cont => Ends(d)
             /\ b.at = 0 => Packed(d, b.len)
<1> DEFINE d == <<b>>
<1>1. d \in Seq(Burst) /\ Len(d) = 1 /\ d[1] = b /\ d # <<>>
  OBVIOUS
<1> HIDE DEF d
<1>2. \A k \in 1 .. Len(d) : k = 1
  BY <1>1
<1>3. 1 - 1 = 0 /\ 0 % CtrMod = 0 /\ ~(1 > 1) /\ ~(1 < 1)
  BY IdaAssumption
<1>4. Distance(b.freq, b.freq) <= Tolerance
  <2>1. b.freq \in Int /\ Tolerance \in Nat
    BY Zenon, BurstFields, IdaAssumption
  <2>2. Distance(b.freq, b.freq) = 0
    BY <2>1 DEF Distance
  <2> QED BY <2>1, <2>2
<1>5. Linked(d)
  <2>1. d[1].ok /\ d[1].ctr = (1 - 1) % CtrMod /\ Distance(d[1].freq, d[1].freq) <= Tolerance
    BY Zenon, <1>1, <1>3, <1>4
  <2>2. ~(1 > 1)
    OBVIOUS
  <2> QED BY Zenon, <1>2, <2>1, <2>2 DEF Linked
<1>6. b.cont => Goes(d)
  BY Zenon, <1>1, <1>2, <1>5 DEF Goes
<1>7. ~b.cont => Ends(d)
  BY Zenon, <1>1, <1>2, <1>3, <1>5 DEF Ends
<1>8. b.at = 0 => Packed(d, b.len)
  <2> SUFFICES ASSUME b.at = 0 PROVE Packed(d, b.len)
    OBVIOUS
  <2>1. b.len = 0 + b.len
    BY BurstFields
  <2> QED BY Zenon, <1>1, <1>2, <2>1 DEF Packed
<1> QED BY Zenon, <1>1, <1>6, <1>7, <1>8 DEF d

LEMMA StartedOK ==
  ASSUME NEW b \in Burst, b.ok, b.cont, b.ctr = 0
  PROVE  SlotInv(Started(b))
<1> DEFINE c == [b EXCEPT !.at = 0]
           s == Started(b)
<1>1. /\ c \in Burst /\ c.at = 0 /\ c.dir = b.dir /\ c.freq = b.freq /\ c.time = b.time
      /\ c.ctr = b.ctr /\ c.len = b.len
  BY BurstAt
<1>2. c.ok /\ c.cont
  BY BurstAt
<1> HIDE DEF c
<1>3. <<c>> \in Seq(Burst) /\ Len(<<c>>) = 1 /\ <<c>>[1] = c /\ Goes(<<c>>) /\ Packed(<<c>>, b.len)
  BY Zenon, <1>1, <1>2, OneBurst
<1>4. /\ s = [active |-> TRUE, dir |-> b.dir, freq |-> b.freq, last |-> b.time,
              ctr |-> b.ctr, data |-> <<c>>, len |-> b.len, accepted |-> 1]
  BY Zenon DEF Started, c
<1>5. b.len \in 0 .. DataCap /\ b.freq \in Int /\ b.time \in Nat /\ b.dir \in {"DL", "UL"}
      /\ b.ctr \in 0 .. CtrMod - 1
  BY BurstFields, IdaAssumption
<1> DEFINE d == <<c>>
<1> HIDE DEF s, d
<1>6. s \in Slot
  BY Zenon, <1>3, <1>4, <1>5 DEF Slot, d
<1>7. s.data = d /\ s.len = b.len /\ s.accepted = 1 /\ s.dir = c.dir /\ s.freq = c.freq
      /\ s.ctr = c.ctr /\ s.last = c.time
  BY Zenon, <1>1, <1>4 DEF d
<1>8. d \in Seq(Burst) /\ Len(d) = 1 /\ d[1] = c /\ Goes(d) /\ Packed(d, b.len)
  BY Zenon, <1>3 DEF d
<1>9. Len(s.data) \in 1 .. s.accepted
  BY <1>7, <1>8
<1> QED BY Zenon, <1>6, <1>7, <1>8, <1>9 DEF SlotInv, s

LEMMA SlotsPut ==
  ASSUME NEW ctx, SlotsOK(ctx), NEW i, NEW s, SlotInv(s)
  PROVE  SlotsOK([ctx EXCEPT ![i] = s])
  BY Zenon DEF SlotsOK, SlotInv

LEMMA NoMessageOK == MessageInv(NoMessage)
  BY EmptySeq DEF MessageInv, NoMessage, Ends, Linked

(* ida_reassemble keeps the slots and calls back with what can be one      *)
(* message.                                                                *)
LEMMA ReassembleOK ==
  ASSUME NEW ctx, SlotsOK(ctx), NEW b \in Burst
  PROVE  SlotsOK(ida_reassemble(ctx, b).ctx) /\ MessageInv(ida_reassemble(ctx, b).msg)
<1> DEFINE matching == {i \in DOMAIN ctx : Matches(ctx[i], b)}
           m == Min(matching)
           s == Accept(ctx[m], b)
           r == ida_reassemble(ctx, b)
<1>1. CASE ~b.ok
  <2>1. r = [ctx |-> ctx, msg |-> NoMessage]
    BY <1>1, ZenonT(30) DEF ida_reassemble
  <2> QED BY <2>1, NoMessageOK
<1>2. CASE b.ok /\ matching # {}
  <2>1. r = [ctx |-> [ctx EXCEPT ![m] = IF b.cont THEN s ELSE EmptySlot],
             msg |-> IF b.cont THEN NoMessage ELSE [data |-> s.data, accepted |-> s.accepted]]
    BY <1>2, ZenonT(30) DEF ida_reassemble
  <2>2. m \in matching
    <3>1. matching \in SUBSET Nat
      BY DEF SlotsOK
    <3> QED BY Zenon, <1>2, <3>1, LeastNat
  <2>3. SlotInv(ctx[m]) /\ Matches(ctx[m], b)
    BY Zenon, <2>2 DEF SlotsOK
  <2> HIDE DEF m
  <2>4. /\ b.cont => SlotInv(s)
        /\ ~b.cont => MessageInv([data |-> s.data, accepted |-> s.accepted])
    BY Zenon, <1>2, <2>3, AcceptOK
  <2> HIDE DEF s, r
  <2>5. CASE b.cont
    <3>1. r.ctx = [ctx EXCEPT ![m] = s] /\ r.msg = NoMessage
      BY Zenon, <2>1, <2>5
    <3> QED BY <2>4, <2>5, <3>1, SlotsPut, NoMessageOK DEF r
  <2>6. CASE ~b.cont
    <3>1. r.ctx = [ctx EXCEPT ![m] = EmptySlot] /\ r.msg = [data |-> s.data, accepted |-> s.accepted]
      BY Zenon, <2>1, <2>6
    <3> QED BY <2>4, <2>6, <3>1, SlotsPut, EmptySlotOK DEF r
  <2> QED BY Zenon, <2>5, <2>6
<1>3. CASE b.ok /\ matching = {} /\ b.ctr = 0 /\ ~b.cont
  <2>1. r = [ctx |-> ctx, msg |-> [data |-> <<b>>, accepted |-> 1]]
    BY <1>3, ZenonT(30) DEF ida_reassemble
  <2>2. MessageInv([data |-> <<b>>, accepted |-> 1])
    BY Zenon, <1>3, OneBurst DEF MessageInv
  <2> QED BY <2>1, <2>2
<1>4. CASE b.ok /\ matching = {} /\ b.ctr = 0 /\ b.cont
  <2>1. r = [ctx |-> [ctx EXCEPT ![SlotFor(ctx)] = Started(b)], msg |-> NoMessage]
    BY <1>4, ZenonT(30) DEF ida_reassemble
  <2>2. SlotInv(Started(b))
    BY Zenon, <1>4, StartedOK
  <2>3. SlotsOK([ctx EXCEPT ![SlotFor(ctx)] = Started(b)])
    BY Zenon, <2>2, SlotsPut
  <2> QED BY <2>1, <2>3, NoMessageOK
<1>5. CASE b.ok /\ matching = {} /\ b.ctr # 0
  <2>1. r = [ctx |-> ctx, msg |-> NoMessage]
    BY <1>5, ZenonT(30) DEF ida_reassemble
  <2> QED BY <2>1, NoMessageOK
<1> QED BY Zenon, <1>1, <1>2, <1>3, <1>4, <1>5

LEMMA FlushOK ==
  ASSUME NEW ctx, SlotsOK(ctx), NEW now
  PROVE  SlotsOK(ida_reassemble_flush(ctx, now))
<1> DEFINE f == ida_reassemble_flush(ctx, now)
<1>1. f = [i \in 1 .. NSlots |-> IF ctx[i].active /\ now > ctx[i].last + Window
                               THEN EmptySlot ELSE ctx[i]]
  BY Zenon DEF ida_reassemble_flush, SlotsOK
<1>2. \A i \in 1 .. NSlots : f[i] = EmptySlot \/ f[i] = ctx[i]
  BY Zenon, <1>1
<1> HIDE DEF f
<1>3. \A i \in 1 .. NSlots : SlotInv(f[i])
  BY Zenon, <1>2, EmptySlotOK DEF SlotsOK
<1>4. f \in [1 .. NSlots -> Slot]
  BY Zenon, <1>1, <1>3 DEF SlotInv
<1> QED BY Zenon, <1>3, <1>4 DEF SlotsOK, f

LEMMA WithoutOK ==
  ASSUME NEW S, NEW q \in Seq(S), NEW i \in 1 .. Len(q)
  PROVE  Without(q, i) \in Seq(S)
<1>1. Len(q) \in Nat /\ \A k \in 1 .. Len(q) : q[k] \in S
  BY Zenon, LenProperties, ElementOfSeq
<1>2. SubSeq(q, 1, i - 1) \in Seq(S)
  BY <1>1, SubSeqProperties
<1>3. SubSeq(q, i + 1, Len(q)) \in Seq(S)
  BY <1>1, SubSeqProperties
<1> QED BY Zenon, <1>2, <1>3, ConcatProperties DEF Without

LEMMA PInit == Init => PInv
<1> SUFFICES ASSUME Init PROVE PInv
  OBVIOUS
<1>1. faulty \in BOOLEAN /\ clock \in 0 .. MaxTime
  BY IdaAssumption DEF Init
<1>2. sender \in [Channels -> [sent : 0 .. MaxParts - 1, began : Int, last : Int, total : Int]]
  BY IdaAssumption DEF Init
<1>3. SlotsOK(slots)
  BY Zenon, EmptySlotOK DEF Init, SlotsOK, SlotInv
<1>4. pending \in Seq(Burst) /\ got = <<>> /\ MessageInv(out)
  BY NoMessageOK DEF Init
<1> QED BY Zenon, <1>1, <1>2, <1>3, <1>4 DEF PInv

LEMMA SendOK ==
  ASSUME PInv, NEW c \in Channels, Send(c)
  PROVE  PInv'
<1>1. PICK more \in BOOLEAN, len \in Lengths, d \in Drift, began \in Int, total \in Int, part \in Int :
        /\ more => sender[c].sent + 1 < MaxParts
        /\ pending' = Append(pending,
             [chan |-> c, began |-> began, part |-> part, total |-> total, at |-> 0,
              dir |-> c.dir, freq |-> c.freq + d, time |-> clock,
              ctr |-> sender[c].sent % CtrMod, cont |-> more, len |-> len, ok |-> TRUE])
        /\ sender' = [sender EXCEPT ![c] =
             [sent |-> IF more THEN sender[c].sent + 1 ELSE 0,
              began |-> began, last |-> clock, total |-> total]]
  <2>1. PICK more \in BOOLEAN, len \in Lengths, d \in Drift :
          LET n == sender[c].sent
              began == CASE faulty -> 0 [] ~faulty /\ n = 0 -> clock [] OTHER -> sender[c].began
              total == CASE faulty -> 0 [] ~faulty /\ n = 0 -> len [] OTHER -> len + sender[c].total
          IN  /\ more => n + 1 < MaxParts
              /\ pending' = Append(pending,
                   [chan |-> c, began |-> began, part |-> IF faulty THEN 0 ELSE n + 1,
                    total |-> total, at |-> 0, dir |-> c.dir, freq |-> c.freq + d, time |-> clock,
                    ctr |-> n % CtrMod, cont |-> more, len |-> len, ok |-> TRUE])
              /\ sender' = [sender EXCEPT ![c] =
                   [sent |-> IF more THEN n + 1 ELSE 0,
                    began |-> began, last |-> clock, total |-> total]]
    BY Zenon DEF Send
  <2> DEFINE n == sender[c].sent
             began == CASE faulty -> 0 [] ~faulty /\ n = 0 -> clock [] OTHER -> sender[c].began
             total == CASE faulty -> 0 [] ~faulty /\ n = 0 -> len [] OTHER -> len + sender[c].total
  <2>2. n \in Int /\ clock \in Int /\ sender[c].began \in Int /\ sender[c].total \in Int /\ len \in Int
    BY IdaAssumption, SMTT(40) DEF PInv
  <2>3. began \in Int /\ total \in Int /\ (IF faulty THEN 0 ELSE n + 1) \in Int
    BY <2>2
  <2> HIDE DEF began, total
  <2> QED BY <2>1, <2>3, ZenonT(60) DEF began, total
<1> DEFINE n == sender[c].sent
           b == [chan |-> c, began |-> began, part |-> part, total |-> total, at |-> 0,
                 dir |-> c.dir, freq |-> c.freq + d, time |-> clock,
                 ctr |-> n % CtrMod, cont |-> more, len |-> len, ok |-> TRUE]
           a == [sent |-> IF more THEN n + 1 ELSE 0, began |-> began, last |-> clock, total |-> total]
<1>2. n \in 0 .. MaxParts - 1 /\ clock \in Nat /\ MaxParts \in Nat \ {0}
  BY SMTT(40), IdaAssumption DEF PInv
<1>3. c.dir \in {"DL", "UL"} /\ c.freq + d \in Int
  BY IdaAssumption
<1>4. n % CtrMod \in 0 .. CtrMod - 1
  BY <1>2, NextCtr
<1>5. b \in Burst
  BY <1>1, <1>2, <1>3, <1>4 DEF Burst
<1>6. a \in [sent : 0 .. MaxParts - 1, began : Int, last : Int, total : Int]
  BY SMTT(40), <1>1, <1>2
<1> HIDE DEF a, b
<1>7. pending' \in Seq(Burst)
  BY <1>1, <1>5 DEF PInv, b
<1>8. sender' \in [Channels -> [sent : 0 .. MaxParts - 1, began : Int, last : Int, total : Int]]
  BY Zenon, <1>1, <1>6 DEF PInv, a
<1>9. UNCHANGED <<faulty, clock, slots>> /\ got' = <<>> /\ out' = NoMessage
  BY Zenon DEF Send, Silent
<1> QED BY Zenon, <1>7, <1>8, <1>9, NoMessageOK DEF PInv

LEMMA ProcessOK ==
  ASSUME PInv, Process
  PROVE  PInv'
<1>1. PICK i \in DOMAIN pending, ok \in BOOLEAN :
        LET b == [pending[i] EXCEPT !.ok = ok]
            r == ida_reassemble(slots, b)
        IN  /\ slots' = ida_reassemble_flush(r.ctx, b.time)
            /\ out' = r.msg
            /\ got' = <<b>>
            /\ pending' = Without(pending, i)
  BY Zenon DEF Process
<1> DEFINE b == [pending[i] EXCEPT !.ok = ok]
           r == ida_reassemble(slots, b)
<1>2. pending \in Seq(Burst) /\ i \in 1 .. Len(pending) /\ pending[i] \in Burst
  BY Zenon, LenProperties, ElementOfSeq DEF PInv
<1>3. b \in Burst
  BY Zenon, <1>2 DEF Burst
<1> HIDE DEF b
<1>4. SlotsOK(r.ctx) /\ MessageInv(r.msg)
  BY Zenon, <1>3, ReassembleOK DEF PInv
<1> HIDE DEF r
<1>5. SlotsOK(ida_reassemble_flush(r.ctx, b.time))
  BY Zenon, <1>4, FlushOK
<1>6. pending' \in Seq(Burst)
  BY Zenon, <1>1, <1>2, WithoutOK
<1>7. /\ slots' = ida_reassemble_flush(r.ctx, b.time) /\ out' = r.msg /\ got' = <<b>>
      /\ UNCHANGED <<faulty, clock, sender>>
  BY Zenon, <1>1 DEF Process, b, r
<1> QED BY Zenon, <1>3, <1>4, <1>5, <1>6, <1>7 DEF PInv

LEMMA PNext == PInv /\ [Next]_vars => PInv'
<1> SUFFICES ASSUME PInv, [Next]_vars PROVE PInv'
  OBVIOUS
<1>1. CASE Tick
  <2>1. /\ clock < MaxTime /\ clock' = clock + 1 /\ UNCHANGED <<faulty, sender, pending, slots>>
        /\ got' = <<>> /\ out' = NoMessage
    BY Zenon, <1>1 DEF Tick, Silent
  <2>2. clock' \in 0 .. MaxTime
    BY <2>1, IdaAssumption DEF PInv
  <2> QED BY Zenon, <2>1, <2>2, NoMessageOK DEF PInv
<1>2. CASE Lose
  <2>1. PICK i \in DOMAIN pending : pending' = Without(pending, i)
    BY Zenon, <1>2 DEF Lose
  <2>2. pending' \in Seq(Burst)
    BY Zenon, <2>1, WithoutOK, LenProperties DEF PInv
  <2>3. UNCHANGED <<faulty, clock, sender, slots>> /\ got' = <<>> /\ out' = NoMessage
    BY Zenon, <1>2 DEF Lose, Silent
  <2> QED BY Zenon, <2>2, <2>3, NoMessageOK DEF PInv
<1>3. CASE UNCHANGED vars
  BY Zenon, <1>3 DEF vars, PInv
<1> QED BY Zenon, <1>1, <1>2, <1>3, SendOK, ProcessOK DEF Next

(* Whatever is lost, damaged or overtakes, the slots stay within their     *)
(* arrays, and a callback gets bursts that can be one message.             *)
THEOREM PlausibleHolds == Spec => []OnlyPlausibleMessages
<1>1. PInv => OnlyPlausibleMessages
  <2> SUFFICES ASSUME PInv PROVE OnlyPlausibleMessages
    OBVIOUS
  <2>1. ASSUME NEW i \in 1 .. NSlots PROVE SlotOK(slots[i])
    <3>1. SlotInv(slots[i]) /\ slots[i] \in Slot
      BY Zenon DEF PInv, SlotsOK, SlotInv
    <3>2. DOMAIN slots[i].data = 1 .. Len(slots[i].data)
      BY Zenon, <3>1, SlotFields, LenProperties
    <3> QED BY Zenon, <3>1, <3>2, SlotFields DEF SlotInv, SlotOK, Packed
  <2>2. TypeOK
    <3>1. \A c \in Channels : sender[c].sent \in 0 .. MaxParts - 1
      BY Zenon DEF PInv
    <3>2. Len(got) <= 1
      <4>1. CASE got = <<>>
        BY <4>1
      <4>2. ASSUME NEW b, got = <<b>> PROVE Len(got) <= 1
        BY <4>2
      <4> QED BY Zenon, <4>1, <4>2 DEF PInv
    <3> QED BY Zenon, <2>1, <3>1, <3>2 DEF TypeOK, PInv
  <2>3. PlausibleMessages
    <3> SUFFICES ASSUME out.accepted = Len(out.data), NEW k \in DOMAIN out.data
                 PROVE  LET b == out.data[k]
                        IN  /\ b.ok
                            /\ b.dir = out.data[1].dir
                            /\ Distance(b.freq, out.data[1].freq) <= Tolerance
                            /\ b.ctr = (k - 1) % CtrMod
                            /\ b.cont = (k < Len(out.data))
                            /\ k > 1 => b.time - out.data[k - 1].time \in 0 .. Window
      BY Zenon DEF PlausibleMessages
    <3>1. out.data \in Seq(Burst) /\ Ends(out.data) /\ k \in 1 .. Len(out.data)
      BY Zenon, LenProperties DEF PInv, MessageInv
    <3>2. out.data[k].cont \in BOOLEAN
      <4>1. out.data[k] \in Burst
        BY Zenon, <3>1, ElementOfSeq
      <4> QED BY Zenon, <4>1, BurstFields
    <3>3. out.data[k].cont <=> k < Len(out.data)
      BY Zenon, <3>1 DEF Ends
    <3>4. out.data[k].cont = (k < Len(out.data))
      <4>1. (k < Len(out.data)) \in BOOLEAN
        BY <3>1
      <4> QED BY <3>2, <3>3, <4>1, Zenon
    <3> QED BY Zenon, <3>1, <3>4 DEF Ends, Linked
  <2> QED BY Zenon, <2>2, <2>3 DEF OnlyPlausibleMessages
<1> QED BY <1>1, PInit, PNext, PTL DEF Spec

-----------------------------------------------------------------------------
(***************************************************************************)
(* Without faults.  recv[c] is the state of channel c's sender after the   *)
(* last of its bursts that was processed; it is no variable of the model,  *)
(* the invariant says that there is one.                                   *)
(***************************************************************************)
State == [sent : Nat, began : Int, last : Int, total : Int]

After(b) ==
  [sent |-> IF b.cont THEN b.part ELSE 0, began |-> b.began, last |-> b.time, total |-> b.total]

(* b is what the sender sends next in state st.                            *)
Continues(st, b) ==
  /\ b.part = st.sent + 1 /\ b.ctr = st.sent % CtrMod
  /\ st.sent = 0 => b.total = b.len
  /\ st.sent > 0 => /\ b.began = st.began /\ b.total = st.total + b.len
                    /\ b.time - st.last \in 0 .. Window

FromChannel(b) ==
  b.ok /\ b.dir = b.chan.dir /\ \E d \in Drift : b.freq = b.chan.freq + d

ChanOf(s) == s.data[1].chan

(* The slot holds what channel c has sent of its message in state st.      *)
Holds(s, c, st) ==
  /\ s.dir = c.dir /\ \E d \in Drift : s.freq = c.freq + d
  /\ s.last = st.last /\ s.ctr = (st.sent - 1) % CtrMod
  /\ st.total <= DataCap =>
       /\ s.len = st.total /\ Len(s.data) = st.sent
       /\ \A k \in 1 .. st.sent : /\ s.data[k].chan = c /\ s.data[k].began = st.began
                                  /\ s.data[k].part = k

(* The slots in use are those of the channels with a message in progress.  *)
Active(ctx) == {i \in 1 .. NSlots : ctx[i].active}

SlotsAgree(ctx, recv) ==
  /\ \A i \in Active(ctx) : /\ ChanOf(ctx[i]) \in Channels
                            /\ recv[ChanOf(ctx[i])].sent > 0
                            /\ Holds(ctx[i], ChanOf(ctx[i]), recv[ChanOf(ctx[i])])
  /\ \A i, j \in Active(ctx) : ChanOf(ctx[i]) = ChanOf(ctx[j]) => i = j
  /\ \A c \in Channels : recv[c].sent > 0 => \E i \in Active(ctx) : ChanOf(ctx[i]) = c

RightMessage(b, m) ==
  IF b.cont THEN m = NoMessage
  ELSE /\ Len(m.data) = b.part
       /\ \A k \in 1 .. b.part :
            m.data[k].chan = b.chan /\ m.data[k].began = b.began /\ m.data[k].part = k

LEMMA AfterOK ==
  ASSUME NEW b \in Burst, b.part \in Nat
  PROVE  /\ After(b) \in State /\ After(b).began = b.began /\ After(b).last = b.time
         /\ After(b).total = b.total
         /\ b.cont => After(b).sent = b.part
         /\ ~b.cont => After(b).sent = 0
<1>1. b.began \in Int /\ b.time \in Int /\ b.total \in Int
  BY BurstFields
<1> QED BY Zenon, <1>1 DEF After, State

(* A burst matches the slot of its own channel, and no other.              *)
LEMMA MatchesItsOwn ==
  ASSUME NEW s \in Slot, s.active, NEW c \in Channels, NEW st \in State, st.sent > 0,
         Holds(s, c, st), NEW b \in Burst, FromChannel(b),
         b.chan = c => Continues(st, b)
  PROVE  Matches(s, b) <=> b.chan = c
<1>1. PICK x \in Drift : s.freq = c.freq + x
  BY Zenon DEF Holds
<1>2. PICK y \in Drift : b.freq = b.chan.freq + y
  BY Zenon DEF FromChannel
<1>3. b.chan \in Channels /\ s.dir = c.dir /\ b.dir = b.chan.dir
  BY Zenon, BurstFields DEF Holds, FromChannel
<1>4. c.dir = b.chan.dir => (Distance(s.freq, b.freq) <= Tolerance <=> c = b.chan)
  BY <1>1, <1>2, <1>3, ChannelsAssumption
<1>5. ASSUME Matches(s, b) PROVE b.chan = c
  BY Zenon, <1>3, <1>4, <1>5 DEF Matches
<1>6. ASSUME b.chan = c PROVE Matches(s, b)
  <2>1. s.dir = b.dir /\ Distance(s.freq, b.freq) <= Tolerance
    BY Zenon, <1>3, <1>4, <1>6
  <2>2. /\ b.ctr = st.sent % CtrMod /\ b.time - st.last \in 0 .. Window
        /\ s.last = st.last /\ s.ctr = (st.sent - 1) % CtrMod
    BY Zenon, <1>6 DEF Continues, Holds
  <2>3. b.time >= s.last /\ b.time - s.last <= Window
    <3>1. b.time \in Nat /\ s.last \in Nat /\ Window \in Nat
      BY Zenon, SlotFields, BurstFields, IdaAssumption
    <3> QED BY <2>2, <3>1
  <2>4. (s.ctr + 1) % CtrMod = b.ctr
    <3>1. st.sent - 1 \in Nat /\ (st.sent - 1) + 1 = st.sent
      BY DEF State
    <3>2. (((st.sent - 1) % CtrMod) + 1) % CtrMod = ((st.sent - 1) + 1) % CtrMod
      BY Zenon, <3>1, NextCtr
    <3> QED BY Zenon, <2>2, <3>1, <3>2
  <2> QED BY Zenon, <2>1, <2>3, <2>4 DEF Matches
<1> QED BY Zenon, <1>5, <1>6

(* The next burst in the slot of its channel.                              *)
LEMMA AcceptWhole ==
  ASSUME NEW s, SlotInv(s), s.active, NEW st \in State, st.sent > 0,
         NEW b \in Burst, FromChannel(b), Holds(s, b.chan, st), ChanOf(s) = b.chan,
         Continues(st, b)
  PROVE  LET t == Accept(s, b)
         IN  /\ ChanOf(t) = b.chan
             /\ b.cont => Holds(t, b.chan, After(b))
             /\ b.total <= DataCap =>
                  /\ Len(t.data) = b.part
                  /\ \A k \in 1 .. b.part : /\ t.data[k].chan = b.chan
                                            /\ t.data[k].began = b.began
                                            /\ t.data[k].part = k
<1> DEFINE t == Accept(s, b)
           c == [b EXCEPT !.at = s.len]
           fits == s.len + b.len <= DataCap
           n == Len(s.data)
<1>1. /\ s \in Slot /\ s.data \in Seq(Burst) /\ n \in Nat /\ n > 0 /\ s.len \in Int
  <2>1. s \in Slot /\ n \in 1 .. s.accepted
    BY Zenon DEF SlotInv
  <2>2. s.data \in Seq(Burst) /\ n \in Nat /\ s.len \in Int
    BY <2>1, SlotFields
  <2> QED BY <2>1, <2>2
<1>2. /\ t.dir = s.dir /\ t.freq = s.freq /\ t.last = b.time /\ t.ctr = b.ctr
      /\ t.data = (IF fits THEN Append(s.data, c) ELSE s.data)
      /\ t.len = (IF fits THEN s.len + b.len ELSE s.len)
  BY Zenon, <1>1, AcceptFields
<1>3. c \in Burst /\ c.chan = b.chan /\ c.began = b.began /\ c.part = b.part
  BY Zenon, <1>1, BurstAt
<1> HIDE DEF t, c
<1>4. /\ Len(Append(s.data, c)) = n + 1 /\ Append(s.data, c)[n + 1] = c
      /\ \A k \in 1 .. n : Append(s.data, c)[k] = s.data[k]
  BY <1>1, <1>3, AppendProperties
<1>5. ChanOf(t) = b.chan
  <2>1. t.data[1] = s.data[1]
    BY <1>1, <1>2, <1>4
  <2> QED BY Zenon, <2>1 DEF ChanOf
<1>6. /\ st.sent \in Nat /\ st.total \in Int /\ b.len \in Nat /\ b.total \in Int /\ DataCap \in Nat
      /\ b.part = st.sent + 1 /\ b.ctr = st.sent % CtrMod /\ b.part \in Nat
      /\ b.began = st.began /\ b.total = st.total + b.len
  <2>1. st.sent \in Nat /\ st.total \in Int
    BY Zenon DEF State
  <2> QED BY <2>1, BurstFields, IdaAssumption DEF Continues
<1>7. ASSUME b.total <= DataCap
      PROVE  /\ t.len = b.total /\ Len(t.data) = b.part
             /\ \A k \in 1 .. b.part : /\ t.data[k].chan = b.chan
                                       /\ t.data[k].began = b.began
                                       /\ t.data[k].part = k
  <2>1. st.total <= DataCap
    BY <1>6, <1>7
  <2>2. /\ s.len = st.total /\ n = st.sent
        /\ \A k \in 1 .. st.sent : /\ s.data[k].chan = b.chan /\ s.data[k].began = st.began
                                   /\ s.data[k].part = k
    BY Zenon, <2>1 DEF Holds
  <2>3. fits
    BY Zenon, <1>6, <1>7, <2>2
  <2>4. t.data = Append(s.data, c) /\ t.len = b.total
    BY Zenon, <1>2, <1>6, <2>2, <2>3
  <2>5. Len(t.data) = b.part
    BY Zenon, <1>4, <1>6, <2>2, <2>4
  <2>6. ASSUME NEW k \in 1 .. b.part
        PROVE  t.data[k].chan = b.chan /\ t.data[k].began = b.began /\ t.data[k].part = k
    <3>1. k = n + 1 \/ k \in 1 .. n
      BY <1>1, <1>6, <2>2
    <3>2. CASE k = n + 1
      <4>1. t.data[k] = c /\ k = b.part
        BY Zenon, <1>4, <1>6, <2>2, <2>4, <3>2
      <4> QED BY Zenon, <1>3, <4>1
    <3>3. CASE k \in 1 .. n
      <4>1. t.data[k] = s.data[k]
        BY Zenon, <1>4, <2>4, <3>3
      <4> QED BY Zenon, <1>6, <2>2, <3>3, <4>1
    <3> QED BY Zenon, <3>1, <3>2, <3>3
  <2> QED BY Zenon, <2>4, <2>5, <2>6
<1>8. ASSUME b.cont PROVE Holds(t, b.chan, After(b))
  <2>1. /\ After(b).sent = b.part /\ After(b).total = b.total /\ After(b).last = b.time
        /\ After(b).began = b.began
    BY Zenon, <1>6, <1>8, AfterOK
  <2>2. t.dir = b.chan.dir /\ \E d \in Drift : t.freq = b.chan.freq + d
    BY Zenon, <1>2 DEF Holds
  <2>3. b.part - 1 = st.sent
    BY <1>6
  <2>4. t.ctr = (b.part - 1) % CtrMod /\ t.last = b.time
    BY Zenon, <1>2, <1>6, <2>3
  <2> QED BY Zenon, <1>7, <2>1, <2>2, <2>4 DEF Holds
<1> QED BY Zenon, <1>5, <1>7, <1>8 DEF t

LEMMA StartedWhole ==
  ASSUME NEW st \in State, st.sent = 0, NEW b \in Burst, FromChannel(b), b.cont,
         Continues(st, b)
  PROVE  ChanOf(Started(b)) = b.chan /\ Holds(Started(b), b.chan, After(b))
<1> DEFINE c == [b EXCEPT !.at = 0]
           s == Started(b)
<1>1. c \in Burst /\ c.chan = b.chan /\ c.began = b.began /\ c.part = b.part
  BY BurstAt
<1>2. s = [active |-> TRUE, dir |-> b.dir, freq |-> b.freq, last |-> b.time,
           ctr |-> b.ctr, data |-> <<c>>, len |-> b.len, accepted |-> 1]
  BY Zenon DEF Started
<1> HIDE DEF c, s
<1>3. /\ s.dir = b.dir /\ s.freq = b.freq /\ s.last = b.time /\ s.ctr = b.ctr
      /\ s.data = <<c>> /\ s.len = b.len
  BY Zenon, <1>2
<1>4. Len(s.data) = 1 /\ s.data[1] = c
  BY <1>3
<1>5. b.part = 1 /\ b.total = b.len /\ b.ctr = (b.part - 1) % CtrMod
  BY DEF Continues
<1>6. /\ After(b).sent = 1 /\ After(b).total = b.total /\ After(b).last = b.time
      /\ After(b).began = b.began
  BY <1>5, AfterOK
<1>7. s.dir = b.chan.dir /\ \E d \in Drift : s.freq = b.chan.freq + d
  BY Zenon, <1>3 DEF FromChannel
<1>8. s.ctr = (After(b).sent - 1) % CtrMod
  BY Zenon, <1>3, <1>5, <1>6
<1>9. \A k \in 1 .. 1 : s.data[k].chan = b.chan /\ s.data[k].began = b.began /\ s.data[k].part = k
  BY <1>1, <1>4, <1>5
<1>10. Holds(s, b.chan, After(b))
  BY Zenon, <1>3, <1>4, <1>5, <1>6, <1>7, <1>8, <1>9 DEF Holds
<1> QED BY Zenon, <1>1, <1>4, <1>10 DEF ChanOf, s

(* A slot taken by, or going on with, a message of channel c.              *)
LEMMA SlotTaken ==
  ASSUME NEW ctx, SlotsOK(ctx), NEW recv \in [Channels -> State], SlotsAgree(ctx, recv),
         NEW i \in 1 .. NSlots, NEW s, s.active, NEW c \in Channels, ChanOf(s) = c,
         NEW st \in State, st.sent > 0, Holds(s, c, st),
         ctx[i].active => ChanOf(ctx[i]) = c,
         \A j \in Active(ctx) : ChanOf(ctx[j]) = c => j = i
  PROVE  SlotsAgree([ctx EXCEPT ![i] = s], [recv EXCEPT ![c] = st])
<1> DEFINE f == [ctx EXCEPT ![i] = s]
           g == [recv EXCEPT ![c] = st]
<1>1. f[i] = s /\ \A j \in 1 .. NSlots : j # i => f[j] = ctx[j]
  BY Zenon DEF SlotsOK
<1>2. g[c] = st /\ \A e \in Channels : e # c => g[e] = recv[e]
  OBVIOUS
<1> HIDE DEF f, g
<1>3. \A j \in 1 .. NSlots : j \in Active(f) <=> (j = i \/ j \in Active(ctx))
  BY Zenon, <1>1 DEF Active
<1>4. ASSUME NEW j \in Active(f)
      PROVE  /\ ChanOf(f[j]) \in Channels /\ g[ChanOf(f[j])].sent > 0
             /\ Holds(f[j], ChanOf(f[j]), g[ChanOf(f[j])])
  <2>0. j \in 1 .. NSlots
    BY Zenon DEF Active
  <2>1. CASE j = i
    BY Zenon, <1>1, <1>2, <2>1
  <2>2. CASE j # i
    <3>1. j \in Active(ctx) /\ f[j] = ctx[j]
      BY Zenon, <1>1, <1>3, <2>0, <2>2
    <3>2. ChanOf(ctx[j]) \in Channels /\ ChanOf(ctx[j]) # c
      BY Zenon, <2>2, <3>1 DEF SlotsAgree
    <3>3. g[ChanOf(ctx[j])] = recv[ChanOf(ctx[j])]
      BY Zenon, <1>2, <3>2
    <3> QED BY Zenon, <3>1, <3>3 DEF SlotsAgree
  <2> QED BY Zenon, <2>1, <2>2
<1>5. ASSUME NEW j \in Active(f), NEW k \in Active(f), ChanOf(f[j]) = ChanOf(f[k])
      PROVE  j = k
  <2>0. j \in 1 .. NSlots /\ k \in 1 .. NSlots
    BY Zenon DEF Active
  <2>1. \A l \in Active(ctx) : l # i => f[l] = ctx[l]
    BY Zenon, <1>1 DEF Active
  <2>2. ChanOf(f[i]) = c
    BY Zenon, <1>1
  <2> QED BY <1>3, <1>5, <2>0, <2>1, <2>2 DEF SlotsAgree
<1>6. ASSUME NEW e \in Channels, g[e].sent > 0
      PROVE  \E j \in Active(f) : ChanOf(f[j]) = e
  <2>1. CASE e = c
    BY Zenon, <1>1, <1>3, <2>1
  <2>2. CASE e # c
    <3>1. PICK j \in Active(ctx) : ChanOf(ctx[j]) = e
      BY Zenon, <1>2, <1>6, <2>2 DEF SlotsAgree
    <3>2. j \in 1 .. NSlots /\ j # i
      BY Zenon, <2>2, <3>1 DEF Active
    <3> QED BY Zenon, <1>1, <1>3, <3>1, <3>2
  <2> QED BY Zenon, <2>1, <2>2
<1> QED BY Zenon, <1>4, <1>5, <1>6 DEF SlotsAgree, f, g

(* The slot of channel c given back at the end of its message.             *)
LEMMA SlotGivenBack ==
  ASSUME NEW ctx, SlotsOK(ctx), NEW recv \in [Channels -> State], SlotsAgree(ctx, recv),
         NEW i \in Active(ctx), NEW c \in Channels, ChanOf(ctx[i]) = c,
         NEW st \in State, st.sent = 0
  PROVE  SlotsAgree([ctx EXCEPT ![i] = EmptySlot], [recv EXCEPT ![c] = st])
<1> DEFINE f == [ctx EXCEPT ![i] = EmptySlot]
           g == [recv EXCEPT ![c] = st]
<1>0. i \in 1 .. NSlots /\ ~EmptySlot.active
  BY Zenon DEF Active, EmptySlot
<1>1. f[i] = EmptySlot /\ \A j \in 1 .. NSlots : j # i => f[j] = ctx[j]
  BY Zenon, <1>0 DEF SlotsOK
<1>2. g[c] = st /\ \A e \in Channels : e # c => g[e] = recv[e]
  OBVIOUS
<1> HIDE DEF f, g
<1>3. \A j \in Active(f) : j \in Active(ctx) /\ j # i /\ f[j] = ctx[j]
  BY Zenon, <1>0, <1>1 DEF Active
<1>4. \A j \in Active(f) : ChanOf(ctx[j]) \in Channels /\ ChanOf(ctx[j]) # c
  BY Zenon, <1>3 DEF SlotsAgree
<1>5. ASSUME NEW j \in Active(f)
      PROVE  /\ ChanOf(f[j]) \in Channels /\ g[ChanOf(f[j])].sent > 0
             /\ Holds(f[j], ChanOf(f[j]), g[ChanOf(f[j])])
  <2>1. g[ChanOf(ctx[j])] = recv[ChanOf(ctx[j])]
    BY Zenon, <1>2, <1>4
  <2> QED BY Zenon, <1>3, <2>1 DEF SlotsAgree
<1>6. ASSUME NEW j \in Active(f), NEW k \in Active(f), ChanOf(f[j]) = ChanOf(f[k])
      PROVE  j = k
  BY Zenon, <1>3, <1>6 DEF SlotsAgree
<1>7. ASSUME NEW e \in Channels, g[e].sent > 0
      PROVE  \E j \in Active(f) : ChanOf(f[j]) = e
  <2>1. e # c
    BY <1>2, <1>7
  <2>2. PICK j \in Active(ctx) : ChanOf(ctx[j]) = e
    BY Zenon, <1>2, <1>7, <2>1 DEF SlotsAgree
  <2>3. j \in 1 .. NSlots /\ j # i
    BY Zenon, <2>1, <2>2 DEF Active
  <2>4. j \in Active(f) /\ f[j] = ctx[j]
    BY Zenon, <1>1, <2>2, <2>3 DEF Active
  <2> QED BY Zenon, <2>2, <2>4
<1> QED BY Zenon, <1>5, <1>6, <1>7 DEF SlotsAgree, f, g

(* No slot is concerned.                                                   *)
LEMMA SlotsAsTheyWere ==
  ASSUME NEW ctx, NEW recv \in [Channels -> State], SlotsAgree(ctx, recv),
         NEW c \in Channels, recv[c].sent = 0, NEW st \in State, st.sent = 0
  PROVE  SlotsAgree(ctx, [recv EXCEPT ![c] = st])
<1> DEFINE g == [recv EXCEPT ![c] = st]
<1>1. g[c] = st /\ \A e \in Channels : e # c => g[e] = recv[e]
  OBVIOUS
<1> HIDE DEF g
<1>2. \A j \in Active(ctx) : ChanOf(ctx[j]) \in Channels /\ ChanOf(ctx[j]) # c
  BY DEF SlotsAgree
<1>3. \A j \in Active(ctx) : g[ChanOf(ctx[j])] = recv[ChanOf(ctx[j])]
  BY Zenon, <1>1, <1>2
<1>4. \A e \in Channels : g[e].sent > 0 => e # c
  BY <1>1
<1> QED BY Zenon, <1>1, <1>3, <1>4 DEF SlotsAgree, g

(* A channel without a slot finds one free: each slot in use is another    *)
(* channel's, and there are as many slots as channels.                     *)
LEMMA SlotIsFree ==
  ASSUME NEW ctx, SlotsOK(ctx), NEW recv \in [Channels -> State], SlotsAgree(ctx, recv),
         NEW c \in Channels, recv[c].sent = 0
  PROVE  SlotFor(ctx) \in 1 .. NSlots /\ ~ctx[SlotFor(ctx)].active
<1> DEFINE free == {i \in DOMAIN ctx : ~ctx[i].active}
<1>0. DOMAIN ctx = 1 .. NSlots /\ NSlots \in Nat
  BY Zenon, IdaAssumption DEF SlotsOK
<1>1. free # {}
  <2> SUFFICES ASSUME free = {} PROVE FALSE
    OBVIOUS
  <2>1. Active(ctx) = 1 .. NSlots
    BY Zenon, <1>0 DEF Active
  <2> DEFINE S == 1 .. NSlots
             T == Channels \ {c}
             f == [i \in S |-> ChanOf(ctx[i])]
  <2>2. \A i \in S : ChanOf(ctx[i]) \in T
    BY <2>1 DEF SlotsAgree
  <2>3. f \in [S -> T]
    BY Zenon, <2>2
  <2>4. IsFiniteSet(S) /\ Cardinality(S) = NSlots
    BY <1>0, FS_Interval
  <2>5. IsFiniteSet(T) /\ Cardinality(T) = Cardinality(Channels) - 1
    BY Zenon, ChannelsAssumption, FS_RemoveElement
  <2>6. Cardinality(T) < Cardinality(S)
    <3>1. Cardinality(Channels) \in Nat /\ Cardinality(Channels) <= NSlots
      BY Zenon, ChannelsAssumption, FS_CardinalityType
    <3> QED BY <1>0, <2>4, <2>5, <3>1
  <2> HIDE DEF T
  <2>7. \E i, j \in S : i # j /\ f[i] = f[j]
    <3> HIDE DEF S, f
    <3> QED BY <2>3, <2>4, <2>5, <2>6, FS_PigeonHole
  <2> QED BY Zenon, <2>1, <2>7 DEF SlotsAgree
<1>2. free \in SUBSET Nat
  BY <1>0
<1>3. Min(free) \in free
  BY Zenon, <1>1, <1>2, LeastNat
<1>4. SlotFor(ctx) = Min(free)
  BY Zenon, <1>1 DEF SlotFor
<1> QED BY Zenon, <1>0, <1>3, <1>4

(* ida_reassemble does the right thing with the next burst of a channel.   *)
LEMMA ReassembleWhole ==
  ASSUME NEW ctx, SlotsOK(ctx), NEW recv \in [Channels -> State], SlotsAgree(ctx, recv),
         NEW b \in Burst, FromChannel(b), Continues(recv[b.chan], b)
  PROVE  LET r == ida_reassemble(ctx, b)
         IN  /\ SlotsAgree(r.ctx, [recv EXCEPT ![b.chan] = After(b)])
             /\ b.total <= DataCap => RightMessage(b, r.msg)
<1> DEFINE matching == {i \in DOMAIN ctx : Matches(ctx[i], b)}
           m == Min(matching)
           s == Accept(ctx[m], b)
           r == ida_reassemble(ctx, b)
           c == b.chan
           g == [recv EXCEPT ![c] = After(b)]
<1>0. /\ c \in Channels /\ b.ok /\ b.cont \in BOOLEAN /\ DOMAIN ctx = 1 .. NSlots
      /\ recv[c] \in State /\ recv[c].sent \in Nat
  BY Zenon, BurstFields DEF FromChannel, SlotsOK, State
<1>1. b.part \in Nat /\ b.part = recv[c].sent + 1
  BY <1>0 DEF Continues
<1>2. /\ After(b) \in State
      /\ b.cont => After(b).sent = b.part
      /\ ~b.cont => After(b).sent = 0
  BY Zenon, <1>1, AfterOK
<1>3. \A i \in 1 .. NSlots : Matches(ctx[i], b) <=> (i \in Active(ctx) /\ ChanOf(ctx[i]) = c)
  <2> SUFFICES ASSUME NEW i \in 1 .. NSlots
               PROVE  Matches(ctx[i], b) <=> (i \in Active(ctx) /\ ChanOf(ctx[i]) = c)
    OBVIOUS
  <2>1. CASE i \notin Active(ctx)
    BY Zenon, <2>1 DEF Active, Matches
  <2>2. CASE i \in Active(ctx)
    <3> DEFINE e == ChanOf(ctx[i])
    <3>1. e \in Channels /\ recv[e].sent > 0 /\ Holds(ctx[i], e, recv[e])
      BY Zenon, <2>2 DEF SlotsAgree
    <3>2. ctx[i] \in Slot /\ ctx[i].active /\ recv[e] \in State
      BY Zenon, <2>2, <3>1 DEF SlotsOK, Active
    <3>3. b.chan = e => Continues(recv[e], b)
      OBVIOUS
    <3> HIDE DEF e
    <3>4. Matches(ctx[i], b) <=> b.chan = e
      BY Zenon, <3>1, <3>2, <3>3, MatchesItsOwn
    <3> QED BY Zenon, <2>2, <3>4 DEF e
  <2> QED BY Zenon, <2>1, <2>2
<1>4. CASE recv[c].sent > 0
  <2>1. PICK i \in Active(ctx) : ChanOf(ctx[i]) = c
    BY Zenon, <1>0, <1>4 DEF SlotsAgree
  <2>2. i \in 1 .. NSlots /\ ctx[i].active
    BY Zenon DEF Active
  <2>3. matching \in SUBSET Nat /\ matching # {}
    BY <1>0, <1>3, <2>1, <2>2
  <2>4. m \in matching
    BY Zenon, <2>3, LeastNat
  <2>5. m = i
    BY <1>0, <1>3, <2>1, <2>4 DEF SlotsAgree
  <2>6. r = [ctx |-> [ctx EXCEPT ![m] = IF b.cont THEN s ELSE EmptySlot],
             msg |-> IF b.cont THEN NoMessage ELSE [data |-> s.data, accepted |-> s.accepted]]
    BY <1>0, <2>3, ZenonT(30) DEF ida_reassemble
  <2> DEFINE t == Accept(ctx[i], b)
  <2>7. s = t
    BY Zenon, <2>5
  <2> HIDE DEF m, s, r
  <2>8. SlotInv(ctx[i]) /\ Holds(ctx[i], c, recv[c])
    BY SMTT(40), <2>1, <2>2 DEF SlotsOK, SlotsAgree
  <2>9. /\ ChanOf(t) = c
        /\ b.cont => Holds(t, c, After(b))
        /\ b.total <= DataCap =>
             /\ Len(t.data) = b.part
             /\ \A k \in 1 .. b.part : /\ t.data[k].chan = c /\ t.data[k].began = b.began
                                       /\ t.data[k].part = k
    <3> HIDE DEF t
    <3> QED BY <1>0, <1>4, <2>1, <2>2, <2>8, AcceptWhole, SMTT(40) DEF t
  <2>10. t.active
    <3>1. ctx[i] \in Slot
      BY Zenon, <2>2 DEF SlotsOK
    <3> QED BY Zenon, <2>2, <3>1, AcceptFields
  <2> HIDE DEF t
  <2>11. CASE b.cont
    <3>1. r.ctx = [ctx EXCEPT ![i] = t] /\ r.msg = NoMessage
      BY Zenon, <2>5, <2>6, <2>7, <2>11
    <3>2. After(b).sent > 0
      BY <1>0, <1>1, <1>2, <2>11
    <3>3. \A j \in Active(ctx) : ChanOf(ctx[j]) = c => j = i
      BY Zenon, <2>1 DEF SlotsAgree
    <3>4. SlotsAgree([ctx EXCEPT ![i] = t], g)
      BY Zenon, <1>0, <1>2, <2>1, <2>2, <2>9, <2>10, <2>11, <3>2, <3>3, SlotTaken
    <3> QED BY Zenon, <2>11, <3>1, <3>4 DEF r, RightMessage
  <2>12. CASE ~b.cont
    <3>1. r.ctx = [ctx EXCEPT ![i] = EmptySlot] /\ r.msg.data = t.data
      BY Zenon, <2>5, <2>6, <2>7, <2>12
    <3>2. SlotsAgree([ctx EXCEPT ![i] = EmptySlot], g)
      BY Zenon, <1>0, <1>2, <2>1, <2>12, SlotGivenBack
    <3>3. b.total <= DataCap => RightMessage(b, r.msg)
      BY Zenon, <2>9, <2>12, <3>1 DEF RightMessage
    <3> QED BY Zenon, <3>1, <3>2, <3>3 DEF r
  <2> QED BY Zenon, <1>0, <2>11, <2>12
<1>5. CASE recv[c].sent = 0
  <2>1. \A i \in Active(ctx) : ChanOf(ctx[i]) # c
    BY <1>5 DEF SlotsAgree
  <2>2. matching = {}
    BY Zenon, <1>0, <1>3, <2>1
  <2>3. b.ctr = 0 /\ b.part = 1
    <3>1. b.ctr = 0 % CtrMod
      BY Zenon, <1>5 DEF Continues
    <3>2. 0 % CtrMod = 0
      BY IdaAssumption
    <3> QED BY <1>1, <1>5, <3>1, <3>2
  <2>4. CASE b.cont
    <3> DEFINE i == SlotFor(ctx)
               t == Started(b)
    <3>1. r = [ctx |-> [ctx EXCEPT ![i] = t], msg |-> NoMessage]
      BY <1>0, <2>2, <2>3, <2>4, ZenonT(30) DEF ida_reassemble
    <3>2. i \in 1 .. NSlots /\ ~ctx[i].active
      BY Zenon, <1>0, <1>5, SlotIsFree
    <3>3. ChanOf(t) = c /\ Holds(t, c, After(b))
      BY Zenon, <1>0, <1>5, <2>4, StartedWhole
    <3>4. t.active
      BY Zenon DEF Started
    <3> HIDE DEF i, t, r
    <3>5. After(b).sent > 0
      BY <1>2, <2>3, <2>4
    <3>6. SlotsAgree([ctx EXCEPT ![i] = t], g)
      BY Zenon, <1>0, <1>2, <2>1, <3>2, <3>3, <3>4, <3>5, SlotTaken
    <3> QED BY <2>4, <3>1, <3>6 DEF r, RightMessage
  <2>5. CASE ~b.cont
    <3>1. r = [ctx |-> ctx, msg |-> [data |-> <<b>>, accepted |-> 1]]
      BY <1>0, <2>2, <2>3, <2>5, ZenonT(30) DEF ida_reassemble
    <3>2. SlotsAgree(ctx, g)
      BY Zenon, <1>0, <1>2, <1>5, <2>5, SlotsAsTheyWere
    <3> HIDE DEF r
    <3>3. r.ctx = ctx /\ r.msg.data = <<b>>
      BY Zenon, <3>1
    <3>4. RightMessage(b, r.msg)
      <4>1. Len(r.msg.data) = 1 /\ r.msg.data[1] = b
        BY <3>3
      <4> QED BY <2>3, <2>5, <4>1 DEF RightMessage
    <3> QED BY Zenon, <3>2, <3>3, <3>4 DEF r
  <2> QED BY Zenon, <1>0, <2>4, <2>5
<1> QED BY <1>0, <1>4, <1>5

(* A flush before any message in progress is too old changes nothing.      *)
LEMMA FlushKeepsAll ==
  ASSUME NEW ctx, SlotsOK(ctx), NEW recv \in [Channels -> State], SlotsAgree(ctx, recv),
         NEW now \in Nat,
         \A c \in Channels : recv[c].sent > 0 => now <= recv[c].last + Window
  PROVE  ida_reassemble_flush(ctx, now) = ctx
<1>1. \A i \in 1 .. NSlots : ~(ctx[i].active /\ now > ctx[i].last + Window)
  <2> SUFFICES ASSUME NEW i \in Active(ctx), now > ctx[i].last + Window PROVE FALSE
    BY Zenon DEF Active
  <2>1. i \in 1 .. NSlots /\ ctx[i] \in Slot
    BY Zenon DEF Active, SlotsOK
  <2>2. ctx[i].last \in Nat /\ Window \in Nat
    BY Zenon, <2>1, SlotFields, IdaAssumption
  <2>3. ctx[i].last = recv[ChanOf(ctx[i])].last /\ now <= recv[ChanOf(ctx[i])].last + Window
    BY Zenon DEF SlotsAgree, Holds
  <2> QED BY <2>2, <2>3
<1> QED BY Zenon, <1>1 DEF ida_reassemble_flush, SlotsOK

(* h tells the senders' states as the output thread sees them: h[1] after  *)
(* the bursts it has processed, h[j + 1] after the first j of those in the *)
(* pipeline, and so at the end what the senders are in.  None of the       *)
(* messages in progress is too old when a burst gets there.                *)
History(h, q, ctx, snd) ==
  /\ h \in Seq([Channels -> State]) /\ Len(h) = Len(q) + 1 /\ h[Len(q) + 1] = snd
  /\ SlotsAgree(ctx, h[1])
  /\ \A j \in 1 .. Len(q) :
       /\ FromChannel(q[j]) /\ Continues(h[j][q[j].chan], q[j])
       /\ h[j + 1] = [h[j] EXCEPT ![q[j].chan] = After(q[j])]
       /\ \A c \in Channels : h[j + 1][c].sent > 0 => q[j].time <= h[j + 1][c].last + Window

(* No sender lets the window pass.                                         *)
InTime(snd, now) ==
  \A c \in Channels : snd[c].sent > 0 => now - snd[c].last \in 0 .. Window

WInv ==
  ~faulty => /\ WholeMessages /\ InTime(sender, clock)
             /\ \E h : History(h, pending, slots, sender)

LEMMA SenderStates ==
  ASSUME PInv PROVE sender \in [Channels -> State]
<1>1. MaxParts \in Nat
  BY Zenon, IdaAssumption
<1> QED BY <1>1 DEF PInv, State

LEMMA WInit == Init => WInv
<1> SUFFICES ASSUME Init PROVE WInv
  OBVIOUS
<1>1. sender \in [Channels -> State] /\ \A c \in Channels : sender[c].sent = 0
  BY DEF Init, State
<1>2. got = <<>> /\ pending = <<>> /\ slots = [i \in 1 .. NSlots |-> EmptySlot]
  BY Zenon DEF Init
<1>3. WholeMessages /\ InTime(sender, clock)
  BY <1>1, <1>2 DEF WholeMessages, InTime
<1>4. Active(slots) = {}
  BY Zenon, <1>2 DEF Active, EmptySlot
<1>5. SlotsAgree(slots, sender)
  BY <1>1, <1>4 DEF SlotsAgree
<1> DEFINE h == <<sender>>
<1>6. h \in Seq([Channels -> State]) /\ Len(h) = 1 /\ h[1] = sender
  BY <1>1
<1> HIDE DEF h
<1>7. History(h, pending, slots, sender)
  <2>1. Len(pending) = 0 /\ 1 .. Len(pending) = {}
    BY <1>2
  <2> QED BY <1>5, <1>6, <2>1 DEF History
<1> QED BY Zenon, <1>3, <1>7 DEF WInv

LEMMA WSend ==
  ASSUME PInv, WInv, ~faulty, NEW c \in Channels, Send(c)
  PROVE  WInv'
<1>1. PICK more \in BOOLEAN, len \in Lengths, d \in Drift :
        LET n == sender[c].sent
            began == CASE faulty -> 0 [] ~faulty /\ n = 0 -> clock [] OTHER -> sender[c].began
            total == CASE faulty -> 0 [] ~faulty /\ n = 0 -> len [] OTHER -> len + sender[c].total
        IN  /\ more => n + 1 < MaxParts
            /\ pending' = Append(pending,
                 [chan |-> c, began |-> began, part |-> IF faulty THEN 0 ELSE n + 1,
                  total |-> total, at |-> 0, dir |-> c.dir, freq |-> c.freq + d, time |-> clock,
                  ctr |-> n % CtrMod, cont |-> more, len |-> len, ok |-> TRUE])
            /\ sender' = [sender EXCEPT ![c] =
                 [sent |-> IF more THEN n + 1 ELSE 0,
                  began |-> began, last |-> clock, total |-> total]]
  BY Zenon DEF Send
<1> DEFINE n == sender[c].sent
           began == CASE faulty -> 0 [] ~faulty /\ n = 0 -> clock [] OTHER -> sender[c].began
           total == CASE faulty -> 0 [] ~faulty /\ n = 0 -> len [] OTHER -> len + sender[c].total
           part == IF faulty THEN 0 ELSE n + 1
           b == [chan |-> c, began |-> began, part |-> part, total |-> total, at |-> 0,
                 dir |-> c.dir, freq |-> c.freq + d, time |-> clock,
                 ctr |-> n % CtrMod, cont |-> more, len |-> len, ok |-> TRUE]
           a == [sent |-> IF more THEN n + 1 ELSE 0, began |-> began, last |-> clock, total |-> total]
<1>2. /\ sender \in [Channels -> State] /\ n \in Nat /\ sender[c].began \in Int
      /\ sender[c].last \in Int /\ sender[c].total \in Int
      /\ clock \in Nat /\ Window \in Nat /\ len \in Nat \ {0}
  BY SMTT(40), SenderStates, IdaAssumption DEF PInv, State
<1>3. /\ n = 0 => began = clock /\ total = len
      /\ n # 0 => began = sender[c].began /\ total = len + sender[c].total
  BY ZenonT(30)
<1>4. part = n + 1
  OBVIOUS
<1>5. pending' = Append(pending, b) /\ sender' = [sender EXCEPT ![c] = a]
  BY <1>1, ZenonT(30)
<1> HIDE DEF began, total, part
<1>6. began \in Int /\ total \in Int
  BY <1>2, <1>3
<1>7. b \in Burst
  <2>1. c.dir \in {"DL", "UL"} /\ c.freq + d \in Int
    BY IdaAssumption
  <2>2. n % CtrMod \in 0 .. CtrMod - 1
    BY Zenon, <1>2, NextCtr
  <2>3. part \in Int
    BY <1>2, <1>4
  <2> QED BY SMTT(40), <1>2, <1>6, <2>1, <2>2, <2>3 DEF Burst
<1>8. After(b) = a /\ b.chan = c /\ b.time = clock /\ FromChannel(b)
  <2>1. FromChannel(b)
    BY Zenon DEF FromChannel
  <2> QED BY Zenon, <1>4, <2>1 DEF After
<1>9. InTime(sender, clock)
  BY Zenon DEF WInv
<1>10. Continues(sender[c], b)
  <2>1. n > 0 => clock - sender[c].last \in 0 .. Window
    BY Zenon, <1>9 DEF InTime
  <2>2. n > 0 => began = sender[c].began /\ total = sender[c].total + len
    BY <1>2, <1>3
  <2>3. n = 0 => total = len
    BY Zenon, <1>3
  <2> QED BY Zenon, <1>4, <2>1, <2>2, <2>3 DEF Continues
<1>11. a \in State /\ a.last = clock
  BY <1>2, <1>6 DEF State
<1> HIDE DEF a, b
<1>12. sender' \in [Channels -> State] /\ sender'[c] = a /\ \A e \in Channels : e # c => sender'[e] = sender[e]
  BY Zenon, <1>2, <1>5, <1>11
<1>13. InTime(sender', clock)
  <2>1. clock - a.last \in 0 .. Window
    BY <1>2, <1>11
  <2> QED BY Zenon, <1>9, <1>12, <2>1 DEF InTime
<1>14. PICK h : History(h, pending, slots, sender)
  BY Zenon DEF WInv
<1> DEFINE g == Append(h, sender')
           q == pending
           p == Append(q, b)
<1>15. /\ h \in Seq([Channels -> State]) /\ q \in Seq(Burst) /\ Len(q) \in Nat
       /\ Len(h) = Len(q) + 1 /\ h[Len(q) + 1] = sender
  BY Zenon, <1>14, LenProperties DEF History, PInv
<1>16. /\ Len(p) = Len(q) + 1 /\ p[Len(q) + 1] = b
       /\ \A j \in 1 .. Len(q) : p[j] = q[j]
  BY <1>7, <1>15, AppendProperties
<1>17. /\ g \in Seq([Channels -> State]) /\ Len(g) = Len(q) + 2 /\ g[Len(q) + 2] = sender'
       /\ \A j \in 1 .. Len(q) + 1 : g[j] = h[j]
  <2>1. /\ g \in Seq([Channels -> State]) /\ Len(g) = Len(h) + 1 /\ g[Len(h) + 1] = sender'
        /\ \A j \in 1 .. Len(h) : g[j] = h[j]
    <3> HIDE DEF q
    <3> QED BY <1>12, <1>15, AppendProperties
  <2>2. Len(h) + 1 = Len(q) + 2
    BY <1>15
  <2> QED BY Zenon, <1>15, <2>1, <2>2
<1> HIDE DEF g, q, p
<1>18. ASSUME NEW j \in 1 .. Len(p)
       PROVE  /\ FromChannel(p[j]) /\ Continues(g[j][p[j].chan], p[j])
              /\ g[j + 1] = [g[j] EXCEPT ![p[j].chan] = After(p[j])]
              /\ \A e \in Channels : g[j + 1][e].sent > 0 => p[j].time <= g[j + 1][e].last + Window
  <2>1. j \in 1 .. Len(q) \/ j = Len(q) + 1
    BY <1>15, <1>16
  <2>2. CASE j \in 1 .. Len(q)
    <3>1. p[j] = q[j] /\ g[j] = h[j] /\ g[j + 1] = h[j + 1]
      <4>1. j \in 1 .. Len(q) + 1 /\ j + 1 \in 1 .. Len(q) + 1
        BY <1>15, <2>2
      <4> QED BY Zenon, <1>16, <1>17, <2>2, <4>1
    <3> QED BY Zenon, <1>14, <2>2, <3>1 DEF History, q
  <2>3. CASE j = Len(q) + 1
    <3>1. j \in 1 .. Len(q) + 1 /\ j + 1 = Len(q) + 2
      BY <1>15, <2>3
    <3>2. p[j] = b /\ g[j] = sender /\ g[j + 1] = sender'
      BY Zenon, <1>15, <1>16, <1>17, <2>3, <3>1
    <3>3. ASSUME NEW e \in Channels, sender'[e].sent > 0 PROVE clock <= sender'[e].last + Window
      <4>1. clock - sender'[e].last \in 0 .. Window /\ sender'[e].last \in Int
        BY Zenon, <1>12, <1>13, <3>3 DEF InTime, State
      <4> QED BY SMTT(40), <1>2, <4>1
    <3> QED BY Zenon, <1>5, <1>8, <1>10, <3>2, <3>3
  <2> QED BY Zenon, <2>1, <2>2, <2>3
<1>19. g[1] = h[1] /\ SlotsAgree(slots, h[1])
  BY <1>14, <1>15, <1>17 DEF History
<1>20. History(g, p, slots, sender')
  <2>1. Len(g) = Len(p) + 1 /\ g[Len(p) + 1] = sender'
    <3>1. Len(p) + 1 = Len(q) + 2
      BY <1>15, <1>16
    <3> QED BY Zenon, <1>17, <3>1
  <2> QED BY Zenon, <1>17, <1>18, <1>19, <2>1 DEF History
<1>21. UNCHANGED <<faulty, clock, slots>> /\ got' = <<>> /\ pending' = p
  BY Zenon, <1>5 DEF Send, Silent, p, q
<1>22. WholeMessages'
  BY <1>21 DEF WholeMessages
<1> QED BY Zenon, <1>13, <1>20, <1>21, <1>22 DEF WInv

LEMMA WProcess ==
  ASSUME PInv, WInv, ~faulty, Process
  PROVE  WInv'
<1>1. PICK i \in DOMAIN pending, ok \in {TRUE} :
        LET b == [pending[i] EXCEPT !.ok = ok]
            r == ida_reassemble(slots, b)
        IN  /\ faulty \/ i = 1
            /\ slots' = ida_reassemble_flush(r.ctx, b.time)
            /\ out' = r.msg
            /\ got' = <<b>>
            /\ pending' = Without(pending, i)
  BY Zenon DEF Process
<1> DEFINE q == pending
           b == q[1]
           r == ida_reassemble(slots, b)
<1>2. PICK h : History(h, q, slots, sender)
  BY Zenon DEF WInv
<1>3. q \in Seq(Burst) /\ Len(q) \in Nat /\ 1 \in 1 .. Len(q) /\ b \in Burst
  <2>1. pending \in Seq(Burst) /\ Len(q) \in Nat /\ i \in 1 .. Len(q)
    BY Zenon, LenProperties DEF PInv
  <2>2. 1 \in 1 .. Len(q)
    BY <2>1
  <2> QED BY Zenon, <2>1, <2>2, ElementOfSeq
<1>4. /\ h \in Seq([Channels -> State]) /\ Len(h) = Len(q) + 1 /\ h[Len(q) + 1] = sender
      /\ SlotsAgree(slots, h[1]) /\ FromChannel(b) /\ Continues(h[1][b.chan], b)
      /\ h[2] = [h[1] EXCEPT ![b.chan] = After(b)]
      /\ \A c \in Channels : h[2][c].sent > 0 => b.time <= h[2][c].last + Window
  <2>1. 1 + 1 = 2
    OBVIOUS
  <2> HIDE DEF q
  <2> QED BY Zenon, <1>2, <1>3, <2>1 DEF History
<1>5. /\ h[1] \in [Channels -> State] /\ h[2] \in [Channels -> State]
  <2>1. 1 \in 1 .. Len(h) /\ 2 \in 1 .. Len(h)
    BY <1>3, <1>4
  <2> QED BY Zenon, <1>4, <2>1, ElementOfSeq
<1>6. [pending[i] EXCEPT !.ok = ok] = b
  <2>1. i = 1 /\ ok = TRUE /\ b.ok = TRUE
    BY Zenon, <1>1, <1>3, <1>4, BurstFields DEF FromChannel
  <2>2. [b EXCEPT !.ok = TRUE] = b
    BY Zenon, <1>3, <2>1 DEF Burst
  <2> QED BY Zenon, <2>1, <2>2
<1>7. /\ slots' = ida_reassemble_flush(r.ctx, b.time) /\ out' = r.msg /\ got' = <<b>>
      /\ pending' = Without(q, 1) /\ UNCHANGED <<faulty, clock, sender>>
  BY Zenon, <1>1, <1>6 DEF Process
<1>8. SlotsOK(slots) /\ SlotsOK(r.ctx)
  BY Zenon, <1>3, ReassembleOK DEF PInv
<1>9. SlotsAgree(r.ctx, h[2]) /\ (b.total <= DataCap => RightMessage(b, r.msg))
  <2> DEFINE recv == h[1]
             c == b
  <2>1. /\ recv \in [Channels -> State] /\ c \in Burst /\ SlotsAgree(slots, recv)
        /\ FromChannel(c) /\ Continues(recv[c.chan], c)
    BY Zenon, <1>3, <1>4, <1>5
  <2> HIDE DEF recv, c
  <2>2. /\ SlotsAgree(ida_reassemble(slots, c).ctx, [recv EXCEPT ![c.chan] = After(c)])
        /\ c.total <= DataCap => RightMessage(c, ida_reassemble(slots, c).msg)
    BY Zenon, <1>8, <2>1, ReassembleWhole
  <2> QED BY Zenon, <1>4, <2>2 DEF recv, c
<1> HIDE DEF r
<1>10. slots' = r.ctx
  <2>1. b.time \in Nat
    BY ZenonT(40), <1>3, BurstFields
  <2>2. ida_reassemble_flush(r.ctx, b.time) = r.ctx
    BY <1>4, <1>5, <1>8, <1>9, <2>1, FlushKeepsAll, SMTT(40)
  <2> QED BY Zenon, <1>7, <2>2
<1> DEFINE p == Without(q, 1)
           g == SubSeq(h, 2, Len(h))
<1>11. p \in Seq(Burst) /\ Len(p) = Len(q) - 1 /\ \A j \in 1 .. Len(p) : p[j] = q[j + 1]
  <2> DEFINE t == SubSeq(q, 2, Len(q))
  <2>1. t \in Seq(Burst) /\ Len(t) = Len(q) - 1 /\ \A j \in 1 .. Len(t) : t[j] = q[j + 1]
    <3>1. \A j \in 2 .. Len(q) : q[j] \in Burst
      BY <1>3, ElementOfSeq
    <3>2. t \in Seq(Burst)
      BY <1>3, <3>1, SubSeqProperties
    <3>3. Len(t) = IF 2 <= Len(q) THEN Len(q) - 2 + 1 ELSE 0
      BY <1>3, SubSeqProperties
    <3>4. \A j \in 1 .. (Len(q) - 2 + 1) : t[j] = q[2 + j - 1]
      BY <1>3, SubSeqProperties
    <3> HIDE DEF t, q
    <3>5. Len(t) = Len(q) - 1
      <4> DEFINE n == Len(q)
      <4>1. n \in Nat /\ 1 <= n /\ Len(t) = IF 2 <= n THEN n - 2 + 1 ELSE 0
        BY <1>3, <3>3
      <4> HIDE DEF n
      <4>2. Len(t) = n - 1
        BY <4>1
      <4> QED BY Zenon, <4>2 DEF n
    <3>6. \A j \in 1 .. Len(t) : j \in 1 .. (Len(q) - 2 + 1) /\ 2 + j - 1 = j + 1
      BY <1>3, <3>5
    <3> QED BY Zenon, <3>2, <3>4, <3>5, <3>6
  <2>2. p = <<>> \o t
    <3>1. SubSeq(q, 1, 1 - 1) = <<>> /\ 1 + 1 = 2
      BY <1>3, SubSeqProperties, EmptySeq
    <3> QED BY Zenon, <3>1 DEF Without
  <2>3. p = t
    BY <2>1, <2>2
  <2> QED BY Zenon, <2>1, <2>3
<1>12. /\ g \in Seq([Channels -> State]) /\ Len(g) = Len(q)
       /\ \A j \in 1 .. Len(q) : g[j] = h[j + 1]
  <2>0. Len(h) \in Nat /\ Len(h) >= 2
    BY <1>3, <1>4
  <2>1. \A j \in 2 .. Len(h) : h[j] \in [Channels -> State]
    <3> SUFFICES ASSUME NEW j \in 2 .. Len(h) PROVE h[j] \in [Channels -> State]
      OBVIOUS
    <3>1. j \in 1 .. Len(h)
      BY <2>0
    <3> QED BY Zenon, <1>4, <3>1, ElementOfSeq
  <2>2. g \in Seq([Channels -> State])
    BY SMTT(40), <1>4, <2>0, <2>1, SubSeqProperties
  <2>3. Len(g) = IF 2 <= Len(h) THEN Len(h) - 2 + 1 ELSE 0
    BY SMTT(40), <1>4, <2>0, SubSeqProperties
  <2>4. \A j \in 1 .. (Len(h) - 2 + 1) : g[j] = h[2 + j - 1]
    BY SMTT(40), <1>4, <2>0, SubSeqProperties
  <2> HIDE DEF g, q
  <2>5. Len(g) = Len(q)
    BY SMTT(40), <1>3, <1>4, <2>3
  <2>6. \A j \in 1 .. Len(q) : j \in 1 .. (Len(h) - 2 + 1) /\ 2 + j - 1 = j + 1
    BY <1>3, <1>4
  <2> QED BY Zenon, <2>2, <2>4, <2>5, <2>6
<1>13. History(g, p, r.ctx, sender)
  <2> HIDE DEF g, p, q
  <2>1. Len(g) = Len(p) + 1 /\ g[Len(p) + 1] = sender
    <3>1. Len(p) + 1 = Len(q) /\ Len(q) \in 1 .. Len(q)
      BY <1>3, <1>11
    <3>2. g[Len(q)] = h[Len(q) + 1]
      BY Zenon, <1>12, <3>1
    <3> QED BY Zenon, <1>4, <1>12, <3>1, <3>2
  <2>2. g[1] = h[2]
    BY <1>3, <1>12
  <2>3. ASSUME NEW j \in 1 .. Len(p)
        PROVE  /\ FromChannel(p[j]) /\ Continues(g[j][p[j].chan], p[j])
               /\ g[j + 1] = [g[j] EXCEPT ![p[j].chan] = After(p[j])]
               /\ \A c \in Channels : g[j + 1][c].sent > 0 => p[j].time <= g[j + 1][c].last + Window
    <3> DEFINE k == j + 1
    <3>1. k \in 1 .. Len(q) /\ j \in 1 .. Len(q)
      BY <1>3, <1>11
    <3>2. p[j] = q[k] /\ g[j] = h[k] /\ g[k] = h[k + 1]
      BY Zenon, <1>11, <1>12, <3>1
    <3> HIDE DEF k
    <3>3. /\ FromChannel(q[k]) /\ Continues(h[k][q[k].chan], q[k])
          /\ h[k + 1] = [h[k] EXCEPT ![q[k].chan] = After(q[k])]
          /\ \A c \in Channels : h[k + 1][c].sent > 0 => q[k].time <= h[k + 1][c].last + Window
      BY Zenon, <1>2, <3>1 DEF History
    <3>4. /\ FromChannel(p[j]) /\ Continues(g[j][p[j].chan], p[j])
          /\ g[k] = [g[j] EXCEPT ![p[j].chan] = After(p[j])]
          /\ \A c \in Channels : g[k][c].sent > 0 => p[j].time <= g[k][c].last + Window
      BY Zenon, <3>2, <3>3
    <3> QED BY Zenon, <3>4 DEF k
  <2> QED BY Zenon, <1>9, <1>12, <2>1, <2>2, <2>3 DEF History
<1>14. WholeMessages'
  <2>1. PICK c : c = b
    OBVIOUS
  <2>2. ASSUME c.total <= DataCap PROVE RightCallback(c)'
    <3>1. RightMessage(c, out')
      BY Zenon, <1>7, <1>9, <2>1, <2>2
    <3> QED BY Zenon, <3>1 DEF RightMessage, RightCallback
  <2>3. \A k \in DOMAIN got' : got'[k] = c
    BY <1>7, <2>1
  <2> QED BY Zenon, <2>2, <2>3 DEF WholeMessages, RightCallback
<1>15. InTime(sender, clock)
  BY Zenon DEF WInv
<1> QED BY Zenon, <1>7, <1>10, <1>13, <1>14, <1>15 DEF WInv

LEMMA WNext == PInv /\ WInv /\ [Next]_vars => WInv'
<1> SUFFICES ASSUME PInv, WInv, [Next]_vars PROVE WInv'
  OBVIOUS
<1>0. faulty' = faulty
  BY Zenon DEF Next, Tick, Send, Lose, Process, vars
<1>1. CASE faulty
  BY Zenon, <1>0, <1>1 DEF WInv
<1>2. CASE ~faulty /\ Tick
  <2>1. /\ clock' = clock + 1 /\ UNCHANGED <<faulty, sender, pending, slots>> /\ got' = <<>>
        /\ \A c \in Channels : sender[c].sent > 0 => clock - sender[c].last < Window
    BY Zenon, <1>2 DEF Tick, Silent, Open
  <2>2. InTime(sender, clock + 1)
    <3> SUFFICES ASSUME NEW c \in Channels, sender[c].sent > 0
                 PROVE  (clock + 1) - sender[c].last \in 0 .. Window
      BY Zenon DEF InTime
    <3>1. sender[c].last \in Int /\ clock \in Nat /\ Window \in Nat
      BY IdaAssumption DEF PInv
    <3>2. clock - sender[c].last \in 0 .. Window /\ clock - sender[c].last < Window
      BY Zenon, <1>2, <2>1 DEF WInv, InTime
    <3> QED BY <3>1, <3>2
  <2>3. WholeMessages'
    BY SMTT(40), <2>1 DEF WholeMessages
  <2> QED BY Zenon, <1>2, <2>1, <2>2, <2>3 DEF WInv
<1>3. CASE ~faulty /\ UNCHANGED vars
  BY <1>3 DEF vars, WInv, WholeMessages, RightCallback
<1>4. ~(~faulty /\ Lose)
  BY Zenon DEF Lose
<1> QED BY Zenon, <1>1, <1>2, <1>3, <1>4, WSend, WProcess DEF Next

(* When nothing is lost, damaged or overtakes, every message that fits in  *)
(* a slot is called back whole when its last burst is processed, whatever  *)
(* the other channels send, as long as there is a slot for each channel.   *)
THEOREM WholeHolds == Spec => []WholeMessages
<1>1. PInv /\ WInv => WholeMessages
  BY Zenon DEF WInv, WholeMessages
<1> QED BY <1>1, PInit, PNext, WInit, WNext, PTL DEF Spec

=============================================================================
