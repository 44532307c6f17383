--------------------------- MODULE PipelineProofs ---------------------------
(***************************************************************************)
(* Who owns the buffers and the bursts, and what is left of them at the    *)
(* end of main(), for any number of workers, any sizes of the queues and   *)
(* any input.                                                              *)
(***************************************************************************)
EXTENDS Pipeline, TLAPS

-----------------------------------------------------------------------------
(* Sequences.                                                              *)
LEMMA LenFacts ==
  ASSUME NEW S, NEW s \in Seq(S)
  PROVE  Len(s) \in Nat /\ s \in [1 .. Len(s) -> S] /\ DOMAIN s = 1 .. Len(s)
  OBVIOUS

LEMMA EmptyFacts ==
  ASSUME NEW S, NEW s \in Seq(S)
  PROVE  s = <<>> <=> Len(s) = 0
  OBVIOUS

LEMMA AppendFacts ==
  ASSUME NEW S, NEW s \in Seq(S), NEW x \in S
  PROVE  /\ Append(s, x) \in Seq(S) /\ Len(Append(s, x)) = Len(s) + 1
         /\ \A i \in 1 .. Len(s) : Append(s, x)[i] = s[i]
         /\ Append(s, x)[Len(s) + 1] = x
  OBVIOUS

LEMMA TailFacts ==
  ASSUME NEW S, NEW s \in Seq(S), s # <<>>
  PROVE  /\ Head(s) \in S /\ Tail(s) \in Seq(S) /\ Len(Tail(s)) = Len(s) - 1
         /\ \A i \in 1 .. Len(Tail(s)) : Tail(s)[i] = s[i + 1]
  OBVIOUS

-----------------------------------------------------------------------------
(***************************************************************************)
(* Ownership.  The queues Ns of Q and the hands h of the threads Ts hold   *)
(* the items of f whose fate is "held", each of them in one place.         *)
(***************************************************************************)
Queued(Q, Ns, f) ==
  \A n \in Ns : \A k \in 1 .. Len(Q[n].items) :
    Q[n].items[k] \in 1 .. Len(f) /\ f[Q[n].items[k]] = "held"

InHand(h, Ts, f) == \A t \in Ts : h[t] # 0 => h[t] \in 1 .. Len(f) /\ f[h[t]] = "held"

QueuedOnce(Q, Ns) ==
  \A n, m \in Ns : \A k \in 1 .. Len(Q[n].items), l \in 1 .. Len(Q[m].items) :
    Q[n].items[k] = Q[m].items[l] => n = m /\ k = l

HeldOnce(h, Ts) == \A s, t \in Ts : h[s] # 0 /\ h[s] = h[t] => s = t

NotBoth(Q, Ns, h, Ts) ==
  \A n \in Ns, t \in Ts : \A k \in 1 .. Len(Q[n].items) : Q[n].items[k] # h[t]

Queues_(Q, Ns, i) == \E n \in Ns : \E k \in 1 .. Len(Q[n].items) : Q[n].items[k] = i

Hands_(h, Ts, i) == \E t \in Ts : h[t] = i

Found(Q, Ns, h, Ts, f) ==
  \A i \in 1 .. Len(f) : f[i] = "held" => Queues_(Q, Ns, i) \/ Hands_(h, Ts, i)

Own(Q, Ns, h, Ts, f) ==
  /\ Queued(Q, Ns, f) /\ InHand(h, Ts, f) /\ QueuedOnce(Q, Ns) /\ HeldOnce(h, Ts)
  /\ NotBoth(Q, Ns, h, Ts) /\ Found(Q, Ns, h, Ts, f)

(* How a step may change the queues and the hands.                         *)
Lines(Q, Ns) == \A n \in Ns : Q[n].items \in Seq(Nat)
Keeps(Q, R, Ns) == \A n \in Ns : R[n].items = Q[n].items
KeepsBut(Q, R, Ns, n) == \A m \in Ns : m # n => R[m].items = Q[m].items
Grows(Q, R, Ns, n, x) == R[n].items = Append(Q[n].items, x) /\ KeepsBut(Q, R, Ns, n)
Shrinks(Q, R, Ns, n) ==
  Q[n].items # <<>> /\ R[n].items = Tail(Q[n].items) /\ KeepsBut(Q, R, Ns, n)
Grips(h, g, Ts) == \A t \in Ts : g[t] = h[t]
GripsBut(h, g, Ts, t) == \A s \in Ts : s # t => g[s] = h[s]

LEMMA Once ==
  ASSUME NEW Q, NEW Ns, QueuedOnce(Q, Ns), NEW n \in Ns, NEW m \in Ns,
         NEW k \in 1 .. Len(Q[n].items), NEW l \in 1 .. Len(Q[m].items),
         Q[n].items[k] = Q[m].items[l]
  PROVE  n = m /\ k = l
  BY DEF QueuedOnce

(* Nothing of this kind moves.                                             *)
LEMMA OwnSame ==
  ASSUME NEW Q, NEW R, NEW Ns, NEW h, NEW g, NEW Ts, NEW f, Own(Q, Ns, h, Ts, f),
         Keeps(Q, R, Ns), Grips(h, g, Ts)
  PROVE  Own(R, Ns, g, Ts, f)
<1> USE DEF Keeps, Grips
<1>1. Queued(R, Ns, f)
  BY DEF Own, Queued
<1>2. InHand(g, Ts, f)
  BY Zenon DEF Own, InHand
<1>3. QueuedOnce(R, Ns)
  <2> SUFFICES ASSUME NEW n \in Ns, NEW m \in Ns, NEW k \in 1 .. Len(R[n].items),
                      NEW l \in 1 .. Len(R[m].items), R[n].items[k] = R[m].items[l]
               PROVE  n = m /\ k = l
    BY Zenon DEF QueuedOnce
  <2>1. R[n].items = Q[n].items /\ R[m].items = Q[m].items /\ QueuedOnce(Q, Ns)
    BY Zenon DEF Own
  <2> QED BY <2>1 DEF QueuedOnce
<1>4. HeldOnce(g, Ts)
  BY Zenon DEF Own, HeldOnce
<1>5. NotBoth(R, Ns, g, Ts)
  BY DEF Own, NotBoth
<1>6. Found(R, Ns, g, Ts, f)
  <2>1. \A i : Queues_(Q, Ns, i) => Queues_(R, Ns, i)
    BY Zenon DEF Queues_
  <2>2. \A i : Hands_(h, Ts, i) => Hands_(g, Ts, i)
    BY Zenon DEF Hands_
  <2> QED BY Zenon, <2>1, <2>2 DEF Own, Found
<1> QED BY Zenon, <1>1, <1>2, <1>3, <1>4, <1>5, <1>6 DEF Own

(* A new item in the hands of t.                                           *)
LEMMA OwnNew ==
  ASSUME NEW Q, NEW R, NEW Ns, NEW h, NEW g, NEW Ts, NEW F, NEW f \in Seq(F), "held" \in F,
         Own(Q, Ns, h, Ts, f),
         Keeps(Q, R, Ns),
         NEW t \in Ts, h[t] = 0, g[t] = Len(f) + 1, GripsBut(h, g, Ts, t)
  PROVE  Own(R, Ns, g, Ts, Append(f, "held"))
<1> USE DEF Keeps, GripsBut
<1> DEFINE e == Append(f, "held")
           x == Len(f) + 1
<1>1. /\ Len(f) \in Nat /\ Len(e) = x /\ e[x] = "held"
      /\ \A i \in 1 .. Len(f) : e[i] = f[i]
  BY LenFacts, AppendFacts
<1>2. /\ x \in Nat /\ x # 0 /\ x \notin 1 .. Len(f) /\ x \in 1 .. x
      /\ \A i \in 1 .. Len(f) : i \in 1 .. x
      /\ \A i \in 1 .. x : i \in 1 .. Len(f) \/ i = x
  BY <1>1
<1>3. g[t] = x
  OBVIOUS
<1> HIDE DEF e, x
<1>4. Queued(R, Ns, e)
  <2> SUFFICES ASSUME NEW n \in Ns, NEW k \in 1 .. Len(R[n].items)
               PROVE  R[n].items[k] \in 1 .. Len(e) /\ e[R[n].items[k]] = "held"
    BY Zenon DEF Queued
  <2>1. Q[n].items[k] \in 1 .. Len(f) /\ f[Q[n].items[k]] = "held"
    BY Zenon DEF Own, Queued
  <2> QED BY Zenon, <1>1, <1>2, <2>1
<1>5. InHand(g, Ts, e)
  <2> SUFFICES ASSUME NEW s \in Ts, g[s] # 0 PROVE g[s] \in 1 .. Len(e) /\ e[g[s]] = "held"
    BY Zenon DEF InHand
  <2>1. CASE s = t
    BY Zenon, <1>1, <1>2, <1>3, <2>1
  <2>2. CASE s # t
    <3>1. g[s] \in 1 .. Len(f) /\ f[g[s]] = "held"
      BY Zenon, <2>2 DEF Own, InHand
    <3> QED BY Zenon, <1>1, <1>2, <3>1
  <2> QED BY Zenon, <2>1, <2>2
<1>6. QueuedOnce(R, Ns)
  <2> SUFFICES ASSUME NEW n \in Ns, NEW m \in Ns, NEW k \in 1 .. Len(R[n].items),
                      NEW l \in 1 .. Len(R[m].items), R[n].items[k] = R[m].items[l]
               PROVE  n = m /\ k = l
    BY Zenon DEF QueuedOnce
  <2>1. R[n].items = Q[n].items /\ R[m].items = Q[m].items /\ QueuedOnce(Q, Ns)
    BY Zenon DEF Own
  <2> QED BY <2>1 DEF QueuedOnce
<1>7. HeldOnce(g, Ts)
  <2> SUFFICES ASSUME NEW r \in Ts, NEW s \in Ts, g[r] # 0, g[r] = g[s] PROVE r = s
    BY Zenon DEF HeldOnce
  <2>1. \A y \in Ts : y # t => g[y] = h[y] /\ (g[y] # 0 => g[y] \in 1 .. Len(f))
    BY Zenon DEF Own, InHand
  <2>2. CASE r = t \/ s = t
    BY Zenon, <1>2, <1>3, <2>1, <2>2
  <2>3. CASE r # t /\ s # t
    BY Zenon, <2>1, <2>3 DEF Own, HeldOnce
  <2> QED BY Zenon, <2>2, <2>3
<1>8. NotBoth(R, Ns, g, Ts)
  <2> SUFFICES ASSUME NEW n \in Ns, NEW s \in Ts, NEW k \in 1 .. Len(R[n].items)
               PROVE  R[n].items[k] # g[s]
    BY Zenon DEF NotBoth
  <2>1. Q[n].items[k] \in 1 .. Len(f)
    BY Zenon DEF Own, Queued
  <2>2. s # t => Q[n].items[k] # h[s]
    BY Zenon DEF Own, NotBoth
  <2> QED BY Zenon, <1>2, <1>3, <2>1, <2>2
<1>9. Found(R, Ns, g, Ts, e)
  <2> SUFFICES ASSUME NEW i \in 1 .. Len(e), e[i] = "held"
               PROVE  Queues_(R, Ns, i) \/ Hands_(g, Ts, i)
    BY Zenon DEF Found
  <2>1. CASE i = x
    BY Zenon, <1>3, <2>1 DEF Hands_
  <2>2. CASE i # x
    <3>1. i \in 1 .. Len(f) /\ f[i] = "held" /\ i # 0
      BY <1>1, <1>2, <2>2
    <3>2. Queues_(Q, Ns, i) => Queues_(R, Ns, i)
      BY Zenon DEF Queues_
    <3>3. Hands_(h, Ts, i) => Hands_(g, Ts, i)
      BY <3>1, Zenon DEF Hands_
    <3> QED BY Zenon, <3>1, <3>2, <3>3 DEF Own, Found
  <2> QED BY Zenon, <2>1, <2>2
<1>10. Own(R, Ns, g, Ts, e)
  BY Zenon, <1>4, <1>5, <1>6, <1>7, <1>8, <1>9 DEF Own
<1> QED BY Zenon, <1>10 DEF e

(* Appending x to the queue n of Q.                                        *)
LEMMA Grown ==
  ASSUME NEW Q, NEW R, NEW Ns, NEW n \in Ns, NEW x \in Nat, Lines(Q, Ns),
         Grows(Q, R, Ns, n, x)
  PROVE  /\ \A m \in Ns : \A k \in 1 .. Len(R[m].items) :
              \/ m = n /\ k = Len(Q[n].items) + 1 /\ R[m].items[k] = x
              \/ k \in 1 .. Len(Q[m].items) /\ R[m].items[k] = Q[m].items[k]
         /\ \A i : Queues_(Q, Ns, i) => Queues_(R, Ns, i)
         /\ Queues_(R, Ns, x)
<1> USE DEF Grows, KeepsBut, Lines
<1> DEFINE c == Q[n].items
           d == R[n].items
           z == Len(c) + 1
<1>1. Len(c) \in Nat /\ Len(d) = z /\ d[z] = x /\ \A k \in 1 .. Len(c) : d[k] = c[k]
  BY LenFacts, AppendFacts
<1>2. /\ \A k \in 1 .. Len(d) : (k = z /\ d[k] = x) \/ (k \in 1 .. Len(c) /\ d[k] = c[k])
      /\ \A k \in 1 .. Len(c) : k \in 1 .. Len(d) /\ d[k] = c[k]
      /\ z \in 1 .. Len(d)
  BY <1>1
<1> HIDE DEF c, d, z
<1>3. \A m \in Ns : \A k \in 1 .. Len(R[m].items) :
        \/ m = n /\ k = z /\ R[m].items[k] = x
        \/ k \in 1 .. Len(Q[m].items) /\ R[m].items[k] = Q[m].items[k]
  <2> SUFFICES ASSUME NEW m \in Ns, NEW k \in 1 .. Len(R[m].items)
               PROVE  \/ m = n /\ k = z /\ R[m].items[k] = x
                      \/ k \in 1 .. Len(Q[m].items) /\ R[m].items[k] = Q[m].items[k]
    OBVIOUS
  <2>1. CASE m = n
    BY Zenon, <1>2, <2>1 DEF c, d
  <2>2. CASE m # n
    BY Zenon, <2>2
  <2> QED BY Zenon, <2>1, <2>2
<1>4. \A m \in Ns : \A k \in 1 .. Len(Q[m].items) :
        k \in 1 .. Len(R[m].items) /\ R[m].items[k] = Q[m].items[k]
  <2> SUFFICES ASSUME NEW m \in Ns, NEW k \in 1 .. Len(Q[m].items)
               PROVE  k \in 1 .. Len(R[m].items) /\ R[m].items[k] = Q[m].items[k]
    OBVIOUS
  <2>1. CASE m = n
    BY Zenon, <1>2, <2>1 DEF c, d
  <2>2. CASE m # n
    BY Zenon, <2>2
  <2> QED BY Zenon, <2>1, <2>2
<1>5. \A i : Queues_(Q, Ns, i) => Queues_(R, Ns, i)
  BY <1>4, Zenon DEF Queues_
<1>6. z \in 1 .. Len(R[n].items) /\ R[n].items[z] = x
  BY Zenon, <1>1, <1>2 DEF d
<1>7. Queues_(R, Ns, x)
  BY <1>6, Zenon DEF Queues_
<1> QED BY Zenon, <1>3, <1>5, <1>7 DEF z, c

(* A queue grows by an item no queue holds.                                *)
LEMMA GrownOnce ==
  ASSUME NEW Q, NEW R, NEW Ns, NEW n \in Ns, NEW x \in Nat, Lines(Q, Ns),
         Grows(Q, R, Ns, n, x),
         QueuedOnce(Q, Ns), ~Queues_(Q, Ns, x)
  PROVE  QueuedOnce(R, Ns)
<1> DEFINE z == Len(Q[n].items) + 1
<1>1. \A m \in Ns : \A k \in 1 .. Len(R[m].items) :
        \/ m = n /\ k = z /\ R[m].items[k] = x
        \/ k \in 1 .. Len(Q[m].items) /\ R[m].items[k] = Q[m].items[k]
  BY Zenon, Grown
<1> HIDE DEF z
<1> SUFFICES ASSUME NEW l \in Ns, NEW m \in Ns, NEW j \in 1 .. Len(R[l].items),
                    NEW k \in 1 .. Len(R[m].items), R[l].items[j] = R[m].items[k]
             PROVE  l = m /\ j = k
  BY Zenon DEF QueuedOnce
<1>2. \/ l = n /\ j = z /\ R[l].items[j] = x
      \/ j \in 1 .. Len(Q[l].items) /\ R[l].items[j] = Q[l].items[j]
  BY Zenon, <1>1
<1>3. \/ m = n /\ k = z /\ R[m].items[k] = x
      \/ k \in 1 .. Len(Q[m].items) /\ R[m].items[k] = Q[m].items[k]
  BY Zenon, <1>1
<1>4. CASE j \in 1 .. Len(Q[l].items) /\ R[l].items[j] = Q[l].items[j]
  <2>1. Q[l].items[j] # x
    BY Zenon, <1>4 DEF Queues_
  <2>2. k \in 1 .. Len(Q[m].items) /\ R[m].items[k] = Q[m].items[k]
    BY Zenon, <1>3, <1>4, <2>1
  <2>3. Q[l].items[j] = Q[m].items[k]
    BY Zenon, <1>4, <2>2
  <2> QED BY <1>4, <2>2, <2>3 DEF QueuedOnce
<1>5. CASE l = n /\ j = z /\ R[l].items[j] = x
  <2>1. m = n /\ k = z
    <3> SUFFICES ASSUME k \in 1 .. Len(Q[m].items), R[m].items[k] = Q[m].items[k] PROVE FALSE
      BY Zenon, <1>3
    <3>1. Q[m].items[k] # x
      BY Zenon DEF Queues_
    <3> QED BY Zenon, <1>5, <3>1
  <2> QED BY Zenon, <1>5, <2>1
<1> QED BY Zenon, <1>2, <1>4, <1>5

(* A new item at the end of queue n.                                       *)
LEMMA OwnNewQueued ==
  ASSUME NEW Q, NEW R, NEW Ns, NEW h, NEW g, NEW Ts, NEW F, NEW f \in Seq(F), "held" \in F,
         Own(Q, Ns, h, Ts, f), Lines(Q, Ns), NEW n \in Ns, Grows(Q, R, Ns, n, Len(f) + 1),
         Grips(h, g, Ts)
  PROVE  Own(R, Ns, g, Ts, Append(f, "held"))
<1> DEFINE e == Append(f, "held")
           x == Len(f) + 1
<1>1. /\ Len(f) \in Nat /\ Len(e) = x /\ e[x] = "held"
      /\ \A i \in 1 .. Len(f) : e[i] = f[i]
  BY LenFacts, AppendFacts
<1>2. /\ x \in Nat /\ x # 0 /\ x \notin 1 .. Len(f) /\ x \in 1 .. x
      /\ \A i \in 1 .. Len(f) : i \in 1 .. x
      /\ \A i \in 1 .. x : i \in 1 .. Len(f) \/ i = x
  BY <1>1
<1>3. Grows(Q, R, Ns, n, x)
  OBVIOUS
<1> HIDE DEF e, x
<1>4. ~Queues_(Q, Ns, x)
  BY Zenon, <1>2 DEF Own, Queued, Queues_
<1>5. /\ \A m \in Ns : \A k \in 1 .. Len(R[m].items) :
           \/ m = n /\ k = Len(Q[n].items) + 1 /\ R[m].items[k] = x
           \/ k \in 1 .. Len(Q[m].items) /\ R[m].items[k] = Q[m].items[k]
      /\ \A i : Queues_(Q, Ns, i) => Queues_(R, Ns, i)
      /\ Queues_(R, Ns, x)
  BY Zenon, <1>2, <1>3, Grown
<1>6. \A m \in Ns : \A k \in 1 .. Len(Q[m].items) :
        Q[m].items[k] \in 1 .. Len(f) /\ f[Q[m].items[k]] = "held"
  BY Zenon DEF Own, Queued
<1>7. Queued(R, Ns, e)
  <2> SUFFICES ASSUME NEW m \in Ns, NEW k \in 1 .. Len(R[m].items)
               PROVE  R[m].items[k] \in 1 .. Len(e) /\ e[R[m].items[k]] = "held"
    BY Zenon DEF Queued
  <2>1. \/ R[m].items[k] = x
        \/ R[m].items[k] \in 1 .. Len(f) /\ f[R[m].items[k]] = "held"
    <3>1. R[m].items[k] = x \/ (k \in 1 .. Len(Q[m].items) /\ R[m].items[k] = Q[m].items[k])
      BY Zenon, <1>5
    <3> QED BY Zenon, <1>6, <3>1
  <2> QED BY Zenon, <1>1, <1>2, <2>1
<1>8. \A t \in Ts : g[t] = h[t] /\ (h[t] # 0 => h[t] \in 1 .. Len(f) /\ f[h[t]] = "held")
  BY Zenon DEF Own, InHand, Grips
<1>9. InHand(g, Ts, e)
  <2> SUFFICES ASSUME NEW t \in Ts, h[t] # 0 PROVE h[t] \in 1 .. Len(e) /\ e[h[t]] = "held"
    BY Zenon, <1>8 DEF InHand
  <2> QED BY Zenon, <1>1, <1>2, <1>8
<1>10. QueuedOnce(R, Ns)
  BY Zenon, <1>2, <1>3, <1>4, GrownOnce DEF Own
<1>11. HeldOnce(g, Ts)
  BY Zenon, <1>8 DEF Own, HeldOnce
<1>12. NotBoth(R, Ns, g, Ts)
  <2> SUFFICES ASSUME NEW m \in Ns, NEW t \in Ts, NEW k \in 1 .. Len(R[m].items)
               PROVE  R[m].items[k] # h[t]
    BY <1>8 DEF NotBoth
  <2>1. R[m].items[k] = x \/ (k \in 1 .. Len(Q[m].items) /\ R[m].items[k] = Q[m].items[k])
    BY Zenon, <1>5
  <2>2. x # h[t]
    BY Zenon, <1>2, <1>8
  <2>3. k \in 1 .. Len(Q[m].items) => Q[m].items[k] # h[t]
    BY Zenon DEF Own, NotBoth
  <2> QED BY Zenon, <2>1, <2>2, <2>3
<1>13. Found(R, Ns, g, Ts, e)
  <2> SUFFICES ASSUME NEW i \in 1 .. Len(e), e[i] = "held"
               PROVE  Queues_(R, Ns, i) \/ Hands_(g, Ts, i)
    BY Zenon DEF Found
  <2>1. i # x => i \in 1 .. Len(f) /\ f[i] = "held"
    BY Zenon, <1>1, <1>2
  <2>2. Hands_(h, Ts, i) => Hands_(g, Ts, i)
    BY <1>8, Zenon DEF Hands_
  <2>3. i # x => Queues_(Q, Ns, i) \/ Hands_(h, Ts, i)
    BY Zenon, <2>1 DEF Own, Found
  <2> QED BY Zenon, <1>5, <2>2, <2>3
<1>14. Own(R, Ns, g, Ts, e)
  BY Zenon, <1>7, <1>9, <1>10, <1>11, <1>12, <1>13 DEF Own
<1> QED BY Zenon, <1>14 DEF e

(* t puts what it holds, x, at the end of queue n.                         *)
Hands(Q, R, Ns, h, g, Ts, F, f, t, n, x) ==
  /\ f \in Seq(F) /\ Own(Q, Ns, h, Ts, f) /\ Lines(Q, Ns)
  /\ t \in Ts /\ x # 0 /\ h[t] = x /\ g[t] = 0 /\ GripsBut(h, g, Ts, t)
  /\ n \in Ns /\ Grows(Q, R, Ns, n, x)

LEMMA OwnPut ==
  ASSUME NEW Q, NEW R, NEW Ns, NEW h, NEW g, NEW Ts, NEW F, NEW f, NEW t, NEW n, NEW x,
         Hands(Q, R, Ns, h, g, Ts, F, f, t, n, x)
  PROVE  Own(R, Ns, g, Ts, f) /\ f[x] = "held"
<1> SUFFICES ASSUME f \in Seq(F), Own(Q, Ns, h, Ts, f), Lines(Q, Ns), t \in Ts, x # 0, h[t] = x,
                    g[t] = 0, GripsBut(h, g, Ts, t), n \in Ns, Grows(Q, R, Ns, n, x)
             PROVE  Own(R, Ns, g, Ts, f) /\ f[x] = "held"
  BY Zenon DEF Hands
<1>1. Len(f) \in Nat /\ x \in 1 .. Len(f) /\ f[x] = "held" /\ Grows(Q, R, Ns, n, x)
  BY Zenon, LenFacts DEF Own, InHand
<1>2. x \in Nat /\ x # 0
  BY <1>1
<1>4. ~Queues_(Q, Ns, x)
  BY Zenon DEF Own, NotBoth, Queues_
<1>5. /\ \A m \in Ns : \A k \in 1 .. Len(R[m].items) :
           \/ m = n /\ k = Len(Q[n].items) + 1 /\ R[m].items[k] = x
           \/ k \in 1 .. Len(Q[m].items) /\ R[m].items[k] = Q[m].items[k]
      /\ \A i : Queues_(Q, Ns, i) => Queues_(R, Ns, i)
      /\ Queues_(R, Ns, x)
  BY <1>1, <1>2, Grown, SMTT(40)
<1>6. \A s \in Ts : s # t => g[s] = h[s] /\ (h[s] # 0 => h[s] # x)
  BY Zenon DEF Own, HeldOnce, GripsBut
<1>7. Queued(R, Ns, f)
  <2> SUFFICES ASSUME NEW m \in Ns, NEW k \in 1 .. Len(R[m].items)
               PROVE  R[m].items[k] \in 1 .. Len(f) /\ f[R[m].items[k]] = "held"
    BY Zenon DEF Queued
  <2>1. R[m].items[k] = x \/ (k \in 1 .. Len(Q[m].items) /\ R[m].items[k] = Q[m].items[k])
    BY Zenon, <1>5
  <2> QED BY Zenon, <1>1, <2>1 DEF Own, Queued
<1>8. InHand(g, Ts, f)
  BY Zenon, <1>6 DEF Own, InHand
<1>9. QueuedOnce(R, Ns)
  BY Zenon, <1>1, <1>2, <1>4, GrownOnce DEF Own
<1>10. HeldOnce(g, Ts)
  BY Zenon, <1>6 DEF Own, HeldOnce
<1>11. NotBoth(R, Ns, g, Ts)
  <2> SUFFICES ASSUME NEW m \in Ns, NEW s \in Ts, NEW k \in 1 .. Len(R[m].items)
               PROVE  R[m].items[k] # g[s]
    BY Zenon DEF NotBoth
  <2>1. R[m].items[k] = x \/ (k \in 1 .. Len(Q[m].items) /\ R[m].items[k] = Q[m].items[k])
    BY Zenon, <1>5
  <2>2. x # g[s]
    BY Zenon, <1>2, <1>6
  <2>3. k \in 1 .. Len(Q[m].items) => Q[m].items[k] # h[s] /\ Q[m].items[k] # 0
    <3>1. k \in 1 .. Len(Q[m].items) => Q[m].items[k] \in 1 .. Len(f)
      BY Zenon DEF Own, Queued
    <3> QED BY <1>1, <3>1 DEF Own, NotBoth
  <2> QED BY Zenon, <1>6, <2>1, <2>2, <2>3
<1>12. Found(R, Ns, g, Ts, f)
  <2> SUFFICES ASSUME NEW i \in 1 .. Len(f), f[i] = "held"
               PROVE  Queues_(R, Ns, i) \/ Hands_(g, Ts, i)
    BY Zenon DEF Found
  <2>1. Queues_(Q, Ns, i) \/ Hands_(h, Ts, i)
    BY Zenon DEF Own, Found
  <2>2. Hands_(h, Ts, i) => i = x \/ Hands_(g, Ts, i)
    BY <1>6, Zenon DEF Hands_
  <2> QED BY Zenon, <1>5, <2>1, <2>2
<1> QED BY Zenon, <1>1, <1>7, <1>8, <1>9, <1>10, <1>11, <1>12 DEF Own

(* t takes the head of queue n.                                            *)
LEMMA OwnTake ==
  ASSUME NEW Q, NEW R, NEW Ns, NEW h, NEW g, NEW Ts, NEW F, NEW f \in Seq(F),
         Own(Q, Ns, h, Ts, f), Lines(Q, Ns), NEW n \in Ns, Shrinks(Q, R, Ns, n),
         NEW t \in Ts, h[t] = 0, g[t] = Head(Q[n].items), GripsBut(h, g, Ts, t)
  PROVE  Own(R, Ns, g, Ts, f) /\ g[t] \in 1 .. Len(f)
<1> DEFINE c == Q[n].items
           d == R[n].items
           x == Head(c)
<1>1. /\ c \in Seq(Nat) /\ Len(c) \in Nat /\ Len(c) > 0 /\ x = c[1]
      /\ Len(d) = Len(c) - 1 /\ \A k \in 1 .. Len(d) : d[k] = c[k + 1]
  <2>1. c \in Seq(Nat) /\ c # <<>> /\ d = Tail(c)
    BY Zenon DEF Lines, Shrinks
  <2> HIDE DEF c, d
  <2>2. Len(c) \in Nat /\ Len(c) > 0 /\ Head(c) = c[1]
    BY <2>1, EmptyFacts, LenFacts
  <2>3. Len(d) = Len(c) - 1 /\ \A k \in 1 .. Len(d) : d[k] = c[k + 1]
    BY Zenon, <2>1, <2>2, TailFacts
  <2> QED BY Zenon, <2>1, <2>2, <2>3
<1>2. /\ 1 \in 1 .. Len(c)
      /\ \A k \in 1 .. Len(d) : k + 1 \in 1 .. Len(c) /\ k + 1 # 1 /\ d[k] = c[k + 1]
      /\ \A k \in 1 .. Len(c) : k = 1 \/ (k - 1 \in 1 .. Len(d) /\ d[k - 1] = c[k])
  BY <1>1
<1>3. Len(f) \in Nat /\ x \in 1 .. Len(f) /\ f[x] = "held"
  <2>1. c[1] \in 1 .. Len(f) /\ f[c[1]] = "held"
    BY Zenon, <1>2 DEF Own, Queued
  <2> QED BY Zenon, <1>1, <2>1, LenFacts
<1>4. x # 0 /\ g[t] = x
  BY <1>3
<1> HIDE DEF c, d, x
<1>5. \A m \in Ns : m # n => R[m].items = Q[m].items
  BY Zenon DEF Shrinks, KeepsBut
<1>6. \A m \in Ns : \A k \in 1 .. Len(R[m].items) :
        \E l \in 1 .. Len(Q[m].items) : /\ l = (IF m = n THEN k + 1 ELSE k)
                                        /\ R[m].items[k] = Q[m].items[l]
                                        /\ ~(m = n /\ l = 1)
  <2> SUFFICES ASSUME NEW m \in Ns, NEW k \in 1 .. Len(R[m].items)
               PROVE  \E l \in 1 .. Len(Q[m].items) :
                        /\ l = (IF m = n THEN k + 1 ELSE k)
                        /\ R[m].items[k] = Q[m].items[l] /\ ~(m = n /\ l = 1)
    OBVIOUS
  <2>1. CASE m = n
    <3>1. k + 1 \in 1 .. Len(Q[m].items) /\ k + 1 # 1 /\ R[m].items[k] = Q[m].items[k + 1]
      BY Zenon, <1>2, <2>1 DEF c, d
    <3> QED BY Zenon, <2>1, <3>1
  <2>2. CASE m # n
    BY Zenon, <1>5, <2>2
  <2> QED BY Zenon, <2>1, <2>2
<1>7. \A m \in Ns : \A k \in 1 .. Len(R[m].items) : R[m].items[k] # x
  <2> SUFFICES ASSUME NEW m \in Ns, NEW k \in 1 .. Len(R[m].items), R[m].items[k] = x
               PROVE  FALSE
    OBVIOUS
  <2>1. PICK l \in 1 .. Len(Q[m].items) : R[m].items[k] = Q[m].items[l] /\ ~(m = n /\ l = 1)
    BY SMTT(40), <1>6
  <2>2. 1 \in 1 .. Len(Q[n].items) /\ Q[n].items[1] = x
    BY Zenon, <1>1, <1>2 DEF c
  <2> QED BY <2>1, <2>2 DEF Own, QueuedOnce
<1>8. \A s \in Ts : s # t => g[s] = h[s]
  BY Zenon DEF GripsBut
<1>9. \A s \in Ts : h[s] # x
  BY Zenon, <1>1, <1>2 DEF Own, NotBoth, c
<1>10. Queued(R, Ns, f)
  <2> SUFFICES ASSUME NEW m \in Ns, NEW k \in 1 .. Len(R[m].items)
               PROVE  R[m].items[k] \in 1 .. Len(f) /\ f[R[m].items[k]] = "held"
    BY Zenon DEF Queued
  <2>1. PICK l \in 1 .. Len(Q[m].items) : R[m].items[k] = Q[m].items[l]
    BY <1>6
  <2> QED BY Zenon, <2>1 DEF Own, Queued
<1>11. InHand(g, Ts, f)
  BY Zenon, <1>3, <1>4, <1>8 DEF Own, InHand
<1>12. QueuedOnce(R, Ns)
  <2> SUFFICES ASSUME NEW l \in Ns, NEW m \in Ns, NEW j \in 1 .. Len(R[l].items),
                      NEW k \in 1 .. Len(R[m].items), R[l].items[j] = R[m].items[k]
               PROVE  l = m /\ j = k
    BY Zenon DEF QueuedOnce
  <2>1. PICK a \in 1 .. Len(Q[l].items) : a = (IF l = n THEN j + 1 ELSE j) /\ R[l].items[j] = Q[l].items[a]
    BY SMTT(40), <1>6
  <2>2. PICK b \in 1 .. Len(Q[m].items) : b = (IF m = n THEN k + 1 ELSE k) /\ R[m].items[k] = Q[m].items[b]
    BY Zenon, <1>6
  <2>3. l = m /\ a = b
    <3>1. Q[l].items[a] = Q[m].items[b] /\ QueuedOnce(Q, Ns)
      BY Zenon, <2>1, <2>2 DEF Own
    <3> QED BY <3>1, Once
  <2> QED BY <2>1, <2>2, <2>3
<1>13. HeldOnce(g, Ts)
  BY Zenon, <1>4, <1>8, <1>9 DEF Own, HeldOnce
<1>14. NotBoth(R, Ns, g, Ts)
  <2> SUFFICES ASSUME NEW m \in Ns, NEW s \in Ts, NEW k \in 1 .. Len(R[m].items)
               PROVE  R[m].items[k] # g[s]
    BY Zenon DEF NotBoth
  <2>1. PICK l \in 1 .. Len(Q[m].items) : R[m].items[k] = Q[m].items[l]
    BY SMTT(40), <1>6
  <2>2. Q[m].items[l] # h[s]
    BY Zenon DEF Own, NotBoth
  <2> QED BY Zenon, <1>4, <1>7, <1>8, <2>1, <2>2
<1>15. Found(R, Ns, g, Ts, f)
  <2> SUFFICES ASSUME NEW i \in 1 .. Len(f), f[i] = "held"
               PROVE  Queues_(R, Ns, i) \/ Hands_(g, Ts, i)
    BY Zenon DEF Found
  <2>1. Queues_(Q, Ns, i) \/ Hands_(h, Ts, i)
    BY Zenon DEF Own, Found
  <2>2. i # 0
    BY <1>3
  <2>3. Hands_(h, Ts, i) => Hands_(g, Ts, i)
    BY <1>8, <2>2, Zenon DEF Hands_
  <2>4. Hands_(g, Ts, x)
    BY Zenon, <1>4 DEF Hands_
  <2>5. ASSUME NEW m \in Ns, NEW k \in 1 .. Len(Q[m].items), Q[m].items[k] = i, i # x
        PROVE  \E l \in 1 .. Len(R[m].items) : R[m].items[l] = i
    <3>1. CASE m = n
      <4>1. k # 1
        BY Zenon, <1>1, <2>5, <3>1 DEF c
      <4>2. k - 1 \in 1 .. Len(R[m].items) /\ R[m].items[k - 1] = i
        BY Zenon, <1>2, <2>5, <3>1, <4>1 DEF c, d
      <4> QED BY Zenon, <4>2
    <3>2. CASE m # n
      BY Zenon, <1>5, <2>5, <3>2
    <3> QED BY Zenon, <3>1, <3>2
  <2>6. Queues_(Q, Ns, i) => i = x \/ Queues_(R, Ns, i)
    BY <2>5, Zenon DEF Queues_
  <2> QED BY Zenon, <2>1, <2>3, <2>4, <2>6
<1> QED BY Zenon, <1>3, <1>4, <1>10, <1>11, <1>12, <1>13, <1>14, <1>15 DEF Own

(* What t holds comes to its end.                                          *)
LEMMA OwnEnd ==
  ASSUME NEW Q, NEW R, NEW Ns, NEW h, NEW g, NEW Ts, NEW F, NEW f \in Seq(F),
         Own(Q, Ns, h, Ts, f), Keeps(Q, R, Ns),
         NEW t \in Ts, h[t] # 0, g[t] = 0, GripsBut(h, g, Ts, t), NEW fate \in F, fate # "held"
  PROVE  Own(R, Ns, g, Ts, [f EXCEPT ![h[t]] = fate])
<1> DEFINE x == h[t]
           e == [f EXCEPT ![x] = fate]
<1>1. Len(f) \in Nat /\ x \in 1 .. Len(f) /\ f[x] = "held"
  BY Zenon, LenFacts DEF Own, InHand
<1>2. e \in Seq(F) /\ Len(e) = Len(f) /\ e[x] = fate /\ \A i \in 1 .. Len(f) : i # x => e[i] = f[i]
  BY <1>1, LenFacts
<1> HIDE DEF e, x
<1>3. \A n \in Ns : R[n].items = Q[n].items
  BY Zenon DEF Keeps
<1>4. \A n \in Ns : \A k \in 1 .. Len(Q[n].items) : Q[n].items[k] # x
  BY Zenon DEF Own, NotBoth, x
<1>5. \A s \in Ts : s # t => g[s] = h[s] /\ (h[s] # 0 => h[s] # x)
  BY Zenon DEF Own, HeldOnce, GripsBut, x
<1>6. Queued(R, Ns, e)
  <2> SUFFICES ASSUME NEW n \in Ns, NEW k \in 1 .. Len(Q[n].items)
               PROVE  Q[n].items[k] \in 1 .. Len(e) /\ e[Q[n].items[k]] = "held"
    BY Zenon, <1>3 DEF Queued
  <2>1. Q[n].items[k] \in 1 .. Len(f) /\ f[Q[n].items[k]] = "held" /\ Q[n].items[k] # x
    BY Zenon, <1>4 DEF Own, Queued
  <2> QED BY Zenon, <1>2, <2>1
<1>7. InHand(g, Ts, e)
  <2> SUFFICES ASSUME NEW s \in Ts, g[s] # 0 PROVE g[s] \in 1 .. Len(e) /\ e[g[s]] = "held"
    BY Zenon DEF InHand
  <2>1. g[s] = h[s] /\ h[s] # x
    BY Zenon, <1>5
  <2>2. h[s] \in 1 .. Len(f) /\ f[h[s]] = "held"
    BY Zenon, <2>1 DEF Own, InHand
  <2> QED BY Zenon, <1>2, <2>1, <2>2
<1>8. QueuedOnce(R, Ns)
  <2> SUFFICES ASSUME NEW l \in Ns, NEW m \in Ns, NEW j \in 1 .. Len(R[l].items),
                      NEW k \in 1 .. Len(R[m].items), R[l].items[j] = R[m].items[k]
               PROVE  l = m /\ j = k
    BY Zenon DEF QueuedOnce
  <2>1. R[l].items = Q[l].items /\ R[m].items = Q[m].items /\ QueuedOnce(Q, Ns)
    BY Zenon, <1>3 DEF Own
  <2> QED BY <2>1 DEF QueuedOnce
<1>9. HeldOnce(g, Ts)
  BY Zenon, <1>5 DEF Own, HeldOnce
<1>10. NotBoth(R, Ns, g, Ts)
  <2> SUFFICES ASSUME NEW m \in Ns, NEW s \in Ts, NEW k \in 1 .. Len(Q[m].items)
               PROVE  Q[m].items[k] # g[s]
    BY Zenon, <1>3 DEF NotBoth
  <2>1. Q[m].items[k] \in 1 .. Len(f) /\ Q[m].items[k] # h[s]
    BY Zenon DEF Own, NotBoth, Queued
  <2> QED BY <1>1, <1>5, <2>1
<1>11. Found(R, Ns, g, Ts, e)
  <2> SUFFICES ASSUME NEW i \in 1 .. Len(e), e[i] = "held"
               PROVE  Queues_(R, Ns, i) \/ Hands_(g, Ts, i)
    BY Zenon DEF Found
  <2>1. i # x /\ f[i] = "held" /\ i \in 1 .. Len(f)
    BY Zenon, <1>2
  <2>2. Queues_(Q, Ns, i) \/ Hands_(h, Ts, i)
    BY Zenon, <2>1 DEF Own, Found
  <2>3. Queues_(Q, Ns, i) => Queues_(R, Ns, i)
    BY <1>3, Zenon DEF Queues_
  <2>4. Hands_(h, Ts, i) => Hands_(g, Ts, i)
    BY <1>5, <2>1, Zenon DEF Hands_, x
  <2> QED BY Zenon, <2>2, <2>3, <2>4
<1>12. Own(R, Ns, g, Ts, e)
  BY Zenon, <1>6, <1>7, <1>8, <1>9, <1>10, <1>11 DEF Own
<1> QED BY Zenon, <1>12 DEF e, x

(* Who holds an item.                                                      *)
LEMMA OwnersAre ==
  ASSUME NEW Ns, NEW Ts, NEW F, NEW f \in Seq(F), Own(q, Ns, hand, Ts, f),
         \A n \in Ns : Items(n) \in Seq(Nat), NEW i \in 1 .. Len(f)
  PROVE  IF f[i] = "held" THEN \E p \in Owners(i, Ns, Ts) : Owners(i, Ns, Ts) = {p}
                          ELSE Owners(i, Ns, Ts) = {}
<1> DEFINE A == {p \in UNION {{n} \X DOMAIN Items(n) : n \in Ns} : Items(p[1])[p[2]] = i}
           B == {<<t, 0>> : t \in {u \in Ts : hand[u] = i}}
<1>0. Len(f) \in Nat /\ i # 0
  BY LenFacts
<1>1. Owners(i, Ns, Ts) = A \cup B
  BY Zenon DEF Owners
<1>2. \A n \in Ns : DOMAIN Items(n) = 1 .. Len(q[n].items)
  BY Zenon, LenFacts DEF Items
<1>3. ASSUME NEW p \in A
      PROVE  \E n \in Ns : \E k \in 1 .. Len(q[n].items) : p = <<n, k>> /\ q[n].items[k] = i
  <2>1. PICK n \in Ns : p \in {n} \X DOMAIN Items(n)
    OBVIOUS
  <2>2. PICK k \in DOMAIN Items(n) : p = <<n, k>>
    BY <2>1
  <2> QED BY Zenon, <1>2, <2>2 DEF Items
<1>4. ASSUME NEW n \in Ns, NEW k \in 1 .. Len(q[n].items), q[n].items[k] = i
      PROVE  <<n, k>> \in A
  BY <1>2, <1>4 DEF Items
<1> HIDE DEF A
<1>5. CASE f[i] # "held"
  <2>1. A = {}
    BY Zenon, <1>3, <1>5 DEF Own, Queued
  <2>2. B = {}
    BY Zenon, <1>0, <1>5 DEF Own, InHand
  <2> HIDE DEF B
  <2> QED BY Zenon, <1>1, <1>5, <2>1, <2>2
<1>6. ASSUME NEW n \in Ns, NEW k \in 1 .. Len(q[n].items), q[n].items[k] = i
      PROVE  \E p \in Owners(i, Ns, Ts) : Owners(i, Ns, Ts) = {p}
  <2>1. A = {<<n, k>>}
    <3>1. ASSUME NEW p \in A PROVE p = <<n, k>>
      <4>1. PICK m \in Ns, l \in Nat : l \in 1 .. Len(q[m].items) /\ p = <<m, l>> /\ q[m].items[l] = i
        BY <1>3
      <4>2. m = n /\ l = k
        <5>1. QueuedOnce(q, Ns) /\ q[m].items[l] = q[n].items[k]
          BY Zenon, <1>6, <4>1 DEF Own
        <5> QED BY <4>1, <5>1, Once
      <4> QED BY Zenon, <4>1, <4>2
    <3>2. <<n, k>> \in A
      BY Zenon, <1>4, <1>6
    <3> QED BY Zenon, <3>1, <3>2
  <2>2. B = {}
    BY Zenon, <1>6 DEF Own, NotBoth
  <2> HIDE DEF B
  <2>3. Owners(i, Ns, Ts) = {<<n, k>>}
    BY Zenon, <1>1, <2>1, <2>2
  <2> QED BY Zenon, <2>3
<1>7. ASSUME NEW t \in Ts, hand[t] = i
      PROVE  \E p \in Owners(i, Ns, Ts) : Owners(i, Ns, Ts) = {p}
  <2>1. A = {}
    BY Zenon, <1>3, <1>7 DEF Own, NotBoth
  <2>2. B = {<<t, 0>>}
    <3>1. \A u \in Ts : hand[u] = i => u = t
      BY Zenon, <1>0, <1>7 DEF Own, HeldOnce
    <3> QED BY Zenon, <1>7, <3>1
  <2> HIDE DEF B
  <2>3. Owners(i, Ns, Ts) = {<<t, 0>>}
    BY Zenon, <1>1, <2>1, <2>2
  <2> QED BY Zenon, <2>3
<1>8. CASE f[i] = "held"
  <2>1. Queues_(q, Ns, i) \/ Hands_(hand, Ts, i)
    BY Zenon, <1>8 DEF Own, Found
  <2> QED BY Zenon, <1>6, <1>7, <1>8, <2>1 DEF Queues_, Hands_
<1> QED BY Zenon, <1>5, <1>8

-----------------------------------------------------------------------------
(***************************************************************************)
(* The inductive invariant.                                                *)
(***************************************************************************)
BurstQueues == {"burst", "frame", "output"}
Carriers == Workers \cup {"consumer", "output"}
Adders == Workers \cup {"consumer"}

QType(Q) ==
  /\ Q \in [Queues -> [items : Seq(Nat), open : BOOLEAN]]
  /\ \A n \in Queues : Len(Q[n].items) <= Cap[n]

Pcs == {"loop", "recv", "guard", "put", "push", "drain", "clear", "kill", "take", "work",
        "add", "sleep", "report", "exit"}

TInv ==
  /\ mode \in Modes /\ outputOn \in BOOLEAN
  /\ running \in BOOLEAN /\ sig \in BOOLEAN /\ signals \in 0 .. MaxSignals
  /\ main \in {"check", "pausing", "paused", "stopping", "shutdown"} /\ step \in 1 .. 14
  /\ QType(q)
  /\ at \in [Threads -> Pcs] /\ hand \in [Threads -> Nat]
  /\ buf \in Seq(BufferFates) /\ Len(buf) <= MaxBuffers
  /\ burst \in Seq(BurstFates) /\ left \in 0 .. MaxBursts - Len(burst)

(* Where each thread can be, and that it holds something exactly there.    *)
AtInv ==
  /\ at["source"] \in {"loop", "recv", "guard", "put", "push", "drain", "clear", "kill", "exit"}
  /\ hand["source"] # 0 <=> at["source"] \in {"guard", "put", "push"}
  /\ at["source"] \in {"put", "drain"} => mode = "file"
  /\ at["source"] \in {"recv", "guard", "push"} => mode # "file"
  /\ at["detector"] \in {"take", "work", "put", "exit"}
  /\ hand["detector"] # 0 <=> at["detector"] \in {"work", "put"}
  /\ \A t \in Adders : /\ at[t] \in {"take", "work", "add", "exit"}
                       /\ hand[t] # 0 <=> at[t] \in {"work", "add"}
  /\ at["output"] \in {"take", "work", "exit"}
  /\ hand["output"] # 0 <=> at["output"] = "work"
  /\ at["stats"] \in {"sleep", "report", "exit"} /\ hand["stats"] = 0

OwnInv ==
  /\ Own(q, {"samples"}, hand, {"source", "detector"}, buf)
  /\ Own(q, BurstQueues, hand, Carriers, burst)

(* How far main() is in its shutdown tells which queues are closed, which  *)
(* threads have ended and which queues are empty for good.                 *)
WaitInv == (main # "shutdown" => step = 1) /\ (main \in {"stopping", "shutdown"} => ~running)

OpenInv ==
  /\ q["samples"].open <=> step <= IF mode = "live" THEN 2 ELSE 1
  /\ q["burst"].open <=> step <= 5
  /\ q["frame"].open <=> step <= 8
  /\ q["output"].open <=> step <= 11

EndedInv ==
  /\ step > (IF mode = "live" THEN 1 ELSE 2) => at["source"] = "exit"
  /\ step > 3 => at["detector"] = "exit"
  /\ step > 6 => \A w \in Workers : at[w] = "exit"
  /\ step > 9 => at["consumer"] = "exit"
  /\ step > 12 => at["output"] = "exit"

EmptyInv ==
  /\ step > 4 => q["burst"].items = <<>>
  /\ step > 7 => q["frame"].items = <<>>
  /\ step > 10 => q["output"].items = <<>>

CtlInv == WaitInv /\ OpenInv /\ EndedInv /\ EmptyInv

(* No item has met a closed queue where the code would lose it.            *)
FateInv ==
  /\ \A i \in 1 .. Len(burst) : burst[i] \notin {"leaked", "refused"}
  /\ mode = "live" => \A i \in 1 .. Len(buf) : buf[i] # "leaked"

(* A file without an interruption: nothing stops before its source.        *)
FileInv ==
  mode = "file" /\ signals = 0 =>
    /\ ~running \/ sig \/ main \in {"stopping", "shutdown"} => at["source"] \in {"kill", "exit"}
    /\ at["source"] \in {"drain", "clear", "kill", "exit"} => Len(buf) = MaxBuffers
    /\ at["source"] \in {"clear", "kill", "exit"} => q["samples"].items = <<>>
    /\ \A i \in 1 .. Len(buf) : buf[i] \in {"held", "fed"}

Inv == TInv /\ AtInv /\ OwnInv /\ CtlInv /\ FateInv /\ FileInv

-----------------------------------------------------------------------------
(* The operations of the shutdown, one by one.                             *)
LEMMA PlanIs ==
  /\ Len(Plan) = 13
  /\ Plan[1] = IF mode = "live" THEN <<"join", {"source"}>> ELSE <<"close", "samples">>
  /\ Plan[2] = IF mode = "live" THEN <<"close", "samples">> ELSE <<"join", {"source"}>>
  /\ Plan[3] = <<"join", {"detector"}>>
  /\ Plan[4] = <<"drain", "burst">> /\ Plan[5] = <<"close", "burst">>
  /\ Plan[6] = <<"join", Workers>>
  /\ Plan[7] = <<"drain", "frame">> /\ Plan[8] = <<"close", "frame">>
  /\ Plan[9] = <<"join", {"consumer"}>>
  /\ Plan[10] = <<"drain", "output">> /\ Plan[11] = <<"close", "output">>
  /\ Plan[12] = <<"join", {"output"}>>
  /\ Plan[13] = <<"join", {"stats"}>>
<1>1. CASE mode = "live"
  BY <1>1, SMTT(30) DEF Plan, InputPlan, Stage
<1>2. CASE mode # "live"
  BY <1>2, SMTT(30) DEF Plan, InputPlan, Stage
<1> QED BY Zenon, <1>1, <1>2

Pushed(Q, n, x) == [Q EXCEPT ![n].items = Append(@, x)]
Popped(Q, n) == [Q EXCEPT ![n].items = Tail(@)]
Closed(Q, n) == [Q EXCEPT ![n].open = FALSE]

LEMMA QGrow ==
  ASSUME NEW Q, QType(Q), NEW n \in Queues, NEW x \in Nat, Len(Q[n].items) < Cap[n]
  PROVE  /\ QType(Pushed(Q, n, x)) /\ Pushed(Q, n, x)[n].items = Append(Q[n].items, x) /\ Pushed(Q, n, x)[n].open = Q[n].open
         /\ \A m \in Queues : m # n => Pushed(Q, n, x)[m] = Q[m]
<1> DEFINE R == Pushed(Q, n, x)
           c == Append(Q[n].items, x)
           s == [Q[n] EXCEPT !.items = c]
<1>1. Q[n] \in [items : Seq(Nat), open : BOOLEAN] /\ Q[n].items \in Seq(Nat) /\ Len(Q[n].items) \in Nat
  BY Zenon, LenFacts DEF QType
<1>2. c \in Seq(Nat) /\ Len(c) = Len(Q[n].items) + 1
  BY <1>1, AppendFacts
<1>3. R = [Q EXCEPT ![n] = s]
  BY Zenon DEF QType, Pushed
<1> HIDE DEF c
<1>4. s \in [items : Seq(Nat), open : BOOLEAN] /\ s.items = c /\ s.open = Q[n].open
  BY Zenon, <1>1, <1>2
<1>5. Len(c) <= Cap[n]
  BY <1>1, <1>2, PipelineAssumption
<1> HIDE DEF s, R
<1>6. R \in [Queues -> [items : Seq(Nat), open : BOOLEAN]] /\ R[n] = s /\ \A m \in Queues : m # n => R[m] = Q[m]
  BY Zenon, <1>3, <1>4 DEF QType
<1>7. QType(R)
  BY Zenon, <1>4, <1>5, <1>6 DEF QType
<1> QED BY Zenon, <1>4, <1>6, <1>7 DEF c, R

LEMMA QShrink ==
  ASSUME NEW Q, QType(Q), NEW n \in Queues, Q[n].items # <<>>
  PROVE  /\ QType(Popped(Q, n)) /\ Popped(Q, n)[n].items = Tail(Q[n].items) /\ Popped(Q, n)[n].open = Q[n].open
         /\ \A m \in Queues : m # n => Popped(Q, n)[m] = Q[m]
<1> DEFINE R == Popped(Q, n)
           c == Tail(Q[n].items)
           s == [Q[n] EXCEPT !.items = c]
<1>1. Q[n] \in [items : Seq(Nat), open : BOOLEAN] /\ Q[n].items \in Seq(Nat) /\ Len(Q[n].items) \in Nat
  BY Zenon, LenFacts DEF QType
<1>2. c \in Seq(Nat) /\ Len(c) = Len(Q[n].items) - 1
  BY Zenon, <1>1, TailFacts
<1>3. R = [Q EXCEPT ![n] = s]
  BY Zenon DEF QType, Popped
<1> HIDE DEF c
<1>4. s \in [items : Seq(Nat), open : BOOLEAN] /\ s.items = c /\ s.open = Q[n].open
  BY Zenon, <1>1, <1>2
<1>5. Len(c) <= Cap[n]
  <2>1. Len(Q[n].items) <= Cap[n] /\ Cap[n] \in Nat
    BY Zenon, PipelineAssumption DEF QType
  <2> QED BY <1>1, <1>2, <2>1
<1> HIDE DEF s, R
<1>6. R \in [Queues -> [items : Seq(Nat), open : BOOLEAN]] /\ R[n] = s /\ \A m \in Queues : m # n => R[m] = Q[m]
  BY Zenon, <1>3, <1>4 DEF QType
<1>7. QType(R)
  BY Zenon, <1>4, <1>5, <1>6 DEF QType
<1> QED BY Zenon, <1>4, <1>6, <1>7 DEF c, R

LEMMA QClose ==
  ASSUME NEW Q, QType(Q), NEW n \in Queues
  PROVE  /\ QType(Closed(Q, n)) /\ Closed(Q, n)[n].items = Q[n].items /\ Closed(Q, n)[n].open = FALSE
         /\ \A m \in Queues : m # n => Closed(Q, n)[m] = Q[m]
<1> DEFINE R == Closed(Q, n)
           s == [Q[n] EXCEPT !.open = FALSE]
<1>1. Q[n] \in [items : Seq(Nat), open : BOOLEAN]
  BY Zenon DEF QType
<1>3. R = [Q EXCEPT ![n] = s]
  BY Zenon DEF QType, Closed
<1>4. s \in [items : Seq(Nat), open : BOOLEAN] /\ s.items = Q[n].items /\ s.open = FALSE
  BY Zenon, <1>1
<1> HIDE DEF s, R
<1>6. R \in [Queues -> [items : Seq(Nat), open : BOOLEAN]] /\ R[n] = s /\ \A m \in Queues : m # n => R[m] = Q[m]
  BY Zenon, <1>3, <1>4 DEF QType
<1>7. QType(R)
  BY Zenon, <1>4, <1>6 DEF QType
<1> QED BY Zenon, <1>4, <1>6, <1>7 DEF R

LEMMA ThreadNames ==
  /\ {"source", "detector", "consumer", "output", "stats"} \subseteq Threads
  /\ Workers \subseteq Threads /\ Adders \subseteq Threads /\ Carriers \subseteq Threads
  /\ \A w \in Workers : w \notin {"source", "detector", "consumer", "output", "stats"}
  /\ \A t \in Adders : t \notin {"source", "detector", "output", "stats"}
  /\ \A t \in Carriers : t \notin {"source", "detector", "stats"}
  BY Zenon, PipelineAssumption DEF Threads, Adders, Carriers

LEMMA QueueNames ==
  /\ "samples" \in Queues /\ "burst" \in Queues /\ "frame" \in Queues /\ "output" \in Queues
  /\ BurstQueues \subseteq Queues /\ "samples" \notin BurstQueues
  /\ "burst" \in BurstQueues /\ "frame" \in BurstQueues /\ "output" \in BurstQueues
  /\ \A n \in Queues : n = "samples" \/ n \in BurstQueues
  BY Zenon DEF Queues, BurstQueues

(* One entry of a function changes.                                        *)
LEMMA Put ==
  ASSUME NEW S, NEW T, NEW f \in [S -> T], NEW x \in S, NEW y \in T
  PROVE  /\ [f EXCEPT ![x] = y] \in [S -> T] /\ [f EXCEPT ![x] = y][x] = y
         /\ \A s \in S : s # x => [f EXCEPT ![x] = y][s] = f[s]
  OBVIOUS

LEMMA SeqPut ==
  ASSUME NEW F, NEW f \in Seq(F), NEW x \in 1 .. Len(f), NEW y \in F
  PROVE  /\ [f EXCEPT ![x] = y] \in Seq(F) /\ Len([f EXCEPT ![x] = y]) = Len(f)
         /\ \A i \in 1 .. Len(f) : [f EXCEPT ![x] = y][i] = IF i = x THEN y ELSE f[i]
  BY LenFacts

LEMMA GotoFacts ==
  ASSUME TInv, NEW t \in Threads, NEW pc \in Pcs, Goto(t, pc)
  PROVE  /\ at' \in [Threads -> Pcs] /\ at'[t] = pc
         /\ \A s \in Threads : s # t => at'[s] = at[s]
  BY Zenon, Put DEF TInv, Goto

LEMMA HoldsFacts ==
  ASSUME TInv, NEW t \in Threads, NEW x \in Nat, Holds(t, x)
  PROVE  /\ hand' \in [Threads -> Nat] /\ hand'[t] = x
         /\ \A s \in Threads : s # t => hand'[s] = hand[s]
  BY Zenon, Put DEF TInv, Holds

LEMMA LinesAre ==
  ASSUME TInv
  PROVE  Lines(q, {"samples"}) /\ Lines(q, BurstQueues) /\ \A n \in Queues : q[n].items \in Seq(Nat)
  BY Zenon, QueueNames DEF TInv, QType, Lines

(* A step in which nothing changes hands.                                  *)
LEMMA OwnKept ==
  ASSUME OwnInv, UNCHANGED <<hand, buf, burst>>,
         \A n \in Queues : q'[n].items = q[n].items
  PROVE  OwnInv'
<1>1. /\ Keeps(q, q', {"samples"}) /\ Keeps(q, q', BurstQueues)
      /\ Grips(hand, hand', {"source", "detector"}) /\ Grips(hand, hand', Carriers)
  BY Zenon, QueueNames DEF Keeps, Grips
<1>2. Own(q', {"samples"}, hand', {"source", "detector"}, buf)
  BY Zenon, <1>1, OwnSame DEF OwnInv
<1>3. Own(q', BurstQueues, hand', Carriers, burst)
  BY Zenon, <1>1, OwnSame DEF OwnInv
<1> QED BY Zenon, <1>2, <1>3 DEF OwnInv

(* The bursts have nothing to do with a step of the source or of the       *)
(* detector on a buffer, nor the buffers with a step on a burst.           *)
LEMMA BurstsKept ==
  ASSUME OwnInv, burst' = burst, \A n \in BurstQueues : q'[n].items = q[n].items,
         \A t \in Carriers : hand'[t] = hand[t]
  PROVE  Own(q', BurstQueues, hand', Carriers, burst')
<1>1. Keeps(q, q', BurstQueues) /\ Grips(hand, hand', Carriers)
  BY Zenon DEF Keeps, Grips
<1> QED BY Zenon, <1>1, OwnSame DEF OwnInv

LEMMA BuffersKept ==
  ASSUME OwnInv, buf' = buf, q'["samples"].items = q["samples"].items,
         hand'["source"] = hand["source"], hand'["detector"] = hand["detector"]
  PROVE  Own(q', {"samples"}, hand', {"source", "detector"}, buf')
<1>1. Keeps(q, q', {"samples"}) /\ Grips(hand, hand', {"source", "detector"})
  BY Zenon DEF Keeps, Grips
<1> QED BY Zenon, <1>1, OwnSame DEF OwnInv

(* Who hands what to whom: the ways a buffer or a burst moves.             *)
LEMMA BufferPut ==
  ASSUME TInv, OwnInv, hand["source"] # 0, hand'["source"] = 0,
         GripsBut(hand, hand', {"source", "detector"}, "source"),
         Grows(q, q', {"samples"}, "samples", hand["source"])
  PROVE  Own(q', {"samples"}, hand', {"source", "detector"}, buf) /\ buf[hand["source"]] = "held"
<1> DEFINE Ns == {"samples"}
           Ts == {"source", "detector"}
<1>1. Own(q, Ns, hand, Ts, buf) /\ buf \in Seq(BufferFates) /\ Lines(q, Ns)
  BY Zenon, LinesAre DEF OwnInv, TInv
<1>2. /\ "samples" \in Ns /\ "source" \in Ts /\ GripsBut(hand, hand', Ts, "source")
      /\ Grows(q, q', Ns, "samples", hand["source"])
  OBVIOUS
<1> HIDE DEF Ns, Ts
<1>3. Hands(q, q', Ns, hand, hand', Ts, BufferFates, buf, "source", "samples", hand["source"])
  BY Zenon, <1>1, <1>2 DEF Hands
<1>4. Own(q', Ns, hand', Ts, buf) /\ buf[hand["source"]] = "held"
  BY <1>3, OwnPut
<1> QED BY Zenon, <1>4 DEF Ns, Ts

LEMMA BufferTaken ==
  ASSUME TInv, OwnInv, hand["detector"] = 0, hand'["detector"] = Head(q["samples"].items),
         GripsBut(hand, hand', {"source", "detector"}, "detector"),
         Shrinks(q, q', {"samples"}, "samples")
  PROVE  /\ Own(q', {"samples"}, hand', {"source", "detector"}, buf)
         /\ hand'["detector"] \in 1 .. Len(buf)
<1> DEFINE Ns == {"samples"}
           Ts == {"source", "detector"}
<1>1. Own(q, Ns, hand, Ts, buf) /\ buf \in Seq(BufferFates) /\ Lines(q, Ns)
  BY Zenon, LinesAre DEF OwnInv, TInv
<1>2. /\ "samples" \in Ns /\ "detector" \in Ts /\ GripsBut(hand, hand', Ts, "detector")
      /\ Shrinks(q, q', Ns, "samples")
  OBVIOUS
<1> HIDE DEF Ns, Ts
<1>3. Own(q', Ns, hand', Ts, buf) /\ hand'["detector"] \in 1 .. Len(buf)
  BY Zenon, <1>1, <1>2, OwnTake
<1> QED BY Zenon, <1>3 DEF Ns, Ts

LEMMA BurstFound ==
  ASSUME TInv, OwnInv, Grips(hand, hand', Carriers),
         Grows(q, q', BurstQueues, "burst", Len(burst) + 1)
  PROVE  Own(q', BurstQueues, hand', Carriers, Append(burst, "held"))
<1>1. /\ Own(q, BurstQueues, hand, Carriers, burst) /\ burst \in Seq(BurstFates)
      /\ Lines(q, BurstQueues) /\ "burst" \in BurstQueues /\ "held" \in BurstFates
  BY Zenon, LinesAre, QueueNames DEF OwnInv, TInv, BurstFates
<1> QED BY Zenon, <1>1, OwnNewQueued

LEMMA BurstPut ==
  ASSUME TInv, OwnInv, NEW t \in Carriers, NEW n \in BurstQueues, hand[t] # 0, hand'[t] = 0,
         GripsBut(hand, hand', Carriers, t), Grows(q, q', BurstQueues, n, hand[t])
  PROVE  Own(q', BurstQueues, hand', Carriers, burst) /\ burst[hand[t]] = "held"
<1>1. /\ Own(q, BurstQueues, hand, Carriers, burst) /\ burst \in Seq(BurstFates)
      /\ Lines(q, BurstQueues)
  BY Zenon, LinesAre DEF OwnInv, TInv
<1>2. Hands(q, q', BurstQueues, hand, hand', Carriers, BurstFates, burst, t, n, hand[t])
  BY Zenon, <1>1 DEF Hands
<1> HIDE DEF Hands
<1> QED BY <1>2, OwnPut, SMTT(40)

LEMMA BurstTaken ==
  ASSUME TInv, OwnInv, NEW t \in Carriers, NEW n \in BurstQueues, hand[t] = 0,
         hand'[t] = Head(q[n].items),
         GripsBut(hand, hand', Carriers, t), Shrinks(q, q', BurstQueues, n)
  PROVE  Own(q', BurstQueues, hand', Carriers, burst) /\ hand'[t] \in 1 .. Len(burst)
<1>1. /\ Own(q, BurstQueues, hand, Carriers, burst) /\ burst \in Seq(BurstFates)
      /\ Lines(q, BurstQueues)
  BY Zenon, LinesAre DEF OwnInv, TInv
<1> QED BY Zenon, <1>1, OwnTake

(* Between two operations of main()'s shutdown: a thread that has ended    *)
(* stays so, and a queue main() has seen empty stays so.                   *)
LEMMA CtlKept ==
  ASSUME CtlInv, UNCHANGED <<main, step, mode>>, running' => running,
         \A n \in Queues : q'[n].open = q[n].open,
         \A t \in Threads : at[t] = "exit" => at'[t] = "exit",
         step > 4 => q'["burst"].items = q["burst"].items,
         step > 7 => q'["frame"].items = q["frame"].items,
         step > 10 => q'["output"].items = q["output"].items
  PROVE  CtlInv'
<1>1. WaitInv' /\ WaitInv
  BY Zenon DEF CtlInv, WaitInv
<1>2. OpenInv'
  <2>1. /\ q'["samples"].open = q["samples"].open /\ q'["burst"].open = q["burst"].open
        /\ q'["frame"].open = q["frame"].open /\ q'["output"].open = q["output"].open
    BY Zenon, QueueNames
  <2> QED BY Zenon, <2>1 DEF CtlInv, OpenInv
<1>3. EndedInv'
  <2>1. \A t \in {"source", "detector", "consumer", "output"} \cup Workers :
          at[t] = "exit" => at'[t] = "exit"
    BY Zenon, ThreadNames
  <2> QED BY Zenon, <2>1 DEF CtlInv, EndedInv
<1>4. EmptyInv'
  BY Zenon DEF CtlInv, EmptyInv
<1> QED BY Zenon, <1>1, <1>2, <1>3, <1>4 DEF CtlInv

(* How far main() can be while a thread has not ended.                     *)
LEMMA Alive ==
  ASSUME Inv
  PROVE  /\ step \in 1 .. 14
         /\ at["source"] # "exit" => step <= IF mode = "live" THEN 1 ELSE 2
         /\ at["detector"] # "exit" => step <= 3 /\ q["burst"].open
         /\ \A w \in Workers : at[w] # "exit" => step <= 6 /\ q["frame"].open
         /\ at["consumer"] # "exit" => step <= 9 /\ q["output"].open
<1>1. step \in 1 .. 14 /\ OpenInv /\ EndedInv
  BY Zenon DEF Inv, TInv, CtlInv
<1> QED BY <1>1 DEF OpenInv, EndedInv

-----------------------------------------------------------------------------
(***************************************************************************)
(* The source.                                                             *)
(***************************************************************************)
(* The source goes from one place to another with what it has.             *)
LEMMA SourceGoes ==
  ASSUME Inv, NEW pc \in {"loop", "recv", "push", "drain", "clear", "kill", "exit"}, Goto("source", pc),
         at["source"] # "exit",
         hand["source"] # 0 <=> pc = "push",
         pc = "drain" => mode = "file", pc \in {"recv", "push"} => mode # "file",
         UNCHANGED <<signals, main, step, mode, outputOn, q, hand, left, buf, burst>>,
         running' \in BOOLEAN, sig' \in BOOLEAN,
         running' => running,
         mode = "file" /\ signals = 0 =>
           /\ ~running' \/ sig' \/ main \in {"stopping", "shutdown"} => pc \in {"kill", "exit"}
           /\ pc \in {"drain", "clear", "kill", "exit"} => Len(buf) = MaxBuffers
           /\ pc \in {"clear", "kill", "exit"} => q["samples"].items = <<>>
  PROVE  Inv'
<1>1. /\ at' \in [Threads -> Pcs] /\ at'["source"] = pc
      /\ \A s \in Threads : s # "source" => at'[s] = at[s]
  BY ThreadNames, GotoFacts DEF Inv, Pcs
<1>2. TInv'
  BY Zenon, <1>1 DEF Inv, TInv
<1>3. AtInv'
  BY <1>1, ThreadNames DEF Inv, AtInv
<1>4. OwnInv'
  BY Zenon, OwnKept DEF Inv
<1>5. CtlInv'
  <2>1. \A t \in Threads : at[t] = "exit" => at'[t] = "exit"
    BY Zenon, <1>1
  <2> QED BY Zenon, <2>1, CtlKept DEF Inv
<1>6. FateInv'
  BY Zenon DEF Inv, FateInv
<1>7. FileInv'
  BY Zenon, <1>1 DEF Inv, FileInv
<1> QED BY Zenon, <1>2, <1>3, <1>4, <1>5, <1>6, <1>7 DEF Inv

(* A buffer arrives in the hands of the source.                            *)
LEMMA BufferArrives ==
  ASSUME Inv, Arrives, NEW pc \in {"guard", "put", "push"}, Goto("source", pc),
         at["source"] \in {"loop", "recv"},
         pc = "put" <=> mode = "file", mode = "file" => running,
         UNCHANGED <<running, sig, signals, main, step, mode, outputOn, q, left, burst>>
  PROVE  Inv'
<1>1. /\ at' \in [Threads -> Pcs] /\ at'["source"] = pc
      /\ \A s \in Threads : s # "source" => at'[s] = at[s]
  BY ThreadNames, GotoFacts DEF Inv, Pcs
<1>2. /\ buf \in Seq(BufferFates) /\ Len(buf) \in Nat /\ Len(buf) < MaxBuffers /\ MaxBuffers \in Nat
      /\ buf' = Append(buf, "held") /\ "held" \in BufferFates /\ Len(buf) + 1 # 0
  BY LenFacts, PipelineAssumption DEF Inv, TInv, Arrives, BufferFates
<1>3. /\ hand' \in [Threads -> Nat] /\ hand'["source"] = Len(buf) + 1
      /\ \A s \in Threads : s # "source" => hand'[s] = hand[s]
  BY <1>2, ThreadNames, HoldsFacts DEF Inv, Arrives
<1>4. /\ buf' \in Seq(BufferFates) /\ Len(buf') = Len(buf) + 1 /\ buf'[Len(buf) + 1] = "held"
      /\ \A i \in 1 .. Len(buf) : buf'[i] = buf[i]
      /\ \A i \in 1 .. Len(buf') : i = Len(buf) + 1 \/ i \in 1 .. Len(buf)
  BY <1>2, AppendFacts
<1>5. TInv'
  <2>1. Len(buf') <= MaxBuffers
    BY <1>2, <1>4
  <2> QED BY Zenon, <1>1, <1>3, <1>4, <2>1 DEF Inv, TInv
<1>6. AtInv'
  BY Zenon, <1>1, <1>2, <1>3, ThreadNames DEF Inv, AtInv
<1>7. OwnInv'
  <2>1. Keeps(q, q', {"samples"}) /\ GripsBut(hand, hand', {"source", "detector"}, "source")
    BY Zenon, <1>3, ThreadNames DEF Keeps, GripsBut
  <2>2. hand["source"] = 0
    BY Zenon DEF Inv, AtInv
  <2>3. Own(q', {"samples"}, hand', {"source", "detector"}, buf')
    BY Zenon, <1>2, <1>3, <2>1, <2>2, OwnNew DEF Inv, OwnInv
  <2>4. Own(q', BurstQueues, hand', Carriers, burst')
    BY Zenon, <1>3, ThreadNames, BurstsKept DEF Inv
  <2> QED BY Zenon, <2>3, <2>4 DEF OwnInv
<1>8. CtlInv'
  <2>1. \A t \in Threads : at[t] = "exit" => at'[t] = "exit"
    BY Zenon, <1>1
  <2> QED BY Zenon, <2>1, CtlKept DEF Inv
<1>9. FateInv'
  BY Zenon, <1>4 DEF Inv, FateInv
<1>10. FileInv'
  <2> SUFFICES ASSUME mode = "file", signals = 0
               PROVE  /\ running /\ ~sig /\ main \notin {"stopping", "shutdown"}
                      /\ \A i \in 1 .. Len(buf') : buf'[i] \in {"held", "fed"}
    BY Zenon, <1>1 DEF FileInv
  <2>1. /\ ~sig /\ main \notin {"stopping", "shutdown"}
        /\ \A i \in 1 .. Len(buf) : buf[i] \in {"held", "fed"}
    BY Zenon DEF Inv, FileInv
  <2> QED BY Zenon, <1>4, <2>1
<1> QED BY Zenon, <1>5, <1>6, <1>7, <1>8, <1>9, <1>10 DEF Inv

(* The source is rid of its buffer, which comes to an end.                 *)
LEMMA BufferEnds ==
  ASSUME Inv, NEW pc \in {"loop", "drain"}, Goto("source", pc),
         at["source"] \in {"guard", "put", "push"}, Holds("source", 0),
         NEW fate \in BufferFates \ {"held"}, EndBuffer(hand["source"], fate),
         mode = "live" => fate # "leaked", mode = "file" => signals # 0,
         pc = "drain" => mode = "file",
         UNCHANGED <<running, sig, signals, main, step, mode, outputOn, q, left, burst>>
  PROVE  Inv'
<1>1. /\ at' \in [Threads -> Pcs] /\ at'["source"] = pc
      /\ \A s \in Threads : s # "source" => at'[s] = at[s]
  BY ThreadNames, GotoFacts DEF Inv, Pcs
<1>2. /\ hand' \in [Threads -> Nat] /\ hand'["source"] = 0
      /\ \A s \in Threads : s # "source" => hand'[s] = hand[s]
  BY Zenon, ThreadNames, HoldsFacts DEF Inv
<1>3. hand["source"] # 0 /\ buf \in Seq(BufferFates) /\ buf' = [buf EXCEPT ![hand["source"]] = fate]
  BY Zenon DEF Inv, AtInv, TInv, EndBuffer
<1>4. /\ buf' \in Seq(BufferFates) /\ Len(buf') = Len(buf)
      /\ \A i \in 1 .. Len(buf) : buf'[i] = buf[i] \/ buf'[i] = fate
  <2>1. hand["source"] \in 1 .. Len(buf)
    BY Zenon, <1>3 DEF Inv, OwnInv, Own, InHand
  <2> QED BY <1>3, <2>1, SeqPut
<1>5. TInv'
  BY Zenon, <1>1, <1>2, <1>4 DEF Inv, TInv
<1>6. AtInv'
  BY <1>1, <1>2, ThreadNames DEF Inv, AtInv
<1>7. OwnInv'
  <2>1. Keeps(q, q', {"samples"}) /\ GripsBut(hand, hand', {"source", "detector"}, "source")
    BY Zenon, <1>2, ThreadNames DEF Keeps, GripsBut
  <2>2. Own(q', {"samples"}, hand', {"source", "detector"}, buf')
    BY Zenon, <1>2, <1>3, <2>1, OwnEnd DEF Inv, OwnInv
  <2>3. Own(q', BurstQueues, hand', Carriers, burst')
    BY Zenon, <1>2, ThreadNames, BurstsKept DEF Inv
  <2> QED BY Zenon, <2>2, <2>3 DEF OwnInv
<1>8. CtlInv'
  <2>1. \A t \in Threads : at[t] = "exit" => at'[t] = "exit"
    BY Zenon, <1>1
  <2> QED BY Zenon, <2>1, CtlKept DEF Inv
<1>9. FateInv'
  BY Zenon, <1>4 DEF Inv, FateInv
<1>10. FileInv'
  BY Zenon DEF FileInv
<1> QED BY Zenon, <1>5, <1>6, <1>7, <1>8, <1>9, <1>10 DEF Inv

(* The source's buffer is accepted by samples_queue.                       *)
LEMMA BufferQueued ==
  ASSUME Inv, Goto("source", "loop"), at["source"] \in {"put", "push"}, Holds("source", 0),
         q["samples"].open, ~Full("samples"),
         q' = Pushed(q, "samples", hand["source"]),
         EndBuffer(hand["source"], "held"),
         UNCHANGED <<running, sig, signals, main, step, mode, outputOn, left, burst>>
  PROVE  Inv'
<1> DEFINE x == hand["source"]
<1>0. x \in Nat /\ x # 0 /\ QType(q) /\ Len(q["samples"].items) < Cap["samples"]
  <2>1. q["samples"].items \in Seq(Nat) /\ Cap["samples"] \in Nat /\ QType(q) /\ x \in Nat
    BY Zenon, LinesAre, QueueNames, ThreadNames, PipelineAssumption DEF Inv, TInv
  <2>2. ~(Len(q["samples"].items) >= Cap["samples"])
    BY Zenon DEF Full, Items
  <2>3. x # 0
    BY Zenon DEF Inv, AtInv
  <2> QED BY <2>1, <2>2, <2>3, LenFacts
<1>1. /\ at' \in [Threads -> Pcs] /\ at'["source"] = "loop"
      /\ \A s \in Threads : s # "source" => at'[s] = at[s]
  BY Zenon, ThreadNames, GotoFacts DEF Inv, Pcs
<1>2. /\ hand' \in [Threads -> Nat] /\ hand'["source"] = 0
      /\ \A s \in Threads : s # "source" => hand'[s] = hand[s]
  BY Zenon, ThreadNames, HoldsFacts DEF Inv
<1>3. /\ QType(q') /\ q'["samples"].items = Append(q["samples"].items, x)
      /\ q'["samples"].open = q["samples"].open
      /\ \A m \in Queues : m # "samples" => q'[m] = q[m]
  <2> HIDE DEF x
  <2>1. q' = Pushed(q, "samples", x) /\ "samples" \in Queues
    BY Zenon, QueueNames DEF x
  <2>2. /\ QType(Pushed(q, "samples", x))
        /\ Pushed(q, "samples", x)["samples"].items = Append(q["samples"].items, x)
        /\ Pushed(q, "samples", x)["samples"].open = q["samples"].open
        /\ \A m \in Queues : m # "samples" => Pushed(q, "samples", x)[m] = q[m]
    BY ZenonT(40), <1>0, <2>1, QGrow
  <2> QED BY Zenon, <2>1, <2>2
<1>4. Own(q', {"samples"}, hand', {"source", "detector"}, buf) /\ buf[x] = "held"
  <2>1. GripsBut(hand, hand', {"source", "detector"}, "source") /\ Grows(q, q', {"samples"}, "samples", hand["source"])
    BY Zenon, <1>2, <1>3, ThreadNames DEF GripsBut, Grows, KeepsBut
  <2>2. TInv /\ OwnInv /\ hand["source"] # 0 /\ hand'["source"] = 0
    BY Zenon, <1>0, <1>2 DEF Inv
  <2> QED BY Zenon, <2>1, <2>2, BufferPut
<1>5. buf' = buf
  <2>1. buf' = [buf EXCEPT ![x] = "held"] /\ buf \in Seq(BufferFates)
    BY Zenon DEF EndBuffer, Inv, TInv
  <2> QED BY <1>4, <2>1
<1>6. TInv'
  BY Zenon, <1>1, <1>2, <1>3, <1>5 DEF Inv, TInv
<1>7. AtInv'
  BY <1>1, <1>2, ThreadNames DEF Inv, AtInv
<1>8. OwnInv'
  <2>1. Own(q', BurstQueues, hand', Carriers, burst')
    BY Zenon, <1>2, <1>3, QueueNames, ThreadNames, BurstsKept DEF Inv
  <2> QED BY Zenon, <1>4, <1>5, <2>1 DEF OwnInv
<1>9. CtlInv'
  <2>1. \A t \in Threads : at[t] = "exit" => at'[t] = "exit"
    BY Zenon, <1>1
  <2>2. /\ \A n \in Queues : q'[n].open = q[n].open
        /\ \A n \in BurstQueues : q'[n].items = q[n].items
    BY Zenon, <1>3, QueueNames
  <2>3. CtlInv /\ UNCHANGED <<main, step, mode, running>>
    BY Zenon DEF Inv
  <2> QED BY <2>1, <2>2, <2>3, QueueNames, CtlKept
<1>10. FateInv'
  BY Zenon, <1>5 DEF Inv, FateInv
<1>11. FileInv'
  BY Zenon, <1>1, <1>5 DEF Inv, FileInv
<1> QED BY Zenon, <1>6, <1>7, <1>8, <1>9, <1>10, <1>11 DEF Inv

LEMMA SourcePreserves ==
  ASSUME Inv, SourceStep \/ SourceReceives
  PROVE  Inv'
<1> USE DEF mainVars, options, queueVars
<1>0. /\ running \in BOOLEAN /\ sig \in BOOLEAN
      /\ at["source"] \in {"put", "drain"} => mode = "file"
      /\ at["source"] \in {"recv", "guard", "push"} => mode # "file"
      /\ hand["source"] # 0 <=> at["source"] \in {"guard", "put", "push"}
  BY Zenon DEF Inv, TInv, AtInv
<1>01. mode = "file" /\ signals = 0 /\ at["source"] \notin {"kill", "exit"} =>
         /\ running /\ ~sig /\ main \notin {"stopping", "shutdown"} /\ q["samples"].open
  <2>1. main # "shutdown" => step = 1 /\ q["samples"].open
    BY DEF Inv, CtlInv, WaitInv, OpenInv
  <2> QED BY Zenon, <1>0, <2>1 DEF Inv, FileInv
<1>02. mode = "file" /\ signals = 0 =>
         /\ at["source"] \in {"drain", "clear", "kill", "exit"} => Len(buf) = MaxBuffers
         /\ at["source"] \in {"clear", "kill", "exit"} => q["samples"].items = <<>>
  BY Zenon DEF Inv, FileInv
<1>1. CASE SourceLoop
  <2>0. at["source"] = "loop" /\ UNCHANGED <<running, sig, signals, main, step, mode, outputOn, q, left, burst>>
    BY Zenon, <1>1 DEF SourceLoop
  <2>1. CASE running /\ mode = "file" /\ Arrives /\ Goto("source", "put")
    BY Zenon, <2>0, <2>1, BufferArrives
  <2>2. CASE /\ running /\ mode = "file" /\ Len(buf) = MaxBuffers /\ Goto("source", "drain")
             /\ UNCHANGED <<hand, buf>>
    BY Zenon, <1>0, <1>01, <2>0, <2>2, SourceGoes
  <2>3. CASE running /\ mode # "file" /\ Goto("source", "recv") /\ UNCHANGED <<hand, buf>>
    BY Zenon, <1>0, <2>0, <2>3, SourceGoes
  <2>4. CASE /\ ~running /\ Goto("source", IF mode = "file" THEN "drain" ELSE "clear")
             /\ UNCHANGED <<hand, buf>>
    <3>1. CASE mode = "file"
      BY Zenon, <1>0, <1>01, <2>0, <2>4, <3>1, SourceGoes
    <3>2. CASE mode # "file"
      BY Zenon, <1>0, <2>0, <2>4, <3>2, SourceGoes
    <3> QED BY Zenon, <3>1, <3>2
  <2> QED BY Zenon, <1>1, <2>1, <2>2, <2>3, <2>4 DEF SourceLoop
<1>2. CASE SourceReceives
  <2>0. /\ at["source"] = "recv" /\ mode # "file"
        /\ UNCHANGED <<running, sig, signals, main, step, mode, outputOn, q, left, burst>>
    BY Zenon, <1>0, <1>2 DEF SourceReceives
  <2>1. CASE Arrives /\ Goto("source", IF mode = "live" THEN "guard" ELSE "push")
    <3>1. CASE mode = "live"
      BY Zenon, <2>0, <2>1, <3>1, BufferArrives
    <3>2. CASE mode # "live"
      BY Zenon, <2>0, <2>1, <3>2, BufferArrives
    <3> QED BY Zenon, <3>1, <3>2
  <2>2. CASE Goto("source", "clear") /\ UNCHANGED <<hand, buf>>
    BY Zenon, <1>0, <2>0, <2>2, SourceGoes
  <2> QED BY Zenon, <1>2, <2>1, <2>2 DEF SourceReceives
<1>3. CASE SourceTimeout
  BY Zenon, <1>0, <1>3, SourceGoes DEF SourceTimeout
<1>4. CASE SourceGuard
  <2>0. /\ at["source"] = "guard" /\ mode # "file"
        /\ UNCHANGED <<running, sig, signals, main, step, mode, outputOn, q, left, burst>>
    BY Zenon, <1>0, <1>4 DEF SourceGuard
  <2>1. CASE running /\ Goto("source", "push") /\ UNCHANGED <<hand, buf>>
    BY Zenon, <1>0, <2>0, <2>1, SourceGoes
  <2>2. CASE Goto("source", "loop") /\ EndBuffer(hand["source"], "freed") /\ Holds("source", 0)
    <3>1. "freed" \in BufferFates \ {"held"}
      BY Zenon DEF BufferFates
    <3> QED BY Zenon, <2>0, <2>2, <3>1, BufferEnds
  <2> QED BY Zenon, <1>4, <2>1, <2>2 DEF SourceGuard
<1>5. CASE SourcePut
  <2>0. /\ at["source"] = "put" /\ mode = "file" /\ Holds("source", 0)
        /\ UNCHANGED <<running, sig, signals, main, step, mode, outputOn, left, burst>>
    BY Zenon, <1>0, <1>5 DEF SourcePut
  <2>1. PICK r \in PutAnswers("samples") :
          /\ Offer("samples", hand["source"], r)
          /\ EndBuffer(hand["source"], IF r = "BQ_SUCCESS" THEN "held" ELSE "freed")
          /\ Goto("source", IF r = "BQ_SUCCESS" THEN "loop" ELSE "drain")
    BY Zenon, <1>5 DEF SourcePut
  <2>2. CASE r = "BQ_SUCCESS"
    <3>1. q["samples"].open /\ ~Full("samples") /\ q' = Pushed(q, "samples", hand["source"])
      BY Zenon, <2>1, <2>2 DEF PutAnswers, Offer, Pushed
    <3>2. EndBuffer(hand["source"], "held") /\ Goto("source", "loop")
      BY Zenon, <2>1, <2>2
    <3> QED BY Zenon, <2>0, <3>1, <3>2, BufferQueued
  <2>3. CASE r # "BQ_SUCCESS"
    <3>1. ~q["samples"].open /\ q' = q
      BY Zenon, <2>1, <2>3 DEF PutAnswers, Offer
    <3>2. EndBuffer(hand["source"], "freed") /\ Goto("source", "drain")
      BY Zenon, <2>1, <2>3
    <3>3. "freed" \in BufferFates \ {"held"} /\ signals # 0
      BY Zenon, <1>01, <2>0, <3>1 DEF BufferFates
    <3> QED BY Zenon, <2>0, <3>1, <3>2, <3>3, BufferEnds
  <2> QED BY Zenon, <2>2, <2>3
<1>6. CASE SourcePush
  <2>0. /\ at["source"] = "push" /\ mode # "file" /\ Holds("source", 0) /\ Goto("source", "loop")
        /\ UNCHANGED <<running, sig, signals, main, step, mode, outputOn, left, burst>>
    BY Zenon, <1>0, <1>6 DEF SourcePush
  <2>1. PICK r \in AddAnswers("samples") :
          /\ Offer("samples", hand["source"], r)
          /\ EndBuffer(hand["source"], CASE r = "BQ_SUCCESS" -> "held"
                                         [] r = "BQ_FULL"    -> "dropped"
                                         [] r = "BQ_CLOSED"  -> "leaked")
    BY Zenon, <1>6 DEF SourcePush
  <2>2. CASE r = "BQ_SUCCESS"
    <3>1. q["samples"].open /\ ~Full("samples") /\ q' = Pushed(q, "samples", hand["source"])
      BY Zenon, <2>1, <2>2 DEF AddAnswers, PutAnswers, Offer, Pushed
    <3>2. EndBuffer(hand["source"], "held")
      BY Zenon, <2>1, <2>2
    <3> QED BY Zenon, <2>0, <3>1, <3>2, BufferQueued
  <2>3. CASE r = "BQ_FULL"
    <3>1. q' = q /\ EndBuffer(hand["source"], "dropped") /\ "dropped" \in BufferFates \ {"held"}
      BY Zenon, <2>1, <2>3 DEF Offer, BufferFates
    <3> QED BY Zenon, <2>0, <3>1, BufferEnds
  <2>4. CASE r = "BQ_CLOSED"
    <3>1. q' = q /\ EndBuffer(hand["source"], "leaked") /\ "leaked" \in BufferFates \ {"held"}
      BY Zenon, <2>1, <2>4 DEF Offer, BufferFates
    <3>2. ~q["samples"].open
      BY Zenon, <2>1, <2>4 DEF AddAnswers, PutAnswers
    <3>3. mode # "live"
      BY <2>0, <3>2, Alive DEF Inv, CtlInv, OpenInv
    <3> QED BY Zenon, <2>0, <3>1, <3>3, BufferEnds
  <2>5. r \in {"BQ_SUCCESS", "BQ_FULL", "BQ_CLOSED"}
    BY Zenon, <2>1 DEF AddAnswers, PutAnswers
  <2> QED BY Zenon, <2>2, <2>3, <2>4, <2>5
<1>7. CASE SourceDrain
  <2>1. /\ at["source"] = "drain" /\ (~running \/ q["samples"].items = <<>>) /\ Goto("source", "clear")
        /\ UNCHANGED <<running, sig, signals, main, step, mode, outputOn, q, hand, left, buf, burst>>
    BY Zenon, <1>7 DEF SourceDrain, Items
  <2> QED BY Zenon, <1>0, <1>01, <1>02, <2>1, SourceGoes
<1>8. CASE SourceClear
  <2>1. /\ at["source"] = "clear" /\ running' = FALSE /\ Goto("source", "kill")
        /\ UNCHANGED <<sig, signals, main, step, mode, outputOn, q, hand, left, buf, burst>>
    BY Zenon, <1>8 DEF SourceClear
  <2> QED BY Zenon, <1>0, <1>01, <1>02, <2>1, SourceGoes
<1>9. CASE SourceKill
  <2>1. /\ at["source"] = "kill" /\ sig' = TRUE /\ Goto("source", "exit")
        /\ UNCHANGED <<running, signals, main, step, mode, outputOn, q, hand, left, buf, burst>>
    BY Zenon, <1>9 DEF SourceKill
  <2> QED BY Zenon, <1>0, <1>02, <2>1, SourceGoes
<1> QED BY Zenon, <1>1, <1>2, <1>3, <1>4, <1>5, <1>6, <1>7, <1>8, <1>9 DEF SourceStep

-----------------------------------------------------------------------------
(***************************************************************************)
(* The stages.                                                             *)
(***************************************************************************)
(* What a stage does is no business of the source.                         *)
LEMMA FileKept ==
  ASSUME FileInv, UNCHANGED <<mode, signals, running, sig, main>>, at'["source"] = at["source"],
         Len(buf') = Len(buf), \A i \in 1 .. Len(buf) : buf'[i] = buf[i] \/ buf'[i] = "fed",
         q["samples"].items = <<>> => q'["samples"].items = <<>>
  PROVE  FileInv'
  BY Zenon DEF FileInv

(* The head of a queue that is not empty, in the hands of a thread.        *)
LEMMA TakeFacts ==
  ASSUME Inv, NEW t \in Threads, NEW n \in Queues, Take(t, n)
  PROVE  /\ at[t] = "take"
         /\ at' \in [Threads -> Pcs] /\ at'[t] = "work" /\ \A s \in Threads : s # t => at'[s] = at[s]
         /\ hand' \in [Threads -> Nat] /\ hand'[t] = Head(q[n].items)
         /\ \A s \in Threads : s # t => hand'[s] = hand[s]
         /\ QType(q') /\ q[n].items # <<>> /\ q'[n].items = Tail(q[n].items)
         /\ \A m \in Queues : q'[m].open = q[m].open
         /\ \A m \in Queues : m # n => q'[m].items = q[m].items
         /\ UNCHANGED <<running, sig, signals, main, step, mode, outputOn, left, buf, burst>>
<1>1. /\ at[t] = "take" /\ q[n].items # <<>> /\ Holds(t, Head(q[n].items)) /\ q' = Popped(q, n)
      /\ Goto(t, "work")
      /\ UNCHANGED <<running, sig, signals, main, step, mode, outputOn, left, buf, burst>>
  BY Zenon DEF Take, Items, Popped, mainVars, options
<1>2. /\ at' \in [Threads -> Pcs] /\ at'[t] = "work" /\ \A s \in Threads : s # t => at'[s] = at[s]
  BY Zenon, <1>1, GotoFacts DEF Inv, Pcs
<1>3. QType(q) /\ q[n].items \in Seq(Nat)
  BY Zenon, LinesAre DEF Inv, TInv
<1>4. Head(q[n].items) \in Nat
  BY Zenon, <1>1, <1>3, TailFacts
<1>5. /\ hand' \in [Threads -> Nat] /\ hand'[t] = Head(q[n].items)
      /\ \A s \in Threads : s # t => hand'[s] = hand[s]
  BY Zenon, <1>1, <1>4, HoldsFacts DEF Inv
<1>6. /\ QType(Popped(q, n)) /\ Popped(q, n)[n].items = Tail(q[n].items)
      /\ Popped(q, n)[n].open = q[n].open
      /\ \A m \in Queues : m # n => Popped(q, n)[m] = q[m]
  BY Zenon, <1>1, <1>3, QShrink
<1>7. /\ QType(q') /\ q'[n].items = Tail(q[n].items) /\ q'[n].open = q[n].open
      /\ \A m \in Queues : m # n => q'[m] = q[m]
  BY Zenon, <1>1, <1>6
<1>8. /\ \A m \in Queues : q'[m].open = q[m].open
      /\ \A m \in Queues : m # n => q'[m].items = q[m].items
  BY Zenon, <1>7
<1> QED BY Zenon, <1>1, <1>2, <1>5, <1>7, <1>8

LEMMA DetectorTakes ==
  ASSUME Inv, Take("detector", "samples")
  PROVE  Inv'
<1> DEFINE t == "detector"
           n == "samples"
<1>1. /\ at[t] = "take"
      /\ at' \in [Threads -> Pcs] /\ at'[t] = "work" /\ \A s \in Threads : s # t => at'[s] = at[s]
      /\ hand' \in [Threads -> Nat] /\ hand'[t] = Head(q[n].items)
      /\ \A s \in Threads : s # t => hand'[s] = hand[s]
      /\ QType(q') /\ q[n].items # <<>> /\ q'[n].items = Tail(q[n].items)
      /\ \A m \in Queues : q'[m].open = q[m].open
      /\ \A m \in Queues : m # n => q'[m].items = q[m].items
      /\ UNCHANGED <<running, sig, signals, main, step, mode, outputOn, left, buf, burst>>
  BY Zenon, ThreadNames, QueueNames, TakeFacts
<1>2. hand[t] = 0
  BY Zenon, <1>1 DEF Inv, AtInv
<1>3. Own(q', {"samples"}, hand', {"source", "detector"}, buf) /\ hand'[t] \in 1 .. Len(buf)
  <2>1. GripsBut(hand, hand', {"source", "detector"}, t) /\ Shrinks(q, q', {"samples"}, n)
    BY Zenon, <1>1, ThreadNames DEF GripsBut, Shrinks, KeepsBut
  <2> QED BY Zenon, <1>1, <1>2, <2>1, BufferTaken DEF Inv
<1>4. TInv'
  BY Zenon, <1>1 DEF Inv, TInv
<1>5. AtInv'
  <2>1. hand'[t] # 0
    BY <1>3
  <2> QED BY <1>1, <2>1, ThreadNames DEF Inv, AtInv
<1>6. OwnInv'
  <2>1. Own(q', BurstQueues, hand', Carriers, burst')
    BY Zenon, <1>1, QueueNames, ThreadNames, BurstsKept DEF Inv
  <2> QED BY Zenon, <1>1, <1>3, <2>1 DEF OwnInv
<1>7. CtlInv'
  <2>1. \A s \in Threads : at[s] = "exit" => at'[s] = "exit"
    BY Zenon, <1>1
  <2>2. \A m \in BurstQueues : q'[m].items = q[m].items
    BY Zenon, <1>1, QueueNames
  <2> QED BY Zenon, <1>1, <2>1, <2>2, QueueNames, CtlKept DEF Inv
<1>8. FateInv'
  BY Zenon, <1>1 DEF Inv, FateInv
<1>9. FileInv'
  BY Zenon, <1>1, ThreadNames, FileKept DEF Inv
<1> QED BY Zenon, <1>4, <1>5, <1>6, <1>7, <1>8, <1>9 DEF Inv

LEMMA BurstTakes ==
  ASSUME Inv, NEW t \in Carriers, NEW n \in BurstQueues, Take(t, n)
  PROVE  Inv'
<1>1. /\ at[t] = "take"
      /\ at' \in [Threads -> Pcs] /\ at'[t] = "work" /\ \A s \in Threads : s # t => at'[s] = at[s]
      /\ hand' \in [Threads -> Nat] /\ hand'[t] = Head(q[n].items)
      /\ \A s \in Threads : s # t => hand'[s] = hand[s]
      /\ QType(q') /\ q[n].items # <<>> /\ q'[n].items = Tail(q[n].items)
      /\ \A m \in Queues : q'[m].open = q[m].open
      /\ \A m \in Queues : m # n => q'[m].items = q[m].items
      /\ UNCHANGED <<running, sig, signals, main, step, mode, outputOn, left, buf, burst>>
  BY Zenon, ThreadNames, QueueNames, TakeFacts
<1>2. hand[t] = 0
  BY Zenon, <1>1 DEF Inv, AtInv, Carriers, Adders
<1>3. Own(q', BurstQueues, hand', Carriers, burst) /\ hand'[t] \in 1 .. Len(burst)
  <2>1. GripsBut(hand, hand', Carriers, t) /\ Shrinks(q, q', BurstQueues, n)
    BY Zenon, <1>1, ThreadNames, QueueNames DEF GripsBut, Shrinks, KeepsBut
  <2> QED BY Zenon, <1>1, <1>2, <2>1, BurstTaken DEF Inv
<1>4. TInv'
  BY Zenon, <1>1 DEF Inv, TInv
<1>5. AtInv'
  <2>1. hand'[t] # 0
    BY <1>3
  <2>2. \A s \in Threads : s = t \/ (at'[s] = at[s] /\ hand'[s] = hand[s])
    BY Zenon, <1>1
  <2>3. at'[t] = "work"
    BY Zenon, <1>1
  <2>4. t # "source" /\ t # "detector" /\ t # "stats"
    BY Zenon, ThreadNames
  <2>5. mode' = mode
    BY Zenon, <1>1
  <2> QED BY <2>1, <2>2, <2>3, <2>4, <2>5, ThreadNames DEF Inv, AtInv
<1>6. OwnInv'
  <2>1. hand'["source"] = hand["source"] /\ hand'["detector"] = hand["detector"] /\ q'["samples"].items = q["samples"].items
    BY Zenon, <1>1, QueueNames, ThreadNames
  <2>2. Own(q', {"samples"}, hand', {"source", "detector"}, buf')
    BY Zenon, <1>1, <2>1, BuffersKept DEF Inv
  <2> QED BY Zenon, <1>1, <1>3, <2>2 DEF OwnInv
<1>7. CtlInv'
  <2>1. \A s \in Threads : at[s] = "exit" => at'[s] = "exit"
    BY Zenon, <1>1
  <2>2. /\ step > 4 => q'["burst"].items = q["burst"].items
        /\ step > 7 => q'["frame"].items = q["frame"].items
        /\ step > 10 => q'["output"].items = q["output"].items
    BY Zenon, <1>1, QueueNames DEF Inv, CtlInv, EmptyInv
  <2> QED BY Zenon, <1>1, <2>1, <2>2, CtlKept DEF Inv
<1>8. FateInv'
  BY Zenon, <1>1 DEF Inv, FateInv
<1>9. FileInv'
  <2>1. q'["samples"].items = q["samples"].items /\ at'["source"] = at["source"]
    BY Zenon, <1>1, QueueNames, ThreadNames
  <2> QED BY Zenon, <1>1, <2>1, FileKept DEF Inv
<1> QED BY Zenon, <1>4, <1>5, <1>6, <1>7, <1>8, <1>9 DEF Inv

(* Where thread t may be, with x in its hands.                             *)
Fits(t, pc, x) ==
  /\ t = "detector" => pc \in {"take", "work", "put", "exit"} /\ (x # 0 <=> pc \in {"work", "put"})
  /\ t \in Adders => pc \in {"take", "work", "add", "exit"} /\ (x # 0 <=> pc \in {"work", "add"})
  /\ t = "output" => pc \in {"take", "work", "exit"} /\ (x # 0 <=> pc = "work")
  /\ t = "stats" => pc \in {"sleep", "report", "exit"} /\ x = 0

LEMMA AtKept ==
  ASSUME AtInv, NEW t \in Threads \ {"source"}, Fits(t, at'[t], hand'[t]), mode' = mode,
         \A s \in Threads : s # t => at'[s] = at[s] /\ hand'[s] = hand[s]
  PROVE  AtInv'
<1>1. /\ at'["source"] \in {"loop", "recv", "guard", "put", "push", "drain", "clear", "kill", "exit"}
      /\ hand'["source"] # 0 <=> at'["source"] \in {"guard", "put", "push"}
      /\ at'["source"] \in {"put", "drain"} => mode' = "file"
      /\ at'["source"] \in {"recv", "guard", "push"} => mode' # "file"
  <2>1. at'["source"] = at["source"] /\ hand'["source"] = hand["source"]
    BY Zenon, ThreadNames
  <2> QED BY Zenon, <2>1 DEF AtInv
<1>2. /\ at'["detector"] \in {"take", "work", "put", "exit"}
      /\ hand'["detector"] # 0 <=> at'["detector"] \in {"work", "put"}
  BY ThreadNames DEF AtInv, Fits
<1>3. \A s \in Adders : /\ at'[s] \in {"take", "work", "add", "exit"}
                        /\ hand'[s] # 0 <=> at'[s] \in {"work", "add"}
  <2> SUFFICES ASSUME NEW s \in Adders
               PROVE  /\ at'[s] \in {"take", "work", "add", "exit"}
                      /\ hand'[s] # 0 <=> at'[s] \in {"work", "add"}
    OBVIOUS
  <2>1. CASE s = t
    BY Zenon, <2>1 DEF Fits
  <2>2. CASE s # t
    BY Zenon, <2>2, ThreadNames DEF AtInv
  <2> QED BY Zenon, <2>1, <2>2
<1>4. /\ at'["output"] \in {"take", "work", "exit"}
      /\ hand'["output"] # 0 <=> at'["output"] = "work"
  BY Zenon, ThreadNames DEF AtInv, Fits
<1>5. at'["stats"] \in {"sleep", "report", "exit"} /\ hand'["stats"] = 0
  BY Zenon, ThreadNames DEF AtInv, Fits
<1> QED BY Zenon, <1>1, <1>2, <1>3, <1>4, <1>5 DEF AtInv

(* A stage goes from one place to another with what it has.                *)
LEMMA StageGoes ==
  ASSUME Inv, NEW t \in Threads \ {"source"}, NEW pc \in Pcs, at[t] # "exit", Goto(t, pc),
         Fits(t, pc, hand[t]), left' \in 0 .. MaxBursts - Len(burst),
         UNCHANGED <<running, sig, signals, main, step, mode, outputOn, q, hand, buf, burst>>
  PROVE  Inv'
<1>1. /\ at' \in [Threads -> Pcs] /\ at'[t] = pc
      /\ \A s \in Threads : s # t => at'[s] = at[s]
  BY Zenon, GotoFacts DEF Inv
<1>2. TInv'
  BY Zenon, <1>1 DEF Inv, TInv
<1>3. AtInv'
  <2>1. Fits(t, at'[t], hand'[t])
    BY Zenon, <1>1
  <2> QED BY Zenon, <1>1, <2>1, AtKept DEF Inv
<1>4. OwnInv'
  BY Zenon, OwnKept DEF Inv
<1>5. CtlInv'
  <2>1. \A s \in Threads : at[s] = "exit" => at'[s] = "exit"
    BY Zenon, <1>1
  <2> QED BY Zenon, <2>1, CtlKept DEF Inv
<1>6. FateInv'
  BY Zenon DEF Inv, FateInv
<1>7. FileInv'
  <2>1. at'["source"] = at["source"]
    BY Zenon, <1>1, ThreadNames
  <2> QED BY Zenon, <2>1, FileKept DEF Inv
<1> QED BY Zenon, <1>2, <1>3, <1>4, <1>5, <1>6, <1>7 DEF Inv

(* The queue a stage reads is closed.                                      *)
LEMMA Leaves ==
  ASSUME Inv, NEW t \in Carriers \cup {"detector"}, NEW n, Leave(t, n)
  PROVE  Inv'
<1>1. /\ at[t] = "take" /\ Goto(t, "exit")
      /\ UNCHANGED <<running, sig, signals, main, step, mode, outputOn, q, hand, left, buf, burst>>
  BY Zenon DEF Leave, mainVars, options, queueVars
<1>2. t \in Threads \ {"source"} /\ t # "stats"
  BY Zenon, ThreadNames
<1>3. hand[t] = 0
  BY Zenon, <1>1 DEF Inv, AtInv, Carriers, Adders
<1>4. Fits(t, "exit", hand[t])
  BY Zenon, <1>2, <1>3 DEF Fits
<1>5. left' \in 0 .. MaxBursts - Len(burst) /\ "exit" \in Pcs
  BY Zenon, <1>1 DEF Inv, TInv, Pcs
<1> QED BY Zenon, <1>1, <1>2, <1>4, <1>5, StageGoes

(* A burst comes to an end in the hands of t.                              *)
LEMMA BurstEnds ==
  ASSUME Inv, NEW t \in Carriers, at[t] \in {"work", "add"},
         NEW fate \in BurstFates \ {"held", "leaked", "refused"}, Finish(t, fate),
         UNCHANGED <<running, sig, signals, main, step, mode, outputOn, q, left, buf>>
  PROVE  Inv'
<1>0. t \in Threads \ {"source", "detector", "stats"}
  BY Zenon, ThreadNames
<1>1. /\ at' \in [Threads -> Pcs] /\ at'[t] = "take"
      /\ \A s \in Threads : s # t => at'[s] = at[s]
  BY Zenon, <1>0, GotoFacts DEF Inv, Pcs, Finish
<1>2. /\ hand' \in [Threads -> Nat] /\ hand'[t] = 0
      /\ \A s \in Threads : s # t => hand'[s] = hand[s]
  BY Zenon, <1>0, HoldsFacts DEF Inv, Finish
<1>3. hand[t] # 0 /\ burst \in Seq(BurstFates) /\ burst' = [burst EXCEPT ![hand[t]] = fate]
  BY Zenon DEF Inv, AtInv, TInv, Finish, EndBurst, Carriers, Adders
<1>4. /\ burst' \in Seq(BurstFates) /\ Len(burst') = Len(burst)
      /\ \A i \in 1 .. Len(burst) : burst'[i] = burst[i] \/ burst'[i] = fate
  <2>1. hand[t] \in 1 .. Len(burst)
    BY Zenon, <1>3 DEF Inv, OwnInv, Own, InHand
  <2> QED BY <1>3, <2>1, SeqPut
<1>5. TInv'
  BY Zenon, <1>1, <1>2, <1>4 DEF Inv, TInv
<1>6. AtInv'
  <2>1. Fits(t, at'[t], hand'[t])
    BY Zenon, <1>0, <1>1, <1>2 DEF Fits
  <2> QED BY Zenon, <1>0, <1>1, <1>2, <2>1, AtKept DEF Inv
<1>7. OwnInv'
  <2>1. Keeps(q, q', BurstQueues) /\ GripsBut(hand, hand', Carriers, t)
    BY Zenon, <1>2, ThreadNames DEF Keeps, GripsBut
  <2>2. Own(q', BurstQueues, hand', Carriers, burst')
    BY Zenon, <1>2, <1>3, <2>1, OwnEnd DEF Inv, OwnInv
  <2>3. Own(q', {"samples"}, hand', {"source", "detector"}, buf')
    BY Zenon, <1>0, <1>2, ThreadNames, BuffersKept DEF Inv
  <2> QED BY Zenon, <2>2, <2>3 DEF OwnInv
<1>8. CtlInv'
  <2>1. \A s \in Threads : at[s] = "exit" => at'[s] = "exit"
    BY Zenon, <1>1
  <2> QED BY Zenon, <2>1, CtlKept DEF Inv
<1>9. FateInv'
  BY Zenon, <1>4 DEF Inv, FateInv
<1>10. FileInv'
  <2>1. at'["source"] = at["source"]
    BY Zenon, <1>0, <1>1, ThreadNames
  <2> QED BY Zenon, <2>1, FileKept DEF Inv
<1> QED BY Zenon, <1>5, <1>6, <1>7, <1>8, <1>9, <1>10 DEF Inv

(* What t holds is accepted by queue n.  main() has not yet seen the queue *)
(* empty, for it joins t first.                                            *)
LEMMA BurstQueued ==
  ASSUME Inv, NEW t \in Adders, NEW n \in BurstQueues, at[t] = "add",
         (n = "frame" /\ t \in Workers) \/ (n = "output" /\ t = "consumer"),
         ~Full(n), q' = Pushed(q, n, hand[t]), Finish(t, "held"),
         UNCHANGED <<running, sig, signals, main, step, mode, outputOn, left, buf>>
  PROVE  Inv'
<1> DEFINE x == hand[t]
<1>0. t \in Threads \ {"source", "detector", "output", "stats"} /\ t \in Carriers /\ n \in Queues
  BY Zenon, ThreadNames, QueueNames DEF Adders, Carriers
<1>1. x \in Nat /\ x # 0 /\ QType(q) /\ Len(q[n].items) < Cap[n]
  <2>1. q[n].items \in Seq(Nat) /\ Cap[n] \in Nat /\ QType(q) /\ x \in Nat
    BY Zenon, <1>0, LinesAre, PipelineAssumption DEF Inv, TInv
  <2>2. ~(Len(q[n].items) >= Cap[n])
    BY Zenon DEF Full, Items
  <2>3. x # 0
    BY Zenon DEF Inv, AtInv
  <2> QED BY <2>1, <2>2, <2>3, LenFacts
<1>2. /\ at' \in [Threads -> Pcs] /\ at'[t] = "take"
      /\ \A s \in Threads : s # t => at'[s] = at[s]
  BY Zenon, <1>0, GotoFacts DEF Inv, Pcs, Finish
<1>3. /\ hand' \in [Threads -> Nat] /\ hand'[t] = 0
      /\ \A s \in Threads : s # t => hand'[s] = hand[s]
  BY Zenon, <1>0, HoldsFacts DEF Inv, Finish
<1>4. /\ QType(q') /\ q'[n].items = Append(q[n].items, x) /\ q'[n].open = q[n].open
      /\ \A m \in Queues : m # n => q'[m] = q[m]
  <2> HIDE DEF x
  <2>1. q' = Pushed(q, n, x) /\ n \in Queues
    BY Zenon, <1>0 DEF x
  <2>2. /\ QType(Pushed(q, n, x)) /\ Pushed(q, n, x)[n].items = Append(q[n].items, x)
        /\ Pushed(q, n, x)[n].open = q[n].open
        /\ \A m \in Queues : m # n => Pushed(q, n, x)[m] = q[m]
    BY Zenon, <1>1, <2>1, QGrow
  <2> QED BY Zenon, <2>1, <2>2
<1>5. Own(q', BurstQueues, hand', Carriers, burst) /\ burst[x] = "held"
  <2>1. GripsBut(hand, hand', Carriers, t) /\ Grows(q, q', BurstQueues, n, hand[t])
    BY Zenon, <1>3, <1>4, ThreadNames, QueueNames DEF GripsBut, Grows, KeepsBut
  <2>2. TInv /\ OwnInv /\ hand[t] # 0 /\ hand'[t] = 0
    BY Zenon, <1>1, <1>3 DEF Inv
  <2> QED BY Zenon, <1>0, <2>1, <2>2, BurstPut
<1>6. burst' = burst
  <2>1. burst' = [burst EXCEPT ![x] = "held"] /\ burst \in Seq(BurstFates)
    BY Zenon DEF Finish, EndBurst, Inv, TInv
  <2> QED BY <1>5, <2>1
<1>7. TInv'
  BY Zenon, <1>2, <1>3, <1>4, <1>6 DEF Inv, TInv
<1>8. AtInv'
  <2>1. Fits(t, at'[t], hand'[t])
    BY Zenon, <1>0, <1>2, <1>3 DEF Fits
  <2> QED BY Zenon, <1>0, <1>2, <1>3, <2>1, AtKept DEF Inv
<1>9. q'["samples"] = q["samples"] /\ at'["source"] = at["source"]
  BY Zenon, <1>0, <1>2, <1>4, QueueNames, ThreadNames
<1>10. OwnInv'
  <2>1. hand'["source"] = hand["source"] /\ hand'["detector"] = hand["detector"]
    BY Zenon, <1>0, <1>3, ThreadNames
  <2>2. Own(q', {"samples"}, hand', {"source", "detector"}, buf')
    BY Zenon, <1>9, <2>1, BuffersKept DEF Inv
  <2> QED BY Zenon, <1>5, <1>6, <2>2 DEF OwnInv
<1>11. CtlInv'
  <2>1. \A s \in Threads : at[s] = "exit" => at'[s] = "exit"
    BY Zenon, <1>2
  <2>2. \A m \in Queues : q'[m].open = q[m].open
    BY Zenon, <1>4
  <2>3. /\ step \in Nat
        /\ t \in Workers => step <= 6
        /\ t = "consumer" => step <= 9
    BY Alive
  <2>4. \A m \in Queues : m # n => q'[m].items = q[m].items
    BY Zenon, <1>4
  <2>5. /\ n # "burst" /\ (n = "frame" => ~(step > 7)) /\ (n = "output" => ~(step > 10))
    BY <2>3
  <2>6. /\ step > 4 => q'["burst"].items = q["burst"].items
        /\ step > 7 => q'["frame"].items = q["frame"].items
        /\ step > 10 => q'["output"].items = q["output"].items
    BY Zenon, <2>4, <2>5, QueueNames
  <2>7. CtlInv /\ UNCHANGED <<main, step, mode, running>>
    BY Zenon DEF Inv
  <2> QED BY <2>1, <2>2, <2>6, <2>7, CtlKept
<1>12. FateInv'
  BY Zenon, <1>6 DEF Inv, FateInv
<1>13. FileInv'
  BY Zenon, <1>9, FileKept DEF Inv
<1> QED BY Zenon, <1>7, <1>8, <1>10, <1>11, <1>12, <1>13 DEF Inv

(* blocking_queue_add by a worker or by the consumer: its queue is open.   *)
LEMMA AddsOn ==
  ASSUME Inv, NEW t \in Adders, NEW n \in BurstQueues,
         (n = "frame" /\ t \in Workers) \/ (n = "output" /\ t = "consumer"),
         NEW fate \in BurstFates \ {"held", "leaked", "refused"}, AddOn(t, n, fate)
  PROVE  Inv'
<1>1. /\ at[t] = "add" /\ UNCHANGED <<running, sig, signals, main, step, mode, outputOn, left, buf>>
  BY Zenon DEF AddOn, mainVars, options
<1>2. PICK r \in AddAnswers(n) :
        /\ Offer(n, hand[t], r)
        /\ Finish(t, CASE r = "BQ_SUCCESS" -> "held" [] r = "BQ_FULL" -> fate [] r = "BQ_CLOSED" -> "leaked")
  BY Zenon DEF AddOn
<1>3. q[n].open
  BY Zenon, <1>1, Alive
<1>4. CASE r = "BQ_SUCCESS"
  <2>1. ~Full(n) /\ q' = Pushed(q, n, hand[t]) /\ Finish(t, "held")
    BY Zenon, <1>2, <1>4 DEF AddAnswers, PutAnswers, Offer, Pushed
  <2> QED BY Zenon, <1>1, <2>1, BurstQueued
<1>5. CASE r = "BQ_FULL"
  <2>1. q' = q /\ Finish(t, fate)
    BY Zenon, <1>2, <1>5 DEF Offer
  <2>2. t \in Carriers
    BY Zenon DEF Adders, Carriers
  <2> QED BY Zenon, <1>1, <2>1, <2>2, BurstEnds
<1>6. r \in {"BQ_SUCCESS", "BQ_FULL"}
  BY Zenon, <1>2, <1>3 DEF AddAnswers, PutAnswers
<1> QED BY Zenon, <1>4, <1>5, <1>6

(* The detector queues a burst it found.                                   *)
LEMMA DetectorPuts ==
  ASSUME Inv, DetectorPut
  PROVE  Inv'
<1>0. /\ at["detector"] = "put" /\ left > 0 /\ left' = left - 1
      /\ UNCHANGED <<running, sig, signals, main, step, mode, outputOn, at, hand, buf>>
  BY Zenon DEF DetectorPut, mainVars, options
<1>1. PICK r \in PutAnswers("burst") :
        /\ Offer("burst", Len(burst) + 1, r)
        /\ burst' = Append(burst, IF r = "BQ_SUCCESS" THEN "held" ELSE "refused")
  BY Zenon DEF DetectorPut
<1>2. step \in Nat /\ ~(step > 3) /\ q["burst"].open
  BY <1>0, Alive
<1>4. r = "BQ_SUCCESS" /\ ~Full("burst")
  BY Zenon, <1>1, <1>2 DEF PutAnswers
<1> DEFINE x == Len(burst) + 1
<1>5. q' = Pushed(q, "burst", x) /\ burst' = Append(burst, "held")
  BY Zenon, <1>1, <1>4 DEF Offer, Pushed
<1>6. /\ x \in Nat /\ QType(q) /\ Len(q["burst"].items) < Cap["burst"] /\ "burst" \in Queues
      /\ burst \in Seq(BurstFates) /\ "held" \in BurstFates
  <2>1. /\ q["burst"].items \in Seq(Nat) /\ Cap["burst"] \in Nat /\ QType(q) /\ "burst" \in Queues
        /\ burst \in Seq(BurstFates) /\ "held" \in BurstFates
    BY Zenon, LinesAre, QueueNames, PipelineAssumption DEF Inv, TInv, BurstFates
  <2>2. ~(Len(q["burst"].items) >= Cap["burst"])
    BY Zenon, <1>4 DEF Full, Items
  <2> QED BY <2>1, <2>2, LenFacts
<1>7. /\ QType(q') /\ q'["burst"].items = Append(q["burst"].items, x)
      /\ q'["burst"].open = q["burst"].open
      /\ \A m \in Queues : m # "burst" => q'[m] = q[m]
  <2> HIDE DEF x
  <2>1. /\ QType(Pushed(q, "burst", x)) /\ Pushed(q, "burst", x)["burst"].items = Append(q["burst"].items, x)
        /\ Pushed(q, "burst", x)["burst"].open = q["burst"].open
        /\ \A m \in Queues : m # "burst" => Pushed(q, "burst", x)[m] = q[m]
    BY Zenon, <1>6, QGrow
  <2> QED BY Zenon, <1>5, <2>1
<1>8. /\ burst' \in Seq(BurstFates) /\ Len(burst') = Len(burst) + 1 /\ Len(burst) \in Nat
      /\ \A i \in 1 .. Len(burst') : burst'[i] = "held" \/ (i \in 1 .. Len(burst) /\ burst'[i] = burst[i])
  <2>1. /\ burst' \in Seq(BurstFates) /\ Len(burst') = Len(burst) + 1 /\ Len(burst) \in Nat
        /\ burst'[Len(burst) + 1] = "held" /\ \A i \in 1 .. Len(burst) : burst'[i] = burst[i]
    BY <1>5, <1>6, AppendFacts, LenFacts
  <2>2. \A i \in 1 .. Len(burst') : i \in 1 .. Len(burst) \/ i = Len(burst) + 1
    BY <2>1
  <2> QED BY Zenon, <2>1, <2>2
<1>9. TInv'
  <2>1. left' \in 0 .. MaxBursts - Len(burst')
    BY <1>0, <1>8, PipelineAssumption DEF Inv, TInv
  <2> QED BY Zenon, <1>0, <1>7, <1>8, <2>1 DEF Inv, TInv
<1>10. AtInv'
  BY Zenon, <1>0 DEF Inv, AtInv
<1>11. q'["samples"] = q["samples"]
  BY Zenon, <1>7, QueueNames
<1>12. OwnInv'
  <2>1. Grips(hand, hand', Carriers) /\ Grows(q, q', BurstQueues, "burst", Len(burst) + 1)
    BY Zenon, <1>0, <1>7, QueueNames DEF Grips, Grows, KeepsBut
  <2>2. Own(q', BurstQueues, hand', Carriers, Append(burst, "held"))
    BY Zenon, <2>1, BurstFound DEF Inv
  <2>3. Own(q', {"samples"}, hand', {"source", "detector"}, buf')
    BY Zenon, <1>0, <1>11, BuffersKept DEF Inv
  <2> QED BY Zenon, <1>5, <2>2, <2>3 DEF OwnInv
<1>13. CtlInv'
  <2>1. \A m \in Queues : q'[m].open = q[m].open
    BY Zenon, <1>7
  <2>2. ~(step > 4) /\ ~(step > 7) /\ ~(step > 10)
    BY <1>2
  <2>3. CtlInv /\ UNCHANGED <<main, step, mode, running, at>>
    BY Zenon, <1>0 DEF Inv
  <2> QED BY Zenon, <2>1, <2>2, <2>3, CtlKept
<1>14. FateInv'
  BY Zenon, <1>0, <1>8 DEF Inv, FateInv
<1>15. FileInv'
  BY Zenon, <1>0, <1>11, FileKept DEF Inv
<1> QED BY Zenon, <1>9, <1>10, <1>12, <1>13, <1>14, <1>15 DEF Inv

(* The detector is done with a buffer.                                     *)
LEMMA DetectorFeeds ==
  ASSUME Inv, DetectorFed
  PROVE  Inv'
<1> DEFINE t == "detector"
<1>0. /\ at[t] = "put" /\ EndBuffer(hand[t], "fed") /\ Holds(t, 0) /\ Goto(t, "take")
      /\ UNCHANGED <<running, sig, signals, main, step, mode, outputOn, q, left, burst>>
  BY Zenon DEF DetectorFed, mainVars, options
<1>1. /\ at' \in [Threads -> Pcs] /\ at'[t] = "take" /\ \A s \in Threads : s # t => at'[s] = at[s]
  BY Zenon, <1>0, ThreadNames, GotoFacts DEF Inv, Pcs
<1>2. /\ hand' \in [Threads -> Nat] /\ hand'[t] = 0
      /\ \A s \in Threads : s # t => hand'[s] = hand[s]
  BY Zenon, <1>0, ThreadNames, HoldsFacts DEF Inv
<1>3. /\ hand[t] # 0 /\ buf \in Seq(BufferFates) /\ buf' = [buf EXCEPT ![hand[t]] = "fed"]
      /\ "fed" \in BufferFates \ {"held"}
  BY Zenon, <1>0 DEF Inv, AtInv, TInv, EndBuffer, BufferFates
<1>4. /\ buf' \in Seq(BufferFates) /\ Len(buf') = Len(buf)
      /\ \A i \in 1 .. Len(buf) : buf'[i] = buf[i] \/ buf'[i] = "fed"
  <2>1. hand[t] \in 1 .. Len(buf)
    BY Zenon, <1>3 DEF Inv, OwnInv, Own, InHand
  <2> QED BY <1>3, <2>1, SeqPut
<1>5. TInv'
  BY Zenon, <1>0, <1>1, <1>2, <1>4 DEF Inv, TInv
<1>6. AtInv'
  BY Zenon, <1>0, <1>1, <1>2, ThreadNames DEF Inv, AtInv
<1>7. OwnInv'
  <2>1. Keeps(q, q', {"samples"}) /\ GripsBut(hand, hand', {"source", "detector"}, t)
    BY Zenon, <1>0, <1>2, ThreadNames DEF Keeps, GripsBut
  <2>2. Own(q', {"samples"}, hand', {"source", "detector"}, buf')
    BY Zenon, <1>2, <1>3, <2>1, OwnEnd DEF Inv, OwnInv
  <2>3. Own(q', BurstQueues, hand', Carriers, burst')
    BY Zenon, <1>0, <1>2, ThreadNames, BurstsKept DEF Inv
  <2> QED BY Zenon, <2>2, <2>3 DEF OwnInv
<1>8. CtlInv'
  <2>1. \A s \in Threads : at[s] = "exit" => at'[s] = "exit"
    BY Zenon, <1>0, <1>1
  <2> QED BY Zenon, <1>0, <2>1, CtlKept DEF Inv
<1>9. FateInv'
  BY Zenon, <1>0, <1>4 DEF Inv, FateInv
<1>10. FileInv'
  <2>1. at'["source"] = at["source"]
    BY Zenon, <1>1, ThreadNames
  <2> QED BY Zenon, <1>0, <1>4, <2>1, FileKept DEF Inv
<1> QED BY Zenon, <1>5, <1>6, <1>7, <1>8, <1>9, <1>10 DEF Inv

LEMMA DetectorPreserves ==
  ASSUME Inv, DetectorStep
  PROVE  Inv'
<1>1. CASE Take("detector", "samples")
  BY Zenon, <1>1, DetectorTakes
<1>2. CASE DetectorFeed
  <2>1. /\ at["detector"] = "work" /\ left' \in 0 .. MaxBursts - Len(burst) /\ Goto("detector", "put")
        /\ UNCHANGED <<running, sig, signals, main, step, mode, outputOn, q, hand, buf, burst>>
    BY Zenon, <1>2 DEF DetectorFeed, mainVars, options
  <2>2. Fits("detector", "put", hand["detector"]) /\ "put" \in Pcs /\ "detector" \in Threads \ {"source"}
    BY Zenon, <2>1, ThreadNames DEF Fits, Inv, AtInv, Pcs
  <2> QED BY Zenon, <2>1, <2>2, StageGoes
<1>3. CASE DetectorPut
  BY Zenon, <1>3, DetectorPuts
<1>4. CASE DetectorFed
  BY Zenon, <1>4, DetectorFeeds
<1>5. CASE Leave("detector", "samples")
  BY Zenon, <1>5, Leaves
<1> QED BY Zenon, <1>1, <1>2, <1>3, <1>4, <1>5 DEF DetectorStep

LEMMA WorkerPreserves ==
  ASSUME Inv, NEW w \in Workers, WorkerStep(w)
  PROVE  Inv'
<1>0. /\ w \in Adders /\ w \in Carriers /\ w \in Threads \ {"source"} /\ "burst" \in BurstQueues
      /\ "frame" \in BurstQueues /\ w \notin {"detector", "output", "stats"}
  BY Zenon, ThreadNames, QueueNames DEF Adders, Carriers
<1>1. CASE Take(w, "burst")
  BY Zenon, <1>0, <1>1, BurstTakes
<1>2. CASE WorkerProcess(w)
  <2>0. at[w] = "work" /\ UNCHANGED <<running, sig, signals, main, step, mode, outputOn, left, buf>>
    BY Zenon, <1>2 DEF WorkerProcess, mainVars, options
  <2>1. CASE Goto(w, "add") /\ UNCHANGED <<q, hand, burst>>
    <3>1. Fits(w, "add", hand[w]) /\ "add" \in Pcs /\ left' \in 0 .. MaxBursts - Len(burst)
      BY Zenon, <1>0, <2>0 DEF Fits, Inv, AtInv, TInv, Pcs
    <3> QED BY Zenon, <1>0, <2>0, <2>1, <3>1, StageGoes
  <2>2. CASE Finish(w, "no_frame") /\ UNCHANGED q
    <3>1. "no_frame" \in BurstFates \ {"held", "leaked", "refused"}
      BY Zenon DEF BurstFates
    <3> QED BY Zenon, <1>0, <2>0, <2>2, <3>1, BurstEnds
  <2> QED BY Zenon, <1>2, <2>1, <2>2 DEF WorkerProcess
<1>3. CASE WorkerAdd(w)
  <2>1. "frame_drop" \in BurstFates \ {"held", "leaked", "refused"} /\ AddOn(w, "frame", "frame_drop")
    BY Zenon, <1>3 DEF BurstFates, WorkerAdd
  <2>2. ("frame" = "frame" /\ w \in Workers) \/ ("frame" = "output" /\ w = "consumer")
    OBVIOUS
  <2> QED BY Zenon, <1>0, <2>1, <2>2, AddsOn
<1>4. CASE Leave(w, "burst")
  BY Zenon, <1>0, <1>4, Leaves
<1> QED BY Zenon, <1>1, <1>2, <1>3, <1>4 DEF WorkerStep

LEMMA ConsumerPreserves ==
  ASSUME Inv, ConsumerStep
  PROVE  Inv'
<1> DEFINE t == "consumer"
<1>0. /\ t \in Adders /\ t \in Carriers /\ t \in Threads \ {"source"} /\ "frame" \in BurstQueues
      /\ "output" \in BurstQueues
  BY Zenon, ThreadNames, QueueNames DEF Adders, Carriers
<1>1. CASE Take(t, "frame")
  BY Zenon, <1>0, <1>1, BurstTakes
<1>2. CASE ConsumerDemod
  <2>0. at[t] = "work" /\ UNCHANGED <<running, sig, signals, main, step, mode, outputOn, q, left, buf>>
    BY Zenon, <1>2 DEF ConsumerDemod, mainVars, options
  <2>1. {"no_demod", "printed"} \subseteq BurstFates \ {"held", "leaked", "refused"}
    BY Zenon DEF BurstFates
  <2>2. CASE Finish(t, "no_demod")
    BY Zenon, <1>0, <2>0, <2>1, <2>2, BurstEnds
  <2>3. CASE Finish(t, "printed")
    BY Zenon, <1>0, <2>0, <2>1, <2>3, BurstEnds
  <2>4. CASE Goto(t, "add") /\ UNCHANGED <<hand, burst>>
    <3>1. Fits(t, "add", hand[t]) /\ "add" \in Pcs /\ left' \in 0 .. MaxBursts - Len(burst)
      BY Zenon, <1>0, <2>0 DEF Fits, Inv, AtInv, TInv, Pcs
    <3> QED BY Zenon, <1>0, <2>0, <2>4, <3>1, StageGoes
  <2> QED BY Zenon, <1>2, <2>2, <2>3, <2>4 DEF ConsumerDemod
<1>3. CASE ConsumerAdd
  <2>1. "output_drop" \in BurstFates \ {"held", "leaked", "refused"} /\ AddOn(t, "output", "output_drop")
    BY Zenon, <1>3 DEF BurstFates, ConsumerAdd
  <2> QED BY Zenon, <1>0, <2>1, AddsOn
<1>4. CASE Leave(t, "frame")
  BY Zenon, <1>0, <1>4, Leaves
<1> QED BY Zenon, <1>1, <1>2, <1>3, <1>4 DEF ConsumerStep

LEMMA OutputPreserves ==
  ASSUME Inv, OutputStep
  PROVE  Inv'
<1>0. "output" \in Carriers /\ "output" \in BurstQueues
  BY Zenon, QueueNames DEF Carriers
<1>1. CASE Take("output", "output")
  BY Zenon, <1>0, <1>1, BurstTakes
<1>2. CASE OutputWork
  <2>1. /\ at["output"] = "work" /\ Finish("output", "served")
        /\ UNCHANGED <<running, sig, signals, main, step, mode, outputOn, q, left, buf>>
    BY Zenon, <1>2 DEF OutputWork, mainVars, options
  <2>2. "served" \in BurstFates \ {"held", "leaked", "refused"}
    BY Zenon DEF BurstFates
  <2> QED BY Zenon, <1>0, <2>1, <2>2, BurstEnds
<1>3. CASE Leave("output", "output")
  BY Zenon, <1>0, <1>3, Leaves
<1> QED BY Zenon, <1>1, <1>2, <1>3 DEF OutputStep

LEMMA StatsPreserves ==
  ASSUME Inv, StatsStep
  PROVE  Inv'
<1>1. /\ at["stats"] \in {"sleep", "report"}
      /\ UNCHANGED <<running, sig, signals, main, step, mode, outputOn, q, hand, left, buf, burst>>
  BY Zenon DEF StatsStep, StatsCheck, StatsReport, mainVars, options, queueVars
<1>2. PICK pc \in {"sleep", "report", "exit"} : Goto("stats", pc)
  BY Zenon DEF StatsStep, StatsCheck, StatsReport
<1>3. /\ Fits("stats", pc, hand["stats"]) /\ pc \in Pcs /\ "stats" \in Threads \ {"source"}
      /\ left' \in 0 .. MaxBursts - Len(burst)
  BY Zenon, <1>1, ThreadNames DEF Fits, Inv, AtInv, TInv, Pcs
<1> QED BY Zenon, <1>1, <1>2, <1>3, StageGoes

-----------------------------------------------------------------------------
(***************************************************************************)
(* main() and its signals.                                                 *)
(***************************************************************************)
LEMMA MainGoes ==
  ASSUME Inv, UNCHANGED <<step, mode, outputOn, q, hand, left, buf, burst, at>>,
         running' \in BOOLEAN, sig' \in BOOLEAN, signals' \in 0 .. MaxSignals,
         main' \in {"check", "pausing", "paused", "stopping", "shutdown"},
         running' => running, main' # "shutdown" => step = 1,
         main' \in {"stopping", "shutdown"} => ~running',
         mode = "file" /\ signals' = 0 =>
           /\ signals = 0
           /\ ~running' \/ sig' \/ main' \in {"stopping", "shutdown"} => at["source"] \in {"kill", "exit"}
  PROVE  Inv'
<1>1. TInv'
  BY Zenon DEF Inv, TInv
<1>2. AtInv'
  BY Zenon DEF Inv, AtInv
<1>3. OwnInv'
  BY Zenon, OwnKept DEF Inv
<1>4. CtlInv'
  <2>1. WaitInv'
    BY Zenon DEF WaitInv
  <2>2. OpenInv' /\ EndedInv' /\ EmptyInv'
    BY DEF Inv, CtlInv, OpenInv, EndedInv, EmptyInv
  <2> QED BY Zenon, <2>1, <2>2 DEF CtlInv
<1>5. FateInv'
  BY Zenon DEF Inv, FateInv
<1>6. FileInv'
  BY Zenon DEF Inv, FileInv
<1> QED BY Zenon, <1>1, <1>2, <1>3, <1>4, <1>5, <1>6 DEF Inv

(* main() goes past one operation of its shutdown.                         *)
LEMMA MainPasses ==
  ASSUME Inv, UNCHANGED <<running, sig, signals, main, mode, outputOn, hand, left, buf, burst, at>>,
         main = "shutdown", step \in 1 .. 13, step' = step + 1,
         QType(q'), \A n \in Queues : q'[n].items = q[n].items, CtlInv'
  PROVE  Inv'
<1>1. TInv'
  BY DEF Inv, TInv
<1>2. AtInv'
  BY Zenon DEF Inv, AtInv
<1>3. OwnInv'
  BY Zenon, OwnKept DEF Inv
<1>4. FateInv'
  BY Zenon DEF Inv, FateInv
<1>5. FileInv'
  BY Zenon, QueueNames DEF Inv, FileInv
<1> QED BY Zenon, <1>1, <1>2, <1>3, <1>4, <1>5 DEF Inv

LEMMA MainAtFacts ==
  ASSUME Inv, NEW op, MainAt(op)
  PROVE  /\ main = "shutdown" /\ step \in 1 .. 13 /\ step' = step + 1 /\ Plan[step][1] = op
         /\ UNCHANGED <<running, sig, signals, main, mode, outputOn, hand, left, buf, burst, at>>
<1>1. main = "shutdown" /\ ~(step > 13)
  BY Zenon, PlanIs DEF MainAt, Done
<1>2. step \in 1 .. 14
  BY Zenon DEF Inv, TInv
<1>3. step \in 1 .. 13
  BY <1>1, <1>2
<1> QED BY Zenon, <1>1, <1>3 DEF MainAt, options

LEMMA JoinPreserves ==
  ASSUME Inv, MainJoin
  PROVE  Inv'
<1>1. /\ main = "shutdown" /\ step \in 1 .. 13 /\ step' = step + 1 /\ Plan[step][1] = "join"
      /\ UNCHANGED <<running, sig, signals, main, mode, outputOn, hand, left, buf, burst, at>>
  BY Zenon, MainAtFacts DEF MainJoin
<1>2. (\A t \in Plan[step][2] : at[t] = "exit") /\ q' = q /\ QType(q)
  BY Zenon DEF MainJoin, Inv, TInv
<1>3. /\ step = 1 => mode = "live" /\ at["source"] = "exit"
      /\ step = 2 => mode # "live" /\ at["source"] = "exit"
      /\ step = 3 => at["detector"] = "exit"
      /\ step = 6 => \A w \in Workers : at[w] = "exit"
      /\ step = 9 => at["consumer"] = "exit"
      /\ step = 12 => at["output"] = "exit"
      /\ step \notin {4, 5, 7, 8, 10, 11}
  BY <1>1, <1>2, PlanIs
<1>4. CtlInv'
  <2>1. CtlInv
    BY Zenon DEF Inv
  <2>2. WaitInv' /\ EmptyInv'
    BY <1>1, <1>2, <1>3, <2>1 DEF CtlInv, WaitInv, EmptyInv
  <2>3. OpenInv'
    BY <1>1, <1>2, <1>3, <2>1 DEF CtlInv, OpenInv
  <2>4. EndedInv'
    BY <1>1, <1>2, <1>3, <2>1 DEF CtlInv, EndedInv
  <2> QED BY Zenon, <2>2, <2>3, <2>4 DEF CtlInv
<1> QED BY Zenon, <1>1, <1>2, <1>4, MainPasses

LEMMA DrainPreserves ==
  ASSUME Inv, MainDrain
  PROVE  Inv'
<1>1. /\ main = "shutdown" /\ step \in 1 .. 13 /\ step' = step + 1 /\ Plan[step][1] = "drain"
      /\ UNCHANGED <<running, sig, signals, main, mode, outputOn, hand, left, buf, burst, at>>
  BY Zenon, MainAtFacts DEF MainDrain
<1>2. q[Plan[step][2]].items = <<>> /\ q' = q /\ QType(q)
  BY Zenon DEF MainDrain, Items, Inv, TInv
<1>3. /\ step = 4 => q["burst"].items = <<>>
      /\ step = 7 => q["frame"].items = <<>>
      /\ step = 10 => q["output"].items = <<>>
      /\ step \notin {1, 2, 3, 5, 6, 8, 9, 11, 12, 13}
  BY SMTT(40), <1>1, <1>2, PlanIs
<1>4. CtlInv'
  <2>1. CtlInv
    BY Zenon DEF Inv
  <2>2. WaitInv' /\ EmptyInv'
    BY <1>1, <1>2, <1>3, <2>1 DEF CtlInv, WaitInv, EmptyInv
  <2>3. OpenInv'
    BY <1>1, <1>2, <1>3, <2>1 DEF CtlInv, OpenInv
  <2>4. EndedInv'
    BY <1>1, <1>2, <1>3, <2>1 DEF CtlInv, EndedInv
  <2> QED BY Zenon, <2>2, <2>3, <2>4 DEF CtlInv
<1> QED BY Zenon, <1>1, <1>2, <1>4, MainPasses

LEMMA ClosePreserves ==
  ASSUME Inv, MainClose
  PROVE  Inv'
<1>1. /\ main = "shutdown" /\ step \in 1 .. 13 /\ step' = step + 1 /\ Plan[step][1] = "close"
      /\ UNCHANGED <<running, sig, signals, main, mode, outputOn, hand, left, buf, burst, at>>
  BY Zenon, MainAtFacts DEF MainClose
<1>2. PICK n : n = Plan[step][2]
  OBVIOUS
<1>3. /\ step = 1 => mode # "live" /\ n = "samples"
      /\ step = 2 => mode = "live" /\ n = "samples"
      /\ step = 5 => n = "burst"
      /\ step = 8 => n = "frame"
      /\ step = 11 => n = "output"
      /\ step \notin {3, 4, 6, 7, 9, 10, 12, 13}
  BY <1>1, <1>2, PlanIs
<1>4. n \in Queues /\ q' = Closed(q, n) /\ QType(q)
  BY SMTT(40), <1>1, <1>2, <1>3, QueueNames DEF MainClose, Closed, Inv, TInv
<1>5. /\ QType(Closed(q, n)) /\ Closed(q, n)[n].items = q[n].items /\ Closed(q, n)[n].open = FALSE
      /\ \A m \in Queues : m # n => Closed(q, n)[m] = q[m]
  BY Zenon, <1>4, QClose
<1>6. /\ QType(q') /\ q'[n].items = q[n].items /\ q'[n].open = FALSE
      /\ \A m \in Queues : m # n => q'[m] = q[m]
  BY Zenon, <1>4, <1>5
<1>7. \A m \in Queues : q'[m].items = q[m].items
  BY Zenon, <1>6
<1>8. CtlInv'
  <2>1. CtlInv
    BY Zenon DEF Inv
  <2>2. \A m \in {"samples", "burst", "frame", "output"} :
          q'[m].items = q[m].items /\ q'[m].open = IF m = n THEN FALSE ELSE q[m].open
    BY Zenon, <1>6, <1>7, QueueNames
  <2>3. /\ q'["samples"].open = IF "samples" = n THEN FALSE ELSE q["samples"].open
        /\ q'["burst"].open = IF "burst" = n THEN FALSE ELSE q["burst"].open
        /\ q'["frame"].open = IF "frame" = n THEN FALSE ELSE q["frame"].open
        /\ q'["output"].open = IF "output" = n THEN FALSE ELSE q["output"].open
        /\ q'["burst"].items = q["burst"].items /\ q'["frame"].items = q["frame"].items
        /\ q'["output"].items = q["output"].items
    BY Zenon, <2>2
  <2>4. WaitInv' /\ EmptyInv'
    BY SMTT(40), <1>1, <1>3, <2>1, <2>3 DEF CtlInv, WaitInv, EmptyInv
  <2>5. OpenInv'
    BY <1>1, <1>3, <2>1, <2>3 DEF CtlInv, OpenInv
  <2>6. EndedInv'
    BY <1>1, <1>3, <2>1 DEF CtlInv, EndedInv
  <2> QED BY Zenon, <2>4, <2>5, <2>6 DEF CtlInv
<1> QED BY Zenon, <1>1, <1>6, <1>7, <1>8, MainPasses

LEMMA MainPreserves ==
  ASSUME Inv, MainStep
  PROVE  Inv'
<1> USE DEF options, queueVars
<1>0. /\ running \in BOOLEAN /\ sig \in BOOLEAN /\ signals \in 0 .. MaxSignals
      /\ main # "shutdown" => step = 1
      /\ main \in {"stopping", "shutdown"} => ~running
      /\ mode = "file" /\ signals = 0 =>
           (~running \/ sig \/ main \in {"stopping", "shutdown"} => at["source"] \in {"kill", "exit"})
  BY Zenon DEF Inv, TInv, CtlInv, WaitInv, FileInv
<1>1. CASE MainCheck
  BY Zenon, <1>0, <1>1, MainGoes DEF MainCheck
<1>2. CASE MainPause
  BY Zenon, <1>0, <1>2, MainGoes DEF MainPause
<1>3. CASE MainStop
  BY Zenon, <1>0, <1>3, MainGoes DEF MainStop
<1> QED BY Zenon, <1>1, <1>2, <1>3, JoinPreserves, DrainPreserves, ClosePreserves DEF MainStep

LEMMA SignalsPreserve ==
  ASSUME Inv, Deliver \/ Interrupt
  PROVE  Inv'
<1> USE DEF options, queueVars
<1>0. /\ running \in BOOLEAN /\ sig \in BOOLEAN /\ signals \in 0 .. MaxSignals
      /\ main \in {"check", "pausing", "paused", "stopping", "shutdown"}
      /\ main # "shutdown" => step = 1
      /\ main \in {"stopping", "shutdown"} => ~running
      /\ mode = "file" /\ signals = 0 =>
           (~running \/ sig \/ main \in {"stopping", "shutdown"} => at["source"] \in {"kill", "exit"})
  BY Zenon DEF Inv, TInv, CtlInv, WaitInv, FileInv
<1>1. CASE Deliver
  BY Zenon, <1>0, <1>1, MainGoes DEF Deliver
<1>2. CASE Interrupt
  <2>1. /\ signals' \in 0 .. MaxSignals /\ signals' # 0 /\ sig' = TRUE
        /\ UNCHANGED <<running, main, step, mode, outputOn, q, hand, left, buf, burst, at>>
    BY <1>0, <1>2, PipelineAssumption DEF Interrupt
  <2> QED BY Zenon, <1>0, <2>1, MainGoes
<1> QED BY Zenon, <1>1, <1>2

-----------------------------------------------------------------------------
(***************************************************************************)
(* The invariant, and what follows from it.                                *)
(***************************************************************************)
LEMMA InitInv ==
  ASSUME Init
  PROVE  Inv
<1>0. /\ \A n \in Queues : q[n].items = <<>> /\ q[n].open = TRUE
      /\ \A t \in Threads : hand[t] = 0
      /\ Len(buf) = 0 /\ Len(burst) = 0
  BY Zenon DEF Init
<1>1. TInv
  <2>1. QType(q)
    <3>1. [items |-> <<>>, open |-> TRUE] \in [items : Seq(Nat), open : BOOLEAN]
      OBVIOUS
    <3>2. \A n \in Queues : 0 <= Cap[n]
      BY PipelineAssumption
    <3> QED BY Zenon, <1>0, <3>1, <3>2 DEF Init, QType
  <2>2. at \in [Threads -> Pcs]
    BY Zenon DEF Init, Pcs
  <2>3. hand \in [Threads -> Nat] /\ buf \in Seq(BufferFates) /\ burst \in Seq(BurstFates)
    BY DEF Init
  <2>4. Len(buf) <= MaxBuffers /\ left \in 0 .. MaxBursts - Len(burst) /\ signals \in 0 .. MaxSignals
    BY <1>0, PipelineAssumption DEF Init
  <2>5. /\ mode \in Modes /\ outputOn \in BOOLEAN /\ running \in BOOLEAN /\ sig \in BOOLEAN
        /\ main = "check"
    BY Zenon DEF Init
  <2>6. step \in 1 .. 14
    BY DEF Init
  <2> QED BY Zenon, <2>1, <2>2, <2>3, <2>4, <2>5, <2>6 DEF TInv
<1>2. AtInv
  <2>1. /\ at["source"] = "loop" /\ at["stats"] = "sleep" /\ at["detector"] = "take" /\ at["output"] = "take"
        /\ \A t \in Adders : at[t] = "take"
    BY Zenon, ThreadNames DEF Init
  <2> QED BY Zenon, <1>0, <2>1, ThreadNames DEF AtInv
<1>3. OwnInv
  <2>1. ASSUME NEW Ns, NEW Ts, NEW f, Ns \subseteq Queues, Ts \subseteq Threads, Len(f) = 0
        PROVE  Own(q, Ns, hand, Ts, f)
    <3>1. \A n \in Ns : q[n].items = <<>>
      BY Zenon, <1>0, <2>1
    <3>2. \A n \in Ns : 1 .. Len(q[n].items) = {}
      BY <3>1
    <3>3. \A t \in Ts : hand[t] = 0
      BY Zenon, <1>0, <2>1
    <3>4. 1 .. Len(f) = {}
      BY <2>1
    <3> QED BY <3>2, <3>3, <3>4, Zenon DEF Own, Queued, InHand, QueuedOnce, HeldOnce, NotBoth, Found
  <2>2. {"samples"} \subseteq Queues /\ {"source", "detector"} \subseteq Threads
    BY Zenon, QueueNames, ThreadNames
  <2> QED BY Zenon, <1>0, <2>1, <2>2, QueueNames, ThreadNames DEF OwnInv
<1>4. CtlInv
  BY <1>0, QueueNames DEF Init, CtlInv, WaitInv, OpenInv, EndedInv, EmptyInv
<1>5. FateInv
  BY <1>0 DEF FateInv
<1>6. FileInv
  BY <1>0, ThreadNames DEF Init, FileInv
<1> QED BY Zenon, <1>1, <1>2, <1>3, <1>4, <1>5, <1>6 DEF Inv

LEMMA StutterInv ==
  ASSUME Inv, UNCHANGED vars
  PROVE  Inv'
<1>1. UNCHANGED <<mode, outputOn, running, sig, signals, main, step, q, at, hand, left, buf, burst>>
  BY Zenon DEF vars, mainVars, queueVars, options
<1>2. TInv' /\ AtInv'
  BY <1>1 DEF Inv, TInv, AtInv
<1>3. CtlInv'
  BY Zenon, <1>1, CtlKept DEF Inv
<1>4. FateInv' /\ FileInv'
  BY Zenon, <1>1 DEF Inv, FateInv, FileInv
<1>5. OwnInv'
  BY Zenon, <1>1, OwnKept DEF Inv
<1> QED BY Zenon, <1>2, <1>3, <1>4, <1>5 DEF Inv

LEMMA InvHolds == Spec => []Inv
<1>1. Init => Inv
  BY Zenon, InitInv
<1>2. Inv /\ [Next]_vars => Inv'
  BY Zenon, SourcePreserves, DetectorPreserves, WorkerPreserves, ConsumerPreserves, OutputPreserves,
     StatsPreserves, MainPreserves, SignalsPreserve, StutterInv DEF Next
<1> QED BY <1>1, <1>2, PTL DEF Spec

LEMMA InvTypes ==
  ASSUME Inv
  PROVE  TypeOK
<1>1. /\ MaxBuffers \in Nat /\ MaxBursts \in Nat
      /\ buf \in Seq(BufferFates) /\ Len(buf) \in Nat /\ Len(buf) <= MaxBuffers
      /\ burst \in Seq(BurstFates) /\ Len(burst) \in Nat /\ Len(burst) <= MaxBursts
      /\ left \in 0 .. MaxBursts
  BY LenFacts, PipelineAssumption DEF Inv, TInv
<1>2. /\ \A i \in 1 .. Len(buf) : i \in 1 .. MaxBuffers /\ i \in 0 .. MaxBuffers + MaxBursts
      /\ \A i \in 1 .. Len(burst) : i \in 1 .. MaxBursts /\ i \in 0 .. MaxBuffers + MaxBursts
      /\ 0 \in 0 .. MaxBuffers + MaxBursts
  BY <1>1
<1>3. \A n \in Queues :
        /\ q[n].open \in BOOLEAN
        /\ Len(Items(n)) <= Cap[n]
        /\ \A i \in DOMAIN Items(n) :
             Items(n)[i] \in 1 .. (IF n = "samples" THEN MaxBuffers ELSE MaxBursts)
  <2> SUFFICES ASSUME NEW n \in Queues
               PROVE  /\ q[n].open \in BOOLEAN /\ Len(q[n].items) <= Cap[n]
                      /\ \A i \in DOMAIN q[n].items :
                           q[n].items[i] \in 1 .. (IF n = "samples" THEN MaxBuffers ELSE MaxBursts)
    BY Zenon DEF Items
  <2>1. q[n].open \in BOOLEAN /\ Len(q[n].items) <= Cap[n] /\ q[n].items \in Seq(Nat)
    BY Zenon DEF Inv, TInv, QType
  <2>2. DOMAIN q[n].items = 1 .. Len(q[n].items)
    BY Zenon, <2>1, LenFacts
  <2>3. CASE n = "samples"
    <3>1. \A i \in 1 .. Len(q[n].items) : q[n].items[i] \in 1 .. Len(buf)
      BY Zenon, <2>3 DEF Inv, OwnInv, Own, Queued
    <3> QED BY Zenon, <1>2, <2>1, <2>2, <2>3, <3>1
  <2>4. CASE n # "samples"
    <3>1. \A i \in 1 .. Len(q[n].items) : q[n].items[i] \in 1 .. Len(burst)
      BY Zenon, <2>4, QueueNames DEF Inv, OwnInv, Own, Queued
    <3> QED BY Zenon, <1>2, <2>1, <2>2, <2>4, <3>1
  <2> QED BY Zenon, <2>3, <2>4
<1>4. hand \in [Threads -> 0 .. MaxBuffers + MaxBursts]
  <2>1. hand \in [Threads -> Nat]
    BY Zenon DEF Inv, TInv
  <2>2. \A t \in {"source", "detector"} : hand[t] # 0 => hand[t] \in 1 .. Len(buf)
    BY Zenon DEF Inv, OwnInv, Own, InHand
  <2>3. \A t \in Carriers : hand[t] # 0 => hand[t] \in 1 .. Len(burst)
    BY Zenon DEF Inv, OwnInv, Own, InHand
  <2>4. hand["stats"] = 0
    BY Zenon DEF Inv, AtInv
  <2>5. \A t \in Threads : t \in {"source", "detector"} \/ t \in Carriers \/ t = "stats"
    BY Zenon DEF Threads, Carriers
  <2>6. \A t \in Threads : hand[t] \in 0 .. MaxBuffers + MaxBursts
    BY Zenon, <1>2, <2>2, <2>3, <2>4, <2>5
  <2> QED BY Zenon, <2>1, <2>6
<1>5. Range(buf) \subseteq BufferFates /\ Range(burst) \subseteq BurstFates
  <2>1. /\ \A i \in DOMAIN buf : buf[i] \in BufferFates
        /\ \A i \in DOMAIN burst : burst[i] \in BurstFates
    BY Zenon, <1>1, LenFacts
  <2> QED BY Zenon, <2>1 DEF Range
<1>6. step \in 1 .. Len(Plan) + 1
  BY PlanIs DEF Inv, TInv
<1> QED BY Zenon, <1>1, <1>3, <1>4, <1>5, <1>6 DEF TypeOK, Inv, TInv, Pcs

(***************************************************************************)
(* Every buffer has one owner until it is freed, and none afterwards; so   *)
(* has every burst; an SDR's buffers are never lost to a closed queue; and *)
(* no queue exceeds its size: for any number of workers and queues of any  *)
(* size, under every interleaving of main.c's threads and signals.         *)
(***************************************************************************)
THEOREM OwnedHolds == Spec => []BuffersAreOwned
<1>1. Inv => BuffersAreOwned
  <2> SUFFICES ASSUME Inv PROVE BuffersAreOwned
    OBVIOUS
  <2>1. TypeOK
    BY Zenon, InvTypes
  <2>2. /\ buf \in Seq(BufferFates) /\ DOMAIN buf = 1 .. Len(buf)
        /\ burst \in Seq(BurstFates) /\ DOMAIN burst = 1 .. Len(burst)
    BY Zenon, LenFacts DEF Inv, TInv
  <2>3. \A n \in Queues : Items(n) \in Seq(Nat)
    BY Zenon, LinesAre DEF Inv, Items
  <2>4. OneOwner
    <3>1. ASSUME NEW i \in 1 .. Len(buf)
          PROVE  IF buf[i] = "held"
                   THEN \E p \in Owners(i, {"samples"}, {"source", "detector"}) :
                          Owners(i, {"samples"}, {"source", "detector"}) = {p}
                   ELSE Owners(i, {"samples"}, {"source", "detector"}) = {}
      <4>1. \A n \in {"samples"} : Items(n) \in Seq(Nat)
        BY Zenon, <2>3, QueueNames
      <4>2. Own(q, {"samples"}, hand, {"source", "detector"}, buf)
        BY Zenon DEF Inv, OwnInv
      <4> QED BY Zenon, <2>2, <4>1, <4>2, OwnersAre
    <3>2. ASSUME NEW i \in 1 .. Len(burst)
          PROVE  IF burst[i] = "held"
                   THEN \E p \in Owners(i, BurstQueues, Carriers) : Owners(i, BurstQueues, Carriers) = {p}
                   ELSE Owners(i, BurstQueues, Carriers) = {}
      <4>1. \A n \in BurstQueues : Items(n) \in Seq(Nat)
        BY Zenon, <2>3, QueueNames
      <4>2. Own(q, BurstQueues, hand, Carriers, burst)
        BY Zenon DEF Inv, OwnInv
      <4> QED BY Zenon, <2>2, <4>1, <4>2, OwnersAre
    <3> QED BY Zenon, <2>2, <3>1, <3>2 DEF OneOwner, BurstQueues, Carriers
  <2>5. NoSampleLeaks
    BY Zenon, <2>2 DEF Inv, FateInv, NoSampleLeaks
  <2> QED BY Zenon, <2>1, <2>4, <2>5 DEF BuffersAreOwned
<1> QED BY <1>1, InvHolds, PTL

(***************************************************************************)
(* When main() has joined its last thread no burst is left in a queue or   *)
(* in a thread, none was ever refused by a queue closed too early, and a   *)
(* file played without an interruption was fed to the detector in full.    *)
(***************************************************************************)
THEOREM NothingLeftHolds == Spec => []NothingLeftBehind
<1>1. Inv => NothingLeftBehind
  <2> SUFFICES ASSUME Inv PROVE NothingLeftBehind
    OBVIOUS
  <2>1. /\ buf \in Seq(BufferFates) /\ DOMAIN buf = 1 .. Len(buf)
        /\ burst \in Seq(BurstFates) /\ DOMAIN burst = 1 .. Len(burst)
    BY Zenon, LenFacts DEF Inv, TInv
  <2>2. Done => main = "shutdown" /\ step > 13
    BY Zenon, PlanIs DEF Done
  <2>3. ASSUME Done
        PROVE  /\ \A n \in BurstQueues : 1 .. Len(q[n].items) = {}
               /\ \A t \in Carriers : hand[t] = 0
               /\ hand["source"] = 0 /\ hand["detector"] = 0
    <3>1. step > 13 /\ step \in Nat
      BY <2>2, <2>3 DEF Inv, TInv
    <3>2. \A n \in BurstQueues : q[n].items = <<>>
      <4>1. step > 4 /\ step > 7 /\ step > 10
        BY <3>1
      <4> QED BY Zenon, <4>1 DEF Inv, CtlInv, EmptyInv, BurstQueues
    <3>3. /\ at["source"] = "exit" /\ at["detector"] = "exit" /\ at["output"] = "exit"
          /\ \A t \in Adders : at[t] = "exit"
      BY <3>1 DEF Inv, CtlInv, EndedInv, Adders
    <3>4. /\ hand["source"] = 0 /\ hand["detector"] = 0 /\ hand["output"] = 0
          /\ \A t \in Adders : hand[t] = 0
      BY Zenon, <3>3 DEF Inv, AtInv
    <3> QED BY <3>2, <3>4 DEF Carriers, Adders
  <2>4. NoBurstLeftBehind
    <3>1. ASSUME Done, NEW i \in 1 .. Len(burst) PROVE burst[i] # "held"
      <4>1. i # 0
        BY <2>1, LenFacts
      <4> QED BY Zenon, <2>3, <3>1, <4>1 DEF Inv, OwnInv, Own, Found, Queues_, Hands_
    <3> QED BY Zenon, <2>1, <3>1 DEF NoBurstLeftBehind, Inv, FateInv
  <2>5. WholeFileIsFed
    <3> SUFFICES ASSUME Done, mode = "file", signals = 0
                 PROVE  Len(buf) = MaxBuffers /\ \A i \in DOMAIN buf : buf[i] = "fed"
      BY Zenon DEF WholeFileIsFed
    <3>1. at["source"] \in {"kill", "exit"}
      BY Zenon, <2>2 DEF Inv, FileInv
    <3>2. /\ Len(buf) = MaxBuffers /\ q["samples"].items = <<>>
          /\ \A i \in 1 .. Len(buf) : buf[i] \in {"held", "fed"}
      BY Zenon, <3>1 DEF Inv, FileInv
    <3>3. 1 .. Len(q["samples"].items) = {}
      BY <3>2
    <3>4. ASSUME NEW i \in 1 .. Len(buf) PROVE buf[i] # "held"
      <4>1. i # 0
        BY <2>1, LenFacts
      <4> QED BY Zenon, <2>3, <3>3, <4>1 DEF Inv, OwnInv, Own, Found, Queues_, Hands_
    <3> QED BY Zenon, <2>1, <3>2, <3>4
  <2> QED BY Zenon, <2>4, <2>5 DEF NothingLeftBehind
<1> QED BY <1>1, InvHolds, PTL

=============================================================================
