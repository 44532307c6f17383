---------------------------- MODULE QueueLemmas -----------------------------
(***************************************************************************)
(* Every function of fair_lock.h keeps LockOK, for any finite set of       *)
(* threads, and what the functions on the circular array of a              *)
(* Blocking_Queue keep true.  The proofs of FairLock and of BlockingQueue  *)
(* cite these.                                                             *)
(***************************************************************************)
EXTENDS FairLockOps, QueueRing, FiniteSetTheorems, SequenceTheorems, TLAPS

(* A non-empty list has a front entry: dequeue_cond_queue_entry returns    *)
(* NULL only when nobody is queued.  The entry with the fewest entries     *)
(* ahead of it is the one.                                                 *)
LEMMA FrontExists ==
  ASSUME NEW l, LockOK(l), IsFiniteSet(Threads), l.queue # {}
  PROVE  Front(l) # {}
<1> DEFINE A == {l.ahead[t] : t \in l.queue}
<1>1. l.queue \subseteq Threads /\ \A t \in l.queue : l.ahead[t] \in SUBSET Threads
  BY DEF LockOK, FairLocks
<1>2. A \subseteq SUBSET Threads /\ A # {}
  BY <1>1
<1>3. IsWellFoundedOn(StrictSubsetOrdering(Threads), SUBSET Threads)
  BY ZenonT(30), FS_StrictSubsetOrderingWellFounded, FS_FiniteSubsetsOfFinite
<1>4. PICK x \in A : \A y \in A : <<y, x>> \notin StrictSubsetOrdering(Threads)
  <2> HIDE DEF A
  <2> QED BY <1>2, <1>3, WFMin
<1>5. PICK t \in l.queue : x = l.ahead[t]
  BY <1>4
<1>6. ASSUME NEW u \in l.ahead[t] PROVE FALSE
  <2>1. u \in l.queue /\ l.ahead[u] \subseteq l.ahead[t] /\ u \notin l.ahead[u]
    BY <1>5, <1>6 DEF LockOK, Ordered
  <2>2. l.ahead[u] \in A /\ l.ahead[u] # x
    BY <1>5, <1>6, <2>1
  <2>3. <<l.ahead[u], x>> \in StrictSubsetOrdering(Threads)
    BY <1>1, <1>5, <2>1, <2>2 DEF StrictSubsetOrdering
  <2> QED BY <1>4, <2>2, <2>3
<1> QED BY <1>5, <1>6 DEF Front

(* There is one front entry: fair_lock_unlock signals one thread.          *)
LEMMA FrontUnique ==
  ASSUME NEW l, LockOK(l), NEW t \in Front(l), NEW u \in Front(l)
  PROVE  t = u
BY DEF LockOK, Ordered, Front

(* Taking entries out of the list keeps the order of those that stay.      *)
LEMMA UnlinkOrdered ==
  ASSUME NEW l, l \in FairLocks, Ordered(l), NEW S \in SUBSET Threads
  PROVE  /\ Unlink(l, S) \in FairLocks
         /\ Ordered(Unlink(l, S))
BY ZenonT(30) DEF FairLocks, Ordered, Unlink

LEMMA InitOK == LockOK(FairLockInit)
BY FS_EmptySet DEF LockOK, FairLocks, Ordered, FairLockInit

(* fair_lock_lock on a free lock that nobody waits for.                    *)
LEMMA AcquireOK ==
  ASSUME NEW l, LockOK(l), IsFiniteSet(Threads), ~MustWait(l)
  PROVE  /\ LockOK(Acquire(l))
         /\ Sleepers(Acquire(l)) = Sleepers(l)
<1>1. l.queue \cup l.signalled \in SUBSET Threads
  BY DEF LockOK, FairLocks
<1>2. l.queue = {} /\ l.signalled = {}
  BY <1>1, FS_Subset, FS_EmptySet DEF LockOK, FairLocks, MustWait
<1> QED BY ZenonT(30), <1>2 DEF LockOK, FairLocks, Ordered, Acquire, Sleepers

(* A caller that queues up: it is counted, it is last, and since somebody  *)
(* holds the lock or was signalled to take it, it will be woken.           *)
LEMMA EnqueueOK ==
  ASSUME NEW l, LockOK(l), IsFiniteSet(Threads), MustWait(l),
         NEW t \in Threads, t \notin Sleepers(l), NEW isWeak \in BOOLEAN
  PROVE  /\ LockOK(EnqueueEntry(l, t, isWeak))
         /\ Sleepers(EnqueueEntry(l, t, isWeak)) = Sleepers(l) \cup {t}
<1> DEFINE m == EnqueueEntry(l, t, isWeak)
<1>1. l.queue \cup l.signalled \in SUBSET Threads /\ IsFiniteSet(l.queue \cup l.signalled)
  BY FS_Subset DEF LockOK, FairLocks
<1>2. /\ m.queue = l.queue \cup {t}
      /\ m.ahead = [l.ahead EXCEPT ![t] = l.queue]
      /\ m.signalled = l.signalled
      /\ m.abandoned = l.abandoned
      /\ m.is_lock_acquired = l.is_lock_acquired
      /\ m.waiting_threads = l.waiting_threads + 1
  BY DEF LockOK, FairLocks, EnqueueEntry
<1>3. m \in FairLocks
  <2> DEFINE w == IF isWeak THEN l.weak \cup {t} ELSE l.weak
             a == [l.ahead EXCEPT ![t] = l.queue]
             n == l.waiting_threads + 1
             q == l.queue \cup {t}
             b == [l EXCEPT !.waiting_threads = n, !.queue = q]
  <2>1. l \in FairLocks
    BY DEF LockOK
  <2>2. /\ w \in SUBSET Threads
        /\ a \in [Threads -> SUBSET Threads]
        /\ n \in Nat
        /\ q \in SUBSET Threads
    BY <2>1 DEF FairLocks
  <2>3. m = [b EXCEPT !.ahead = a, !.weak = w]
    BY <2>1 DEF FairLocks, EnqueueEntry
  <2> HIDE DEF m, w, a, n, q
  <2>4. b \in FairLocks
    BY ZenonT(30), <2>1, <2>2 DEF FairLocks
  <2> HIDE DEF b
  <2> QED BY ZenonT(30), <2>2, <2>3, <2>4 DEF FairLocks
<1>4. m.waiting_threads = Cardinality(m.queue \cup m.signalled)
  <2>1. m.queue \cup m.signalled = (l.queue \cup l.signalled) \cup {t}
    BY <1>2
  <2>2. t \notin l.queue \cup l.signalled
    BY DEF Sleepers
  <2>3. Cardinality((l.queue \cup l.signalled) \cup {t}) = Cardinality(l.queue \cup l.signalled) + 1
    BY ZenonT(30), <1>1, <2>2, FS_AddElement
  <2>4. l.waiting_threads = Cardinality(l.queue \cup l.signalled)
    BY DEF LockOK
  <2> HIDE DEF m
  <2> QED BY <1>2, <2>1, <2>3, <2>4
<1>5. l.is_lock_acquired \/ l.signalled # {}
  BY <1>1, FS_EmptySet DEF LockOK, MustWait
<1>6. Ordered(m)
  <2>1. l.ahead \in [Threads -> SUBSET Threads] /\ l.queue \subseteq Threads
    BY DEF LockOK, FairLocks
  <2>2. t \notin l.queue
    BY DEF Sleepers
  <2>3. \A u \in l.queue : m.ahead[u] = l.ahead[u]
    BY <1>2, <2>1, <2>2
  <2>4. m.ahead[t] = l.queue
    BY <1>2, <2>1
  <2>5. Ordered(l)
    BY DEF LockOK
  <2> HIDE DEF m
  <2> QED BY <1>2, <2>1, <2>2, <2>3, <2>4, <2>5 DEF Ordered
<1>7. Sleepers(m) = Sleepers(l) \cup {t}
  BY <1>2 DEF Sleepers
<1> HIDE DEF m
<1>8. LockOK(m)
  BY <1>2, <1>3, <1>4, <1>5, <1>6 DEF LockOK, Sleepers
<1> QED BY <1>7, <1>8 DEF m

(* fair_lock_unlock by the holder: the turn passes to the front entry.     *)
LEMMA UnlockOK ==
  ASSUME NEW l, LockOK(l), IsFiniteSet(Threads), l.is_lock_acquired
  PROVE  /\ LockOK(Unlock(l))
         /\ Sleepers(Unlock(l)) = Sleepers(l)
         /\ ~Unlock(l).is_lock_acquired
<1> DEFINE u == Unlink(l, Front(l))
           m == Unlock(l)
<1>1. Front(l) \in SUBSET Threads /\ Front(l) \subseteq l.queue
  BY DEF LockOK, FairLocks, Front
<1>2. u \in FairLocks /\ Ordered(u)
  BY <1>1, UnlinkOrdered DEF LockOK
<1>3. /\ u.queue = l.queue \ Front(l)
      /\ u.signalled = l.signalled
      /\ u.abandoned = l.abandoned
      /\ u.waiting_threads = l.waiting_threads
  BY <1>1 DEF LockOK, FairLocks, Unlink
<1>4. m = [u EXCEPT !.signalled = @ \cup Front(l), !.is_lock_acquired = FALSE]
  BY DEF Unlock
<1> HIDE DEF u, m
<1>5. /\ m \in FairLocks
      /\ m.queue = u.queue
      /\ m.ahead = u.ahead
      /\ m.signalled = u.signalled \cup Front(l)
      /\ m.abandoned = u.abandoned
      /\ m.waiting_threads = u.waiting_threads
      /\ m.is_lock_acquired = FALSE
  BY ZenonT(30), <1>1, <1>2, <1>4 DEF FairLocks
<1>6. Ordered(m)
  BY <1>2, <1>5 DEF Ordered
<1>7. l.signalled = {}
  BY DEF LockOK
<1>8. m.queue \cup m.signalled = l.queue \cup l.signalled
  BY <1>1, <1>3, <1>5
<1>9. m.signalled = Front(l) /\ \A t1, t2 \in m.signalled : t1 = t2
  BY <1>3, <1>5, <1>7, FrontUnique
<1>10. m.queue # {} => m.signalled # {}
  BY <1>1, <1>3, <1>5, <1>9, FrontExists
<1>11. LockOK(m)
  BY <1>1, <1>3, <1>5, <1>6, <1>7, <1>8, <1>9, <1>10 DEF LockOK
<1>12. Sleepers(m) = Sleepers(l)
  BY <1>3, <1>5, <1>8 DEF Sleepers
<1> QED BY <1>5, <1>11, <1>12 DEF m

(* The thread whose turn it is takes the lock.                             *)
LEMMA WakeAcquireOK ==
  ASSUME NEW l, LockOK(l), IsFiniteSet(Threads), NEW t \in l.signalled
  PROVE  /\ LockOK(WakeAcquire(l, t))
         /\ Sleepers(WakeAcquire(l, t)) = Sleepers(l) \ {t}
         /\ ~l.is_lock_acquired
<1> DEFINE m == WakeAcquire(l, t)
<1>1. l.queue \cup l.signalled \in SUBSET Threads /\ IsFiniteSet(l.queue \cup l.signalled)
  BY FS_Subset DEF LockOK, FairLocks
<1>2. l.signalled = {t} /\ t \notin l.queue /\ t \notin l.abandoned /\ ~l.is_lock_acquired
  BY DEF LockOK
<1>3. l.waiting_threads = Cardinality(l.queue) + 1 /\ Cardinality(l.queue) \in Nat
  BY <1>1, <1>2, FS_AddElement, FS_Subset, FS_CardinalityType DEF LockOK
<1>4. /\ m \in FairLocks
      /\ m.queue = l.queue
      /\ m.ahead = l.ahead
      /\ m.signalled = {}
      /\ m.abandoned = l.abandoned
      /\ m.waiting_threads = Cardinality(l.queue)
      /\ m.is_lock_acquired = TRUE
  <2>1. l \in FairLocks /\ l.waiting_threads - 1 = Cardinality(l.queue)
    BY <1>3 DEF LockOK
  <2> QED BY ZenonT(30), <1>2, <1>3, <2>1 DEF FairLocks, WakeAcquire
<1> HIDE DEF m
<1>5. Ordered(m)
  BY <1>4 DEF LockOK, Ordered
<1>6. m.queue \cup m.signalled = l.queue
  BY <1>4
<1>7. LockOK(m)
  BY <1>4, <1>5, <1>6 DEF LockOK
<1>8. Sleepers(m) = Sleepers(l) \ {t}
  BY <1>2, <1>4 DEF Sleepers
<1> QED BY <1>2, <1>7, <1>8 DEF m

(* An abandoned thread returns FL_ABANDONED and leaves the lock alone.     *)
LEMMA WakeAbandonedOK ==
  ASSUME NEW l, LockOK(l), NEW t \in l.abandoned
  PROVE  /\ LockOK(WakeAbandoned(l, t))
         /\ Sleepers(WakeAbandoned(l, t)) = Sleepers(l) \ {t}
<1> DEFINE m == WakeAbandoned(l, t)
<1>1. l \in FairLocks
  BY DEF LockOK
<1>2. /\ m \in FairLocks
      /\ m.queue = l.queue
      /\ m.ahead = l.ahead
      /\ m.signalled = l.signalled
      /\ m.abandoned = l.abandoned \ {t}
      /\ m.waiting_threads = l.waiting_threads
      /\ m.is_lock_acquired = l.is_lock_acquired
  BY ZenonT(30), <1>1 DEF FairLocks, WakeAbandoned
<1> HIDE DEF m
<1>3. Ordered(m)
  BY <1>2 DEF LockOK, Ordered
<1>4. LockOK(m)
  BY <1>2, <1>3 DEF LockOK
<1>5. Sleepers(m) = Sleepers(l) \ {t}
  BY <1>2 DEF LockOK, Sleepers
<1> QED BY <1>4, <1>5 DEF m

(* fair_lock_block_weak_locks: the weak requests go, the strong ones keep  *)
(* their order and somebody to wake them.                                  *)
LEMMA BlockWeakOK ==
  ASSUME NEW l, LockOK(l), IsFiniteSet(Threads)
  PROVE  /\ LockOK(BlockWeak(l))
         /\ Sleepers(BlockWeak(l)) = Sleepers(l)
<1> DEFINE gone == l.queue \cap l.weak
           u == Unlink(l, gone)
           m == BlockWeak(l)
<1>1. gone \in SUBSET Threads
  BY DEF LockOK, FairLocks
<1>2. u \in FairLocks /\ Ordered(u)
  BY <1>1, UnlinkOrdered DEF LockOK
<1>3. /\ u.queue = l.queue \ gone
      /\ u.signalled = l.signalled
      /\ u.abandoned = l.abandoned
      /\ u.is_lock_acquired = l.is_lock_acquired
      /\ u.waiting_threads = l.waiting_threads
  BY <1>1 DEF LockOK, FairLocks, Unlink
<1>4. l.waiting_threads - Cardinality(gone) = Cardinality((l.queue \ gone) \cup l.signalled)
       /\ l.waiting_threads - Cardinality(gone) \in Nat
  <2> DEFINE S == l.queue \cup l.signalled
  <2>1. IsFiniteSet(S) /\ S \cap gone = gone /\ l.waiting_threads = Cardinality(S)
    BY FS_Subset DEF LockOK, FairLocks
  <2>2. (l.queue \ gone) \cup l.signalled = S \ gone
    BY DEF LockOK
  <2> HIDE DEF S, gone
  <2>3. Cardinality(S \ gone) = Cardinality(S) - Cardinality(S \cap gone) /\ IsFiniteSet(S \ gone)
    BY <2>1, FS_Difference
  <2>4. Cardinality(S \ gone) \in Nat
    BY <2>3, FS_CardinalityType
  <2> QED BY ZenonT(30), <2>1, <2>2, <2>3, <2>4
<1>5. m = [u EXCEPT !.block_weak_locks = TRUE,
                    !.abandoned = @ \cup gone,
                    !.waiting_threads = @ - Cardinality(gone)]
  BY DEF BlockWeak
<1>6. gone \subseteq l.queue
  OBVIOUS
<1> HIDE DEF u, m, gone
<1>7. /\ m \in FairLocks
      /\ m.queue = u.queue
      /\ m.ahead = u.ahead
      /\ m.signalled = u.signalled
      /\ m.abandoned = u.abandoned \cup gone
      /\ m.waiting_threads = u.waiting_threads - Cardinality(gone)
      /\ m.is_lock_acquired = u.is_lock_acquired
  BY ZenonT(30), <1>1, <1>2, <1>3, <1>4, <1>5 DEF FairLocks
<1>8. Ordered(m)
  BY <1>2, <1>7 DEF Ordered
<1>9. LockOK(m)
  BY <1>3, <1>4, <1>6, <1>7, <1>8 DEF LockOK
<1>10. Sleepers(m) = Sleepers(l)
  BY <1>3, <1>6, <1>7 DEF Sleepers
<1> QED BY <1>9, <1>10 DEF m

(* fair_lock_allow_weak_locks clears one flag.                             *)
LEMMA AllowWeakOK ==
  ASSUME NEW l, LockOK(l)
  PROVE  /\ LockOK(AllowWeak(l))
         /\ Sleepers(AllowWeak(l)) = Sleepers(l)
BY ZenonT(30) DEF LockOK, FairLocks, Ordered, AllowWeak, Sleepers

-----------------------------------------------------------------------------
(* A record with these fields, and nothing else.                           *)
LEMMA FieldsGiveRing ==
  ASSUME NEW r, NEW q, NEW c, NEW n, NEW f, NEW e,
         HasFields(r, q, c, n, f, e), FieldsOK(q, c, n, f, e)
  PROVE  /\ IsRing(r)
         /\ r.queue = q /\ r.queue_capacity = c /\ r.queue_size = n /\ r.queue_front = f
<1>1. /\ r.queue = q /\ r.queue_capacity = c /\ r.queue_size = n
      /\ r.queue_front = f /\ r.queue_rear = e
  BY DEF HasFields
<1> QED BY <1>1 DEF IsRing

(* The index behind i, modulo the capacity, is a slot.                     *)
LEMMA NextSlot ==
  ASSUME NEW c \in Nat \ {0}, NEW i \in 0 .. c - 1
  PROVE  /\ (i + 1) % c \in 0 .. c - 1
         /\ (i + 1) % c = IF i = c - 1 THEN 0 ELSE i + 1
OBVIOUS

LEMMA InitRing ==
  ASSUME NEW c \in Nat \ {0}
  PROVE  /\ IsRing(RingInit(c))
         /\ RingInit(c).queue_size = 0 /\ RingInit(c).queue_capacity = c
<1>1. HasFields(RingInit(c), [i \in 0 .. c - 1 |-> Junk], c, 0, 0, c - 1)
  BY DEF HasFields, RingInit
<1>2. FieldsOK([i \in 0 .. c - 1 |-> Junk], c, 0, 0, c - 1)
  BY DEF FieldsOK
<1> QED BY <1>1, <1>2, FieldsGiveRing

(* enqueue on a ring that is not full.                                     *)
LEMMA EnqueueRing ==
  ASSUME NEW r, IsRing(r), r.queue_size < r.queue_capacity, NEW e \in Elements \cup {Junk}
  PROVE  /\ IsRing(enqueue(r, e))
         /\ enqueue(r, e).queue_size = r.queue_size + 1
         /\ enqueue(r, e).queue_capacity = r.queue_capacity
         /\ enqueue(r, e).queue_front = r.queue_front
         /\ enqueue(r, e).queue =
              [r.queue EXCEPT ![(r.queue_rear + 1) % r.queue_capacity] = e]
<1>1. ASSUME NEW q, NEW c, NEW n, NEW f, NEW k, NEW j, NEW p, HasFields(r, q, c, n, f, k)
      PROVE  HasFields([r EXCEPT !.queue_rear = j, !.queue = p, !.queue_size = n + 1],
                       p, c, n + 1, f, j)
  BY ZenonT(30), <1>1 DEF HasFields
<1>2. ASSUME NEW q, NEW c, NEW n, NEW f, NEW k, FieldsOK(q, c, n, f, k), n < c
      PROVE  FieldsOK([q EXCEPT ![(k + 1) % c] = e], c, n + 1, f, (k + 1) % c)
  <2> DEFINE j == (k + 1) % c
  <2>1. j \in 0 .. c - 1 /\ j = IF k = c - 1 THEN 0 ELSE k + 1
    BY ZenonT(30), <1>2, NextSlot DEF FieldsOK
  <2> HIDE DEF j
  <2>2. [q EXCEPT ![j] = e] \in [0 .. c - 1 -> Elements \cup {Junk}]
    BY <1>2, <2>1 DEF FieldsOK
  <2>3. f + (n + 1) - (j + 1) \in {0 - c, 0, c} /\ n + 1 \in 0 .. c
    BY <1>2, <2>1 DEF FieldsOK
  <2>4. FieldsOK([q EXCEPT ![j] = e], c, n + 1, f, j)
    BY SMTT(40), <1>2, <2>1, <2>2, <2>3 DEF FieldsOK
  <2> QED BY <2>4 DEF j
<1>3. HasFields(enqueue(r, e), [r.queue EXCEPT ![(r.queue_rear + 1) % r.queue_capacity] = e],
                r.queue_capacity, r.queue_size + 1, r.queue_front,
                (r.queue_rear + 1) % r.queue_capacity)
  BY ZenonT(30), <1>1 DEF IsRing, enqueue
<1> QED BY <1>2, <1>3, FieldsGiveRing DEF IsRing

(* dequeue on a ring that is not empty.                                    *)
LEMMA DequeueRing ==
  ASSUME NEW r, IsRing(r), r.queue_size # 0
  PROVE  /\ IsRing(dequeue(r))
         /\ dequeue(r).queue_size = r.queue_size - 1
         /\ dequeue(r).queue_capacity = r.queue_capacity
         /\ dequeue(r).queue_front = (r.queue_front + 1) % r.queue_capacity
         /\ dequeue(r).queue = r.queue
         /\ front_element(r) \in Elements \cup {Junk}
<1>1. ASSUME NEW q, NEW c, NEW n, NEW f, NEW k, NEW j, HasFields(r, q, c, n, f, k)
      PROVE  HasFields([r EXCEPT !.queue_front = j, !.queue_size = n - 1], q, c, n - 1, j, k)
  BY ZenonT(30), <1>1 DEF HasFields
<1>2. ASSUME NEW q, NEW c, NEW n, NEW f, NEW k, FieldsOK(q, c, n, f, k), n # 0
      PROVE  /\ FieldsOK(q, c, n - 1, (f + 1) % c, k)
             /\ q[f] \in Elements \cup {Junk}
  <2> DEFINE j == (f + 1) % c
  <2>1. j \in 0 .. c - 1 /\ j = IF f = c - 1 THEN 0 ELSE f + 1
    BY ZenonT(30), <1>2, NextSlot DEF FieldsOK
  <2> HIDE DEF j
  <2>2. j + (n - 1) - (k + 1) \in {0 - c, 0, c} /\ n - 1 \in 0 .. c
    BY <1>2, <2>1 DEF FieldsOK
  <2>3. FieldsOK(q, c, n - 1, j, k) /\ q[f] \in Elements \cup {Junk}
    BY SMTT(40), <1>2, <2>1, <2>2 DEF FieldsOK
  <2> QED BY <2>3 DEF j
<1>3. HasFields(dequeue(r), r.queue, r.queue_capacity, r.queue_size - 1,
                (r.queue_front + 1) % r.queue_capacity, r.queue_rear)
  BY ZenonT(30), <1>1 DEF IsRing, dequeue
<1> QED BY <1>2, <1>3, FieldsGiveRing DEF IsRing, front_element

(* grow_queue on a full ring: there is space afterwards.                   *)
LEMMA GrowRing ==
  ASSUME NEW r, IsRing(r), r.queue_size = r.queue_capacity
  PROVE  /\ IsRing(grow_queue(r))
         /\ grow_queue(r).queue_size = r.queue_size
         /\ grow_queue(r).queue_capacity = 2 * r.queue_capacity
         /\ grow_queue(r).queue_front = 0
<1>1. ASSUME NEW q, NEW c, NEW f, NEW k, FieldsOK(q, c, c, f, k),
             NEW first, NEW second,
             first = IF k >= f THEN c ELSE c - f,
             second = IF k >= f THEN 0 ELSE k + 1,
             NEW i \in 0 .. 2 * c - 1
      PROVE  /\ i < first => q[f + i] \in Elements \cup {Junk}
             /\ i >= first /\ i < first + second => q[i - first] \in Elements \cup {Junk}
  <2>1. i < first => f + i \in 0 .. c - 1
    BY <1>1 DEF FieldsOK
  <2>2. i >= first /\ i < first + second => i - first \in 0 .. c - 1
    BY <1>1 DEF FieldsOK
  <2> QED BY <1>1, <2>1, <2>2 DEF FieldsOK
<1> DEFINE cap == r.queue_capacity * 2
           first == IF r.queue_rear >= r.queue_front
                    THEN r.queue_size ELSE r.queue_capacity - r.queue_front
           second == IF r.queue_rear >= r.queue_front THEN 0 ELSE r.queue_rear + 1
           q == [i \in 0 .. cap - 1 |->
                   CASE i < first -> r.queue[r.queue_front + i]
                     [] i >= first /\ i < first + second -> r.queue[i - first]
                     [] OTHER -> Junk]
<1>2. HasFields(grow_queue(r), q, cap, r.queue_size, 0, r.queue_size - 1)
  BY DEF HasFields, grow_queue
<1>3. cap \in Nat \ {0} /\ cap = 2 * r.queue_capacity /\ r.queue_size \in 1 .. cap
  <2>1. r.queue_capacity \in Nat \ {0}
    BY DEF IsRing, FieldsOK
  <2>2. \A c \in Nat \ {0} : c * 2 \in Nat \ {0} /\ c * 2 = 2 * c /\ c \in 1 .. c * 2
    OBVIOUS
  <2> QED BY <2>1, <2>2
<1>4. ASSUME NEW i \in 0 .. cap - 1
      PROVE  /\ i < first => r.queue[r.queue_front + i] \in Elements \cup {Junk}
             /\ i >= first /\ i < first + second => r.queue[i - first] \in Elements \cup {Junk}
  <2>1. FieldsOK(r.queue, r.queue_capacity, r.queue_capacity, r.queue_front, r.queue_rear)
    BY DEF IsRing
  <2>2. /\ first = IF r.queue_rear >= r.queue_front
                   THEN r.queue_capacity ELSE r.queue_capacity - r.queue_front
        /\ second = IF r.queue_rear >= r.queue_front THEN 0 ELSE r.queue_rear + 1
        /\ i \in 0 .. 2 * r.queue_capacity - 1
    BY <1>3
  <2> HIDE DEF first, second
  <2> QED BY <1>1, <2>1, <2>2
<1>5. first \in Int /\ second \in Int
  BY DEF IsRing, FieldsOK
<1> HIDE DEF first, second, cap
<1>6. q \in [0 .. cap - 1 -> Elements \cup {Junk}]
  <2>1. ASSUME NEW i \in 0 .. cap - 1 PROVE q[i] \in Elements \cup {Junk}
    <3>1. CASE i < first
      BY <1>4, <3>1
    <3>2. CASE i >= first /\ i < first + second
      BY <1>3, <1>4, <1>5, <3>2
    <3>3. CASE ~(i < first) /\ ~(i >= first /\ i < first + second)
      BY <1>3, <1>5, <3>3
    <3> QED BY <1>3, <1>5, <3>1, <3>2, <3>3
  <2> QED BY <2>1
<1> HIDE DEF q
<1>7. FieldsOK(q, cap, r.queue_size, 0, r.queue_size - 1)
  BY <1>3, <1>6 DEF FieldsOK
<1> QED BY <1>2, <1>3, <1>7, FieldsGiveRing

-----------------------------------------------------------------------------
(* An index less than twice the capacity wraps around once at most.        *)
LEMMA Wrap ==
  ASSUME NEW c \in Nat \ {0}, NEW x \in 0 .. 2 * c - 1
  PROVE  /\ x % c = IF x < c THEN x ELSE x - c
         /\ x % c \in 0 .. c - 1
OBVIOUS

(* The i-th element of a ring is where queue_front puts it.                *)
LEMMA ContentsAt ==
  ASSUME NEW r, IsRing(r)
  PROVE  /\ Contents(r) \in Seq(Elements \cup {Junk})
         /\ Len(Contents(r)) = r.queue_size
         /\ DOMAIN Contents(r) = 1 .. r.queue_size
         /\ \A i \in 1 .. r.queue_size :
              Contents(r)[i] =
                r.queue[IF r.queue_front + (i - 1) < r.queue_capacity
                        THEN r.queue_front + (i - 1)
                        ELSE (r.queue_front + (i - 1)) - r.queue_capacity]
<1> DEFINE c == r.queue_capacity
           f == r.queue_front
           n == r.queue_size
<1>1. /\ c \in Nat \ {0} /\ n \in 0 .. c /\ f \in 0 .. c - 1
      /\ r.queue \in [0 .. c - 1 -> Elements \cup {Junk}]
  BY DEF IsRing, FieldsOK
<1> HIDE DEF c, f, n
<1>2. ASSUME NEW i \in 1 .. n
      PROVE  /\ (f + i - 1) % c = IF f + (i - 1) < c THEN f + (i - 1) ELSE (f + (i - 1)) - c
             /\ (f + i - 1) % c \in 0 .. c - 1
  <2> DEFINE x == f + i - 1
  <2>1. x \in 0 .. 2 * c - 1 /\ x = f + (i - 1)
    BY <1>1
  <2> HIDE DEF x
  <2>2. x % c = (IF x < c THEN x ELSE x - c) /\ x % c \in 0 .. c - 1
    BY <1>1, <2>1, Wrap
  <2> QED BY <2>1, <2>2 DEF x
<1>3. Contents(r) = [i \in 1 .. n |-> r.queue[(f + i - 1) % c]]
  BY DEF Contents, c, f, n
<1>4. \A i \in 1 .. n : r.queue[(f + i - 1) % c] \in Elements \cup {Junk}
  BY <1>1, <1>2
<1>5. Contents(r) \in Seq(Elements \cup {Junk}) /\ Len(Contents(r)) = n
  BY <1>1, <1>3, <1>4
<1>6. DOMAIN Contents(r) = 1 .. n /\ \A i \in 1 .. n : Contents(r)[i] = r.queue[(f + i - 1) % c]
  BY <1>3
<1> QED BY <1>2, <1>5, <1>6 DEF c, f, n

(* enqueue appends.                                                        *)
LEMMA ContentsEnqueue ==
  ASSUME NEW r, IsRing(r), r.queue_size < r.queue_capacity, NEW e \in Elements \cup {Junk}
  PROVE  Contents(enqueue(r, e)) = Append(Contents(r), e)
<1> DEFINE s == enqueue(r, e)
           c == r.queue_capacity
           f == r.queue_front
           n == r.queue_size
           k == (r.queue_rear + 1) % c
           At(i) == IF f + (i - 1) < c THEN f + (i - 1) ELSE (f + (i - 1)) - c
<1>1. /\ c \in Nat \ {0} /\ n \in 0 .. c /\ f \in 0 .. c - 1 /\ n < c
      /\ r.queue \in [0 .. c - 1 -> Elements \cup {Junk}]
      /\ r.queue_rear \in 0 .. c - 1
      /\ f + n - (r.queue_rear + 1) \in {0 - c, 0, c}
  BY DEF IsRing, FieldsOK
<1>2. k \in 0 .. c - 1 /\ k = IF r.queue_rear = c - 1 THEN 0 ELSE r.queue_rear + 1
  BY <1>1, NextSlot
<1>3. /\ IsRing(s) /\ s.queue_size = n + 1 /\ s.queue_capacity = c /\ s.queue_front = f
      /\ s.queue = [r.queue EXCEPT ![k] = e]
  BY EnqueueRing
<1>4. /\ Contents(r) \in Seq(Elements \cup {Junk}) /\ Len(Contents(r)) = n
      /\ \A i \in 1 .. n : Contents(r)[i] = r.queue[At(i)]
  BY ContentsAt
<1>5. /\ Contents(s) \in Seq(Elements \cup {Junk}) /\ Len(Contents(s)) = n + 1
      /\ \A i \in 1 .. n + 1 : Contents(s)[i] = s.queue[At(i)]
  BY <1>3, ContentsAt
<1> HIDE DEF s, c, f, n, k
<1>6. \A i \in 1 .. n + 1 : At(i) \in 0 .. c - 1
  BY <1>1
<1>7. At(n + 1) = k
  BY SMTT(40), <1>1, <1>2
<1>8. ASSUME NEW i \in 1 .. n PROVE At(i) # k
  <2>1. CASE f + n < c
    BY <1>1, <1>7, <2>1
  <2>2. CASE ~(f + n < c)
    BY <1>1, <1>7, <2>2
  <2> QED BY <2>1, <2>2
<1> HIDE DEF At
<1>9. \A i \in 1 .. n + 1 : Contents(s)[i] = IF i = n + 1 THEN e ELSE Contents(r)[i]
  BY SMTT(40), <1>1, <1>3, <1>4, <1>5, <1>6, <1>7, <1>8
<1>10. Contents(s) = Append(Contents(r), e)
  <2> DEFINE a == Append(Contents(r), e)
  <2>1. /\ a \in Seq(Elements \cup {Junk}) /\ Len(a) = n + 1
        /\ \A i \in 1 .. n + 1 : a[i] = IF i = n + 1 THEN e ELSE Contents(r)[i]
    BY <1>1, <1>4, AppendProperties
  <2> HIDE DEF a
  <2>2. \A i \in 1 .. Len(a) : Contents(s)[i] = a[i]
    BY <1>9, <2>1
  <2>3. Contents(s) = a
    BY <1>5, <2>1, <2>2, SeqEqual
  <2> QED BY <2>3 DEF a
<1> QED BY <1>10 DEF s

(* dequeue takes the oldest element.                                       *)
LEMMA ContentsDequeue ==
  ASSUME NEW r, IsRing(r), r.queue_size # 0
  PROVE  /\ Contents(r) # <<>>
         /\ Contents(dequeue(r)) = Tail(Contents(r))
         /\ front_element(r) = Head(Contents(r))
<1> DEFINE s == dequeue(r)
           c == r.queue_capacity
           f == r.queue_front
           g == (f + 1) % c
           n == r.queue_size
           At(i) == IF f + (i - 1) < c THEN f + (i - 1) ELSE (f + (i - 1)) - c
           Then(i) == IF g + (i - 1) < c THEN g + (i - 1) ELSE (g + (i - 1)) - c
<1>1. /\ c \in Nat \ {0} /\ n \in 1 .. c /\ f \in 0 .. c - 1
  BY DEF IsRing, FieldsOK
<1>2. g \in 0 .. c - 1 /\ g = IF f = c - 1 THEN 0 ELSE f + 1
  BY <1>1, NextSlot
<1>3. /\ IsRing(s) /\ s.queue_size = n - 1 /\ s.queue_capacity = c /\ s.queue_front = g
      /\ s.queue = r.queue
  BY DequeueRing
<1>4. /\ Contents(r) \in Seq(Elements \cup {Junk}) /\ Len(Contents(r)) = n
      /\ \A i \in 1 .. n : Contents(r)[i] = r.queue[At(i)]
  BY ContentsAt
<1>5. /\ Contents(s) \in Seq(Elements \cup {Junk}) /\ Len(Contents(s)) = n - 1
      /\ \A i \in 1 .. n - 1 : Contents(s)[i] = r.queue[Then(i)]
  BY <1>3, ContentsAt
<1>a. front_element(r) = r.queue[f]
  BY DEF front_element
<1> HIDE DEF s, c, f, g, n
<1>6. At(1) = f
  BY <1>1
<1>7. \A i \in 1 .. n - 1 : Then(i) = At(i + 1)
  BY <1>1, <1>2
<1> HIDE DEF At, Then
<1>8. \A i \in 1 .. n - 1 : Contents(s)[i] = Contents(r)[i + 1]
  BY <1>1, <1>4, <1>5, <1>7
<1>9. Contents(s) = Tail(Contents(r)) /\ Contents(r) # <<>> /\ Contents(r)[1] = r.queue[f]
  BY <1>1, <1>4, <1>5, <1>6, <1>8
<1> QED BY <1>a, <1>9 DEF s

(* grow_queue moves the elements and loses none.                           *)
LEMMA ContentsGrow ==
  ASSUME NEW r, IsRing(r), r.queue_size = r.queue_capacity
  PROVE  Contents(grow_queue(r)) = Contents(r)
<1> DEFINE s == grow_queue(r)
           c == r.queue_capacity
           f == r.queue_front
           k == r.queue_rear
           first == IF k >= f THEN c ELSE c - f
           second == IF k >= f THEN 0 ELSE k + 1
           At(i) == IF f + (i - 1) < c THEN f + (i - 1) ELSE (f + (i - 1)) - c
<1>1. /\ c \in Nat \ {0} /\ f \in 0 .. c - 1 /\ k \in 0 .. c - 1
      /\ f + c - (k + 1) \in {0 - c, 0, c}
  BY DEF IsRing, FieldsOK
<1>2. IsRing(s) /\ s.queue_size = c /\ s.queue_capacity = 2 * c /\ s.queue_front = 0
  BY GrowRing
<1>3. s.queue = [i \in 0 .. c * 2 - 1 |->
                   CASE i < first -> r.queue[f + i]
                     [] i >= first /\ i < first + second -> r.queue[i - first]
                     [] OTHER -> Junk]
  BY DEF grow_queue
<1>4. /\ Contents(r) \in Seq(Elements \cup {Junk}) /\ Len(Contents(r)) = c
      /\ \A i \in 1 .. c : Contents(r)[i] = r.queue[At(i)]
  BY ContentsAt
<1>5. /\ Contents(s) \in Seq(Elements \cup {Junk}) /\ Len(Contents(s)) = c
      /\ \A i \in 1 .. c :
           Contents(s)[i] = s.queue[IF 0 + (i - 1) < 2 * c THEN 0 + (i - 1)
                                    ELSE (0 + (i - 1)) - 2 * c]
  BY <1>2, ContentsAt
<1> HIDE DEF s, c, f, k
<1>6. \A i \in 1 .. c : Contents(s)[i] = s.queue[i - 1]
  <2> SUFFICES ASSUME NEW i \in 1 .. c PROVE Contents(s)[i] = s.queue[i - 1]
    OBVIOUS
  <2>1. (IF 0 + (i - 1) < 2 * c THEN 0 + (i - 1) ELSE (0 + (i - 1)) - 2 * c) = i - 1
    BY <1>1
  <2> QED BY <1>5, <2>1
<1>7. ASSUME NEW i \in 1 .. c PROVE s.queue[i - 1] = r.queue[At(i)]
  <2>1. i - 1 \in 0 .. c * 2 - 1 /\ first \in Int /\ second \in Int
    BY <1>1
  <2>2. CASE i - 1 < first
    <3>1. f + (i - 1) = At(i)
      BY <1>1, <2>2
    <3>2. s.queue[i - 1] = r.queue[f + (i - 1)]
      <4> HIDE DEF first, second
      <4> QED BY <1>3, <2>1, <2>2
    <3> QED BY <3>1, <3>2
  <2>3. CASE ~(i - 1 < first)
    <3>1. i - 1 >= first /\ i - 1 < first + second /\ (i - 1) - first = At(i)
      BY <1>1, <2>3
    <3>2. s.queue[i - 1] = r.queue[(i - 1) - first]
      <4> HIDE DEF first, second
      <4> QED BY <1>3, <2>1, <2>3, <3>1
    <3> QED BY <3>1, <3>2
  <2> QED BY <2>2, <2>3
<1> HIDE DEF At, first, second
<1>8. \A i \in 1 .. Len(Contents(s)) : Contents(s)[i] = Contents(r)[i]
  BY <1>4, <1>5, <1>6, <1>7
<1>9. Contents(s) = Contents(r)
  BY <1>4, <1>5, <1>8, SeqEqual
<1> QED BY <1>9 DEF s
=============================================================================
