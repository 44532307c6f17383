------------------------ MODULE BlockingQueueProofs ------------------------
(***************************************************************************)
(* Safety of the blocking queue for every finite set of threads, every     *)
(* capacity, and every set of closers.                                     *)
(***************************************************************************)
EXTENDS QueueRefinement, QueueLemmas

(* t is between fair_lock_lock and fair_lock_unlock of its side. *)
Holding(t) == pc[t] \in {"crit", "wait", "unlock"}

AsleepOn(s) == {t \in Threads : pc[t] = "asleep" /\ call[t].side = s}

Callers == {t \in Threads : Inside(t)}

(* The fair lock of a side is in order, its sleepers and its holder are    *)
(* the threads that are there, and weak callers are refused only while the *)
(* side is exhausted.                                                      *)
SideOK(s) ==
  /\ LockOK(lock[s])
  /\ Sleepers(lock[s]) = AsleepOn(s)
  /\ lock[s].is_lock_acquired <=> \E t \in Threads : Holding(t) /\ call[t].side = s
  /\ weak_blocked[s] <=> lock[s].block_weak_locks
  /\ weak_blocked[s] => Exhausted(s)

OneHolder ==
  \A t, u \in Threads :
    Holding(t) /\ Holding(u) /\ call[t].side = call[u].side => t = u

(* A thread waits on bq->cond while its side is exhausted; once signalled  *)
(* it is the only one of its side, so what it was signalled for is still   *)
(* there when it resumes.                                                  *)
WaitersOK ==
  /\ \A t \in cond : pc[t] = "wait" /\ Exhausted(call[t].side)
  /\ \A t \in Threads : pc[t] = "wait" /\ t \notin cond /\ ~closed => ~Exhausted(call[t].side)
  /\ is_boundless => /\ ~weak_blocked["add"]
                     /\ \A t \in Threads : pc[t] = "wait" => call[t].side = "get"

CountOK == active = Cardinality(Callers)

(* Who will signal the threads on bq->cond of a closed queue. *)
DrainOK ==
  /\ \A c \in Closers : closer[c] # "idle" => closed
  /\ closed /\ cond # {} =>
       \E c \in Closers :
         \/ closer[c] = "draining"
         \/ closer[c] = "waiting" /\ \E t \in Threads \ cond : Inside(t)

(* The inductive invariant.  ResumeFindsWork alone is not inductive: that  *)
(* nobody takes what a signalled thread was signalled for needs the fair   *)
(* lock it keeps to exclude (SideOK and OneHolder).                        *)
IInv ==
  /\ TypeOK
  /\ \A s \in Sides : SideOK(s)
  /\ OneHolder
  /\ WaitersOK
  /\ CountOK
  /\ DrainOK

-----------------------------------------------------------------------------
(* What the functions of the fair lock do to the two flags.                *)
LEMMA LockFlags ==
  ASSUME NEW l \in FairLocks, NEW t \in Threads, NEW w \in BOOLEAN
  PROVE  /\ Acquire(l).is_lock_acquired
         /\ Acquire(l).block_weak_locks = l.block_weak_locks
         /\ EnqueueEntry(l, t, w).is_lock_acquired = l.is_lock_acquired
         /\ EnqueueEntry(l, t, w).block_weak_locks = l.block_weak_locks
         /\ Unlock(l).block_weak_locks = l.block_weak_locks
         /\ WakeAcquire(l, t).is_lock_acquired
         /\ WakeAcquire(l, t).block_weak_locks = l.block_weak_locks
         /\ WakeAbandoned(l, t).is_lock_acquired = l.is_lock_acquired
         /\ WakeAbandoned(l, t).block_weak_locks = l.block_weak_locks
         /\ BlockWeak(l).is_lock_acquired = l.is_lock_acquired
         /\ BlockWeak(l).block_weak_locks
         /\ AllowWeak(l).is_lock_acquired = l.is_lock_acquired
         /\ ~AllowWeak(l).block_weak_locks
<1>1. Acquire(l).is_lock_acquired /\ Acquire(l).block_weak_locks = l.block_weak_locks
  BY Zenon DEF Acquire, FairLocks
<1>2. /\ EnqueueEntry(l, t, w).is_lock_acquired = l.is_lock_acquired
      /\ EnqueueEntry(l, t, w).block_weak_locks = l.block_weak_locks
  BY Zenon DEF EnqueueEntry, FairLocks
<1>3. Unlock(l).block_weak_locks = l.block_weak_locks
  BY Zenon DEF Unlock, Unlink, FairLocks
<1>4. /\ WakeAcquire(l, t).is_lock_acquired
      /\ WakeAcquire(l, t).block_weak_locks = l.block_weak_locks
      /\ WakeAbandoned(l, t).is_lock_acquired = l.is_lock_acquired
      /\ WakeAbandoned(l, t).block_weak_locks = l.block_weak_locks
  BY Zenon DEF WakeAcquire, WakeAbandoned, FairLocks
<1>5. /\ BlockWeak(l).is_lock_acquired = l.is_lock_acquired
      /\ BlockWeak(l).block_weak_locks
  BY Zenon DEF BlockWeak, Unlink, FairLocks
<1>6. /\ AllowWeak(l).is_lock_acquired = l.is_lock_acquired
      /\ ~AllowWeak(l).block_weak_locks
  BY Zenon DEF AllowWeak, FairLocks
<1> QED BY Zenon, <1>1, <1>2, <1>3, <1>4, <1>5, <1>6

LEMMA QueueInit == Init => IInv
<1> SUFFICES ASSUME Init PROVE IInv
  OBVIOUS
<1> DEFINE c == IF is_boundless THEN 1 ELSE Capacity
<1>1. c \in Nat \ {0}
  BY CapacityNat DEF is_boundless
<1> HIDE DEF c
<1>2. IsRing(ring) /\ ring = RingInit(c)
  BY Zenon, <1>1, InitRing DEF Init, c
<1>3. TypeOK
  BY ZenonT(30), <1>2, InitOK DEF Init, TypeOK, LockOK, Calls, NoCall, Sides, Results
<1>4. ASSUME NEW s \in Sides PROVE SideOK(s)
  BY ZenonT(30), InitOK DEF Init, SideOK, Sleepers, AsleepOn, Holding, FairLockInit
<1>5. OneHolder /\ WaitersOK /\ DrainOK
  BY Zenon DEF Init, OneHolder, WaitersOK, DrainOK, Holding, Sides
<1>6. CountOK
  <2>1. Callers = {}
    BY Zenon DEF Init, Callers, Inside
  <2> QED BY Zenon, <2>1, FS_EmptySet DEF Init, CountOK
<1> QED BY Zenon, <1>3, <1>4, <1>5, <1>6 DEF IInv

-----------------------------------------------------------------------------
(* A step of t inside its call that leaves the ring alone: the fair lock   *)
(* of its side becomes m, t goes to p, and the side's flag becomes w.      *)
LEMMA LockStep ==
  ASSUME IInv, NEW t \in Threads, NEW m, NEW p, NEW w \in BOOLEAN,
         p \in {"asleep", "crit", "wait", "leave"},
         pc[t] \in {"lock", "asleep", "crit", "wait", "unlock"}, t \notin cond,
         lock' = [lock EXCEPT ![call[t].side] = m],
         weak_blocked' = [weak_blocked EXCEPT ![call[t].side] = w],
         pc' = [pc EXCEPT ![t] = p],
         cond' = IF p = "wait" THEN cond \cup {t} ELSE cond,
         ret' \in [Threads -> Results],
         UNCHANGED <<ring, closed, active, call, closer, late>>,
         LockOK(m),
         Sleepers(m) = IF p = "asleep" THEN Sleepers(lock[call[t].side]) \cup {t}
                       ELSE Sleepers(lock[call[t].side]) \ {t},
         m.is_lock_acquired <=>
           p \in {"crit", "wait"} \/ (lock[call[t].side].is_lock_acquired /\ ~Holding(t)),
         p \in {"crit", "wait"} /\ ~Holding(t) => ~lock[call[t].side].is_lock_acquired,
         m.block_weak_locks <=> w,
         w => Exhausted(call[t].side) /\ (is_boundless => call[t].side = "get"),
         p = "wait" => w /\ ~closed
  PROVE  IInv'
<1> DEFINE s == call[t].side
<1>0. /\ s \in Sides
      /\ lock \in [Sides -> FairLocks]
      /\ weak_blocked \in [Sides -> BOOLEAN]
      /\ pc \in [Threads -> {"idle", "lock", "asleep", "crit", "wait", "unlock", "leave"}]
      /\ call \in [Threads -> Calls]
      /\ cond \subseteq Threads
  BY Zenon DEF IInv, TypeOK, Calls
<1>1. TypeOK'
  <2>1. m \in FairLocks
    BY Zenon DEF LockOK
  <2> QED BY Zenon, <1>0, <2>1 DEF IInv, TypeOK
<1>2. ASSUME NEW x \in Sides PROVE SideOK(x)'
  <2>1. Exhausted(x)' = Exhausted(x)
    BY Zenon DEF Exhausted
  <2>2. CASE x = s
    <3>1. lock'[x] = m /\ weak_blocked'[x] = w
      BY Zenon, <1>0, <2>2
    <3>2. Sleepers(m) = AsleepOn(x)'
      BY <1>0, <2>2 DEF IInv, SideOK, AsleepOn
    <3>3. m.is_lock_acquired <=> \E u \in Threads : Holding(u)' /\ call'[u].side = x
      BY <1>0, <2>2 DEF IInv, SideOK, OneHolder, Holding
    <3> QED BY Zenon, <2>1, <2>2, <3>1, <3>2, <3>3 DEF SideOK
  <2>3. CASE x # s
    <3>1. lock'[x] = lock[x] /\ weak_blocked'[x] = weak_blocked[x]
      BY Zenon, <1>0, <2>3
    <3>2. AsleepOn(x)' = AsleepOn(x)
      BY Zenon, <1>0, <2>3 DEF AsleepOn
    <3>3. (\E u \in Threads : Holding(u)' /\ call'[u].side = x) <=>
          (\E u \in Threads : Holding(u) /\ call[u].side = x)
      BY Zenon, <1>0, <2>3 DEF Holding
    <3>4. SideOK(x)
      BY Zenon DEF IInv
    <3> QED BY Zenon, <2>1, <3>1, <3>2, <3>3, <3>4 DEF SideOK
  <2> QED BY Zenon, <2>2, <2>3
<1>3. OneHolder'
  BY <1>0 DEF IInv, SideOK, OneHolder, Holding
<1>4. WaitersOK'
  <2>1. \A u \in cond' : pc'[u] = "wait" /\ Exhausted(call[u].side)
    BY Zenon, <1>0 DEF IInv, WaitersOK
  <2>2. \A u \in Threads : pc'[u] = "wait" /\ u \notin cond' /\ ~closed => ~Exhausted(call[u].side)
    BY Zenon, <1>0 DEF IInv, WaitersOK
  <2>3. is_boundless => /\ ~weak_blocked'["add"]
                        /\ \A u \in Threads : pc'[u] = "wait" => call[u].side = "get"
    BY Zenon, <1>0 DEF IInv, WaitersOK, Sides
  <2> QED BY Zenon, <2>1, <2>2, <2>3 DEF WaitersOK, Exhausted, is_boundless
<1>5. CountOK'
  <2>1. Callers' = Callers
    BY Zenon, <1>0 DEF Callers, Inside
  <2> QED BY Zenon, <2>1 DEF IInv, CountOK
<1>6. DrainOK'
  <2>1. ASSUME closed, cond' # {} PROVE cond' = cond
    BY SMTT(40), <2>1
  <2> QED BY Zenon, <1>0, <2>1 DEF IInv, DrainOK, Inside
<1> QED BY Zenon, <1>1, <1>2, <1>3, <1>4, <1>5, <1>6 DEF IInv

(* The facts about the fair lock of t's side that LockStep needs.          *)
LEMMA SideFacts ==
  ASSUME IInv, NEW t \in Threads
  PROVE  LET s == call[t].side
         IN  /\ s \in Sides
             /\ LockOK(lock[s])
             /\ lock[s] \in FairLocks
             /\ lock = [lock EXCEPT ![s] = lock[s]]
             /\ weak_blocked = [weak_blocked EXCEPT ![s] = weak_blocked[s]]
             /\ weak_blocked[s] \in BOOLEAN
             /\ weak_blocked[s] <=> lock[s].block_weak_locks
             /\ weak_blocked[s] => Exhausted(s) /\ (is_boundless => s = "get")
             /\ t \in Sleepers(lock[s]) <=> pc[t] = "asleep"
             /\ Holding(t) => lock[s].is_lock_acquired
             /\ t \in cond => pc[t] = "wait"
             /\ call[t].async \in BOOLEAN
             /\ ret \in [Threads -> Results]
<1>1. call[t] \in Calls /\ lock \in [Sides -> FairLocks] /\ weak_blocked \in [Sides -> BOOLEAN]
      /\ ret \in [Threads -> Results]
  BY Zenon DEF IInv, TypeOK
<1>2. call[t].side \in Sides /\ call[t].async \in BOOLEAN
  BY Zenon, <1>1 DEF Calls
<1>3. SideOK(call[t].side)
  BY Zenon, <1>2 DEF IInv
<1>4. weak_blocked[call[t].side] => (is_boundless => call[t].side = "get")
  BY Zenon, <1>2 DEF IInv, WaitersOK, Sides
<1>5. t \in cond => pc[t] = "wait"
  BY Zenon DEF IInv, WaitersOK
<1> QED BY Zenon, <1>1, <1>2, <1>3, <1>4, <1>5 DEF SideOK, AsleepOn, LockOK

LEMMA EarlySteps ==
  ASSUME IInv, NEW t \in Threads,
         \/ LockRefused(t) \/ LockFree(t) \/ LockWait(t) \/ LockError(t)
         \/ WakeAsLoser(t) \/ WakeAsHolder(t)
  PROVE  IInv'
<1> USE ThreadsFinite
<1> DEFINE s == call[t].side
<1>0. /\ s \in Sides /\ LockOK(lock[s]) /\ lock[s] \in FairLocks
      /\ lock = [lock EXCEPT ![s] = lock[s]]
      /\ weak_blocked = [weak_blocked EXCEPT ![s] = weak_blocked[s]]
      /\ weak_blocked[s] \in BOOLEAN
      /\ weak_blocked[s] <=> lock[s].block_weak_locks
      /\ weak_blocked[s] => Exhausted(s) /\ (is_boundless => s = "get")
      /\ t \in Sleepers(lock[s]) <=> pc[t] = "asleep"
      /\ Holding(t) => lock[s].is_lock_acquired
      /\ t \in cond => pc[t] = "wait"
      /\ call[t].async \in BOOLEAN
      /\ ret \in [Threads -> Results]
  BY Zenon, SideFacts
<1> HIDE DEF s
<1>1. RefusalOf(s) \in Results /\ "error" \in Results
  BY SMTT(40) DEF RefusalOf, Results
<1>2. CASE LockRefused(t) \/ LockError(t)
  <2> DEFINE m == lock[s]
  <2>1. /\ lock' = [lock EXCEPT ![s] = m] /\ weak_blocked' = weak_blocked /\ cond' = cond
        /\ pc[t] = "lock" /\ pc' = [pc EXCEPT ![t] = "leave"] /\ ret' \in [Threads -> Results]
        /\ UNCHANGED <<ring, closed, active, call, closer, late>>
    BY <1>0, <1>1, <1>2 DEF LockRefused, LockError, LeaveWith, s
  <2>2. ~Holding(t) /\ t \notin cond
    BY Zenon, <1>0, <2>1 DEF Holding
  <2>3. /\ LockOK(m) /\ Sleepers(m) = Sleepers(lock[s]) \ {t}
        /\ m.is_lock_acquired = lock[s].is_lock_acquired
        /\ m.block_weak_locks = lock[s].block_weak_locks
    BY Zenon, <1>0, <2>1
  <2> HIDE DEF m
  <2> QED BY ZenonT(30), <1>0, <2>1, <2>2, <2>3, LockStep DEF s
<1>3. CASE LockFree(t)
  <2> DEFINE m == Acquire(lock[s])
  <2>1. /\ lock' = [lock EXCEPT ![s] = m] /\ weak_blocked' = weak_blocked /\ cond' = cond
        /\ pc[t] = "lock" /\ pc' = [pc EXCEPT ![t] = "crit"] /\ ret' = ret
        /\ UNCHANGED <<ring, closed, active, call, closer, late>>
        /\ ~MustWait(lock[s])
    BY Zenon, <1>3 DEF LockFree, s
  <2>2. ~Holding(t) /\ t \notin Sleepers(lock[s]) /\ t \notin cond
    BY Zenon, <1>0, <2>1 DEF Holding
  <2>3. /\ LockOK(m) /\ Sleepers(m) = Sleepers(lock[s]) \ {t} /\ ~lock[s].is_lock_acquired
        /\ m.is_lock_acquired /\ m.block_weak_locks = lock[s].block_weak_locks
    BY <1>0, <2>1, <2>2, AcquireOK, LockFlags DEF MustWait
  <2> HIDE DEF m
  <2> QED BY ZenonT(30), <1>0, <2>1, <2>2, <2>3, LockStep DEF s
<1>4. CASE LockWait(t)
  <2> DEFINE m == EnqueueEntry(lock[s], t, call[t].async)
  <2>1. /\ lock' = [lock EXCEPT ![s] = m] /\ weak_blocked' = weak_blocked /\ cond' = cond
        /\ pc[t] = "lock" /\ pc' = [pc EXCEPT ![t] = "asleep"] /\ ret' = ret
        /\ UNCHANGED <<ring, closed, active, call, closer, late>>
        /\ MustWait(lock[s])
    BY Zenon, <1>4 DEF LockWait, s
  <2>2. ~Holding(t) /\ t \notin Sleepers(lock[s]) /\ t \notin cond
    BY Zenon, <1>0, <2>1 DEF Holding
  <2>3. /\ LockOK(m) /\ Sleepers(m) = Sleepers(lock[s]) \cup {t}
        /\ m.is_lock_acquired = lock[s].is_lock_acquired
        /\ m.block_weak_locks = lock[s].block_weak_locks
    BY <1>0, <2>1, <2>2, EnqueueOK, LockFlags
  <2> HIDE DEF m
  <2> QED BY ZenonT(30), <1>0, <2>1, <2>2, <2>3, LockStep DEF s
<1>5. CASE WakeAsLoser(t)
  <2> DEFINE m == WakeAbandoned(lock[s], t)
  <2>1. /\ lock' = [lock EXCEPT ![s] = m] /\ weak_blocked' = weak_blocked /\ cond' = cond
        /\ pc[t] = "asleep" /\ pc' = [pc EXCEPT ![t] = "leave"] /\ ret' \in [Threads -> Results]
        /\ UNCHANGED <<ring, closed, active, call, closer, late>>
        /\ t \in lock[s].abandoned
    BY Zenon, <1>0, <1>1, <1>5 DEF WakeAsLoser, LeaveWith, s
  <2>2. ~Holding(t) /\ t \notin cond
    BY Zenon, <1>0, <2>1 DEF Holding
  <2>3. /\ LockOK(m) /\ Sleepers(m) = Sleepers(lock[s]) \ {t}
        /\ m.is_lock_acquired = lock[s].is_lock_acquired
        /\ m.block_weak_locks = lock[s].block_weak_locks
    BY <1>0, <2>1, WakeAbandonedOK, LockFlags
  <2> HIDE DEF m
  <2> QED BY ZenonT(30), <1>0, <2>1, <2>2, <2>3, LockStep DEF s
<1>6. CASE WakeAsHolder(t)
  <2> DEFINE m == WakeAcquire(lock[s], t)
  <2>1. /\ lock' = [lock EXCEPT ![s] = m] /\ weak_blocked' = weak_blocked /\ cond' = cond
        /\ pc[t] = "asleep" /\ pc' = [pc EXCEPT ![t] = "crit"] /\ ret' = ret
        /\ UNCHANGED <<ring, closed, active, call, closer, late>>
        /\ t \in lock[s].signalled
    BY Zenon, <1>6 DEF WakeAsHolder, s
  <2>2. ~Holding(t) /\ t \notin cond
    BY Zenon, <1>0, <2>1 DEF Holding
  <2>3. /\ LockOK(m) /\ Sleepers(m) = Sleepers(lock[s]) \ {t} /\ ~lock[s].is_lock_acquired
        /\ m.is_lock_acquired /\ m.block_weak_locks = lock[s].block_weak_locks
    BY <1>0, <2>1, WakeAcquireOK, LockFlags
  <2> HIDE DEF m
  <2> QED BY ZenonT(30), <1>0, <2>1, <2>2, <2>3, LockStep DEF s
<1> QED BY Zenon, <1>2, <1>3, <1>4, <1>5, <1>6

LEMMA ReleaseSteps ==
  ASSUME IInv, NEW t \in Threads,
         EnterClosed(t) \/ ResumeClosed(t) \/ EnterGrowError(t) \/ UnlockSide(t)
  PROVE  IInv'
<1> USE ThreadsFinite
<1> DEFINE s == call[t].side
           m == Unlock(lock[s])
<1>0. /\ s \in Sides /\ LockOK(lock[s]) /\ lock[s] \in FairLocks
      /\ weak_blocked = [weak_blocked EXCEPT ![s] = weak_blocked[s]]
      /\ weak_blocked[s] \in BOOLEAN
      /\ weak_blocked[s] <=> lock[s].block_weak_locks
      /\ weak_blocked[s] => Exhausted(s) /\ (is_boundless => s = "get")
      /\ t \in Sleepers(lock[s]) <=> pc[t] = "asleep"
      /\ Holding(t) => lock[s].is_lock_acquired
      /\ t \in cond => pc[t] = "wait"
      /\ ret \in [Threads -> Results]
  BY Zenon, SideFacts
<1>1. /\ lock' = [lock EXCEPT ![s] = m] /\ weak_blocked' = weak_blocked /\ cond' = cond
      /\ pc' = [pc EXCEPT ![t] = "leave"] /\ ret' \in [Threads -> Results]
      /\ UNCHANGED <<ring, closed, active, call, closer, late>>
  BY Zenon, <1>0 DEF EnterClosed, ResumeClosed, EnterGrowError, UnlockSide, GiveUpClosed, LeaveWith, Results
<1>2. pc[t] \in {"crit", "wait", "unlock"} /\ t \notin cond
  BY Zenon, <1>0 DEF EnterClosed, ResumeClosed, EnterGrowError, UnlockSide
<1>3. Holding(t) /\ t \notin Sleepers(lock[s]) /\ lock[s].is_lock_acquired
  BY Zenon, <1>0, <1>2 DEF Holding
<1>4. /\ LockOK(m) /\ Sleepers(m) = Sleepers(lock[s]) /\ ~m.is_lock_acquired
      /\ m.block_weak_locks = lock[s].block_weak_locks
  BY Zenon, <1>0, <1>3, UnlockOK, LockFlags
<1> HIDE DEF m, s
<1> QED BY ZenonT(30), <1>0, <1>1, <1>2, <1>3, <1>4, LockStep DEF s

(* BlockedLock, whether the cached flag spares the call or not.            *)
LEMMA BlockedLockOK ==
  ASSUME IInv, NEW s \in Sides
  PROVE  /\ LockOK(BlockedLock(s)) /\ BlockedLock(s) \in FairLocks
         /\ Sleepers(BlockedLock(s)) = Sleepers(lock[s])
         /\ BlockedLock(s).is_lock_acquired = lock[s].is_lock_acquired
         /\ BlockedLock(s).block_weak_locks
<1>1. SideOK(s) /\ lock[s] \in FairLocks /\ weak_blocked[s] \in BOOLEAN
  BY Zenon DEF IInv, TypeOK
<1>2. CASE weak_blocked[s]
  BY SMTT(40), <1>1, <1>2 DEF BlockedLock, SideOK
<1>3. CASE ~weak_blocked[s]
  <2>1. LockOK(BlockWeak(lock[s])) /\ Sleepers(BlockWeak(lock[s])) = Sleepers(lock[s])
    BY Zenon, <1>1, BlockWeakOK, ThreadsFinite DEF SideOK
  <2>2. /\ BlockWeak(lock[s]).is_lock_acquired = lock[s].is_lock_acquired
        /\ BlockWeak(lock[s]).block_weak_locks
    BY Zenon, <1>1 DEF BlockWeak, Unlink, FairLocks
  <2> QED BY SMTT(90), <1>3, <2>1, <2>2 DEF BlockedLock, LockOK
<1> QED BY Zenon, <1>1, <1>2, <1>3

LEMMA BlockedSteps ==
  ASSUME IInv, NEW t \in Threads, EnterRefused(t) \/ EnterWait(t)
  PROVE  IInv'
<1> USE ThreadsFinite
<1> DEFINE s == call[t].side
           b == BlockedLock(s)
<1>0. /\ s \in Sides
      /\ t \in Sleepers(lock[s]) <=> pc[t] = "asleep"
      /\ Holding(t) => lock[s].is_lock_acquired
      /\ t \in cond => pc[t] = "wait"
      /\ ret \in [Threads -> Results]
  BY Zenon, SideFacts
<1>1. /\ pc[t] = "crit" /\ ~closed /\ Exhausted(s) /\ (is_boundless => s = "get")
      /\ weak_blocked' = [weak_blocked EXCEPT ![s] = TRUE]
      /\ UNCHANGED <<ring, closed, active, call, closer, late>>
  BY Zenon, <1>0 DEF EnterRefused, EnterWait, Blocks, Sides
<1>2. Holding(t) /\ t \notin Sleepers(lock[s]) /\ lock[s].is_lock_acquired /\ t \notin cond
  BY Zenon, <1>0, <1>1 DEF Holding
<1>3. /\ LockOK(b) /\ b \in FairLocks /\ Sleepers(b) = Sleepers(lock[s])
      /\ b.is_lock_acquired /\ b.block_weak_locks
  BY SMTT(40), <1>0, <1>2, BlockedLockOK
<1>4. CASE EnterRefused(t)
  <2> DEFINE m == Unlock(b)
  <2>1. /\ lock' = [lock EXCEPT ![s] = m] /\ cond' = cond
        /\ pc' = [pc EXCEPT ![t] = "leave"] /\ ret' \in [Threads -> Results]
    BY Zenon, <1>0, <1>4 DEF EnterRefused, LeaveWith, RefusalOf, Results
  <2> HIDE DEF b
  <2>2. LockOK(m) /\ Sleepers(m) = Sleepers(lock[s]) /\ ~m.is_lock_acquired /\ m.block_weak_locks
    BY ZenonT(30), <1>3, UnlockOK, LockFlags
  <2> HIDE DEF s, m
  <2> QED BY ZenonT(30), <1>0, <1>1, <1>2, <2>1, <2>2, LockStep DEF s
<1>5. CASE EnterWait(t)
  <2>1. /\ lock' = [lock EXCEPT ![s] = b] /\ cond' = cond \cup {t}
        /\ pc' = [pc EXCEPT ![t] = "wait"] /\ ret' = ret
    BY Zenon, <1>5 DEF EnterWait
  <2> HIDE DEF s, b
  <2> QED BY ZenonT(30), <1>0, <1>1, <1>2, <1>3, <2>1, LockStep DEF s
<1> QED BY Zenon, <1>4, <1>5

-----------------------------------------------------------------------------
(* An element goes in or out.  There is at most one thread on bq->cond,    *)
(* and it is of the other side: it is signalled, and finds what it needs.  *)
LEMMA ProceedStep ==
  ASSUME IInv, NEW t \in Threads, NEW r, Proceed(t, r),
         pc[t] \in {"crit", "wait"}, t \notin cond, ~weak_blocked[call[t].side],
         IsRing(r), r.queue_size = ring.queue_size,
         IF call[t].side = "add" THEN r.queue_size < r.queue_capacity ELSE r.queue_size # 0
  PROVE  IInv'
<1> DEFINE s == call[t].side
           o == Other(s)
           l == IF weak_blocked[o] THEN AllowWeak(lock[o]) ELSE lock[o]
<1>0. /\ s \in Sides /\ o \in Sides /\ o # s /\ Sides = {s, o}
      /\ lock \in [Sides -> FairLocks]
      /\ weak_blocked \in [Sides -> BOOLEAN]
      /\ pc \in [Threads -> {"idle", "lock", "asleep", "crit", "wait", "unlock", "leave"}]
      /\ call \in [Threads -> Calls]
      /\ cond \subseteq Threads
  BY Zenon DEF IInv, TypeOK, Calls, Sides, Other
<1>1. /\ lock' = [lock EXCEPT ![o] = l]
      /\ weak_blocked' = [weak_blocked EXCEPT ![o] = FALSE]
      /\ SignalCond
      /\ pc' = [pc EXCEPT ![t] = "unlock"]
      /\ ret' = [ret EXCEPT ![t] = "ok"]
      /\ UNCHANGED <<closed, active, closer, late>>
  BY Zenon DEF Proceed
<1>a. r.queue_size \in 0 .. r.queue_capacity /\ r.queue_capacity \in Nat
  BY Zenon DEF IsRing, FieldsOK
<1>2. /\ IsRing(ring') /\ ~Exhausted(o)'
      /\ call' \in [Threads -> Calls]
      /\ \A u \in Threads : call'[u].side = call[u].side
  <2>1. CASE s = "add"
    <3>1. ring' = enqueue(r, call[t].element) /\ call' = call
      BY Zenon, <2>1 DEF Proceed
    <3>2. call[t].element \in Elements \cup {Junk}
      BY Zenon, <1>0 DEF Calls
    <3>3. /\ IsRing(ring') /\ ring'.queue_size = r.queue_size + 1
      BY Zenon, <2>1, <3>1, <3>2, EnqueueRing
    <3>4. ring'.queue_size # 0 /\ o = "get"
      BY <1>a, <2>1, <3>3 DEF Other
    <3> QED BY Zenon, <1>0, <3>1, <3>3, <3>4 DEF Exhausted
  <2>2. CASE s = "get"
    <3>1. ring' = dequeue(r) /\ call' = [call EXCEPT ![t].element = front_element(r)]
      BY Zenon, <2>2 DEF Proceed
    <3>2. /\ IsRing(ring') /\ ring'.queue_size = r.queue_size - 1
          /\ ring'.queue_capacity = r.queue_capacity
          /\ front_element(r) \in Elements \cup {Junk}
      BY Zenon, <2>2, <3>1, DequeueRing
    <3>3. ring'.queue_size # ring'.queue_capacity /\ o = "add"
      BY <1>a, <2>2, <3>2 DEF Other
    <3>4. /\ call' \in [Threads -> Calls]
          /\ \A u \in Threads : call'[u].side = call[u].side
      BY SMTT(40), <1>0, <3>1, <3>2 DEF Calls
    <3> QED BY Zenon, <3>2, <3>3, <3>4 DEF Exhausted
  <2> QED BY Zenon, <1>0, <2>1, <2>2 DEF Sides
<1>3. /\ LockOK(l) /\ l \in FairLocks /\ Sleepers(l) = Sleepers(lock[o])
      /\ l.is_lock_acquired = lock[o].is_lock_acquired
      /\ ~l.block_weak_locks
  <2>1. SideOK(o) /\ lock[o] \in FairLocks
    BY Zenon, <1>0 DEF IInv
  <2>2. /\ LockOK(AllowWeak(lock[o])) /\ Sleepers(AllowWeak(lock[o])) = Sleepers(lock[o])
        /\ AllowWeak(lock[o]).is_lock_acquired = lock[o].is_lock_acquired
        /\ ~AllowWeak(lock[o]).block_weak_locks
    BY Zenon, <2>1, AllowWeakOK DEF SideOK, AllowWeak, FairLocks
  <2> QED BY ZenonT(30), <2>1, <2>2 DEF SideOK, LockOK
<1> HIDE DEF l
<1>4. cond' = {}
  <2>1. \A u \in cond : Holding(u) /\ call[u].side \in Sides /\ call[u].side # s
    BY Zenon, <1>0 DEF IInv, WaitersOK, OneHolder, Holding, Calls
  <2>2. \A u, v \in cond : u = v
    BY SMTT(40), <1>0, <2>1 DEF IInv, OneHolder
  <2> QED BY SMTT(40), <1>1, <2>2 DEF SignalCond
<1>5. TypeOK'
  <2>1. lock' \in [Sides -> FairLocks] /\ weak_blocked' \in [Sides -> BOOLEAN]
    BY SMTT(40), <1>0, <1>1, <1>3
  <2>2. pc' \in [Threads -> {"idle", "lock", "asleep", "crit", "wait", "unlock", "leave"}]
        /\ ret' \in [Threads -> Results]
    BY Zenon, <1>0, <1>1 DEF IInv, TypeOK, Results
  <2> QED BY SMTT(40), <1>1, <1>2, <1>4, <2>1, <2>2 DEF IInv, TypeOK
<1>6. ASSUME NEW x \in Sides PROVE SideOK(x)'
  <2>1. AsleepOn(x)' = AsleepOn(x)
    BY SMTT(40), <1>0, <1>1, <1>2 DEF AsleepOn
  <2>2. (\E u \in Threads : Holding(u)' /\ call'[u].side = x) <=>
        (\E u \in Threads : Holding(u) /\ call[u].side = x)
    BY SMTT(40), <1>0, <1>1, <1>2 DEF Holding
  <2>3. SideOK(x)
    BY Zenon DEF IInv
  <2>4. CASE x = s
    <3>1. lock'[x] = lock[x] /\ weak_blocked'[x] = weak_blocked[x] /\ ~weak_blocked[x]
      BY ZenonT(30), <1>0, <1>1, <2>4
    <3> QED BY SMTT(40), <2>1, <2>2, <2>3, <3>1 DEF SideOK
  <2>5. CASE x = o
    <3>1. lock'[x] = l /\ ~weak_blocked'[x]
      BY Zenon, <1>0, <1>1, <2>5
    <3> QED BY <1>3, <2>1, <2>2, <2>3, <2>5, <3>1 DEF SideOK
  <2> QED BY SMTT(40), <1>0, <2>4, <2>5
<1>7. OneHolder'
  BY SMTT(40), <1>0, <1>1, <1>2 DEF IInv, OneHolder, Holding
<1>8. WaitersOK'
  <2>1. \A u \in Threads : pc'[u] = "wait" => call'[u].side = o
    BY <1>0, <1>1, <1>2 DEF IInv, OneHolder, Holding, Calls
  <2>2. \A u \in Threads : pc'[u] = "wait" => pc[u] = "wait"
    BY Zenon, <1>0, <1>1
  <2>3. is_boundless => ~weak_blocked'["add"]
    BY SMTT(40), <1>0, <1>1 DEF IInv, WaitersOK, Sides
  <2>4. is_boundless => \A u \in Threads : pc'[u] = "wait" => call'[u].side = "get"
    BY Zenon, <1>2, <2>2 DEF IInv, WaitersOK
  <2>5. \A u \in Threads : pc'[u] = "wait" =>
          IF call'[u].side = "add" THEN ring'.queue_size # ring'.queue_capacity
                                   ELSE ring'.queue_size # 0
    BY SMTT(40), <1>2, <2>1 DEF Exhausted
  <2> QED BY SMTT(40), <1>4, <2>3, <2>4, <2>5 DEF WaitersOK, Exhausted, is_boundless
<1>9. CountOK'
  <2>1. Callers' = Callers
    BY SMTT(40), <1>0, <1>1 DEF Callers, Inside
  <2> QED BY Zenon, <1>1, <2>1 DEF IInv, CountOK
<1>10. DrainOK'
  BY Zenon, <1>1, <1>4 DEF IInv, DrainOK
<1> QED BY Zenon, <1>5, <1>6, <1>7, <1>8, <1>9, <1>10 DEF IInv

LEMMA WorkSteps ==
  ASSUME IInv, NEW t \in Threads, EnterReady(t) \/ EnterGrow(t) \/ ResumeReady(t)
  PROVE  IInv'
<1> DEFINE s == call[t].side
<1>0. /\ s \in Sides /\ IsRing(ring) /\ weak_blocked[s] \in BOOLEAN
      /\ t \in cond => pc[t] = "wait"
      /\ weak_blocked[s] => Exhausted(s) /\ (is_boundless => s = "get")
      /\ ring.queue_size \in 0 .. ring.queue_capacity /\ ring.queue_capacity \in Nat \ {0}
  <2>1. IsRing(ring)
    BY Zenon DEF IInv, TypeOK
  <2>2. ring.queue_size \in 0 .. ring.queue_capacity /\ ring.queue_capacity \in Nat \ {0}
    BY SMTT(40), <2>1 DEF IsRing, FieldsOK
  <2> QED BY ZenonT(30), <2>1, <2>2, SideFacts
<1>1. CASE EnterReady(t)
  BY SMTT(40), <1>0, <1>1, ProceedStep DEF EnterReady, Exhausted
<1>2. CASE EnterGrow(t)
  <2>1. /\ IsRing(grow_queue(ring)) /\ grow_queue(ring).queue_size = ring.queue_size
        /\ grow_queue(ring).queue_capacity = 2 * ring.queue_capacity
        /\ s = "add" /\ pc[t] = "crit" /\ Proceed(t, grow_queue(ring)) /\ is_boundless
        /\ ring.queue_size = ring.queue_capacity
    BY SMTT(40), <1>0, <1>2, GrowRing DEF EnterGrow, Exhausted
  <2>2. grow_queue(ring).queue_size < grow_queue(ring).queue_capacity
    BY SMTT(40), <1>0, <2>1
  <2> QED BY ZenonT(30), <1>0, <2>1, <2>2, ProceedStep
<1>3. CASE ResumeReady(t)
  <2>1. ~Exhausted(s)
    BY Zenon, <1>3 DEF ResumeReady, IInv, WaitersOK
  <2> QED BY <1>0, <1>3, <2>1, ProceedStep DEF ResumeReady, Exhausted
<1> QED BY SMTT(40), <1>1, <1>2, <1>3

-----------------------------------------------------------------------------
(* A call begins: one more active caller, holding nothing.                 *)
LEMMA CallStep ==
  ASSUME IInv, NEW t \in Threads, NEW s \in Sides, NEW async \in BOOLEAN,
         NEW e \in Elements \cup {Junk}, Call(t, s, async, e)
  PROVE  IInv'
<1> DEFINE c == [side |-> s, async |-> async, element |-> e]
<1>0. /\ pc \in [Threads -> {"idle", "lock", "asleep", "crit", "wait", "unlock", "leave"}]
      /\ call \in [Threads -> Calls] /\ cond \subseteq Threads /\ active \in Nat
      /\ c \in Calls
  BY Zenon DEF IInv, TypeOK, Calls
<1>1. /\ pc[t] = "idle" /\ pc' = [pc EXCEPT ![t] = "lock"]
      /\ call' = [call EXCEPT ![t] = c] /\ active' = active + 1
      /\ late' \subseteq Threads
      /\ UNCHANGED <<lock, weak_blocked, ring, closed, cond, ret, closer>>
  BY Zenon DEF Call, IInv, TypeOK
<1> HIDE DEF c
<1>2. TypeOK'
  BY <1>0, <1>1 DEF IInv, TypeOK
<1>3. t \notin cond /\ \A u \in Threads : u # t => call'[u] = call[u] /\ pc'[u] = pc[u]
  BY Zenon, <1>0, <1>1 DEF IInv, WaitersOK
<1>4. ASSUME NEW x \in Sides PROVE SideOK(x)'
  <2>1. AsleepOn(x)' = AsleepOn(x)
    BY Zenon, <1>0, <1>1, <1>3 DEF AsleepOn
  <2>2. (\E u \in Threads : Holding(u)' /\ call'[u].side = x) <=>
        (\E u \in Threads : Holding(u) /\ call[u].side = x)
    BY Zenon, <1>0, <1>1, <1>3 DEF Holding
  <2>3. SideOK(x)
    BY Zenon DEF IInv
  <2> QED BY Zenon, <1>1, <2>1, <2>2, <2>3 DEF SideOK, Exhausted
<1>5. OneHolder'
  BY Zenon, <1>0, <1>1, <1>3 DEF IInv, OneHolder, Holding
<1>6. WaitersOK'
  BY ZenonT(40), <1>0, <1>1, <1>3 DEF IInv, WaitersOK, Exhausted, is_boundless
<1>7. CountOK'
  <2>1. Callers' = Callers \cup {t} /\ t \notin Callers
    BY Zenon, <1>0, <1>1 DEF Callers, Inside
  <2>2. IsFiniteSet(Callers)
    BY Zenon, ThreadsFinite, FS_Subset DEF Callers
  <2> QED BY ZenonT(30), <1>1, <2>1, <2>2, FS_AddElement DEF IInv, CountOK
<1>8. DrainOK'
  BY Zenon, <1>0, <1>1, <1>3 DEF IInv, DrainOK, Inside
<1> QED BY SMTT(40), <1>2, <1>4, <1>5, <1>6, <1>7, <1>8 DEF IInv

(* A call ends.                                                            *)
LEMMA LeaveStep ==
  ASSUME IInv, NEW t \in Threads, Leave(t)
  PROVE  IInv'
<1>0. /\ pc \in [Threads -> {"idle", "lock", "asleep", "crit", "wait", "unlock", "leave"}]
      /\ call \in [Threads -> Calls] /\ cond \subseteq Threads /\ active \in Nat
      /\ closer \in [Closers -> {"idle", "draining", "waiting", "returned", "freed"}]
      /\ ret \in [Threads -> Results]
      /\ NoCall \in Calls
  BY Zenon DEF IInv, TypeOK, Calls, NoCall, Sides
<1>1. /\ pc[t] = "leave" /\ pc' = [pc EXCEPT ![t] = "idle"]
      /\ call' = [call EXCEPT ![t] = NoCall] /\ active' = active - 1
      /\ closer' = [c \in Closers |-> IF closer[c] = "waiting" THEN "draining" ELSE closer[c]]
      /\ ret' = [ret EXCEPT ![t] = "none"]
      /\ UNCHANGED <<lock, weak_blocked, ring, closed, cond, late>>
  BY Zenon DEF Leave
<1>2. t \notin cond /\ \A u \in Threads : u # t => call'[u] = call[u] /\ pc'[u] = pc[u]
  BY Zenon, <1>0, <1>1 DEF IInv, WaitersOK
<1>3. CountOK' /\ active' \in Nat
  <2>1. Callers' = Callers \ {t} /\ t \in Callers
    BY Zenon, <1>0, <1>1 DEF Callers, Inside
  <2>2. IsFiniteSet(Callers)
    BY Zenon, ThreadsFinite, FS_Subset DEF Callers
  <2>3. Cardinality(Callers') = Cardinality(Callers) - 1 /\ Cardinality(Callers') \in Nat
    BY SMTT(40), <2>1, <2>2, FS_RemoveElement, FS_CardinalityType
  <2> QED BY Zenon, <1>1, <2>3 DEF IInv, CountOK
<1>4. TypeOK'
  BY SMTT(40), <1>0, <1>1, <1>3 DEF IInv, TypeOK, Results
<1>5. ASSUME NEW x \in Sides PROVE SideOK(x)'
  <2>1. AsleepOn(x)' = AsleepOn(x)
    BY Zenon, <1>0, <1>1, <1>2 DEF AsleepOn
  <2>2. (\E u \in Threads : Holding(u)' /\ call'[u].side = x) <=>
        (\E u \in Threads : Holding(u) /\ call[u].side = x)
    BY Zenon, <1>0, <1>1, <1>2 DEF Holding
  <2>3. SideOK(x)
    BY Zenon DEF IInv
  <2> QED BY SMTT(40), <1>1, <2>1, <2>2, <2>3 DEF SideOK, Exhausted
<1>6. OneHolder'
  BY SMTT(40), <1>0, <1>1, <1>2 DEF IInv, OneHolder, Holding
<1>7. WaitersOK'
  BY <1>0, <1>1, <1>2 DEF IInv, WaitersOK, Exhausted, is_boundless
<1>8. DrainOK'
  <2>1. ASSUME NEW c \in Closers, closer[c] \in {"draining", "waiting"}
        PROVE  closer'[c] = "draining"
    BY Zenon, <1>0, <1>1, <2>1
  <2>2. \A c \in Closers : closer'[c] # "idle" => closed
    BY Zenon, <1>0, <1>1 DEF IInv, DrainOK
  <2> QED BY Zenon, <1>1, <2>1, <2>2 DEF IInv, DrainOK
<1> QED BY SMTT(40), <1>3, <1>4, <1>5, <1>6, <1>7, <1>8 DEF IInv

(* The two sides are never exhausted at once, so there is one waiter.      *)
LEMMA OneWaiter == IInv => \A t, u \in cond : t = u
<1> SUFFICES ASSUME IInv, NEW t \in cond, NEW u \in cond PROVE t = u
  BY SMTT(40)
<1>1. /\ t \in Threads /\ u \in Threads
      /\ call[t].side \in Sides /\ call[u].side \in Sides
      /\ ring.queue_capacity \in Nat \ {0}
  BY Zenon DEF IInv, TypeOK, Calls, IsRing, FieldsOK
<1>2. /\ Holding(t) /\ Holding(u)
      /\ Exhausted(call[t].side) /\ Exhausted(call[u].side)
  BY Zenon DEF IInv, WaitersOK, Holding
<1>3. call[t].side = call[u].side
  BY Zenon, <1>1, <1>2 DEF Exhausted, Sides
<1> QED BY Zenon, <1>1, <1>2, <1>3 DEF IInv, OneHolder

LEMMA CloserSteps ==
  ASSUME IInv, NEW c \in Closers, CloseMark(c) \/ CloseStep(c)
  PROVE  IInv'
<1>0. /\ closer \in [Closers -> {"idle", "draining", "waiting", "returned", "freed"}]
      /\ cond \subseteq Threads
      /\ UNCHANGED <<lock, weak_blocked, ring, active, pc, call, ret, late>>
  BY Zenon DEF IInv, TypeOK, CloseMark, CloseStep, CloseWait, CloseReturn, Free
<1>1. closed' /\ cond' \subseteq cond
  BY DEF IInv, DrainOK, CloseMark, CloseStep, CloseWait, CloseReturn, Free, SignalCond
<1>2. TypeOK'
  <2>1. closer' \in [Closers -> {"idle", "draining", "waiting", "returned", "freed"}]
    BY Zenon, <1>0 DEF CloseMark, CloseStep, CloseWait, CloseReturn, Free
  <2>2. closed' \in BOOLEAN
    BY ZenonT(30) DEF IInv, TypeOK, CloseMark, CloseStep, CloseWait, CloseReturn, Free
  <2> QED BY Zenon, <1>0, <1>1, <2>1, <2>2 DEF IInv, TypeOK
<1>3. ASSUME NEW x \in Sides PROVE SideOK(x)'
  <2>1. SideOK(x)
    BY Zenon DEF IInv
  <2> QED BY Zenon, <1>0, <2>1 DEF SideOK, AsleepOn, Holding, Exhausted
<1>4. OneHolder'
  BY Zenon, <1>0 DEF IInv, OneHolder, Holding
<1>5. WaitersOK'
  BY ZenonT(30), <1>0, <1>1 DEF IInv, WaitersOK, Exhausted, is_boundless
<1>6. CountOK'
  BY Zenon, <1>0 DEF IInv, CountOK, Callers, Inside
<1>7. DrainOK'
  <2> SUFFICES ASSUME cond' # {}
               PROVE  \E d \in Closers :
                        \/ closer'[d] = "draining"
                        \/ closer'[d] = "waiting" /\ \E t \in Threads \ cond' : Inside(t)'
    BY Zenon, <1>1 DEF DrainOK
  <2>1. CASE CloseMark(c)
    BY Zenon, <1>0, <2>1 DEF CloseMark, CloseMutexFree, IInv, DrainOK
  <2>2. CASE CloseWait(c)
    <3>1. cond' = {}
      BY Zenon, <2>2, OneWaiter DEF CloseWait, SignalCond
    <3> QED BY Zenon, <3>1
  <2>3. CASE CloseReturn(c)
    <3>1. IsFiniteSet(Callers) /\ Cardinality(Callers) = 0
      BY Zenon, <2>3, ThreadsFinite, FS_Subset DEF CloseReturn, IInv, CountOK, Callers
    <3>2. Callers = {}
      BY SMTT(40), <3>1, FS_EmptySet
    <3>3. cond = {}
      BY Zenon, <1>0, <3>2 DEF IInv, WaitersOK, Callers, Inside
    <3> QED BY Zenon, <1>1, <3>3
  <2>4. CASE Free(c)
    BY Zenon, <1>0, <2>4 DEF Free, IInv, DrainOK, Inside
  <2> QED BY Zenon, <2>1, <2>2, <2>3, <2>4 DEF CloseStep
<1> QED BY SMTT(40), <1>2, <1>3, <1>4, <1>5, <1>6, <1>7 DEF IInv

LEMMA QueueNext == IInv /\ [Next]_vars => IInv'
<1> SUFFICES ASSUME IInv, [Next]_vars PROVE IInv'
  OBVIOUS
<1>1. ASSUME NEW t \in Threads, Step(t) PROVE IInv'
  BY SMTT(40), <1>1, EarlySteps, ReleaseSteps, BlockedSteps, WorkSteps, LeaveStep DEF Step
<1>2. ASSUME NEW t \in Threads, NEW s \in Sides, NEW async \in BOOLEAN,
             NEW e \in Elements \cup {Junk}, Call(t, s, async, e)
      PROVE  IInv'
  BY Zenon, <1>2, CallStep
<1>3. ASSUME NEW c \in Closers, CloseMark(c) \/ CloseStep(c) PROVE IInv'
  BY Zenon, <1>3, CloserSteps
<1>4. CASE UNCHANGED vars
  <2>1. TypeOK' /\ OneHolder' /\ WaitersOK' /\ CountOK' /\ DrainOK'
    BY SMTT(40), <1>4 DEF vars, IInv, TypeOK, OneHolder, WaitersOK, CountOK, DrainOK, Holding, Exhausted,
                Callers, Inside, is_boundless
  <2>2. ASSUME NEW x \in Sides PROVE SideOK(x)'
    BY ZenonT(30), <1>4 DEF vars, IInv, SideOK, AsleepOn, Holding, Exhausted
  <2> QED BY SMTT(40), <2>1, <2>2 DEF IInv
<1> QED BY Zenon, <1>1, <1>2, <1>3, <1>4 DEF Next

(* Type correctness, that of the ring's indices included.                  *)
THEOREM QueueTypeCorrect == Spec => []TypeOK
<1>1. IInv => TypeOK
  BY Zenon DEF IInv
<1> QED BY <1>1, QueueInit, QueueNext, PTL DEF Spec

(* A put or take that returns from pthread_cond_wait on an open queue      *)
(* finds space or an element: the assertions behind the two waits hold.    *)
THEOREM WakeupsAreUseful == Spec => []ResumeFindsWork
<1>1. IInv => ResumeFindsWork
  BY Zenon DEF IInv, WaitersOK, ResumeFindsWork
<1> QED BY <1>1, QueueInit, QueueNext, PTL DEF Spec

(* No signal on bq->cond is lost, by the other side or by the closer.      *)
THEOREM NoLostSignal == Spec => []WaitersWillBeWoken
<1>1. IInv => WaitersWillBeWoken
  BY SMTT(40) DEF IInv, WaitersOK, DrainOK, WaitersWillBeWoken
<1> QED BY <1>1, QueueInit, QueueNext, PTL DEF Spec

(* The ring and its condition variable never disagree.                     *)
THEOREM WakeupsHold == Spec => []WakeupsAreExact
<1>1. TypeOK /\ ResumeFindsWork /\ WaitersWillBeWoken => WakeupsAreExact
  BY Zenon DEF WakeupsAreExact
<1> QED BY <1>1, QueueTypeCorrect, WakeupsAreUseful, NoLostSignal, PTL

(* BQ_FULL and BQ_EMPTY are told the truth by the cached flags.            *)
THEOREM RefusalsHold == Spec => []RefusalsAreTrue
<1>1. IInv => RefusalsAreTrue
  BY Zenon DEF IInv, SideOK, RefusalsAreTrue
<1> QED BY <1>1, QueueInit, QueueNext, PTL DEF Spec

-----------------------------------------------------------------------------
(* When nobody but the destroyer closes the queue, it waits for every call *)
(* that began before.                                                      *)
DestroyOK ==
  /\ closed => Destroying
  /\ \A c \in Closers : closer[c] \in {"returned", "freed"} => Callers = {}

(* blocking_queue_destroy, called on an open queue, frees nothing that a   *)
(* call still uses.                                                        *)
THEOREM DestroyIsSafe ==
  ASSUME Closers = {Destroyer}
  PROVE  Spec => []FreedIsUnused
<1>1. IInv /\ DestroyOK => FreedIsUnused
  BY Zenon DEF IInv, CountOK, DestroyOK, FreedIsUnused, Callers
<1>2. Init => DestroyOK
  BY Zenon DEF Init, DestroyOK
<1>3. IInv /\ DestroyOK /\ [Next]_vars => DestroyOK'
  <2> SUFFICES ASSUME IInv, DestroyOK, [Next]_vars PROVE DestroyOK'
    OBVIOUS
  <2>0. /\ closer \in [Closers -> {"idle", "draining", "waiting", "returned", "freed"}]
        /\ pc \in [Threads -> {"idle", "lock", "asleep", "crit", "wait", "unlock", "leave"}]
    BY SMTT(40) DEF IInv, TypeOK
  <2>1. ASSUME NEW t \in Threads, Step(t), ~Leave(t)
        PROVE  /\ UNCHANGED <<closed, closer>> /\ pc[t] # "idle"
               /\ \E p : pc' = [pc EXCEPT ![t] = p] /\ p # "idle"
    BY <2>1 DEF Step, LockRefused, LockFree, LockWait, LockError, WakeAsLoser, WakeAsHolder,
                EnterClosed, EnterReady, EnterGrow, EnterGrowError, EnterRefused, EnterWait,
                ResumeClosed, ResumeReady, UnlockSide, GiveUpClosed, Proceed, LeaveWith
  <2>2. ASSUME NEW t \in Threads, Step(t), ~Leave(t) PROVE DestroyOK'
    BY Zenon, <2>0, <2>1, <2>2 DEF DestroyOK, Destroying, Callers, Inside
  <2>3. ASSUME NEW t \in Threads, Leave(t) PROVE DestroyOK'
    BY SMTT(40), <2>0, <2>3 DEF Leave, DestroyOK, Destroying, Callers, Inside
  <2>4. ASSUME NEW t \in Threads, NEW s \in Sides, NEW async \in BOOLEAN,
               NEW e \in Elements \cup {Junk}, Call(t, s, async, e)
        PROVE  DestroyOK'
    BY Zenon, <2>0, <2>4 DEF Call, DestroyOK, Destroying
  <2>5. ASSUME NEW c \in Closers, CloseMark(c) \/ CloseWait(c) \/ Free(c) PROVE DestroyOK'
    BY Zenon, <2>0, <2>5 DEF CloseMark, CloseWait, Free, DestroyOK, Destroying, Callers, Inside
  <2>6. ASSUME NEW c \in Closers, CloseReturn(c) PROVE DestroyOK'
    <3>1. IsFiniteSet(Callers) /\ Cardinality(Callers) = 0
      BY Zenon, <2>6, ThreadsFinite, FS_Subset DEF CloseReturn, IInv, CountOK, Callers
    <3>2. Callers = {}
      BY Zenon, <3>1, FS_EmptySet
    <3> QED BY Zenon, <2>0, <2>6, <3>2 DEF CloseReturn, DestroyOK, Destroying, Callers, Inside
  <2>7. CASE UNCHANGED vars
    BY ZenonT(40), <2>7 DEF vars, DestroyOK, Destroying, Callers, Inside
  <2> QED BY SMTT(40), <2>2, <2>3, <2>4, <2>5, <2>6, <2>7 DEF Next, CloseStep
<1> QED BY <1>1, <1>2, <1>3, QueueInit, QueueNext, PTL DEF Spec

-----------------------------------------------------------------------------
(* A weak entry of a fair lock is an async caller asleep on it, and only   *)
(* weak entries are abandoned.                                             *)
WeakOK(s) ==
  /\ lock[s].abandoned \subseteq lock[s].weak
  /\ \A u \in lock[s].weak : pc[u] = "asleep" /\ call[u].side = s /\ call[u].async

(* A call made on a closed queue neither waits nor gets to work.           *)
LateOK ==
  /\ late # {} => closed
  /\ \A t \in late :
       /\ pc[t] \notin {"wait", "unlock"}
       /\ pc[t] = "leave" =>
            \/ ret[t] \in {"closed", "error"}
            \/ call[t].async /\ ret[t] = RefusalOf(call[t].side)

(* What the refinement needs beyond IInv.                                  *)
RInv ==
  /\ \A s \in Sides : WeakOK(s)
  /\ LateOK
  /\ ~is_boundless => ring.queue_capacity = Capacity

(* What the functions of the fair lock do to the weak and the abandoned.   *)
LEMMA LockSets ==
  ASSUME NEW l \in FairLocks, NEW t \in Threads, NEW w \in BOOLEAN
  PROVE  /\ Acquire(l).weak = l.weak /\ Acquire(l).abandoned = l.abandoned
         /\ EnqueueEntry(l, t, w).weak = (IF w THEN l.weak \cup {t} ELSE l.weak)
         /\ EnqueueEntry(l, t, w).abandoned = l.abandoned
         /\ Unlock(l).weak = l.weak /\ Unlock(l).abandoned = l.abandoned
         /\ WakeAcquire(l, t).weak = l.weak \ {t}
         /\ WakeAcquire(l, t).abandoned = l.abandoned
         /\ WakeAbandoned(l, t).weak = l.weak \ {t}
         /\ WakeAbandoned(l, t).abandoned = l.abandoned \ {t}
         /\ BlockWeak(l).weak = l.weak
         /\ BlockWeak(l).abandoned = l.abandoned \cup (l.queue \cap l.weak)
         /\ AllowWeak(l).weak = l.weak /\ AllowWeak(l).abandoned = l.abandoned
<1>1. Acquire(l).weak = l.weak /\ Acquire(l).abandoned = l.abandoned
  BY Zenon DEF Acquire, FairLocks
<1>2. /\ EnqueueEntry(l, t, w).weak = (IF w THEN l.weak \cup {t} ELSE l.weak)
      /\ EnqueueEntry(l, t, w).abandoned = l.abandoned
  BY Zenon DEF EnqueueEntry, FairLocks
<1>3. Unlock(l).weak = l.weak /\ Unlock(l).abandoned = l.abandoned
  BY Zenon DEF Unlock, Unlink, FairLocks
<1>4. /\ WakeAcquire(l, t).weak = l.weak \ {t} /\ WakeAcquire(l, t).abandoned = l.abandoned
      /\ WakeAbandoned(l, t).weak = l.weak \ {t}
      /\ WakeAbandoned(l, t).abandoned = l.abandoned \ {t}
  BY Zenon DEF WakeAcquire, WakeAbandoned, FairLocks
<1>5. /\ BlockWeak(l).weak = l.weak
      /\ BlockWeak(l).abandoned = l.abandoned \cup (l.queue \cap l.weak)
  BY Zenon DEF BlockWeak, Unlink, FairLocks
<1>6. AllowWeak(l).weak = l.weak /\ AllowWeak(l).abandoned = l.abandoned
  BY Zenon DEF AllowWeak, FairLocks
<1> QED BY SMTT(40), <1>1, <1>2, <1>3, <1>4, <1>5, <1>6

LEMMA RefineInit == Init => RInv
<1> SUFFICES ASSUME Init PROVE RInv
  OBVIOUS
<1>1. ASSUME NEW s \in Sides PROVE WeakOK(s)
  BY Zenon DEF Init, WeakOK, FairLockInit
<1>2. LateOK
  BY Zenon DEF Init, LateOK
<1>3. ~is_boundless => ring.queue_capacity = Capacity
  BY Zenon DEF Init, RingInit
<1> QED BY Zenon, <1>1, <1>2, <1>3 DEF RInv

(* A step of t that makes m of the fair lock of side s and goes to p.      *)
LEMMA RefineStep ==
  ASSUME IInv, RInv, NEW t \in Threads, NEW s \in Sides, NEW m, NEW p,
         lock' = [lock EXCEPT ![s] = m],
         pc' = [pc EXCEPT ![t] = p],
         \A u \in Threads \ {t} : call'[u] = call[u] /\ ret'[u] = ret[u],
         UNCHANGED <<closed, late>>,
         m.abandoned \subseteq m.weak,
         m.weak \subseteq lock[s].weak \cup {t},
         t \in m.weak => p = "asleep" /\ call'[t].side = s /\ call'[t].async,
         pc[t] = "asleep" => call[t].side = s,
         t \in late =>
           /\ p \notin {"wait", "unlock"}
           /\ p = "leave" => \/ ret'[t] \in {"closed", "error"}
                             \/ call'[t].async /\ ret'[t] = RefusalOf(call'[t].side),
         ~is_boundless => ring'.queue_capacity = ring.queue_capacity
  PROVE  RInv'
<1>0. /\ lock \in [Sides -> FairLocks]
      /\ pc \in [Threads -> {"idle", "lock", "asleep", "crit", "wait", "unlock", "leave"}]
      /\ \A x \in Sides : lock[x].weak \subseteq Threads
      /\ late \subseteq Threads
  BY Zenon DEF IInv, TypeOK, FairLocks
<1>1. ASSUME NEW x \in Sides PROVE WeakOK(x)'
  <2>1. WeakOK(x)
    BY Zenon DEF RInv
  <2>2. CASE x = s
    <3>1. lock'[x] = m
      BY Zenon, <1>0, <2>2
    <3>2. ASSUME NEW u \in m.weak
          PROVE  pc'[u] = "asleep" /\ call'[u].side = s /\ call'[u].async
      <4>1. CASE u = t
        BY ZenonT(40), <1>0, <4>1
      <4>2. CASE u # t
        BY SMTT(40), <1>0, <2>1, <2>2, <4>2 DEF WeakOK
      <4> QED BY Zenon, <4>1, <4>2
    <3> QED BY Zenon, <2>2, <3>1, <3>2 DEF WeakOK
  <2>3. CASE x # s
    <3>1. lock'[x] = lock[x]
      BY Zenon, <1>0, <2>3
    <3>2. ASSUME NEW u \in lock[x].weak
          PROVE  pc'[u] = "asleep" /\ call'[u].side = x /\ call'[u].async
      BY SMTT(40), <1>0, <2>1, <2>3 DEF WeakOK
    <3> QED BY Zenon, <2>1, <3>1, <3>2 DEF WeakOK
  <2> QED BY Zenon, <2>2, <2>3
<1>2. LateOK'
  <2>1. ASSUME NEW u \in late
        PROVE  /\ pc'[u] \notin {"wait", "unlock"}
               /\ pc'[u] = "leave" =>
                    \/ ret'[u] \in {"closed", "error"}
                    \/ call'[u].async /\ ret'[u] = RefusalOf(call'[u].side)
    <3>1. CASE u = t
      BY Zenon, <1>0, <3>1
    <3>2. CASE u # t
      BY Zenon, <1>0, <3>2 DEF RInv, LateOK
    <3> QED BY Zenon, <3>1, <3>2
  <2> QED BY Zenon, <2>1 DEF RInv, LateOK, RefusalOf
<1>3. (~is_boundless => ring.queue_capacity = Capacity)'
  BY Zenon DEF RInv, is_boundless
<1> QED BY Zenon, <1>1, <1>2, <1>3 DEF RInv

(* Where such a step leaves the other threads' entries alone, it changes   *)
(* the abstract state of t's call only.                                    *)
LEMMA OpsStep ==
  ASSUME IInv, NEW t \in Threads, NEW s \in Sides, NEW m, NEW p,
         lock' = [lock EXCEPT ![s] = m],
         pc' = [pc EXCEPT ![t] = p],
         \A u \in Threads \ {t} : call'[u] = call[u] /\ ret'[u] = ret[u],
         m.abandoned \ {t} = lock[s].abandoned \ {t}
  PROVE  Ops' = [Ops EXCEPT ![t] = OpOf(t)']
<1>0. /\ lock \in [Sides -> FairLocks]
      /\ pc \in [Threads -> {"idle", "lock", "asleep", "crit", "wait", "unlock", "leave"}]
      /\ call \in [Threads -> Calls]
  BY Zenon DEF IInv, TypeOK
<1>1. ASSUME NEW u \in Threads, u # t PROVE OpOf(u)' = OpOf(u)
  <2>1. pc'[u] = pc[u] /\ call'[u] = call[u] /\ ret'[u] = ret[u] /\ call[u].side \in Sides
    BY Zenon, <1>0, <1>1 DEF Calls
  <2>2. u \in lock'[call[u].side].abandoned <=> u \in lock[call[u].side].abandoned
    <3>1. CASE call[u].side = s
      BY Zenon, <1>0, <1>1, <3>1
    <3>2. CASE call[u].side # s
      BY Zenon, <1>0, <2>1, <3>2
    <3> QED BY Zenon, <3>1, <3>2
  <2> QED BY Zenon, <2>1, <2>2 DEF OpOf, RefusalOf
<1> QED BY Zenon, <1>1 DEF Ops

(* What OpOf(t) is, by the place where t is.                               *)
LEMMA OpAt ==
  ASSUME NEW t \in Threads
  PROVE  /\ pc[t] = "idle" => OpOf(t) = [stage |-> "none"]
         /\ pc[t] \in {"unlock", "leave"} =>
              OpOf(t) = [stage |-> "done", element |-> call[t].element, result |-> ret[t]]
         /\ pc[t] = "asleep" /\ t \in lock[call[t].side].abandoned =>
              OpOf(t) = [stage |-> "done", element |-> call[t].element,
                         result |-> RefusalOf(call[t].side)]
         /\ \/ pc[t] \in {"lock", "crit", "wait"}
            \/ pc[t] = "asleep" /\ t \notin lock[call[t].side].abandoned
            => OpOf(t) = [stage |-> "pending", side |-> call[t].side,
                          async |-> call[t].async, element |-> call[t].element]
  BY Zenon DEF OpOf

(* Facts about t's side that the simulation of a step of t needs.          *)
LEMMA RefineFacts ==
  ASSUME IInv, RInv, NEW t \in Threads
  PROVE  LET s == call[t].side
         IN  /\ s \in Sides
             /\ LockOK(lock[s]) /\ lock[s] \in FairLocks
             /\ lock = [lock EXCEPT ![s] = lock[s]]
             /\ call[t].async \in BOOLEAN
             /\ WeakOK(s)
             /\ t \in lock[s].weak => pc[t] = "asleep" /\ call[t].async
             /\ t \in lock[s].abandoned => t \in lock[s].weak
             /\ t \in late => closed /\ pc[t] \notin {"wait", "unlock"}
             /\ pc \in [Threads -> {"idle", "lock", "asleep", "crit", "wait", "unlock", "leave"}]
             /\ call \in [Threads -> Calls]
             /\ ret \in [Threads -> Results]
<1>1. /\ call[t].side \in Sides /\ LockOK(lock[call[t].side]) /\ lock[call[t].side] \in FairLocks
      /\ lock = [lock EXCEPT ![call[t].side] = lock[call[t].side]]
      /\ call[t].async \in BOOLEAN
  BY Zenon, SideFacts
<1>2. WeakOK(call[t].side)
  BY Zenon, <1>1 DEF RInv
<1>3. t \in late => closed /\ pc[t] \notin {"wait", "unlock"}
  BY Zenon DEF RInv, LateOK
<1>4. /\ pc \in [Threads -> {"idle", "lock", "asleep", "crit", "wait", "unlock", "leave"}]
      /\ call \in [Threads -> Calls] /\ ret \in [Threads -> Results]
  BY Zenon DEF IInv, TypeOK
<1> QED BY Zenon, <1>1, <1>2, <1>3, <1>4 DEF WeakOK

(* Taking, queueing for and releasing a fair lock is not seen outside.     *)
LEMMA QuietSteps ==
  ASSUME IInv, RInv, NEW t \in Threads,
         \/ LockFree(t) \/ LockWait(t) \/ WakeAsLoser(t) \/ WakeAsHolder(t) \/ UnlockSide(t)
  PROVE  RInv' /\ UNCHANGED Fifo!vars
<1> DEFINE s == call[t].side
           l == lock[s]
<1>0. /\ s \in Sides /\ LockOK(l) /\ l \in FairLocks /\ call[t].async \in BOOLEAN
      /\ WeakOK(s)
      /\ t \in l.weak => pc[t] = "asleep" /\ call[t].async
      /\ t \in l.abandoned => t \in l.weak
      /\ t \in late => closed /\ pc[t] \notin {"wait", "unlock"}
      /\ pc \in [Threads -> {"idle", "lock", "asleep", "crit", "wait", "unlock", "leave"}]
      /\ ret \in [Threads -> Results]
      /\ lock \in [Sides -> FairLocks]
  BY Zenon, RefineFacts DEF IInv, TypeOK
<1>1. UNCHANGED <<ring, closed, call, late>>
  BY Zenon DEF LockFree, LockWait, WakeAsLoser, WakeAsHolder, UnlockSide
<1>2. l.abandoned \subseteq l.weak
  BY Zenon, <1>0 DEF WeakOK
<1> SUFFICES ASSUME NEW m, NEW p, NEW r,
                    lock' = [lock EXCEPT ![s] = m],
                    pc' = [pc EXCEPT ![t] = p],
                    ret' = [ret EXCEPT ![t] = r],
                    m.abandoned \subseteq m.weak,
                    m.weak \subseteq l.weak \cup {t},
                    t \in m.weak => p = "asleep" /\ call[t].async,
                    m.abandoned \ {t} = l.abandoned \ {t},
                    t \in late => /\ p \notin {"wait", "unlock"}
                                  /\ p = "leave" => call[t].async /\ r = RefusalOf(s),
                    OpOf(t)' = OpOf(t)
             PROVE  RInv' /\ UNCHANGED Fifo!vars
  <2>1. CASE LockFree(t)
    <3> DEFINE m == Acquire(l)
    <3>1. /\ lock' = [lock EXCEPT ![s] = m] /\ pc[t] = "lock"
          /\ pc' = [pc EXCEPT ![t] = "crit"] /\ ret' = [ret EXCEPT ![t] = ret[t]]
      BY Zenon, <1>0, <2>1 DEF LockFree
    <3>2. m.weak = l.weak /\ m.abandoned = l.abandoned
      BY Zenon, <1>0, LockSets
    <3>3. OpOf(t)' = OpOf(t)
      BY SMTT(40), <1>0, <1>1, <3>1 DEF OpOf
    <3> HIDE DEF m, l, s
    <3> QED BY ZenonT(40), <1>0, <1>2, <3>1, <3>2, <3>3
  <2>2. CASE LockWait(t)
    <3> DEFINE m == EnqueueEntry(l, t, call[t].async)
    <3>1. /\ lock' = [lock EXCEPT ![s] = m] /\ pc[t] = "lock"
          /\ pc' = [pc EXCEPT ![t] = "asleep"] /\ ret' = [ret EXCEPT ![t] = ret[t]]
      BY Zenon, <1>0, <2>2 DEF LockWait
    <3>2. /\ m.weak = (IF call[t].async THEN l.weak \cup {t} ELSE l.weak)
          /\ m.abandoned = l.abandoned
      BY ZenonT(40), <1>0 DEF EnqueueEntry, FairLocks
    <3>3. t \notin l.weak /\ t \notin lock'[s].abandoned
      BY SMTT(40), <1>0, <3>1, <3>2
    <3>4. OpOf(t)' = OpOf(t)
      BY ZenonT(40), <1>0, <1>1, <3>1, <3>3 DEF OpOf
    <3> HIDE DEF m, l, s
    <3> QED BY ZenonT(40), <1>0, <1>2, <3>1, <3>2, <3>3, <3>4
  <2>3. CASE WakeAsLoser(t)
    <3> DEFINE m == WakeAbandoned(l, t)
    <3>1. /\ lock' = [lock EXCEPT ![s] = m] /\ pc[t] = "asleep" /\ t \in l.abandoned
          /\ pc' = [pc EXCEPT ![t] = "leave"] /\ ret' = [ret EXCEPT ![t] = RefusalOf(s)]
      BY Zenon, <2>3 DEF WakeAsLoser, LeaveWith
    <3>2. m.weak = l.weak \ {t} /\ m.abandoned = l.abandoned \ {t}
      BY ZenonT(40), <1>0, LockSets
    <3>3. pc'[t] = "leave" /\ ret'[t] = RefusalOf(s)
      BY Zenon, <1>0, <3>1
    <3>4. OpOf(t)' = OpOf(t)
      BY Zenon, <1>1, <3>1, <3>3 DEF OpOf
    <3> HIDE DEF m, l, s
    <3> QED BY Zenon, <1>0, <1>2, <3>1, <3>2, <3>4
  <2>4. CASE WakeAsHolder(t)
    <3> DEFINE m == WakeAcquire(l, t)
    <3>1. /\ lock' = [lock EXCEPT ![s] = m] /\ pc[t] = "asleep" /\ t \in l.signalled
          /\ pc' = [pc EXCEPT ![t] = "crit"] /\ ret' = [ret EXCEPT ![t] = ret[t]]
      BY Zenon, <1>0, <2>4 DEF WakeAsHolder
    <3>2. m.weak = l.weak \ {t} /\ m.abandoned = l.abandoned
      BY ZenonT(40), <1>0, LockSets
    <3>3. t \notin l.abandoned
      BY Zenon, <1>0, <3>1 DEF LockOK
    <3>4. OpOf(t)' = OpOf(t)
      BY SMTT(40), <1>0, <1>1, <3>1, <3>3 DEF OpOf
    <3> HIDE DEF m, l, s
    <3> QED BY Zenon, <1>0, <1>2, <3>1, <3>2, <3>3, <3>4
  <2>5. CASE UnlockSide(t)
    <3> DEFINE m == Unlock(l)
    <3>1. /\ lock' = [lock EXCEPT ![s] = m] /\ pc[t] = "unlock"
          /\ pc' = [pc EXCEPT ![t] = "leave"] /\ ret' = [ret EXCEPT ![t] = ret[t]]
      BY Zenon, <1>0, <2>5 DEF UnlockSide
    <3>2. m.weak = l.weak /\ m.abandoned = l.abandoned
      BY Zenon, <1>0, LockSets
    <3>3. OpOf(t)' = OpOf(t)
      BY Zenon, <1>0, <1>1, <3>1 DEF OpOf
    <3> HIDE DEF m, l, s
    <3> QED BY ZenonT(40), <1>0, <1>2, <3>1, <3>2, <3>3
  <2> QED BY SMTT(40), <2>1, <2>2, <2>3, <2>4, <2>5
<1>3. \A u \in Threads \ {t} : call'[u] = call[u] /\ ret'[u] = ret[u]
  BY Zenon, <1>0, <1>1
<1>4. ret'[t] = r
  BY Zenon, <1>0
<1> HIDE DEF l
<1>5. Ops' = [Ops EXCEPT ![t] = OpOf(t)']
  BY Zenon, <1>0, <1>3, OpsStep DEF l
<1>6. Ops' = Ops
  BY ZenonT(40), <1>5 DEF Ops
<1>7. RInv'
  BY ZenonT(40), <1>0, <1>1, <1>3, <1>4, RefineStep DEF l
<1> QED BY Zenon, <1>1, <1>6, <1>7 DEF Fifo!vars

(* A call fails: the queue is closed, or there is no memory.               *)
LEMMA FailSteps ==
  ASSUME IInv, RInv, NEW t \in Threads,
         EnterClosed(t) \/ ResumeClosed(t) \/ EnterGrowError(t) \/ LockError(t)
  PROVE  RInv' /\ Fifo!Fail(t)
<1> DEFINE s == call[t].side
           l == lock[s]
<1>0. /\ s \in Sides /\ LockOK(l) /\ l \in FairLocks /\ WeakOK(s)
      /\ lock = [lock EXCEPT ![s] = l]
      /\ t \in l.weak => pc[t] = "asleep"
      /\ pc \in [Threads -> {"idle", "lock", "asleep", "crit", "wait", "unlock", "leave"}]
      /\ ret \in [Threads -> Results]
  BY Zenon, RefineFacts
<1>1. /\ UNCHANGED <<ring, closed, call, late>>
      /\ pc[t] \in {"lock", "crit", "wait"} /\ pc' = [pc EXCEPT ![t] = "leave"]
      /\ \/ closed /\ ret' = [ret EXCEPT ![t] = "closed"]
         \/ ret' = [ret EXCEPT ![t] = "error"]
  BY Zenon DEF EnterClosed, ResumeClosed, EnterGrowError, LockError, GiveUpClosed, LeaveWith
<1>2. PICK m : /\ lock' = [lock EXCEPT ![s] = m]
               /\ m.weak = l.weak /\ m.abandoned = l.abandoned
  <2>1. Unlock(l).weak = l.weak /\ Unlock(l).abandoned = l.abandoned
    BY Zenon, <1>0, LockSets
  <2>2. CASE EnterClosed(t) \/ ResumeClosed(t) \/ EnterGrowError(t)
    <3>1. lock' = [lock EXCEPT ![s] = Unlock(l)]
      BY Zenon, <2>2 DEF EnterClosed, ResumeClosed, EnterGrowError, GiveUpClosed
    <3> QED BY Zenon, <2>1, <3>1
  <2>3. CASE LockError(t)
    <3>1. lock' = [lock EXCEPT ![s] = l]
      BY Zenon, <1>0, <2>3 DEF LockError
    <3> QED BY Zenon, <3>1
  <2> QED BY Zenon, <2>2, <2>3
<1>3. /\ \A u \in Threads \ {t} : call'[u] = call[u] /\ ret'[u] = ret[u]
      /\ ret'[t] \in {"closed", "error"} /\ (ret'[t] = "closed" => closed)
  BY Zenon, <1>0, <1>1
<1>4. l.abandoned \subseteq l.weak
  BY ZenonT(40), <1>0 DEF WeakOK
<1>5. RInv'
  BY ZenonT(40), <1>0, <1>1, <1>2, <1>3, <1>4, RefineStep
<1>6. Ops' = [Ops EXCEPT ![t] = OpOf(t)']
  BY Zenon, <1>0, <1>1, <1>2, <1>3, OpsStep
<1>7. OpOf(t)' = [stage |-> "done", element |-> call[t].element, result |-> ret'[t]]
  BY Zenon, <1>0, <1>1 DEF OpOf
<1>8. Ops[t] = [stage |-> "pending", side |-> s, async |-> call[t].async,
                element |-> call[t].element]
  BY Zenon, <1>1, OpAt DEF Ops
<1>9. Fifo!Fail(t)
  <2>1. Ops[t].stage = "pending" /\ Ops[t].element = call[t].element
    BY <1>8
  <2>2. Ops' = [Ops EXCEPT ![t] = [stage |-> "done", element |-> Ops[t].element,
                                   result |-> ret'[t]]]
    BY Zenon, <1>6, <1>7, <2>1
  <2>3. Contents(ring)' = Contents(ring) /\ (~closed)' = ~closed
    BY Zenon, <1>1
  <2>4. ret'[t] = "closed" \/ ret'[t] = "error"
    BY Zenon, <1>3
  <2> HIDE DEF s, l
  <2> QED BY ZenonT(30), <1>3, <2>1, <2>2, <2>3, <2>4 DEF Fifo!Fail, Fifo!Done
<1> QED BY Zenon, <1>5, <1>9

(* What Exhausted says of the elements in the queue.                       *)
LEMMA ExhaustedItems ==
  ASSUME IInv, RInv, NEW s \in Sides, Exhausted(s), is_boundless => s = "get"
  PROVE  IF s = "add" THEN ~is_boundless /\ Len(Contents(ring)) = Capacity
                      ELSE Contents(ring) = <<>>
<1>1. /\ ring.queue_size \in Nat
      /\ Contents(ring) = [i \in 1 .. ring.queue_size |->
                             ring.queue[(ring.queue_front + i - 1) % ring.queue_capacity]]
  BY DEF IInv, TypeOK, IsRing, FieldsOK, Contents
<1>2. CASE s = "add"
  <2>1. ~is_boundless /\ ring.queue_size = Capacity
    BY Zenon, <1>2 DEF RInv, Exhausted
  <2>2. Len(Contents(ring)) = ring.queue_size
    BY <1>1
  <2> QED BY Zenon, <1>2, <2>1, <2>2
<1>3. CASE s # "add"
  <2>1. ring.queue_size = 0
    BY Zenon, <1>3 DEF Exhausted
  <2> QED BY SMTT(40), <1>1, <1>3, <2>1
<1> QED BY Zenon, <1>2, <1>3

(* Some weak calls of an exhausted side are turned away.                   *)
LEMMA RefuseSim ==
  ASSUME IInv, RInv, NEW s \in Sides, Exhausted(s), is_boundless => s = "get",
         UNCHANGED <<ring, closed>>,
         \A u \in Threads :
           \/ OpOf(u)' = OpOf(u)
           \/ /\ OpOf(u) = [stage |-> "pending", side |-> s, async |-> TRUE,
                            element |-> call[u].element]
              /\ OpOf(u)' = [stage |-> "done", element |-> call[u].element,
                             result |-> RefusalOf(s)]
  PROVE  Fifo!Refuse(s)
<1> DEFINE R == {u \in Threads : OpOf(u)' # OpOf(u)}
<1>1. R \in SUBSET {u \in Threads : Fifo!IsPending(u, s) /\ Ops[u].async}
  BY DEF Ops, Fifo!IsPending
<1>2. Ops' = [u \in Threads |->
                IF u \in R THEN [stage |-> "done", element |-> Ops[u].element,
                                 result |-> IF s = "add" THEN "full" ELSE "empty"]
                ELSE Ops[u]]
  <2>1. Ops' = [u \in Threads |-> OpOf(u)']
    BY Zenon DEF Ops
  <2>2. ASSUME NEW u \in Threads
        PROVE  OpOf(u)' = IF u \in R THEN [stage |-> "done", element |-> Ops[u].element,
                                           result |-> IF s = "add" THEN "full" ELSE "empty"]
                          ELSE Ops[u]
    BY DEF Ops, RefusalOf
  <2> QED BY Zenon, <2>1, <2>2
<1>3. IF s = "add" THEN ~is_boundless /\ Len(Contents(ring)) = Capacity
                   ELSE Contents(ring) = <<>>
  BY Zenon, ExhaustedItems
<1> HIDE DEF R
<1> QED BY ZenonT(40), <1>1, <1>2, <1>3 DEF Fifo!Refuse

(* BlockWeak decides the weak calls that are queued.                       *)
LEMMA RefuseSteps ==
  ASSUME IInv, RInv, NEW t \in Threads, LockRefused(t) \/ EnterRefused(t) \/ EnterWait(t)
  PROVE  RInv' /\ Fifo!Refuse(call[t].side)
<1> DEFINE s == call[t].side
           l == lock[s]
<1>0. /\ s \in Sides /\ LockOK(l) /\ l \in FairLocks /\ WeakOK(s)
      /\ lock = [lock EXCEPT ![s] = l]
      /\ lock \in [Sides -> FairLocks]
      /\ t \in l.weak => pc[t] = "asleep"
      /\ t \in late => closed
      /\ call[t].async \in BOOLEAN
      /\ pc \in [Threads -> {"idle", "lock", "asleep", "crit", "wait", "unlock", "leave"}]
      /\ call \in [Threads -> Calls]
      /\ ret \in [Threads -> Results]
  BY Zenon, RefineFacts DEF IInv, TypeOK
<1>1. /\ UNCHANGED <<ring, closed, call, late>>
      /\ pc[t] \in {"lock", "crit"}
  BY Zenon DEF LockRefused, EnterRefused, EnterWait
<1>2. Exhausted(s) /\ (is_boundless => s = "get")
  <2>1. CASE LockRefused(t)
    BY Zenon, <2>1, SideFacts DEF LockRefused, RefusesWeak
  <2>2. CASE EnterRefused(t) \/ EnterWait(t)
    BY Zenon, <1>0, <2>2 DEF EnterRefused, EnterWait, Blocks, Sides
  <2> QED BY Zenon, <2>1, <2>2
<1>3. PICK p : /\ pc' = [pc EXCEPT ![t] = p]
               /\ \/ p = "wait" /\ ret' = ret /\ ~closed
                  \/ /\ p = "leave" /\ call[t].async
                     /\ ret' = [ret EXCEPT ![t] = RefusalOf(s)]
  <2>1. CASE LockRefused(t)
    <3>1. /\ pc' = [pc EXCEPT ![t] = "leave"] /\ call[t].async
          /\ ret' = [ret EXCEPT ![t] = RefusalOf(s)]
      BY Zenon, <2>1 DEF LockRefused, LeaveWith, RefusesWeak
    <3> QED BY Zenon, <3>1
  <2>2. CASE EnterRefused(t)
    <3>1. /\ pc' = [pc EXCEPT ![t] = "leave"] /\ call[t].async
          /\ ret' = [ret EXCEPT ![t] = RefusalOf(s)]
      BY Zenon, <2>2 DEF EnterRefused, LeaveWith
    <3> QED BY Zenon, <3>1
  <2>3. CASE EnterWait(t)
    <3>1. pc' = [pc EXCEPT ![t] = "wait"] /\ ret' = ret /\ ~closed
      BY Zenon, <2>3 DEF EnterWait, Blocks
    <3> QED BY Zenon, <3>1
  <2> QED BY Zenon, <2>1, <2>2, <2>3
<1>4. PICK m : /\ lock' = [lock EXCEPT ![s] = m] /\ m.weak = l.weak
               /\ m.abandoned = l.abandoned \/ m.abandoned = l.abandoned \cup (l.queue \cap l.weak)
  <2> DEFINE b == BlockedLock(s)
  <2>0. /\ b \in FairLocks /\ b.weak = l.weak
        /\ b.abandoned = l.abandoned \/ b.abandoned = l.abandoned \cup (l.queue \cap l.weak)
    <3>1. BlockWeak(l).weak = l.weak
          /\ BlockWeak(l).abandoned = l.abandoned \cup (l.queue \cap l.weak)
      BY Zenon, <1>0, LockSets
    <3>2. b = l \/ b = BlockWeak(l)
      BY Zenon DEF BlockedLock
    <3>3. b \in FairLocks
      BY Zenon, <1>0, BlockedLockOK
    <3> HIDE DEF b
    <3> QED BY ZenonT(40), <3>1, <3>2, <3>3
  <2>1. CASE LockRefused(t)
    <3>1. lock' = [lock EXCEPT ![s] = l]
      BY Zenon, <1>0, <2>1 DEF LockRefused
    <3> QED BY Zenon, <3>1
  <2>2. CASE EnterRefused(t)
    <3>1. lock' = [lock EXCEPT ![s] = Unlock(b)]
      BY Zenon, <2>2 DEF EnterRefused
    <3> HIDE DEF b
    <3>2. Unlock(b).weak = b.weak /\ Unlock(b).abandoned = b.abandoned
      BY Zenon, <2>0, LockSets
    <3> QED BY Zenon, <2>0, <3>1, <3>2
  <2>3. CASE EnterWait(t)
    <3>1. lock' = [lock EXCEPT ![s] = b]
      BY Zenon, <2>3 DEF EnterWait
    <3> HIDE DEF b
    <3> QED BY Zenon, <2>0, <3>1
  <2> QED BY Zenon, <2>1, <2>2, <2>3
<1>5. \A u \in Threads \ {t} : call'[u] = call[u] /\ ret'[u] = ret[u] /\ pc'[u] = pc[u]
  BY Zenon, <1>0, <1>1, <1>3
<1>6. /\ l.abandoned \subseteq l.weak
      /\ \A u \in l.weak : pc[u] = "asleep" /\ call[u].side = s /\ call[u].async
  BY Zenon, <1>0 DEF WeakOK
<1>7. pc'[t] = p /\ (p = "leave" => ret'[t] = RefusalOf(s) /\ call[t].async)
  BY ZenonT(40), <1>0, <1>3
<1>8. RInv'
  <2>1. m.abandoned \subseteq m.weak /\ t \notin m.weak
    BY Zenon, <1>0, <1>1, <1>4, <1>6
  <2>2. t \in late => p = "leave"
    BY Zenon, <1>0, <1>3
  <2> HIDE DEF l
  <2> QED BY ZenonT(40), <1>0, <1>1, <1>3, <1>4, <1>5, <1>7, <2>1, <2>2, RefineStep DEF l
<1>9. ASSUME NEW u \in Threads
      PROVE  \/ OpOf(u)' = OpOf(u)
             \/ /\ OpOf(u) = [stage |-> "pending", side |-> s, async |-> TRUE,
                              element |-> call[u].element]
                /\ OpOf(u)' = [stage |-> "done", element |-> call[u].element,
                               result |-> RefusalOf(s)]
  <2>0. call[u].side \in Sides /\ call[u].async \in BOOLEAN
    BY Zenon, <1>0 DEF Calls
  <2>1. CASE u = t
    <3>1. OpOf(t) = [stage |-> "pending", side |-> s, async |-> call[t].async,
                     element |-> call[t].element]
      BY Zenon, <1>1, OpAt
    <3>2. CASE p = "leave"
      <4>1. call[t].async = TRUE
        BY SMTT(40), <1>0, <1>7, <3>2
      <4>2. OpOf(t)' = [stage |-> "done", element |-> call[t].element, result |-> RefusalOf(s)]
        BY SMTT(40), <1>1, <1>7, <3>2 DEF OpOf
      <4> HIDE DEF s
      <4> QED BY ZenonT(40), <2>1, <3>1, <4>1, <4>2
    <3>3. CASE p = "wait"
      BY SMTT(40), <1>1, <1>7, <2>1, <3>1, <3>3 DEF OpOf
    <3> QED BY Zenon, <1>3, <3>2, <3>3
  <2>2. CASE u # t
    <3>1. pc'[u] = pc[u] /\ call'[u] = call[u] /\ ret'[u] = ret[u]
      BY Zenon, <1>5, <2>2
    <3>2. CASE u \in lock'[call[u].side].abandoned <=> u \in lock[call[u].side].abandoned
      BY Zenon, <3>1, <3>2 DEF OpOf, RefusalOf
    <3>3. CASE ~(u \in lock'[call[u].side].abandoned <=> u \in lock[call[u].side].abandoned)
      <4>1. call[u].side = s
        BY SMTT(40), <1>0, <1>4, <2>0, <3>3
      <4>2. u \in l.weak /\ u \notin l.abandoned /\ u \in m.abandoned
        BY SMTT(40), <1>0, <1>4, <3>3, <4>1
      <4>3. pc[u] = "asleep" /\ call[u].async = TRUE /\ u \in lock'[call[u].side].abandoned
        BY SMTT(40), <1>0, <1>4, <1>6, <2>0, <4>1, <4>2
      <4>4. OpOf(u) = [stage |-> "pending", side |-> s, async |-> TRUE, element |-> call[u].element]
        BY SMTT(40), <4>1, <4>2, <4>3, OpAt
      <4>5. OpOf(u)' = [stage |-> "done", element |-> call[u].element, result |-> RefusalOf(s)]
        BY SMTT(40), <3>1, <4>1, <4>3 DEF OpOf, RefusalOf
      <4> QED BY ZenonT(40), <4>4, <4>5
    <3> QED BY Zenon, <3>2, <3>3
  <2> QED BY Zenon, <2>1, <2>2
<1>10. Fifo!Refuse(s)
  <2> HIDE DEF s
  <2> QED BY SMTT(40), <1>0, <1>1, <1>2, <1>9, RefuseSim
<1> QED BY Zenon, <1>8, <1>10

(* An element goes in or out of r, which holds what the ring holds.        *)
LEMMA ProceedSim ==
  ASSUME IInv, RInv, NEW t \in Threads, NEW r, Proceed(t, r),
         pc[t] \in {"crit", "wait"}, ~closed,
         IsRing(r), Contents(r) = Contents(ring),
         ~is_boundless => r.queue_capacity = ring.queue_capacity,
         IF call[t].side = "add"
         THEN r.queue_size < r.queue_capacity /\ (~is_boundless => Len(Contents(ring)) < Capacity)
         ELSE r.queue_size # 0
  PROVE  RInv' /\ (Fifo!Add(t) \/ Fifo!Get(t))
<1> DEFINE s == call[t].side
           o == Other(s)
           l == lock[o]
           m == IF weak_blocked[o] THEN AllowWeak(l) ELSE l
<1>0. /\ s \in Sides /\ o \in Sides /\ l \in FairLocks
      /\ pc \in [Threads -> {"idle", "lock", "asleep", "crit", "wait", "unlock", "leave"}]
      /\ call \in [Threads -> Calls]
      /\ ret \in [Threads -> Results]
      /\ call[t].element \in Elements \cup {Junk}
  BY Zenon DEF IInv, TypeOK, Calls, Sides, Other
<1>1. /\ lock' = [lock EXCEPT ![o] = m]
      /\ pc' = [pc EXCEPT ![t] = "unlock"]
      /\ ret' = [ret EXCEPT ![t] = "ok"]
      /\ UNCHANGED <<closed, late>>
  BY Zenon DEF Proceed
<1>2. m.weak = l.weak /\ m.abandoned = l.abandoned
  <2>1. AllowWeak(l).weak = l.weak /\ AllowWeak(l).abandoned = l.abandoned
    BY Zenon, <1>0, LockSets
  <2> QED BY Zenon, <2>1
<1> HIDE DEF m
<1>3. WeakOK(o) /\ l.abandoned \subseteq l.weak /\ t \notin l.weak /\ t \notin late
  BY Zenon, <1>0 DEF RInv, WeakOK, LateOK
<1>4. /\ \A u \in Threads \ {t} : call'[u] = call[u] /\ ret'[u] = ret[u]
      /\ pc'[t] = "unlock" /\ ret'[t] = "ok"
  <2>1. CASE s = "add"
    BY SMTT(40), <1>0, <1>1, <2>1 DEF Proceed
  <2>2. CASE s # "add"
    <3>1. call' = [call EXCEPT ![t].element = front_element(r)]
      BY Zenon, <2>2 DEF Proceed
    <3> QED BY SMTT(40), <1>0, <1>1, <3>1
  <2> QED BY Zenon, <2>1, <2>2
<1>5. ~is_boundless => ring'.queue_capacity = ring.queue_capacity
  <2>1. CASE s = "add"
    <3>1. ring' = enqueue(r, call[t].element) /\ r.queue_size < r.queue_capacity
      BY ZenonT(40), <2>1 DEF Proceed
    <3>2. enqueue(r, call[t].element).queue_capacity = r.queue_capacity
      BY Zenon, <1>0, <3>1, EnqueueRing
    <3> QED BY Zenon, <3>1, <3>2
  <2>2. CASE s # "add"
    BY <1>0, <2>2, DequeueRing DEF Proceed
  <2> QED BY Zenon, <2>1, <2>2
<1>6. RInv'
  <2> HIDE DEF l, o
  <2> QED BY ZenonT(40), <1>0, <1>1, <1>2, <1>3, <1>4, <1>5, RefineStep DEF l
<1>7. Ops' = [Ops EXCEPT ![t] = OpOf(t)']
  <2> HIDE DEF l, o
  <2> QED BY ZenonT(40), <1>0, <1>1, <1>2, <1>4, OpsStep DEF l
<1>8. OpOf(t)' = [stage |-> "done", element |-> call'[t].element, result |-> "ok"]
  BY Zenon, <1>4 DEF OpOf
<1>9. Ops[t] = [stage |-> "pending", side |-> s, async |-> call[t].async,
                element |-> call[t].element]
  BY Zenon, OpAt DEF Ops
<1>10. CASE s = "add"
  <2>1. ring' = enqueue(r, call[t].element) /\ call' = call
    BY Zenon, <1>10 DEF Proceed
  <2>2. Contents(ring') = Append(Contents(ring), call[t].element)
    BY SMTT(40), <1>0, <1>10, <2>1, ContentsEnqueue
  <2>3. ~is_boundless => Len(Contents(ring)) < Capacity
    BY Zenon, <1>10
  <2>4. Ops[t].stage = "pending" /\ Ops[t].side = "add" /\ Ops[t].element = call[t].element
    BY SMTT(40), <1>9, <1>10
  <2>5. Ops' = [Ops EXCEPT ![t] = [stage |-> "done", element |-> Ops[t].element, result |-> "ok"]]
    BY SMTT(40), <1>7, <1>8, <2>1, <2>4
  <2> HIDE DEF s
  <2>6. Fifo!Add(t)
    BY SMTT(40), <1>1, <2>2, <2>3, <2>4, <2>5 DEF Fifo!Add, Fifo!IsPending, Fifo!Done
  <2> QED BY Zenon, <1>6, <2>6
<1>11. CASE s # "add"
  <2>1. ring' = dequeue(r) /\ call' = [call EXCEPT ![t].element = front_element(r)]
    BY Zenon, <1>11 DEF Proceed
  <2>2. /\ Contents(ring) # <<>> /\ Contents(ring') = Tail(Contents(ring))
        /\ front_element(r) = Head(Contents(ring))
    BY SMTT(40), <1>11, <2>1, ContentsDequeue
  <2>3. call'[t].element = Head(Contents(ring))
    BY SMTT(40), <1>0, <2>1, <2>2 DEF Calls
  <2>4. Ops[t].stage = "pending" /\ Ops[t].side = "get"
    BY SMTT(40), <1>0, <1>9, <1>11 DEF Sides
  <2>5. Ops' = [Ops EXCEPT ![t] = [stage |-> "done", element |-> Head(Contents(ring)),
                                   result |-> "ok"]]
    BY SMTT(40), <1>7, <1>8, <2>3
  <2> HIDE DEF s
  <2>6. Fifo!Get(t)
    BY SMTT(40), <1>1, <2>2, <2>4, <2>5 DEF Fifo!Get, Fifo!IsPending, Fifo!Done
  <2> QED BY Zenon, <1>6, <2>6
<1> QED BY Zenon, <1>10, <1>11

LEMMA ProceedSteps ==
  ASSUME IInv, RInv, NEW t \in Threads, EnterReady(t) \/ EnterGrow(t) \/ ResumeReady(t)
  PROVE  RInv' /\ (Fifo!Add(t) \/ Fifo!Get(t))
<1> DEFINE s == call[t].side
<1>0. /\ IsRing(ring)
      /\ ring.queue_size \in 0 .. ring.queue_capacity /\ ring.queue_capacity \in Nat \ {0}
      /\ Len(Contents(ring)) = ring.queue_size
      /\ ~is_boundless => ring.queue_capacity = Capacity
  BY SMTT(40) DEF IInv, TypeOK, RInv, IsRing, FieldsOK, Contents
<1>1. CASE EnterReady(t) \/ ResumeReady(t)
  <2>1. pc[t] \in {"crit", "wait"} /\ ~closed /\ Proceed(t, ring) /\ ~Exhausted(s)
    BY ZenonT(40), <1>1 DEF EnterReady, ResumeReady, IInv, WaitersOK
  <2>2. IF s = "add"
        THEN ring.queue_size < ring.queue_capacity /\ (~is_boundless => Len(Contents(ring)) < Capacity)
        ELSE ring.queue_size # 0
    BY SMTT(40), <1>0, <2>1 DEF Exhausted
  <2> QED BY SMTT(40), <1>0, <2>1, <2>2, ProceedSim
<1>2. CASE EnterGrow(t)
  <2>1. /\ pc[t] = "crit" /\ ~closed /\ Proceed(t, grow_queue(ring))
        /\ is_boundless /\ s = "add" /\ ring.queue_size = ring.queue_capacity
    BY Zenon, <1>2 DEF EnterGrow, Exhausted
  <2>2. /\ IsRing(grow_queue(ring)) /\ grow_queue(ring).queue_size = ring.queue_size
        /\ grow_queue(ring).queue_capacity = 2 * ring.queue_capacity
    BY ZenonT(40), <1>0, <2>1, GrowRing
  <2>3. grow_queue(ring).queue_size < grow_queue(ring).queue_capacity
    BY SMTT(40), <1>0, <2>1, <2>2
  <2>4. Contents(grow_queue(ring)) = Contents(ring)
    BY SMTT(40), <1>0, <2>1, ContentsGrow
  <2> QED BY SMTT(40), <2>1, <2>2, <2>3, <2>4, ProceedSim
<1> QED BY SMTT(40), <1>1, <1>2

LEMMA CallSim ==
  ASSUME IInv, RInv, NEW t \in Threads, NEW s \in Sides, NEW async \in BOOLEAN,
         NEW e \in Elements \cup {Junk}, Call(t, s, async, e)
  PROVE  RInv' /\ Fifo!Invoke(t)
<1> DEFINE c == [side |-> s, async |-> async, element |-> e]
<1>0. /\ pc \in [Threads -> {"idle", "lock", "asleep", "crit", "wait", "unlock", "leave"}]
      /\ call \in [Threads -> Calls] /\ late \subseteq Threads
      /\ lock \in [Sides -> FairLocks]
  BY Zenon DEF IInv, TypeOK
<1>1. /\ pc[t] = "idle" /\ pc' = [pc EXCEPT ![t] = "lock"]
      /\ call' = [call EXCEPT ![t] = c]
      /\ late' = IF closed THEN late \cup {t} ELSE late
      /\ UNCHANGED <<lock, ring, closed, ret>>
  BY Zenon DEF Call
<1> HIDE DEF c
<1>2. /\ \A u \in Threads \ {t} : pc'[u] = pc[u] /\ call'[u] = call[u]
      /\ pc'[t] = "lock" /\ call'[t] = c
  BY ZenonT(40), <1>0, <1>1
<1>3. ASSUME NEW x \in Sides PROVE WeakOK(x)'
  <2>1. WeakOK(x) /\ lock[x].weak \subseteq Threads
    BY Zenon, <1>0 DEF RInv, FairLocks
  <2>2. \A u \in lock[x].weak : u # t
    BY Zenon, <1>1, <2>1 DEF WeakOK
  <2> QED BY SMTT(40), <1>1, <1>2, <2>1, <2>2 DEF WeakOK
<1>4. LateOK'
  <2>1. \A u \in late' : u # t => u \in late
    BY Zenon, <1>1
  <2>2. late' # {} => closed
    BY Zenon, <1>1 DEF RInv, LateOK
  <2> QED BY SMTT(40), <1>0, <1>1, <1>2, <2>1, <2>2 DEF RInv, LateOK, RefusalOf
<1>5. RInv'
  BY SMTT(40), <1>1, <1>3, <1>4 DEF RInv, is_boundless
<1>6. Ops' = [Ops EXCEPT ![t] = OpOf(t)']
  <2>1. ASSUME NEW u \in Threads, u # t PROVE OpOf(u)' = OpOf(u)
    BY SMTT(40), <1>1, <1>2, <2>1 DEF OpOf, RefusalOf
  <2> QED BY Zenon, <2>1 DEF Ops
<1>7. OpOf(t)' = [stage |-> "pending", side |-> s, async |-> async, element |-> e]
  BY <1>2 DEF OpOf, c
<1>8. OpOf(t)' \in Fifo!Pending
  BY <1>7 DEF Fifo!Pending, Sides
<1>9. Ops[t] = Fifo!None
  BY Zenon, <1>1, OpAt DEF Ops, Fifo!None
<1>10. Fifo!Invoke(t)
  BY Zenon, <1>1, <1>6, <1>8, <1>9 DEF Fifo!Invoke
<1> QED BY Zenon, <1>5, <1>10

LEMMA LeaveSim ==
  ASSUME IInv, RInv, NEW t \in Threads, Leave(t)
  PROVE  RInv' /\ Fifo!Return(t)
<1> DEFINE s == call[t].side
           m == lock[s]
<1>0. /\ s \in Sides /\ WeakOK(s) /\ lock = [lock EXCEPT ![s] = m]
      /\ t \in m.weak => pc[t] = "asleep"
      /\ pc \in [Threads -> {"idle", "lock", "asleep", "crit", "wait", "unlock", "leave"}]
      /\ call \in [Threads -> Calls] /\ ret \in [Threads -> Results]
  BY Zenon, RefineFacts
<1>1. /\ pc[t] = "leave" /\ pc' = [pc EXCEPT ![t] = "idle"]
      /\ call' = [call EXCEPT ![t] = NoCall]
      /\ ret' = [ret EXCEPT ![t] = "none"]
      /\ UNCHANGED <<ring, closed, late>>
  BY Zenon DEF Leave
<1>2. \A u \in Threads \ {t} : call'[u] = call[u] /\ ret'[u] = ret[u]
  BY Zenon, <1>0, <1>1
<1>3. m.abandoned \subseteq m.weak /\ t \notin m.weak
  BY Zenon, <1>0, <1>1 DEF WeakOK
<1>4. lock' = [lock EXCEPT ![s] = m]
  BY Zenon, <1>0 DEF Leave
<1>5. s \in Sides /\ m = lock[s]
  BY Zenon, <1>0
<1> HIDE DEF s, m
<1>6. RInv'
  BY ZenonT(40), <1>1, <1>2, <1>3, <1>4, <1>5, RefineStep
<1>7. Ops' = [Ops EXCEPT ![t] = OpOf(t)']
  BY ZenonT(40), <1>1, <1>2, <1>4, <1>5, OpsStep
<1>8. OpOf(t)' = Fifo!None
  BY ZenonT(40), <1>0, <1>1 DEF OpOf, Fifo!None
<1>9. Ops[t].stage = "done"
  BY SMTT(40), <1>1, OpAt DEF Ops
<1>10. Fifo!Return(t)
  BY SMTT(40), <1>1, <1>7, <1>8, <1>9 DEF Fifo!Return
<1> QED BY Zenon, <1>6, <1>10

LEMMA CloserSim ==
  ASSUME IInv, RInv, NEW c \in Closers, CloseMark(c) \/ CloseStep(c)
  PROVE  RInv' /\ (Fifo!Close \/ UNCHANGED Fifo!vars)
<1>1. UNCHANGED <<lock, ring, pc, call, ret, late>>
  BY Zenon DEF CloseMark, CloseStep, CloseWait, CloseReturn, Free
<1>2. closed \in BOOLEAN /\ (closed' = TRUE \/ closed' = closed)
  BY Zenon DEF IInv, TypeOK, CloseMark, CloseStep, CloseWait, CloseReturn, Free
<1>3. RInv'
  <2>1. \A s \in Sides : WeakOK(s)'
    BY <1>1 DEF RInv, WeakOK
  <2>2. LateOK'
    BY Zenon, <1>1, <1>2 DEF RInv, LateOK, RefusalOf
  <2> QED BY ZenonT(40), <1>1, <2>1, <2>2 DEF RInv, is_boundless
<1>4. Ops' = Ops
  <2>1. ASSUME NEW u \in Threads PROVE OpOf(u)' = OpOf(u)
    BY Zenon, <1>1 DEF OpOf, RefusalOf
  <2> QED BY Zenon, <2>1 DEF Ops
<1>5. Fifo!Close \/ UNCHANGED Fifo!vars
  <2>1. CASE closed' = closed
    BY Zenon, <1>1, <1>4, <2>1 DEF Fifo!vars
  <2>2. CASE closed' # closed
    BY ZenonT(40), <1>1, <1>2, <1>4, <2>2 DEF Fifo!Close
  <2> QED BY Zenon, <2>1, <2>2
<1> QED BY Zenon, <1>3, <1>5

(* RInv is inductive relative to IInv, and every step of the queue is a    *)
(* step of the abstract queue or none.                                     *)
LEMMA RefineNext == IInv /\ RInv /\ [Next]_vars => RInv' /\ [Fifo!Next]_(Fifo!vars)
<1> SUFFICES ASSUME IInv, RInv, [Next]_vars PROVE RInv' /\ [Fifo!Next]_(Fifo!vars)
  BY SMTT(40)
<1>1. ASSUME NEW t \in Threads, Step(t)
      PROVE  /\ RInv'
             /\ \/ UNCHANGED Fifo!vars
                \/ Fifo!Fail(t) \/ Fifo!Add(t) \/ Fifo!Get(t) \/ Fifo!Return(t)
                \/ Fifo!Refuse(call[t].side)
  <2>1. CASE LockFree(t) \/ LockWait(t) \/ WakeAsLoser(t) \/ WakeAsHolder(t) \/ UnlockSide(t)
    BY Zenon, <2>1, QuietSteps
  <2>2. CASE EnterClosed(t) \/ ResumeClosed(t) \/ EnterGrowError(t) \/ LockError(t)
    BY Zenon, <2>2, FailSteps
  <2>3. CASE LockRefused(t) \/ EnterRefused(t) \/ EnterWait(t)
    BY Zenon, <2>3, RefuseSteps
  <2>4. CASE EnterReady(t) \/ EnterGrow(t) \/ ResumeReady(t)
    BY Zenon, <2>4, ProceedSteps
  <2>5. CASE Leave(t)
    BY Zenon, <2>5, LeaveSim
  <2> QED BY SMTT(40), <1>1, <2>1, <2>2, <2>3, <2>4, <2>5 DEF Step
<1>2. ASSUME NEW t \in Threads PROVE call[t].side \in {"add", "get"}
  BY Zenon DEF IInv, TypeOK, Calls, Sides
<1>3. ASSUME NEW t \in Threads, NEW s \in Sides, NEW async \in BOOLEAN,
             NEW e \in Elements \cup {Junk}, Call(t, s, async, e)
      PROVE  RInv' /\ Fifo!Invoke(t)
  BY Zenon, <1>3, CallSim
<1>4. ASSUME NEW c \in Closers, CloseMark(c) \/ CloseStep(c)
      PROVE  RInv' /\ (Fifo!Close \/ UNCHANGED Fifo!vars)
  BY Zenon, <1>4, CloserSim
<1>5. CASE UNCHANGED vars
  <2>1. \A s \in Sides : WeakOK(s)'
    BY <1>5 DEF vars, RInv, WeakOK
  <2>2. LateOK'
    BY Zenon, <1>5 DEF vars, RInv, LateOK, RefusalOf
  <2>3. RInv'
    BY Zenon, <1>5, <2>1, <2>2 DEF vars, RInv, is_boundless
  <2>4. ASSUME NEW u \in Threads PROVE OpOf(u)' = OpOf(u)
    BY Zenon, <1>5 DEF vars, OpOf, RefusalOf
  <2>5. Ops' = Ops
    BY Zenon, <2>4 DEF Ops
  <2> QED BY SMTT(40), <1>5, <2>3, <2>5 DEF vars, Fifo!vars
<1>6. CASE \E t \in Threads : Step(t)
  <2>1. PICK t \in Threads : Step(t)
    BY Zenon, <1>6
  <2> QED BY ZenonT(30), <1>1, <1>2, <2>1 DEF Fifo!Next
<1>7. CASE \E t \in Threads, s \in Sides, async \in BOOLEAN, e \in Elements \cup {Junk} :
             Call(t, s, async, e)
  <2>1. RInv' /\ \E t \in Threads : Fifo!Invoke(t)
    BY Zenon, <1>3, <1>7
  <2> QED BY ZenonT(30), <2>1 DEF Fifo!Next
<1>8. CASE \E c \in Closers : CloseMark(c) \/ CloseStep(c)
  BY ZenonT(30), <1>4, <1>8 DEF Fifo!Next
<1> QED BY SMTT(40), <1>5, <1>6, <1>7, <1>8 DEF Next

(* A call made on a closed queue never gets to change it.                  *)
THEOREM ClosedHolds == Spec => []ClosedCallsAreRefused
<1>1. RInv => ClosedCallsAreRefused
  BY Zenon DEF RInv, LateOK, ClosedCallsAreRefused
<1> QED BY <1>1, QueueInit, QueueNext, RefineInit, RefineNext, PTL DEF Spec

(* The blocking queue implements the atomic bounded FIFO queue.            *)
THEOREM QueueIsFifo == Spec => ImplementsFifo
<1>1. Init => Fifo!Init
  <2> SUFFICES ASSUME Init PROVE Fifo!Init
    OBVIOUS
  <2>1. Contents(ring) = <<>>
    <3>1. ring.queue_size = 0
      BY Zenon DEF Init, RingInit
    <3> QED BY <3>1 DEF Contents
  <2>2. ASSUME NEW t \in Threads PROVE OpOf(t) = Fifo!None
    BY Zenon DEF Init, OpOf, Fifo!None
  <2> QED BY Zenon, <2>1, <2>2 DEF Init, Fifo!Init, Ops
<1> QED BY <1>1, QueueInit, QueueNext, RefineInit, RefineNext, PTL DEF Spec, ImplementsFifo, Fifo!Spec
=============================================================================
