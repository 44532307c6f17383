--------------------------- MODULE FairLockProofs ---------------------------
(***************************************************************************)
(* Safety of the fair lock for every finite set of threads.                *)
(***************************************************************************)
EXTENDS FairLock, QueueLemmas

(* The pairs of "arrived" read on the list: if t slept before u called and *)
(* t is still queued, then u is queued behind it or has been abandoned.    *)
ArrivalOrder ==
  \A p \in arrived :
    /\ pc[p[1]] = "asleep"
    /\ pc[p[2]] = "holds" => p[1] \in lock.abandoned
    /\ pc[p[2]] = "asleep" /\ p[1] \in lock.queue =>
         \/ p[2] \in lock.abandoned
         \/ p[2] \in lock.queue /\ p[1] \in lock.ahead[p[2]]

(* The inductive invariant.  MutualExclusion alone is not inductive: that  *)
(* a woken thread finds the lock free needs the turn to be given to one    *)
(* thread only (LockOK), and that callers queue behind it needs the count  *)
(* of waiting threads to be exact (LockOK again).                          *)
IInv ==
  /\ TypeOK
  /\ LockOK(lock)
  /\ Asleep = Sleepers(lock)
  /\ MutualExclusion
  /\ ArrivalOrder

LEMMA InitIInv == Init => IInv
<1> SUFFICES ASSUME Init PROVE IInv
  OBVIOUS
<1>1. LockOK(lock)
  BY InitOK DEF Init
<1>2. TypeOK /\ MutualExclusion /\ ArrivalOrder /\ Asleep = Sleepers(lock)
  BY <1>1 DEF Init, TypeOK, LockOK, MutualExclusion, ArrivalOrder, Asleep, Sleepers, FairLockInit
<1> QED BY <1>1, <1>2 DEF IInv

LEMMA NextIInv == IInv /\ [Next]_vars => IInv'
<1> SUFFICES ASSUME IInv, [Next]_vars PROVE IInv'
  OBVIOUS
<1> USE ThreadsFinite
<1>0. /\ LockOK(lock)
      /\ lock \in FairLocks
      /\ pc \in [Threads -> {"out", "asleep", "holds"}]
      /\ arrived \subseteq Threads \X Threads
      /\ Asleep = Sleepers(lock)
  BY DEF IInv, TypeOK
<1>1. ASSUME NEW t \in Threads, NEW isWeak \in BOOLEAN, LockFree(t, isWeak)
      PROVE  IInv'
  <2>1. LockOK(lock') /\ Sleepers(lock') = Sleepers(lock)
    BY <1>0, <1>1, AcquireOK DEF LockFree
  <2>2. /\ lock'.is_lock_acquired
        /\ lock'.queue = lock.queue /\ lock'.abandoned = lock.abandoned
        /\ lock'.ahead = lock.ahead /\ lock'.signalled = lock.signalled
    BY <1>0, <1>1 DEF LockFree, Acquire, FairLocks
  <2>3. ~lock.is_lock_acquired
    BY <1>1 DEF LockFree, MustWait
  <2>4. TypeOK' /\ Asleep' = Sleepers(lock')
    BY <1>0, <1>1, <2>1 DEF LockFree, TypeOK, Asleep, Arrive, LockOK
  <2>5. MutualExclusion'
    BY <1>0, <1>1, <2>2, <2>3 DEF LockFree, IInv, MutualExclusion
  <2>6. lock'.queue = {} /\ lock'.signalled = {}
    <3>1. IsFiniteSet(lock.queue \cup lock.signalled)
      BY <1>0, FS_Subset DEF FairLocks
    <3>2. lock.waiting_threads \in Nat /\ ~(lock.waiting_threads > 0)
      BY <1>0, <1>1 DEF LockFree, MustWait, FairLocks
    <3>3. Cardinality(lock.queue \cup lock.signalled) = 0
      BY <1>0, <3>2 DEF LockOK
    <3>4. lock.queue \cup lock.signalled = {}
      BY <3>1, <3>3, FS_EmptySet
    <3> QED BY <2>2, <3>4
  <2>7. ArrivalOrder'
    BY <1>0, <1>1, <2>2, <2>6 DEF LockFree, IInv, ArrivalOrder, Arrive, Asleep, Sleepers
  <2> QED BY <2>1, <2>4, <2>5, <2>7 DEF IInv
<1>2. ASSUME NEW t \in Threads, NEW isWeak \in BOOLEAN, LockWait(t, isWeak)
      PROVE  IInv'
  <2>0. t \notin Sleepers(lock)
    BY <1>0, <1>2 DEF LockWait, Asleep
  <2>1. LockOK(lock') /\ Sleepers(lock') = Sleepers(lock) \cup {t}
    BY <1>0, <1>2, <2>0, EnqueueOK DEF LockWait
  <2>2. /\ lock'.is_lock_acquired = lock.is_lock_acquired
        /\ lock'.queue = lock.queue \cup {t} /\ lock'.abandoned = lock.abandoned
        /\ lock'.ahead = [lock.ahead EXCEPT ![t] = lock.queue]
    BY <1>0, <1>2 DEF LockWait, EnqueueEntry, FairLocks
  <2>3. TypeOK' /\ Asleep' = Sleepers(lock')
    BY <1>0, <1>2, <2>1 DEF LockWait, TypeOK, Asleep, Arrive, LockOK
  <2>4. MutualExclusion'
    BY <1>0, <1>2, <2>2 DEF LockWait, IInv, MutualExclusion
  <2>5. ArrivalOrder'
    <3>1. lock.ahead \in [Threads -> SUBSET Threads]
      BY <1>0 DEF FairLocks
    <3>2. pc' = [pc EXCEPT ![t] = "asleep"] /\ pc[t] = "out" /\ arrived' = Arrive(t)
      BY <1>2 DEF LockWait
    <3> SUFFICES ASSUME NEW p \in arrived'
                 PROVE  /\ pc'[p[1]] = "asleep"
                        /\ pc'[p[2]] = "holds" => p[1] \in lock'.abandoned
                        /\ pc'[p[2]] = "asleep" /\ p[1] \in lock'.queue =>
                             \/ p[2] \in lock'.abandoned
                             \/ p[2] \in lock'.queue /\ p[1] \in lock'.ahead[p[2]]
      BY DEF ArrivalOrder
    <3>3. CASE p \in arrived /\ p[2] # t
      BY <1>0, <2>2, <3>1, <3>2, <3>3 DEF IInv, ArrivalOrder
    <3>4. CASE p \in {<<u, t>> : u \in Asleep}
      BY <1>0, <2>0, <2>2, <3>1, <3>2, <3>4 DEF Asleep
    <3> QED BY <3>2, <3>3, <3>4 DEF Arrive
  <2> QED BY <2>1, <2>3, <2>4, <2>5 DEF IInv
<1>3. ASSUME NEW t \in Threads, Wake(t)
      PROVE  IInv'
  <2>1. CASE t \in lock.abandoned /\ lock' = WakeAbandoned(lock, t) /\ pc' = [pc EXCEPT ![t] = "out"]
    <3>1. LockOK(lock') /\ Sleepers(lock') = Sleepers(lock) \ {t}
      BY <1>0, <2>1, WakeAbandonedOK
    <3>2. /\ lock'.is_lock_acquired = lock.is_lock_acquired
          /\ lock'.queue = lock.queue /\ lock'.abandoned = lock.abandoned \ {t}
          /\ lock'.ahead = lock.ahead
      BY <1>0, <2>1 DEF WakeAbandoned, FairLocks
    <3>3. TypeOK' /\ Asleep' = Sleepers(lock')
      BY <1>0, <1>3, <2>1, <3>1 DEF Wake, TypeOK, Asleep, Forget, LockOK
    <3>4. MutualExclusion'
      BY <1>0, <1>3, <2>1, <3>2 DEF Wake, IInv, MutualExclusion
    <3>5. ArrivalOrder'
      BY <1>0, <1>3, <2>1, <3>2 DEF Wake, IInv, ArrivalOrder, Forget
    <3> QED BY <3>1, <3>3, <3>4, <3>5 DEF IInv
  <2>2. CASE t \in lock.signalled /\ lock' = WakeAcquire(lock, t) /\ pc' = [pc EXCEPT ![t] = "holds"]
    <3>1. LockOK(lock') /\ Sleepers(lock') = Sleepers(lock) \ {t} /\ ~lock.is_lock_acquired
      BY <1>0, <2>2, WakeAcquireOK
    <3>2. /\ lock'.is_lock_acquired
          /\ lock'.queue = lock.queue /\ lock'.abandoned = lock.abandoned
          /\ lock'.ahead = lock.ahead
      BY <1>0, <2>2 DEF WakeAcquire, FairLocks
    <3>3. TypeOK' /\ Asleep' = Sleepers(lock')
      BY <1>0, <1>3, <2>2, <3>1 DEF Wake, TypeOK, Asleep, Forget, LockOK
    <3>4. MutualExclusion'
      BY <1>0, <1>3, <2>2, <3>1, <3>2 DEF Wake, IInv, MutualExclusion
    <3>5. lock.signalled = {t} /\ t \notin lock.queue /\ t \notin lock.abandoned
      BY <1>0, <2>2 DEF LockOK
    <3>6. ArrivalOrder'
      BY <1>0, <1>3, <2>2, <3>2, <3>5 DEF Wake, IInv, ArrivalOrder, Forget, Asleep, Sleepers
    <3> QED BY <3>1, <3>3, <3>4, <3>6 DEF IInv
  <2> QED BY <1>3, <2>1, <2>2 DEF Wake
<1>4. ASSUME NEW t \in Threads, UnlockStep(t)
      PROVE  IInv'
  <2>1. lock.is_lock_acquired /\ \A u \in Threads : pc[u] = "holds" => u = t
    BY <1>4 DEF UnlockStep, IInv, MutualExclusion
  <2>2. LockOK(lock') /\ Sleepers(lock') = Sleepers(lock) /\ ~lock'.is_lock_acquired
    BY <1>0, <1>4, <2>1, UnlockOK DEF UnlockStep
  <2>3. /\ lock'.queue = lock.queue \ Front(lock) /\ lock'.abandoned = lock.abandoned
        /\ \A u \in lock'.queue : lock'.ahead[u] = lock.ahead[u] \ Front(lock)
    BY <1>0, <1>4 DEF UnlockStep, Unlock, Unlink, FairLocks
  <2>4. TypeOK' /\ Asleep' = Sleepers(lock')
    BY <1>0, <1>4, <2>2 DEF UnlockStep, TypeOK, Asleep, LockOK
  <2>5. MutualExclusion'
    BY <1>0, <1>4, <2>1, <2>2 DEF UnlockStep, MutualExclusion
  <2>6. ArrivalOrder'
    BY <1>0, <1>4, <2>3 DEF UnlockStep, IInv, ArrivalOrder, Front
  <2> QED BY <2>2, <2>4, <2>5, <2>6 DEF IInv
<1>5. ASSUME NEW t \in Threads, BlockWeakLocks(t)
      PROVE  IInv'
  <2> DEFINE gone == lock.queue \cap lock.weak
  <2>1. LockOK(lock') /\ Sleepers(lock') = Sleepers(lock)
    BY <1>0, <1>5, BlockWeakOK DEF BlockWeakLocks
  <2>2. /\ lock'.queue = lock.queue \ gone /\ lock'.abandoned = lock.abandoned \cup gone
        /\ lock'.is_lock_acquired = lock.is_lock_acquired
        /\ \A u \in lock'.queue : lock'.ahead[u] = lock.ahead[u] \ gone
    BY <1>0, <1>5 DEF BlockWeakLocks, BlockWeak, Unlink, FairLocks
  <2>3. TypeOK' /\ Asleep' = Sleepers(lock')
    BY <1>0, <1>5, <2>1 DEF BlockWeakLocks, TypeOK, Asleep, LockOK
  <2> HIDE DEF gone
  <2>4. MutualExclusion'
    BY <1>0, <1>5, <2>2 DEF BlockWeakLocks, IInv, MutualExclusion
  <2>5. ArrivalOrder'
    BY <1>0, <1>5, <2>2 DEF BlockWeakLocks, IInv, ArrivalOrder
  <2> QED BY <2>1, <2>3, <2>4, <2>5 DEF IInv
<1>6. ASSUME NEW t \in Threads, AllowWeakLocks(t)
      PROVE  IInv'
  <2>1. LockOK(lock') /\ Sleepers(lock') = Sleepers(lock)
    BY <1>0, <1>6, AllowWeakOK DEF AllowWeakLocks
  <2>2. /\ lock'.queue = lock.queue /\ lock'.abandoned = lock.abandoned
        /\ lock'.ahead = lock.ahead /\ lock'.is_lock_acquired = lock.is_lock_acquired
    BY <1>0, <1>6 DEF AllowWeakLocks, AllowWeak, FairLocks
  <2>3. TypeOK' /\ Asleep' = Sleepers(lock') /\ MutualExclusion' /\ ArrivalOrder'
    BY <1>0, <1>6, <2>1, <2>2
    DEF AllowWeakLocks, IInv, TypeOK, Asleep, LockOK, MutualExclusion, ArrivalOrder
  <2> QED BY <2>1, <2>3 DEF IInv
<1>7. CASE UNCHANGED vars
  BY <1>7 DEF vars, IInv, TypeOK, LockOK, Asleep, Sleepers, MutualExclusion, ArrivalOrder, Ordered
<1> QED
  BY ZenonT(30), <1>1, <1>2, <1>3, <1>4, <1>5, <1>6, <1>7 DEF Next, LockRefused, LockError

(* The fair lock excludes: at any time at most one thread is between       *)
(* fair_lock_lock and fair_lock_unlock, and is_lock_acquired is exact.     *)
THEOREM MutualExclusionHolds == Spec => []MutualExclusion
<1>1. IInv => MutualExclusion
  BY DEF IInv
<1> QED BY <1>1, InitIInv, NextIInv, PTL DEF Spec

(* Type correctness of the lock and of the threads' states.                *)
THEOREM TypeCorrect == Spec => []TypeOK
<1>1. IInv => TypeOK
  BY DEF IInv
<1> QED BY <1>1, InitIInv, NextIInv, PTL DEF Spec

(* FIFO: a thread never holds the lock while one that slept before its     *)
(* call is still waiting for its turn.                                     *)
THEOREM FifoHolds == Spec => []NoOvertaking
<1>1. IInv => NoOvertaking
  BY DEF IInv, ArrivalOrder, NoOvertaking
<1> QED BY <1>1, InitIInv, NextIInv, PTL DEF Spec

(* No wakeup is lost, and waiting_threads is exact, for any set of threads. *)
THEOREM NoLostWakeup == Spec => []SleepersAreServed
<1>1. IInv => SleepersAreServed
  BY DEF IInv, LockOK, SleepersHaveAWaker, CountsServedWaiters, SleepersAreServed
<1> QED BY <1>1, InitIInv, NextIInv, PTL DEF Spec
=============================================================================
