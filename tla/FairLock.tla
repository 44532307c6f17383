------------------------------ MODULE FairLock ------------------------------
(***************************************************************************)
(* Threads that share one Fair_Lock (fair_lock.h).                         *)
(*                                                                         *)
(* Every function body runs under lock->mutex, so it is one step; the only *)
(* place where _fair_lock_lock gives the mutex up is pthread_cond_wait,    *)
(* which splits it into Lock and Wake.                                     *)
(***************************************************************************)
EXTENDS FairLockOps

VARIABLES
  lock,    \* the Fair_Lock
  pc,      \* where a thread is: outside, asleep on its entry, or holding
  arrived  \* history: <<t, u>> when t was already asleep as u called lock

vars == <<lock, pc, arrived>>

ASSUME ThreadsFinite == IsFiniteSet(Threads)

Asleep == {t \in Threads : pc[t] = "asleep"}

(* The pairs that still matter once t's request has ended. *)
Forget(t) == {p \in arrived : p[1] # t}

(* What t's call meets: the pairs <<u, t>> of t's former call are gone. *)
Arrive(t) == {p \in arrived : p[2] # t} \cup {<<u, t>> : u \in Asleep}

TypeOK ==
  /\ lock \in FairLocks
  /\ pc \in [Threads -> {"out", "asleep", "holds"}]
  /\ arrived \subseteq Threads \X Threads

Init ==
  /\ lock = FairLockInit
  /\ pc = [t \in Threads |-> "out"]
  /\ arrived = {}

(* A weak request while weak locks are blocked: FL_ABANDONED. *)
LockRefused(t) ==
  /\ pc[t] = "out"
  /\ RefusesWeak(lock, TRUE)
  /\ UNCHANGED vars

(* The lock is free: is_lock_acquired = 1. *)
LockFree(t, isWeak) ==
  /\ pc[t] = "out"
  /\ ~RefusesWeak(lock, isWeak)
  /\ ~MustWait(lock)
  /\ lock' = Acquire(lock)
  /\ pc' = [pc EXCEPT ![t] = "holds"]
  /\ arrived' = Arrive(t)

(* The caller appends an entry and sleeps on it. *)
LockWait(t, isWeak) ==
  /\ pc[t] = "out"
  /\ ~RefusesWeak(lock, isWeak)
  /\ MustWait(lock)
  /\ lock' = EnqueueEntry(lock, t, isWeak)
  /\ pc' = [pc EXCEPT ![t] = "asleep"]
  /\ arrived' = Arrive(t)

(* malloc or pthread_cond_init of a new entry fails: FL_ERROR.  The count  *)
(* is incremented and decremented again under the mutex.                   *)
LockError(t, isWeak) ==
  /\ pc[t] = "out"
  /\ ~RefusesWeak(lock, isWeak)
  /\ MustWait(lock)
  /\ UNCHANGED vars

Wake(t) ==
  /\ pc[t] = "asleep"
  /\ \/ /\ t \in lock.abandoned
        /\ lock' = WakeAbandoned(lock, t)
        /\ pc' = [pc EXCEPT ![t] = "out"]
     \/ /\ t \in lock.signalled
        /\ lock' = WakeAcquire(lock, t)
        /\ pc' = [pc EXCEPT ![t] = "holds"]
  /\ arrived' = Forget(t)

UnlockStep(t) ==
  /\ pc[t] = "holds"
  /\ lock' = Unlock(lock)
  /\ pc' = [pc EXCEPT ![t] = "out"]
  /\ UNCHANGED arrived

(* Any thread may block or allow weak locks; it need not hold the lock.    *)
BlockWeakLocks(t) ==
  /\ pc[t] # "asleep"
  /\ lock' = BlockWeak(lock)
  /\ UNCHANGED <<pc, arrived>>

AllowWeakLocks(t) ==
  /\ pc[t] # "asleep"
  /\ lock' = AllowWeak(lock)
  /\ UNCHANGED <<pc, arrived>>

Next ==
  \E t \in Threads :
    \/ LockRefused(t)
    \/ \E isWeak \in BOOLEAN : LockFree(t, isWeak) \/ LockWait(t, isWeak) \/ LockError(t, isWeak)
    \/ Wake(t)
    \/ UnlockStep(t)
    \/ BlockWeakLocks(t)
    \/ AllowWeakLocks(t)

(* A signalled thread is scheduled, and a holder unlocks in the end. *)
Fairness == \A t \in Threads : WF_vars(Wake(t)) /\ WF_vars(UnlockStep(t))

Spec == Init /\ [][Next]_vars

FairSpec == Spec /\ Fairness

(***************************************************************************)
(* POSIX lets pthread_cond_wait return without a signal.  The call at      *)
(* fair_lock.h:239 is not in a loop, so the thread then takes the lock.    *)
(***************************************************************************)
SpuriousWake(t) ==
  /\ pc[t] = "asleep"
  /\ t \in lock.queue
  /\ lock' = WakeAcquire(lock, t)
  /\ pc' = [pc EXCEPT ![t] = "holds"]
  /\ arrived' = Forget(t)

SpuriousNext == Next \/ \E t \in Threads : SpuriousWake(t)

SpuriousSpec == Init /\ [][SpuriousNext]_vars

-----------------------------------------------------------------------------
(* One thread at a time is between fair_lock_lock and fair_lock_unlock,    *)
(* and is_lock_acquired says exactly whether there is one: the assertion   *)
(* is_lock_acquired == 0 of _fair_lock_lock holds whenever a thread is     *)
(* about to take the lock, however it came there.                          *)
MutualExclusion ==
  /\ \A t, u \in Threads : pc[t] = "holds" /\ pc[u] = "holds" => t = u
  /\ lock.is_lock_acquired <=> \E t \in Threads : pc[t] = "holds"

(* "FIFO order is guaranteed": no thread holds the lock while another, who *)
(* was asleep before the holder even called, still waits for its turn.     *)
(* Only a request that was abandoned in between loses its place.           *)
NoOvertaking ==
  \A p \in arrived : pc[p[2]] = "holds" => p[1] \in lock.abandoned

(* No wakeup is lost: whenever a request is queued, some thread holds the  *)
(* lock (and will signal the front entry) or has been signalled to take    *)
(* it.  Every sleeper is in exactly one of the three places the code knows.*)
SleepersHaveAWaker ==
  /\ Asleep = Sleepers(lock)
  /\ lock.queue # {} => lock.is_lock_acquired \/ lock.signalled # {}

(* waiting_threads counts the requests that will still be served; the      *)
(* abandoned ones are not counted, even while their threads sleep.  A      *)
(* count too high would make a free lock queue its callers for ever.       *)
CountsServedWaiters ==
  lock.waiting_threads = Cardinality(lock.queue \cup lock.signalled)

(* "callers will never suffer from starvation": every call that sleeps     *)
(* returns, by holding the lock or with FL_ABANDONED.                      *)
NoStarvation == \A t \in Threads : pc[t] = "asleep" ~> pc[t] # "asleep"

(* The lock as a whole: it stays well formed, nobody who sleeps is left    *)
(* without one who will wake it, and waiting_threads, by which a caller of *)
(* fair_lock_lock decides whether to sleep, is right at every moment.      *)
SleepersAreServed == TypeOK /\ SleepersHaveAWaker /\ CountsServedWaiters
=============================================================================
