---------------------------- MODULE FairLockOps ----------------------------
(***************************************************************************)
(* The functions of fair_lock.h as operators on one Fair_Lock.             *)
(*                                                                         *)
(* A thread owns at most one Cond_Queue_Entry at a time, so an entry is    *)
(* named by the thread that sleeps on its condition variable, and the      *)
(* linked list is kept as its order: ahead[t] is the set of the entries    *)
(* linked in front of t's entry.                                           *)
(*                                                                         *)
(* An entry leaves the list in two ways, and its thread then has a signal  *)
(* pending until it is scheduled: "signalled" by fair_lock_unlock (its     *)
(* turn has come), or "abandoned" by fair_lock_block_weak_locks.           *)
(*                                                                         *)
(* Here and in the other modules, a definition Op_Fault that precedes Op   *)
(* is Op with a mistake the code could have had; no specification uses it. *)
(* It shows that a property notices the mistake.                           *)
(***************************************************************************)
EXTENDS Naturals, FiniteSets

CONSTANT Threads

(* The fields of struct Fair_Lock, and the flags of its queue entries. *)
FairLocks ==
  [is_lock_acquired : BOOLEAN,
   waiting_threads  : Nat,
   block_weak_locks : BOOLEAN,
   queue            : SUBSET Threads,
   ahead            : [Threads -> SUBSET Threads],
   weak             : SUBSET Threads,
   signalled        : SUBSET Threads,
   abandoned        : SUBSET Threads]

(* fair_lock_init *)
FairLockInit ==
  [is_lock_acquired |-> FALSE, waiting_threads |-> 0, block_weak_locks |-> FALSE,
   queue |-> {}, ahead |-> [t \in Threads |-> {}], weak |-> {},
   signalled |-> {}, abandoned |-> {}]

(* _fair_lock_lock: a weak request is refused at once. *)
RefusesWeak(l, isWeak) == isWeak /\ l.block_weak_locks

(* Only the holder makes a caller queue, not the threads before it. *)
MustWait_Barging(l) == l.is_lock_acquired

(* _fair_lock_lock: the caller has to queue. *)
MustWait(l) == l.is_lock_acquired \/ l.waiting_threads > 0

(* _fair_lock_lock, the lock is free and nobody waits. *)
Acquire(l) == [l EXCEPT !.is_lock_acquired = TRUE]

(* The list without the entries of S. *)
Unlink(l, S) ==
  [l EXCEPT !.queue = @ \ S,
            !.ahead = [t \in Threads |-> IF t \in S THEN {} ELSE @[t] \ S]]

(* ++waiting_threads and enqueue_cond_queue_entry: t goes to the rear. *)
EnqueueEntry(l, t, isWeak) ==
  [l EXCEPT !.waiting_threads = @ + 1,
            !.queue = @ \cup {t},
            !.ahead = [l.ahead EXCEPT ![t] = l.queue],
            !.weak = IF isWeak THEN l.weak \cup {t} ELSE l.weak]

(* dequeue_cond_queue_entry: the entry at the front, if there is one. *)
Front(l) == {t \in l.queue : l.ahead[t] = {}}

(* The front entry is unlinked but not signalled. *)
Unlock_NoSignal(l) == [Unlink(l, Front(l)) EXCEPT !.is_lock_acquired = FALSE]

(* fair_lock_unlock: the front entry is signalled, the lock is free. *)
Unlock(l) ==
  [Unlink(l, Front(l)) EXCEPT !.signalled = @ \cup Front(l),
                              !.is_lock_acquired = FALSE]

(* is_lock_acquired is set by a caller that did not wait only. *)
WakeAcquire_NotAcquired(l, t) ==
  [l EXCEPT !.signalled = @ \ {t}, !.weak = @ \ {t}, !.waiting_threads = @ - 1]

(* _fair_lock_lock after pthread_cond_wait, the entry was not abandoned. *)
WakeAcquire(l, t) ==
  [l EXCEPT !.signalled = @ \ {t},
            !.weak = @ \ {t},
            !.waiting_threads = @ - 1,
            !.is_lock_acquired = TRUE]

(* _fair_lock_lock after pthread_cond_wait, the entry was abandoned. *)
WakeAbandoned(l, t) ==
  [l EXCEPT !.abandoned = @ \ {t},
            !.weak = @ \ {t}]

(* The weak entries are unlinked, but their threads are not signalled. *)
BlockWeak_NoSignal(l) ==
  LET gone == l.queue \cap l.weak
  IN  [Unlink(l, gone) EXCEPT !.block_weak_locks = TRUE,
                              !.waiting_threads = @ - Cardinality(gone)]

(* abandone_weak_locks, called by fair_lock_block_weak_locks: every weak   *)
(* entry still in the list is flagged, signalled and taken out of the      *)
(* list and of the count.                                                  *)
BlockWeak(l) ==
  LET gone == l.queue \cap l.weak
  IN  [Unlink(l, gone) EXCEPT !.block_weak_locks = TRUE,
                              !.abandoned = @ \cup gone,
                              !.waiting_threads = @ - Cardinality(gone)]

(* fair_lock_allow_weak_locks *)
AllowWeak(l) == [l EXCEPT !.block_weak_locks = FALSE]

-----------------------------------------------------------------------------
(* The threads asleep in pthread_cond_wait of _fair_lock_lock. *)
Sleepers(l) == l.queue \cup l.signalled \cup l.abandoned

(* The list is a list: its entries are linearly ordered. *)
Ordered(l) ==
  /\ \A t \in l.queue : l.ahead[t] \subseteq l.queue /\ t \notin l.ahead[t]
  /\ \A t, u \in l.queue : t # u => t \in l.ahead[u] \/ u \in l.ahead[t]
  /\ \A t \in l.queue : \A u \in l.ahead[t] : l.ahead[u] \subseteq l.ahead[t]

(* What every function leaves true of a lock, if its caller may call it:   *)
(* the count is exact, the turn is given to at most one thread and only    *)
(* when the lock is free, and a queued request has somebody to wake it.    *)
LockOK(l) ==
  /\ l \in FairLocks
  /\ Ordered(l)
  /\ l.queue \cap l.signalled = {}
  /\ l.queue \cap l.abandoned = {}
  /\ l.signalled \cap l.abandoned = {}
  /\ l.waiting_threads = Cardinality(l.queue \cup l.signalled)
  /\ \A t, u \in l.signalled : t = u
  /\ l.is_lock_acquired => l.signalled = {}
  /\ l.queue # {} => l.is_lock_acquired \/ l.signalled # {}
=============================================================================
