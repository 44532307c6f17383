--------------------------- MODULE BlockingQueue ---------------------------
(***************************************************************************)
(* Threads that share one Blocking_Queue (blocking_queue.h).               *)
(*                                                                         *)
(* The add and the get side mirror each other, so a call is a record of    *)
(* its side, whether it is async (add, poll) or not (put, take), and its   *)
(* element.  A call goes through                                           *)
(*                                                                         *)
(*   idle -> lock -> [asleep ->] crit -> [wait ->] unlock -> leave -> idle *)
(*                                                                         *)
(*   lock    counted as an active caller, about to call fair_lock_lock     *)
(*   asleep  in pthread_cond_wait of the fair lock of its side             *)
(*   crit    holds the fair lock, about to take bq->mutex                  *)
(*   wait    in pthread_cond_wait(&bq->cond)                               *)
(*   unlock  has done its work, still holds the fair lock                  *)
(*   leave   holds nothing, its result is known, still an active caller    *)
(*                                                                         *)
(* Code under bq->mutex is one step.  The fair-lock calls inside such a    *)
(* section take another mutex, but what other threads can do to a fair     *)
(* lock in between (arrive, be refused) they can as well do just before or *)
(* just after the section, with the same result.                           *)
(***************************************************************************)
EXTENDS FairLockOps, QueueRing

CONSTANTS
  Capacity,     \* the argument of blocking_queue_init; 0 is boundless
  MaxCapacity,  \* bound: a boundless queue does not grow beyond this
  Closers,      \* threads that call blocking_queue_close
  Destroyer     \* the one of them, if any, that calls blocking_queue_destroy

ASSUME ThreadsFinite == IsFiniteSet(Threads)
ASSUME CapacityNat == Capacity \in Nat /\ MaxCapacity \in Nat

VARIABLES
  lock,          \* add_lock and get_lock
  weak_blocked,  \* add_lock_are_weak_locks_blocked and get_lock_...
  ring,          \* the circular array
  closed,
  active,        \* active_callers_count
  cond,          \* threads waiting on bq->cond that were not signalled
  pc, call, ret, \* per thread: place, call in progress, its result
  closer,        \* per closer: idle, draining, waiting, returned or freed
  late           \* threads that have made their one call on a closed queue

vars == <<lock, weak_blocked, ring, closed, active, cond, pc, call, ret, closer, late>>

Sides == {"add", "get"}
Other(s) == IF s = "add" THEN "get" ELSE "add"

Calls == [side : Sides, async : BOOLEAN, element : Elements \cup {Junk}]

NoCall == [side |-> "add", async |-> FALSE, element |-> Junk]

Results == {"none", "ok", "error", "full", "empty", "closed"}

is_boundless == Capacity = 0

(* The queue leaves nothing to do for a call of side s. *)
Exhausted(s) ==
  IF s = "add" THEN ring.queue_size = ring.queue_capacity ELSE ring.queue_size = 0

RefusalOf(s) == IF s = "add" THEN "full" ELSE "empty"

(* A call is in progress. *)
Inside(t) == pc[t] # "idle"

(* blocking_queue_destroy was called: "the blocking queue cannot be used   *)
(* anymore", so nobody starts another call of any kind.                    *)
Destroying == Destroyer \in Closers /\ closer[Destroyer] # "idle"

TypeOK ==
  /\ lock \in [Sides -> FairLocks]
  /\ weak_blocked \in [Sides -> BOOLEAN]
  /\ IsRing(ring)
  /\ closed \in BOOLEAN
  /\ active \in Nat
  /\ cond \subseteq Threads
  /\ pc \in [Threads -> {"idle", "lock", "asleep", "crit", "wait", "unlock", "leave"}]
  /\ call \in [Threads -> Calls]
  /\ ret \in [Threads -> Results]
  /\ closer \in [Closers -> {"idle", "draining", "waiting", "returned", "freed"}]
  /\ late \subseteq Threads

Init ==
  /\ lock = [s \in Sides |-> FairLockInit]
  /\ weak_blocked = [s \in Sides |-> FALSE]
  /\ ring = RingInit(IF is_boundless THEN 1 ELSE Capacity)
  /\ closed = FALSE
  /\ active = 0
  /\ cond = {}
  /\ pc = [t \in Threads |-> "idle"]
  /\ call = [t \in Threads |-> NoCall]
  /\ ret = [t \in Threads |-> "none"]
  /\ closer = [c \in Closers |-> "idle"]
  /\ late = {}

-----------------------------------------------------------------------------
(* increase_active_callers_count.  Once the queue is closed a thread calls *)
(* once more at most: that bounds the calls a closing queue has to refuse. *)
Call(t, s, async, e) ==
  /\ pc[t] = "idle"
  /\ closed => t \notin late
  /\ ~Destroying
  /\ e \in IF s = "add" THEN Elements ELSE {Junk}
  /\ late' = IF closed THEN late \cup {t} ELSE late
  /\ active' = active + 1
  /\ call' = [call EXCEPT ![t] = [side |-> s, async |-> async, element |-> e]]
  /\ pc' = [pc EXCEPT ![t] = "lock"]
  /\ UNCHANGED <<lock, weak_blocked, ring, closed, cond, ret, closer>>

(* A call that is over but for decrease_active_callers_count. *)
LeaveWith(t, r) ==
  /\ pc' = [pc EXCEPT ![t] = "leave"]
  /\ ret' = [ret EXCEPT ![t] = r]

(* fair_lock_lock_weak refuses, or was interrupted: BQ_FULL or BQ_EMPTY. *)
LockRefused(t) ==
  LET s == call[t].side
  IN  /\ pc[t] = "lock"
      /\ RefusesWeak(lock[s], call[t].async)
      /\ LeaveWith(t, RefusalOf(s))
      /\ UNCHANGED <<lock, weak_blocked, ring, closed, active, cond, call, closer, late>>

LockFree(t) ==
  LET s == call[t].side
  IN  /\ pc[t] = "lock"
      /\ ~RefusesWeak(lock[s], call[t].async)
      /\ ~MustWait(lock[s])
      /\ lock' = [lock EXCEPT ![s] = Acquire(@)]
      /\ pc' = [pc EXCEPT ![t] = "crit"]
      /\ UNCHANGED <<weak_blocked, ring, closed, active, cond, call, ret, closer, late>>

LockWait(t) ==
  LET s == call[t].side
  IN  /\ pc[t] = "lock"
      /\ ~RefusesWeak(lock[s], call[t].async)
      /\ MustWait(lock[s])
      /\ lock' = [lock EXCEPT ![s] = EnqueueEntry(@, t, call[t].async)]
      /\ pc' = [pc EXCEPT ![t] = "asleep"]
      /\ UNCHANGED <<weak_blocked, ring, closed, active, cond, call, ret, closer, late>>

(* No memory for a queue entry: FL_ERROR, and so BQ_ERROR. *)
LockError(t) ==
  LET s == call[t].side
  IN  /\ pc[t] = "lock"
      /\ ~RefusesWeak(lock[s], call[t].async)
      /\ MustWait(lock[s])
      /\ LeaveWith(t, "error")
      /\ UNCHANGED <<lock, weak_blocked, ring, closed, active, cond, call, closer, late>>

WakeAsLoser(t) ==
  LET s == call[t].side
  IN  /\ pc[t] = "asleep"
      /\ t \in lock[s].abandoned
      /\ lock' = [lock EXCEPT ![s] = WakeAbandoned(@, t)]
      /\ LeaveWith(t, RefusalOf(s))
      /\ UNCHANGED <<weak_blocked, ring, closed, active, cond, call, closer, late>>

WakeAsHolder(t) ==
  LET s == call[t].side
  IN  /\ pc[t] = "asleep"
      /\ t \in lock[s].signalled
      /\ lock' = [lock EXCEPT ![s] = WakeAcquire(@, t)]
      /\ pc' = [pc EXCEPT ![t] = "crit"]
      /\ UNCHANGED <<weak_blocked, ring, closed, active, cond, call, ret, closer, late>>

-----------------------------------------------------------------------------
(* The queue is closed, at first sight or after the wait: BQ_CLOSED. *)
GiveUpClosed(t) ==
  LET s == call[t].side
  IN  /\ closed
      /\ lock' = [lock EXCEPT ![s] = Unlock(@)]
      /\ LeaveWith(t, "closed")
      /\ UNCHANGED <<weak_blocked, ring, closed, active, cond, call, closer, late>>

(* Nobody is signalled. *)
SignalCond_Missing == cond' = cond

(* pthread_cond_signal(&bq->cond): one waiter, if there is one. *)
SignalCond == IF cond = {} THEN cond' = {} ELSE \E w \in cond : cond' = cond \ {w}

(* The cached flag of the other side is not reset. *)
Proceed_FlagKept(t, r) ==
  LET s == call[t].side
      o == Other(s)
  IN  /\ lock' = [lock EXCEPT ![o] = IF weak_blocked[o] THEN AllowWeak(@) ELSE @]
      /\ SignalCond
      /\ IF s = "add"
         THEN ring' = enqueue(r, call[t].element) /\ call' = call
         ELSE /\ ring' = dequeue(r)
              /\ call' = [call EXCEPT ![t].element = front_element(r)]
      /\ pc' = [pc EXCEPT ![t] = "unlock"]
      /\ ret' = [ret EXCEPT ![t] = "ok"]
      /\ UNCHANGED <<weak_blocked, closed, active, closer, late>>

(* The common end of add_internal and get_internal: weak callers of the    *)
(* other side are allowed again, a waiter is signalled, and the element    *)
(* goes in or out, all under bq->mutex.                                    *)
Proceed(t, r) ==
  LET s == call[t].side
      o == Other(s)
  IN  /\ lock' = [lock EXCEPT ![o] = IF weak_blocked[o] THEN AllowWeak(@) ELSE @]
      /\ weak_blocked' = [weak_blocked EXCEPT ![o] = FALSE]
      /\ SignalCond
      /\ IF s = "add"
         THEN ring' = enqueue(r, call[t].element) /\ call' = call
         ELSE /\ ring' = dequeue(r)
              /\ call' = [call EXCEPT ![t].element = front_element(r)]
      /\ pc' = [pc EXCEPT ![t] = "unlock"]
      /\ ret' = [ret EXCEPT ![t] = "ok"]
      /\ UNCHANGED <<closed, active, closer, late>>

EnterClosed(t) == pc[t] = "crit" /\ GiveUpClosed(t)

(* closed is not looked at before the element goes in or out. *)
EnterReady_Unchecked(t) ==
  /\ pc[t] = "crit"
  /\ ~Exhausted(call[t].side)
  /\ Proceed(t, ring)

EnterReady(t) ==
  /\ pc[t] = "crit"
  /\ ~closed
  /\ ~Exhausted(call[t].side)
  /\ Proceed(t, ring)

(* A full boundless queue grows ... *)
EnterGrow(t) ==
  /\ pc[t] = "crit"
  /\ ~closed
  /\ is_boundless /\ call[t].side = "add" /\ Exhausted("add")
  /\ ring.queue_capacity * 2 <= MaxCapacity
  /\ Proceed(t, grow_queue(ring))

(* ... unless there is no memory: BQ_ERROR. *)
EnterGrowError(t) ==
  /\ pc[t] = "crit"
  /\ ~closed
  /\ is_boundless /\ call[t].side = "add" /\ Exhausted("add")
  /\ lock' = [lock EXCEPT !["add"] = Unlock(@)]
  /\ LeaveWith(t, "error")
  /\ UNCHANGED <<weak_blocked, ring, closed, active, cond, call, closer, late>>

(* Nothing to do for this side: its weak callers are sent away. *)
Blocks(s) == ~closed /\ Exhausted(s) /\ ~(is_boundless /\ s = "add")

BlockedLock(s) == IF weak_blocked[s] THEN lock[s] ELSE BlockWeak(lock[s])

(* An async caller goes away itself ... *)
EnterRefused(t) ==
  LET s == call[t].side
  IN  /\ pc[t] = "crit"
      /\ Blocks(s)
      /\ call[t].async
      /\ lock' = [lock EXCEPT ![s] = Unlock(BlockedLock(s))]
      /\ weak_blocked' = [weak_blocked EXCEPT ![s] = TRUE]
      /\ LeaveWith(t, RefusalOf(s))
      /\ UNCHANGED <<ring, closed, active, cond, call, closer, late>>

(* ... and a sync caller waits, holding the fair lock of its side. *)
EnterWait(t) ==
  LET s == call[t].side
  IN  /\ pc[t] = "crit"
      /\ Blocks(s)
      /\ ~call[t].async
      /\ lock' = [lock EXCEPT ![s] = BlockedLock(s)]
      /\ weak_blocked' = [weak_blocked EXCEPT ![s] = TRUE]
      /\ cond' = cond \cup {t}
      /\ pc' = [pc EXCEPT ![t] = "wait"]
      /\ UNCHANGED <<ring, closed, active, call, ret, closer, late>>

(* pthread_cond_wait has returned. *)
ResumeClosed(t) == pc[t] = "wait" /\ t \notin cond /\ GiveUpClosed(t)

(* closed is not looked at again after the wait. *)
ResumeReady_Unchecked(t) == pc[t] = "wait" /\ t \notin cond /\ Proceed(t, ring)

ResumeReady(t) == pc[t] = "wait" /\ t \notin cond /\ ~closed /\ Proceed(t, ring)

(* fair_lock_unlock after the mutex was released. *)
UnlockSide(t) ==
  LET s == call[t].side
  IN  /\ pc[t] = "unlock"
      /\ lock' = [lock EXCEPT ![s] = Unlock(@)]
      /\ pc' = [pc EXCEPT ![t] = "leave"]
      /\ UNCHANGED <<weak_blocked, ring, closed, active, cond, call, ret, closer, late>>

(* decrease_active_callers_count, which signals destroy_cond; the caller   *)
(* has its result.                                                         *)
Leave(t) ==
  /\ pc[t] = "leave"
  /\ active' = active - 1
  /\ closer' = [c \in Closers |-> IF closer[c] = "waiting" THEN "draining" ELSE closer[c]]
  /\ pc' = [pc EXCEPT ![t] = "idle"]
  /\ call' = [call EXCEPT ![t] = NoCall]
  /\ ret' = [ret EXCEPT ![t] = "none"]
  /\ UNCHANGED <<lock, weak_blocked, ring, closed, cond, late>>

-----------------------------------------------------------------------------
(* close_mutex is held while a closer drains. *)
CloseMutexFree == \A c \in Closers : closer[c] \notin {"draining", "waiting"}

CloseMark(c) ==
  /\ closer[c] = "idle"
  /\ ~Destroying
  /\ CloseMutexFree
  /\ closed' = TRUE
  /\ closer' = [closer EXCEPT ![c] = IF closed THEN "returned" ELSE "draining"]
  /\ UNCHANGED <<lock, weak_blocked, ring, active, cond, pc, call, ret, late>>

(* The closer waits for the callers without waking them. *)
CloseWait_NoSignal(c) ==
  /\ closer[c] = "draining"
  /\ active # 0
  /\ closer' = [closer EXCEPT ![c] = "waiting"]
  /\ UNCHANGED <<lock, weak_blocked, ring, closed, active, cond, pc, call, ret, late>>

(* while (active_callers_count) { signal bq->cond; wait destroy_cond; } *)
CloseWait(c) ==
  /\ closer[c] = "draining"
  /\ active # 0
  /\ SignalCond
  /\ closer' = [closer EXCEPT ![c] = "waiting"]
  /\ UNCHANGED <<lock, weak_blocked, ring, closed, active, pc, call, ret, late>>

(* The closer does not wait for active_callers_count to reach 0. *)
CloseReturn_Hasty(c) ==
  /\ closer[c] = "draining"
  /\ closer' = [closer EXCEPT ![c] = "returned"]
  /\ UNCHANGED <<lock, weak_blocked, ring, closed, active, cond, pc, call, ret, late>>

CloseReturn(c) ==
  /\ closer[c] = "draining"
  /\ active = 0
  /\ closer' = [closer EXCEPT ![c] = "returned"]
  /\ UNCHANGED <<lock, weak_blocked, ring, closed, active, cond, pc, call, ret, late>>

(* blocking_queue_destroy frees the array and the locks. *)
Free(c) ==
  /\ c = Destroyer
  /\ closer[c] = "returned"
  /\ closer' = [closer EXCEPT ![c] = "freed"]
  /\ UNCHANGED <<lock, weak_blocked, ring, closed, active, cond, pc, call, ret, late>>

-----------------------------------------------------------------------------
(* A step inside a call that does not wait for another thread. *)
Step(t) ==
  \/ LockRefused(t) \/ LockFree(t) \/ LockWait(t) \/ LockError(t)
  \/ WakeAsLoser(t) \/ WakeAsHolder(t)
  \/ EnterClosed(t) \/ EnterReady(t) \/ EnterGrow(t) \/ EnterGrowError(t)
  \/ EnterRefused(t) \/ EnterWait(t)
  \/ ResumeClosed(t) \/ ResumeReady(t)
  \/ UnlockSide(t) \/ Leave(t)

CloseStep(c) == CloseWait(c) \/ CloseReturn(c) \/ Free(c)

Next ==
  \/ \E t \in Threads : Step(t)
  \/ \E t \in Threads, s \in Sides, async \in BOOLEAN, e \in Elements \cup {Junk} :
       Call(t, s, async, e)
  \/ \E c \in Closers : CloseMark(c) \/ CloseStep(c)

Spec == Init /\ [][Next]_vars

(* A thread inside a call is scheduled, and so is a closer.  Nobody has to *)
(* make a call, or to close the queue.                                     *)
FairSpec ==
  /\ Spec
  /\ \A t \in Threads : WF_vars(Step(t))
  /\ \A c \in Closers : WF_vars(CloseStep(c))

-----------------------------------------------------------------------------
(* The commented assertions after pthread_cond_wait: a thread that is      *)
(* woken on an open queue finds space, or an element.  One condition       *)
(* variable for both sides, signalled once per element and waited for      *)
(* without a loop, is enough.                                              *)
ResumeFindsWork ==
  \A t \in Threads :
    pc[t] = "wait" /\ t \notin cond /\ ~closed => ~Exhausted(call[t].side)

(* No signal is lost: a thread stays on bq->cond only as long as there is  *)
(* nothing for it, and when the queue is being closed, the closer or a     *)
(* caller about to leave will signal it again.                             *)
WaitersWillBeWoken ==
  /\ \A t \in cond : pc[t] = "wait" /\ Exhausted(call[t].side)
  /\ closed /\ cond # {} =>
       \E c \in Closers :
         \/ closer[c] = "draining"
         \/ closer[c] = "waiting" /\ \E t \in Threads \ cond : Inside(t)

(* "Used as an optimization": the two cached flags agree with the fair     *)
(* locks, and weak callers are refused only while the queue really is full *)
(* or empty, so BQ_FULL and BQ_EMPTY are never out of date.                *)
RefusalsAreTrue ==
  \A s \in Sides :
    /\ weak_blocked[s] <=> lock[s].block_weak_locks
    /\ weak_blocked[s] => Exhausted(s)

(* blocking_queue_destroy frees nothing that a call could still use, and   *)
(* active_callers_count, on which it relies, counts the calls in progress. *)
FreedIsUnused ==
  /\ active = Cardinality({t \in Threads : Inside(t)})
  /\ \A c \in Closers : closer[c] = "freed" => \A t \in Threads : ~Inside(t)

(* A call made on a closed queue changes nothing: it is told so (or that   *)
(* memory is short), but for an add or a poll that the weak lock refuses   *)
(* before closed is looked at, which is told BQ_FULL or BQ_EMPTY.          *)
ClosedCallsAreRefused ==
  \A t \in late : pc[t] \in {"unlock", "leave"} =>
    \/ ret[t] \in {"closed", "error"}
    \/ call[t].async /\ ret[t] = RefusalOf(call[t].side)

(* "This function does NOT block the caller": blocking_queue_add and _poll *)
(* return although no other thread calls, even when a put or a take is     *)
(* waiting inside with the fair lock of their side.                        *)
AsyncReturns ==
  \A t \in Threads : (Inside(t) /\ call[t].async) ~> ~Inside(t)

(* blocking_queue_close unblocks every caller, and then returns.           *)
CloseDrains ==
  /\ \A t \in Threads : (closed /\ Inside(t)) ~> ~Inside(t)
  /\ \A c \in Closers : (closer[c] = "draining") ~> (closer[c] \in {"returned", "freed"})

(* The one condition variable and the ring together: the indices stay      *)
(* consistent, whoever is woken can go on, and whoever sleeps has to.      *)
WakeupsAreExact == TypeOK /\ ResumeFindsWork /\ WaitersWillBeWoken

(* Nobody stays in the queue for ever: add and poll always return, and     *)
(* after blocking_queue_close so do put and take, and close itself.        *)
CallsReturn == AsyncReturns /\ CloseDrains
=============================================================================
