---------------------------- MODULE BoundedFifo ----------------------------
(***************************************************************************)
(* What a Blocking_Queue promises (the comments of blocking_queue.h): a    *)
(* bounded FIFO queue whose operations take effect at one instant between  *)
(* call and return.  An async call may be refused, but only at an instant  *)
(* when the queue is full (add) or empty (poll).                           *)
(***************************************************************************)
EXTENDS Naturals, Sequences

CONSTANTS Threads, Elements, NoElement, Bound, Bounded

VARIABLES
  items,   \* the elements in the queue, oldest first
  open,    \* the queue was not closed
  op       \* per thread: none, or the call in progress

vars == <<items, open, op>>

None == [stage |-> "none"]

Pending == [stage : {"pending"}, side : {"add", "get"}, async : BOOLEAN,
            element : Elements \cup {NoElement}]

Outcomes == [stage : {"done"}, element : Elements \cup {NoElement},
             result : {"ok", "error", "full", "empty", "closed"}]

Init == items = <<>> /\ open = TRUE /\ op = [t \in Threads |-> None]

IsPending(t, s) == op[t].stage = "pending" /\ op[t].side = s

Done(t, e, r) == [op EXCEPT ![t] = [stage |-> "done", element |-> e, result |-> r]]

Invoke(t) ==
  /\ op[t] = None
  /\ \E p \in Pending : op' = [op EXCEPT ![t] = p]
  /\ UNCHANGED <<items, open>>

Add(t) ==
  /\ IsPending(t, "add")
  /\ open
  /\ Bounded => Len(items) < Bound
  /\ items' = Append(items, op[t].element)
  /\ op' = Done(t, op[t].element, "ok")
  /\ UNCHANGED open

Get(t) ==
  /\ IsPending(t, "get")
  /\ open
  /\ items # <<>>
  /\ items' = Tail(items)
  /\ op' = Done(t, Head(items), "ok")
  /\ UNCHANGED open

(* Some async calls of a side are refused, for one and the same reason. *)
Refuse(s) ==
  /\ IF s = "add" THEN Bounded /\ Len(items) = Bound ELSE items = <<>>
  /\ \E R \in SUBSET {t \in Threads : IsPending(t, s) /\ op[t].async} :
       op' = [t \in Threads |->
                IF t \in R
                THEN [stage |-> "done", element |-> op[t].element,
                      result |-> IF s = "add" THEN "full" ELSE "empty"]
                ELSE op[t]]
  /\ UNCHANGED <<items, open>>

(* The queue is closed, or memory is short. *)
Fail(t) ==
  /\ op[t].stage = "pending"
  /\ \/ ~open /\ op' = Done(t, op[t].element, "closed")
     \/ op' = Done(t, op[t].element, "error")
  /\ UNCHANGED <<items, open>>

Return(t) ==
  /\ op[t].stage = "done"
  /\ op' = [op EXCEPT ![t] = None]
  /\ UNCHANGED <<items, open>>

Close == open /\ open' = FALSE /\ UNCHANGED <<items, op>>

Next ==
  \/ \E t \in Threads : Invoke(t) \/ Add(t) \/ Get(t) \/ Fail(t) \/ Return(t)
  \/ \E s \in {"add", "get"} : Refuse(s)
  \/ Close

Spec == Init /\ [][Next]_vars
=============================================================================
