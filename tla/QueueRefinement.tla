-------------------------- MODULE QueueRefinement ---------------------------
(***************************************************************************)
(* How a Blocking_Queue implements BoundedFifo.                            *)
(***************************************************************************)
EXTENDS BlockingQueue

(* A call has taken effect when its result is decided: by its own step, or *)
(* by the step of another caller that abandons its queue entry.            *)
OpOf(t) ==
  CASE pc[t] = "idle" -> [stage |-> "none"]
    [] pc[t] \in {"unlock", "leave"} ->
         [stage |-> "done", element |-> call[t].element, result |-> ret[t]]
    [] pc[t] = "asleep" /\ t \in lock[call[t].side].abandoned ->
         [stage |-> "done", element |-> call[t].element, result |-> RefusalOf(call[t].side)]
    [] OTHER ->
         [stage |-> "pending", side |-> call[t].side, async |-> call[t].async,
          element |-> call[t].element]

Ops == [t \in Threads |-> OpOf(t)]

Fifo == INSTANCE BoundedFifo WITH
  items <- Contents(ring),
  open <- ~closed,
  op <- Ops,
  NoElement <- Junk,
  Bound <- Capacity,
  Bounded <- ~is_boundless

(* The queue, with its two fair locks, its one condition variable and its  *)
(* circular array, implements an atomic bounded FIFO queue: elements come  *)
(* out in the order they went in, each once, and no refusal is untrue.     *)
ImplementsFifo == Fifo!Spec
=============================================================================
