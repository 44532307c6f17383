----------------------------- MODULE QueueRing -----------------------------
(***************************************************************************)
(* The circular array inside a Blocking_Queue (blocking_queue.h): fields   *)
(* queue, queue_capacity, queue_size, queue_front and queue_rear, and the  *)
(* functions that change them.  Junk is what malloc leaves in a slot.      *)
(***************************************************************************)
EXTENDS Integers, Sequences

CONSTANTS Elements, Junk

(* blocking_queue_init: rear is one behind front, modulo the capacity. *)
RingInit(capacity) ==
  [queue |-> [i \in 0 .. capacity - 1 |-> Junk],
   queue_capacity |-> capacity,
   queue_size |-> 0,
   queue_front |-> 0,
   queue_rear |-> capacity - 1]

Slots(r) == 0 .. r.queue_capacity - 1

(* The fields have their types, and rear is where front and size put it,   *)
(* modulo the capacity.                                                    *)
FieldsOK(queue, capacity, size, front, rear) ==
  /\ capacity \in Nat \ {0}
  /\ queue \in [0 .. capacity - 1 -> Elements \cup {Junk}]
  /\ size \in 0 .. capacity
  /\ front \in 0 .. capacity - 1
  /\ rear \in 0 .. capacity - 1
  /\ front + size - (rear + 1) \in {0 - capacity, 0, capacity}

HasFields(r, queue, capacity, size, front, rear) ==
  r \in [queue : {queue}, queue_capacity : {capacity}, queue_size : {size},
         queue_front : {front}, queue_rear : {rear}]

IsRing(r) ==
  /\ HasFields(r, r.queue, r.queue_capacity, r.queue_size, r.queue_front, r.queue_rear)
  /\ FieldsOK(r.queue, r.queue_capacity, r.queue_size, r.queue_front, r.queue_rear)

(* enqueue: the element is stored behind the rear, whatever is there. *)
enqueue(r, element) ==
  LET rear == (r.queue_rear + 1) % r.queue_capacity
  IN  [r EXCEPT !.queue_rear = rear,
                !.queue = [r.queue EXCEPT ![rear] = element],
                !.queue_size = @ + 1]

(* dequeue: the element returned, and the ring without it. *)
front_element(r) == r.queue[r.queue_front]

dequeue(r) ==
  [r EXCEPT !.queue_front = (@ + 1) % r.queue_capacity,
            !.queue_size = @ - 1]

(* One memcpy, as if the elements never wrapped around. *)
grow_queue_OnePiece(r) ==
  [queue |-> [i \in 0 .. r.queue_capacity * 2 - 1 |->
                IF r.queue_front + i \in Slots(r) THEN r.queue[r.queue_front + i] ELSE Junk],
   queue_capacity |-> r.queue_capacity * 2,
   queue_size |-> r.queue_size,
   queue_front |-> 0,
   queue_rear |-> r.queue_size - 1]

(* grow_queue: the elements are copied to the start of an array twice as   *)
(* long, in one piece or, when they wrap around, in two.                   *)
grow_queue(r) ==
  LET new_capacity == r.queue_capacity * 2
      first == IF r.queue_rear >= r.queue_front
               THEN r.queue_size
               ELSE r.queue_capacity - r.queue_front
      second == IF r.queue_rear >= r.queue_front THEN 0 ELSE r.queue_rear + 1
  IN  [queue |-> [i \in 0 .. new_capacity - 1 |->
                    CASE i < first -> r.queue[r.queue_front + i]
                      [] i >= first /\ i < first + second -> r.queue[i - first]
                      [] OTHER -> Junk],
       queue_capacity |-> new_capacity,
       queue_size |-> r.queue_size,
       queue_front |-> 0,
       queue_rear |-> r.queue_size - 1]

(* What the ring holds, oldest element first. *)
Contents(r) ==
  [i \in 1 .. r.queue_size |-> r.queue[(r.queue_front + i - 1) % r.queue_capacity]]
=============================================================================
