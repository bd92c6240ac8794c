----------------------------- MODULE ArrayQueue -----------------------------
(***************************************************************************)
(* The queue of base/queue.h (QUEUE_DECL), which holds an hio_t's          *)
(* write_queue and a loop's custom_events: an array ptr of maxsize slots,  *)
(* of which size are in use, from index _offset on.  The elements never    *)
(* wrap around: push_back moves them to the front of the array when it has *)
(* run to its end.                                                         *)
(*                                                                         *)
(* A slot that was never written, or is outside the elements, holds what   *)
(* memory holds: pop_front leaves the popped element in its slot, realloc  *)
(* and malloc give zeroed slots (NoElem).                                  *)
(***************************************************************************)
EXTENDS Integers, Sequences

CONSTANT NoElem       \* a zeroed slot

\* QUEUE_INIT_SIZE
QUEUE_INIT_SIZE == 16

Slots(maxsize) == 0 .. maxsize - 1

\* qtype##_init
queue_init(maxsize) ==
    [ptr |-> [i \in Slots(maxsize) |-> NoElem],
     size |-> 0, maxsize |-> maxsize, offset |-> 0]

\* qtype##_cleanup: the array is freed
queue_cleanup == queue_init(0)

queue_empty(q) == q.size = 0

\* qtype##_front; the queue is not empty
queue_front(q) == q.ptr[q.offset]

\* qtype##_resize: hv_realloc keeps the old slots and zeroes the new ones
queue_resize(q, n) ==
    LET maxsize == IF n = 0 THEN QUEUE_INIT_SIZE ELSE n
    IN  [q EXCEPT !.maxsize = maxsize,
                  !.ptr = [i \in Slots(maxsize) |->
                             IF i < q.maxsize THEN q.ptr[i] ELSE NoElem]]

queue_double_resize(q) == queue_resize(q, q.maxsize * 2)

\* memmove of the elements to the front of the array
queue_move(q) ==
    [q EXCEPT !.offset = 0,
              !.ptr = [i \in Slots(q.maxsize) |->
                         IF i < q.size THEN q.ptr[q.offset + i] ELSE q.ptr[i]]]

\* The first half of qtype##_push_back: make room behind the last element.
queue_room(q) ==
    IF q.size = q.maxsize THEN queue_double_resize(q)
    ELSE IF q.offset + q.size = q.maxsize THEN queue_move(q)
    ELSE q

\* qtype##_push_back
queue_push_back(q, elem) ==
    LET r == queue_room(q)
    IN  [r EXCEPT !.ptr = [r.ptr EXCEPT ![r.offset + r.size] = elem],
                  !.size = r.size + 1]

\* qtype##_pop_front; the code asserts that the queue is not empty
queue_pop_front(q) ==
    [q EXCEPT !.size = q.size - 1,
              !.offset = IF q.offset + 1 = q.maxsize THEN 0 ELSE q.offset + 1]

-----------------------------------------------------------------------------
(* What the array means.                                                   *)

\* The elements from front to back.
queue_elems(q) == [i \in 1 .. q.size |-> q.ptr[q.offset + i - 1]]

\* The elements are inside the array.
QueueOK(q, Elem) ==
    /\ q.maxsize \in Nat /\ q.size \in Nat /\ q.offset \in Nat
    /\ q.offset + q.size <= q.maxsize
    /\ q = [ptr |-> q.ptr, size |-> q.size, maxsize |-> q.maxsize, offset |-> q.offset]
    /\ q.ptr \in [Slots(q.maxsize) -> Elem \cup {NoElem}]
    /\ \A i \in q.offset .. q.offset + q.size - 1 : q.ptr[i] \in Elem
=============================================================================
