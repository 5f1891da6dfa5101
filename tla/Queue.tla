------------------------------- MODULE Queue -------------------------------
(***************************************************************************)
(* The queue of utils/queue.h (DEFINE_QUEUE), which holds the log records  *)
(* of a process and the messages of libbattleroyale.  items is what was    *)
(* written since the indices were last reset, so its length is rear, and   *)
(* taken is front + 1.  The indices only go back when the queue runs empty.*)
(***************************************************************************)
EXTENDS Integers, Sequences

Queue(T) == {q \in [items : Seq(T), taken : Nat] : q.taken <= Len(q.items)}

q_init == [items |-> <<>>, taken |-> 0]

q_empty(q) == q.taken = Len(q.items)

q_full(q, max) == Len(q.items) = max

q_enqueue(q, max, v) ==
    IF q_full(q, max) THEN q ELSE [q EXCEPT !.items = Append(@, v)]

q_dequeue(q) ==
    IF q_empty(q) THEN q
    ELSE IF q.taken + 1 = Len(q.items) THEN q_init
    ELSE [q EXCEPT !.taken = @ + 1]

q_peek(q) == q.items[q.taken + 1]

(* What is in the queue, oldest first.                                     *)
Waiting(q) == SubSeq(q.items, q.taken + 1, Len(q.items))
=============================================================================
