--------------------------- MODULE CallbackQueue ---------------------------
(***************************************************************************)
(* What async_wait.c and async_timer.c do to the tail queues of sys/queue.h *)
(* and to the pool of callback structures that the two files share.  A      *)
(* queue is the sequence of its structures, first to last.  NULL stands for *)
(* the null pointer that ends a walk.                                       *)
(***************************************************************************)
EXTENDS Naturals, Sequences

\* The structures on the queue q.
Members(q) == {q[i] : i \in 1..Len(q)}

\* No structure is linked twice.
NoRepeats(q) == \A i, j \in 1..Len(q) : q[i] = q[j] => i = j

\* TAILQ_FIRST
First(q, NULL) == IF q = <<>> THEN NULL ELSE q[1]

\* Where c is linked in q.
Position(q, c) == CHOOSE i \in 1..Len(q) : q[i] = c

\* TAILQ_NEXT
NextIn(q, c, NULL) ==
    IF Position(q, c) = Len(q) THEN NULL ELSE q[Position(q, c) + 1]

\* TAILQ_REMOVE: c is unlinked, the others keep their order.
Unlink(q, c) ==
    LET k == Position(q, c)
    IN  [i \in 1..(Len(q) - 1) |-> IF i < k THEN q[i] ELSE q[i + 1]]

\* Mutant: the pool hands out a structure that is still linked in it.
TakeFrom_Kept(free_q, c) == free_q

(***************************************************************************)
(* nr_async_create_cb takes the head of free_q, and calls malloc only when  *)
(* free_q is empty.  Available(...) is the set of the structures it may     *)
(* return when `fresh` are the ones malloc has not handed out yet.          *)
(***************************************************************************)
Available(free_q, fresh) == IF free_q = <<>> THEN fresh ELSE {Head(free_q)}
TakeFrom(free_q, c) == IF free_q = <<>> THEN free_q ELSE Tail(free_q)

\* nr_async_destroy_cb puts the structure at the tail of free_q.
GiveBack(free_q, c) == Append(free_q, c)
=============================================================================
