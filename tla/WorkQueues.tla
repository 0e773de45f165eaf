----------------------------- MODULE WorkQueues -----------------------------
(***************************************************************************)
(* The three slots of ThreadPool's work queues (thread_pool.h): slot 0     *)
(* holds the tasks of the current frame, slots 1 and 2 those of the next   *)
(* two.  Used by the pool itself and by what submits to it.                *)
(***************************************************************************)
EXTENDS Integers

Slots == 0..2

\* The two swaps in the other order (a mutant).
RotatedBack(queue) == [s \in Slots |-> queue[(s + 2) % 3]]

\* The two swaps per kind of queue: slot 0 with 1, then 1 with 2.  What was
\* left in slot 0 comes round again.
Rotated(queue) == [s \in Slots |-> queue[(s + 1) % 3]]
=============================================================================
