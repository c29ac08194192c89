---------------------------- MODULE GlobalQueue ----------------------------
(***************************************************************************)
(* The queue that the workers of the fast pool share: a deque under a      *)
(* mutex, a flag that is read without it, and a ZeroWaiter that counts one *)
(* while the deque holds anything.  Each operator is one critical section, *)
(* so a caller that checked the flag may be overtaken by Stop before it    *)
(* pushes.                                                                 *)
(***************************************************************************)
EXTENDS Integers, Sequences, FiniteSetsExt

VARIABLES global,       \* queue_
          closed,       \* is_closed_
          outstanding   \* waiter_.counter_

globalVars == <<global, closed, outstanding>>

GlobalInit == global = <<>> /\ closed = FALSE /\ outstanding = 0

\* PushOne and Offload, after their check of is_closed_.
PushBack(items) ==
    /\ outstanding' = IF global = <<>> /\ items # <<>> THEN outstanding + 1 ELSE outstanding
    /\ global' = global \o items
    /\ UNCHANGED closed

\* Grab's share: at most the room, at most an equal part for every worker.
Share(room, workers) ==
    Min({room, Len(global), (Len(global) + workers - 1) \div workers})

GrabFront(n) ==
    /\ n > 0
    /\ outstanding' = IF n = Len(global) THEN outstanding - 1 ELSE outstanding
    /\ global' = SubSeq(global, n + 1, Len(global))
    /\ UNCHANGED closed

CloseQueue == closed' = TRUE /\ UNCHANGED <<global, outstanding>>

\* Stop's loop takes the tasks out without touching the waiter.
Drain == global' = <<>> /\ UNCHANGED <<closed, outstanding>>
=============================================================================
