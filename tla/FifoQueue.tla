----------------------------- MODULE FifoQueue -----------------------------
(***************************************************************************)
(* What the work-stealing queue promises: a bounded FIFO queue with one    *)
(* producer whose operations are atomic.  A consumer asks for up to n      *)
(* items and is told nothing was there only when the queue was empty; the  *)
(* producer is refused only when the queue was full.                       *)
(***************************************************************************)
EXTENDS Naturals, Sequences

CONSTANTS Threads,      \* every thread that takes items, the producer included
          Items,        \* what is queued
          Capacity      \* how many items fit

VARIABLES queue,        \* the queued items, oldest first
          got,          \* got[t]: the answer to t's last request
          accepted      \* the answer to the producer's last push

vars == <<queue, got, accepted>>

Init == /\ queue = <<>>
        /\ got = [t \in Threads |-> <<>>]
        /\ accepted = TRUE

\* A push of one or more items that fit.
Push(items) == /\ Len(items) > 0
               /\ Len(queue) + Len(items) <= Capacity
               /\ queue' = queue \o items
               /\ accepted' = TRUE
               /\ UNCHANGED got

\* A push is refused only by a full queue.
Refuse == /\ Len(queue) = Capacity
          /\ accepted' = FALSE
          /\ UNCHANGED <<queue, got>>

\* t receives the n oldest items; none only if there are none.
Take(t, n) == /\ n <= Len(queue)
              /\ n = 0 => queue = <<>>
              /\ got' = [got EXCEPT ![t] = SubSeq(queue, 1, n)]
              /\ queue' = SubSeq(queue, n + 1, Len(queue))
              /\ UNCHANGED accepted

Next == \/ \E items \in UNION {[1 .. n -> Items] : n \in 1 .. Capacity} : Push(items)
        \/ Refuse
        \/ \E t \in Threads, n \in 0 .. Capacity : Take(t, n)

Spec == Init /\ [][Next]_vars
=============================================================================
