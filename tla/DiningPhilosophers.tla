------------------------- MODULE DiningPhilosophers -------------------------
(***************************************************************************)
(* mutex/dining/philosopher.cpp.  The table is external: philosopher p has *)
(* fork p on the left and the next one on the right, as the plates she     *)
(* eats from are numbered.                                                 *)
(***************************************************************************)
EXTENDS Integers

CONSTANT Seats

VARIABLES fork,      \* fork[i]: the philosopher who holds it, or Nobody
          pc

vars == <<fork, pc>>

Philosophers == 0 .. Seats - 1
Nobody == Seats

ToRight(p) == (p + 1) % Seats

Init == /\ fork = [i \in Philosophers |-> Nobody]
        /\ pc = [p \in Philosophers |-> "think"]

\* Mutant of First: everybody takes the left fork first.
FirstIsLeft(p) == p

\* The odd seats take, and put back, the right fork first.
First(p) == IF p % 2 = 0 THEN p ELSE ToRight(p)
Second(p) == IF p % 2 = 0 THEN ToRight(p) ELSE p

Acquire(p, i, from, to) ==
    /\ pc[p] = from
    /\ fork[i] = Nobody
    /\ fork' = [fork EXCEPT ![i] = p]
    /\ pc' = [pc EXCEPT ![p] = to]

Release(p, i, from, to) ==
    /\ pc[p] = from
    /\ fork' = [fork EXCEPT ![i] = Nobody]
    /\ pc' = [pc EXCEPT ![p] = to]

Hungry(p) == /\ pc[p] = "think"
             /\ pc' = [pc EXCEPT ![p] = "first"]
             /\ UNCHANGED fork

AcquireForks(p) == Acquire(p, First(p), "first", "second") \/ Acquire(p, Second(p), "second", "eat")

ReleaseForks(p) == Release(p, First(p), "eat", "release") \/ Release(p, Second(p), "release", "think")

Step(p) == AcquireForks(p) \/ ReleaseForks(p)

Next == \E p \in Philosophers : Hungry(p) \/ Step(p)

Spec == Init /\ [][Next]_vars

-----------------------------------------------------------------------------
(* Properties *)

Plates(p) == {p, ToRight(p)}

\* EatWithForks touches two plates; nobody else touches them meanwhile.
PlatesAreExclusive ==
    \A p, q \in Philosophers :
        pc[p] = "eat" /\ pc[q] = "eat" /\ p # q => Plates(p) \cap Plates(q) = {}

\* While somebody waits for a fork, somebody will eat.
SomebodyEats ==
    (\E p \in Philosophers : pc[p] \in {"first", "second"})
        ~> (\E p \in Philosophers : pc[p] = "eat")
=============================================================================
