---------------------------- MODULE BoundedQueue ----------------------------
(***************************************************************************)
(* condvar/semaphore/blocking_queue.hpp: a bounded queue made of three     *)
(* semaphores.  Put and Take are five steps each: two acquisitions, the    *)
(* access to the deque, two releases.                                      *)
(***************************************************************************)
EXTENDS Semaphore, Sequences, FiniteSets

CONSTANTS Producers, Consumers,
          Capacity,
          Calls          \* how many times each thread calls Put, or Take

Threads == Producers \cup Consumers

VARIABLES queue,       \* queue_, each item with the thread that put it
          step,        \* step[t]: 0 between two calls, else the step of the call
          calls        \* calls[t]: how many calls t began

vars == <<semaphoreVars, queue, step, calls>>

Semaphores == {"free", "occupied", "writing"}

Init == /\ SemaphoreInit([s \in Semaphores |-> CASE s = "free" -> Capacity
                                                 [] s = "occupied" -> 0
                                                 [] s = "writing" -> 1], Semaphores)
        /\ queue = <<>>
        /\ step = [t \in Threads |-> 0]
        /\ calls = [t \in Threads |-> 0]

\* The semaphore that t acquires first, and the one it releases last.
Outer(t) == IF t \in Producers THEN "free" ELSE "occupied"
Last(t) == IF t \in Producers THEN "occupied" ELSE "free"

\* Mutant of Order: the lock is taken before the place.
OrderInside(t) == [i \in {1, 2} |-> IF i = 1 THEN "writing" ELSE Outer(t)]

\* The order of the acquisitions.
Order(t) == [i \in {1, 2} |-> IF i = 1 THEN Outer(t) ELSE "writing"]

Advance(t) == step' = [step EXCEPT ![t] = IF @ = 5 THEN 0 ELSE @ + 1]

Call(t) == /\ step[t] = 0
           /\ calls[t] < Calls
           /\ calls' = [calls EXCEPT ![t] = @ + 1]
           /\ Advance(t)
           /\ UNCHANGED <<semaphoreVars, queue>>

AcquireStep(t) == /\ step[t] \in {1, 2}
                  /\ \/ Acquire(Order(t)[step[t]], t) /\ Advance(t)
                     \/ Sleep(Order(t)[step[t]], t) /\ UNCHANGED step
                  /\ UNCHANGED <<queue, calls>>

Push(t) == /\ step[t] = 3 /\ t \in Producers
           /\ queue' = Append(queue, t)
           /\ Advance(t)
           /\ UNCHANGED <<semaphoreVars, calls>>

\* The front of an empty deque would be undefined behaviour: Pop would fail.
Pop(t) == /\ step[t] = 3 /\ t \in Consumers
          /\ queue' = Tail(queue)
          /\ Advance(t)
          /\ UNCHANGED <<semaphoreVars, calls>>

ReleaseStep(t) == /\ step[t] \in {4, 5}
                  /\ Release(IF step[t] = 4 THEN "writing" ELSE Last(t))
                  /\ Advance(t)
                  /\ UNCHANGED <<queue, calls>>

WakeUp(t) == /\ \E s \in Semaphores : WakeSpuriously(s, t)
             /\ UNCHANGED <<queue, step, calls>>

Step(t) == Call(t) \/ AcquireStep(t) \/ Push(t) \/ Pop(t) \/ ReleaseStep(t)

Next == \E t \in Threads : Step(t) \/ WakeUp(t)

Spec == Init /\ [][Next]_vars

-----------------------------------------------------------------------------
(* Properties *)

TypeOK == /\ tokens \in [Semaphores -> Nat]
          /\ sleeping \in [Semaphores -> SUBSET Threads]
          /\ queue \in Seq(Producers)
          /\ step \in [Threads -> 0 .. 5] /\ calls \in [Threads -> Nat]

\* The deque never holds more than the capacity, is never popped when empty,
\* and one thread at a time touches it.
DequeIsSafe ==
    /\ Len(queue) <= Capacity
    /\ \A t \in Consumers : step[t] = 3 => queue # <<>>
    /\ \A t, u \in Threads : step[t] = 3 /\ step[u] = 3 => t = u

\* While a thread sleeps beside tokens, as many others are awake and about to
\* take them: no notification was lost.
NoSleeperBesideToken ==
    \A s \in Semaphores :
        sleeping[s] # {} =>
            Cardinality({t \in Threads \ sleeping[s] :
                            step[t] \in {1, 2} /\ Order(t)[step[t]] = s}) >= tokens[s]

\* With as many producers as consumers, every call returns.
EveryCallReturns == <>[](\A t \in Threads : step[t] = 0 /\ calls[t] = Calls)
=============================================================================
