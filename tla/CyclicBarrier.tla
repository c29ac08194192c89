--------------------------- MODULE CyclicBarrier ---------------------------
(***************************************************************************)
(* condvar/barrier/cyclic_barrier.hpp.  Arrive is one critical section     *)
(* from the lock, or from a wake-up, to the next wait or to the end.       *)
(***************************************************************************)
EXTENDS Integers

CONSTANTS MaxParticipants,   \* bound on the constructor's argument
          Rounds             \* how many times each participant arrives

VARIABLES participants,      \* participants_num_
          waiting,           \* waiting_
          opened,            \* first_filter_
          pc,                \* pc[t]: where t is in Arrive
          arrived,           \* arrived[t]: how many calls of Arrive t began
          passed             \* passed[t]: how many of them returned

vars == <<participants, waiting, opened, pc, arrived, passed>>

Threads == 1 .. participants

Init == /\ participants \in 1 .. MaxParticipants
        /\ waiting = 0
        /\ opened = FALSE
        /\ pc = [t \in Threads |-> "idle"]
        /\ arrived = [t \in Threads |-> 0]
        /\ passed = [t \in Threads |-> 0]

\* notify_all: every thread but t looks again at the condition it waits for.
Notified(t, label) ==
    [u \in Threads |-> IF u = t THEN label
                       ELSE CASE pc[u] = "sleepOutside" -> "outside"
                              [] pc[u] = "sleepInside" -> "inside"
                              [] OTHER -> pc[u]]

Call(t) == /\ pc[t] = "idle"
           /\ arrived[t] < Rounds
           /\ arrived' = [arrived EXCEPT ![t] = @ + 1]
           /\ pc' = [pc EXCEPT ![t] = "outside"]
           /\ UNCHANGED <<participants, waiting, opened, passed>>

\* Mutant of MayEnter: a thread that comes again does not wait for the others.
MayAlwaysEnter == TRUE

\* The last generation has left.
MayEnter == ~ opened

\* The last generation is still leaving.
Outside(t) == /\ pc[t] = "outside"
              /\ opened
              /\ pc' = [pc EXCEPT ![t] = "sleepOutside"]
              /\ UNCHANGED <<participants, waiting, opened, arrived, passed>>

Enter(t) == /\ pc[t] = "outside"
            /\ MayEnter
            /\ waiting + 1 < participants
            /\ waiting' = waiting + 1
            /\ pc' = [pc EXCEPT ![t] = "sleepInside"]
            /\ UNCHANGED <<participants, opened, arrived, passed>>

\* The last participant opens the barrier and leaves; alone, it closes it.
EnterLast(t) == /\ pc[t] = "outside"
                /\ MayEnter
                /\ waiting + 1 = participants
                /\ opened' = (waiting # 0)
                /\ passed' = [passed EXCEPT ![t] = @ + 1]
                /\ pc' = Notified(t, "idle")
                /\ UNCHANGED <<participants, waiting, arrived>>

SleepAgain(t) == /\ pc[t] = "inside"
                 /\ ~ opened
                 /\ pc' = [pc EXCEPT ![t] = "sleepInside"]
                 /\ UNCHANGED <<participants, waiting, opened, arrived, passed>>

\* The last one out closes the barrier.
Leave(t) == /\ pc[t] = "inside"
            /\ opened
            /\ waiting' = waiting - 1
            /\ opened' = (waiting' # 0)
            /\ pc' = IF waiting' = 0 THEN Notified(t, "idle") ELSE [pc EXCEPT ![t] = "idle"]
            /\ passed' = [passed EXCEPT ![t] = @ + 1]
            /\ UNCHANGED <<participants, arrived>>

SpuriousWakeUp(t) ==
    /\ pc[t] \in {"sleepOutside", "sleepInside"}
    /\ pc' = [pc EXCEPT ![t] = IF @ = "sleepOutside" THEN "outside" ELSE "inside"]
    /\ UNCHANGED <<participants, waiting, opened, arrived, passed>>

Step(t) == Call(t) \/ Outside(t) \/ Enter(t) \/ EnterLast(t) \/ SleepAgain(t) \/ Leave(t)

Next == \E t \in Threads : Step(t) \/ SpuriousWakeUp(t)

Spec == Init /\ [][Next]_vars

-----------------------------------------------------------------------------
(* Properties *)

TypeOK == /\ participants \in Nat /\ waiting \in 0 .. participants
          /\ opened \in BOOLEAN
          /\ pc \in [Threads -> {"idle", "outside", "sleepOutside", "inside", "sleepInside"}]
          /\ {arrived, passed} \subseteq [Threads -> Nat]

\* "Blocks until all participants have invoked Arrive()": nobody's n-th call
\* returns before everybody's n-th call, also when a fast thread comes again
\* before the slow ones have left.
NobodyPassesEarly == \A t, u \in Threads : passed[t] <= arrived[u]

\* Every call returns.
EveryArriveReturns == <>[](\A t \in Threads : passed[t] = Rounds)
=============================================================================
