---------------------------- MODULE Coordinator ----------------------------
(***************************************************************************)
(* The coordinator of the fast pool: which workers are awake, which of     *)
(* them may steal, and the condition variable on which the others park.    *)
(* Each operator is one critical section of balance_changes_.              *)
(***************************************************************************)
EXTENDS Integers, Sequences, SequencesExt

VARIABLES active, passive,   \* active_, passive_: the awake workers
          awake,             \* waiter_.counter_
          permission,        \* permission_to_sleep_
          asleep,            \* workers waiting on sleeper_
          woken              \* workers that left the wait but not TryParkMe

coordinatorVars == <<active, passive, awake, permission, asleep, woken>>

Listed == ToSet(active) \cup ToSet(passive)

\* RebalanceUnsafe: the two loops move workers between the end of one list and
\* the front of the other, the first from active_, the second from passive_,
\* which rotates the lists seen as one.
Rebalanced(a, p) ==
    LET all   == a \o p
        size  == Len(all)
        half  == (size + 1) \div 2
        first == IF Len(a) > Len(p) THEN size \div 2 ELSE Len(a)
        moved == half - first
        turned == SubSeq(all, size - moved + 1, size) \o SubSeq(all, 1, size - moved)
    IN  <<SubSeq(turned, 1, half), SubSeq(turned, half + 1, size)>>

Lists(pair) == active' = pair[1] /\ passive' = pair[2]

Acquired(lists, w) == Rebalanced(<<w>> \o lists[1], lists[2])

CoordinatorInit == /\ active = <<>> /\ passive = <<>>
                   /\ awake = 0
                   /\ permission = "Allowed"
                   /\ asleep = {} /\ woken = {}

\* AcquireUnsafe, by the worker's constructor or after a wake-up.
Acquire(w) == awake' = awake + 1 /\ Lists(Acquired(<<active, passive>>, w))

\* The node leaves the list it is in.
Without(list, w) ==
    IF w \in ToSet(list) THEN RemoveAt(list, CHOOSE i \in DOMAIN list : list[i] = w) ELSE list

Unlink(w) == Lists(<<Without(active, w), Without(passive, w)>>)

\* TryParkMe up to the wait.  The lists are not balanced again.
Park(w) ==
    /\ permission = "Allowed"
    /\ Unlink(w)
    /\ awake' = awake - 1
    /\ asleep' = asleep \cup {w}
    /\ UNCHANGED <<permission, woken>>

\* Mutant of Unpark: the worker is not counted as awake again.
UnparkUncounted(w) ==
    /\ w \in woken
    /\ woken' = woken \ {w}
    /\ awake' = awake
    /\ Lists(Acquired(<<active, passive>>, w))
    /\ UNCHANGED <<permission, asleep>>

\* TryParkMe after the wait.
Unpark(w) ==
    /\ w \in woken
    /\ woken' = woken \ {w}
    /\ Acquire(w)
    /\ UNCHANGED <<permission, asleep>>

Release(w) ==
    /\ awake' = awake - 1
    /\ Lists(Rebalanced(Without(active, w), Without(passive, w)))
    /\ UNCHANGED <<permission, asleep, woken>>

Wake(w) == w \in asleep /\ asleep' = asleep \ {w} /\ woken' = woken \cup {w}

\* sleeper_.notify_one()
NotifyOne == \/ \E w \in asleep : Wake(w)
             \/ asleep = {} /\ UNCHANGED <<asleep, woken>>

Permit(p) == permission' = IF permission = "PermanentlyProhibited" THEN permission ELSE p

ProhibitParking == /\ Permit("TemporaryProhibited")
                   /\ NotifyOne
                   /\ UNCHANGED <<active, passive, awake>>

AllowParking == /\ Permit("Allowed")
                /\ UNCHANGED <<active, passive, awake, asleep, woken>>

AwakeOne == NotifyOne /\ UNCHANGED <<active, passive, awake, permission>>

\* Mutant of AwakeEveryoneForever: workers may park again.
AwakeEveryoneOnce ==
    /\ woken' = woken \cup asleep /\ asleep' = {}
    /\ UNCHANGED <<active, passive, awake, permission>>

AwakeEveryoneForever ==
    /\ permission' = "PermanentlyProhibited"
    /\ woken' = woken \cup asleep /\ asleep' = {}
    /\ UNCHANGED <<active, passive, awake>>
=============================================================================
