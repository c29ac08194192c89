--------------------------- MODULE QueueSpinLock ---------------------------
(***************************************************************************)
(* mutex/queue/queue_spinlock.hpp: threads queue as a linked list of nodes *)
(* and each spins on its own node.  A node is part of a Guard on its       *)
(* thread's stack: it dies when the guard's destructor returns, and the    *)
(* next guard of the thread may have the same address.                     *)
(***************************************************************************)
EXTENDS Integers, Sequences, FiniteSets

CONSTANTS Threads, Null

VARIABLES last,         \* end_
          succ,         \* succ[t]: next_ in t's node
          waiting,      \* waiting[t]: not_changed_ in t's node
          pc,
          prev          \* prev[t]: the local variable of Acquire

vars == <<last, succ, waiting, pc, prev>>

Init == /\ last = Null
        /\ succ = [t \in Threads |-> Null]
        /\ waiting = [t \in Threads |-> TRUE]
        /\ pc = [t \in Threads |-> "idle"]
        /\ prev = [t \in Threads |-> Null]

Goto(t, label) == pc' = [pc EXCEPT ![t] = label]

\* The constructor of the guard, with a new node, and the exchange.
Acquire(t) == /\ pc[t] = "idle"
              /\ prev' = [prev EXCEPT ![t] = last]
              /\ last' = t
              /\ Goto(t, IF last = Null THEN "inside" ELSE "link")
              /\ UNCHANGED <<succ, waiting>>

\* The guard and its node are destroyed; its address holds the initial node
\* of the thread's next guard.
Destroy(t) == /\ succ' = [succ EXCEPT ![t] = Null]
              /\ prev' = [prev EXCEPT ![t] = Null]
              /\ Goto(t, "idle")

Link(t) == /\ pc[t] = "link"
           /\ succ' = [succ EXCEPT ![prev[t]] = t]
           /\ Goto(t, "spin")
           /\ UNCHANGED <<last, waiting, prev>>

Served(t) == /\ pc[t] = "spin"
             /\ ~ waiting[t]
             /\ Goto(t, "inside")
             /\ UNCHANGED <<last, succ, waiting, prev>>

\* The compare-exchange of Release succeeds when nobody queued behind t.
ReleaseLast(t) == /\ pc[t] = "inside"
                  /\ last = t
                  /\ last' = Null
                  /\ Destroy(t)
                  /\ waiting' = [waiting EXCEPT ![t] = TRUE]

ReleaseFails(t) == /\ pc[t] = "inside"
                   /\ last # t
                   /\ Goto(t, "await")
                   /\ UNCHANGED <<last, succ, waiting, prev>>

\* Mutant of PassOn: a node that is not linked yet is not waited for.
PassOnToNobody(t) ==
    /\ pc[t] = "await"
    /\ waiting' = [u \in Threads |-> u # succ[t] /\ (u = t \/ waiting[u])]
    /\ Destroy(t)
    /\ UNCHANGED last

\* The loop has seen the successor, whose node is told.
PassOn(t) == /\ pc[t] = "await"
             /\ succ[t] # Null
             /\ waiting' = [waiting EXCEPT ![succ[t]] = FALSE, ![t] = TRUE]
             /\ Destroy(t)
             /\ UNCHANGED last

Step(t) == Link(t) \/ Served(t) \/ ReleaseLast(t) \/ ReleaseFails(t) \/ PassOn(t)

Next == \E t \in Threads : Acquire(t) \/ Step(t)

Spec == Init /\ [][Next]_vars

-----------------------------------------------------------------------------
(* Properties *)

TypeOK == /\ last \in Threads \cup {Null}
          /\ {succ, prev} \subseteq [Threads -> Threads \cup {Null}]
          /\ waiting \in [Threads -> BOOLEAN]
          /\ pc \in [Threads -> {"idle", "link", "spin", "inside", "await"}]

\* A thread stores to another's node only during the life of the guard it
\* found there: its predecessor has not let go, its successor still spins.
NodesAlive ==
    \A t \in Threads :
        /\ pc[t] = "link" => pc[prev[t]] # "idle" /\ succ[prev[t]] = Null
        /\ pc[t] = "await" /\ succ[t] # Null =>
              pc[succ[t]] = "spin" /\ prev[succ[t]] = t /\ waiting[succ[t]]

Holders == {t \in Threads : pc[t] \in {"inside", "await"}}

Queued == {t \in Threads : pc[t] # "idle"}

\* The order of the exchanges: back from end_ along prev.
Line == CHOOSE s \in [1 .. Cardinality(Queued) -> Queued] :
            /\ Queued # {} => s[Len(s)] = last
            /\ \A i \in 2 .. Len(s) : prev[s[i]] = s[i - 1]

Fifo == INSTANCE FifoLock WITH line <- Line, inside <- Holders

\* Threads get in one at a time, in the order of their exchanges.
ImplementsFifoLock == Fifo!Spec

\* Acquire returns.
AcquireReturns == \A t \in Threads : pc[t] \in {"link", "spin"} ~> pc[t] = "inside"
=============================================================================
