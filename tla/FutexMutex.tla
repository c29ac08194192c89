----------------------------- MODULE FutexMutex -----------------------------
(***************************************************************************)
(* mutex/mutex/mutex.hpp: a mutex whose waiters sleep on its atomic.       *)
(* FutexWait(1) sleeps if the value is 1 at that instant; notify_one wakes *)
(* one sleeper; a sleeper may wake spuriously.                             *)
(***************************************************************************)
EXTENDS Integers

CONSTANT Threads

VARIABLES access,      \* access_
          pc

vars == <<access, pc>>

Init == access = 0 /\ pc = [t \in Threads |-> "idle"]

Goto(t, label) == pc' = [pc EXCEPT ![t] = label]

Lock(t) == pc[t] = "idle" /\ Goto(t, "exchange") /\ UNCHANGED access

Exchange(t) == /\ pc[t] = "exchange"
               /\ access' = 1
               /\ Goto(t, IF access = 0 THEN "inside" ELSE "wait")

FutexWait(t) == /\ pc[t] = "wait"
                /\ Goto(t, IF access = 1 THEN "asleep" ELSE "exchange")
                /\ UNCHANGED access

SpuriousWakeUp(t) == pc[t] = "asleep" /\ Goto(t, "exchange") /\ UNCHANGED access

Unlock(t) == pc[t] = "inside" /\ access' = 0 /\ Goto(t, "notify")

NotifyOne(t) ==
    /\ pc[t] = "notify"
    /\ LET asleep == {u \in Threads : pc[u] = "asleep"}
       IN  IF asleep = {} THEN Goto(t, "idle")
           ELSE \E u \in asleep : pc' = [pc EXCEPT ![t] = "idle", ![u] = "exchange"]
    /\ UNCHANGED access

Step(t) == Exchange(t) \/ FutexWait(t) \/ Unlock(t) \/ NotifyOne(t)

Next == \E t \in Threads : Lock(t) \/ Step(t) \/ SpuriousWakeUp(t)

Spec == Init /\ [][Next]_vars

-----------------------------------------------------------------------------
(* Properties *)

TypeOK == /\ access \in {0, 1}
          /\ pc \in [Threads -> {"idle", "exchange", "wait", "asleep", "inside", "notify"}]

MutualExclusion ==
    \A t, u \in Threads : pc[t] = "inside" /\ pc[u] = "inside" => t = u

\* While a thread sleeps somebody holds the mutex or is about to look at it
\* or to notify: no sleeper is left beside a free mutex.
NoSleeperForgotten ==
    (\E t \in Threads : pc[t] = "asleep") =>
        \E u \in Threads : pc[u] \in {"exchange", "wait", "inside", "notify"}

\* Some waiting thread gets in.
SomebodyGetsIn ==
    (\E t \in Threads : pc[t] \in {"exchange", "wait", "asleep"})
        ~> (\E t \in Threads : pc[t] = "inside")
=============================================================================
