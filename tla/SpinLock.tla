------------------------------ MODULE SpinLock ------------------------------
(***************************************************************************)
(* The test-and-set spin locks: support/spinlock.hpp of the fibers, which  *)
(* looks before it tries again, and mutex/spinlock/spinlock.hpp, which has *)
(* TryLock and tries again at once.                                        *)
(***************************************************************************)
CONSTANTS Threads

VARIABLES locked,      \* locked_, or ~ free_
          pc

vars == <<locked, pc>>

Init == locked = FALSE /\ pc = [t \in Threads |-> "idle"]

Goto(t, label) == pc' = [pc EXCEPT ![t] = label]

Lock(t) == pc[t] = "idle" /\ Goto(t, "exchange") /\ UNCHANGED locked

\* Mutant of Exchange: a load and a store instead of an exchange.
ExchangeInTwo(t) == /\ pc[t] = "exchange"
                    /\ locked' = TRUE
                    /\ Goto(t, "inside")

Exchange(t) == /\ pc[t] = "exchange"
               /\ locked' = TRUE
               /\ \/ ~ locked /\ Goto(t, "inside")
                  \/ locked /\ (Goto(t, "test") \/ UNCHANGED pc)

Test(t) == pc[t] = "test" /\ ~ locked /\ Goto(t, "exchange") /\ UNCHANGED locked

TryLock(t) == /\ pc[t] = "idle"
              /\ locked' = TRUE
              /\ IF locked THEN UNCHANGED pc ELSE Goto(t, "inside")

Unlock(t) == pc[t] = "inside" /\ locked' = FALSE /\ Goto(t, "idle")

Step(t) == Exchange(t) \/ Test(t) \/ Unlock(t)

Next == \E t \in Threads : Lock(t) \/ TryLock(t) \/ Step(t)

Spec == Init /\ [][Next]_vars

-----------------------------------------------------------------------------
(* Properties *)

TypeOK == /\ locked \in BOOLEAN
          /\ pc \in [Threads -> {"idle", "exchange", "test", "inside"}]

MutualExclusion ==
    \A t, u \in Threads : pc[t] = "inside" /\ pc[u] = "inside" => t = u

\* Some waiting thread gets in.
SomebodyGetsIn ==
    (\E t \in Threads : pc[t] # "idle") ~> (\E t \in Threads : pc[t] = "inside")
=============================================================================
