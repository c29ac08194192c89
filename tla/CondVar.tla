------------------------------ MODULE CondVar ------------------------------
(***************************************************************************)
(* condvar/condvar/condvar.hpp: a condition variable over a 32-bit atomic  *)
(* that threads wait on.  The threads use it as one does: the waiters wait *)
(* in a loop, under a mutex, for a token; the notifiers add a token under  *)
(* the mutex and notify.                                                   *)
(***************************************************************************)
EXTENDS Integers, FiniteSets

CONSTANTS Waiters, Notifiers,
          Nobody,          \* not a thread
          Modulus          \* 2^32 in the code: the counter must not come round
                           \* while a waiter is between its load and its wait

Threads == Waiters \cup Notifiers

VARIABLES val,             \* val_
          noticed,         \* noticed[t]: the local variable of Wait
          holder,          \* who holds the mutex
          tokens,          \* what the waiters wait for
          pc

vars == <<val, noticed, holder, tokens, pc>>

Init == /\ val = 0
        /\ noticed = [t \in Waiters |-> 0]
        /\ holder = Nobody
        /\ tokens = 0
        /\ pc = [t \in Threads |-> "lock"]

Goto(t, label) == pc' = [pc EXCEPT ![t] = label]

\* The mutex, external: entered by the user and by Wait at its end.
Lock(t) == /\ pc[t] = "lock"
           /\ holder = Nobody
           /\ holder' = t
           /\ Goto(t, "locked")
           /\ UNCHANGED <<val, noticed, tokens>>

TakeToken(t) == /\ pc[t] = "locked" /\ t \in Waiters
                /\ tokens > 0
                /\ tokens' = tokens - 1
                /\ holder' = Nobody
                /\ Goto(t, "end")
                /\ UNCHANGED <<val, noticed>>

\* Wait reads the counter before it gives up the mutex.
Wait(t) == /\ pc[t] = "locked" /\ t \in Waiters
           /\ tokens = 0
           /\ noticed' = [noticed EXCEPT ![t] = val]
           /\ Goto(t, "unlock")
           /\ UNCHANGED <<val, holder, tokens>>

Unlock(t) == /\ pc[t] = "unlock"
             /\ holder' = Nobody
             /\ Goto(t, "wait")
             /\ UNCHANGED <<val, noticed, tokens>>

\* Mutant of AtomicWait: the thread sleeps without comparing.
AtomicSleep(t) == /\ pc[t] = "wait"
                  /\ Goto(t, "asleep")
                  /\ UNCHANGED <<val, noticed, holder, tokens>>

\* val_.wait(noticed) returns if the value differs at that instant.
AtomicWait(t) == /\ pc[t] = "wait"
                 /\ Goto(t, IF val = noticed[t] THEN "asleep" ELSE "lock")
                 /\ UNCHANGED <<val, noticed, holder, tokens>>

AddToken(t) == /\ pc[t] = "locked" /\ t \in Notifiers
               /\ tokens' = tokens + 1
               /\ holder' = Nobody
               /\ Goto(t, "notify")
               /\ UNCHANGED <<val, noticed>>

FetchAdd(t) == /\ pc[t] = "notify"
               /\ val' = (val + 1) % Modulus
               /\ Goto(t, "wake")
               /\ UNCHANGED <<noticed, holder, tokens>>

\* A woken thread compares again before it returns from val_.wait.
WakeOne(t) == \E u \in Waiters : /\ pc[u] = "asleep"
                                 /\ pc' = [pc EXCEPT ![t] = "end", ![u] = "wait"]

NotifyOne(t) == /\ pc[t] = "wake"
                /\ IF \E u \in Waiters : pc[u] = "asleep" THEN WakeOne(t) ELSE Goto(t, "end")
                /\ UNCHANGED <<val, noticed, holder, tokens>>

NotifyAll(t) == /\ pc[t] = "wake"
                /\ pc' = [u \in Threads |-> CASE u = t -> "end"
                                              [] pc[u] = "asleep" -> "wait"
                                              [] OTHER -> pc[u]]
                /\ UNCHANGED <<val, noticed, holder, tokens>>

Step(t) == \/ Lock(t) \/ TakeToken(t) \/ Unlock(t) \/ AddToken(t) \/ FetchAdd(t)
           \/ NotifyOne(t) \/ NotifyAll(t)
           \/ t \in Waiters /\ (Wait(t) \/ AtomicWait(t))

Next == \E t \in Threads : Step(t)

Spec == Init /\ [][Next]_vars

-----------------------------------------------------------------------------
(* Properties *)

TypeOK == /\ val \in 0 .. Modulus - 1
          /\ noticed \in [Waiters -> 0 .. Modulus - 1]
          /\ holder \in Threads \cup {Nobody}
          /\ tokens \in Nat
          /\ pc \in [Threads -> {"lock", "locked", "unlock", "wait", "asleep", "notify", "wake", "end"}]

\* Who is bound to look for a token: a waiter that is awake, or whose counter
\* is stale so that it will not sleep.
Looking(t) == \/ pc[t] \in {"lock", "locked"}
              \/ pc[t] \in {"unlock", "wait"} /\ noticed[t] # val

\* No wake-up is lost: while a waiter sleeps, each token has a notifier that
\* has still to notify, or a waiter that will look for it.
NoLostToken ==
    (\E t \in Waiters : pc[t] = "asleep") =>
        tokens <= Cardinality({t \in Waiters : Looking(t)})
                  + Cardinality({t \in Notifiers : pc[t] \in {"notify", "wake"}})

\* With a notifier for each waiter, every waiter gets its token.
EveryWaitReturns == <>[](\A t \in Waiters : pc[t] = "end")
=============================================================================
