----------------------------- MODULE Semaphore -----------------------------
(***************************************************************************)
(* condvar/semaphore/semaphore.hpp, for a set of semaphores.  Each         *)
(* operator is one critical section of a semaphore's mutex; a thread in    *)
(* sleeping[s] waits on its condition variable.                            *)
(***************************************************************************)
EXTENDS Integers

VARIABLES tokens,      \* tokens[s]: tokens_
          sleeping     \* sleeping[s]: the threads that wait for a token

semaphoreVars == <<tokens, sleeping>>

SemaphoreInit(initial, semaphores) ==
    /\ tokens = initial
    /\ sleeping = [s \in semaphores |-> {}]

Asleep(t) == \E s \in DOMAIN sleeping : t \in sleeping[s]

\* Acquire, from the call or from a wake-up.
Acquire(s, t) == /\ t \notin sleeping[s]
                 /\ tokens[s] > 0
                 /\ tokens' = [tokens EXCEPT ![s] = @ - 1]
                 /\ UNCHANGED sleeping

Sleep(s, t) == /\ t \notin sleeping[s]
               /\ tokens[s] = 0
               /\ sleeping' = [sleeping EXCEPT ![s] = @ \cup {t}]
               /\ UNCHANGED tokens

WakeSpuriously(s, t) == /\ t \in sleeping[s]
                        /\ sleeping' = [sleeping EXCEPT ![s] = @ \ {t}]
                        /\ UNCHANGED tokens

\* Release notifies any one waiter.
Release(s) ==
    /\ tokens' = [tokens EXCEPT ![s] = @ + 1]
    /\ IF sleeping[s] = {} THEN UNCHANGED sleeping
       ELSE \E t \in sleeping[s] : sleeping' = [sleeping EXCEPT ![s] = @ \ {t}]
=============================================================================
