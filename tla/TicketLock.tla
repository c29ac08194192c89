----------------------------- MODULE TicketLock -----------------------------
(***************************************************************************)
(* mutex/try-lock/ticket_lock.hpp: threads draw tickets and are served in  *)
(* their order; TryLock takes the lock only while it is free.  Tickets     *)
(* have 64 bits in the code and are natural numbers here.                  *)
(***************************************************************************)
EXTENDS Integers, Sequences

CONSTANTS Threads,
          MaxTicket     \* bound on the tickets that are drawn

VARIABLES next,         \* next_free_ticket_
          owner,        \* owner_ticket_
          pc,           \* pc[t]: where t is in Lock, TryLock or Unlock
          ticket,       \* ticket[t]: the ticket t drew
          seen,         \* seen[t]: TryLock's last_seen_owner
          desired       \* desired[t]: the value its compare-exchange stores

vars == <<next, owner, pc, ticket, seen, desired>>

Init == /\ next = 0 /\ owner = 0
        /\ pc = [t \in Threads |-> "idle"]
        /\ ticket = [t \in Threads |-> 0]
        /\ seen = [t \in Threads |-> 0] /\ desired = [t \in Threads |-> 0]

Goto(t, label) == pc' = [pc EXCEPT ![t] = label]

\* The locals of TryLock end with it.
Forget(t) == seen' = [seen EXCEPT ![t] = 0] /\ desired' = [desired EXCEPT ![t] = 0]

Lock(t) == /\ pc[t] = "idle"
           /\ next < MaxTicket
           /\ ticket' = [ticket EXCEPT ![t] = next]
           /\ next' = next + 1
           /\ Goto(t, "spin")
           /\ UNCHANGED <<owner, seen, desired>>

\* The spin loop ends.
Served(t) == /\ pc[t] = "spin"
             /\ ticket[t] = owner
             /\ Goto(t, "inside")
             /\ UNCHANGED <<next, owner, ticket, seen, desired>>

TryLock(t) == /\ pc[t] = "idle"
              /\ next < MaxTicket
              /\ seen' = [seen EXCEPT ![t] = owner]
              /\ Goto(t, "tryNext")
              /\ UNCHANGED <<next, owner, ticket, desired>>

LoadNext(t) == /\ pc[t] = "tryNext"
               /\ desired' = [desired EXCEPT ![t] = next + 1]
               /\ Goto(t, "tryCas")
               /\ UNCHANGED <<next, owner, ticket, seen>>

\* Mutant of TryTicket: the ticket is compared with the one loaded before it.
TryTicketUnowned(t) == /\ pc[t] = "tryCas"
                       /\ next = desired[t] - 1
                       /\ next' = desired[t]
                       /\ ticket' = [ticket EXCEPT ![t] = next]
                       /\ Goto(t, "inside")
                       /\ Forget(t)
                       /\ UNCHANGED owner

\* The compare-exchange succeeds: the next ticket is the owner's.
TryTicket(t) == /\ pc[t] = "tryCas"
                /\ next = seen[t]
                /\ next' = desired[t]
                /\ ticket' = [ticket EXCEPT ![t] = next]
                /\ Goto(t, "inside")
                /\ Forget(t)
                /\ UNCHANGED owner

TryFails(t) == /\ pc[t] = "tryCas"
               /\ next # seen[t]
               /\ Goto(t, "idle")
               /\ Forget(t)
               /\ UNCHANGED <<next, owner, ticket>>

Unlock(t) == /\ pc[t] = "inside"
             /\ owner' = owner + 1
             /\ ticket' = [ticket EXCEPT ![t] = 0]
             /\ Goto(t, "idle")
             /\ UNCHANGED <<next, seen, desired>>

Step(t) == Served(t) \/ LoadNext(t) \/ TryTicket(t) \/ TryFails(t) \/ Unlock(t)

Next == \E t \in Threads : Lock(t) \/ TryLock(t) \/ Step(t)

Spec == Init /\ [][Next]_vars

-----------------------------------------------------------------------------
(* Properties *)

TypeOK == /\ next \in Nat /\ owner \in Nat
          /\ pc \in [Threads -> {"idle", "spin", "tryNext", "tryCas", "inside"}]
          /\ {ticket, seen, desired} \subseteq [Threads -> Nat]

Queued(t) == pc[t] \in {"spin", "inside"}

\* Two threads are never in the critical section, however Lock and TryLock mix.
MutualExclusion ==
    \A t, u \in Threads : pc[t] = "inside" /\ pc[u] = "inside" => t = u

Line == [i \in 1 .. next - owner |->
            CHOOSE t \in Threads : Queued(t) /\ ticket[t] = owner + i - 1]

Fifo == INSTANCE FifoLock WITH line <- Line, inside <- {t \in Threads : pc[t] = "inside"}

\* Threads get in one at a time, in the order of their tickets, and TryLock
\* only when nobody is inside or waits.
ImplementsFifoLock == Fifo!Spec

\* Lock returns.
LockReturns == \A t \in Threads : pc[t] = "spin" ~> pc[t] = "inside"
=============================================================================
