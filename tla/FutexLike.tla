----------------------------- MODULE FutexLike -----------------------------
(***************************************************************************)
(* fibers/sync/futex.hpp: fibers that wait on a cell.  A fiber that parks  *)
(* leaves its stack; then its worker, on its own stack, puts it into the   *)
(* wait queue, unless the cell has changed.  The awaiter lives on the      *)
(* fiber's stack while the fiber's next operation is "unpark".  Operations *)
(* are <<"park", x, old>>, <<"unpark", x>>, <<"wake", x, all>>,            *)
(* <<"awake", x, all, g>> and <<"release", x>>.                            *)
(***************************************************************************)
EXTENDS Fiber

CONSTANT Futexes

VARIABLES queue,        \* queue_ of the futex: the fibers whose awaiters it holds
          spin,         \* spin[x]: the worker that holds lock_, or Null
          old           \* old[f]: old_value_ of f's awaiter

futexVars == <<queue, spin, old>>

FutexInit == /\ queue = [x \in Futexes |-> <<>>]
             /\ spin = [x \in Futexes |-> Null]
             /\ old = [f \in Fibers |-> Null]

SpinLock(x, w) == spin[x] = Null /\ spin' = [spin EXCEPT ![x] = w]
SpinUnlock(x) == spin' = [spin EXCEPT ![x] = Null]

\* ParkIfEqual to the suspension; the section of the lock sets the awaiter.
Park(w, f) ==
    /\ Doing(w, f, "park")
    /\ LET x == Head(todo[f])[2] IN
         /\ spin[x] = Null
         /\ old' = [old EXCEPT ![f] = Head(todo[f])[3]]
         /\ Suspend(w, f, x, <<<<"unpark", x>>>>)
    /\ UNCHANGED <<ready, current, stackVars, queue, spin>>

\* Mutant of AwaitSuspend: the fiber stays in the queue though it is scheduled.
AwaitLinked(w, cell) ==
    /\ at[w] = "resumed"
    /\ LET f == current[w]  x == awaiter[f] IN
         /\ x \in Futexes
         /\ SpinLock(x, w)
         /\ queue' = [queue EXCEPT ![x] = Append(@, f)]
         /\ Goto(w, IF cell[x] = old[f] THEN "unlock" ELSE "schedule")
    /\ UNCHANGED <<ready, current, todo, awaiter, stackVars, old>>

\* FutexAwaiter::AwaitSuspend takes the lock; the fiber stays in the queue if
\* the cell has still the old value.
AwaitSuspend(w, cell) ==
    /\ at[w] = "resumed"
    /\ LET f == current[w]  x == awaiter[f] IN
         /\ x \in Futexes
         /\ SpinLock(x, w)
         /\ IF cell[x] = old[f]
            THEN queue' = [queue EXCEPT ![x] = Append(@, f)] /\ Goto(w, "unlock")
            ELSE UNCHANGED queue /\ Goto(w, "schedule")
    /\ UNCHANGED <<ready, current, todo, awaiter, stackVars, old>>

AwaitSchedule(w) == /\ at[w] = "schedule"
                    /\ Schedule(current[w])
                    /\ Goto(w, "unlock")
                    /\ UNCHANGED <<current, todo, awaiter, allocated, futexVars>>

AwaitUnlock(w) == /\ at[w] = "unlock"
                  /\ \E x \in Futexes : spin[x] = w /\ SpinUnlock(x)
                  /\ Idle(w)
                  /\ UNCHANGED <<ready, todo, awaiter, stackVars, queue, old>>

\* The queue once f's awaiter has unlinked itself, if it was linked at all.
Unlinked(q, f) ==
    IF f \in ToSet(q) THEN RemoveAt(q, CHOOSE i \in DOMAIN q : q[i] = f) ELSE q

\* The fiber runs again: ParkIfEqual takes the lock and destroys the awaiter,
\* which unlinks itself.
Unpark(w, f) ==
    /\ Doing(w, f, "unpark")
    /\ LET x == Head(todo[f])[2] IN
         /\ spin[x] = Null
         /\ queue' = [queue EXCEPT ![x] = Unlinked(@, f)]
    /\ old' = [old EXCEPT ![f] = Null]
    /\ Then(f, <<>>)
    /\ UNCHANGED <<schedulerVars, awaiter, stackVars, spin>>

\* WakeOne, or WakeAll, takes the lock and the first awaiter.
Wake(w, f) ==
    /\ Doing(w, f, "wake")
    /\ LET x == Head(todo[f])[2]  all == Head(todo[f])[3] IN
         /\ SpinLock(x, w)
         /\ IF queue[x] = <<>>
            THEN UNCHANGED queue /\ Then(f, <<<<"release", x>>>>)
            ELSE /\ queue' = [queue EXCEPT ![x] = Tail(@)]
                 /\ Then(f, <<<<"awake", x, all, Head(queue[x])>>>>)
    /\ UNCHANGED <<schedulerVars, awaiter, stackVars, old>>

\* Awake schedules the fiber; WakeAll takes the next awaiter.
Awake(w, f) ==
    /\ Doing(w, f, "awake")
    /\ LET x == Head(todo[f])[2]  all == Head(todo[f])[3] IN
         /\ Schedule(Head(todo[f])[4])
         /\ IF all /\ queue[x] # <<>>
            THEN /\ queue' = [queue EXCEPT ![x] = Tail(@)]
                 /\ Then(f, <<<<"awake", x, all, Head(queue[x])>>>>)
            ELSE UNCHANGED queue /\ Then(f, <<<<"release", x>>>>)
    /\ UNCHANGED <<current, at, awaiter, allocated, spin, old>>

Release(w, f) == /\ Doing(w, f, "release")
                 /\ SpinUnlock(Head(todo[f])[2])
                 /\ Then(f, <<>>)
                 /\ UNCHANGED <<schedulerVars, awaiter, stackVars, queue, old>>

FutexStep(w, cell) ==
    \/ AwaitSuspend(w, cell) \/ AwaitSchedule(w) \/ AwaitUnlock(w)
    \/ \E f \in Fibers : Park(w, f) \/ Unpark(w, f) \/ Wake(w, f) \/ Awake(w, f) \/ Release(w, f)
=============================================================================
