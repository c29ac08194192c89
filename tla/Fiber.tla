-------------------------------- MODULE Fiber --------------------------------
(***************************************************************************)
(* fibers/core: fibers on the workers of a thread pool, and the pool of    *)
(* their stacks.  What a fiber has still to do is a sequence of operations *)
(* todo[f], its call stack included: an operation takes one step, and may  *)
(* put others in its place.  Operations are tuples that start with a name; *)
(* those of this module are "yield", "go" and "throw".  Stop of the pool    *)
(* discards, and so deletes, the fibers that wait in its queue and all     *)
(* that come later; parked fibers stay.                                    *)
(***************************************************************************)
EXTENDS Integers, SequencesExt

CONSTANTS Workers, Fibers,
          Programs,     \* programs to choose from: roots, script[f] of each fiber,
                        \* and whether it stops the pool
          Null

VARIABLES stops,        \* the program stops the pool
          closed,       \* Stop was called
          ready,        \* the fibers in the pool's queue
          current,      \* current[w]: the fiber in whose Run w is
          at,           \* at[w]: where w is in Run; "fiber" is on the fiber's stack
          todo,         \* todo[f]: the operations that f has still to execute
          awaiter,      \* awaiter_ of f: "none", "yield" or a futex
          stack,        \* stack[f]: stack_ of a fiber that exists, else 0
          freed,        \* freed_
          allocated     \* how many stacks AllocateNewStack made

poolVars == <<stops, closed>>
schedulerVars == <<ready, current, at>>
stackVars == <<stack, freed, allocated>>
fiberVars == <<poolVars, schedulerVars, todo, awaiter, stackVars>>

\* The roots were started from outside the pool.
FiberInit == \E p \in Programs :
    /\ stops = p.stops /\ closed = FALSE
    /\ ready = p.roots
    /\ todo = p.script
    /\ stack = [f \in Fibers |-> IF f \in ToSet(p.roots)
                                 THEN CHOOSE i \in DOMAIN p.roots : p.roots[i] = f ELSE 0]
    /\ allocated = Len(p.roots)
    /\ freed = <<>>
    /\ current = [w \in Workers |-> Null]
    /\ at = [w \in Workers |-> "idle"]
    /\ awaiter = [f \in Fibers |-> "none"]

On(w, f) == at[w] = "fiber" /\ current[w] = f

Doing(w, f, name) == On(w, f) /\ todo[f] # <<>> /\ Head(todo[f])[1] = name

\* The fiber's operation is done and leaves these to do first.
Then(f, operations) == todo' = [todo EXCEPT ![f] = operations \o Tail(@)]

Discard(f) == /\ freed' = Append(freed, stack[f])
              /\ stack' = [stack EXCEPT ![f] = 0]

\* Submit discards what the closed queue refuses.
Schedule(f) == IF closed THEN Discard(f) /\ UNCHANGED ready
                         ELSE ready' = Append(ready, f) /\ UNCHANGED <<stack, freed>>

Goto(w, place) == at' = [at EXCEPT ![w] = place]

Idle(w) == Goto(w, "idle") /\ current' = [current EXCEPT ![w] = Null]

\* A worker takes a fiber and resumes its coroutine.
Run(w) == /\ at[w] = "idle"
          /\ ready # <<>>
          /\ current' = [current EXCEPT ![w] = Head(ready)]
          /\ ready' = Tail(ready)
          /\ awaiter' = [awaiter EXCEPT ![Head(ready)] = "none"]
          /\ Goto(w, "fiber")
          /\ UNCHANGED <<todo, stackVars>>

\* The fiber switches back to the worker's stack, with an awaiter set.
Suspend(w, f, a, operations) == /\ awaiter' = [awaiter EXCEPT ![f] = a]
                                /\ Then(f, operations)
                                /\ Goto(w, "resumed")

Yield(w, f) == /\ Doing(w, f, "yield")
               /\ Suspend(w, f, "yield", <<>>)
               /\ UNCHANGED <<ready, current, stackVars>>

\* YieldAwaiter::AwaitSuspend.
AwaitYield(w) == /\ at[w] = "resumed"
                 /\ awaiter[current[w]] = "yield"
                 /\ Schedule(current[w])
                 /\ Idle(w)
                 /\ UNCHANGED <<todo, awaiter, allocated>>

\* The stack that was freed last is used again.
Allocate(f) == IF freed = <<>>
               THEN /\ stack' = [stack EXCEPT ![f] = allocated + 1]
                    /\ allocated' = allocated + 1
                    /\ UNCHANGED freed
               ELSE /\ stack' = [stack EXCEPT ![f] = Last(freed)]
                    /\ freed' = Front(freed)
                    /\ UNCHANGED allocated

\* A stack that is freed as soon as it is allocated.
AllocateInVain == /\ freed' = IF freed = <<>> THEN <<allocated + 1>> ELSE freed
                  /\ allocated' = IF freed = <<>> THEN allocated + 1 ELSE allocated
                  /\ UNCHANGED stack

Go(w, f) == /\ Doing(w, f, "go")
            /\ LET g == Head(todo[f])[2]
               IN  IF closed THEN AllocateInVain /\ UNCHANGED ready
                             ELSE Allocate(g) /\ ready' = Append(ready, g)
            /\ Then(f, <<>>)
            /\ UNCHANGED <<current, at, awaiter>>

\* The routine returns or throws; Resume rethrows out of Run.
Finish(w, f) == /\ On(w, f)
                /\ todo[f] = <<>>
                /\ Goto(w, "resumed")
                /\ UNCHANGED <<ready, current, todo, awaiter, stackVars>>

Throw(w, f) == /\ Doing(w, f, "throw")
               /\ todo' = [todo EXCEPT ![f] = <<>>]
               /\ Goto(w, "thrown")
               /\ UNCHANGED <<ready, current, awaiter, stackVars>>

\* Run deletes the fiber that set no awaiter; the pool discards, and so
\* deletes, the task that threw.
Delete(w) == /\ \/ at[w] = "resumed" /\ awaiter[current[w]] = "none"
                \/ at[w] = "thrown"
             /\ Discard(current[w])
             /\ Idle(w)
             /\ UNCHANGED <<ready, todo, awaiter, allocated>>

\* Stop empties the queue and refuses the rest; it then joins the workers.
Stop == /\ stops /\ ~ closed
        /\ closed' = TRUE
        /\ ready' = <<>>
        /\ stack' = [f \in Fibers |-> IF f \in ToSet(ready) THEN 0 ELSE stack[f]]
        /\ freed' = freed \o [i \in DOMAIN ready |-> stack[ready[i]]]
        /\ UNCHANGED <<stops, current, at, todo, awaiter, allocated>>

FiberStep(w) == \/ Run(w) \/ AwaitYield(w) \/ Delete(w)
                \/ \E f \in Fibers : Yield(w, f) \/ Go(w, f) \/ Finish(w, f) \/ Throw(w, f)
=============================================================================
