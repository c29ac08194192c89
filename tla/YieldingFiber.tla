--------------------------- MODULE YieldingFiber ---------------------------
(***************************************************************************)
(* The first fibers (fibers/coroutine): a fiber is a task of the pool that *)
(* resumes a coroutine, and the worker schedules it again when it yields.  *)
(* The pool keeps tasks in a FIFO queue, which Stop clears; a task is a    *)
(* plain pointer to its fiber, so a fiber whose task is dropped stays.  A  *)
(* script is a sequence of <<"yield">>, <<"go", f>> and <<"throw">>.       *)
(***************************************************************************)
EXTENDS Integers, SequencesExt

CONSTANTS Workers, Fibers,
          Roots,        \* the fibers started from outside, in this order
          Script,       \* Script[f]: what f does
          Null

VARIABLES tasks,        \* the pool's queue
          closed,       \* Stop was called
          at,           \* at[w]: where w is in ThreadRoutine and Step
          task,         \* task[w]: the fiber whose Step w runs
          current,      \* current[w]: the thread-local current_fiber
          todo,         \* todo[f]: what f has still to do
          alive,        \* fibers that exist
          threw,        \* fibers that ended with an exception
          dropped       \* fibers whose task was dropped, by Stop or after it

pool == <<tasks, closed>>
place == <<at, task>>
fates == <<alive, threw, dropped>>
vars == <<pool, place, current, todo, fates>>

Init == /\ tasks = Roots /\ closed = FALSE
        /\ at = [w \in Workers |-> "idle"] /\ task = [w \in Workers |-> Null]
        /\ current = [w \in Workers |-> Null]
        /\ todo = Script
        /\ alive = ToSet(Roots) /\ threw = {} /\ dropped = {}

Goto(w, label) == at' = [at EXCEPT ![w] = label]

\* Submit puts the fiber's task in the queue, which refuses it after Stop.
Submit(f) == IF closed THEN dropped' = dropped \cup {f} /\ UNCHANGED tasks
                       ELSE tasks' = Append(tasks, f) /\ UNCHANGED dropped

\* A worker takes a task, and its Step resumes the coroutine.
Step(w) == /\ at[w] = "idle" /\ tasks # <<>>
           /\ tasks' = Tail(tasks)
           /\ task' = [task EXCEPT ![w] = Head(tasks)]
           /\ current' = [current EXCEPT ![w] = Head(tasks)]
           /\ Goto(w, "fiber")
           /\ UNCHANGED <<closed, todo, fates>>

Exit(w) == /\ at[w] = "idle" /\ tasks = <<>> /\ closed
           /\ Goto(w, "exited")
           /\ UNCHANGED <<pool, task, current, todo, fates>>

\* The fiber that w runs has this to do next.
ToDo(w, name) == LET f == task[w] IN
    /\ at[w] = "fiber"
    /\ todo[f] # <<>> /\ Head(todo[f])[1] = name
    /\ todo' = [todo EXCEPT ![f] = Tail(@)]

Go(w) == /\ ToDo(w, "go")
         /\ LET g == Head(todo[task[w]])[2]
            IN  /\ alive' = alive \cup {g}
                /\ Submit(g)
         /\ UNCHANGED <<closed, place, current, threw>>

\* The coroutine of the fiber that current_fiber names switches back.
Yield(w) == /\ ToDo(w, "yield")
            /\ Goto(w, "suspended")
            /\ UNCHANGED <<pool, task, current, fates>>

Finish(w) == /\ at[w] = "fiber" /\ todo[task[w]] = <<>>
             /\ Goto(w, "completed")
             /\ UNCHANGED <<pool, task, current, todo, fates>>

\* Resume rethrows, past the rest of Step; the pool's handler swallows it.
Throw(w) == /\ ToDo(w, "throw")
            /\ threw' = threw \cup {task[w]}
            /\ Goto(w, "idle") /\ task' = [task EXCEPT ![w] = Null]
            /\ UNCHANGED <<pool, current, alive, dropped>>

Schedule(w) == /\ at[w] = "suspended"
               /\ Submit(task[w])
               /\ Goto(w, "left")
               /\ UNCHANGED <<closed, task, current, todo, alive, threw>>

Delete(w) == /\ at[w] = "completed"
             /\ alive' = alive \ {task[w]}
             /\ Goto(w, "left")
             /\ UNCHANGED <<pool, task, current, todo, threw, dropped>>

LeaveStep(w) == /\ at[w] = "left"
                /\ current' = [current EXCEPT ![w] = Null]
                /\ Goto(w, "idle") /\ task' = [task EXCEPT ![w] = Null]
                /\ UNCHANGED <<pool, todo, fates>>

Stop == /\ ~ closed
        /\ closed' = TRUE
        /\ tasks' = <<>>
        /\ dropped' = dropped \cup ToSet(tasks)
        /\ UNCHANGED <<place, current, todo, alive, threw>>

WorkerStep(w) == \/ Step(w) \/ Exit(w) \/ Go(w) \/ Yield(w) \/ Finish(w) \/ Throw(w)
                 \/ Schedule(w) \/ Delete(w) \/ LeaveStep(w)

Next == Stop \/ \E w \in Workers : WorkerStep(w)

-----------------------------------------------------------------------------
Holders(f) == {w \in Workers : task[w] = f /\ at[w] # "left"}

Waits(f) == {i \in DOMAIN tasks : tasks[i] = f}

\* A fiber that exists is in one place: with one worker, in the queue once,
\* or nowhere after it threw or was dropped.  So no two workers are on its
\* stack, although another may take it before the one that scheduled it is done.
FiberInOnePlace == \A f \in Fibers :
    LET places == {<<"worker", w>> : w \in Holders(f)} \cup {<<"queue", i>> : i \in Waits(f)}
                  \cup {<<"gone", "threw">> : x \in threw \cap {f}}
                  \cup {<<"gone", "dropped">> : x \in dropped \cap {f}}
    IN  IF f \in alive THEN \E p \in places : places = {p} ELSE places = {}

\* Yield and Go of a fiber find that fiber in current_fiber; and what a worker
\* leaves in it, when an exception skips the reset, is not a deleted fiber.
SelfIsRunning == \A w \in Workers :
    /\ at[w] = "fiber" => current[w] = task[w]
    /\ at[w] \in {"idle", "exited"} => current[w] \in {Null} \cup threw
    /\ threw \subseteq alive

\* Every fiber is run to its end, unless the pool is stopped.
EveryYielderEnds == <>[](closed \/ alive = threw)
=============================================================================
