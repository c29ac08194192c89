--------------------------- MODULE SleepingFiber ---------------------------
(***************************************************************************)
(* sleep_for/exe/fibers/core: fibers on the threads that run an            *)
(* io_context, which runs the handlers posted to it and those of timers    *)
(* that expired.  A fiber's script is a sequence of the operations         *)
(* <<"yield">>, <<"sleep", delay>>, <<"go", f>> and <<"throw">>.           *)
(***************************************************************************)
EXTENDS Integers, Sequences

CONSTANTS Workers, Fibers,
          Programs,     \* programs to choose from: roots, and script[f] of each fiber
          Null

VARIABLES posted,       \* the io_context's handlers: <<"step", f>> or <<"timer", f>>
          timers,       \* the waits that have not expired: <<f, when>>
          now,          \* the steady clock
          state,        \* state_ of a fiber that exists, else Null
          todo,         \* todo[f]: what f has still to do
          pc,           \* pc[w]: where w is in Step, in a timer's handler, or in the fiber
          current,      \* current_fiber, of each thread
          timer,        \* curr_timer, of each thread: the fiber on whose stack it is
          delay,        \* curr_delay, of each thread
          due           \* history: when the last sleep of f may end

context == <<posted, timers, now>>
locals == <<timer, delay>>
vars == <<context, state, todo, pc, current, locals, due>>

Init == \E p \in Programs :
    /\ posted = [i \in DOMAIN p.roots |-> <<"step", p.roots[i]>>]
    /\ timers = {} /\ now = 0
    /\ state = [f \in Fibers |-> IF \E i \in DOMAIN p.roots : p.roots[i] = f
                                 THEN "Rescheduling" ELSE Null]
    /\ todo = p.script
    /\ pc = [w \in Workers |-> "idle"]
    /\ current = [w \in Workers |-> Null]
    /\ timer = [w \in Workers |-> Null] /\ delay = [w \in Workers |-> 0]
    /\ due = [f \in Fibers |-> 0]

Goto(w, label) == pc' = [pc EXCEPT ![w] = label]

SetState(f, s) == state' = [state EXCEPT ![f] = s]

\* A thread takes a handler.  Step resumes the coroutine; a timer's handler
\* makes the fiber runnable.
Step(w) == /\ pc[w] = "idle"
           /\ posted # <<>> /\ Head(posted)[1] = "step"
           /\ posted' = Tail(posted)
           /\ current' = [current EXCEPT ![w] = Head(posted)[2]]
           /\ timer' = [timer EXCEPT ![w] = Null]
           /\ SetState(Head(posted)[2], "Running")
           /\ Goto(w, "fiber")
           /\ UNCHANGED <<timers, now, todo, delay, due>>

TimerHandler(w) == /\ pc[w] = "idle"
                   /\ posted # <<>> /\ Head(posted)[1] = "timer"
                   /\ posted' = Tail(posted)
                   /\ current' = [current EXCEPT ![w] = Head(posted)[2]]
                   /\ SetState(Head(posted)[2], "Waiting")
                   /\ Goto(w, "schedule")
                   /\ UNCHANGED <<timers, now, todo, locals, due>>

\* The fiber that w runs calls this operation next, and is done with it.
ToDo(w, name) == LET f == current[w] IN
    /\ pc[w] = "fiber"
    /\ todo[f] # <<>> /\ Head(todo[f])[1] = name
    /\ todo' = [todo EXCEPT ![f] = Tail(@)]

Yield(w) == /\ ToDo(w, "yield")
            /\ SetState(current[w], "Waiting")
            /\ Goto(w, "resumed")
            /\ UNCHANGED <<context, current, locals, due>>

\* The timer is on the fiber's stack; the thread remembers where.
SleepFor(w) == /\ ToDo(w, "sleep")
               /\ SetState(current[w], "Sleeping")
               /\ timer' = [timer EXCEPT ![w] = current[w]]
               /\ delay' = [delay EXCEPT ![w] = Head(todo[current[w]])[2]]
               /\ due' = [due EXCEPT ![current[w]] = now + Head(todo[current[w]])[2]]
               /\ Goto(w, "resumed")
               /\ UNCHANGED <<context, current>>

Go(w) == /\ ToDo(w, "go")
         /\ LET g == Head(todo[current[w]])[2]
            IN  /\ SetState(g, "Rescheduling")
                /\ posted' = Append(posted, <<"step", g>>)
         /\ UNCHANGED <<timers, now, pc, current, locals, due>>

Return(w) == /\ pc[w] = "fiber" /\ todo[current[w]] = <<>>
             /\ Goto(w, "resumed")
             /\ UNCHANGED <<context, state, todo, current, locals, due>>

\* The exception leaves Resume, Step and io_context::run, and ends the thread;
\* nobody deletes the fiber.
Throw(w) == /\ ToDo(w, "throw")
            /\ Goto(w, "gone")
            /\ UNCHANGED <<context, state, current, locals, due>>

\* Step looks why the fiber was suspended.
Resumed(w) == /\ pc[w] = "resumed"
              /\ Goto(w, IF state[current[w]] = "Sleeping" THEN "arm" ELSE "schedule")
              /\ UNCHANGED <<context, state, todo, current, locals, due>>

AsyncWait(w) == /\ pc[w] = "arm"
                /\ timers' = timers \cup {<<timer[w], now + delay[w]>>}
                /\ Goto(w, "idle")
                /\ UNCHANGED <<posted, now, state, todo, current, locals, due>>

\* A fiber that did not suspend itself has ended.
Schedule(w) == /\ pc[w] = "schedule"
               /\ IF state[current[w]] # "Running"
                  THEN posted' = Append(posted, <<"step", current[w]>>) /\ UNCHANGED state
                  ELSE SetState(current[w], Null) /\ UNCHANGED posted
               /\ Goto(w, "idle")
               /\ UNCHANGED <<timers, now, todo, current, locals, due>>

\* A timer expires.  The clock moves only while a timer can tell.
Expire == \E t \in timers : /\ t[2] <= now
                            /\ timers' = timers \ {t}
                            /\ posted' = Append(posted, <<"timer", t[1]>>)
                            /\ UNCHANGED <<now, state, todo, pc, current, locals, due>>

Tick == /\ \E t \in timers : now < t[2]
        /\ now' = now + 1
        /\ UNCHANGED <<posted, timers, state, todo, pc, current, locals, due>>

WorkerStep(w) == \/ Step(w) \/ TimerHandler(w)
                 \/ Yield(w) \/ SleepFor(w) \/ Go(w) \/ Return(w) \/ Throw(w)
                 \/ Resumed(w) \/ AsyncWait(w) \/ Schedule(w)

Next == Expire \/ Tick \/ \E w \in Workers : WorkerStep(w)

Spec == Init /\ [][Next]_vars

-----------------------------------------------------------------------------
(* Properties *)

Held(f) == {w \in Workers : current[w] = f /\ pc[w] # "idle"}

Waits(f) == {i \in DOMAIN posted : posted[i][2] = f}

\* A fiber that exists is in one place: with one thread, posted once, or asleep
\* with one timer; and nothing refers to one that was deleted.
OnePlace == \A f \in Fibers :
    LET asleep == {t \in timers : t[1] = f}
        places == {<<"thread", w>> : w \in Held(f)} \cup {<<"posted", i>> : i \in Waits(f)}
                  \cup {<<"asleep", t>> : t \in asleep}
    IN  IF state[f] = Null THEN places = {} ELSE \E p \in places : places = {p}

\* The timer that a thread arms is that of the fiber which has just run there.
TimerIsMine == \A w \in Workers : pc[w] = "arm" => timer[w] = current[w]

\* SleepFor does not return before its delay is over.
NobodyWakesEarly == \A w \in Workers : pc[w] = "fiber" => due[current[w]] <= now

\* Every fiber is deleted in the end, unless it threw.
EverySleeperEnds ==
    <>[](\A f \in Fibers : state[f] # Null => \E w \in Workers : pc[w] = "gone" /\ current[w] = f)
=============================================================================
