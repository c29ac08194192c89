------------------------- MODULE DeadlockSimulation -------------------------
(***************************************************************************)
(* mutex/deadlock/simulation.cpp: two tests on cooperative fibers, in      *)
(* which fibers must block each other for ever.  A fiber is the sequence   *)
(* of calls it has still to make.  The fibers' library is external: the    *)
(* fiber at the head of the run queue runs until it yields, blocks or      *)
(* ends; Spawn puts a fiber at its end; a Join here waits for all fibers   *)
(* spawned so far.                                                         *)
(***************************************************************************)
EXTENDS Integers, Sequences, SequencesExt

VARIABLES test,      \* the test that runs
          run,       \* the run queue
          todo,      \* todo[f]: the calls f has still to make; fiber 1 is the test's
          owner,     \* owner[m]: the fiber that holds the mutex m, or 0
          handler    \* a deadlock handler is set

vars == <<test, run, todo, owner, handler>>

Locker == << <<"lock", "mutex">>, <<"lock", "mutex">>,
             <<"unlock", "mutex">>, <<"unlock", "mutex">> >>

First == << <<"lock", "a">>, <<"yield">>, <<"lock", "b">>,
            <<"unlock", "a">>, <<"unlock", "b">> >>

\* Mutant of Second: both fibers take the mutexes in one order.
SecondInOrder == << <<"lock", "a">>, <<"yield">>, <<"lock", "b">>,
                    <<"unlock", "b">>, <<"unlock", "a">> >>

Second == << <<"lock", "b">>, <<"yield">>, <<"lock", "a">>,
             <<"unlock", "b">>, <<"unlock", "a">> >>

OneFiber == << <<"handler">>, <<"spawn", Locker>>, <<"join">>, <<"panic">> >>

TwoFibers == << <<"spawn", First>>, <<"join">>, <<"spawn", First>>, <<"join">>,
                <<"spawn", Second>>, <<"join">>, <<"spawn", Second>>, <<"join">>,
                <<"handler">>,
                <<"spawn", First>>, <<"spawn", Second>>, <<"join">>, <<"panic">> >>

Init == /\ test \in {"OneFiber", "TwoFibers"}
        /\ run = <<1>>
        /\ todo = << IF test = "OneFiber" THEN OneFiber ELSE TwoFibers >>
        /\ owner = [m \in {"mutex", "a", "b"} |-> 0]
        /\ handler = FALSE

Ended(f) == todo[f] = <<>>

\* The running fiber makes this call next.
NextCall(name) == run # <<>> /\ ~ Ended(Head(run)) /\ Head(todo[Head(run)])[1] = name

Argument == Head(todo[Head(run)])[2]

Called == todo' = [todo EXCEPT ![Head(run)] = Tail(@)]

SetDeadlockHandler == /\ NextCall("handler")
                      /\ handler' = TRUE
                      /\ Called
                      /\ UNCHANGED <<test, run, owner>>

Spawn == /\ NextCall("spawn")
         /\ todo' = Append([todo EXCEPT ![1] = Tail(@)], Argument)
         /\ run' = Append(run, Len(todo) + 1)
         /\ UNCHANGED <<test, owner, handler>>

\* A fiber that waits for another, or for a mutex, leaves the run queue and
\* makes its call again when it is back there.
Block == /\ \/ NextCall("join") /\ \E f \in 2 .. Len(todo) : ~ Ended(f)
            \/ NextCall("lock") /\ owner[Argument] # 0
         /\ run' = Tail(run)
         /\ UNCHANGED <<test, todo, owner, handler>>

Join == /\ NextCall("join")
        /\ \A f \in 2 .. Len(todo) : Ended(f)
        /\ Called
        /\ UNCHANGED <<test, run, owner, handler>>

Lock == /\ NextCall("lock")
        /\ owner[Argument] = 0
        /\ owner' = [owner EXCEPT ![Argument] = Head(run)]
        /\ Called
        /\ UNCHANGED <<test, run, handler>>

\* The fibers that wait for the mutex are put back in the run queue.
Unlock == /\ NextCall("unlock")
          /\ owner' = [owner EXCEPT ![Argument] = 0]
          /\ run' = run \o SetToSeq({f \in DOMAIN todo \ ToSet(run) :
                                       ~ Ended(f) /\ Head(todo[f]) = <<"lock", Argument>>})
          /\ Called
          /\ UNCHANGED <<test, handler>>

Yield == /\ NextCall("yield")
         /\ run' = Append(Tail(run), Head(run))
         /\ Called
         /\ UNCHANGED <<test, owner, handler>>

\* The fiber has returned; the test's fiber, which may have waited for that,
\* is in the run queue.
Return == /\ run # <<>> /\ Ended(Head(run))
          /\ run' = IF 1 \in ToSet(run) THEN Tail(run) ELSE Append(Tail(run), 1)
          /\ UNCHANGED <<test, todo, owner, handler>>

Next == \/ SetDeadlockHandler \/ Spawn \/ Block \/ Join
        \/ Lock \/ Unlock \/ Yield \/ Return

-----------------------------------------------------------------------------
\* Nothing can run, and the test has not ended.
Deadlocked == run = <<>> /\ ~ Ended(1)

\* "No deadlock with one fiber", which "leaves mutexes in unlocked state": fibers
\* block each other only where the test has set its handler; and "We do not
\* expect to reach this line".
BreaksAsExpected == /\ Deadlocked => handler
                    /\ NextCall("join") /\ ~ handler => \A f \in 2 .. Len(todo) :
                           Ended(f) => \A m \in DOMAIN owner : owner[m] # f
                    /\ ~ NextCall("panic")

\* The deadlock does occur.
DeadlockComes == <>[] Deadlocked
=============================================================================
