------------------------- MODULE LivelockSimulation -------------------------
(***************************************************************************)
(* mutex/livelock/simulation.cpp: two cooperative fibers contend for a     *)
(* TrickyLock, whose lock counts the contenders and backs off.  Between    *)
(* two Yields a fiber is not interrupted; the external scheduler runs the  *)
(* fibers in turn.                                                         *)
(***************************************************************************)
EXTENDS Integers

CONSTANT Iterations       \* kIterations

VARIABLES cs_count,       \* critical sections, ever
          thread_count,   \* the lock
          pc,             \* pc[f]: where the fiber f is in contender
          iteration,      \* iteration[f]: its loop variable
          running         \* the fiber that runs

vars == <<cs_count, thread_count, pc, iteration, running>>

Contenders == 1 .. 2

Init == /\ cs_count = 0 /\ thread_count = 0
        /\ pc = [f \in Contenders |-> "lock"]
        /\ iteration = [f \in Contenders |-> 0]
        /\ running = 1

Goto(f, label) == pc' = [pc EXCEPT ![f] = label]

Yield(f) == running' = IF pc[3 - f] = "done" THEN f ELSE 3 - f

\* thread_count++ > 0, and a Yield in or after the loop.
TryLock(f) == /\ running = f /\ pc[f] = "lock"
              /\ thread_count' = thread_count + 1
              /\ Goto(f, IF thread_count > 0 THEN "backOff" ELSE "acquired")
              /\ Yield(f)
              /\ UNCHANGED <<cs_count, iteration>>

BackOff(f) == /\ running = f /\ pc[f] = "backOff"
              /\ thread_count' = thread_count - 1
              /\ Goto(f, "lock")
              /\ UNCHANGED <<cs_count, iteration, running>>

\* The critical section and the unlock, with no Yield between them.
CriticalSection(f) ==
    /\ running = f /\ pc[f] = "acquired"
    /\ cs_count' = cs_count + 1
    /\ thread_count' = thread_count - 1
    /\ iteration' = [iteration EXCEPT ![f] = @ + 1]
    /\ Goto(f, IF iteration'[f] = Iterations THEN "done" ELSE "lock")
    /\ running' = IF iteration'[f] = Iterations THEN 3 - f ELSE f

Next == \E f \in Contenders : TryLock(f) \/ BackOff(f) \/ CriticalSection(f)

-----------------------------------------------------------------------------
\* "Too many critical sections": the assertion in the test.
FewCriticalSections == cs_count < 3

\* In the end each fiber backs off for ever because of the other.
LivelockComes == <>[](\A f \in Contenders : pc[f] \in {"lock", "backOff"})
=============================================================================
