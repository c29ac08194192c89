------------------------------- MODULE MCSync -------------------------------
(***************************************************************************)
(* The locks, the philosophers, the blocking primitives, the coroutines,   *)
(* the fibers that yield and those that sleep, and the simulations, for    *)
(* TLC.  Which of them runs is chosen in the initial state; the others     *)
(* never move.                                                             *)
(***************************************************************************)
EXTENDS Integers, Sequences, FiniteSets

CONSTANTS Lockers, MaxTicket, Null, Seats,
          Producers, Consumers, Capacity, Calls,
          Waiters, Notifiers, Modulus,
          MaxParticipants, Rounds,
          Workers, Fibers,
          Coroutines, MaxSuspends, Iterations

\* Null stands for no thread, fiber, coroutine or state.  The counter of the condition
\* variable does not come round, and the scripts below are those of three fibers.
ASSUME SyncAssumption ==
    /\ Null \notin Lockers \cup Waiters \cup Notifiers \cup Workers \cup Fibers \cup Coroutines
    /\ Null \notin {"Rescheduling", "Running", "Waiting", "Sleeping"}
    /\ IsFiniteSet(Waiters) /\ IsFiniteSet(Notifiers) /\ Waiters \cap Notifiers = {}
    /\ IsFiniteSet(Producers) /\ IsFiniteSet(Consumers) /\ Producers \cap Consumers = {}
    /\ {Seats, Capacity, MaxParticipants, Modulus} \subseteq Nat
    /\ Cardinality(Notifiers) < Modulus
    /\ Fibers = 1 .. 3

VARIABLES kind,
          next, owner, ticket, seen, desired, pcTicket,
          last, succ, waiting, prev, pcQueue,
          access, pcMutex,
          locked, pcSpin,
          fork, pcDining,
          val, noticed, holder, tokensCond, pcCond,
          tokens, sleeping, queue, step, calls,
          participants, waitingBarrier, opened, pcBarrier, arrived, passed,
          message, closed, producer, consumer, got,
          posted, timers, now, state, todo, pcSleep, current, timer, delay, due,
          object, mutex, at, copy, round,
          stateCo, caught, currentCo, resumptions, atCo, suspends,
          tasks, stopped, atYield, task, currentYield, todoYield, alive, threw, dropped,
          test, run, todoDead, ownerDead, handler,
          cs_count, thread_count, pcLive, iteration, running

ticketVars == <<next, owner, ticket, seen, desired, pcTicket>>
queueVars == <<last, succ, waiting, prev, pcQueue>>
mutexVars == <<access, pcMutex>>
spinVars == <<locked, pcSpin>>
diningVars == <<fork, pcDining>>
condVars == <<val, noticed, holder, tokensCond, pcCond>>
boundedVars == <<tokens, sleeping, queue, step, calls>>
barrierVars == <<participants, waitingBarrier, opened, pcBarrier, arrived, passed>>
futureVars == <<message, closed, producer, consumer, got>>
sleepVars == <<posted, timers, now, state, todo, pcSleep, current, timer, delay, due>>
mutexedVars == <<object, mutex, at, copy, round>>
coroutineVars == <<stateCo, caught, currentCo, resumptions, atCo, suspends>>
yieldVars == <<tasks, stopped, atYield, task, currentYield, todoYield, alive, threw, dropped>>
deadlockVars == <<test, run, todoDead, ownerDead, handler>>
livelockVars == <<cs_count, thread_count, pcLive, iteration, running>>
vars == <<kind, ticketVars, queueVars, mutexVars, spinVars, diningVars,
          condVars, boundedVars, barrierVars, futureVars, sleepVars, mutexedVars,
          coroutineVars, yieldVars, deadlockVars, livelockVars>>

Ticket == INSTANCE TicketLock WITH Threads <- Lockers, pc <- pcTicket
Queue == INSTANCE QueueSpinLock WITH Threads <- Lockers, pc <- pcQueue
Mutex == INSTANCE FutexMutex WITH Threads <- Lockers, pc <- pcMutex
Spin == INSTANCE SpinLock WITH Threads <- Lockers, pc <- pcSpin
Dining == INSTANCE DiningPhilosophers WITH pc <- pcDining
Cond == INSTANCE CondVar WITH pc <- pcCond, tokens <- tokensCond, Nobody <- Null
Bounded == INSTANCE BoundedQueue
Barrier == INSTANCE CyclicBarrier WITH pc <- pcBarrier, waiting <- waitingBarrier
Future == INSTANCE BlockingFuture

\* Two fibers sleep, on one clock; one of them then starts a third, which
\* throws.
SleepScript == << << <<"sleep", 1>>, <<"go", 3>> >>,
                  << <<"yield">>, <<"sleep", 2>> >>,
                  << <<"throw">> >> >>
Sleep == INSTANCE SleepingFiber
         WITH pc <- pcSleep, Programs <- {[roots |-> <<1, 2>>, script |-> SleepScript]}

Guarded == INSTANCE Mutexed WITH Threads <- Lockers

Co == INSTANCE Coroutine
      WITH Threads <- Workers, state <- stateCo, current <- currentCo,
           calls <- resumptions, at <- atCo

\* Two fibers yield; one then starts a third, the other throws.
YieldScript == << << <<"yield">>, <<"go", 3>>, <<"yield">> >>,
                  << <<"yield">>, <<"throw">> >>,
                  << <<"yield">> >> >>
Yielding == INSTANCE YieldingFiber
            WITH closed <- stopped, at <- atYield, current <- currentYield,
                 todo <- todoYield, Roots <- <<1, 2>>, Script <- YieldScript

Deadlock == INSTANCE DeadlockSimulation WITH todo <- todoDead, owner <- ownerDead
Livelock == INSTANCE LivelockSimulation WITH pc <- pcLive

Init == /\ kind \in {"ticket", "queue", "mutex", "spin", "dining",
                     "cond", "bounded", "barrier", "future", "sleep",
                     "mutexed", "coroutine", "yield", "deadlock", "livelock"}
        /\ Ticket!Init /\ Queue!Init /\ Mutex!Init /\ Spin!Init /\ Dining!Init
        /\ Cond!Init /\ Bounded!Init /\ Barrier!Init /\ Future!Init
        /\ Sleep!Init /\ Guarded!Init /\ Co!Init /\ Yielding!Init
        /\ Deadlock!Init /\ Livelock!Init
        /\ kind # "barrier" => participants = 1
        /\ kind # "deadlock" => test = "OneFiber"

Only(k) == /\ kind = k
           /\ UNCHANGED kind
           /\ k = "ticket" \/ UNCHANGED ticketVars
           /\ k = "queue" \/ UNCHANGED queueVars
           /\ k = "mutex" \/ UNCHANGED mutexVars
           /\ k = "spin" \/ UNCHANGED spinVars
           /\ k = "dining" \/ UNCHANGED diningVars
           /\ k = "cond" \/ UNCHANGED condVars
           /\ k = "bounded" \/ UNCHANGED boundedVars
           /\ k = "barrier" \/ UNCHANGED barrierVars
           /\ k = "future" \/ UNCHANGED futureVars
           /\ k = "sleep" \/ UNCHANGED sleepVars
           /\ k = "mutexed" \/ UNCHANGED mutexedVars
           /\ k = "coroutine" \/ UNCHANGED coroutineVars
           /\ k = "yield" \/ UNCHANGED yieldVars
           /\ k = "deadlock" \/ UNCHANGED deadlockVars
           /\ k = "livelock" \/ UNCHANGED livelockVars

Next == \/ Only("ticket") /\ Ticket!Next
        \/ Only("queue") /\ Queue!Next
        \/ Only("mutex") /\ Mutex!Next
        \/ Only("spin") /\ Spin!Next
        \/ Only("dining") /\ Dining!Next
        \/ Only("cond") /\ Cond!Next
        \/ Only("bounded") /\ Bounded!Next
        \/ Only("barrier") /\ Barrier!Next
        \/ Only("future") /\ Future!Next
        \/ Only("sleep") /\ Sleep!Next
        \/ Only("mutexed") /\ Guarded!Next
        \/ Only("coroutine") /\ Co!Next
        \/ Only("yield") /\ Yielding!Next
        \/ Only("deadlock") /\ Deadlock!Next
        \/ Only("livelock") /\ Livelock!Next

\* A thread inside a call keeps running; a thread in a critical section leaves.
Fairness ==
    /\ \A t \in Lockers : /\ WF_ticketVars(kind = "ticket" /\ Ticket!Step(t))
                          /\ WF_queueVars(kind = "queue" /\ Queue!Step(t))
                          /\ WF_mutexVars(kind = "mutex" /\ Mutex!Step(t))
                          /\ WF_spinVars(kind = "spin" /\ Spin!Step(t))
    /\ \A s \in Dining!Philosophers : WF_diningVars(kind = "dining" /\ Dining!Step(s))
    /\ \A t \in Cond!Threads : WF_condVars(kind = "cond" /\ Cond!Step(t))
    /\ \A t \in Bounded!Threads : WF_boundedVars(kind = "bounded" /\ Bounded!Step(t))
    /\ \A t \in 1 .. MaxParticipants :
           WF_barrierVars(kind = "barrier" /\ t \in Barrier!Threads /\ Barrier!Step(t))
    /\ WF_futureVars(kind = "future" /\ (Future!SetMessage \/ Future!Open))
    /\ WF_futureVars(kind = "future" /\ (Future!Check \/ Future!Visit))
    /\ \A w \in Workers : /\ WF_sleepVars(kind = "sleep" /\ Sleep!WorkerStep(w))
                          /\ WF_yieldVars(kind = "yield" /\ Yielding!WorkerStep(w))
    /\ WF_sleepVars(kind = "sleep" /\ (Sleep!Expire \/ Sleep!Tick))
    /\ WF_deadlockVars(kind = "deadlock" /\ Deadlock!Next)
    /\ WF_livelockVars(kind = "livelock" /\ Livelock!Next)

Spec == Init /\ [][Next]_vars /\ Fairness

-----------------------------------------------------------------------------
(* Properties *)

\* One at a time: no two threads are inside a test-and-set lock or the futex
\* mutex, no two philosophers eat from one plate, no two calls are in the deque
\* of the bounded queue, and none takes from it when it is empty; no operation on
\* a Mutexed object is lost.  A fiber that sleeps is in one place, and its timer
\* is not another's.
CriticalSectionsExclude ==
    /\ Ticket!TypeOK /\ Queue!TypeOK /\ Mutex!TypeOK /\ Spin!TypeOK
    /\ Cond!TypeOK /\ Bounded!TypeOK /\ Barrier!TypeOK
    /\ Mutex!MutualExclusion /\ Spin!MutualExclusion
    /\ Dining!PlatesAreExclusive
    /\ Bounded!DequeIsSafe
    /\ Guarded!NoUpdateLost
    /\ Sleep!OnePlace /\ Sleep!TimerIsMine

\* What runs on a thread is what the thread takes it for: the thread-local
\* pointers name the coroutine and the fiber whose code runs there, and nobody
\* else is on its stack.
CurrentIsRunning ==
    /\ Co!CurrentIsRunning /\ Co!ResumedOnce
    /\ Yielding!FiberInOnePlace /\ Yielding!SelfIsRunning

\* A guard's node is not reached after the guard is gone; see QueueSpinLock.
NodesAlive == Queue!NodesAlive

\* No thread sleeps beside what it waits for, with nobody bound to wake it: a
\* free mutex, a token behind the condition variable, a token of a semaphore.
NoWakeUpLost ==
    Mutex!NoSleeperForgotten /\ Cond!NoLostToken /\ Bounded!NoSleeperBesideToken

\* Nobody passes the barrier before all have arrived (see CyclicBarrier), and
\* no fiber goes on before its sleep is over.
NobodyPassesEarly == Barrier!NobodyPassesEarly /\ Sleep!NobodyWakesEarly

\* The ticket lock, its TryLock included, and the queue lock let threads in in
\* the order in which they asked, one at a time.
QueuedLocksAreFifo == Ticket!ImplementsFifoLock /\ Queue!ImplementsFifoLock

\* Locks let threads in: nobody starves at the queued locks; at the others, and
\* at the table, somebody gets in while somebody waits.
LocksLetIn == /\ Ticket!LockReturns /\ Queue!AcquireReturns
              /\ Mutex!SomebodyGetsIn /\ Spin!SomebodyGetsIn /\ Dining!SomebodyEats

\* Whoever waits for a notification, a token, a place, the other participants
\* or a result returns once enough was given, the future's Get with the message.
\* A fiber that sleeps wakes, and ends, and so does one that yields.
EveryWaitReturns ==
    /\ kind = "cond" => Cond!EveryWaitReturns
    /\ kind = "bounded" => Bounded!EveryCallReturns
    /\ kind = "barrier" => Barrier!EveryArriveReturns
    /\ kind = "future" => Future!GetReturns
    /\ kind = "sleep" => Sleep!EverySleeperEnds
    /\ kind = "yield" => Yielding!EveryYielderEnds

\* The simulations break as their tests say: where the fibers are meant to block
\* each other they do, and nowhere else; those that contend for the TrickyLock
\* make no progress, and never enter it a third time.
SimulationsBreak ==
    /\ [](Deadlock!BreaksAsExpected /\ Livelock!FewCriticalSections)
    /\ kind = "deadlock" => Deadlock!DeadlockComes
    /\ kind = "livelock" => Livelock!LivelockComes
=============================================================================
