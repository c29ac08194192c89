# Formal model of the concurrency library

The repository holds solutions to a concurrency course: a ladder of C++ libraries in which each
directory builds the next layer. This directory keeps TLA+ models of them, TLC
configurations that check small instances and TLAPS proofs that hold for every instance.

## 1. Inventory

Every directory of the repository is a library of its own; later directories carry copies of
the earlier layers (four copies of the blocking queue, six of the zero waiter, five of the
compute pool, three of the stack allocator). A model stands for all the copies whose
lines the `map` of PROJECT.json names; where copies differ in behaviour, the initial state chooses the
copy and each difference is an action of its own, or a condition of one, which section 3 names.

| Part (source) | State | Operations | What makes it correct |
|---|---|---|---|
| Work-stealing queue (`fibers/scheduler/.../fast/queues/work_stealing_queue.hpp`, `lockfree/steal`) | ring `buffer_`, 64-bit cursors `begin_`, `end_` | `TryPush`, `PushMany` (owner), `TryPop`, `Grab`, `LowSize` (anybody) | linearizable to a bounded FIFO queue: no item lost, duplicated, reordered; an empty answer only when it was empty |
| Global queue (`.../fast/queues/global_queue.hpp`) | deque, `is_closed_`, idle counter | `PushOne`, `Offload`, `TryPopOne`, `Grab`, `Stop`, `WaitIdle` | the counter is 1 exactly while the queue is non-empty; nothing stays in it after `Stop` |
| Coordinator (`.../fast/coordinator.*`) | lists of active / passive workers, parking permission, count of awake workers | `TryParkMe`, `ProhibitParking`, `AllowParking`, `Awake*`, `GiveVictim`, `Release`, `WaitIdle` | no lost wake-up: a queued task always has a worker that will look for it |
| Worker, fast pool (`.../fast/worker.*`, `thread_pool.*`) | LIFO slot, local queue, `stopped_`, `cycle_`, metrics | `PickNextTask`, `PushToLocalQueue`, `PushToLifoSlot`, `OffloadTasksToGlobalQueue`, `TryStealTasks`, `Stop` | every submitted task is run or discarded exactly once; `WaitIdle` returns only when the pool is idle |
| Compute pool (`condvar/thread-pool`, `fibers/{coroutine,mutex,scheduler}`, `futures/{executors,futures}`) | blocking queue, zero waiter, `is_stopped_` | `Submit`/`Execute`, `WaitIdle`, `Stop`, `ThreadRoutine` | tasks run or discarded once; `WaitIdle` waits for all outstanding work and does return; `Stop` joins |
| Strand (`futures/{executors,futures}/exe/executors/strand.*`) | lock-free stack `tasks_`, flag `reschedule_` | `Execute`, `Run`, `Schedule` | tasks run one at a time, in the order they were accepted, none forgotten |
| Inline and manual executors | task queue | `Execute`, `RunAtMost`, `Drain` | FIFO, sequential |
| Futures (`futures/futures/exe/futures`) | `SharedState`: result, callback, two atomic flags, executor | `SetResult`, `SetCallback`, `Via`, `Then`, `Recover`, `GetResult`, `All`, `FirstOf` | the callback runs exactly once with the result, on the executor chosen last |
| Blocking future (`condvar/future`) | message, blocker | `SetValue`, `SetException`, `Get` | `Get` returns what was set |
| Coroutines (`.../exe/coroutine` of the `fibers/` directories) | state, stored exception, thread-local pointer to the one that runs | `Resume`, `Suspend` | the pointer names what runs, through nesting, exceptions and moves between threads |
| Fibers (`fibers/{coroutine,mutex,scheduler,sleep_for}`) | coroutine state, awaiter, stack | `Go`, `Yield`, `Suspend`, `Run`, `Discard`, `SleepFor` | a fiber runs on one thread at a time and is deleted once; a stack has one user |
| Fiber futex, mutex, condvar, wait group (`fibers/mutex/exe/fibers/sync`) | wait queue under a spinlock, a cell | `ParkIfEqual`, `WakeOne`, `WakeAll`, `Lock`, `Wait`, `Notify*`, `Add`, `Done` | no lost wake-up; mutual exclusion; `Wait` returns after the last `Done` left |
| Spinlocks and mutex (`mutex/{spinlock,try-lock,queue,mutex}`, `support/spinlock.hpp`) | one or two atomics, MCS nodes | `Lock`, `TryLock`, `Unlock` | mutual exclusion, FIFO for ticket and queue locks, no sleeping forever |
| `Mutexed` (`mutex/mutexed`) | an object and its mutex | `Lock`, `UniqueRef` | the mutex is held as long as the reference lives |
| Condition variable, semaphore, barrier, bounded queue (`condvar/*`) | counters under a mutex | `Wait`, `Notify*`, `Acquire`, `Release`, `Arrive`, `Put`, `Take` | no lost wake-up, no overtaking of a barrier generation, capacity respected |
| Dining philosophers, deadlock and livelock simulations (`mutex/{dining,deadlock,livelock}`) | forks; cooperative fibers | `AcquireForks`, `ReleaseForks`; scripted routines | no deadlock; the scripted deadlock and livelock do occur |

### How the parts interact

- A client calls `Execute` of a pool; a worker calls the task's `Run`, or `Discard` when the
  pool was stopped. A task may call `Execute` again, which is how every cycle in the system arises.
- The fast pool is made of four parts that share no lock: a global queue, a coordinator,
  and a worker per thread with a work-stealing queue and a LIFO slot. Tasks travel between them
  through buffers on a worker's stack; wake-ups travel through the coordinator.
- A strand is a task of another executor. It is submitted while it has tasks, and submits itself again.
- A future's callback is a task for the executor chosen with `Via`; combinators are callbacks that
  several futures share.
- A fiber is a task too: a worker resumes its coroutine; when it suspends, the worker, on its own
  stack, calls the awaiter, which queues the fiber in a futex or submits it again, and from that moment
  another worker may run the fiber.

### What is hard here

Nothing is persistent and no message can be lost: the difficulty is the interleaving of threads. The classes
that matter are lost wake-ups (parking in the fast pool, `FutexLike`, condition variables), two
flags or counters that are read one after the other (`WaitIdle` of the fast pool, `SharedState`, `TicketLock::TryLock`),
reuse of memory under a lock-free structure (ring slots, strand nodes, a woken fiber's stack), user code that throws
in the middle of a protocol, and shutdown while everything else goes on. PROJECT.json lists the hazards at their lines.

## 2. Plan

| Step | Modules | Composes | State |
|---|---|---|---|
| 1 | `FifoQueue` (abstract), `WorkStealingQueue`, `WorkStealingQueue_proofs` | the ring implements the FIFO | done, proved |
| 2 | `ComputePool`, `ComputePool_proofs` | queue, counter and workers of the compute pool | done, proved |
| 3 | `SerialExecutor` (abstract), `Strand`, `Strand_proofs` | a strand over any executor that runs what it is given | done, proved |
| 4 | `GlobalQueue`, `Coordinator`, `FastPool`, `FastPool_proofs` | the two parts and the workers, local queues taken as atomic FIFO queues | done, proved |
| 5 | `FifoLock` (abstract), `TicketLock`, `TicketLock_proofs`, `QueueSpinLock`, `SpinLock`, `FutexMutex`, `DiningPhilosophers` | `MCSync`: one run, the lock chosen in the initial state; the ticket and queue locks implement `FifoLock` | done, proved in `TicketLock_proofs` and `MCSync_proofs` |
| 6 | `CondVar`, `Semaphore`, `BoundedQueue`, `CyclicBarrier`, `BlockingFuture` | `MCSync`, the same way | done; all but the future proved in `MCSync_proofs` |
| 7 | `SharedState`, `Futures`, `Futures_proofs` | continuations, combinators and `Get` over inline, manual and pooled executors | done, proved except what an answer is |
| 8 | `Fiber`, `FutexLike`, `FiberSync`, `FiberSync_proofs` | fibers on a pool, their stacks, mutex, condition variable and wait group | done, proved except the wait group's promises |
| 9 | `SleepingFiber`: the last generation of fibers, over an external `io_context` with timers | `MCSync`, the same way as steps 5 and 6 | done, proved |
| 10 | `Coroutine`: nested standalone coroutines and their exceptions; `YieldingFiber`: the first generation of fibers, on a pool that `Stop` clears | `MCSync`, the same way | done, proved |
| 11 | the five copies of the pool (`ComputePool`), the fibers that `Stop` discards (`Fiber`), `Mutexed`, `DeadlockSimulation`, `LivelockSimulation` | the modules above; `MCSync` | done |

Every part of the repository that has behaviour is modelled; what is left of the plan is two proofs: `WaitMeansDone` and
`GroupIsQuiet` of `FiberSync`.

## 3. Modules and the code

Common to all modules: one action is one atomic access to shared memory, or one critical section of a
mutex, and it includes the accesses to thread-local data up to the next one. User code (a task) is an action or more of its own, with its
submissions between. What a condition variable does is modelled as the standard describes it: `notify_one` picks any
waiter, `notify_all` all, and waiters wake spuriously unless said otherwise. Memory is sequentially consistent.
An operator whose comment starts with "Mutant of" is a deliberate error in the definition it names; PROJECT.json says which property notices it.

**`WorkStealingQueue`** - `buffer`, `begin`, `end` are the fields of the class; the cursors are natural numbers bounded by `MaxCursor` (in the code
they have 64 bits). A consumer's `TryPop` or `Grab` is `Call`, `LoadBegin`, `LoadEnd` (or `LoadEndEmpty`, which answers nothing),
`ReadSlot` for each item, `Commit` (the compare-exchange) or `Retry`; a thief first measures with `LowSizeEnd` and `LowSize`. `TryPush` is
one action, since its two loads see values that only grow in its favour and its last store publishes it, and `PushMany` is split slot by slot
(`StartPush`, `StoreSlot`, `Publish`), which covers the split of `TryPush`. The refinement mapping takes the ring's items between the cursors as the queue of `FifoQueue`.

**`ComputePool`** - `queue` and `closed` are the blocking queue's, `counter` is `ZeroWaiter`'s. `Execute` is three critical sections:
`Execute` (increment), `Put` or a rejection, `UndoIncrement`; `ThreadRoutine` is `TakeTask`, the task's `RunReturns` or `RunThrows`, and `TaskOver`. `copy` says which of the five pools runs. They differ in who owns a task: in `thread-pool` and
`coroutine` it is a closure (`OwnsClosures`) that dies with the parameter of `Put` (`DestroyRejected`) or at the end of the loop's body, after it was counted as over (`DestroyClosure`); in `fibers` and `futures` the object deletes itself in `Run` (`RunDeletes`), and the pool discards one that threw (`DiscardTask`);
in `executors` the worker discards it in either case. A rejected task is discarded by `fibers` (`DiscardRejected`) and left to nobody by `executors` and `futures` (`LeakRejected`). And they differ in `WaitIdle`: `thread-pool` waits with `if` (`WokenOnce`), the others with `while`.
`deletions`, which counts how often each object was deleted, and `handed`, `done`, `rejected`, `cancelled` are history. What `Stop` does to a function in the queue of `coroutine` is its destructor's business, and counted as a deletion.

**`Strand`** - `Push` is the compare-exchange of `Execute`; `Claim` the exchange of `reschedule_`; `Steal`, `Release` and `Recheck` those of `Run`. Node
addresses come from a finite set and are reused as soon as they are freed, so a stale top of the stack can meet its own address again. `scheduled` is how often the strand itself is in the queue of the
underlying executor, which keeps it, runs it on any worker, or discards it. `ImplementsSerialExecutor` maps the stack, the batch and the running task to one queue and one running task.

**`GlobalQueue`, `Coordinator`** - one operator per critical section, without an action of their own: they have no thread. `outstanding` is the counter of the queue's idle waiter,
`awake` that of the coordinator, `active` and `passive` its lists, `asleep` who waits on `sleeper_`.

**`FastPool`** - the initial state chooses which task submits which (`children`, out of `Programs`); `WorkerInit` is a worker's fields. Each worker is a program counter through `PickNextTask`, with the name of a function or of its point in it: `StartPass`/`Tick`, `TakeLifo`/`SkipLifo`, `Pop`, `GrabGlobal`, `Spread`,
`AllowAfterGrab`, `GiveVictim`, `LowSize`, `Steal`, `GiveUp`, `TryParkMe`, `WakeUp`, `DiscardOwn`. `Execute` dispatches on the hint, and `PushToLocalQueue`, `LocalQueueFull`, `OffloadGrab`,
`Offloaded`, `Offload` follow a submission into a full queue. A local queue is a sequence with atomic operations: `RingIsFifo` proves that the ring gives no more. Which victim the random generator points at is a free choice. `Garbage` is
what an uninitialized slot holds: `Offload` receives the tail of the buffer behind the tasks, and the model passes on what is there.

**`TicketLock`, `QueueSpinLock`, `SpinLock`, `FutexMutex`** - `pc[t]` is a thread's point in `Lock`, `TryLock` or `Unlock`. A ticket lock's `TryLock` is `TryLock` (load of `owner_`), `LoadNext`, then `TryTicket` (the compare-exchange) or
`TryFails`. A node of the queue lock lives in its guard on the thread's stack: `Destroy` puts it back to its initial value, as the thread's next guard will have the same address, and `NodesAlive` says that nobody reaches a node through a guard that is gone. `SpinLock` is
both test-and-set locks: the one of the fibers' `support/` looks before it tries again (`Test`), the one of `mutex/spinlock` has `TryLock`. `FifoLock` is what a fair lock promises: threads ask, and are granted the lock in the order in which they asked.

**`DiningPhilosophers`** - the order in which `AcquireForks` takes the two mutexes and `ReleaseForks` gives them back; the table is external.

**`CondVar`** - `val_` has 32 bits in the code and `Modulus` values here, so that notifications can bring it back to the value that a waiter saw. Users are modelled as one uses a condition variable: a loop around `Wait` under a mutex. With two notifiers the counter
does not wrap within one wait, which is how the property is to be read: 2^32 notifications between two steps of a waiter would be missed.

**`Semaphore`, `BoundedQueue`** - three semaphores around a deque. `Order` says which is acquired first; each call is five steps, each a critical section of the semaphore it acquires or releases.

**`CyclicBarrier`** - `participants_num_`, `waiting_` and `opened_`, one action per stretch of `Arrive` under the mutex, with `notify_all` in it. **`BlockingFuture`** - the message and the blocker of `condvar/future`.

**`Fiber`, `FutexLike`, `FiberSync`** - a fiber's call stack is the sequence `todo[f]` of operations that it has still to do, at the head the one it is in; `at[w]` says whether the worker `w` is on a fiber's stack or on its own, in `Fiber::Run` after the coroutine was
suspended (`resumed`), or in the awaiter. The awaiter is called after the fiber left its stack (`AwaitYield`, `AwaitSuspend`), and from the moment it has scheduled the fiber another worker may run it: `AwaitSchedule` and `AwaitUnlock` are two steps. A `FutexLike` is a wait queue of awaiters, which are objects on
the stacks of the suspended fibers, under a spin lock; its cell is the atomic of the mutex, of the condition variable or of the wait group. `Add` is `BeginAdd`, `LoadTasks`, `Clear`, `AddTasks`, `Leave`; `Done` is `BeginDone`, `SubTasks`, `Store`, a `wake` and `Leave`; `Wait` is `Join` and `Settle`.
The pool's queue of fibers, `ready`, is first-in first-out, as the compute pool's is; `fibers/scheduler` runs its fibers on the fast pool, which keeps no such order (LIFO slot, stealing). No safety property depends on the order.
The last stack that was freed is used first (`Allocate`), as in `StackAllocator`. `Stop` discards the fibers in the queue; from then on whatever is scheduled is discarded (`Discard`), and `Go` allocates a stack that is freed at once (`AllocateInVain`). The fibers that still wait in a futex stay there, with their stacks.

**`Coroutine`** - `calls[t]` is the thread's stack of calls of `Resume`, each with the `prev` it saved; `current` is the thread-local pointer. The user code of a routine resumes, suspends, returns or throws as it likes. `LeaveResume` is `Resume` after the switch back: the deferred assignment (`RollBack`) and, if the routine threw, the exception
that goes on in the caller, which catches it (`Catch`) or ends by it (`RoutineThrows`). The switch of machine contexts is external, and so is its stack.

**`YieldingFiber`** - the first fibers have no awaiter: the worker looks, after the switch back, whether the coroutine is completed (`Delete`) or not (`Schedule`), and only then leaves `Step` (`LeaveStep`), perhaps after another worker has taken the fiber. A fiber that throws skips both and the reset of `current_fiber` (`Throw`): it is never deleted.
A task is a plain pointer, so that the fibers whose tasks `Stop` clears stay too.

**`Mutexed`** - `Lock` makes a `UniqueRef`, whose life is the critical section; the operation on the object is a read and a write, so that a reference that let the mutex go too early would lose an update.

**`DeadlockSimulation`, `LivelockSimulation`** - the tests of these two directories, on a library of cooperative fibers that is external: its run queue is modelled as the tests need it. A fiber is the list of calls it still has to make (`Locker`, `First`, `Second` and the tests' own `OneFiber`, `TwoFibers`); what the tests assert on the way (`PANIC`, the `for` of the
unlocked mutexes, "Too many critical sections") is in `BreaksAsExpected` and `FewCriticalSections`. In the livelock a fiber runs from one `Yield` to the next.

**`SleepingFiber`** - `posted`, `timers` and `now` are the external `io_context`, its timers and its clock; `current`, `timer` and `delay` are the thread-locals. `Step` resumes the coroutine; when it comes back, the thread looks at `state_` (`Resumed`) and arms the timer (`AsyncWait`) or calls
`Schedule`, which posts the fiber or, if it did not suspend itself, deletes it. The handler of a timer is `TimerHandler` and then `Schedule`, perhaps on another thread. A fiber's exception leaves `Resume` and `io_context::run` (`Throw`): its thread is gone and nobody deletes the fiber, which `EverySleeperEnds` excepts.

**`SharedState`, `Futures`** - a thread's call stack is a sequence of operations too. The fulfilling side is `StoreResult`, `StoreReady`, `TryCallback`, `Notify`, the subscribing side `StoreCallback`, `PublishCallback`, `CheckNothing` or `CheckResult`: the two flags of the class, and
the exchange that decides which of the two sides calls the callback. `Submit` hands a task to the executor of the state, inline (at once, on the same thread), manual (queued until its client calls `RunAtMost` or `Drain`), or a pool (run by any worker). A continuation is a value that
says what it does (append its name, throw); the function of `Execute` returns or throws (`Compute`), and a continuation that is to return a future returns one or throws (`CallFlatMap`). `Then`, `Recover`, the `Then` that returns a future (`flatMap`), `Via`, `All`, `FirstOf`, `Execute`, `GetResult` and
`GetReadyResult` are the operations of clients. A value is the sequence of the steps it went through, so that an answer shows its history. `GetResult` keeps its word and its slot in the frame of the caller, which
is gone when it returns: the callback's store, its `FutexWakeAll` and the sleeping client are separate steps, and `FrameIsThere` looks at the order.
`result` and `callback` are empty or hold one item, as the `std::optional` and the function object do. A promise and a future are moved into the call that uses them and have no state afterwards (`ReleaseState`); `Uses` says which call takes what, and
`ProgramAssumption` that a program's clients use nothing twice, that only one of them runs the manual executor, which has no lock, and, since `ans_`, `finished_`, `exited_` and `errors_left_` are one variable each here, that a program has one `All` and one `FirstOf` at most.

## 4. Runs

A checked property is a conjunction of named parts, which their modules define and explain: `TasksAreAccounted`, for one, is the type invariant, `NotLost` and `NotDuplicated`. A counterexample to one is read part by part.

| Run | Instance | What it shows |
|---|---|---|
| `wsq` | an owner and a thief, 2 items, ring of 2, cursors to 4 | the ring is a bounded FIFO with atomic operations; committed reads are fresh; every call returns, although an exchange may lose or fail spuriously |
| `pool` | 2 workers, 2 clients, 4 tasks, one that throws, one that submits, all five copies of the pool | tasks are run or discarded once, and deleted once; the counter is exact; `WaitIdle` means idle (except in `thread-pool`, see `pool_if`) and returns, but where `Stop` discarded a task; `Stop` returns and then nothing runs |
| `pool_if` | 2 workers, 2 clients, 4 tasks, the copy `thread-pool` alone | **violated**: its `WaitIdle` tests once, so that a spurious wake-up lets it return with work outstanding |
| `strand` | 2 submitters, 2 workers, 3 tasks, 3 addresses | order, exclusion, scheduled at most once, no use of a freed node, no forgotten task |
| `strand_throw` | 1 submitter, 1 worker, 2 tasks, one that throws | **violated**: after a task threw, the strand runs nothing any more (`reschedule_` stays false) |
| `fast` | 2 workers, queues of 4, 6 tasks in a fan or a chain | no task lost or duplicated between the queues, which overflow; no lost wake-up; the counters mean what their readers take them for; a worker parks only empty-handed |
| `fast_life` | 2 workers, 2 chained tasks, `WaitIdle`, `Stop` | every task ends; `WaitIdle` returns when its work is done; `Stop` returns, and then nothing runs |
| `fast_offload` | queues of 2 | **violated**: what a full local queue offloads never reaches the global queue (`subspan(grabbed)` is the wrong half of the buffer) |
| `sync` | one part at a time: the locks, the philosophers, the condition variable, semaphore, queue, barrier and future, the coroutines, the fibers that yield or sleep, the simulations; two to four threads | exclusion, FIFO order of the queued locks, no node used after its guard, no lost wake-up, no early passage, the thread-local pointers name what runs; every wait ends; the simulations block where their tests want it |
| `fibers` | 3 workers, five programs of three or four fibers, one of them stopped at any time | a fiber is in one place, on a stack of its own; the mutex excludes; no fiber is forgotten in a futex; `Wait` returns only with the tasks done and no `Done` inside; every fiber ends and `Stop` returns |
| `futures` | 3 clients, 2 pool workers, eight programs over six futures | a callback runs once, with the result, on the executor that was chosen; nobody writes to a frame that is gone; an answer is what the pipeline means; everything ends |
| `fibers_add` | `AddEach`: `Add(1)` before each `Go`, in a loop | **violated**: `Wait` returns while a task is outstanding, when `Add` meets the `Done` of the task before between its decrement and its store |

Bounds. Two workers, or a thief and an owner that pops too, give every pair of racing roles; the properties relate at most two of them and a third observer. A ring of
two slots is the smallest that can be full, empty and half full, and every slot is used twice within `MaxCursor`; a fast pool's queue of four lets `Grab` move
two tasks at once, and overflows with the fifth child; all its tasks but the first are alike, which the symmetry of `fast` uses; the runs `fast_life` and `fast_offload` have queues of two. `LifoLimit` is 1 for 19 in the code and `CycleLimit` 2 for 10: both only choose how long a worker goes on before it turns elsewhere, and the small values make
every turn happen. `CycleLimit` is not 1, where a worker would wake another at every pass and two idle workers could wake each other for ever, which ten passes cannot do. Three node
addresses for three tasks let each be reused. The children of tasks form a fan (one task fills a queue) or a chain (each submits the next). Three threads let two queue behind a holder, `MaxTicket` of 4 lets one of them come back;
three seats are the smallest table where everybody's left fork is somebody else's right one and where two sit on seats of the same parity; two calls on a queue of two places make producers and consumers block in turn. Three coroutines let one resume another inside a third, or two threads pass one on. Two rounds of a barrier let the first to leave come back
before the last has left. Four fibers on three workers let a fiber be resumed by a second worker while a third one notifies. The runs where the system really stops, because each client ends, have `CHECK_DEADLOCK FALSE`.

The programs of `futures`: `Pipeline` (a chain on the pool with a continuation that throws or not, and an error handler), `Nested` (a continuation that returns a future or throws), `Computed` (`Execute` on the pool of a function that returns or throws), `Combined` (`All` and `FirstOf` over
three inputs, one of them ready from the start, each with a value or an error: all of them may fail, which is how `FirstOf` comes to its last error), `NoInputs` (`All` of nothing), `ByHand` (a manual executor run one task at a time). What an answer must be is computed from how the futures
were made (`Outcomes` of `MCFutures`), not from the states they went through. Where code of a user decides (`Produce`, `Compute`, a throw in `CallFlatMap`), `origin` records what it gave.

Fairness. Weak fairness of each thread's own steps: a thread that can move does so at some time. It is what a preemptive operating system gives. Nobody is
obliged to submit, to stop a pool, to wait or to ask for a lock; a task that runs ends and a thread in a critical section leaves it; no spurious wake-up is promised. `wsq` adds strong
fairness of a consumer's compare-exchange: it is weak, and without that assumption it could fail spuriously for ever; a failure that is not spurious means that another consumer
won, and the cursors are bounded. A worker of the fast pool is also bound to be constructed, and nobody moves once a thread has crashed (`GoesOn`). The random victim is not fair. Nothing is assumed of the test-and-set locks and of the futex mutex, so that `LocksLetIn` says of them that somebody gets in, while the queued locks serve everybody. `MCSync` states the fairness of each part over that part's variables, for only one of them ever moves; `ComputePool` over `pc` and `call`, `FiberSync` over `at` and `todo`, one of which every step of a thread changes. The clock of the sleeping fibers goes on while a timer waits for it, and the handlers are run. In `fibers` a worker that spins on a lock is a worker without a step: progress needs the holder only.

## 5. What is proved

`WorkStealingQueue_proofs` holds for every capacity, every number of thieves and every set of items, from `QueueAssumption` alone. The
invariant `CommittedReadIsFresh` is not inductive: a consumer that read a slot before the producer reused it holds a stale item, and only the comparison of `begin` refuses it. The induction therefore follows
three layers, each proved on top of the ones before:

1. `Inv1`, types and the phases of the owner (`TypeOK`, `OwnerPhase`);
2. `Inv2`, the cursors: they never cross nor span more than the ring, and what a consumer saw of them is still a bound (`CursorsInOrder`, `PushFits`, `CursorsSeen`);
3. `Inv3`, contents: the owner's stored slots are its batch, and whatever a consumer read is still in the ring **if** `begin` has not moved since (`StoredInPlace`, `ReadsAreFresh`).

From `IInv` follow `TypeCorrect`, `CursorsCorrect`, `CommitsFreshReads`, and `RingIsFifo`: the contents between the cursors map every step to a
step of `FifoQueue` or a stutter (`PublishAppends`, `CommitTakes`, `ContentsUnchanged`). The arithmetic of slots (two cursors less than a round apart are in different slots, `DifferentSlots`) is the
fact all of it rests on.

`TicketLock_proofs` holds for any number of threads and any mixture of `Lock` and `TryLock`, from no assumption. Mutual exclusion needs
`TicketsInOrder`: the threads that wait or are inside hold distinct tickets of `owner .. next - 1`, each ticket of that range has a holder, and whoever is inside has the ticket `owner`. A `TryLock` enters with a ticket that it never drew from `next_free_ticket_` by an increment: the compare-exchange
succeeds only where `next` is what it was when it equalled `owner`, and since `owner` never passes `next` it still does. `TicketLockIsFifo` shows the refinement: the line of `FifoLock` is the sequence of the holders of the tickets from `owner` on (`LineIsQueue`, `HolderIsFirst`), which `Lock` and `TryLock`
lengthen (`LineGrows`), `Unlock` shortens (`LineShrinks`) and nothing else changes (`LineStays`).

`ComputePool_proofs` holds for all five copies of the pool, any finite sets of threads and any tasks, from `PoolAssumption`: workers are not clients, and
a task is submitted by one client or by one task that runs. `IInv` adds three facts to the checked ones. `Stations`: where a
thread is says what it holds, and a task that a worker holds after its end is in `done`. `ChildrenOnce`: what a running task has still to submit was never handed in, without which a second submission could be of the same task. `DeletedOnce`:
an object was deleted only when nobody has it. Then `Accounted` says that each task passed to `Execute` is in exactly one place or has exactly one end; `CounterIsExact` counts the
threads that hold one (`CountIsPositive`: while the counter is 0 there is none), and `Returns` follows from both: `WaitIdle` tests the counter under its lock, and a worker leaves only an empty closed queue.

`Strand_proofs` holds for any submitters, workers, tasks and any finite set of addresses, from `StrandAssumption`. The stack is what one finds on the way from `tasks_`
along `prev`: a walk, which the prover does not follow. So the invariant says that some list hangs off the top (`Hangs`), with different nodes; `ReadsStack` shows that the walk reads it, by the finite number of
nodes and a least counterexample, and each step shows what it does to that list. `Apart` separates the nodes of the stack, of the batch and those that submitters created and did not push yet: that is why a
compare-exchange which meets an address again (the ABA case) still pushes onto the list that is there. `OneToken` needs only the two flags and who holds the right to schedule; `Batches` adds that after a task threw nothing runs any more (`Dead`).
`StrandIsSerial` shows the refinement of `SerialExecutor` step by step: a push appends to the pending tasks (`TasksLonger`), a start takes the first (`TasksShorter`), and `Steal` turns a stack into a batch without a change (`Joined`).

`FastPool_proofs` holds for any number of workers and clients, any tasks and programs and any even capacity, from `FastPoolAssumption` and `OneParent` (a task is submitted by one other task at most, being an object of its own). Its invariant follows the parts: `Types`, `Labels`
and `Control` (where `arg`, `buffer` and `victim` have a meaning), `Waiter` (the global queue's counter is 1 exactly while it is not empty), `Hands` (from `grab` on a worker's own
queues are empty, and its buffer from the spreading on), `Books` (the awake workers are the members of the coordinator's two lists, each once; `HoldFacts` to `WithoutHolds` say so of the
list operations) and `Watch`: a task in the global queue has a worker that will look for it, or permission to park is refused. `SomebodyComes` and `NothingLeftBehind` say together that nothing waits for a sleeper.
The proof of `Books` found a gap in an earlier form of the invariant: a worker that discards the garbage of an uninitialized slot (`Crashed`) leaves the coordinator's lists behind, so that `AwakeAreListed` is claimed
until a crash; the run `fast_offload` shows where the garbage comes from. The pool's constructor makes the workers one after the other before any of them runs (`Construct`), and `Counted` holds from the first of them. `QuietAfterStop` is an action property: `Stop` returns after
joining the workers, and a worker that exited stays so (`ExitedForever`, `OnlyJoinReturns`).

`TasksAlwaysAccounted` needs a second invariant, `Accounts`, beside `IInv`. The places of a task are boxes, one for each queue, slot, buffer and hand of each thread: `Placed` says that a task that was handed in is `In` exactly one of them, another in none.
Every step lets a task enter a box (`Execute`), moves some tasks from one box to another (`Moves`: a grab, a steal or an offload moves several at once), or leaves the boxes alone (`Quiet`), and `NextPlaced` needs only that.
`SeqsOnce` is why moving the first or the first few of a queue takes them out of it; `ArgsOnce` covers the frames of `Execute`, which keep a pointer to a task that is elsewhere already; `Family` is why a running task does not hand in what somebody handed in before, and where `OneParent` is used.
`AccountedFor` reads the checked property off the boxes.

`MCSync_proofs` treats the parts of `MCSync` one by one: whichever of them runs, a step of one leaves the others alone (`Moves`), so that an invariant of a part is one of the whole. It assumes `SyncAssumption`: the
sets of threads are finite and disjoint where they have to be, `Null` is none of them, and there are fewer notifiers than values of the condition variable's counter.

- The queue lock (`QueueInv`): a list of threads from the owner to `last`, in which each thread that has linked itself is the `succ` of the one before, and of which all but the first wait. It proves that no guard's node is touched after its life (`GuardsAreAlive`), and is the line of `FifoLock` (`QueuedLocksAreFair`; the ticket lock's half is `TicketLockIsFifo`, instantiated).
- The futex mutex, the spin lock, `Mutexed` and the philosophers' forks have small inductive invariants that tie the lock's word to who is inside (`MutexInv`, `SpinInv`, `GuardedInv`, `DiningInv`).
- The condition variable (`CondInv`) counts: `val` is the number of notifiers that have incremented it (`CounterCounts`), and stays below `Modulus`, so that a waiter whose value is stale does not fall asleep; what a waiter with the current value does not know of are tokens whose notifiers have still to increment (`FreshSleepers`), and behind any sleeper the tokens are no more than the notifiers that have still to notify and the waiters that will look (`StaleSleepers`).
- The bounded queue (`BoundedInv`): tokens and threads in the middle of a call add up to the capacity, to the length of the deque, and to one writer (`TokensAndPlaces`), and for each token beside a sleeper an awake taker is under way (`TokensHaveTakers`).
- The barrier (`BarrierInv`): `waiting` is the number of threads inside, and while the door is open those inside are of one generation that is complete, the others through with it (`BarrierCounts`, `Generation`), so that nobody enters the next one before the last has left.
- The coroutines (`CoInv`): the pointer and the saved `prev` of every call chain up to the thread's own code, each coroutine is in at most one call of all threads, and the one that is `Running` is.
- The fibers that yield (`YieldInv`) and that sleep (`SleepInv`), with the three fibers of the scripts and any number of threads: a fiber that exists is in one place and none has two, what is to be started was not started yet, and a sleeper's end is carried from the thread through its timer to the handler (`SleepsEnd`).

From these follow `SectionsAlwaysExclude`, `WakeUpsAreKept`, `NobodyIsEarly` and `CurrentAlwaysRuns`.

`FiberSync_proofs` holds for any number of workers, any finite set of fibers and any programs that keep to `FiberAssumption`: who locks the mutex unlocks it and takes tokens only
in between (`WellLocked`), nobody unlocks what is not locked, and each fiber is started once, as a root or by one call of `Go` (`WellStarted`). Its invariant `IInv` has these parts:

- `Shapes`: what may stand in a fiber's list of operations beside what. A fiber that is to unlink its awaiter from the mutex has the retry of `Lock` next, a `Done` that is to store `is_done_` wakes the waiters next, and only the first operation is ever in the middle of a futex (`ShapedAt`). Every step replaces the first operation by at most two (`Plain`, `ShapeKept`).
- `Placed`: a fiber has a stack exactly if it is in the pool's queue, with a worker, in a wait queue or in the hands of a waker, and is in one of them. A step moves one fiber, or two when a waker lets one go and takes the next, and leaves the others where they are (`Comes`, `Stays`, `PlacedEach`). What a worker says in its awaiter (`BusyAt`) is why the fiber it has scheduled is not with it any more.
- `StacksHaveOneOwner` counts: each stack ever allocated is a fiber's or was freed, once (`Allocated`, `Discarded`, `Stopped`); `GoOnce` is why `Go` never meets a fiber that was started.
- `Locking`: a fiber that is inside has its `Unlock` ahead of any other call of the mutex (`UnlocksNext`), and the cell is taken; an exchange that finds it free is the only way in.
- `Waiters` and `NoFiberForgotten`: who waits has parked for the value it saw; if fibers wait for the mutex although it is free, another fiber is about to take it, and will unlock it, or to wake them; if they wait for the group although `is_done_` is set, the waker is under way. A test of the cell and the queueing are one critical section (`AwaitSuspendStep`), which is what the induction turns on.

From it follow `FibersStayWhole`, `MutexExcludes` and `WaitersAreRemembered`. `WaitMeansDone` and `GroupIsQuiet` also depend on how a program uses the group (`fibers_add` shows that an `Add` beside the last `Done` breaks the first of them) and stay with TLC.

`Futures_proofs` holds for any clients, workers and states, and for every set of programs that `ProgramAssumption` admits. A program's future is in its operations: what a thread has still to do, what is queued for an executor, and the callback
that a shared state stores. So the invariant is about tokens that these operations hold (`Tokens`): a promise, a future, an input of a combinator, the frame of a thread in `GetResult`. Its parts, in `IInv`:

- `LinesInv`: each line of operations (`todo` of a thread, the queue of an executor, the slot for a callback) is made of operations with arguments of their types (`IsOperation`), and no two operations of all lines hold the same token. A step takes the first operation
  of one line, and perhaps a task of a queue or a callback out of its slot, and puts others in their place, which may hold what the former held and tokens that nobody held (`Moved`, `HeadReplaced`, `BeltGoes`, `TakesCallback`): each of the steps is an instance of that. A task that runs by hand stays at the head of its queue until it is popped, and holds nothing there a second time.
- `StateInv`, the two flags of a shared state. A future that is still held has no callback; a published callback is in its slot; a result that is ready is there until the callback takes it or `GetReadyResult` moves it; if both flags are set, one of the two threads has still to look (`SomeoneLooks`). It needs `LinesInv`: only who holds the promise stores a result, and only who holds the future stores a callback.
- `GetInv`: who holds the frame of a client finds it before its `sleep`, with its sleeper at 0. The client reaches the end of the loop only after the callback has given the frame up.
- `OnceInv`: a promise that is held was not fulfilled yet, and none was twice. Where inputs share a promise, `Combination` counts: the inputs still under way are no more than what the combinator's counter leaves, one less if its exchange was already made (`room`, `closed`). `All` is fulfilled by the last value, when no error can follow any more, or by the first error, after which `finished_` never reaches the number of inputs; `FirstOf` by
  the first value, or by the last error if there was none. It is one lemma for both (`CombinationAdvances`, `CombinationGives`), since each is the mirror of the other.

From it follow `FuturesExactlyOnce` and `FuturesFrameIsThere`. What an answer is (`AnswerIsRight`) is defined by recursion over how futures were made, and `OnTheirExecutor` speaks of the names of continuations in the programs of `MCFutures`; both stay with TLC.

Only model-checked: all liveness (`EveryWaitEnds`, `EveryTaskRuns`, `LocksLetIn` and their like), which is out of the prover's reach; `WaitMeansDone` and `GroupIsQuiet` of `FiberSync`; `AnswerIsRight` and `OnTheirExecutor` of the futures; the simulations (`SimulationsBreak`), whose properties are of two scripts; the blocking future.
The four violated runs show counterexamples and have nothing to prove.


## 6. What is not modelled

- `std::terminate` when an exception leaves a thread: the model's thread stops and the others go on, as with a caller that catches it around `io_context::run`.
- Weak memory: the relaxed and acquire/release orders of the ring and the spin locks. The models say what the algorithms do under sequential consistency.
- Wrap-around of 64-bit cursors, tickets and counters.
- Metrics of the fast pool; the distribution of random victims; spurious wake-ups of its parked workers, which `Tick` wakes as needlessly.
- What destructors of user code do when a queue of functions is cleared, and what is on the stack of a fiber that a stopped pool discards: the code frees the stack without unwinding it.
- The switch of machine contexts and the allocation of stacks by the operating system: external libraries. A stack is a number here, a switch part of the action that makes it.
- The limit on the number of scheduler steps (`RunScheduler`'s argument) in the livelock simulation: it only ends the test.
- Futures of futures' failures to allocate, and move-only values: a value is copied here.
- The stubs (`Generator`, `Processor`, `futures/executors/.../tp/thread_pool.cpp`) and the tutorial, a function that returns 42, have no behaviour to model.
- Operations that nothing calls: `GlobalQueue::TryPopOne` and `Size`, `Coordinator::AwakeEveryone`.

Some behaviours are kept as the code has them, without a property, for no text of the repository promises otherwise:

- a task pushed to the fast pool's global queue between `Stop`'s closing of it and the pusher's earlier look at `is_closed_` stays there, neither run nor discarded: `TasksAreAccounted` counts the closed queue as its place, and so says only that it is nowhere else;
- `WaitIdle` of both pools hangs once `Stop` has discarded a queued task, whose count nobody takes back (`EveryWaitEnds` excepts this: in the compute pool `cancelled # {}`, in the fast pool a closed queue);
- `Recover` on a value fulfils its promise with the error that the result does not have, so that the value is lost (`CallRecover`; `Outcomes` expects it);
- `FirstOf` of no inputs is never fulfilled, and is in no program;
- `GetResult`'s callback wakes a word in the frame of a caller that may have returned after a spurious wake-up: the address is used, not the memory (`WakeSleeper`).
