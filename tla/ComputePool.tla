---------------------------- MODULE ComputePool ----------------------------
(***************************************************************************)
(* The compute thread pool: workers around a blocking queue, and a counter *)
(* of outstanding work (ZeroWaiter).  The repository has five copies of    *)
(* it, which differ in who deletes a task and in how WaitIdle waits.  They *)
(* are called after their directories: condvar/thread-pool,                *)
(* fibers/coroutine, fibers/mutex and fibers/scheduler ("fibers"),         *)
(* futures/executors and futures/futures.  The initial state chooses one.  *)
(*                                                                         *)
(* One action is one critical section (the mutexes of the queue and of the *)
(* counter are not modelled further) or one step of user code.  A thread   *)
(* that waits on a condition variable is woken by a notification, which    *)
(* picks any waiter, or spuriously; it then runs its critical section      *)
(* again.                                                                  *)
(***************************************************************************)
EXTENDS Integers, Sequences, FiniteSets, SequencesExt

CONSTANTS Workers,
          Clients,           \* threads outside the pool
          Stoppers,          \* clients that may call Stop
          Tasks,
          Roots,             \* tasks submitted by clients
          Children,          \* Children[x]: tasks that x submits while it runs
          Throwing,          \* tasks that may end with an exception
          Copies,            \* the copies of the pool to choose from
          None

\* Threads are finitely many, and a task is submitted by one client or one task.
ASSUME PoolAssumption == /\ IsFiniteSet(Workers) /\ IsFiniteSet(Clients)
                         /\ Workers \cap Clients = {}
                         /\ Stoppers \subseteq Clients
                         /\ Roots \subseteq Tasks
                         /\ Throwing \subseteq Tasks
                         /\ None \notin Tasks
                         /\ Copies \subseteq {"thread-pool", "coroutine", "fibers",
                                              "executors", "futures"}
                         /\ Children \in [Tasks -> SUBSET (Tasks \ Roots)]
                         /\ \A x, y \in Tasks : x # y => Children[x] \cap Children[y] = {}

Threads == Workers \cup Clients

VARIABLES copy,       \* which copy of the pool runs
          queue,      \* tasks_.queue_
          closed,     \* tasks_.closed_
          counter,    \* waiter_.counter_
          pc,         \* pc[t]: where t is in ThreadRoutine, WaitIdle or Stop
          call,       \* call[t]: where t is in Execute
          arg,        \* arg[t]: the task t is submitting
          current,    \* current[w]: the task worker w holds
          todo,       \* todo[w]: what it has still to submit
          handed,     \* tasks that were ever passed to Execute
          done,       \* tasks whose Run is over, by a return or an exception
          rejected,   \* tasks discarded because the queue was closed
          cancelled,  \* tasks discarded by Stop
          deletions   \* deletions[x]: how often the task object x was deleted

queueVars == <<queue, closed>>
callVars == <<call, arg, handed>>
workVars == <<current, todo>>
fateVars == <<done, rejected, cancelled>>
objectVars == <<copy, deletions>>
vars == <<objectVars, queueVars, counter, pc, callVars, workVars, fateVars>>

\* A task is a closure that its holder owns, ...
OwnsClosures == copy \in {"thread-pool", "coroutine"}
\* ... or an object whose Run deletes it, ...
RunDeletes == copy \in {"fibers", "futures"}
\* ... or (in "executors") one that the worker deletes after its Run.

Delete(S) == deletions' = [x \in Tasks |-> deletions[x] + (IF x \in S THEN 1 ELSE 0)]

Init == /\ copy \in Copies
        /\ deletions = [x \in Tasks |-> 0]
        /\ queue = <<>> /\ closed = FALSE
        /\ counter = 0
        /\ pc = [t \in Threads |-> IF t \in Workers THEN "take" ELSE "idle"]
        /\ call = [t \in Threads |-> "none"]
        /\ arg = [t \in Threads |-> None]
        /\ current = [w \in Workers |-> None]
        /\ todo = [w \in Workers |-> {}]
        /\ handed = {} /\ done = {} /\ rejected = {} /\ cancelled = {}

-----------------------------------------------------------------------------
(* Execute, by a client or by the task a worker runs *)

MaySubmit(t, x) == IF t \in Workers THEN pc[t] = "run" /\ x \in todo[t]
                                    ELSE pc[t] = "idle" /\ x \in Roots \ handed

Execute(t, x) ==
    /\ call[t] = "none"
    /\ MaySubmit(t, x)
    /\ counter' = counter + 1
    /\ call' = [call EXCEPT ![t] = "put"]
    /\ arg' = [arg EXCEPT ![t] = x]
    /\ handed' = handed \cup {x}
    /\ todo' = IF t \in Workers THEN [todo EXCEPT ![t] = @ \ {x}] ELSE todo
    /\ UNCHANGED <<objectVars, queueVars, pc, current, fateVars>>

\* queue_access_.notify_one(): one waiting worker, if any, leaves its wait.
NotifyWorker ==
    IF \E w \in Workers : pc[w] = "wait"
    THEN \E w \in Workers : pc[w] = "wait" /\ pc' = [pc EXCEPT ![w] = "take"]
    ELSE UNCHANGED pc

Return(t) == /\ call' = [call EXCEPT ![t] = "none"]
             /\ arg' = [arg EXCEPT ![t] = None]

Put(t) ==
    /\ call[t] = "put"
    /\ ~ closed
    /\ queue' = Append(queue, arg[t])
    /\ NotifyWorker
    /\ Return(t)
    /\ UNCHANGED <<objectVars, closed, counter, handed, workVars, fateVars>>

\* The queue is closed and Put returns false.
Rejected(t) ==
    /\ call[t] = "put"
    /\ closed
    /\ rejected' = rejected \cup {arg[t]}
    /\ call' = [call EXCEPT ![t] = "undo"]
    /\ UNCHANGED <<copy, queueVars, counter, pc, arg, handed, workVars, done, cancelled>>

\* Put's parameter takes the closure with it ...
DestroyRejected(t) == OwnsClosures /\ Rejected(t) /\ Delete({arg[t]})

\* ... the task object is discarded ...
DiscardRejected(t) == copy = "fibers" /\ Rejected(t) /\ Delete({arg[t]})

\* ... or nobody deletes it.
LeakRejected(t) == copy \in {"executors", "futures"} /\ Rejected(t) /\ UNCHANGED deletions

\* ZeroWaiter::DecrementValue wakes every thread in WaitIdle at zero.
Decrement == counter' = counter - 1

\* Mutant of WokenAtZero: nobody is notified at zero.
WokenNever(p) == p

WokenAtZero(p) ==
    [t \in Threads |-> IF counter = 1 /\ p[t] = "waitZero" THEN "wokenZero" ELSE p[t]]

\* Mutant of UndoIncrement: the count of a rejected task is kept.
KeepIncrement(t) ==
    /\ call[t] = "undo"
    /\ Return(t)
    /\ UNCHANGED <<objectVars, queueVars, counter, pc, handed, workVars, fateVars>>

UndoIncrement(t) ==
    /\ call[t] = "undo"
    /\ Decrement
    /\ pc' = WokenAtZero(pc)
    /\ Return(t)
    /\ UNCHANGED <<objectVars, queueVars, handed, workVars, fateVars>>

-----------------------------------------------------------------------------
(* ThreadRoutine *)

\* Take's critical section: a task, the end, or the wait.
TakeTask(w) ==
    /\ pc[w] = "take"
    /\ queue # <<>>
    /\ current' = [current EXCEPT ![w] = Head(queue)]
    /\ todo' = [todo EXCEPT ![w] = Children[Head(queue)]]
    /\ queue' = Tail(queue)
    /\ pc' = [pc EXCEPT ![w] = "run"]
    /\ UNCHANGED <<objectVars, closed, counter, callVars, fateVars>>

TakeNothing(w) ==
    /\ pc[w] = "take"
    /\ queue = <<>>
    /\ pc' = [pc EXCEPT ![w] = IF closed THEN "exited" ELSE "wait"]
    /\ UNCHANGED <<objectVars, queueVars, counter, callVars, workVars, fateVars>>

SpuriousTake(w) ==
    /\ pc[w] = "wait"
    /\ pc' = [pc EXCEPT ![w] = "take"]
    /\ UNCHANGED <<objectVars, queueVars, counter, callVars, workVars, fateVars>>

Ended(w, next) ==
    /\ done' = done \cup {current[w]}
    /\ pc' = [pc EXCEPT ![w] = next]
    /\ UNCHANGED <<copy, queueVars, counter, callVars, current, rejected, cancelled>>

\* Mutant of RunReturns: the worker discards what has deleted itself.
RunReturnsDiscards(w) ==
    /\ pc[w] = "run"
    /\ call[w] = "none" /\ todo[w] = {}
    /\ Ended(w, IF OwnsClosures THEN "decrement" ELSE "discard")
    /\ Delete(IF RunDeletes THEN {current[w]} ELSE {})
    /\ UNCHANGED todo

\* The task returns after it has submitted its children ...
RunReturns(w) ==
    /\ pc[w] = "run"
    /\ call[w] = "none" /\ todo[w] = {}
    /\ Ended(w, IF copy = "executors" THEN "discard" ELSE "decrement")
    /\ Delete(IF RunDeletes THEN {current[w]} ELSE {})
    /\ UNCHANGED todo

\* ... or throws, perhaps before that.
RunThrows(w) ==
    /\ pc[w] = "run"
    /\ call[w] = "none"
    /\ current[w] \in Throwing
    /\ Ended(w, IF OwnsClosures THEN "decrement" ELSE "discard")
    /\ todo' = [todo EXCEPT ![w] = {}]
    /\ UNCHANGED deletions

\* Discard, in the handler or after it.
DiscardTask(w) ==
    /\ pc[w] = "discard"
    /\ Delete({current[w]})
    /\ pc' = [pc EXCEPT ![w] = "decrement"]
    /\ UNCHANGED <<copy, queueVars, counter, callVars, workVars, fateVars>>

TaskOver(w) ==
    /\ pc[w] = "decrement"
    /\ Decrement
    /\ current' = IF OwnsClosures THEN current ELSE [current EXCEPT ![w] = None]
    /\ pc' = WokenAtZero([pc EXCEPT ![w] = IF OwnsClosures THEN "destroy" ELSE "take"])
    /\ UNCHANGED <<objectVars, queueVars, callVars, todo, fateVars>>

\* The closure dies at the end of the loop's body, after it was counted as over.
DestroyClosure(w) ==
    /\ pc[w] = "destroy"
    /\ Delete({current[w]})
    /\ current' = [current EXCEPT ![w] = None]
    /\ pc' = [pc EXCEPT ![w] = "take"]
    /\ UNCHANGED <<copy, queueVars, counter, callVars, todo, fateVars>>

-----------------------------------------------------------------------------
(* WaitIdle and Stop *)

WaitIdle(c) ==
    /\ pc[c] = "idle" /\ call[c] = "none"
    /\ pc' = [pc EXCEPT ![c] = "checkZero"]
    /\ UNCHANGED <<objectVars, queueVars, counter, callVars, workVars, fateVars>>

\* Mutant of CheckZero: the counter is tested once in every copy.
CheckZeroOnce(c) ==
    /\ pc[c] \in {"checkZero", "wokenZero"}
    /\ pc' = [pc EXCEPT ![c] = IF counter = 0 \/ pc[c] = "wokenZero" THEN "idle" ELSE "waitZero"]
    /\ UNCHANGED <<objectVars, queueVars, counter, callVars, workVars, fateVars>>

\* ZeroWaiter::Wait's critical section, entered by the call and after every
\* wake-up.
CheckZero(c) ==
    /\ pc[c] = "checkZero" \/ (pc[c] = "wokenZero" /\ copy # "thread-pool")
    /\ pc' = [pc EXCEPT ![c] = IF counter = 0 THEN "idle" ELSE "waitZero"]
    /\ UNCHANGED <<objectVars, queueVars, counter, callVars, workVars, fateVars>>

\* That copy waits once: `if` stands where the others have `while`.
WokenOnce(c) ==
    /\ pc[c] = "wokenZero" /\ copy = "thread-pool"
    /\ pc' = [pc EXCEPT ![c] = "idle"]
    /\ UNCHANGED <<objectVars, queueVars, counter, callVars, workVars, fateVars>>

SpuriousZero(c) ==
    /\ pc[c] = "waitZero"
    /\ pc' = [pc EXCEPT ![c] = "wokenZero"]
    /\ UNCHANGED <<objectVars, queueVars, counter, callVars, workVars, fateVars>>

\* Cancel empties the queue, discarding what was in it, and wakes the
\* workers.  The counter keeps what was discarded.
Stop(c) ==
    /\ pc[c] = "idle" /\ call[c] = "none"
    /\ ~ closed
    /\ closed' = TRUE
    /\ cancelled' = cancelled \cup ToSet(queue)
    /\ Delete(ToSet(queue))
    /\ queue' = <<>>
    /\ pc' = [t \in Threads |-> IF t = c THEN "join"
                                ELSE IF pc[t] = "wait" THEN "take" ELSE pc[t]]
    /\ UNCHANGED <<copy, counter, callVars, workVars, done, rejected>>

Join(c) ==
    /\ pc[c] = "join"
    /\ \A w \in Workers : pc[w] = "exited"
    /\ pc' = [pc EXCEPT ![c] = "stopped"]
    /\ UNCHANGED <<objectVars, queueVars, counter, callVars, workVars, fateVars>>

-----------------------------------------------------------------------------
Submission(t) == \/ Put(t) \/ UndoIncrement(t)
                 \/ DestroyRejected(t) \/ DiscardRejected(t) \/ LeakRejected(t)

Work(w) == \/ TakeTask(w) \/ TakeNothing(w) \/ TaskOver(w) \/ DestroyClosure(w)
           \/ RunReturns(w) \/ RunThrows(w) \/ DiscardTask(w)
           \/ \E x \in Tasks : Execute(w, x)

Next == \/ \E t \in Threads : Submission(t)
        \/ \E w \in Workers : Work(w) \/ SpuriousTake(w)
        \/ \E c \in Clients : \/ \E x \in Roots : Execute(c, x)
                              \/ WaitIdle(c) \/ CheckZero(c) \/ WokenOnce(c)
                              \/ SpuriousZero(c) \/ Join(c)
        \/ \E c \in Stoppers : Stop(c)

Spec == Init /\ [][Next]_vars

\* Every thread keeps running, and tasks end; nobody is obliged to submit,
\* to wait or to stop, and nothing promises a spurious wake-up.
Fairness == /\ \A t \in Threads : WF_call(Submission(t))
            /\ \A w \in Workers : WF_<<pc, call>>(Work(w))
            /\ \A c \in Clients : WF_pc(CheckZero(c) \/ WokenOnce(c) \/ Join(c))

FairSpec == Spec /\ Fairness

-----------------------------------------------------------------------------
(* Properties *)

\* Every variable has its C++ type; in particular the unsigned counter never
\* goes below zero, which ZeroWaiter asserts.
TypeOK ==
    /\ copy \in Copies
    /\ queue \in Seq(Tasks) /\ closed \in BOOLEAN
    /\ counter \in Nat
    /\ pc \in [Threads -> {"take", "wait", "run", "discard", "decrement", "destroy", "exited",
                           "idle", "checkZero", "waitZero", "wokenZero", "join", "stopped"}]
    /\ call \in [Threads -> {"none", "put", "undo"}]
    /\ arg \in [Threads -> Tasks \cup {None}]
    /\ current \in [Workers -> Tasks \cup {None}]
    /\ todo \in [Workers -> SUBSET Tasks]
    /\ handed \subseteq Tasks /\ done \subseteq handed
    /\ rejected \subseteq handed /\ cancelled \subseteq handed
    /\ deletions \in [Tasks -> Nat]

\* Where a task may be.
Submitting == {arg[t] : t \in {u \in Threads : call[u] = "put"}}
Running == {current[w] : w \in {v \in Workers : pc[v] = "run"}}
Over == done \cup rejected \cup cancelled

\* A task passed to Execute is never forgotten: it is on its way, running, or
\* it was run or discarded ("Pending tasks will be discarded").
NotLost == handed = Submitting \cup ToSet(queue) \cup Running \cup Over

Places == <<Submitting, ToSet(queue), Running, done, rejected, cancelled>>

\* No task is run or discarded twice, or by two threads.
NotDuplicated ==
    /\ IsInjective(queue)
    /\ \A t, u \in Threads : t # u /\ arg[t] # None => arg[t] # arg[u]
    /\ \A w, v \in Workers : w # v /\ current[w] # None => current[w] # current[v]
    /\ \A i, j \in DOMAIN Places : i # j => Places[i] \cap Places[j] = {}

\* A worker that has run its task may still have to delete it.
ToDelete == {current[w] : w \in {v \in Workers :
                  pc[v] = "discard" \/ (OwnsClosures /\ pc[v] \in {"decrement", "destroy"})}}
Leaked == IF copy \in {"executors", "futures"} THEN rejected ELSE {}

\* A task object is deleted once it is over, and once only, although Run, the
\* handler, Execute and Stop may each delete it; two copies of the pool leak
\* the tasks that come after Stop.
DeletedOnce ==
    \A x \in Tasks : deletions[x] = IF x \in Over \ (ToDelete \cup Leaked) THEN 1 ELSE 0

\* The workers whose task is still counted.
Busy == {w \in Workers : pc[w] \in {"run", "discard", "decrement"}}

\* The counter is the outstanding work; what Stop discarded stays in it.
CounterIsOutstanding ==
    counter = Cardinality({t \in Threads : call[t] # "none"}) + Len(queue)
              + Cardinality(Busy) + Cardinality(cancelled)

\* WaitIdle of c returns only when no task is queued, running or being
\* submitted, and what a task held is gone, unless tasks are closures that die
\* after they are counted as over.
ReturnsIdle(c) ==
    pc[c] \in {"checkZero", "wokenZero"} /\ pc'[c] = "idle" =>
        /\ queue = <<>>
        /\ Busy = {}
        /\ \A t \in Threads : call[t] = "none"
        /\ \A x \in done : OwnsClosures \/ deletions[x] = 1

\* "Waits until outstanding work count has reached zero": so does WaitIdle, in
\* all copies, although tasks submit tasks and several threads use the pool.
IdleMeansIdle == [][\A c \in Clients : ReturnsIdle(c)]_vars

\* The same of the copies whose WaitIdle tests the counter again when it is woken.
IdleIfTestedAgain == [][\A c \in Clients : copy # "thread-pool" => ReturnsIdle(c)]_vars

\* After Stop has returned the pool runs no user code.
NothingRunsAfterStop ==
    [][(\E c \in Clients : pc[c] = "stopped") => UNCHANGED <<done, current, todo>>]_vars

\* Every task passed to Execute is run or discarded in the end; there are
\* finitely many.
EveryTaskEnds == <>[](handed = Over)

\* WaitIdle returns: the work it waits for ends and the last decrement wakes it,
\* before, during and after a Stop, unless Stop discards a queued task, whose
\* count nobody takes back.
WaitIdleReturns ==
    \A c \in Clients : pc[c] = "checkZero" ~> pc[c] = "idle" \/ cancelled # {}

\* Stop returns, although workers sleep or run tasks that submit tasks.
StopReturns == \A c \in Stoppers : pc[c] = "join" ~> pc[c] = "stopped"

\* Every task is accounted for: nothing that was submitted is lost, and nothing
\* is run, discarded or deleted twice, whatever Execute, the workers and Stop do
\* between each other's critical sections.
TasksAreAccounted == TypeOK /\ NotLost /\ NotDuplicated /\ DeletedOnce

\* A call that has returned means what it promised, but for the copy whose
\* WaitIdle waits once.
ReturnsMeanIt == IdleIfTestedAgain /\ NothingRunsAfterStop

\* Nothing waits for ever: no task in the queue, no client in WaitIdle or Stop.
EveryWaitEnds == EveryTaskEnds /\ WaitIdleReturns /\ StopReturns
=============================================================================
