------------------------------ MODULE FastPool ------------------------------
(***************************************************************************)
(* The work-stealing thread pool of fibers/scheduler (executors/tp/fast):  *)
(* its workers, ThreadPool::Execute, WaitIdle and Stop, composed from the  *)
(* GlobalQueue, the Coordinator and the workers' local queues.             *)
(*                                                                         *)
(* An operation on a local queue is one action, which is what the          *)
(* refinement of FifoQueue by WorkStealingQueue permits.  What only its    *)
(* worker reads (the LIFO slot, a buffer) is read and written in the       *)
(* action of the shared access beside it.  Metrics are left out.  So are   *)
(* spurious wake-ups of parked workers: Tick wakes them as needlessly.     *)
(***************************************************************************)
EXTENDS GlobalQueue, Coordinator, FiniteSets

CONSTANTS N,             \* number of workers
          Clients,       \* threads outside the pool
          Waiters,       \* clients that may call WaitIdle
          Stoppers,      \* clients that may call Stop
          Tasks,
          Roots,         \* tasks submitted by clients
          Programs,      \* functions children to choose from
          Throwing,      \* tasks that may end with an exception
          Null,
          Garbage,       \* what an uninitialized slot of a buffer holds
          Capacity,      \* kLocalQueueCapacity
          LifoLimit,     \* kLifoLimit
          CycleLimit     \* passes between two wake-ups (10 in PickNextTask)

Workers == 1 .. N
Threads == Workers \cup Clients

ASSUME FastPoolAssumption ==
    /\ N \in Nat \ {0}
    /\ Workers \cap Clients = {}
    /\ Waiters \subseteq Clients /\ Stoppers \subseteq Clients
    /\ Roots \subseteq Tasks
    /\ Throwing \subseteq Tasks
    /\ {Null, Garbage} \cap Tasks = {}
    /\ Programs \subseteq [Tasks -> SUBSET (Tasks \ Roots)]
    /\ Capacity \in Nat \ {0} /\ Capacity % 2 = 0
    /\ {LifoLimit, CycleLimit} \subseteq Nat \ {0}

\* A task is an object of its own, which one other task submits, if any.
ASSUME OneParent ==
    \A p \in Programs : \A x, y \in Tasks : x # y => p[x] \cap p[y] = {}

VARIABLES children,   \* children[x]: tasks that x submits while it runs
          stopped,    \* stopped[w]: stopped_
          local,      \* local[w]: local_tasks_
          lifo,       \* lifo[w]: lifo_slot_
          usage,      \* usage[w]: lifo_usage_
          cycle,      \* cycle[w]: cycle_
          pc,         \* pc[t]: what t does next
          arg,        \* arg[t]: the task t is submitting
          buffer,     \* buffer[w]: tasks on the way between two queues
          series,     \* series[w]: attempts to steal that are left
          victim,     \* victim[w]
          limit,      \* limit[w]: what StealTasks may take
          current,    \* current[w]: the task that runs
          todo,       \* todo[w]: what it has still to submit
          due,        \* due[c]: tasks whose Execute had returned when c called WaitIdle
          handed,     \* tasks that were ever passed to Execute
          done,       \* tasks whose Run is over, by a return or an exception
          discarded,  \* tasks discarded
          dropped     \* tasks a worker took from its queue and left in a buffer

lifoVars == <<lifo, usage, cycle>>
stealVars == <<series, victim, limit>>
runVars == <<current, todo>>
fateVars == <<done, discarded, dropped>>
submitVars == <<arg, handed>>
restVars == <<due, stopped>>
vars == <<children, globalVars, coordinatorVars, local, lifoVars, pc, submitVars, buffer,
          stealVars, runVars, fateVars, restVars>>

\* The fields of a worker before its thread is started.
WorkerInit == /\ local = [w \in Workers |-> <<>>]
              /\ lifo = [w \in Workers |-> Null]
              /\ usage = [w \in Workers |-> 0] /\ cycle = [w \in Workers |-> 0]
              /\ stopped = [w \in Workers |-> FALSE]

Init ==
    /\ children \in Programs
    /\ GlobalInit
    /\ CoordinatorInit
    /\ WorkerInit
    /\ pc = [t \in Threads |-> IF t \in Workers THEN "new" ELSE "idle"]
    /\ arg = [t \in Threads |-> Null]
    /\ buffer = [w \in Workers |-> <<>>]
    /\ series = [w \in Workers |-> 0]
    /\ victim = [w \in Workers |-> 0]
    /\ limit = [w \in Workers |-> 0]
    /\ current = [w \in Workers |-> Null]
    /\ todo = [w \in Workers |-> {}]
    /\ due = [c \in Clients |-> {}]
    /\ handed = {} /\ done = {} /\ discarded = {} /\ dropped = {}

Goto(t, label) == pc' = [pc EXCEPT ![t] = label]

\* Where a thread is when Execute returns.
Home(t) == IF t \in Workers THEN "run" ELSE "idle"

Return(t) == Goto(t, Home(t)) /\ arg' = [arg EXCEPT ![t] = Null]

\* The pool's constructor creates the workers one after the other; nobody uses
\* the pool before they all are, so that a worker is ready to start from then on.
Construct(w) ==
    /\ pc[w] = "new" /\ \A v \in 1 .. w - 1 : pc[v] # "new"
    /\ Acquire(w)
    /\ Goto(w, "pick")
    /\ UNCHANGED <<children, globalVars, permission, asleep, woken, local, lifoVars, submitVars,
                   buffer, stealVars, runVars, fateVars, restVars>>

-----------------------------------------------------------------------------
(* ThreadPool::Execute *)

MaySubmit(t, x) == /\ pc[t] = Home(t)
                   /\ x \in IF t \in Workers THEN todo[t] ELSE Roots \ handed

\* A client ignores the hint; a worker follows it.
Entry(t, hint) == IF t \in Clients THEN "checkClosed"
                  ELSE CASE hint = "Next" -> "toLifo"
                         [] hint = "UpToYou" -> "toLocal"
                         [] hint = "Slow" -> "checkClosed"

Execute(t, x, hint) ==
    /\ MaySubmit(t, x)
    /\ handed' = handed \cup {x}
    /\ arg' = [arg EXCEPT ![t] = x]
    /\ todo' = IF t \in Workers THEN [todo EXCEPT ![t] = @ \ {x}] ELSE todo
    /\ Goto(t, Entry(t, hint))
    /\ UNCHANGED <<globalVars, coordinatorVars, local, lifoVars, buffer, stealVars,
                   current, fateVars, restVars>>

\* PushOne reads is_closed_ before it takes the lock.
CheckClosed(t) ==
    /\ pc[t] = "checkClosed"
    /\ Goto(t, IF closed THEN "prohibit" ELSE "push")
    /\ discarded' = IF closed THEN discarded \cup {arg[t]} ELSE discarded
    /\ UNCHANGED <<globalVars, coordinatorVars, local, lifoVars, submitVars, buffer,
                   stealVars, runVars, done, dropped, restVars>>

PushOne(t) ==
    /\ pc[t] = "push"
    /\ PushBack(<<arg[t]>>)
    /\ Goto(t, "prohibit")
    /\ UNCHANGED <<coordinatorVars, local, lifoVars, submitVars, buffer, stealVars,
                   runVars, fateVars, restVars>>

ProhibitAfterPush(t) ==
    /\ pc[t] = "prohibit"
    /\ ProhibitParking
    /\ Return(t)
    /\ UNCHANGED <<globalVars, local, lifoVars, handed, buffer, stealVars, runVars,
                   fateVars, restVars>>

\* A task submitted to a stopped worker is discarded.
Refuse(w) ==
    /\ pc[w] \in {"toLifo", "toLocal"}
    /\ stopped[w]
    /\ discarded' = discarded \cup {arg[w]}
    /\ Return(w)
    /\ UNCHANGED <<globalVars, coordinatorVars, local, lifoVars, handed, buffer,
                   stealVars, runVars, done, dropped, restVars>>

PushToLifoSlot(w) ==
    /\ pc[w] = "toLifo"
    /\ ~ stopped[w]
    /\ lifo' = [lifo EXCEPT ![w] = arg[w]]
    /\ IF lifo[w] = Null THEN Return(w)
       ELSE Goto(w, "toLocal") /\ arg' = [arg EXCEPT ![w] = lifo[w]]
    /\ UNCHANGED <<globalVars, coordinatorVars, local, usage, cycle, handed, buffer,
                   stealVars, runVars, fateVars, restVars>>

PushToLocalQueue(w) ==
    /\ pc[w] = "toLocal"
    /\ ~ stopped[w]
    /\ Len(local[w]) < Capacity
    /\ local' = [local EXCEPT ![w] = Append(@, arg[w])]
    /\ Return(w)
    /\ UNCHANGED <<globalVars, coordinatorVars, lifoVars, handed, buffer, stealVars,
                   runVars, fateVars, restVars>>

LocalQueueFull(w) ==
    /\ pc[w] = "toLocal"
    /\ ~ stopped[w]
    /\ Len(local[w]) = Capacity
    /\ Goto(w, "offloadGrab")
    /\ UNCHANGED <<globalVars, coordinatorVars, local, lifoVars, submitVars, buffer,
                   stealVars, runVars, fateVars, restVars>>

\* OffloadTasksToGlobalQueue: thieves may have taken tasks in between.
OffloadGrab(w) ==
    /\ pc[w] = "offloadGrab"
    /\ LET n == Min({Capacity \div 2, Len(local[w])})
       IN  /\ buffer' = [buffer EXCEPT ![w] = <<arg[w]>> \o SubSeq(local[w], 1, n)]
           /\ local' = [local EXCEPT ![w] = SubSeq(@, n + 1, Len(@))]
    /\ arg' = [arg EXCEPT ![w] = Null]
    /\ Goto(w, "offloadCheck")
    /\ UNCHANGED <<globalVars, coordinatorVars, lifoVars, handed, stealVars, runVars,
                   fateVars, restVars>>

\* subspan(grabbed): not the tasks in the buffer but what is behind them.
Offloaded(w) == [i \in 1 .. Capacity \div 2 + 1 - Len(buffer[w]) |-> Garbage]

OffloadCheck(w) ==
    /\ pc[w] = "offloadCheck"
    /\ Goto(w, IF closed THEN IF Offloaded(w) = <<>> THEN "awakeOne" ELSE "crashed"
                         ELSE "offload")
    /\ UNCHANGED <<globalVars, coordinatorVars, local, lifoVars, submitVars, buffer,
                   stealVars, runVars, fateVars, restVars>>

Offload(w) ==
    /\ pc[w] = "offload"
    /\ PushBack(Offloaded(w))
    /\ Goto(w, "awakeOne")
    /\ UNCHANGED <<coordinatorVars, local, lifoVars, submitVars, buffer, stealVars,
                   runVars, fateVars, restVars>>

AwakeAfterOffload(w) ==
    /\ pc[w] = "awakeOne"
    /\ AwakeOne
    /\ dropped' = dropped \cup ToSet(buffer[w])
    /\ buffer' = [buffer EXCEPT ![w] = <<>>]
    /\ Return(w)
    /\ UNCHANGED <<globalVars, local, lifoVars, handed, stealVars, runVars, done,
                   discarded, restVars>>

Submission(t) == CheckClosed(t) \/ PushOne(t) \/ ProhibitAfterPush(t)

WorkerSubmission(w) ==
    \/ Submission(w) \/ Refuse(w) \/ PushToLifoSlot(w) \/ PushToLocalQueue(w)
    \/ LocalQueueFull(w) \/ OffloadGrab(w) \/ OffloadCheck(w) \/ Offload(w)
    \/ AwakeAfterOffload(w)

-----------------------------------------------------------------------------
(* Worker::PickNextTask *)

\* The task a worker is about to run.  What is not a task cannot be run.
Pick(w, x) ==
    /\ current' = [current EXCEPT ![w] = x]
    /\ todo' = [todo EXCEPT ![w] = IF x \in Tasks THEN children[x] ELSE {}]
    /\ Goto(w, IF x \in Tasks THEN "run" ELSE "crashed")

StartPass(w) ==
    /\ pc[w] = "pick"
    /\ ~ stopped[w]
    /\ cycle' = [cycle EXCEPT ![w] = (@ + 1) % CycleLimit]
    /\ Goto(w, IF cycle'[w] = 0 THEN "tick" ELSE "lifo")
    /\ UNCHANGED <<globalVars, coordinatorVars, local, lifo, usage, submitVars, buffer,
                   stealVars, runVars, fateVars, restVars>>

Tick(w) ==
    /\ pc[w] = "tick"
    /\ AwakeOne
    /\ Goto(w, "lifo")
    /\ UNCHANGED <<globalVars, local, lifoVars, submitVars, buffer, stealVars, runVars,
                   fateVars, restVars>>

TakeLifo(w) ==
    /\ pc[w] = "lifo"
    /\ usage[w] < LifoLimit /\ lifo[w] # Null
    /\ usage' = [usage EXCEPT ![w] = @ + 1]
    /\ lifo' = [lifo EXCEPT ![w] = Null]
    /\ Pick(w, lifo[w])
    /\ UNCHANGED <<globalVars, coordinatorVars, local, cycle, submitVars, buffer,
                   stealVars, fateVars, restVars>>

\* The slot is empty, or it was used too often: a pass over it resets the count.
SkipLifo(w) ==
    /\ pc[w] = "lifo"
    /\ usage[w] >= LifoLimit \/ lifo[w] = Null
    /\ usage' = [usage EXCEPT ![w] = 0]

Pop(w) ==
    /\ SkipLifo(w)
    /\ local[w] # <<>>
    /\ local' = [local EXCEPT ![w] = Tail(@)]
    /\ Pick(w, Head(local[w]))
    /\ UNCHANGED <<globalVars, coordinatorVars, lifo, cycle, submitVars, buffer, stealVars,
                   fateVars, restVars>>

PopNothing(w) ==
    /\ SkipLifo(w)
    /\ local[w] = <<>>
    /\ Goto(w, "grab")
    /\ UNCHANGED <<globalVars, coordinatorVars, local, lifo, cycle, submitVars, buffer,
                   stealVars, runVars, fateVars, restVars>>

\* GrabTasksFromGlobalQueue looks twice, and lets workers park in between.
GrabGlobal(w) ==
    /\ pc[w] \in {"grab", "regrab"}
    /\ LET n == Share(Capacity \div 2, N)
       IN  GrabFront(n) /\ buffer' = [buffer EXCEPT ![w] = SubSeq(global, 1, n)]
    /\ Goto(w, "spread")
    /\ UNCHANGED <<coordinatorVars, local, lifoVars, submitVars, stealVars, runVars,
                   fateVars, restVars>>

GrabNothing(w) ==
    /\ pc[w] \in {"grab", "regrab"}
    /\ Share(Capacity \div 2, N) = 0
    /\ Goto(w, IF pc[w] = "grab" THEN "allow" ELSE "impudence")
    /\ UNCHANGED <<globalVars, coordinatorVars, local, lifoVars, submitVars, buffer,
                   stealVars, runVars, fateVars, restVars>>

\* Mutant of AllowAfterGrab: there is no second look at the global queue.
AllowAndPark(w) ==
    /\ pc[w] = "allow"
    /\ AllowParking
    /\ Goto(w, "impudence")
    /\ UNCHANGED <<globalVars, local, lifoVars, submitVars, buffer, stealVars, runVars,
                   fateVars, restVars>>

AllowAfterGrab(w) ==
    /\ pc[w] = "allow"
    /\ AllowParking
    /\ Goto(w, "regrab")
    /\ UNCHANGED <<globalVars, local, lifoVars, submitVars, buffer, stealVars, runVars,
                   fateVars, restVars>>

\* Mutant of Spread: the rest of the buffer is forgotten.
SpreadFirst(w) ==
    /\ pc[w] = "spread"
    /\ buffer' = [buffer EXCEPT ![w] = <<>>]
    /\ Pick(w, Head(buffer[w]))
    /\ UNCHANGED <<globalVars, coordinatorVars, local, lifoVars, submitVars, stealVars,
                   fateVars, restVars>>

\* The first task runs, PushMany puts the others into the local queue.
Spread(w) ==
    /\ pc[w] = "spread"
    /\ local' = [local EXCEPT ![w] = @ \o Tail(buffer[w])]
    /\ buffer' = [buffer EXCEPT ![w] = <<>>]
    /\ Pick(w, Head(buffer[w]))
    /\ UNCHANGED <<globalVars, coordinatorVars, lifoVars, submitVars, stealVars,
                   fateVars, restVars>>

\* Mutant of GiveUp: the LIFO slot is not looked at again.
GiveUpAndPark(w) == Goto(w, "park")

\* Nothing found: a worker whose LIFO slot was passed over does not park.
GiveUp(w) == Goto(w, IF lifo[w] # Null THEN "pick" ELSE "park")

\* impudence_ says in which list an awake worker is.
CheckImpudence(w) ==
    /\ pc[w] = "impudence"
    /\ IF w \in ToSet(active)
       THEN Goto(w, "victim") /\ series' = [series EXCEPT ![w] = (N + 1) \div 2]
       ELSE GiveUp(w) /\ UNCHANGED series
    /\ UNCHANGED <<globalVars, coordinatorVars, local, lifoVars, submitVars, buffer,
                   victim, limit, runVars, fateVars, restVars>>

GiveVictim(w, v) ==
    /\ pc[w] = "victim"
    /\ series[w] > 0
    /\ v \in Listed
    /\ series' = [series EXCEPT ![w] = @ - 1]
    /\ victim' = [victim EXCEPT ![w] = v]
    /\ Goto(w, IF v = w THEN "victim" ELSE "lowSize")
    /\ UNCHANGED <<globalVars, coordinatorVars, local, lifoVars, submitVars, buffer,
                   limit, runVars, fateVars, restVars>>

NoVictim(w) ==
    /\ pc[w] = "victim"
    /\ series[w] = 0
    /\ GiveUp(w)
    /\ UNCHANGED <<globalVars, coordinatorVars, local, lifoVars, submitVars, buffer,
                   stealVars, runVars, fateVars, restVars>>

LowSize(w) ==
    /\ pc[w] = "lowSize"
    /\ limit' = [limit EXCEPT ![w] = Len(local[victim[w]]) \div 2]
    /\ Goto(w, "steal")
    /\ UNCHANGED <<globalVars, coordinatorVars, local, lifoVars, submitVars, buffer,
                   series, victim, runVars, fateVars, restVars>>

Steal(w) ==
    /\ pc[w] = "steal"
    /\ LET v == victim[w]
           n == Min({limit[w], Len(local[v])})
       IN  /\ buffer' = [buffer EXCEPT ![w] = SubSeq(local[v], 1, n)]
           /\ local' = [local EXCEPT ![v] = SubSeq(@, n + 1, Len(@))]
           /\ Goto(w, IF n = 0 THEN "victim" ELSE "spread")
    /\ victim' = [victim EXCEPT ![w] = 0] /\ limit' = [limit EXCEPT ![w] = 0]
    /\ UNCHANGED <<globalVars, coordinatorVars, lifoVars, submitVars, series, runVars,
                   fateVars, restVars>>

TryParkMe(w) ==
    /\ pc[w] = "park"
    /\ \/ Park(w) /\ Goto(w, "parked")
       \/ permission # "Allowed" /\ Goto(w, "pick") /\ UNCHANGED coordinatorVars
    /\ UNCHANGED <<globalVars, local, lifoVars, submitVars, buffer, stealVars, runVars,
                   fateVars, restVars>>

WakeUp(w) ==
    /\ pc[w] = "parked"
    /\ Unpark(w)
    /\ Goto(w, "pick")
    /\ UNCHANGED <<globalVars, local, lifoVars, submitVars, buffer, stealVars, runVars,
                   fateVars, restVars>>

\* The loop ends: the worker leaves the lists and discards what it has.
LeaveLoop(w) ==
    /\ pc[w] = "pick"
    /\ stopped[w]
    /\ Release(w)
    /\ Goto(w, "leave")
    /\ UNCHANGED <<globalVars, local, lifoVars, submitVars, buffer, stealVars, runVars,
                   fateVars, restVars>>

DiscardOwn(w) ==
    /\ pc[w] = "leave"
    /\ discarded' = discarded \cup ({lifo[w]} \ {Null})
                              \cup (IF local[w] = <<>> THEN {} ELSE {Head(local[w])})
    /\ lifo' = [lifo EXCEPT ![w] = Null]
    /\ local' = IF local[w] = <<>> THEN local ELSE [local EXCEPT ![w] = Tail(@)]
    /\ Goto(w, IF local[w] = <<>> THEN "exited"
               ELSE IF Head(local[w]) \in Tasks THEN "leave" ELSE "crashed")
    /\ UNCHANGED <<globalVars, coordinatorVars, usage, cycle, submitVars, buffer,
                   stealVars, runVars, done, dropped, restVars>>

-----------------------------------------------------------------------------
(* Worker::Work *)

TaskOver(w) ==
    /\ done' = done \cup {current[w]}
    /\ current' = [current EXCEPT ![w] = Null]
    /\ todo' = [todo EXCEPT ![w] = {}]
    /\ Goto(w, "pick")
    /\ UNCHANGED <<globalVars, coordinatorVars, local, lifoVars, submitVars, buffer,
                   stealVars, discarded, dropped, restVars>>

RunReturns(w) == pc[w] = "run" /\ todo[w] = {} /\ TaskOver(w)

RunThrows(w) == pc[w] = "run" /\ current[w] \in Throwing /\ TaskOver(w)

PickNextTask(w) ==
    \/ StartPass(w) \/ Tick(w) \/ TakeLifo(w) \/ Pop(w) \/ PopNothing(w)
    \/ GrabGlobal(w) \/ GrabNothing(w) \/ AllowAfterGrab(w) \/ Spread(w)
    \/ CheckImpudence(w) \/ (\E v \in Workers : GiveVictim(w, v)) \/ NoVictim(w)
    \/ LowSize(w) \/ Steal(w) \/ TryParkMe(w) \/ WakeUp(w)
    \/ LeaveLoop(w) \/ DiscardOwn(w)

WorkerStep(w) == \/ PickNextTask(w) \/ RunReturns(w) \/ RunThrows(w)
                 \/ WorkerSubmission(w)
                 \/ \E x \in Tasks, hint \in {"Next", "UpToYou", "Slow"} : Execute(w, x, hint)

-----------------------------------------------------------------------------
(* ThreadPool::WaitIdle and Stop *)

ClientOnly == UNCHANGED <<local, lifoVars, submitVars, buffer, stealVars, runVars, done,
                          dropped>>

WaitIdle(c) ==
    /\ pc[c] = "idle"
    /\ due' = [due EXCEPT ![c] = handed \ {arg[d] : d \in Clients}]
    /\ Goto(c, "waitGlobal")
    /\ UNCHANGED <<globalVars, coordinatorVars, discarded, stopped>> /\ ClientOnly

\* Mutant of GlobalIsZero: only the workers are waited for.
GlobalUnchecked(c) ==
    /\ pc[c] = "waitGlobal"
    /\ Goto(c, "waitWorkers")
    /\ UNCHANGED <<globalVars, coordinatorVars, discarded, due, stopped>> /\ ClientOnly

\* GlobalQueue::WaitIdle, then Coordinator::WaitIdle.
GlobalIsZero(c) ==
    /\ pc[c] = "waitGlobal"
    /\ outstanding = 0
    /\ Goto(c, "waitWorkers")
    /\ UNCHANGED <<globalVars, coordinatorVars, discarded, due, stopped>> /\ ClientOnly

AwakeIsZero(c) ==
    /\ pc[c] = "waitWorkers"
    /\ awake = 0
    /\ Goto(c, "idle")
    /\ due' = [due EXCEPT ![c] = {}]
    /\ UNCHANGED <<globalVars, coordinatorVars, discarded, stopped>> /\ ClientOnly

Stop(c) ==
    /\ pc[c] = "idle"
    /\ \A d \in Clients : pc[d] \notin {"stop", "drain", "awakeAll", "join", "stopped"}
    /\ Goto(c, "stop")
    /\ UNCHANGED <<globalVars, coordinatorVars, discarded, due, stopped>> /\ ClientOnly

\* The workers are told one after the other.
StopWorker(c) ==
    /\ pc[c] = "stop"
    /\ \E w \in Workers : /\ ~ stopped[w]
                          /\ \A v \in 1 .. w - 1 : stopped[v]
                          /\ stopped' = [stopped EXCEPT ![w] = TRUE]
    /\ UNCHANGED <<globalVars, coordinatorVars, pc, discarded, due>> /\ ClientOnly

StopGlobal(c) ==
    /\ pc[c] = "stop"
    /\ \A w \in Workers : stopped[w]
    /\ CloseQueue
    /\ Goto(c, "drain")
    /\ UNCHANGED <<coordinatorVars, discarded, due, stopped>> /\ ClientOnly

\* Mutant of DrainGlobal: the tasks taken out are not discarded.
DrainForgets(c) ==
    /\ pc[c] = "drain"
    /\ IF global = <<>>
       THEN Goto(c, "awakeAll") /\ UNCHANGED <<globalVars, discarded>>
       ELSE /\ Drain
            /\ discarded' = discarded
            /\ Goto(c, IF Garbage \in ToSet(global) THEN "crashed" ELSE "drain")
    /\ UNCHANGED <<coordinatorVars, due, stopped>> /\ ClientOnly

\* One turn of GlobalQueue::Stop's loop (its array holds the whole queue).
DrainGlobal(c) ==
    /\ pc[c] = "drain"
    /\ IF global = <<>>
       THEN Goto(c, "awakeAll") /\ UNCHANGED <<globalVars, discarded>>
       ELSE /\ Drain
            /\ discarded' = discarded \cup (ToSet(global) \ {Garbage})
            /\ Goto(c, IF Garbage \in ToSet(global) THEN "crashed" ELSE "drain")
    /\ UNCHANGED <<coordinatorVars, due, stopped>> /\ ClientOnly

AwakeAll(c) ==
    /\ pc[c] = "awakeAll"
    /\ AwakeEveryoneForever
    /\ Goto(c, "join")
    /\ UNCHANGED <<globalVars, discarded, due, stopped>> /\ ClientOnly

Join(c) ==
    /\ pc[c] = "join"
    /\ \A w \in Workers : pc[w] = "exited"
    /\ Goto(c, "stopped")
    /\ UNCHANGED <<globalVars, coordinatorVars, discarded, due, stopped>> /\ ClientOnly

ClientStep(c) == \/ Submission(c) \/ GlobalIsZero(c) \/ AwakeIsZero(c)
                 \/ StopWorker(c) \/ StopGlobal(c) \/ DrainGlobal(c) \/ AwakeAll(c)
                 \/ Join(c)

-----------------------------------------------------------------------------
\* A crash of one thread ends the process.
Crashed == \E t \in Threads : pc[t] = "crashed"

Constructed == \A w \in Workers : pc[w] # "new"

GoesOn == ~ Crashed /\ Constructed /\ UNCHANGED children

Next == \/ \E w \in Workers : Construct(w)
        \/ /\ GoesOn
           /\ \/ \E w \in Workers : WorkerStep(w)
              \/ \E c \in Clients : \/ ClientStep(c)
                                    \/ \E x \in Roots : Execute(c, x, "UpToYou")
              \/ \E c \in Waiters : WaitIdle(c)
              \/ \E c \in Stoppers : Stop(c)

Spec == Init /\ [][Next]_vars

\* The threads of the pool keep running and tasks end; a client goes on with
\* what it has begun, but need not begin anything.
Fairness == /\ \A w \in Workers : WF_vars(Construct(w) \/ (GoesOn /\ WorkerStep(w)))
            /\ \A c \in Clients : WF_vars(GoesOn /\ ClientStep(c))

FairSpec == Spec /\ Fairness

-----------------------------------------------------------------------------
(* Properties *)

Items == Tasks \cup {Garbage}

TypeOK ==
    /\ global \in Seq(Items) /\ closed \in BOOLEAN /\ outstanding \in Nat
    /\ active \in Seq(Workers) /\ passive \in Seq(Workers) /\ awake \in Nat
    /\ permission \in {"Allowed", "TemporaryProhibited", "PermanentlyProhibited"}
    /\ asleep \subseteq Workers /\ woken \subseteq Workers
    /\ stopped \in [Workers -> BOOLEAN]
    /\ local \in [Workers -> Seq(Items)]
    /\ \A w \in Workers : Len(local[w]) <= Capacity
    /\ lifo \in [Workers -> Items \cup {Null}]
    /\ usage \in [Workers -> 0 .. LifoLimit] /\ cycle \in [Workers -> 0 .. CycleLimit - 1]
    /\ arg \in [Threads -> Items \cup {Null}]
    /\ buffer \in [Workers -> Seq(Items)]
    /\ series \in [Workers -> Nat]
    /\ victim \in [Workers -> 0 .. N] /\ limit \in [Workers -> Nat]
    /\ current \in [Workers -> Items \cup {Null}]
    /\ todo \in [Workers -> SUBSET Tasks]
    /\ handed \subseteq Tasks /\ done \subseteq handed

\* Where a task may be.
Submitting == {arg[t] : t \in {u \in Threads : pc[u] \in {"checkClosed", "push",
                                                        "toLifo", "toLocal", "offloadGrab"}}}
Places == <<Submitting, ToSet(global), {current[w] : w \in Workers} \ {Null},
            {lifo[w] : w \in Workers} \ {Null},
            UNION {ToSet(buffer[w]) : w \in Workers},
            UNION {ToSet(local[w]) : w \in Workers},
            done, discarded, dropped>>

\* A task passed to Execute is in one of the pool's places until it was run or
\* discarded: no interleaving of pushes, steals, offloads and Stop forgets it.
\* (A task pushed to the global queue after Stop drained it stays there, and
\* OffloadTasksToGlobalQueue drops what it took.)
NotLost == LET places == Places
           IN  handed = (UNION {places[i] : i \in DOMAIN places}) \ {Garbage}

\* It is in one place only, once: no task is run twice or by two workers.
OnceIn(s) == \A i, j \in DOMAIN s : i # j /\ s[i] = s[j] => s[i] = Garbage

NotDuplicated ==
    /\ LET places == Places
       IN  \A i, j \in DOMAIN places : i < j => places[i] \cap places[j] \subseteq {Garbage}
    /\ OnceIn(global)
    /\ \A t, u \in Threads : t # u /\ arg[t] \in Tasks => arg[t] # arg[u]
    /\ \A w \in Workers : OnceIn(local[w]) /\ OnceIn(buffer[w])
    /\ \A w, v \in Workers : w # v =>
          /\ ToSet(local[w]) \cap ToSet(local[v]) \subseteq {Garbage}
          /\ ToSet(buffer[w]) \cap ToSet(buffer[v]) \subseteq {Garbage}
          /\ current[w] \in Tasks => current[w] # current[v]
          /\ lifo[w] \in Tasks => lifo[w] # lifo[v]

\* The coordinator's books: the lists and the counter hold the workers that
\* are awake, whatever parks, wakes and leaves; so a worker in GiveVictim finds
\* a victim (the modulus is not zero), and an awake worker was never forgotten.
\* (A crash ends the process, wherever the books are then.)
AwakeAreListed ==
    /\ \/ Crashed
       \/ /\ Listed = {w \in Workers : pc[w] \notin {"new", "parked", "leave", "exited"}}
          /\ awake = Cardinality(Listed)
          /\ Len(active) + Len(passive) = Cardinality(Listed)
    /\ asleep \cup woken = {w \in Workers : pc[w] = "parked"}

\* The waiter of the global queue is one while there are tasks, until Stop.
OutstandingIsNonEmpty ==
    ~ closed => outstanding = IF global = <<>> THEN 0 ELSE 1

\* A worker parks with nothing: no task waits for a sleeping worker.
ParkedHasNothing ==
    \A w \in Workers : pc[w] \in {"parked", "exited"} =>
        local[w] = <<>> /\ lifo[w] = Null /\ buffer[w] = <<>>

\* No wake-up is lost: while the global queue holds a task, some worker is
\* awake or woken, or a submitter is about to call ProhibitParking.
NoLostWakeUp ==
    global # <<>> /\ ~ closed =>
        \/ \E w \in Workers : pc[w] # "parked" \/ w \in woken
        \/ \E t \in Threads : pc[t] = "prohibit"

\* PushMany "Should always succeed": only a worker whose own queue is empty
\* takes tasks from elsewhere, and no more than fit.
PushManyIntoEmpty ==
    \A w \in Workers : pc[w] = "spread" =>
        local[w] = <<>> /\ Len(buffer[w]) <= Capacity

\* When WaitIdle returns, the tasks submitted before it was called are over,
\* and so is all they submitted, although the two counters are read one after
\* the other and tasks move between queues meanwhile.
Offspring[S \in SUBSET Tasks] ==
    LET more == S \cup UNION {children[x] : x \in S}
    IN  IF more = S THEN S ELSE Offspring[more]

IdleMeansDone ==
    [][\A c \in Clients : pc[c] = "waitWorkers" /\ pc'[c] = "idle" =>
          Offspring[due[c]] \cap handed \subseteq done \cup discarded \cup dropped]_vars

\* After Stop has returned the pool runs no user code.
NothingRunsAfterStop ==
    [][(\E c \in Clients : pc[c] = "stopped") => UNCHANGED <<done, current, todo>>]_vars

\* Every task that was submitted is over, and c waits for nothing; of a closed
\* pool only Stop is expected to return, whatever the workers are doing.
AtRest(c) == IF closed THEN pc[c] \notin {"drain", "awakeAll", "join"}
             ELSE pc[c] = "idle" /\ handed \subseteq done \cup discarded \cup dropped

\* "For stealing and for offloading to global queue": what a worker grabs from
\* its full queue reaches the global queue.
NothingDropped == dropped = {}

\* Every task is accounted for on its way through the queues.
TasksAreAccounted == TypeOK /\ NotLost /\ NotDuplicated

\* The two counters that WaitIdle reads mean what it takes them for.
CountersAreTrue == AwakeAreListed /\ OutstandingIsNonEmpty

\* Where the code relies on a worker's queues being empty, they are.
EmptyHanded == ParkedHasNothing /\ PushManyIntoEmpty

\* A call that has returned means what it promised.
ReturnsMeanIt == IdleMeansDone /\ NothingRunsAfterStop

\* Nothing waits for ever, whichever workers are asleep when a task arrives:
\* every task is run in the end, and WaitIdle and Stop return.
EveryWaitEnds == \A c \in Clients : []<>AtRest(c)
=============================================================================
