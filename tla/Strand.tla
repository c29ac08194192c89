------------------------------- MODULE Strand -------------------------------
(***************************************************************************)
(* The strand of futures/futures/exe/executors/strand.cpp (the copy in     *)
(* futures/executors also discards each task after it ran): a lock-free    *)
(* stack of task nodes and a flag, on top of another executor.             *)
(*                                                                         *)
(* One action is one atomic operation, one call of the underlying executor *)
(* or one step of a task.  Nodes are addresses: `new` may return any that  *)
(* is free, so a node that was deleted may reappear between a submitter's  *)
(* load of tasks_ and its compare-exchange.  The list Run takes off the    *)
(* stack is private; its reversal is part of the step that takes it.       *)
(***************************************************************************)
EXTENDS Naturals, Sequences, FiniteSets, SequencesExt

CONSTANTS Submitters,   \* threads that call Execute
          Workers,      \* threads of the underlying executor
          Tasks,
          Throwing,     \* tasks that may end with an exception
          Nodes,        \* addresses for TaskNode objects
          Null,
          SlaveMayStop  \* the underlying executor may discard the strand

ASSUME StrandAssumption == /\ Submitters \cap Workers = {}
                           /\ Throwing \subseteq Tasks
                           /\ Null \notin Nodes \cup Tasks
                           /\ SlaveMayStop \in BOOLEAN
                           /\ IsFiniteSet(Nodes)

Threads == Submitters \cup Workers

VARIABLES tasks,        \* tasks_: top of the stack
          reschedule,   \* reschedule_
          prev,         \* prev[n]: n->prev_
          task,         \* task[n]: n->task_, Null if n is free memory
          scheduled,    \* how often the strand is in the slave's queue
          pc,           \* pc[t]: what t does next
          created,      \* created[s]: the node of a submitter
          batch,        \* batch[w]: the nodes Run took and has not deleted
          fresh,        \* tasks not yet submitted
          executed,     \* tasks that ended, in this order
          broken        \* a task threw, or the slave discarded the strand

memory == <<prev, task>>
vars == <<tasks, reschedule, memory, scheduled, pc, created, batch, fresh, executed, broken>>

Init == /\ tasks = Null /\ reschedule = TRUE
        /\ prev = [n \in Nodes |-> Null]
        /\ task = [n \in Nodes |-> Null]
        /\ scheduled = 0
        /\ pc = [t \in Threads |-> "idle"]
        /\ created = [s \in Submitters |-> Null]
        /\ batch = [w \in Workers |-> <<>>]
        /\ fresh = Tasks
        /\ executed = <<>>
        /\ broken = FALSE

Goto(t, label) == pc' = [pc EXCEPT ![t] = label]

-----------------------------------------------------------------------------
(* Execute *)

NewNode(s, x, n) ==
    /\ pc[s] = "idle"
    /\ x \in fresh
    /\ task[n] = Null
    /\ fresh' = fresh \ {x}
    /\ task' = [task EXCEPT ![n] = x]
    /\ created' = [created EXCEPT ![s] = n]
    /\ Goto(s, "load")
    /\ UNCHANGED <<tasks, reschedule, prev, scheduled, batch, executed, broken>>

LoadTop(s) ==
    /\ pc[s] = "load"
    /\ prev' = [prev EXCEPT ![created[s]] = tasks]
    /\ Goto(s, "push")
    /\ UNCHANGED <<tasks, reschedule, task, scheduled, created, batch, fresh, executed, broken>>

\* Mutant of Push: a store instead of a compare-exchange.
PushBlindly(s) ==
    /\ pc[s] = "push"
    /\ tasks' = created[s]
    /\ created' = [created EXCEPT ![s] = Null]
    /\ Goto(s, "claim")
    /\ UNCHANGED <<reschedule, memory, scheduled, batch, fresh, executed, broken>>

Push(s) ==
    /\ pc[s] = "push"
    /\ tasks = prev[created[s]]
    /\ tasks' = created[s]
    /\ created' = [created EXCEPT ![s] = Null]
    /\ Goto(s, "claim")
    /\ UNCHANGED <<reschedule, memory, scheduled, batch, fresh, executed, broken>>

PushFails(s) ==
    /\ pc[s] = "push"
    /\ tasks # prev[created[s]]
    /\ Goto(s, "load")
    /\ UNCHANGED <<tasks, reschedule, memory, scheduled, created, batch, fresh, executed, broken>>

\* Mutant of Claim: the flag is read and not cleared.
ClaimByLoad(t) ==
    /\ pc[t] = "claim"
    /\ Goto(t, IF reschedule THEN "schedule" ELSE "idle")
    /\ UNCHANGED <<tasks, reschedule, memory, scheduled, created, batch, fresh, executed, broken>>

\* reschedule_.exchange(false), in Execute and in Run: whoever reads true
\* schedules the strand.
Claim(t) ==
    /\ pc[t] = "claim"
    /\ reschedule' = FALSE
    /\ Goto(t, IF reschedule THEN "schedule" ELSE "idle")
    /\ UNCHANGED <<tasks, memory, scheduled, created, batch, fresh, executed, broken>>

Schedule(t) ==
    /\ pc[t] = "schedule"
    /\ scheduled' = scheduled + 1
    /\ Goto(t, "idle")
    /\ UNCHANGED <<tasks, reschedule, memory, created, batch, fresh, executed, broken>>

-----------------------------------------------------------------------------
(* The underlying executor runs or discards the strand *)

RunStrand(w) ==
    /\ pc[w] = "idle"
    /\ scheduled > 0
    /\ scheduled' = scheduled - 1
    /\ Goto(w, "steal")
    /\ UNCHANGED <<tasks, reschedule, memory, created, batch, fresh, executed, broken>>

\* Strand::Discard does nothing.
Discard ==
    /\ SlaveMayStop
    /\ scheduled > 0
    /\ broken' = TRUE
    /\ scheduled' = scheduled - 1
    /\ UNCHANGED <<tasks, reschedule, memory, pc, created, batch, fresh, executed>>

-----------------------------------------------------------------------------
(* Run *)

\* The nodes that hang off tasks_, oldest first: Reverse.
Stack == LET top[i \in 0 .. Cardinality(Nodes)] ==
                 IF i = 0 THEN tasks ELSE IF top[i - 1] = Null THEN Null ELSE prev[top[i - 1]]
             size == Cardinality({i \in 0 .. Cardinality(Nodes) : top[i] # Null})
         IN  [i \in 1 .. size |-> top[size - i]]

\* Mutant of Steal: the list is run as it hangs, newest first.
StealUnreversed(w) ==
    /\ pc[w] = "steal"
    /\ tasks # Null
    /\ tasks' = Null
    /\ batch' = [batch EXCEPT ![w] = Reverse(Stack)]
    /\ Goto(w, "run")
    /\ UNCHANGED <<reschedule, memory, scheduled, created, fresh, executed, broken>>

\* tasks_.exchange(nullptr) and Reverse.
Steal(w) ==
    /\ pc[w] = "steal"
    /\ tasks # Null
    /\ tasks' = Null
    /\ batch' = [batch EXCEPT ![w] = Stack]
    /\ Goto(w, "run")
    /\ UNCHANGED <<reschedule, memory, scheduled, created, fresh, executed, broken>>

StealNothing(w) ==
    /\ pc[w] = "steal"
    /\ tasks = Null
    /\ Goto(w, "release")
    /\ UNCHANGED <<tasks, reschedule, memory, scheduled, created, batch, fresh, executed, broken>>

\* reschedule_.store(true)
Release(w) ==
    /\ pc[w] = "release"
    /\ reschedule' = TRUE
    /\ Goto(w, "recheck")
    /\ UNCHANGED <<tasks, memory, scheduled, created, batch, fresh, executed, broken>>

\* Mutant of Recheck: the strand does not look at tasks_ again.
RecheckNothing(w) ==
    /\ pc[w] = "recheck"
    /\ Goto(w, "idle")
    /\ UNCHANGED <<tasks, reschedule, memory, scheduled, created, batch, fresh, executed, broken>>

\* A task pushed since then may have found the flag still false.
Recheck(w) ==
    /\ pc[w] = "recheck"
    /\ Goto(w, IF tasks = Null THEN "idle" ELSE "claim")
    /\ UNCHANGED <<tasks, reschedule, memory, scheduled, created, batch, fresh, executed, broken>>

BeginTask(w) ==
    /\ pc[w] = "run"
    /\ Goto(w, "running")
    /\ UNCHANGED <<tasks, reschedule, memory, scheduled, created, batch, fresh, executed, broken>>

\* The task returns, its node is deleted; after the last one, Schedule.
EndTask(w) ==
    /\ pc[w] = "running"
    /\ LET n == Head(batch[w])
       IN  /\ executed' = Append(executed, task[n])
           /\ task' = [task EXCEPT ![n] = Null]
    /\ batch' = [batch EXCEPT ![w] = Tail(@)]
    /\ Goto(w, IF Len(batch[w]) = 1 THEN "schedule" ELSE "run")
    /\ UNCHANGED <<tasks, reschedule, prev, scheduled, created, fresh, broken>>

\* The task throws: Run is left, the worker calls Strand::Discard, the rest of
\* the batch stays in memory that nobody refers to.
ThrowTask(w) ==
    /\ pc[w] = "running"
    /\ LET x == task[Head(batch[w])]
       IN  /\ x \in Throwing
           /\ executed' = Append(executed, x)
    /\ batch' = [batch EXCEPT ![w] = Tail(@)]
    /\ broken' = TRUE
    /\ Goto(w, "idle")
    /\ UNCHANGED <<tasks, reschedule, memory, scheduled, created, fresh>>

-----------------------------------------------------------------------------
Execute(s) == LoadTop(s) \/ Push(s) \/ PushFails(s) \/ Claim(s) \/ Schedule(s)

Run(w) == \/ Steal(w) \/ StealNothing(w) \/ Release(w) \/ Recheck(w) \/ Claim(w)
          \/ Schedule(w) \/ BeginTask(w) \/ EndTask(w) \/ ThrowTask(w)

Next == \/ \E s \in Submitters : \/ \E x \in Tasks, n \in Nodes : NewNode(s, x, n)
                                 \/ Execute(s)
        \/ \E w \in Workers : RunStrand(w) \/ Run(w)
        \/ Discard

Spec == Init /\ [][Next]_vars

\* Threads keep running, tasks end, and some worker of the underlying executor
\* eventually runs what is in its queue.
Fairness == /\ \A s \in Submitters : WF_vars(Execute(s))
            /\ \A w \in Workers : WF_vars(Run(w))
            /\ WF_vars(\E w \in Workers : RunStrand(w))

FairSpec == Spec /\ Fairness

-----------------------------------------------------------------------------
(* Properties *)

TypeOK ==
    /\ tasks \in Nodes \cup {Null} /\ reschedule \in BOOLEAN
    /\ prev \in [Nodes -> Nodes \cup {Null}]
    /\ task \in [Nodes -> Tasks \cup {Null}]
    /\ scheduled \in Nat
    /\ pc \in [Threads -> {"idle", "load", "push", "claim", "schedule",
                           "steal", "release", "recheck", "run", "running"}]
    /\ created \in [Submitters -> Nodes \cup {Null}]
    /\ batch \in [Workers -> Seq(Nodes)]
    /\ fresh \subseteq Tasks
    /\ executed \in Seq(Tasks) /\ broken \in BOOLEAN

\* Who may be about to run the batch or to schedule the strand.
Holders == {t \in Threads : pc[t] \in {"schedule", "steal", "release", "run", "running"}}

\* There is one right to run the strand: it is the flag, or a place in the
\* slave's queue, or a thread has it.  In particular the strand, which is an
\* intrusive node, is never twice in the slave's queue, and two workers never
\* run its tasks at the same time.
OneToken ==
    /\ scheduled <= 1
    /\ \A t, u \in Holders : t = u
    /\ reschedule => scheduled = 0 /\ Holders = {}
    /\ scheduled = 1 => Holders = {}

\* Memory: the nodes on the stack, in the batches and in the hands of the
\* submitters are different and allocated, although addresses are reused and
\* a compare-exchange may see a node come back.
NodesAreLive ==
    LET batched == UNION {ToSet(batch[w]) : w \in Workers}
        own == {created[s] : s \in Submitters} \ {Null}
    IN  /\ IsInjective(Stack)
        /\ \A n \in ToSet(Stack) \cup batched \cup own : task[n] # Null
        /\ ToSet(Stack) \cap batched = {}
        /\ own \cap (ToSet(Stack) \cup batched) = {}

\* "Executes (via underlying executor) tasks non-concurrently and in FIFO
\* order": the order is that of the successful compare-exchanges.
TasksOf(nodes) == [i \in 1 .. Len(nodes) |-> task[nodes[i]]]

NotBegun(w) == IF pc[w] = "running" THEN Tail(batch[w]) ELSE batch[w]

Taken == {w \in Workers : batch[w] # <<>>}

Serial == INSTANCE SerialExecutor WITH
            pending <- TasksOf((IF Taken = {} THEN <<>> ELSE NotBegun(CHOOSE w \in Taken : TRUE)) \o Stack),
            running <- {task[Head(batch[w])] : w \in {v \in Workers : pc[v] = "running"}}

ImplementsSerialExecutor == Serial!Spec

\* Every task passed to Execute is run, however the submitters race with the
\* end of a Run, unless the slave discards the strand or a task throws.
EveryTaskRuns ==
    \A x \in Tasks : x \notin fresh ~> x \in ToSet(executed) \/ broken

\* "Executes (via underlying executor) tasks", a task that throws or not.
EveryTaskRunsAnyway ==
    \A x \in Tasks : x \notin fresh ~> x \in ToSet(executed)

\* The list of nodes is sound whoever holds a stale pointer into it.
NodesAreSound == TypeOK /\ NodesAreLive
=============================================================================
