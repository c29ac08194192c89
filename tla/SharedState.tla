---------------------------- MODULE SharedState ----------------------------
(***************************************************************************)
(* futures/core: the state that a promise and a future share, and the      *)
(* executors that run its callback.  What a thread has still to do is a    *)
(* sequence of operations todo[t], its call stack included: an operation   *)
(* takes one step, and may put others in its place.  Those of this module  *)
(* are <<"set", s, r>> and <<"subscribe", s, callback>>, their parts, and  *)
(* <<"run", limit>> of the manual executor.  A task is an operation too:   *)
(* <<"call", callback, r>>.                                                *)
(***************************************************************************)
EXTENDS Integers, SequencesExt

CONSTANTS Clients,      \* threads that build futures and fulfil promises
          Workers,      \* threads of the pool
          States, Null

Threads == Clients \cup Workers

VARIABLES result,       \* result_: <<r>>, or <<>> before it is set and when it is moved out
          ready,        \* result_ready_
          callback,     \* callback_: <<c>>, or <<>> when it is empty
          callbackReady,
          executor,     \* executor_: "inline", "pool" or "manual"
          tasks,        \* the queues of the pool and of the manual executor
          todo,
          asleep        \* asleep[t]: the futex that t waits on, or Null

resultVars == <<result, ready>>
callbackVars == <<callback, callbackReady>>
stateVars == <<resultVars, callbackVars, executor>>
threadVars == <<tasks, todo, asleep>>

SharedInit(script) == /\ result = [s \in States |-> <<>>]
                      /\ ready = [s \in States |-> FALSE]
                      /\ callback = [s \in States |-> <<>>]
                      /\ callbackReady = [s \in States |-> FALSE]
                      /\ executor = [s \in States |-> "inline"]
                      /\ tasks = [e \in {"pool", "manual"} |-> <<>>]
                      /\ todo = script
                      /\ asleep = [t \in Threads |-> Null]

Doing(t, name) == asleep[t] = Null /\ todo[t] # <<>> /\ Head(todo[t])[1] = name

\* The i-th part of the operation that t is doing.
Arg(t, i) == Head(todo[t])[i]

\* The operation is done and leaves these to do first.
Continue(t, operations) == todo' = [todo EXCEPT ![t] = operations \o Tail(@)]

\* IExecutor::Execute: the inline executor calls, the others queue.
Submit(t, e, task) == IF e = "inline"
                      THEN Continue(t, <<task>>) /\ UNCHANGED tasks
                      ELSE tasks' = [tasks EXCEPT ![e] = Append(@, task)] /\ Continue(t, <<>>)

-----------------------------------------------------------------------------
(* Producer *)

StoreResult(t) ==
    /\ Doing(t, "set")
    /\ LET s == Arg(t, 2) IN
         /\ result' = [result EXCEPT ![s] = <<Arg(t, 3)>>]
         /\ Continue(t, <<<<"ready", s>>, <<"try", s>>, <<"notify", s>>>>)
    /\ UNCHANGED <<ready, callbackVars, executor, tasks, asleep>>

StoreReady(t) ==
    /\ Doing(t, "ready")
    /\ ready' = [ready EXCEPT ![Arg(t, 2)] = TRUE]
    /\ Continue(t, <<>>)
    /\ UNCHANGED <<result, callbackVars, executor, tasks, asleep>>

\* TryCallback: the exchange of callback_ready_, and what its winner takes.
TryCallback(t) ==
    /\ Doing(t, "try")
    /\ LET s == Arg(t, 2) IN
         IF callbackReady[s]
         THEN /\ Submit(t, executor[s], <<"call", callback[s][1], result[s][1]>>)
              /\ callbackReady' = [callbackReady EXCEPT ![s] = FALSE]
              /\ callback' = [callback EXCEPT ![s] = <<>>]
              /\ result' = [result EXCEPT ![s] = <<>>]
         ELSE Continue(t, <<>>) /\ UNCHANGED <<callbackVars, result, tasks>>
    /\ UNCHANGED <<ready, executor, asleep>>

\* result_ready_.notify_all().
Notify(t) ==
    /\ Doing(t, "notify")
    /\ asleep' = [u \in Threads |-> IF asleep[u] = Arg(t, 2) THEN Null ELSE asleep[u]]
    /\ Continue(t, <<>>)
    /\ UNCHANGED <<stateVars, tasks>>

-----------------------------------------------------------------------------
(* Consumer *)

StoreCallback(t) ==
    /\ Doing(t, "subscribe")
    /\ LET s == Arg(t, 2) IN
         /\ callback' = [callback EXCEPT ![s] = <<Arg(t, 3)>>]
         /\ Continue(t, <<<<"publish", s>>, <<"check", s>>>>)
    /\ UNCHANGED <<resultVars, callbackReady, executor, tasks, asleep>>

PublishCallback(t) ==
    /\ Doing(t, "publish")
    /\ callbackReady' = [callbackReady EXCEPT ![Arg(t, 2)] = TRUE]
    /\ Continue(t, <<>>)
    /\ UNCHANGED <<resultVars, callback, executor, tasks, asleep>>

\* Mutant of CheckResult: the subscriber leaves the callback to the producer.
CheckNothing(t) ==
    /\ Doing(t, "check")
    /\ Continue(t, <<>>)
    /\ UNCHANGED <<stateVars, tasks, asleep>>

CheckResult(t) ==
    /\ Doing(t, "check")
    /\ Continue(t, IF ready[Arg(t, 2)] THEN <<<<"try", Arg(t, 2)>>>> ELSE <<>>)
    /\ UNCHANGED <<stateVars, tasks, asleep>>

-----------------------------------------------------------------------------
(* Executors *)

\* A worker of the pool takes a task.
Take(w) == /\ todo[w] = <<>>
           /\ tasks["pool"] # <<>>
           /\ todo' = [todo EXCEPT ![w] = <<Head(tasks["pool"])>>]
           /\ tasks' = [tasks EXCEPT !["pool"] = Tail(@)]
           /\ UNCHANGED <<stateVars, asleep>>

\* RunAtMost, or Drain if the limit is negative: the task is taken out of the
\* queue when it has run.
RunManual(t) ==
    /\ Doing(t, "run")
    /\ Continue(t, IF Arg(t, 2) # 0 /\ tasks["manual"] # <<>>
                   THEN <<Head(tasks["manual"]), <<"pop">>, <<"run", Arg(t, 2) - 1>>>>
                   ELSE <<>>)
    /\ UNCHANGED <<stateVars, tasks, asleep>>

PopManual(t) == /\ Doing(t, "pop")
                /\ tasks' = [tasks EXCEPT !["manual"] = Tail(@)]
                /\ Continue(t, <<>>)
                /\ UNCHANGED <<stateVars, asleep>>

SharedStep(t) ==
    \/ StoreResult(t) \/ StoreReady(t) \/ TryCallback(t) \/ Notify(t)
    \/ StoreCallback(t) \/ PublishCallback(t) \/ CheckResult(t)
    \/ RunManual(t) \/ PopManual(t)
    \/ t \in Workers /\ Take(t)
=============================================================================
