------------------------------- MODULE Futures -------------------------------
(***************************************************************************)
(* futures: continuations, combinators and the blocking Get over shared    *)
(* states.  Clients build futures by the operations <<"via", s, e>>,       *)
(* <<"then", s, p, c>>, <<"flatMap", s, p, g>>, <<"recover", s, p, h>>,    *)
(* <<"all", inputs, p>>, <<"firstOf", inputs, p>> and <<"execute", e, p>>, *)
(* where p is a fresh state and g the future that a continuation returns;  *)
(* they call <<"get", s>> and <<"getReady", s>>, and <<"produce", s>>      *)
(* fulfils a promise.  A value is the sequence of what it was made of.     *)
(***************************************************************************)
EXTENDS SharedState, FiniteSets

CONSTANT Programs       \* programs to choose from: a script for every thread

\* What an operation of a script uses up: a promise and a future move into the
\* call that they are given to, and there is one combinator of each kind.
Uses(op) ==
    LET promise(s) == <<"promise", s, 0>>
        future(s) == <<"future", s, 0>>
        futures(inputs) == {future(inputs[i]) : i \in DOMAIN inputs}
    IN  CASE op[1] = "produce" -> {promise(op[2])}
          [] op[1] = "execute" -> {promise(op[3])}
          [] op[1] \in {"then", "recover"} -> {future(op[2]), promise(op[3])}
          [] op[1] = "flatMap" -> {future(op[2]), promise(op[3]), future(op[4])}
          [] op[1] \in {"all", "firstOf"} ->
                futures(op[2]) \cup {promise(op[3]), <<"combinator", op[1], 0>>}
          [] op[1] \in {"get", "getReady"} -> {future(op[2])}
          [] OTHER -> {}

Executors == {"inline", "pool", "manual"}

IsScriptOperation(op) ==
    \/ op[1] \in {"produce", "get", "getReady"} /\ op[2] \in States
    \/ op[1] = "via" /\ op[2] \in States /\ op[3] \in Executors
    \/ op[1] \in {"then", "recover"} /\ {op[2], op[3]} \subseteq States
    \/ op[1] = "flatMap" /\ {op[2], op[3], op[4]} \subseteq States /\ op[2] # op[4]
    \/ op[1] \in {"all", "firstOf"} /\ op[2] \in Seq(States) /\ IsInjective(op[2]) /\ op[3] \in States
    \/ op[1] = "execute" /\ op[2] \in Executors /\ op[3] \in States
    \/ op[1] = "run" /\ op[2] \in Int

\* Clients have scripts; nothing is used twice, and one thread runs what it
\* submits to the manual executor, which has no synchronization.
IsProgram(script) ==
    /\ DOMAIN script = Threads
    /\ \A t \in Threads : /\ script[t] \in Seq(ToSet(script[t]))
                          /\ script[t] # <<>> => t \in Clients
                          /\ \A op \in ToSet(script[t]) : IsScriptOperation(op)
    /\ \A t, u \in Threads : \A i \in DOMAIN script[t], j \in DOMAIN script[u] :
         /\ Uses(script[t][i]) \cap Uses(script[u][j]) # {} => t = u /\ i = j
         /\ script[t][i][1] = "run" /\ script[u][j][1] = "run" => t = u

ASSUME ProgramAssumption == \A script \in Programs : IsProgram(script)

VARIABLES answers,      \* All: ans_
          finished,     \* finished_
          exited,       \* exited_
          errorsLeft,   \* FirstOf: errors_left_
          nobodyIsReady,
          sleeper,      \* sleeper[t]: t's sleeper in GetResult
          answer,       \* answer[t]: what Get or GetReadyResult gave t
          origin,       \* history: what each future was made of
          sets          \* history: how often each promise was fulfilled

allVars == <<answers, finished, exited>>
firstVars == <<errorsLeft, nobodyIsReady>>
getVars == <<sleeper, answer>>
futureVars == <<allVars, firstVars, getVars, origin, sets>>
vars == <<stateVars, threadVars, futureVars>>

Value(x) == [ok |-> TRUE, val |-> x]
Error(x) == [ok |-> FALSE, val |-> x]

Init == \E script \in Programs :
    /\ SharedInit(script)
    /\ answers = <<>> /\ finished = 0 /\ exited = FALSE
    /\ errorsLeft = 0 /\ nobodyIsReady = TRUE
    /\ sleeper = [t \in Clients |-> 0]
    /\ answer = [t \in Clients |-> Null]
    /\ origin = [s \in States |-> <<"none">>]
    /\ sets = [s \in States |-> 0]

\* Promise::Set, SetValue and SetError.
Fulfil(t, p, r, operations) == /\ Continue(t, <<<<"set", p, r>>>> \o operations)
                               /\ sets' = [sets EXCEPT ![p] = @ + 1]

Nothing(t) == Continue(t, <<>>) /\ UNCHANGED sets

\* The rest of the state when a step does nothing but fulfil a promise.
OnlyFulfils == UNCHANGED <<stateVars, tasks, asleep, allVars, firstVars, getVars>>

\* What code of the user's makes for the promise p: a value or an exception.
Made(p) == {Value(<<p>>), Error(<<p>>)}

-----------------------------------------------------------------------------
(* Building futures *)

Produce(t) ==
    /\ Doing(t, "produce")
    /\ \E r \in Made(Arg(t, 2)) :
         /\ Fulfil(t, Arg(t, 2), r, <<>>)
         /\ origin' = [origin EXCEPT ![Arg(t, 2)] = <<"made", r>>]
    /\ OnlyFulfils

\* futures::Execute: a task of the executor computes the value.
Execute(t) ==
    /\ Doing(t, "execute")
    /\ LET p == Arg(t, 3) IN
         /\ executor' = [executor EXCEPT ![p] = Arg(t, 2)]
         /\ Submit(t, Arg(t, 2), <<"call", <<"compute", p>>, Value(<<>>)>>)
         /\ origin' = [origin EXCEPT ![p] = Head(todo[t])]
    /\ UNCHANGED <<resultVars, callbackVars, asleep, allVars, firstVars, getVars, sets>>

Via(t) ==
    /\ Doing(t, "via")
    /\ executor' = [executor EXCEPT ![Arg(t, 2)] = Arg(t, 3)]
    /\ Continue(t, <<>>)
    /\ UNCHANGED <<resultVars, callbackVars, tasks, asleep, futureVars>>

\* Mutant of Chain: the new future has the default executor.
ChainInline(t) ==
    /\ todo[t] # <<>> /\ Arg(t, 1) \in {"then", "flatMap", "recover"} /\ asleep[t] = Null
    /\ LET s == Arg(t, 2)  p == Arg(t, 3) IN
         /\ Continue(t, <<<<"subscribe", s, <<Arg(t, 1), p, Arg(t, 4)>>>>>>)
         /\ origin' = [origin EXCEPT ![p] = Head(todo[t])]
    /\ UNCHANGED <<stateVars, tasks, asleep, allVars, firstVars, getVars, sets>>

\* Then (both forms) and Recover: the new future inherits the executor.
Chain(t) ==
    /\ todo[t] # <<>> /\ Arg(t, 1) \in {"then", "flatMap", "recover"} /\ asleep[t] = Null
    /\ LET s == Arg(t, 2)  p == Arg(t, 3) IN
         /\ executor' = [executor EXCEPT ![p] = executor[s]]
         /\ Continue(t, <<<<"subscribe", s, <<Arg(t, 1), p, Arg(t, 4)>>>>>>)
         /\ origin' = [origin EXCEPT ![p] = Head(todo[t])]
    /\ UNCHANGED <<resultVars, callbackVars, tasks, asleep, allVars, firstVars, getVars, sets>>

\* Combine: every input is subscribed, one after the other.
Subscriptions(inputs, callbacks) == [i \in DOMAIN inputs |-> <<"subscribe", inputs[i], callbacks[i]>>]

\* All of no inputs: JustValue.
AllOfNothing(t) ==
    /\ Doing(t, "all") /\ Arg(t, 2) = <<>>
    /\ Fulfil(t, Arg(t, 3), Value(<<>>), <<>>)
    /\ origin' = [origin EXCEPT ![Arg(t, 3)] = Head(todo[t])]
    /\ OnlyFulfils

All(t) ==
    /\ Doing(t, "all") /\ Arg(t, 2) # <<>>
    /\ LET inputs == Arg(t, 2)  p == Arg(t, 3) IN
         /\ answers' = [i \in DOMAIN inputs |-> Null]
         /\ Continue(t, Subscriptions(inputs, [i \in DOMAIN inputs |-> <<"all", p, i>>]))
         /\ origin' = [origin EXCEPT ![p] = Head(todo[t])]
    /\ UNCHANGED <<stateVars, tasks, asleep, finished, exited, firstVars, getVars, sets>>

FirstOf(t) ==
    /\ Doing(t, "firstOf")
    /\ LET inputs == Arg(t, 2)  p == Arg(t, 3) IN
         /\ errorsLeft' = Len(inputs)
         /\ Continue(t, Subscriptions(inputs, [i \in DOMAIN inputs |-> <<"firstOf", p, i>>]))
         /\ origin' = [origin EXCEPT ![p] = Head(todo[t])]
    /\ UNCHANGED <<stateVars, tasks, asleep, allVars, nobodyIsReady, getVars, sets>>

-----------------------------------------------------------------------------
(* Callbacks *)

Calling(t, kind) == Doing(t, "call") /\ Arg(t, 2)[1] = kind

\* A continuation or a handler that throws fails the promise.
Applied(c, x) == IF c = "throws" THEN Error(Append(x, c)) ELSE Value(Append(x, c))

\* The task of Execute: the function returns a value or throws.
Compute(t) ==
    /\ Calling(t, "compute")
    /\ LET p == Arg(t, 2)[2] IN
         \E r \in Made(p) : /\ Fulfil(t, p, r, <<>>)
                            /\ origin' = [origin EXCEPT ![p] = <<"made", r>>]
    /\ OnlyFulfils

CallThen(t) == /\ Calling(t, "then")
               /\ LET r == Arg(t, 3) IN
                    Fulfil(t, Arg(t, 2)[2], IF r.ok THEN Applied(Arg(t, 2)[3], r.val) ELSE r, <<>>)
               /\ OnlyFulfils /\ UNCHANGED origin

\* The continuation returns a future, whose result is forwarded, or throws.
CallFlatMap(t) ==
    /\ Calling(t, "flatMap")
    /\ LET p == Arg(t, 2)[2]  r == Arg(t, 3)  thrown == Applied("throws", r.val) IN
         \/ /\ r.ok
            /\ Continue(t, <<<<"subscribe", Arg(t, 2)[3], <<"forward", p>>>>>>)
            /\ UNCHANGED <<origin, sets>>
         \/ /\ r.ok
            /\ Fulfil(t, p, thrown, <<>>)
            /\ origin' = [origin EXCEPT ![p] = <<"made", thrown>>]
         \/ /\ ~ r.ok
            /\ Fulfil(t, p, r, <<>>)
            /\ UNCHANGED origin
    /\ OnlyFulfils

Forward(t) == /\ Calling(t, "forward")
              /\ Fulfil(t, Arg(t, 2)[2], Arg(t, 3), <<>>)
              /\ OnlyFulfils /\ UNCHANGED origin

\* A value is answered with GetError(), an error that it does not have.
CallRecover(t) == /\ Calling(t, "recover")
                  /\ LET r == Arg(t, 3) IN
                       Fulfil(t, Arg(t, 2)[2],
                              IF r.ok THEN Error(<<"none">>) ELSE Applied(Arg(t, 2)[3], r.val), <<>>)
                  /\ OnlyFulfils /\ UNCHANGED origin

\* All: the first error wins.
ExitAll(t) ==
    /\ Calling(t, "all") /\ ~ Arg(t, 3).ok
    /\ exited' = TRUE
    /\ IF exited THEN Nothing(t) ELSE Fulfil(t, Arg(t, 2)[2], Arg(t, 3), <<>>)
    /\ UNCHANGED <<stateVars, tasks, asleep, answers, finished, firstVars, getVars, origin>>

StoreAnswer(t) ==
    /\ Calling(t, "all") /\ Arg(t, 3).ok
    /\ answers' = [answers EXCEPT ![Arg(t, 2)[3]] = Arg(t, 3).val]
    /\ Continue(t, <<<<"finish", Arg(t, 2)[2], Arg(t, 2)[3]>>>>)
    /\ UNCHANGED <<stateVars, tasks, asleep, finished, exited, firstVars, getVars, origin, sets>>

\* All: the last value fulfils the promise with those of all inputs.
Finish(t) ==
    /\ Doing(t, "finish")
    /\ finished' = finished + 1
    /\ IF finished + 1 = Len(answers)
       THEN Fulfil(t, Arg(t, 2), Value(FlattenSeq(answers)), <<>>)
       ELSE Nothing(t)
    /\ UNCHANGED <<stateVars, tasks, asleep, answers, exited, firstVars, getVars, origin>>

\* Mutant of LastError: the first error fulfils the promise.
AnyError(t) ==
    /\ Calling(t, "firstOf") /\ ~ Arg(t, 3).ok
    /\ errorsLeft' = 0
    /\ IF errorsLeft # 0 THEN Fulfil(t, Arg(t, 2)[2], Arg(t, 3), <<>>) ELSE Nothing(t)
    /\ UNCHANGED <<stateVars, tasks, asleep, allVars, nobodyIsReady, getVars, origin>>

\* FirstOf: the last error fulfils the promise if there was no value.
LastError(t) ==
    /\ Calling(t, "firstOf") /\ ~ Arg(t, 3).ok
    /\ errorsLeft' = errorsLeft - 1
    /\ IF errorsLeft = 1 THEN Fulfil(t, Arg(t, 2)[2], Arg(t, 3), <<>>) ELSE Nothing(t)
    /\ UNCHANGED <<stateVars, tasks, asleep, allVars, nobodyIsReady, getVars, origin>>

FirstValue(t) ==
    /\ Calling(t, "firstOf") /\ Arg(t, 3).ok
    /\ nobodyIsReady' = FALSE
    /\ IF nobodyIsReady THEN Fulfil(t, Arg(t, 2)[2], Arg(t, 3), <<>>) ELSE Nothing(t)
    /\ UNCHANGED <<stateVars, tasks, asleep, allVars, errorsLeft, getVars, origin>>

-----------------------------------------------------------------------------
(* GetResult and GetReadyResult *)

GetResult(t) ==
    /\ Doing(t, "get")
    /\ sleeper' = [sleeper EXCEPT ![t] = 0]
    /\ Continue(t, <<<<"via", Arg(t, 2), "inline">>, <<"subscribe", Arg(t, 2), <<"get", t>>>>,
                     <<"sleep">>>>)
    /\ UNCHANGED <<stateVars, tasks, asleep, allVars, firstVars, answer, origin, sets>>

\* Mutant of StoreGet: the waiting thread is let go before it has its answer.
StoreGetLast(t) ==
    /\ Calling(t, "get")
    /\ LET u == Arg(t, 2)[2] IN
         IF sleeper[u] = 0
         THEN sleeper' = [sleeper EXCEPT ![u] = 1] /\ UNCHANGED <<answer, todo>>
         ELSE /\ answer' = [answer EXCEPT ![u] = Arg(t, 3)]
              /\ Continue(t, <<<<"wake", u>>>>)
              /\ UNCHANGED sleeper
    /\ UNCHANGED <<stateVars, tasks, asleep, allVars, firstVars, origin, sets>>

\* The callback of GetResult, on whichever thread, in the frame of t.
StoreGet(t) ==
    /\ Calling(t, "get")
    /\ LET u == Arg(t, 2)[2] IN
         /\ answer' = [answer EXCEPT ![u] = Arg(t, 3)]
         /\ Continue(t, <<<<"awake", u>>, <<"wake", u>>>>)
    /\ UNCHANGED <<stateVars, tasks, asleep, allVars, firstVars, sleeper, origin, sets>>

StoreSleeper(t) ==
    /\ Doing(t, "awake")
    /\ sleeper' = [sleeper EXCEPT ![Arg(t, 2)] = 1]
    /\ Continue(t, <<>>)
    /\ UNCHANGED <<stateVars, tasks, asleep, allVars, firstVars, answer, origin, sets>>

\* Mutant of WakeSleeper: nobody is woken.
WakeNobody(t) ==
    /\ Doing(t, "wake")
    /\ Continue(t, <<>>)
    /\ UNCHANGED <<stateVars, tasks, asleep, futureVars>>

WakeSleeper(t) ==
    /\ Doing(t, "wake")
    /\ asleep' = [asleep EXCEPT ![Arg(t, 2)] = IF @ = "sleeper" THEN Null ELSE @]
    /\ Continue(t, <<>>)
    /\ UNCHANGED <<stateVars, tasks, futureVars>>

\* The loop of GetResult: FutexWait tests the cell again.
Sleep(t) ==
    /\ Doing(t, "sleep")
    /\ IF sleeper[t] = 0
       THEN asleep' = [asleep EXCEPT ![t] = "sleeper"] /\ UNCHANGED todo
       ELSE Continue(t, <<>>) /\ UNCHANGED asleep
    /\ UNCHANGED <<stateVars, tasks, futureVars>>

GetReadyResult(t) ==
    /\ Doing(t, "getReady")
    /\ LET s == Arg(t, 2) IN
         IF ready[s]
         THEN /\ answer' = [answer EXCEPT ![t] = result[s][1]]
              /\ result' = [result EXCEPT ![s] = <<>>]
              /\ Continue(t, <<>>)
              /\ UNCHANGED asleep
         ELSE /\ asleep' = [asleep EXCEPT ![t] = s]
              /\ UNCHANGED <<answer, result, todo>>
    /\ UNCHANGED <<ready, callbackVars, executor, tasks, allVars, firstVars, sleeper, origin, sets>>

\* A futex may wake for no reason.
SpuriousWakeUp(t) ==
    /\ asleep[t] # Null
    /\ asleep' = [asleep EXCEPT ![t] = Null]
    /\ UNCHANGED <<stateVars, tasks, todo, futureVars>>

-----------------------------------------------------------------------------

FutureStep(t) ==
    \/ Produce(t) \/ Execute(t) \/ Via(t) \/ Chain(t) \/ AllOfNothing(t) \/ All(t) \/ FirstOf(t)
    \/ Compute(t) \/ CallThen(t) \/ CallFlatMap(t) \/ Forward(t) \/ CallRecover(t)
    \/ ExitAll(t) \/ StoreAnswer(t) \/ Finish(t) \/ LastError(t) \/ FirstValue(t)
    \/ GetResult(t) \/ StoreGet(t) \/ StoreSleeper(t) \/ WakeSleeper(t)
    \/ t \in Clients /\ (Sleep(t) \/ GetReadyResult(t))

Step(t) == (SharedStep(t) /\ UNCHANGED futureVars) \/ FutureStep(t)

Next == \E t \in Threads : Step(t) \/ SpuriousWakeUp(t)

Spec == Init /\ [][Next]_vars

\* Threads keep running; nobody promises a spurious wake-up.
FairSpec == Spec /\ \A t \in Threads : WF_vars(Step(t))

-----------------------------------------------------------------------------
(* Properties *)

\* A task that is run by hand is still in its queue.
RunByHand == \E t \in Threads : <<"pop">> \in ToSet(todo[t])
Waiting(e) == IF e = "manual" /\ RunByHand THEN Tail(tasks[e]) ELSE tasks[e]

Pending == (UNION {ToSet(todo[t]) : t \in Threads}) \cup (UNION {ToSet(Waiting(e)) : e \in DOMAIN tasks})

TypeOK ==
    /\ ready \in [States -> BOOLEAN] /\ callbackReady \in [States -> BOOLEAN]
    /\ executor \in [States -> Executors]
    /\ asleep \in [Threads -> States \cup {"sleeper", Null}]
    /\ finished \in 0 .. Len(answers) /\ errorsLeft \in Nat
    /\ {exited, nobodyIsReady} \subseteq BOOLEAN
    /\ sleeper \in [Clients -> 0 .. 1]

\* A callback is taken out of its shared state once, with the result that the
\* producer stored: who wins the exchange, and who waited for a ready result,
\* finds what no other thread has moved away or not yet written.
CallbackHasResult == \A t \in Threads :
    /\ Doing(t, "try") /\ callbackReady[Arg(t, 2)] =>
           callback[Arg(t, 2)] # <<>> /\ result[Arg(t, 2)] # <<>>
    /\ Doing(t, "getReady") /\ ready[Arg(t, 2)] => result[Arg(t, 2)] # <<>>

\* When both the result and the callback are published, the callback is not
\* forgotten: one of the two threads has still to look.
NoCallbackForgotten ==
    \A s \in States : ready[s] /\ callbackReady[s] => <<"try", s>> \in Pending \/ <<"check", s>> \in Pending

\* A promise is fulfilled at most once, also one that several futures share.
PromisesAreUsedOnce == \A s \in States : sets[s] <= 1

\* The callback of GetResult writes to the frame of a thread that still waits.
FrameIsThere ==
    \A u \in Clients :
        (\E op \in Pending : op = <<"awake", u>> \/ (op[1] = "call" /\ op[2] = <<"get", u>>))
            => <<"sleep">> \in ToSet(todo[u])

\* Every callback runs and every thread that waits goes on, when every promise
\* is fulfilled.
EverythingEnds ==
    <>[]((\A t \in Threads : todo[t] = <<>>) /\ tasks["pool"] = <<>> /\ tasks["manual"] = <<>>)

\* Of the two threads that publish the result and the callback, exactly one
\* submits the callback, and with the result; and a promise is fulfilled once.
ExactlyOnce == TypeOK /\ CallbackHasResult /\ NoCallbackForgotten /\ PromisesAreUsedOnce
=============================================================================
