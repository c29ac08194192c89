------------------------------ MODULE FiberSync ------------------------------
(***************************************************************************)
(* fibers/sync: a mutex, a condition variable and a wait group of fibers,  *)
(* each over a futex, used by the fibers of a program.  Waiters of the     *)
(* condition variable wait, under the mutex, for a token.  Operations are  *)
(* <<"lock">>, <<"unlock">>, <<"take">>, <<"give">>, <<"notify", all>>,    *)
(* <<"add", n>>, <<"work">>, <<"done">>, <<"join">>, and their parts.      *)
(***************************************************************************)
EXTENDS FutexLike, FiniteSets

\* What a program may consist of.
Calls ==
    {<<"lock">>, <<"unlock">>, <<"take">>, <<"give">>, <<"work">>, <<"done">>, <<"join">>}
    \cup {<<"yield">>, <<"throw">>}
    \cup ({"notify"} \X BOOLEAN) \cup ({"add"} \X Nat) \cup ({"go"} \X Fibers)

\* After its first i operations s unlocks the mutex before it locks it.
UnlocksNext(s, i) ==
    \E j \in i + 1 .. Len(s) : s[j][1] = "unlock" /\ \A k \in i + 1 .. j - 1 : s[k][1] # "lock"

\* Whoever locks the mutex unlocks it, and only then; tokens are taken under it.
LockedAt(s, i) == /\ s[i][1] \in {"lock", "take"} => UnlocksNext(s, i)
                  /\ s[i][1] = "unlock" => ~ UnlocksNext(s, i)

WellLocked(s) == \A i \in 1 .. Len(s) : LockedAt(s, i)

\* Each fiber is started once: it is a root, or one call of Go starts it.
WellStarted(p) ==
    /\ p.roots \in Seq(Fibers) /\ IsInjective(p.roots)
    /\ \A f, h \in Fibers : \A i \in DOMAIN p.script[f], j \in DOMAIN p.script[h] :
          p.script[f][i][1] = "go" =>
             /\ p.script[f][i][2] \notin ToSet(p.roots)
             /\ p.script[h][j] = p.script[f][i] => f = h /\ i = j

ASSUME FiberAssumption ==
    /\ IsFiniteSet(Fibers) /\ Null \notin Fibers \cup Workers
    /\ Futexes = {"mutex", "cond", "group"}
    /\ \A p \in Programs :
          /\ p.stops \in BOOLEAN
          /\ p.script \in [Fibers -> Seq(Calls)]
          /\ WellStarted(p)
          /\ \A f \in Fibers : WellLocked(p.script[f]) /\ ~ UnlocksNext(p.script[f], 0)

VARIABLES access,       \* access_ of the mutex
          val,          \* val_ of the condition variable
          tokens,       \* what its users wait for
          tasks,        \* tasks_ of the wait group
          isDone,       \* is_done_
          using,        \* using_
          owed,         \* history: tasks announced to Add and not carried out
          joined        \* history: the fibers that returned from Wait and called
                        \* Add no more

condVars == <<val, tokens>>
groupVars == <<tasks, isDone, using, owed, joined>>
syncVars == <<access, condVars, groupVars>>
vars == <<fiberVars, futexVars, syncVars>>

Init == /\ FiberInit /\ FutexInit
        /\ access = FALSE
        /\ val = 0 /\ tokens = 0
        /\ tasks = 0 /\ isDone = FALSE /\ using = 0 /\ owed = 0 /\ joined = {}

Cell == [x \in Futexes |-> CASE x = "mutex" -> access [] x = "cond" -> val [] x = "group" -> isDone]

\* The rest of the state when a step is one of the fiber f's own.
Alone == UNCHANGED <<schedulerVars, awaiter, stackVars, futexVars>>

-----------------------------------------------------------------------------
(* Mutex *)

\* Mutant of Exchange: a fiber that was woken does not try again.
ExchangeOnce(w, f) ==
    /\ Doing(w, f, "lock")
    /\ access' = TRUE
    /\ Then(f, IF access THEN <<<<"park", "mutex", TRUE>>>> ELSE <<>>)
    /\ Alone /\ UNCHANGED <<condVars, groupVars>>

Exchange(w, f) ==
    /\ Doing(w, f, "lock")
    /\ access' = TRUE
    /\ Then(f, IF access THEN <<<<"park", "mutex", TRUE>>, <<"lock">>>> ELSE <<>>)
    /\ Alone /\ UNCHANGED <<condVars, groupVars>>

\* Mutant of Unlock: nobody is woken.
UnlockSilently(w, f) ==
    /\ Doing(w, f, "unlock")
    /\ access' = FALSE
    /\ Then(f, <<>>)
    /\ Alone /\ UNCHANGED <<condVars, groupVars>>

Unlock(w, f) ==
    /\ Doing(w, f, "unlock")
    /\ access' = FALSE
    /\ Then(f, <<<<"wake", "mutex", FALSE>>>>)
    /\ Alone /\ UNCHANGED <<condVars, groupVars>>

-----------------------------------------------------------------------------
(* Condition variable *)

\* The user's loop: a token is taken, or Wait reads the counter, gives up the
\* mutex, parks and locks again.
Take(w, f) ==
    /\ Doing(w, f, "take")
    /\ IF tokens > 0
       THEN tokens' = tokens - 1 /\ Then(f, <<>>)
       ELSE /\ Then(f, <<<<"unlock">>, <<"park", "cond", val>>, <<"lock">>, <<"take">>>>)
            /\ UNCHANGED tokens
    /\ Alone /\ UNCHANGED <<val, access, groupVars>>

Give(w, f) == /\ Doing(w, f, "give")
              /\ tokens' = tokens + 1
              /\ Then(f, <<>>)
              /\ Alone /\ UNCHANGED <<val, access, groupVars>>

\* Mutant of Notify: the counter stays.
NotifyUncounted(w, f) ==
    /\ Doing(w, f, "notify")
    /\ Then(f, <<<<"wake", "cond", Head(todo[f])[2]>>>>)
    /\ Alone /\ UNCHANGED <<condVars, access, groupVars>>

\* NotifyOne, or NotifyAll.
Notify(w, f) == /\ Doing(w, f, "notify")
                /\ val' = val + 1
                /\ Then(f, <<<<"wake", "cond", Head(todo[f])[2]>>>>)
                /\ Alone /\ UNCHANGED <<tokens, access, groupVars>>

-----------------------------------------------------------------------------
(* Wait group *)

BeginAdd(w, f) ==
    /\ Doing(w, f, "add")
    /\ using' = using + 1
    /\ owed' = owed + Head(todo[f])[2]
    /\ joined' = joined \ {f}
    /\ Then(f, <<<<"loadTasks", Head(todo[f])[2]>>, <<"leave">>>>)
    /\ Alone /\ UNCHANGED <<tasks, isDone, access, condVars>>

LoadTasks(w, f) ==
    /\ Doing(w, f, "loadTasks")
    /\ LET count == Head(todo[f])[2] IN
         Then(f, (IF tasks = 0 /\ tasks + count # 0 THEN <<<<"clear">>>> ELSE <<>>)
                 \o <<<<"addTasks", count>>>>)
    /\ Alone /\ UNCHANGED <<groupVars, access, condVars>>

Clear(w, f) == /\ Doing(w, f, "clear")
               /\ isDone' = FALSE
               /\ Then(f, <<>>)
               /\ Alone /\ UNCHANGED <<tasks, using, owed, joined, access, condVars>>

AddTasks(w, f) == /\ Doing(w, f, "addTasks")
                  /\ tasks' = tasks + Head(todo[f])[2]
                  /\ Then(f, <<>>)
                  /\ Alone /\ UNCHANGED <<isDone, using, owed, joined, access, condVars>>

\* The destructor of Defer, in Add and in Done.
Leave(w, f) == /\ Doing(w, f, "leave")
               /\ using' = using - 1
               /\ Then(f, <<>>)
               /\ Alone /\ UNCHANGED <<tasks, isDone, owed, joined, access, condVars>>

\* The task itself, before it calls Done.
Work(w, f) == /\ Doing(w, f, "work")
              /\ owed' = owed - 1
              /\ Then(f, <<>>)
              /\ Alone /\ UNCHANGED <<tasks, isDone, using, joined, access, condVars>>

\* Mutant of BeginDone: the call is not counted.
BeginDoneUncounted(w, f) ==
    /\ Doing(w, f, "done")
    /\ Then(f, <<<<"subTasks">>>>)
    /\ Alone /\ UNCHANGED <<groupVars, access, condVars>>

BeginDone(w, f) ==
    /\ Doing(w, f, "done")
    /\ using' = using + 1
    /\ Then(f, <<<<"subTasks">>, <<"leave">>>>)
    /\ Alone /\ UNCHANGED <<tasks, isDone, owed, joined, access, condVars>>

\* Mutant of SubTasks: whoever calls Done ends the wait.
SubTasksAlways(w, f) ==
    /\ Doing(w, f, "subTasks")
    /\ tasks' = tasks - 1
    /\ Then(f, <<<<"store">>, <<"wake", "group", TRUE>>>>)
    /\ Alone /\ UNCHANGED <<isDone, using, owed, joined, access, condVars>>

SubTasks(w, f) ==
    /\ Doing(w, f, "subTasks")
    /\ tasks' = tasks - 1
    /\ Then(f, IF tasks = 1 THEN <<<<"store">>, <<"wake", "group", TRUE>>>> ELSE <<>>)
    /\ Alone /\ UNCHANGED <<isDone, using, owed, joined, access, condVars>>

Store(w, f) == /\ Doing(w, f, "store")
               /\ isDone' = TRUE
               /\ Then(f, <<>>)
               /\ Alone /\ UNCHANGED <<tasks, using, owed, joined, access, condVars>>

\* Wait: parked until the flag is set; then it spins while a call is inside.
Join(w, f) ==
    /\ Doing(w, f, "join")
    /\ Then(f, IF isDone THEN <<<<"settle">>>> ELSE <<<<"park", "group", FALSE>>, <<"join">>>>)
    /\ Alone /\ UNCHANGED <<groupVars, access, condVars>>

Settle(w, f) == /\ Doing(w, f, "settle")
                /\ using = 0
                /\ joined' = joined \cup {f}
                /\ Then(f, <<>>)
                /\ Alone /\ UNCHANGED <<tasks, isDone, using, owed, access, condVars>>

-----------------------------------------------------------------------------

SyncStep(w) == \E f \in Fibers :
    \/ Exchange(w, f) \/ Unlock(w, f) \/ Take(w, f) \/ Give(w, f) \/ Notify(w, f)
    \/ BeginAdd(w, f) \/ LoadTasks(w, f) \/ Clear(w, f) \/ AddTasks(w, f) \/ Leave(w, f)
    \/ Work(w, f) \/ BeginDone(w, f) \/ SubTasks(w, f) \/ Store(w, f) \/ Join(w, f) \/ Settle(w, f)

Step(w) == /\ \/ FiberStep(w) /\ UNCHANGED <<futexVars, syncVars>>
              \/ FutexStep(w, Cell) /\ UNCHANGED syncVars
              \/ SyncStep(w)
           /\ UNCHANGED poolVars

Next == \/ \E w \in Workers : Step(w)
        \/ Stop /\ UNCHANGED <<futexVars, syncVars>>

Spec == Init /\ [][Next]_vars

\* The workers are threads that keep running; each step moves the worker, or the
\* fiber it is on.
FairSpec == Spec /\ \A w \in Workers : WF_<<at, todo>>(Step(w))

-----------------------------------------------------------------------------
(* Properties *)

Alive == {f \in Fibers : stack[f] # 0}

\* f's next operation is of this name, on this futex.
At(f, name, x) == todo[f] # <<>> /\ Head(todo[f])[1] = name /\ Head(todo[f])[2] = x

TypeOK ==
    /\ {stops, closed} \subseteq BOOLEAN
    /\ ready \in Seq(Fibers)
    /\ current \in [Workers -> Fibers \cup {Null}]
    /\ at \in [Workers -> {"idle", "fiber", "resumed", "thrown", "schedule", "unlock"}]
    /\ awaiter \in [Fibers -> {"none", "yield"} \cup Futexes]
    /\ stack \in [Fibers -> 0 .. allocated] /\ freed \in Seq(1 .. allocated)
    /\ queue \in [Futexes -> Seq(Fibers)]
    /\ spin \in [Futexes -> Workers \cup {Null}]
    /\ {access, isDone} \subseteq BOOLEAN
    /\ {val, tokens} \subseteq Nat /\ {tasks, using, owed} \subseteq Int
    /\ joined \subseteq Fibers

\* The places a fiber is in: the pool's queue, a worker, a wait queue, or the
\* hands of a fiber that wakes it.
Places(f) ==
    (IF f \in ToSet(ready) THEN {<<"ready">>} ELSE {})
    \cup {<<"worker", w>> : w \in {v \in Workers : current[v] = f /\ at[v] # "unlock"}}
    \cup {<<"queue", x>> : x \in {y \in Futexes : f \in ToSet(queue[y])}}
    \cup {<<"waker", g>> : g \in {h \in Fibers : /\ todo[h] # <<>> /\ Head(todo[h])[1] = "awake"
                                                /\ Head(todo[h])[4] = f}}

\* A fiber that exists is in one place, so that no two workers run it, it is
\* not lost, and nothing refers to it once it is deleted.
OnePlace == /\ IsInjective(ready) /\ \A x \in Futexes : IsInjective(queue[x])
            /\ \A f \in Fibers : IF f \in Alive THEN \E p \in Places(f) : Places(f) = {p}
                                               ELSE Places(f) = {}

\* Each stack is a fiber's or in the pool, and no two fibers share one.
StacksHaveOneOwner ==
    /\ \A f, g \in Alive : stack[f] = stack[g] => f = g
    /\ \A f \in Alive : stack[f] \notin ToSet(freed)
    /\ IsInjective(freed)
    /\ allocated = Cardinality(Alive) + Len(freed)

\* f has returned from Lock and not yet called Unlock.
Inside(f) == UnlocksNext(todo[f], 0)

\* One fiber at a time is inside, on whichever worker it was resumed.
MutualExclusion == \A f, g \in Fibers : Inside(f) /\ Inside(g) => f = g

\* No fiber stays in a wait queue when what it waits for is there, unless
\* somebody is bound to wake it: a waker on its way, or, for the mutex, another
\* fiber that is about to lock it and will unlock it.  Stop may discard the waker.
NoFiberForgotten == ~ closed =>
    /\ queue["mutex"] # <<>> /\ ~ access =>
          \E f \in Alive \ ToSet(queue["mutex"]) :
              \/ todo[f] # <<>> /\ Head(todo[f])[1] = "lock"
              \/ \E name \in {"park", "unpark", "wake", "awake"} : At(f, name, "mutex")
    /\ queue["group"] # <<>> /\ isDone =>
          \E f \in Alive : At(f, "wake", "group") \/ At(f, "awake", "group")

\* Wait returns when every task that was announced before it has been done.
WaitMeansDone == tasks >= 0 /\ (joined # {} => owed = 0)

\* When Wait has returned the wait group may be destroyed: no call of Add or
\* Done is inside, nobody waits, and nobody holds the futex's lock.
GroupIsQuiet ==
    /\ using >= 0
    /\ joined # {} =>
        /\ spin["group"] = Null /\ queue["group"] = <<>>
        /\ \A f \in Fibers : \A operation \in ToSet(todo[f]) :
              operation[1] \notin {"loadTasks", "clear", "addTasks", "subTasks", "store", "leave", "settle"}

\* Every fiber ends, however its workers interleave, unless the pool is stopped;
\* and Stop returns: no worker waits in a lock, or in Wait, for a fiber that was
\* discarded.
EveryFiberEnds ==
    <>[](IF closed THEN \A w \in Workers : at[w] = "idle" ELSE Alive = {})

\* No fiber is in two places or in none, and neither is its stack.
FibersAreWhole == TypeOK /\ OnePlace /\ StacksHaveOneOwner
=============================================================================
