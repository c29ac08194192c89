------------------------- MODULE ComputePool_proofs -------------------------
(***************************************************************************)
(* What holds of ComputePool for any threads, tasks and copy of the pool.  *)
(***************************************************************************)
EXTENDS ComputePool, FiniteSetTheorems, FunctionTheorems, SequenceTheorems, TLAPS

\* Where a thread is says what it holds.
Stations ==
    /\ \A w \in Workers :
          /\ pc[w] \in {"take", "wait", "run", "discard", "decrement", "destroy", "exited"}
          /\ current[w] # None <=> pc[w] \in {"run", "discard", "decrement", "destroy"}
          /\ pc[w] \in {"discard", "decrement", "destroy"} => current[w] \in done
          /\ pc[w] = "destroy" => OwnsClosures
          /\ pc[w] = "discard" => ~ OwnsClosures
    /\ \A c \in Clients : pc[c] \in {"idle", "checkZero", "waitZero", "wokenZero", "join", "stopped"}
    /\ \A t \in Threads :
          /\ arg[t] # None <=> call[t] # "none"
          /\ call[t] # "none" => pc[t] \in {"run", "idle"}
          /\ call[t] = "undo" => arg[t] \in rejected
          /\ arg[t] # None => arg[t] \in handed
    /\ \A w \in Workers : current[w] # None => current[w] \in handed
    /\ \A i \in 1 .. Len(queue) : queue[i] \in handed
    /\ (\E c \in Clients : pc[c] = "stopped") => \A w \in Workers : pc[w] = "exited"

\* A task's children are submitted by nobody else, and each once.
ChildrenOnce ==
    /\ \A w \in Workers : pc[w] = "run" =>
          todo[w] \subseteq Children[current[w]] /\ todo[w] \cap handed = {}
    /\ \A x \in Tasks : Children[x] \cap handed # {} => x \in done \cup Running

\* The counter is exact.
Counted == CounterIsOutstanding /\ IsFiniteSet(cancelled)

IInv == /\ TypeOK /\ Stations
        /\ NotLost /\ NotDuplicated /\ ChildrenOnce /\ DeletedOnce
        /\ Counted

\* Every step is one of these.
LEMMA Steps ==
    ASSUME [Next]_vars
    PROVE  \/ \E t \in Threads : \/ \E x \in Tasks : Execute(t, x)
                                 \/ Put(t) \/ UndoIncrement(t)
                                 \/ DestroyRejected(t) \/ DiscardRejected(t) \/ LeakRejected(t)
           \/ \E w \in Workers : \/ TakeTask(w) \/ TakeNothing(w) \/ SpuriousTake(w)
                                 \/ RunReturns(w) \/ RunThrows(w) \/ DiscardTask(w)
                                 \/ TaskOver(w) \/ DestroyClosure(w)
           \/ \E c \in Clients : \/ WaitIdle(c) \/ CheckZero(c) \/ WokenOnce(c)
                                 \/ SpuriousZero(c) \/ Stop(c) \/ Join(c)
           \/ UNCHANGED vars
  BY PoolAssumption DEF Next, Submission, Work, Threads

LEMMA InitControl == Init => TypeOK /\ Stations
<1> SUFFICES ASSUME Init PROVE TypeOK /\ Stations
  OBVIOUS
<1> USE PoolAssumption DEF Init, Threads
<1>1. queue \in Seq(Tasks) /\ deletions \in [Tasks -> Nat]
  OBVIOUS
<1>2. pc \in [Threads -> {"take", "wait", "run", "discard", "decrement", "destroy", "exited",
                          "idle", "checkZero", "waitZero", "wokenZero", "join", "stopped"}]
  OBVIOUS
<1>3. TypeOK
  BY <1>1, <1>2 DEF TypeOK
<1>4. Stations
  BY DEF Stations
<1> QED
  BY <1>3, <1>4

\* Deleting task objects keeps the type of the history.
LEMMA DeleteType == ASSUME NEW S, deletions \in [Tasks -> Nat], Delete(S)
                    PROVE  deletions' \in [Tasks -> Nat]
  BY DEF Delete

-----------------------------------------------------------------------------
(* Counting *)

Submitters == {t \in Threads : call[t] # "none"}

LEMMA FiniteThreads == \A S \in SUBSET Threads : IsFiniteSet(S) /\ Cardinality(S) \in Nat
  BY PoolAssumption, FS_Union, FS_Subset, FS_CardinalityType DEF Threads

\* Work that is counted is there to be taken back.
LEMMA CountIsPositive ==
    ASSUME TypeOK, Stations, Counted
    PROVE  /\ \A t \in Threads : call[t] = "undo" => counter >= 1
           /\ \A w \in Workers : pc[w] = "decrement" => counter >= 1
<1>1. /\ Cardinality(Submitters) \in Nat /\ Cardinality(Busy) \in Nat
      /\ Cardinality(cancelled) \in Nat /\ Len(queue) \in Nat
      /\ IsFiniteSet(Submitters) /\ IsFiniteSet(Busy)
  BY FiniteThreads, FS_CardinalityType DEF Submitters, Busy, Threads, Counted, TypeOK
<1>2. counter = Cardinality(Submitters) + Len(queue) + Cardinality(Busy) + Cardinality(cancelled)
  BY DEF Counted, CounterIsOutstanding, Submitters
<1>3. ASSUME NEW t \in Threads, call[t] = "undo" PROVE counter >= 1
  <2>1. Submitters # {}
    BY <1>3 DEF Submitters
  <2> QED
    BY <1>1, <1>2, <2>1, FS_EmptySet
<1>4. ASSUME NEW w \in Workers, pc[w] = "decrement" PROVE counter >= 1
  <2>1. Busy # {}
    BY <1>4 DEF Busy
  <2> QED
    BY SMTT(60), <1>1, <1>2, <2>1, FS_EmptySet
<1> QED
  BY <1>3, <1>4

LEMMA NextControl == IInv /\ [Next]_vars => TypeOK' /\ Stations'
<1> SUFFICES ASSUME TypeOK, Stations, Counted, [Next]_vars PROVE TypeOK' /\ Stations'
  BY DEF IInv
<1> USE PoolAssumption, DeleteType DEF TypeOK, Stations, Threads, OwnsClosures, RunDeletes
<1>1. ASSUME NEW t \in Threads, NEW x \in Tasks, Execute(t, x) PROVE TypeOK' /\ Stations'
  BY <1>1 DEF Execute, MaySubmit, objectVars, queueVars, fateVars
<1>2. ASSUME NEW t \in Threads, Put(t) PROVE TypeOK' /\ Stations'
  <2> USE <1>2 DEF Put, Return, objectVars, workVars, fateVars
  <2>1. queue' \in Seq(Tasks) /\ \A i \in 1 .. Len(queue') : queue'[i] \in handed
    OBVIOUS
  <2>2. \A u \in Threads : pc'[u] = pc[u] \/ (u \in Workers /\ pc[u] = "wait" /\ pc'[u] = "take")
    BY DEF NotifyWorker
  <2>3. pc' \in [Threads -> {"take", "wait", "run", "discard", "decrement", "destroy", "exited",
                            "idle", "checkZero", "waitZero", "wokenZero", "join", "stopped"}]
    <3>1. CASE \E w \in Workers : pc[w] = "wait"
      <4>1. PICK w \in Workers : pc' = [pc EXCEPT ![w] = "take"]
        BY <3>1 DEF NotifyWorker
      <4> QED
        BY <4>1
    <3>2. CASE ~ \E w \in Workers : pc[w] = "wait"
      BY <3>2 DEF NotifyWorker
    <3> QED
      BY <3>1, <3>2
  <2>4. TypeOK'
    BY <2>1, <2>3
  <2>5. Stations'
    BY <2>1, <2>2
  <2> QED
    BY <2>4, <2>5
<1>3. ASSUME NEW t \in Threads, DestroyRejected(t) PROVE TypeOK' /\ Stations'
  BY <1>3 DEF DestroyRejected, Rejected, queueVars, workVars
<1>4. ASSUME NEW t \in Threads, DiscardRejected(t) PROVE TypeOK' /\ Stations'
  BY <1>4 DEF DiscardRejected, Rejected, queueVars, workVars
<1>5. ASSUME NEW t \in Threads, LeakRejected(t) PROVE TypeOK' /\ Stations'
  BY <1>5 DEF LeakRejected, Rejected, queueVars, workVars
<1>6. ASSUME NEW t \in Threads, UndoIncrement(t) PROVE TypeOK' /\ Stations'
  <2>1. counter' \in Nat
    BY <1>6, CountIsPositive DEF UndoIncrement, Decrement
  <2>2. pc' = WokenAtZero(pc) /\ \A u \in Threads : pc'[u] = pc[u] \/ (u \in Clients /\ pc'[u] = "wokenZero" /\ pc[u] = "waitZero")
    BY <1>6 DEF UndoIncrement, WokenAtZero
  <2> QED
    BY <1>6, <2>1, <2>2 DEF UndoIncrement, WokenAtZero, Return, objectVars, queueVars, workVars, fateVars
<1>7. ASSUME NEW w \in Workers, TakeTask(w) PROVE TypeOK' /\ Stations'
  BY <1>7 DEF TakeTask, objectVars, callVars, fateVars
<1>8. ASSUME NEW w \in Workers, TakeNothing(w) PROVE TypeOK' /\ Stations'
  BY <1>8 DEF TakeNothing, objectVars, queueVars, callVars, workVars, fateVars
<1>9. ASSUME NEW w \in Workers, RunReturns(w) PROVE TypeOK' /\ Stations'
  BY <1>9 DEF RunReturns, Ended, queueVars, callVars
<1>10. ASSUME NEW w \in Workers, RunThrows(w) PROVE TypeOK' /\ Stations'
  BY <1>10 DEF RunThrows, Ended, queueVars, callVars
<1>11. ASSUME NEW w \in Workers, DiscardTask(w) PROVE TypeOK' /\ Stations'
  BY <1>11 DEF DiscardTask, queueVars, callVars, workVars, fateVars
<1>12. ASSUME NEW w \in Workers, TaskOver(w) PROVE TypeOK' /\ Stations'
  <2>1. counter' \in Nat
    BY <1>12, CountIsPositive DEF TaskOver, Decrement
  <2>2. \A u \in Threads : \/ u # w /\ pc'[u] = pc[u] 
                           \/ u \in Clients /\ pc'[u] = "wokenZero" /\ pc[u] = "waitZero"
                           \/ u = w /\ pc'[u] = IF OwnsClosures THEN "destroy" ELSE "take"
    BY <1>12 DEF TaskOver, WokenAtZero
  <2> QED
    BY <1>12, <2>1, <2>2 DEF TaskOver, WokenAtZero, objectVars, queueVars, callVars, fateVars
<1>13. ASSUME NEW w \in Workers, DestroyClosure(w) PROVE TypeOK' /\ Stations'
  BY ZenonT(60), <1>13 DEF DestroyClosure, queueVars, callVars, fateVars
<1>14. ASSUME NEW c \in Clients, WaitIdle(c) \/ CheckZero(c) \/ WokenOnce(c) \/ SpuriousZero(c)
       PROVE  TypeOK' /\ Stations'
  <2>1. PICK place \in {"idle", "checkZero", "waitZero", "wokenZero"} : pc' = [pc EXCEPT ![c] = place]
    BY <1>14 DEF WaitIdle, CheckZero, WokenOnce, SpuriousZero
  <2>2. call[c] = "none" \/ pc'[c] = "idle" 
    BY <1>14, <2>1 DEF WaitIdle, CheckZero, WokenOnce, SpuriousZero
  <2>3. UNCHANGED <<objectVars, queueVars, counter, callVars, workVars, fateVars>>
    BY <1>14 DEF WaitIdle, CheckZero, WokenOnce, SpuriousZero
  <2> QED
    BY <2>1, <2>2, <2>3 DEF objectVars, queueVars, callVars, workVars, fateVars
<1>15. ASSUME NEW w \in Workers, SpuriousTake(w) PROVE TypeOK' /\ Stations'
  BY <1>15 DEF SpuriousTake, objectVars, queueVars, callVars, workVars, fateVars
<1>16. ASSUME NEW c \in Clients, Stop(c) PROVE TypeOK' /\ Stations'
  <2>1. ToSet(queue) \subseteq handed
    BY DEF ToSet
  <2>2. \A u \in Threads : pc'[u] = pc[u] \/ (u \in Workers /\ pc[u] = "wait" /\ pc'[u] = "take")
                           \/ (u = c /\ pc'[u] = "join")
    BY <1>16 DEF Stop
  <2>3. TypeOK'
    BY <1>16, <2>1 DEF Stop, callVars, workVars
  <2>4. Stations'
    BY <1>16, <2>2 DEF Stop, callVars, workVars
  <2> QED
    BY <2>3, <2>4
<1>17. ASSUME NEW c \in Clients, Join(c) PROVE TypeOK' /\ Stations'
  BY <1>17 DEF Join, objectVars, queueVars, callVars, workVars, fateVars
<1>20. CASE UNCHANGED vars
  BY <1>20 DEF vars, objectVars, queueVars, callVars, workVars, fateVars
<1> QED
  BY Steps, <1>1, <1>2, <1>3, <1>4, <1>5, <1>6, <1>7, <1>8, <1>9, <1>10, <1>11, <1>12, <1>13,
     <1>14, <1>15, <1>16, <1>17, <1>20

-----------------------------------------------------------------------------
(* The set of a queue *)

LEMMA ToSetIsImage == ASSUME NEW S, NEW q \in Seq(S)
                      PROVE  ToSet(q) = {q[i] : i \in 1 .. Len(q)} /\ ToSet(q) \subseteq S
  BY DEF ToSet

LEMMA ToSetAppend == ASSUME NEW S, NEW q \in Seq(S), NEW x \in S
                     PROVE  ToSet(Append(q, x)) = ToSet(q) \cup {x}
<1>1. /\ Append(q, x) \in Seq(S) /\ Len(Append(q, x)) = Len(q) + 1 /\ Len(q) \in Nat
      /\ \A i \in 1 .. Len(q) + 1 : Append(q, x)[i] = IF i = Len(q) + 1 THEN x ELSE q[i]
  OBVIOUS
<1>2. ToSet(Append(q, x)) = {Append(q, x)[i] : i \in 1 .. Len(q) + 1}
  BY <1>1, ToSetIsImage
<1>3. ToSet(q) = {q[i] : i \in 1 .. Len(q)}
  BY ToSetIsImage
<1>4. ASSUME NEW y PROVE y \in ToSet(Append(q, x)) <=> y \in ToSet(q) \cup {x}
  <2>1. Len(q) + 1 \in 1 .. Len(q) + 1 /\ \A i \in 1 .. Len(q) : i \in 1 .. Len(q) + 1 /\ i # Len(q) + 1
    BY <1>1
  <2>2. \A i \in 1 .. Len(q) + 1 : i = Len(q) + 1 \/ i \in 1 .. Len(q)
    BY <1>1
  <2> QED
    BY <1>1, <1>2, <1>3, <2>1, <2>2
<1> QED
  BY <1>4

LEMMA InjectiveAppend == ASSUME NEW S, NEW q \in Seq(S), NEW x \in S, IsInjective(q), x \notin ToSet(q)
                         PROVE  IsInjective(Append(q, x))
<1>1. /\ Append(q, x) \in Seq(S) /\ Len(Append(q, x)) = Len(q) + 1 /\ Len(q) \in Nat
      /\ \A i \in 1 .. Len(q) + 1 : Append(q, x)[i] = IF i = Len(q) + 1 THEN x ELSE q[i]
      /\ DOMAIN Append(q, x) = 1 .. Len(q) + 1 /\ DOMAIN q = 1 .. Len(q)
  OBVIOUS
<1>2. \A i \in 1 .. Len(q) + 1 : i = Len(q) + 1 \/ i \in 1 .. Len(q)
  BY <1>1
<1>3. \A i \in 1 .. Len(q) : q[i] # x
  BY ToSetIsImage
<1> QED
  BY <1>1, <1>2, <1>3 DEF IsInjective

LEMMA TailOfInjective == ASSUME NEW S, NEW q \in Seq(S), q # <<>>, IsInjective(q)
                         PROVE  /\ IsInjective(Tail(q)) /\ ToSet(Tail(q)) = ToSet(q) \ {Head(q)}
                                /\ Head(q) \in ToSet(q)
<1>1. /\ Tail(q) \in Seq(S) /\ Len(Tail(q)) = Len(q) - 1 /\ Len(q) \in Nat \ {0}
      /\ DOMAIN Tail(q) = 1 .. Len(q) - 1 /\ DOMAIN q = 1 .. Len(q)
      /\ \A i \in 1 .. Len(q) - 1 : Tail(q)[i] = q[i + 1]
      /\ Head(q) = q[1]
  OBVIOUS
<1>2. /\ \A i \in 1 .. Len(q) - 1 : i + 1 \in 1 .. Len(q) /\ i + 1 # 1
      /\ \A i \in 1 .. Len(q) : i # 1 => i - 1 \in 1 .. Len(q) - 1 /\ (i - 1) + 1 = i
      /\ 1 \in 1 .. Len(q)
      /\ \A i, j \in 1 .. Len(q) - 1 : i + 1 = j + 1 => i = j
  BY <1>1
<1>3. \A i, j \in 1 .. Len(q) : q[i] = q[j] => i = j
  BY <1>1 DEF IsInjective
<1>4. IsInjective(Tail(q))
  BY <1>1, <1>2, <1>3 DEF IsInjective
<1>5. ToSet(Tail(q)) = {Tail(q)[i] : i \in 1 .. Len(q) - 1}
  BY <1>1, ToSetIsImage
<1>6. ToSet(q) = {q[i] : i \in 1 .. Len(q)}
  BY ToSetIsImage
<1>7. ASSUME NEW y PROVE y \in ToSet(Tail(q)) <=> y \in ToSet(q) \ {Head(q)}
  <2>1. ASSUME y \in ToSet(Tail(q)) PROVE y \in ToSet(q) \ {Head(q)}
    BY <2>1, <1>1, <1>2, <1>3, <1>5, <1>6
  <2>2. ASSUME y \in ToSet(q) \ {Head(q)} PROVE y \in ToSet(Tail(q))
    <3>1. PICK i \in 1 .. Len(q) : y = q[i] /\ i # 1
      BY <2>2, <1>1, <1>6
    <3>2. y = Tail(q)[i - 1] /\ i - 1 \in 1 .. Len(q) - 1
      BY <3>1, <1>1, <1>2
    <3> QED
      BY <3>2, <1>5
  <2> QED
    BY <2>1, <2>2
<1>8. Head(q) \in ToSet(q)
  BY <1>1, <1>2, <1>6
<1> QED
  BY <1>4, <1>7, <1>8

LEMMA SizeOfInjective == ASSUME NEW S, NEW q \in Seq(S), IsInjective(q)
                         PROVE  IsFiniteSet(ToSet(q)) /\ Cardinality(ToSet(q)) = Len(q)
<1>1. Len(q) \in Nat /\ DOMAIN q = 1 .. Len(q) /\ q \in [1 .. Len(q) -> ToSet(q)]
  BY ToSetIsImage
<1>2. q \in Bijection(1 .. Len(q), ToSet(q))
  BY <1>1, ToSetIsImage, Fun_IsBij DEF IsInjective
<1>3. ExistsBijection(1 .. Len(q), ToSet(q))
  BY <1>2, Fun_ExistsBij
<1> QED
  BY <1>1, <1>3, FS_NatBijection, FS_CountingElements

-----------------------------------------------------------------------------
(* Where tasks are *)

Fates == NotLost /\ NotDuplicated /\ ChildrenOnce /\ DeletedOnce

\* The places of a task, pair by pair.
Disjoint ==
    /\ Submitting \cap ToSet(queue) = {} /\ Submitting \cap Running = {}
    /\ Submitting \cap Over = {}
    /\ ToSet(queue) \cap Running = {} /\ ToSet(queue) \cap Over = {}
    /\ Running \cap Over = {}
    /\ done \cap rejected = {} /\ done \cap cancelled = {} /\ rejected \cap cancelled = {}

LEMMA PairByPair ==
    Disjoint <=> \A i, j \in DOMAIN Places : i # j => Places[i] \cap Places[j] = {}
<1>1. DOMAIN Places = 1 .. 6
  BY DEF Places
<1>2. /\ Places[1] = Submitting /\ Places[2] = ToSet(queue) /\ Places[3] = Running
      /\ Places[4] = done /\ Places[5] = rejected /\ Places[6] = cancelled
  BY DEF Places
<1>3. ASSUME Disjoint, NEW i \in 1 .. 6, NEW j \in 1 .. 6, i # j PROVE Places[i] \cap Places[j] = {}
  <2>1. i \in {1, 2, 3, 4, 5, 6} /\ j \in {1, 2, 3, 4, 5, 6}
    OBVIOUS
  <2> QED
    BY <1>2, <1>3, <2>1 DEF Disjoint, Over
<1>4. ASSUME \A i, j \in 1 .. 6 : i # j => Places[i] \cap Places[j] = {} PROVE Disjoint
  <2>1. /\ Places[1] \cap Places[2] = {} /\ Places[1] \cap Places[3] = {} /\ Places[1] \cap Places[4] = {}
        /\ Places[1] \cap Places[5] = {} /\ Places[1] \cap Places[6] = {}
        /\ Places[2] \cap Places[3] = {} /\ Places[2] \cap Places[4] = {}
        /\ Places[2] \cap Places[5] = {} /\ Places[2] \cap Places[6] = {}
        /\ Places[3] \cap Places[4] = {} /\ Places[3] \cap Places[5] = {} /\ Places[3] \cap Places[6] = {}
        /\ Places[4] \cap Places[5] = {} /\ Places[4] \cap Places[6] = {} /\ Places[5] \cap Places[6] = {}
    BY <1>4
  <2> QED
    BY <1>2, <2>1 DEF Disjoint, Over
<1> QED
  BY <1>1, <1>3, <1>4

\* A step that moves no task between places.
LEMMA FatesStay ==
    ASSUME TypeOK, Fates,
           UNCHANGED <<objectVars, queue, todo, handed, fateVars>>,
           \A t \in Threads : arg'[t] \in {arg[t], None},
           \A w \in Workers : current'[w] \in {current[w], None},
           \A w \in Workers : pc[w] = "run" <=> pc'[w] = "run",
           \A w \in Workers : pc[w] = "run" => current'[w] = current[w],
           Submitting' = Submitting, ToDelete' = ToDelete
    PROVE  Fates'
<1> USE DEF objectVars, fateVars
<1>1. Running' = Running /\ ToSet(queue)' = ToSet(queue) /\ Over' = Over /\ Leaked' = Leaked
  BY DEF Running, ToSet, Over, Leaked
<1>2. NotLost'
  BY <1>1 DEF Fates, NotLost
<1>3. Places' = Places
  BY <1>1 DEF Places
<1>4. NotDuplicated'
  BY <1>3 DEF Fates, NotDuplicated
<1>5. ChildrenOnce'
  BY <1>1 DEF Fates, ChildrenOnce
<1>6. DeletedOnce'
  BY <1>1 DEF Fates, DeletedOnce
<1> QED
  BY <1>2, <1>4, <1>5, <1>6 DEF Fates

LEMMA HowRejected ==
    ASSUME NEW t, DestroyRejected(t) \/ DiscardRejected(t) \/ LeakRejected(t)
    PROVE  /\ Rejected(t)
           /\ \/ Delete({arg[t]}) /\ copy \notin {"executors", "futures"}
              \/ UNCHANGED deletions /\ copy \in {"executors", "futures"}
<1>1. CASE DestroyRejected(t)
  BY <1>1 DEF DestroyRejected, OwnsClosures
<1>2. CASE DiscardRejected(t)
  BY <1>2 DEF DiscardRejected
<1>3. CASE LeakRejected(t)
  BY <1>3 DEF LeakRejected
<1> QED
  BY <1>1, <1>2, <1>3

\* A worker whose task is over: the task is deleted by its Run, or not yet.
LEMMA FatesOfEnd ==
    ASSUME TypeOK, Stations, Fates,
           NEW w \in Workers, pc[w] = "run",
           NEW next \in {"discard", "decrement"}, Ended(w, next),
           \A v \in Workers : todo'[v] \in {todo[v], {}},
           \A y \in Tasks : deletions'[y] = deletions[y]
              + (IF y = current[w] /\ next = "decrement" /\ ~ OwnsClosures THEN 1 ELSE 0)
    PROVE  Fates'
<1> DEFINE x == current[w]
<1> USE PoolAssumption DEF TypeOK, Threads, Ended, queueVars, callVars
<1>0. Disjoint
  BY PairByPair DEF Fates, NotDuplicated
<1>a. (Disjoint <=> \A i, j \in DOMAIN Places : i # j => Places[i] \cap Places[j] = {})'
  BY PairByPair, PTL
<1>1. x \in Tasks /\ x \in Running /\ x \notin Over /\ x \in handed
  BY <1>0 DEF Stations, Running, Disjoint
<1>2. \A v \in Workers : v # w => pc'[v] = pc[v] /\ current[v] # x
  BY <1>1 DEF Fates, NotDuplicated
<1>3. pc'[w] = next /\ current' = current /\ pc'[w] # "run"
  OBVIOUS
<1>4. Running' = Running \ {x}
  BY <1>2, <1>3 DEF Running
<1>5. Submitting' = Submitting /\ ToSet(queue)' = ToSet(queue)
  BY DEF Submitting, ToSet
<1>6. Over' = Over \cup {x} /\ OwnsClosures' = OwnsClosures /\ Leaked' = Leaked
  BY DEF Over, OwnsClosures, Leaked
<1>7. ToDelete' = IF next = "decrement" /\ ~ OwnsClosures THEN ToDelete ELSE ToDelete \cup {x}
  <2>1. \A v \in Workers : v # w => \/ /\ pc'[v] = "discard" \/ (OwnsClosures' /\ pc'[v] \in {"decrement", "destroy"})
                                       /\ pc[v] = "discard" \/ (OwnsClosures /\ pc[v] \in {"decrement", "destroy"})
                                    \/ /\ ~ (pc'[v] = "discard" \/ (OwnsClosures' /\ pc'[v] \in {"decrement", "destroy"}))
                                       /\ ~ (pc[v] = "discard" \/ (OwnsClosures /\ pc[v] \in {"decrement", "destroy"}))
    BY <1>2, <1>6
  <2>2. ~ (pc[w] = "discard" \/ (OwnsClosures /\ pc[w] \in {"decrement", "destroy"}))
    OBVIOUS
  <2>3. (pc'[w] = "discard" \/ (OwnsClosures' /\ pc'[w] \in {"decrement", "destroy"}))
        <=> ~ (next = "decrement" /\ ~ OwnsClosures)
    BY <1>3, <1>6
  <2> QED
    BY <1>3, <2>1, <2>2, <2>3 DEF ToDelete
<1>8. NotLost'
  BY <1>1, <1>4, <1>5, <1>6 DEF Fates, NotLost
<1>9. Disjoint'
  BY <1>0, <1>1, <1>4, <1>5, <1>6 DEF Disjoint, Over
<1>10. NotDuplicated'
  BY <1>9, <1>a DEF Fates, NotDuplicated
<1>11. ChildrenOnce'
  BY ZenonT(60), <1>1, <1>2, <1>3, <1>4 DEF Fates, ChildrenOnce
<1>12. DeletedOnce'
  <2>1. deletions[x] = 0
    BY <1>1 DEF Fates, DeletedOnce
  <2>2. x \notin ToDelete /\ x \notin Leaked
    BY <1>1 DEF ToDelete, Leaked, Over, Stations
  <2>3. \A y \in Tasks : y \in (Over \ (ToDelete \cup Leaked))'
                         <=> y \in Over \ (ToDelete \cup Leaked)
                             \/ (y = x /\ next = "decrement" /\ ~ OwnsClosures)
    BY <1>1, <1>6, <1>7, <2>2
  <2> QED
    BY <2>1, <2>3 DEF Fates, DeletedOnce
<1> QED
  BY <1>8, <1>10, <1>11, <1>12 DEF Fates

\* A worker deletes the task that it has run.
LEMMA FatesOfDeletion ==
    ASSUME TypeOK, Stations, Fates,
           NEW w \in Workers, pc[w] \in {"discard", "destroy"}, Delete({current[w]}),
           NEW next \in {"decrement", "take"}, pc' = [pc EXCEPT ![w] = next],
           pc[w] = "discard" <=> next = "decrement",
           \A v \in Workers : v # w => current'[v] = current[v],
           current'[w] \in {current[w], None},
           UNCHANGED <<copy, queueVars, callVars, todo, fateVars>>
    PROVE  Fates'
<1> DEFINE x == current[w]
<1> USE PoolAssumption DEF TypeOK, Threads, queueVars, callVars, fateVars
<1>1. x \in Tasks /\ x \in done /\ x \in Over /\ x \in ToDelete
  BY DEF Stations, Over, ToDelete
<1>0. Disjoint
  BY PairByPair DEF Fates, NotDuplicated
<1>2. \A v \in Workers : v # w => pc'[v] = pc[v] /\ current[v] # x /\ current'[v] = current[v]
  BY <1>1 DEF Fates, NotDuplicated
<1>3. pc'[w] = next /\ pc'[w] # "run" /\ pc[w] # "run"
  OBVIOUS
<1>4. Running' = Running
  <2>1. {v \in Workers : pc[v] = "run"}' = {v \in Workers : pc[v] = "run"}
    BY <1>2, <1>3
  <2>2. \A v \in Workers : pc[v] = "run" => current'[v] = current[v]
    BY <1>2, <1>3
  <2> QED
    BY <2>1, <2>2 DEF Running
<1>5. Submitting' = Submitting /\ ToSet(queue)' = ToSet(queue)
  BY DEF Submitting, ToSet
<1>6. Over' = Over /\ OwnsClosures' = OwnsClosures /\ Leaked' = Leaked
  BY DEF Over, OwnsClosures, Leaked
<1>7. ToDelete' = ToDelete \ {x}
  <2>1. \A v \in Workers : v # w => \/ /\ pc'[v] = "discard" \/ (OwnsClosures' /\ pc'[v] \in {"decrement", "destroy"})
                                       /\ pc[v] = "discard" \/ (OwnsClosures /\ pc[v] \in {"decrement", "destroy"})
                                    \/ /\ ~ (pc'[v] = "discard" \/ (OwnsClosures' /\ pc'[v] \in {"decrement", "destroy"}))
                                       /\ ~ (pc[v] = "discard" \/ (OwnsClosures /\ pc[v] \in {"decrement", "destroy"}))
    BY <1>2, <1>6
  <2>2. ~ (pc'[w] = "discard" \/ (OwnsClosures' /\ pc'[w] \in {"decrement", "destroy"}))
    BY <1>3, <1>6 DEF Stations
  <2>3. pc[w] = "discard" \/ (OwnsClosures /\ pc[w] \in {"decrement", "destroy"})
    BY DEF Stations
  <2>4. \A v \in Workers : pc'[v] = "discard" \/ (OwnsClosures' /\ pc'[v] \in {"decrement", "destroy"})
            <=> v # w /\ (pc[v] = "discard" \/ (OwnsClosures /\ pc[v] \in {"decrement", "destroy"}))
    BY <2>1, <2>2
  <2> QED
    BY ONLY <1>2, <2>3, <2>4 DEF ToDelete
<1>8. NotLost'
  BY <1>4, <1>5, <1>6 DEF Fates, NotLost
<1>9. Places' = Places
  BY <1>4, <1>5 DEF Places
<1>10. NotDuplicated'
  BY SMTT(60), <1>9, <1>2 DEF Fates, NotDuplicated
<1>11. ChildrenOnce'
  BY <1>2, <1>3, <1>4 DEF Fates, ChildrenOnce
<1>12. DeletedOnce'
  <2>1. deletions[x] = 0
    BY <1>1 DEF Fates, DeletedOnce
  <2>2. x \notin Leaked
    BY <1>0, <1>1 DEF Leaked, Disjoint
  <2>3. \A y \in Tasks : y \in (Over \ (ToDelete \cup Leaked))'
                         <=> y \in Over \ (ToDelete \cup Leaked) \/ y = x
    BY <1>1, <1>6, <1>7, <2>2
  <2> QED
    BY <2>1, <2>3 DEF Fates, DeletedOnce, Delete
<1> QED
  BY <1>8, <1>10, <1>11, <1>12 DEF Fates

\* Stop discards the queue.
LEMMA FatesOfStop ==
    ASSUME TypeOK, Stations, Fates, NEW c \in Clients, Stop(c)
    PROVE  Fates'
<1> USE PoolAssumption DEF TypeOK, Threads, Stop, callVars, workVars
<1>0. Disjoint
  BY PairByPair DEF Fates, NotDuplicated
<1>a. (Disjoint <=> \A i, j \in DOMAIN Places : i # j => Places[i] \cap Places[j] = {})'
  BY PairByPair, PTL
<1>1. \A v \in Workers : pc'[v] = pc[v] \/ (pc[v] = "wait" /\ pc'[v] = "take")
  BY DEF Stations
<1>2. ToSet(queue)' = {} /\ IsInjective(queue)'
  BY DEF ToSet, IsInjective
<1>3. Submitting' = Submitting /\ Over' = Over \cup ToSet(queue) /\ current' = current
  BY DEF Submitting, Over
<1>4. OwnsClosures' = OwnsClosures /\ Leaked' = Leaked
  BY DEF OwnsClosures, Leaked
<1>5. Running' = Running
  <2>1. {v \in Workers : pc[v] = "run"}' = {v \in Workers : pc[v] = "run"}
    BY <1>1
  <2> QED
    BY ONLY <2>1, <1>3 DEF Running
<1>6. ToDelete' = ToDelete
  <2>1. {v \in Workers : pc[v] = "discard" \/ (OwnsClosures /\ pc[v] \in {"decrement", "destroy"})}'
        = {v \in Workers : pc[v] = "discard" \/ (OwnsClosures /\ pc[v] \in {"decrement", "destroy"})}
    BY <1>1, <1>4
  <2> QED
    BY ONLY <2>1, <1>3 DEF ToDelete
<1>7. NotLost'
  BY <1>2, <1>3, <1>5 DEF Fates, NotLost
<1>8. Disjoint'
  BY <1>0, <1>2, <1>3, <1>5 DEF Disjoint, Over
<1>9. NotDuplicated'
  BY <1>8, <1>a, <1>2 DEF Fates, NotDuplicated
<1>10. ChildrenOnce'
  BY <1>1, <1>5 DEF Fates, ChildrenOnce
<1>11. DeletedOnce'
  <2>1. \A y \in ToSet(queue) : y \notin Over /\ y \notin ToDelete /\ y \notin Leaked
    BY <1>0 DEF Disjoint, ToDelete, Leaked, Over, Stations
  <2>2. \A y \in Tasks : y \in (Over \ (ToDelete \cup Leaked))'
                         <=> y \in Over \ (ToDelete \cup Leaked) \/ y \in ToSet(queue)
    BY <2>1, <1>3, <1>4, <1>6
  <2> QED
    BY <2>1, <2>2 DEF Fates, DeletedOnce, Delete
<1> QED
  BY <1>7, <1>9, <1>10, <1>11 DEF Fates

\* What a step does to the places of tasks, and what follows for the history of deletions.
LEMMA NextFates == IInv /\ [Next]_vars => Fates'
<1> SUFFICES ASSUME TypeOK, Stations, Fates, [Next]_vars PROVE Fates'
  BY DEF IInv, Fates
<1>0. Disjoint
  BY PairByPair DEF Fates, NotDuplicated
<1>a. (Disjoint <=> \A i, j \in DOMAIN Places : i # j => Places[i] \cap Places[j] = {})'
  BY PairByPair, PTL
<1> USE PoolAssumption, <1>0 DEF TypeOK, Stations, Threads
<1>1. ASSUME NEW t \in Threads, NEW x \in Tasks, Execute(t, x) PROVE Fates'
  <2> USE <1>1 DEF Execute, MaySubmit, objectVars, queueVars, fateVars
  <2>1. x \notin handed
    BY DEF Fates, ChildrenOnce
  <2>2. Submitting' = Submitting \cup {x}
    BY DEF Submitting
  <2>3. Running' = Running /\ ToSet(queue)' = ToSet(queue) /\ ToDelete' = ToDelete /\ Over' = Over
        /\ OwnsClosures' = OwnsClosures /\ Leaked' = Leaked
    BY DEF Running, ToSet, ToDelete, Over, OwnsClosures, Leaked
  <2>4. NotLost'
    BY <2>2, <2>3 DEF Fates, NotLost
  <2>5. Disjoint'
    BY <2>1, <2>2, <2>3 DEF Fates, Disjoint, NotLost, Over
  <2>6. NotDuplicated'
    BY <2>1, <2>5, <1>a DEF Fates, NotDuplicated
  <2>7. ChildrenOnce'
    <3>1. CASE t \in Workers
      <4>1. x \in todo[t] /\ pc[t] = "run" /\ x \in Children[current[t]] /\ current[t] \in Tasks
        BY <3>1 DEF Fates, ChildrenOnce
      <4>2. \A y \in Tasks : x \in Children[y] => y = current[t]
        BY <4>1
      <4>3. ASSUME NEW v \in Workers, pc[v] = "run" PROVE todo'[v] \subseteq Children[current[v]] /\ x \notin todo'[v]
        BY <4>1, <4>2, <4>3, <3>1 DEF Fates, ChildrenOnce, NotDuplicated
      <4> QED
        BY <2>3, <4>1, <4>2, <4>3, <3>1 DEF Fates, ChildrenOnce, Running
    <3>2. CASE t \notin Workers
      <4>1. x \in Roots
        BY <3>2
      <4>2. \A y \in Tasks : x \notin Children[y]
        BY <4>1
      <4> QED
        BY <2>3, <4>2, <3>2 DEF Fates, ChildrenOnce
    <3> QED
      BY <3>1, <3>2
  <2>8. DeletedOnce'
    BY <2>3 DEF Fates, DeletedOnce
  <2> QED
    BY <2>4, <2>6, <2>7, <2>8 DEF Fates
<1>2. ASSUME NEW t \in Threads, Put(t) PROVE Fates'
  <2> USE <1>2 DEF Put, Return, objectVars, workVars, fateVars
  <2> DEFINE x == arg[t]
  <2>1. x \in Tasks /\ x \in Submitting
    BY DEF Submitting
  <2>2. Submitting' = Submitting \ {x}
    BY DEF Submitting, Fates, NotDuplicated
  <2>3. queue' = Append(queue, x) /\ ToSet(queue)' = ToSet(queue) \cup {x}
    BY <2>1, ToSetAppend
  <2>4. \A w \in Workers : pc'[w] = pc[w] \/ (pc[w] = "wait" /\ pc'[w] = "take")
    BY DEF NotifyWorker
  <2>b. Over' = Over /\ OwnsClosures' = OwnsClosures /\ Leaked' = Leaked /\ current' = current
    BY DEF Over, OwnsClosures, Leaked
  <2>5. Running' = Running
    <3>1. {v \in Workers : pc[v] = "run"}' = {v \in Workers : pc[v] = "run"}
      BY <2>4
    <3> QED
      BY <3>1, <2>b DEF Running
  <2>a. ToDelete' = ToDelete
    <3>1. \A w \in Workers : \/ pc'[w] = pc[w]
                             \/ /\ pc[w] \notin {"discard", "decrement", "destroy"}
                                /\ pc'[w] \notin {"discard", "decrement", "destroy"}
      BY <2>4
    <3>2. {v \in Workers : pc[v] = "discard" \/ (OwnsClosures /\ pc[v] \in {"decrement", "destroy"})}'
          = {v \in Workers : pc[v] = "discard" \/ (OwnsClosures /\ pc[v] \in {"decrement", "destroy"})}
      BY <3>1, <2>b
    <3> QED
      BY <3>2, <2>b DEF ToDelete
  <2>6. NotLost'
    BY <2>1, <2>2, <2>3, <2>5, <2>b DEF Fates, NotLost
  <2>7. Disjoint'
    BY <2>1, <2>2, <2>3, <2>5, <2>b DEF Disjoint, Over
  <2>8. IsInjective(queue)'
    BY <2>1, <2>3, InjectiveAppend DEF Disjoint, Fates, NotDuplicated
  <2>9. NotDuplicated'
    BY <2>7, <2>8, <1>a DEF Fates, NotDuplicated
  <2>10. ChildrenOnce'
    BY <2>4, <2>5 DEF Fates, ChildrenOnce
  <2>11. DeletedOnce'
    BY <2>a, <2>b DEF Fates, DeletedOnce
  <2> QED
    BY <2>6, <2>9, <2>10, <2>11 DEF Fates
<1>3. ASSUME NEW t \in Threads, DestroyRejected(t) \/ DiscardRejected(t) \/ LeakRejected(t) PROVE Fates'
  <2> USE DEF queueVars, workVars
  <2> DEFINE x == arg[t]
  <2>0. /\ Rejected(t)
        /\ \/ Delete({x}) /\ copy \notin {"executors", "futures"}
           \/ UNCHANGED deletions /\ copy \in {"executors", "futures"}
    BY ONLY <1>3, HowRejected
  <2>1. x \in Tasks /\ x \in Submitting /\ x \notin Over
    BY <2>0 DEF Submitting, Rejected, Disjoint
  <2>2. Submitting' = Submitting \ {x} /\ rejected' = rejected \cup {x}
    BY <2>0 DEF Submitting, Rejected, Fates, NotDuplicated
  <2>a. copy' = copy /\ OwnsClosures' = OwnsClosures
    BY <2>0 DEF Rejected, OwnsClosures
  <2>3. Running' = Running /\ ToSet(queue)' = ToSet(queue) /\ ToDelete' = ToDelete
    BY <2>0, <2>a DEF Running, ToSet, ToDelete, Rejected
  <2>4. Over' = Over \cup {x}
    BY <2>0, <2>2 DEF Over, Rejected
  <2>5. NotLost'
    BY <2>0, <2>1, <2>2, <2>3, <2>4 DEF Fates, NotLost, Rejected
  <2>6. Disjoint'
    BY <2>0, <2>1, <2>2, <2>3, <2>4 DEF Disjoint, Over, Rejected
  <2>7. NotDuplicated'
    BY <2>0, <2>6, <1>a DEF Fates, NotDuplicated, Rejected
  <2>8. ChildrenOnce'
    BY <2>0, <2>3 DEF Fates, ChildrenOnce, Rejected
  <2>9. DeletedOnce'
    <3>1. x \notin ToDelete
      BY <2>1 DEF ToDelete, Over
    <3>3. Leaked' = IF copy \in {"executors", "futures"} THEN Leaked \cup {x} ELSE Leaked
      BY <2>2, <2>a DEF Leaked
    <3>4. deletions[x] = 0
      BY <2>1 DEF Fates, DeletedOnce
    <3>5. \A y \in Tasks : deletions'[y] = IF y = x /\ copy \notin {"executors", "futures"} THEN 1 ELSE deletions[y]
      BY <2>0, <2>1, <3>4 DEF Delete
    <3>6. x \notin Leaked
      BY <2>1 DEF Leaked, Over
    <3>7. \A y \in Tasks : y \in (Over \ (ToDelete \cup Leaked))'
                           <=> y \in Over \ (ToDelete \cup Leaked)
                               \/ (y = x /\ copy \notin {"executors", "futures"})
      BY <2>1, <2>3, <2>4, <3>1, <3>3, <3>6
    <3> QED
      BY <3>4, <3>5, <3>7 DEF Fates, DeletedOnce
  <2> QED
    BY <2>5, <2>7, <2>8, <2>9 DEF Fates
<1>4. ASSUME NEW t \in Threads, UndoIncrement(t) PROVE Fates'
  <2> USE <1>4 DEF UndoIncrement, Return, objectVars, queueVars, workVars, fateVars
  <2>1. \A w \in Workers : pc'[w] = pc[w]
    BY DEF WokenAtZero
  <2>a. OwnsClosures' = OwnsClosures
    BY DEF OwnsClosures
  <2>2. Submitting' = Submitting /\ ToDelete' = ToDelete
    BY <2>1, <2>a DEF Submitting, ToDelete
  <2> QED
    BY <2>1, <2>2, FatesStay
<1>5. ASSUME NEW w \in Workers, TakeTask(w) PROVE Fates'
  <2> USE <1>5 DEF TakeTask, objectVars, callVars, fateVars
  <2> DEFINE x == Head(queue)
  <2>1. x \in Tasks /\ x \in ToSet(queue)
    BY TailOfInjective DEF Fates, NotDuplicated
  <2>2. queue' = Tail(queue) /\ ToSet(queue)' = ToSet(queue) \ {x} /\ IsInjective(queue)'
    BY TailOfInjective DEF Fates, NotDuplicated
  <2>3. Running' = Running \cup {x} /\ Submitting' = Submitting
    BY <2>1 DEF Running, Submitting
  <2>a. Over' = Over /\ OwnsClosures' = OwnsClosures /\ Leaked' = Leaked
    BY DEF Over, OwnsClosures, Leaked
  <2>4. ToDelete' = ToDelete
    <3>1. \A v \in Workers : IF v = w THEN pc'[v] = "run" /\ pc[v] = "take"
                                     ELSE pc'[v] = pc[v] /\ current'[v] = current[v]
      OBVIOUS
    <3>2. {v \in Workers : pc[v] = "discard" \/ (OwnsClosures /\ pc[v] \in {"decrement", "destroy"})}'
          = {v \in Workers : pc[v] = "discard" \/ (OwnsClosures /\ pc[v] \in {"decrement", "destroy"})}
      BY <3>1, <2>a
    <3>3. \A v \in Workers : pc[v] = "discard" \/ pc[v] \in {"decrement", "destroy"} => current'[v] = current[v]
      BY <3>1
    <3> QED
      BY <3>2, <3>3 DEF ToDelete
  <2>5. NotLost'
    BY <2>1, <2>2, <2>3, <2>a DEF Fates, NotLost
  <2>6. Disjoint'
    BY <2>1, <2>2, <2>3, <2>a DEF Disjoint, Over
  <2>8. \A v \in Workers : current[v] # x
    BY <2>1 DEF Disjoint, Running, Over
  <2>9. NotDuplicated'
    BY <2>2, <2>6, <2>8, <1>a DEF Fates, NotDuplicated
  <2>10. x \notin done \cup Running
    BY <2>1 DEF Disjoint, Over
  <2>11. ChildrenOnce'
    BY <2>1, <2>3, <2>10 DEF Fates, ChildrenOnce
  <2>12. DeletedOnce'
    BY <2>4, <2>a DEF Fates, DeletedOnce
  <2> QED
    BY <2>5, <2>9, <2>11, <2>12 DEF Fates
<1>6. ASSUME NEW w \in Workers, RunReturns(w) PROVE Fates'
  <2>0. PICK next \in {"discard", "decrement"} : next = IF copy = "executors" THEN "discard" ELSE "decrement"
    OBVIOUS
  <2>1. \A y \in Tasks : deletions'[y] = deletions[y]
           + (IF y = current[w] /\ next = "decrement" /\ ~ OwnsClosures THEN 1 ELSE 0)
    BY <2>0, <1>6 DEF RunReturns, Delete, RunDeletes, OwnsClosures
  <2>2. pc[w] = "run" /\ Ended(w, next) /\ todo' = todo
    BY <2>0, <1>6 DEF RunReturns
  <2>3. \A v \in Workers : todo'[v] \in {todo[v], {}}
    BY <2>2
  <2> QED
    BY <2>1, <2>2, <2>3, FatesOfEnd
<1>7. ASSUME NEW w \in Workers, RunThrows(w) PROVE Fates'
  <2> DEFINE next == IF OwnsClosures THEN "decrement" ELSE "discard"
  <2>1. \A y \in Tasks : deletions'[y] = deletions[y]
           + (IF y = current[w] /\ next = "decrement" /\ ~ OwnsClosures THEN 1 ELSE 0)
    BY <1>7 DEF RunThrows
  <2>2. pc[w] = "run" /\ Ended(w, next) /\ \A v \in Workers : todo'[v] \in {todo[v], {}}
    BY <1>7 DEF RunThrows
  <2> QED
    BY <2>1, <2>2, FatesOfEnd
<1>8. ASSUME NEW w \in Workers, DiscardTask(w) PROVE Fates'
  <2>1. /\ pc[w] = "discard" /\ Delete({current[w]}) /\ pc' = [pc EXCEPT ![w] = "decrement"]
        /\ UNCHANGED <<copy, queueVars, callVars, todo, fateVars>> /\ current' = current
    BY <1>8 DEF DiscardTask, workVars
  <2> QED
    BY <2>1, FatesOfDeletion
<1>9. ASSUME NEW w \in Workers, DestroyClosure(w) PROVE Fates'
  <2>1. /\ pc[w] = "destroy" /\ Delete({current[w]}) /\ pc' = [pc EXCEPT ![w] = "take"]
        /\ UNCHANGED <<copy, queueVars, callVars, todo, fateVars>>
        /\ current' = [current EXCEPT ![w] = None]
    BY <1>9 DEF DestroyClosure
  <2> QED
    BY ZenonT(60), <2>1, FatesOfDeletion
<1>10. ASSUME NEW w \in Workers, TaskOver(w) PROVE Fates'
  <2> USE <1>10 DEF TaskOver, objectVars, queueVars, callVars, fateVars
  <2>1. /\ pc[w] = "decrement" /\ pc'[w] = IF OwnsClosures THEN "destroy" ELSE "take"
        /\ \A v \in Workers : v # w => pc'[v] = pc[v]
    BY DEF WokenAtZero
  <2>2. OwnsClosures' = OwnsClosures /\ Submitting' = Submitting
    BY DEF OwnsClosures, Submitting
  <2>3. /\ \A v \in Workers : v # w \/ OwnsClosures => current'[v] = current[v]
        /\ current'[w] \in {current[w], None}
    OBVIOUS
  <2>4. ToDelete' = ToDelete
    <3>1. {v \in Workers : pc[v] = "discard" \/ (OwnsClosures /\ pc[v] \in {"decrement", "destroy"})}'
          = {v \in Workers : pc[v] = "discard" \/ (OwnsClosures /\ pc[v] \in {"decrement", "destroy"})}
      BY ZenonT(60), <2>1, <2>2
    <3>2. \A v \in Workers : pc[v] = "discard" \/ (OwnsClosures /\ pc[v] \in {"decrement", "destroy"})
                             => current'[v] = current[v]
      BY <2>1, <2>3
    <3> QED
      BY ONLY <3>1, <3>2, <2>2 DEF ToDelete
  <2> QED
    BY <2>1, <2>2, <2>3, <2>4, FatesStay
<1>11. ASSUME UNCHANGED <<objectVars, queue, callVars, workVars, fateVars>>,
              \A v \in Workers : \/ pc'[v] = pc[v]
                                 \/ pc[v] \in {"take", "wait"} /\ pc'[v] \in {"take", "wait", "exited"}
       PROVE  Fates'
  <2> USE <1>11 DEF objectVars, callVars, workVars, fateVars
  <2>1. Submitting' = Submitting /\ OwnsClosures' = OwnsClosures
    BY DEF Submitting, OwnsClosures
  <2>2. ToDelete' = ToDelete
    <3>1. {v \in Workers : pc[v] = "discard" \/ (OwnsClosures /\ pc[v] \in {"decrement", "destroy"})}'
          = {v \in Workers : pc[v] = "discard" \/ (OwnsClosures /\ pc[v] \in {"decrement", "destroy"})}
      BY ZenonT(60), <2>1
    <3> QED
      BY <3>1 DEF ToDelete
  <2> QED
    BY <2>1, <2>2, FatesStay
<1>12. ASSUME NEW w \in Workers, TakeNothing(w) \/ SpuriousTake(w) PROVE Fates'
  BY <1>11, <1>12 DEF TakeNothing, SpuriousTake, queueVars
<1>13. ASSUME NEW c \in Clients,
              WaitIdle(c) \/ CheckZero(c) \/ WokenOnce(c) \/ SpuriousZero(c) \/ Join(c)
       PROVE  Fates'
  BY <1>11, <1>13 DEF WaitIdle, CheckZero, WokenOnce, SpuriousZero, Join, queueVars
<1>14. ASSUME NEW c \in Clients, Stop(c) PROVE Fates'
  BY <1>14, FatesOfStop
<1>15. CASE UNCHANGED vars
  BY <1>11, <1>15 DEF vars, queueVars
<1> QED
  BY ONLY Steps, <1>1, <1>2, <1>3, <1>4, <1>5, <1>6, <1>7, <1>8, <1>9, <1>10, <1>12, <1>13, <1>14,
          <1>15, [Next]_vars
-----------------------------------------------------------------------------
(* What the counter counts *)

\* A step that changes no number that the counter is the sum of.
LEMMA SameCount ==
    ASSUME Counted, Submitters' = Submitters, Busy' = Busy, UNCHANGED <<queue, cancelled, counter>>
    PROVE  Counted'
<1>1. Counted <=> /\ IsFiniteSet(cancelled)
                  /\ counter = Cardinality(Submitters) + Len(queue) + Cardinality(Busy)
                               + Cardinality(cancelled)
  BY DEF Counted, CounterIsOutstanding, Submitters
<1>2. Counted' <=> /\ IsFiniteSet(cancelled')
                   /\ counter' = Cardinality(Submitters') + Len(queue') + Cardinality(Busy')
                                 + Cardinality(cancelled')
  BY DEF Counted, CounterIsOutstanding, Submitters
<1> QED
  BY <1>1, <1>2

LEMMA NextCounter == IInv /\ [Next]_vars => Counted'
<1> SUFFICES ASSUME TypeOK, Stations, NotDuplicated, Counted, [Next]_vars PROVE Counted'
  BY DEF IInv
<1> USE PoolAssumption DEF TypeOK, Threads
<1>a. /\ Cardinality(Submitters) \in Nat /\ Cardinality(Busy) \in Nat
      /\ Cardinality(cancelled) \in Nat /\ Len(queue) \in Nat
      /\ IsFiniteSet(Submitters) /\ IsFiniteSet(Busy) /\ IsFiniteSet(cancelled)
  BY FiniteThreads, FS_CardinalityType DEF Submitters, Busy, Counted
<1>b. counter = Cardinality(Submitters) + Len(queue) + Cardinality(Busy) + Cardinality(cancelled)
  BY DEF Counted, CounterIsOutstanding, Submitters
<1>c. Counted' <=> /\ IsFiniteSet(cancelled')
                   /\ counter' = Cardinality(Submitters') + Len(queue') + Cardinality(Busy')
                                 + Cardinality(cancelled')
  BY DEF Counted, CounterIsOutstanding, Submitters
<1>1. ASSUME NEW t \in Threads, NEW x \in Tasks, Execute(t, x) PROVE Counted'
  <2>1. Submitters' = Submitters \cup {t} /\ t \notin Submitters
    BY <1>1 DEF Execute, Submitters
  <2>2. Busy' = Busy /\ queue' = queue /\ cancelled' = cancelled /\ counter' = counter + 1
    BY <1>1 DEF Execute, Busy, queueVars, fateVars
  <2>3. Cardinality(Submitters') = Cardinality(Submitters) + 1
    BY <1>a, <2>1, FS_AddElement
  <2> QED
    BY <1>a, <1>b, <1>c, <2>2, <2>3
<1>2. ASSUME NEW t \in Threads, Put(t) PROVE Counted'
  <2>1. Submitters' = Submitters \ {t} /\ t \in Submitters
    BY <1>2 DEF Put, Return, Submitters
  <2>2. \A w \in Workers : pc'[w] = pc[w] \/ (pc[w] = "wait" /\ pc'[w] = "take")
    BY <1>2 DEF Put, NotifyWorker
  <2>3. Busy' = Busy
    BY <2>2 DEF Busy
  <2>4. Len(queue') = Len(queue) + 1 /\ cancelled' = cancelled /\ counter' = counter
    BY <1>2 DEF Put, fateVars, Stations
  <2>5. Cardinality(Submitters') = Cardinality(Submitters) - 1
    BY <1>a, <2>1, FS_RemoveElement
  <2> QED
    BY <1>a, <1>b, <1>c, <2>3, <2>4, <2>5
<1>3. ASSUME NEW t \in Threads, DestroyRejected(t) \/ DiscardRejected(t) \/ LeakRejected(t) PROVE Counted'
  <2>1. Rejected(t)
    BY <1>3, HowRejected
  <2>2. Submitters' = Submitters /\ Busy' = Busy
    BY <2>1 DEF Rejected, Submitters, Busy
  <2> QED
    BY <2>1, <2>2, SameCount DEF Rejected, queueVars
<1>4. ASSUME NEW t \in Threads, UndoIncrement(t) PROVE Counted'
  <2>1. Submitters' = Submitters \ {t} /\ t \in Submitters
    BY <1>4 DEF UndoIncrement, Return, Submitters
  <2>2. \A w \in Workers : pc'[w] = pc[w]
    BY <1>4 DEF UndoIncrement, WokenAtZero, Stations
  <2>3. Busy' = Busy
    BY <2>2 DEF Busy
  <2>4. queue' = queue /\ cancelled' = cancelled /\ counter' = counter - 1
    BY <1>4 DEF UndoIncrement, Decrement, queueVars, fateVars
  <2>5. Cardinality(Submitters') = Cardinality(Submitters) - 1
    BY <1>a, <2>1, FS_RemoveElement
  <2> QED
    BY <1>a, <1>b, <1>c, <2>3, <2>4, <2>5
<1>5. ASSUME NEW w \in Workers, TakeTask(w) PROVE Counted'
  <2>1. Busy' = Busy \cup {w} /\ w \notin Busy
    BY <1>5 DEF TakeTask, Busy
  <2>2. /\ Submitters' = Submitters /\ Len(queue') = Len(queue) - 1
        /\ cancelled' = cancelled /\ counter' = counter
    BY <1>5 DEF TakeTask, Submitters, callVars, fateVars
  <2>3. Cardinality(Busy') = Cardinality(Busy) + 1
    BY <1>a, <2>1, FS_AddElement
  <2> QED
    BY <1>a, <1>b, <1>c, <2>2, <2>3
<1>6. ASSUME NEW w \in Workers, TaskOver(w) PROVE Counted'
  <2>1. /\ pc[w] = "decrement" /\ pc'[w] = IF OwnsClosures THEN "destroy" ELSE "take"
        /\ \A v \in Workers : v # w => pc'[v] = pc[v]
    BY <1>6 DEF TaskOver, WokenAtZero, Stations
  <2>2. Busy' = Busy \ {w} /\ w \in Busy
    BY <2>1 DEF Busy
  <2>3. /\ Submitters' = Submitters /\ queue' = queue
        /\ cancelled' = cancelled /\ counter' = counter - 1
    BY <1>6 DEF TaskOver, Decrement, Submitters, queueVars, callVars, fateVars
  <2>4. Cardinality(Busy') = Cardinality(Busy) - 1
    BY <1>a, <2>2, FS_RemoveElement
  <2> QED
    BY <1>a, <1>b, <1>c, <2>3, <2>4
<1>7. ASSUME NEW c \in Clients, Stop(c) PROVE Counted'
  <2>1. \A w \in Workers : pc'[w] = pc[w] \/ (pc[w] = "wait" /\ pc'[w] = "take")
    BY <1>7 DEF Stop
  <2>2. Busy' = Busy
    BY <2>1 DEF Busy
  <2>3. /\ Submitters' = Submitters /\ queue' = <<>> /\ counter' = counter
        /\ cancelled' = cancelled \cup ToSet(queue)
    BY <1>7 DEF Stop, Submitters, callVars
  <2>4. IsFiniteSet(ToSet(queue)) /\ Cardinality(ToSet(queue)) = Len(queue)
    BY SizeOfInjective DEF NotDuplicated
  <2>5. cancelled \cap ToSet(queue) = {}
    BY PairByPair DEF NotDuplicated, Disjoint, Over
  <2>6. IsFiniteSet(cancelled') /\ Cardinality(cancelled') = Cardinality(cancelled) + Len(queue)
    <3>1. /\ IsFiniteSet(cancelled \cup ToSet(queue))
          /\ Cardinality(cancelled \cup ToSet(queue))
             = Cardinality(cancelled) + Cardinality(ToSet(queue)) - Cardinality(cancelled \cap ToSet(queue))
      BY <1>a, <2>4, FS_Union
    <3>2. Cardinality(cancelled \cap ToSet(queue)) = 0
      BY <2>5, FS_EmptySet
    <3>3. Cardinality(cancelled \cup ToSet(queue)) = Cardinality(cancelled) + Len(queue)
      BY <1>a, <2>4, <3>1, <3>2
    <3> QED
      BY <2>3, <3>1, <3>3
  <2>7. Len(queue') = 0
    BY <2>3
  <2> QED
    BY <1>a, <1>b, <1>c, <2>2, <2>3, <2>6, <2>7
<1>8. ASSUME UNCHANGED <<queue, callVars, fateVars, counter>>,
             \A w \in Workers :
                \/ /\ pc[w] \in {"run", "discard", "decrement"}
                   /\ pc'[w] \in {"run", "discard", "decrement"}
                \/ /\ pc[w] \notin {"run", "discard", "decrement"}
                   /\ pc'[w] \notin {"run", "discard", "decrement"}
      PROVE  Counted'
  <2>1. Busy' = Busy /\ Submitters' = Submitters
    BY <1>8 DEF Busy, Submitters, callVars
  <2> QED
    BY <1>8, <2>1, SameCount DEF fateVars
<1>9. ASSUME NEW w \in Workers, \/ TakeNothing(w) \/ SpuriousTake(w) \/ DestroyClosure(w)
      PROVE  Counted'
  BY <1>8, <1>9 DEF TakeNothing, SpuriousTake, DestroyClosure, queueVars
<1>10. ASSUME NEW w \in Workers, RunReturns(w) \/ RunThrows(w) \/ DiscardTask(w)
       PROVE  Counted'
  <2>1. UNCHANGED <<queue, callVars, cancelled, counter>>
    BY <1>10 DEF RunReturns, RunThrows, DiscardTask, Ended, queueVars, fateVars
  <2>2. \A v \in Workers : v # w => pc'[v] = pc[v]
    BY <1>10 DEF RunReturns, RunThrows, DiscardTask, Ended
  <2>3. pc[w] \in {"run", "discard"} /\ pc'[w] \in {"discard", "decrement"}
    BY <1>10 DEF RunReturns, RunThrows, DiscardTask, Ended
  <2>4. Busy' = Busy
    BY <2>2, <2>3 DEF Busy
  <2>5. Submitters' = Submitters
    BY <2>1 DEF Submitters, callVars
  <2> QED
    BY <2>1, <2>4, <2>5, SameCount
<1>11. ASSUME NEW c \in Clients,
              WaitIdle(c) \/ CheckZero(c) \/ WokenOnce(c) \/ SpuriousZero(c) \/ Join(c)
       PROVE  Counted'
  BY <1>8, <1>11 DEF WaitIdle, CheckZero, WokenOnce, SpuriousZero, Join, queueVars
<1>12. CASE UNCHANGED vars
  BY <1>8, <1>12 DEF vars, queueVars
<1> QED
  BY ONLY Steps, <1>1, <1>2, <1>3, <1>4, <1>5, <1>6, <1>7, <1>9, <1>10, <1>11, <1>12, [Next]_vars

-----------------------------------------------------------------------------
(* The theorems *)

LEMMA InitFates == Init => Fates /\ Counted
<1> SUFFICES ASSUME Init PROVE Fates /\ Counted
  OBVIOUS
<1> USE PoolAssumption DEF Init, Threads
<1>1. /\ Submitting = {} /\ Running = {} /\ Over = {}
      /\ ToSet(queue) = {} /\ IsInjective(queue)
  <2>1. Submitting = {} /\ Running = {} /\ Over = {}
    BY DEF Submitting, Running, Over
  <2>2. DOMAIN queue = {}
    OBVIOUS
  <2>3. ToSet(queue) = {} /\ IsInjective(queue)
    BY ONLY <2>2 DEF ToSet, IsInjective
  <2> QED
    BY <2>1, <2>3
<1>2. NotLost
  BY <1>1 DEF NotLost
<1>3. Disjoint
  BY <1>1 DEF Disjoint, Over
<1>4. NotDuplicated
  BY <1>1, <1>3, PairByPair DEF NotDuplicated
<1>5. ChildrenOnce /\ DeletedOnce
  BY <1>1 DEF ChildrenOnce, DeletedOnce
<1>6. Submitters = {} /\ Busy = {} /\ cancelled = {} /\ Len(queue) = 0
  BY DEF Submitters, Busy
<1>7. Cardinality({}) = 0 /\ IsFiniteSet({})
  BY FS_EmptySet
<1>8. counter = Cardinality(Submitters) + Len(queue) + Cardinality(Busy) + Cardinality(cancelled)
  BY <1>6, <1>7
<1>9. Counted
  BY <1>6, <1>7, <1>8 DEF Counted, CounterIsOutstanding, Submitters
<1> QED
  BY <1>2, <1>4, <1>5, <1>9 DEF Fates

\* The invariant is inductive.
THEOREM Inductive == Spec => []IInv
<1>1. Init => IInv
  BY InitControl, InitFates DEF IInv, Fates
<1>2. IInv /\ [Next]_vars => IInv'
  BY NextControl, NextFates, NextCounter DEF IInv, Fates
<1> QED
  BY <1>1, <1>2, PTL DEF Spec

\* Nothing that was passed to Execute is lost, nothing is run, discarded or
\* deleted twice: for any number of threads and tasks, in every copy.
THEOREM Accounted == Spec => []TasksAreAccounted
<1>1. IInv => TasksAreAccounted
  BY DEF IInv, TasksAreAccounted
<1> QED
  BY <1>1, Inductive, PTL

\* The counter of ZeroWaiter is exactly the work that is outstanding.
THEOREM CounterIsExact == Spec => []CounterIsOutstanding
<1>1. IInv => CounterIsOutstanding
  BY DEF IInv, Counted
<1> QED
  BY <1>1, Inductive, PTL

\* A counter at zero says that nothing is queued, running or being submitted.
LEMMA ZeroIsIdle ==
    ASSUME IInv, counter = 0
    PROVE  queue = <<>> /\ Busy = {} /\ Submitters = {}
<1> USE PoolAssumption DEF IInv, TypeOK, Threads
<1>1. /\ Cardinality(Submitters) \in Nat /\ Cardinality(Busy) \in Nat
      /\ Cardinality(cancelled) \in Nat /\ Len(queue) \in Nat
      /\ IsFiniteSet(Submitters) /\ IsFiniteSet(Busy)
  BY FiniteThreads, FS_CardinalityType DEF Submitters, Busy, Counted
<1>2. 0 = Cardinality(Submitters) + Len(queue) + Cardinality(Busy) + Cardinality(cancelled)
  BY DEF Counted, CounterIsOutstanding, Submitters
<1>3. Cardinality(Submitters) = 0 /\ Len(queue) = 0 /\ Cardinality(Busy) = 0
  BY <1>1, <1>2
<1> QED
  BY <1>1, <1>3, FS_EmptySet

\* WaitIdle returns when the pool is idle, unless it tests the counter once only,
\* and after Stop has returned no user code runs.
THEOREM Returns == Spec => ReturnsMeanIt
<1>1. ASSUME IInv, [Next]_vars, NEW c \in Clients, copy # "thread-pool"
      PROVE  ReturnsIdle(c)
  <2> SUFFICES ASSUME pc[c] \in {"checkZero", "wokenZero"}, pc'[c] = "idle"
               PROVE  /\ queue = <<>> /\ Busy = {}
                      /\ \A t \in Threads : call[t] = "none"
                      /\ \A x \in done : OwnsClosures \/ deletions[x] = 1
    BY DEF ReturnsIdle
  <2> USE PoolAssumption DEF IInv, TypeOK, Threads, Stations
  <2>1. counter = 0
    <3>0. c \in Threads /\ c \notin Workers /\ pc'[c] # pc[c]
      OBVIOUS
    <3>1. ASSUME NEW t \in Threads, NEW x \in Tasks, Execute(t, x) PROVE FALSE
      BY <3>0, <3>1 DEF Execute
    <3>2. ASSUME NEW t \in Threads, Put(t) PROVE FALSE
      <4>1. pc' = pc \/ \E w \in Workers : pc' = [pc EXCEPT ![w] = "take"]
        BY <3>2 DEF Put, NotifyWorker
      <4>2. ASSUME NEW w \in Workers, pc' = [pc EXCEPT ![w] = "take"] PROVE FALSE
        BY <3>0, <4>2
      <4> QED
        BY <3>0, <4>1, <4>2
    <3>3. ASSUME NEW t \in Threads, UndoIncrement(t) PROVE FALSE
      BY <3>0, <3>3 DEF UndoIncrement, WokenAtZero
    <3>4. ASSUME NEW t \in Threads, DestroyRejected(t) \/ DiscardRejected(t) \/ LeakRejected(t) PROVE FALSE
      BY <3>0, <3>4, HowRejected DEF Rejected
    <3>5. ASSUME NEW w \in Workers, NEW place, pc' = [pc EXCEPT ![w] = place] PROVE FALSE
      BY <3>0, <3>5
    <3>6. ASSUME NEW w \in Workers, TakeTask(w) \/ TakeNothing(w) \/ SpuriousTake(w) PROVE FALSE
      BY <3>5, <3>6 DEF TakeTask, TakeNothing, SpuriousTake
    <3>7. ASSUME NEW w \in Workers, RunReturns(w) \/ RunThrows(w) \/ DiscardTask(w) \/ DestroyClosure(w) PROVE FALSE
      BY <3>5, <3>7 DEF RunReturns, RunThrows, Ended, DiscardTask, DestroyClosure
    <3>8. ASSUME NEW w \in Workers, TaskOver(w) PROVE FALSE
      BY <3>0, <3>8 DEF TaskOver, WokenAtZero
    <3>9. ASSUME NEW d \in Clients, WaitIdle(d) \/ SpuriousZero(d) PROVE FALSE
      <4>1. PICK place \in {"checkZero", "wokenZero"} : pc' = [pc EXCEPT ![d] = place]
        BY <3>9 DEF WaitIdle, SpuriousZero
      <4> QED
        BY <3>0, <4>1
    <3>10. ASSUME NEW d \in Clients, Stop(d) \/ Join(d) PROVE FALSE
      <4>1. CASE Stop(d)
        BY <3>0, <4>1 DEF Stop
      <4>2. CASE Join(d)
        BY <3>0, <4>2 DEF Join
      <4> QED
        BY <3>10, <4>1, <4>2
    <3>11. ASSUME NEW d \in Clients, CheckZero(d) \/ WokenOnce(d) PROVE counter = 0
      BY <3>0, <3>11, <1>1 DEF CheckZero, WokenOnce
    <3>12. CASE UNCHANGED vars
      BY <3>0, <3>12 DEF vars
    <3> QED
      BY ONLY Steps, <1>1, <3>1, <3>2, <3>3, <3>4, <3>6, <3>7, <3>8, <3>9, <3>10, <3>11, <3>12
  <2>2. queue = <<>> /\ Busy = {} /\ Submitters = {}
    BY <1>1, <2>1, ZeroIsIdle
  <2>3. \A t \in Threads : call[t] = "none"
    BY <2>2 DEF Submitters
  <2>4. ASSUME NEW x \in done, ~ OwnsClosures PROVE deletions[x] = 1
    <3>1. ToDelete = {}
      BY <1>1, <2>2, <2>4 DEF ToDelete, Busy
    <3>2. x \in Over /\ x \notin Leaked /\ x \in Tasks
      BY <1>1, PairByPair DEF Over, Leaked, NotDuplicated, Disjoint
    <3> QED
      BY <1>1, <3>1, <3>2 DEF DeletedOnce
  <2> QED
    BY <2>2, <2>3, <2>4
<1>2. ASSUME IInv, [Next]_vars, NEW c \in Clients, pc[c] = "stopped"
      PROVE  UNCHANGED <<done, current, todo>>
  <2> USE PoolAssumption DEF IInv, TypeOK, Threads, Stations, workVars, fateVars
  <2>1. \A w \in Workers : pc[w] = "exited"
    BY <1>2
  <2>2. ASSUME NEW t \in Threads, NEW x \in Tasks, Execute(t, x) PROVE UNCHANGED <<done, current, todo>>
    BY <2>1, <2>2 DEF Execute, MaySubmit
  <2>3. ASSUME NEW t \in Threads, \/ Put(t) \/ UndoIncrement(t) \/ DestroyRejected(t)
                                  \/ DiscardRejected(t) \/ LeakRejected(t)
        PROVE  UNCHANGED <<done, current, todo>>
    <3>1. CASE Put(t) \/ UndoIncrement(t)
      BY <3>1 DEF Put, UndoIncrement
    <3>2. CASE DestroyRejected(t) \/ DiscardRejected(t) \/ LeakRejected(t)
      BY <3>2, HowRejected DEF Rejected
    <3> QED
      BY <2>3, <3>1, <3>2
  <2>4. ASSUME NEW w \in Workers, \/ TakeTask(w) \/ TakeNothing(w) \/ SpuriousTake(w)
                                  \/ RunReturns(w) \/ RunThrows(w) \/ DiscardTask(w)
                                  \/ TaskOver(w) \/ DestroyClosure(w)
        PROVE  UNCHANGED <<done, current, todo>>
    BY <2>1, <2>4 DEF TakeTask, TakeNothing, SpuriousTake, RunReturns, RunThrows, DiscardTask,
                      TaskOver, DestroyClosure
  <2>6. ASSUME NEW d \in Clients, \/ WaitIdle(d) \/ CheckZero(d) \/ WokenOnce(d)
                                  \/ SpuriousZero(d) \/ Stop(d) \/ Join(d)
        PROVE  UNCHANGED <<done, current, todo>>
    BY <2>6 DEF WaitIdle, CheckZero, WokenOnce, SpuriousZero, Stop, Join
  <2>5. CASE UNCHANGED vars
    BY <2>5 DEF vars
  <2> QED
    BY ONLY Steps, <1>2, <2>2, <2>3, <2>4, <2>5, <2>6
<1>3. IInv /\ [Next]_vars => [\A c \in Clients : copy # "thread-pool" => ReturnsIdle(c)]_vars
  BY <1>1
<1>4. IInv /\ [Next]_vars
      => [(\E c \in Clients : pc[c] = "stopped") => UNCHANGED <<done, current, todo>>]_vars
  BY <1>2
<1> QED
  BY <1>3, <1>4, Inductive, PTL DEF Spec, ReturnsMeanIt, IdleIfTestedAgain, NothingRunsAfterStop
=============================================================================
