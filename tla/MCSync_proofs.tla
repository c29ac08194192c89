---------------------------- MODULE MCSync_proofs ----------------------------
(***************************************************************************)
(* Proofs about the locks, the blocking primitives and the small fiber     *)
(* libraries of MCSync, each on its own invariant: whichever of them runs, *)
(* the steps of one leave the others alone, so that the behaviour seen     *)
(* through one of them is a behaviour of that one.                         *)
(***************************************************************************)
EXTENDS MCSync, FiniteSetTheorems, FunctionTheorems, SequenceTheorems,
        WellFoundedInduction, TLAPS

-----------------------------------------------------------------------------
(* What the proofs use of numbers and sequences *)

\* A set of natural numbers that is not empty has a least element.
LEMMA Least ==
    ASSUME NEW T, T \subseteq Nat, T # {}
    PROVE  \E x \in T : \A y \in T : x <= y
<1> DEFINE R == {p \in Nat \X Nat : p[1] < p[2]}
<1>1. R = OpToRel(<, Nat)
  BY DEF OpToRel
<1>2. IsWellFoundedOn(R, Nat)
  BY ONLY <1>1, NatLessThanWellFounded
<1>3. \E x \in T : \A y \in T : ~ (<<y, x>> \in R)
  <2> HIDE DEF R
  <2> QED BY <1>2, WFMin
<1>4. \A x, y \in Nat : <<y, x>> \in R <=> y < x
  OBVIOUS
<1>5. \A x, y \in T : ~ (<<y, x>> \in R) => x <= y
  <2> HIDE DEF R
  <2> QED BY <1>4
<1> HIDE DEF R
<1> QED BY <1>3, <1>5

LEMMA Appended ==
    \A S : \A s \in Seq(S) : \A e \in S :
        /\ Append(s, e) \in Seq(S)
        /\ Len(Append(s, e)) = Len(s) + 1
        /\ \A i \in 1 .. Len(s) : Append(s, e)[i] = s[i]
        /\ Append(s, e)[Len(s) + 1] = e
  OBVIOUS

LEMMA Shortened ==
    \A S : \A s \in Seq(S) : s # <<>> =>
        /\ Tail(s) \in Seq(S)
        /\ Len(Tail(s)) = Len(s) - 1
        /\ \A i \in 1 .. Len(s) - 1 : Tail(s)[i] = s[i + 1]
  OBVIOUS

\* The components count as this module does.
LEMMA SameCardinality ==
    \A S : /\ Queue!Cardinality(S) = Cardinality(S)
           /\ Cond!Cardinality(S) = Cardinality(S)
           /\ Bounded!Cardinality(S) = Cardinality(S)
  BY DEF Queue!Cardinality, Cond!Cardinality, Bounded!Cardinality, Cardinality

LEMMA NullIsNobody ==
    /\ Null \notin Lockers /\ Null \notin Waiters \cup Notifiers
    /\ Null \notin Workers /\ Null \notin Fibers /\ Null \notin Coroutines
  BY SyncAssumption DEF SyncAssumption

LEMMA NullIsNoState == Null \notin {"Rescheduling", "Running", "Waiting", "Sleeping"}
  BY SyncAssumption DEF SyncAssumption

-----------------------------------------------------------------------------
(* One component at a time *)

\* A step of the whole is a step of the component that runs and stutters in
\* every other.
LEMMA Moves ==
    [Next]_vars => /\ [Ticket!Next]_(Ticket!vars)
                   /\ [Queue!Next]_(Queue!vars)
                   /\ [Mutex!Next]_(Mutex!vars)
                   /\ [Spin!Next]_(Spin!vars)
                   /\ [Dining!Next]_(Dining!vars)
                   /\ [Cond!Next]_(Cond!vars)
                   /\ [Bounded!Next]_(Bounded!vars)
                   /\ [Barrier!Next]_(Barrier!vars)
                   /\ [Sleep!Next]_(Sleep!vars)
                   /\ [Guarded!Next]_(Guarded!vars)
                   /\ [Co!Next]_(Co!vars)
                   /\ [Yielding!Next]_(Yielding!vars)
  BY DEF Next, Only, vars, ticketVars, queueVars, mutexVars, spinVars, diningVars, condVars,
         boundedVars, barrierVars, futureVars, sleepVars, mutexedVars, coroutineVars, yieldVars,
         deadlockVars, livelockVars, Ticket!vars, Queue!vars, Mutex!vars, Spin!vars,
         Dining!vars, Cond!vars, Bounded!vars, Bounded!semaphoreVars, Barrier!vars, Sleep!vars,
         Sleep!context, Sleep!locals, Guarded!vars, Co!vars, Yielding!vars, Yielding!pool,
         Yielding!place, Yielding!fates

-----------------------------------------------------------------------------
(* The queue lock: its nodes form one list, from the holder to end_ *)

\* ln is the list of the threads whose nodes are queued.
QueueIs(ln) ==
    /\ ln \in Seq(Lockers)
    /\ \A i, j \in 1 .. Len(ln) : ln[i] = ln[j] => i = j
    /\ \A t \in Lockers : pcQueue[t] # "idle" <=> \E i \in 1 .. Len(ln) : ln[i] = t
    /\ last = IF ln = <<>> THEN Null ELSE ln[Len(ln)]

\* The first is inside, or was told that it may enter; it waits for a link only
\* if there is one to come.
FirstIsServed(ln) ==
    ln # <<>> => \/ pcQueue[ln[1]] = "inside"
                 \/ pcQueue[ln[1]] = "await" /\ Len(ln) >= 2
                 \/ pcQueue[ln[1]] = "spin" /\ ~ waiting[ln[1]]

\* The others wait, behind the thread before them.
OthersWait(ln) ==
    \A i \in 2 .. Len(ln) : /\ pcQueue[ln[i]] \in {"link", "spin"}
                            /\ waiting[ln[i]]
                            /\ prev[ln[i]] = ln[i - 1]

\* A node points to the next one as soon as that one has linked itself.
NodesAreLinked(ln) ==
    \A i \in 1 .. Len(ln) :
        succ[ln[i]] = IF i < Len(ln) /\ pcQueue[ln[i + 1]] = "spin" THEN ln[i + 1] ELSE Null

\* The node of a guard that is gone, and of the next one to come.
IdleNodes == \A t \in Lockers : pcQueue[t] = "idle" => succ[t] = Null /\ waiting[t]

ListIs(ln) ==
    QueueIs(ln) /\ FirstIsServed(ln) /\ OthersWait(ln) /\ NodesAreLinked(ln)

QueueInv == Queue!TypeOK /\ IdleNodes /\ \E ln : ListIs(ln)

LEMMA QueueInit == Queue!Init => QueueInv
<1> SUFFICES ASSUME Queue!Init PROVE QueueInv
  OBVIOUS
<1>1. Queue!TypeOK /\ IdleNodes
  BY DEF Queue!Init, Queue!TypeOK, IdleNodes
<1>2. PICK ln : ln = <<>>
  OBVIOUS
<1>3. ListIs(ln)
  BY <1>2 DEF Queue!Init, ListIs, QueueIs, FirstIsServed, OthersWait, NodesAreLinked
<1> QED
  BY <1>1, <1>3 DEF QueueInv

\* The step of each operation on the list, to name the new list.
LEMMA QueueTypes ==
    ASSUME QueueInv, [Queue!Next]_(Queue!vars)
    PROVE  Queue!TypeOK' /\ IdleNodes'
<1> USE NullIsNobody DEF QueueInv, Queue!TypeOK, Queue!Goto, IdleNodes
<1>1. ASSUME NEW t \in Lockers, Queue!Acquire(t) PROVE Queue!TypeOK' /\ IdleNodes'
  BY <1>1 DEF Queue!Acquire
<1>2. ASSUME NEW t \in Lockers, Queue!Link(t) PROVE Queue!TypeOK' /\ IdleNodes'
  <2>1. prev[t] # Null => prev[t] \in Lockers
    OBVIOUS
  <2>2. PICK ln : ListIs(ln)
    OBVIOUS
  <2>3. pcQueue[t] = "link"
    BY <1>2 DEF Queue!Link
  <2>4. ln \in Seq(Lockers) /\ Len(ln) \in Nat /\ \A i \in 1 .. Len(ln) : ln[i] \in Lockers
    BY <2>2 DEF ListIs, QueueIs
  <2>5. PICK k \in 1 .. Len(ln) : ln[k] = t
    BY <2>2, <2>3 DEF ListIs, QueueIs
  <2>6. k \in 2 .. Len(ln) /\ prev[t] = ln[k - 1] /\ k - 1 \in 1 .. Len(ln)
    BY <2>2, <2>3, <2>4, <2>5 DEF ListIs, FirstIsServed, OthersWait
  <2>7. prev[t] \in Lockers /\ pcQueue[prev[t]] # "idle"
    BY <2>2, <2>4, <2>6 DEF ListIs, QueueIs
  <2> QED
    BY <1>2, <2>7 DEF Queue!Link
<1>3. ASSUME NEW t \in Lockers, Queue!Served(t) PROVE Queue!TypeOK' /\ IdleNodes'
  BY <1>3 DEF Queue!Served
<1>4. ASSUME NEW t \in Lockers, Queue!ReleaseLast(t) PROVE Queue!TypeOK' /\ IdleNodes'
  BY <1>4 DEF Queue!ReleaseLast, Queue!Destroy
<1>5. ASSUME NEW t \in Lockers, Queue!ReleaseFails(t) PROVE Queue!TypeOK' /\ IdleNodes'
  BY <1>5 DEF Queue!ReleaseFails
<1>6. ASSUME NEW t \in Lockers, Queue!PassOn(t) PROVE Queue!TypeOK' /\ IdleNodes'
  <2>1. PICK ln : ListIs(ln)
    OBVIOUS
  <2>2. pcQueue[succ[t]] = "spin"
    BY SMTT(60), <1>6, <2>1 DEF Queue!PassOn, ListIs, QueueIs, FirstIsServed, OthersWait, NodesAreLinked
  <2> QED
    BY ZenonT(60), <1>6, <2>2 DEF Queue!PassOn, Queue!Destroy
<1>7. CASE UNCHANGED Queue!vars
  BY <1>7 DEF Queue!vars
<1> QED
  BY <1>1, <1>2, <1>3, <1>4, <1>5, <1>6, <1>7 DEF Queue!Next, Queue!Step

\* The exchange puts the thread at the end of the list.
LEMMA AcquireList ==
    ASSUME QueueInv, NEW t \in Lockers, Queue!Acquire(t), NEW ln, ListIs(ln),
           NEW new, new = Append(ln, t)
    PROVE  ListIs(new)'
<1> USE NullIsNobody DEF QueueInv, Queue!TypeOK, Queue!Goto, IdleNodes
<1>1. /\ ln \in Seq(Lockers) /\ Len(ln) \in Nat
      /\ \A i \in 1 .. Len(ln) : ln[i] \in Lockers /\ ln[i] # t
  BY DEF ListIs, QueueIs, Queue!Acquire
<1>2. /\ new \in Seq(Lockers) /\ Len(new) = Len(ln) + 1
      /\ \A i \in 1 .. Len(ln) : new[i] = ln[i]
      /\ new[Len(ln) + 1] = t
  BY <1>1, Appended
<1>3. /\ pcQueue' = [pcQueue EXCEPT ![t] = IF ln = <<>> THEN "inside" ELSE "link"]
      /\ prev' = [prev EXCEPT ![t] = last] /\ last' = t /\ succ' = succ /\ waiting' = waiting
      /\ pcQueue[t] = "idle" /\ succ[t] = Null /\ waiting[t]
      /\ last = IF ln = <<>> THEN Null ELSE ln[Len(ln)]
  <2>1. ln # <<>> => Len(ln) \in 1 .. Len(ln)
    BY <1>1
  <2>2. last = IF ln = <<>> THEN Null ELSE ln[Len(ln)]
    BY DEF ListIs, QueueIs
  <2>3. ln = <<>> <=> last = Null
    BY <1>1, <2>1, <2>2
  <2> QED
    BY <2>2, <2>3 DEF Queue!Acquire
<1>4. QueueIs(new)'
  BY SMTT(60), <1>1, <1>2, <1>3 DEF ListIs, QueueIs
<1>5. FirstIsServed(new)'
  BY <1>1, <1>2, <1>3 DEF ListIs, QueueIs, FirstIsServed
<1>6. OthersWait(new)'
  BY <1>1, <1>2, <1>3 DEF ListIs, QueueIs, OthersWait
<1>7. NodesAreLinked(new)'
  BY <1>1, <1>2, <1>3 DEF ListIs, QueueIs, NodesAreLinked
<1> QED
  BY <1>4, <1>5, <1>6, <1>7 DEF ListIs

\* Nobody enters or leaves the list.
LEMMA SameList ==
    ASSUME QueueInv, NEW t \in Lockers, NEW ln, ListIs(ln),
           Queue!Link(t) \/ Queue!Served(t) \/ Queue!ReleaseFails(t)
    PROVE  ListIs(ln)'
<1> USE NullIsNobody DEF QueueInv, Queue!TypeOK, Queue!Goto
<1>1. PICK k \in 1 .. Len(ln) : ln[k] = t
  BY DEF ListIs, QueueIs, Queue!Link, Queue!Served, Queue!ReleaseFails
<1>2. ln \in Seq(Lockers) /\ Len(ln) \in Nat /\ \A i \in 1 .. Len(ln) : ln[i] \in Lockers
  BY DEF ListIs, QueueIs
<1> USE DEF ListIs, QueueIs, FirstIsServed, OthersWait, NodesAreLinked
<1>3. CASE Queue!Link(t)
  <2>1. k \in 2 .. Len(ln) /\ prev[t] = ln[k - 1]
    BY <1>1, <1>2, <1>3 DEF Queue!Link
  <2>2. /\ pcQueue' = [pcQueue EXCEPT ![t] = "spin"] /\ succ' = [succ EXCEPT ![ln[k - 1]] = t]
        /\ UNCHANGED <<last, waiting, prev>>
    BY <1>3, <2>1 DEF Queue!Link
  <2>3. QueueIs(ln)' /\ FirstIsServed(ln)' /\ OthersWait(ln)'
    BY <1>1, <1>2, <2>1, <2>2
  <2>4. NodesAreLinked(ln)'
    BY SMTT(60), <1>1, <1>2, <2>1, <2>2
  <2> QED
    BY <2>3, <2>4
<1>4. CASE Queue!Served(t)
  BY <1>1, <1>2, <1>4 DEF Queue!Served
<1>5. CASE Queue!ReleaseFails(t)
  BY <1>1, <1>2, <1>5 DEF Queue!ReleaseFails
<1> QED
  BY <1>3, <1>4, <1>5

\* The holder leaves, and is alone.
LEMMA ReleaseList ==
    ASSUME QueueInv, NEW t \in Lockers, Queue!ReleaseLast(t), NEW ln, ListIs(ln)
    PROVE  ln = <<t>> /\ ListIs(<<>>)'
<1> USE NullIsNobody DEF QueueInv, Queue!TypeOK, Queue!Goto
<1>1. PICK k \in 1 .. Len(ln) : ln[k] = t
  BY DEF ListIs, QueueIs, Queue!ReleaseLast
<1>2. ln \in Seq(Lockers) /\ Len(ln) \in Nat /\ \A i \in 1 .. Len(ln) : ln[i] \in Lockers
  BY DEF ListIs, QueueIs
<1>3. k = 1 /\ Len(ln) = 1
  <2>1. pcQueue[t] = "inside" /\ last = t
    BY DEF Queue!ReleaseLast
  <2>2. k = 1
    BY <1>1, <1>2, <2>1 DEF ListIs, OthersWait
  <2>3. Len(ln) \in 1 .. Len(ln) /\ ln # <<>>
    BY <1>1, <1>2
  <2>4. ln[Len(ln)] = ln[k]
    BY <2>1, <2>3, <1>1 DEF ListIs, QueueIs
  <2> QED
    BY <2>2, <2>3, <2>4, <1>1 DEF ListIs, QueueIs
<1>4. ln = <<t>>
  BY <1>1, <1>2, <1>3
<1>5. \A u \in Lockers : pcQueue'[u] = "idle"
  BY <1>1, <1>3 DEF ListIs, QueueIs, Queue!ReleaseLast, Queue!Destroy
<1>6. ListIs(<<>>)'
  BY <1>5 DEF ListIs, QueueIs, FirstIsServed, OthersWait, NodesAreLinked, Queue!ReleaseLast
<1> QED
  BY <1>4, <1>6

\* The holder leaves, and the second is the first.
LEMMA PassList ==
    ASSUME QueueInv, NEW t \in Lockers, Queue!PassOn(t), NEW ln, ListIs(ln),
           NEW new, new = Tail(ln)
    PROVE  ln # <<>> /\ ln[1] = t /\ ListIs(new)'
<1> USE NullIsNobody DEF QueueInv, Queue!TypeOK, Queue!Goto
<1>1. PICK k \in 1 .. Len(ln) : ln[k] = t
  BY DEF ListIs, QueueIs, Queue!PassOn
<1>2. ln \in Seq(Lockers) /\ Len(ln) \in Nat /\ \A i \in 1 .. Len(ln) : ln[i] \in Lockers
  BY DEF ListIs, QueueIs
<1>3. k = 1 /\ Len(ln) >= 2 /\ pcQueue[ln[2]] = "spin" /\ succ[t] = ln[2] /\ ln[2] # t
  BY <1>1, <1>2 DEF ListIs, QueueIs, FirstIsServed, OthersWait, NodesAreLinked, Queue!PassOn
<1>4. /\ new \in Seq(Lockers) /\ Len(new) = Len(ln) - 1 /\ new # <<>>
      /\ \A i \in 1 .. Len(ln) - 1 : new[i] = ln[i + 1]
  <2>1. ln # <<>>
    BY <1>2, <1>3
  <2>2. /\ new \in Seq(Lockers) /\ Len(new) = Len(ln) - 1
        /\ \A i \in 1 .. Len(ln) - 1 : new[i] = ln[i + 1]
    BY <1>2, <2>1, Shortened
  <2> QED
    BY ONLY <2>2, <1>2, <1>3
<1>5. /\ pcQueue' = [pcQueue EXCEPT ![t] = "idle"] /\ last' = last
      /\ waiting' = [waiting EXCEPT ![ln[2]] = FALSE, ![t] = TRUE]
      /\ succ' = [succ EXCEPT ![t] = Null] /\ prev' = [prev EXCEPT ![t] = Null]
  BY <1>3 DEF Queue!PassOn, Queue!Destroy
<1>6. \A i \in 1 .. Len(ln) : i # 1 => ln[i] # t
  BY <1>1, <1>3 DEF ListIs, QueueIs
<1>7. QueueIs(new)'
  <2>1. \A i, j \in 1 .. Len(new) : new[i] = new[j] => i = j
    BY <1>2, <1>4 DEF ListIs, QueueIs
  <2>2. ASSUME NEW u \in Lockers
        PROVE  pcQueue'[u] # "idle" <=> \E i \in 1 .. Len(new) : new[i] = u
    <3>1. pcQueue[u] # "idle" <=> \E i \in 1 .. Len(ln) : ln[i] = u
      BY DEF ListIs, QueueIs
    <3>2. (\E i \in 1 .. Len(new) : new[i] = u) <=> \E i \in 2 .. Len(ln) : ln[i] = u
      <4>1. \A i \in 1 .. Len(new) : i + 1 \in 2 .. Len(ln) /\ new[i] = ln[i + 1]
        BY <1>2, <1>4
      <4>2. \A i \in 2 .. Len(ln) : i - 1 \in 1 .. Len(new) /\ new[i - 1] = ln[i]
        BY <1>2, <1>4
      <4> QED
        BY ONLY <4>1, <4>2
    <3>3. CASE u = t
      BY <3>2, <3>3, <1>2, <1>5, <1>6
    <3>4. CASE u # t
      BY <3>1, <3>2, <3>4, <1>1, <1>2, <1>3, <1>5
    <3> QED
      BY <3>3, <3>4
  <2>3. new[Len(new)] = ln[Len(ln)] /\ ln # <<>>
    BY <1>2, <1>3, <1>4
  <2> QED
    BY <2>1, <2>2, <2>3, <1>4, <1>5 DEF ListIs, QueueIs
<1>8. FirstIsServed(new)'
  BY <1>1, <1>2, <1>3, <1>4, <1>5, <1>6 DEF FirstIsServed
<1>9. OthersWait(new)'
  <2>1. \A i \in 2 .. Len(new) : new[i] # ln[2] /\ new[i] # t
    BY <1>2, <1>3, <1>4, <1>6 DEF ListIs, QueueIs
  <2> QED
    BY <2>1, <1>2, <1>3, <1>4, <1>5 DEF ListIs, OthersWait
<1>10. NodesAreLinked(new)'
  BY <1>2, <1>3, <1>4, <1>5, <1>6 DEF ListIs, NodesAreLinked
<1> QED
  BY <1>1, <1>3, <1>7, <1>8, <1>9, <1>10 DEF ListIs

LEMMA QueueNext == QueueInv /\ [Queue!Next]_(Queue!vars) => QueueInv'
<1> SUFFICES ASSUME QueueInv, [Queue!Next]_(Queue!vars) PROVE (\E ln : ListIs(ln))'
  BY QueueTypes DEF QueueInv
<1>1. PICK ln : ListIs(ln)
  BY DEF QueueInv
<1>2. ASSUME NEW t \in Lockers, Queue!Acquire(t) PROVE (\E z : ListIs(z))'
  BY <1>1, <1>2, AcquireList
<1>3. ASSUME NEW t \in Lockers, Queue!Link(t) \/ Queue!Served(t) \/ Queue!ReleaseFails(t)
      PROVE (\E z : ListIs(z))'
  BY <1>1, <1>3, SameList
<1>4. ASSUME NEW t \in Lockers, Queue!ReleaseLast(t) PROVE (\E z : ListIs(z))'
  BY <1>1, <1>4, ReleaseList
<1>5. ASSUME NEW t \in Lockers, Queue!PassOn(t) PROVE (\E z : ListIs(z))'
  BY <1>1, <1>5, PassList
<1>6. CASE UNCHANGED Queue!vars
  BY <1>1, <1>6 DEF Queue!vars, ListIs, QueueIs, FirstIsServed, OthersWait, NodesAreLinked
<1> QED
  BY <1>2, <1>3, <1>4, <1>5, <1>6 DEF Queue!Next, Queue!Step

LEMMA QueueAlways == Spec => []QueueInv
<1>1. Init => QueueInv
  BY QueueInit DEF Init
<1> QED
  BY <1>1, QueueNext, Moves, PTL DEF Spec

\* A thread stores to another's node only while the guard it belongs to lives
\* (QueueSpinLock::Acquire, Release).
THEOREM GuardsAreAlive == Spec => []NodesAlive
<1>1. QueueInv => NodesAlive
  <2> SUFFICES ASSUME QueueInv, NEW t \in Lockers
               PROVE  /\ pcQueue[t] = "link" => pcQueue[prev[t]] # "idle" /\ succ[prev[t]] = Null
                      /\ pcQueue[t] = "await" /\ succ[t] # Null =>
                            pcQueue[succ[t]] = "spin" /\ prev[succ[t]] = t /\ waiting[succ[t]]
    BY DEF NodesAlive, Queue!NodesAlive
  <2>1. PICK ln : ListIs(ln)
    BY DEF QueueInv
  <2>2. ln \in Seq(Lockers) /\ Len(ln) \in Nat /\ \A i \in 1 .. Len(ln) : ln[i] \in Lockers
    BY <2>1 DEF ListIs, QueueIs
  <2>3. pcQueue[t] # "idle" => \E k \in 1 .. Len(ln) : ln[k] = t
    BY <2>1 DEF ListIs, QueueIs
  <2>4. CASE pcQueue[t] = "link"
    <3>1. PICK k \in 1 .. Len(ln) : ln[k] = t
      BY <2>3, <2>4
    <3>2. k \in 2 .. Len(ln) /\ prev[t] = ln[k - 1]
      BY <2>1, <2>2, <2>4, <3>1 DEF ListIs, FirstIsServed, OthersWait
    <3>3. k - 1 \in 1 .. Len(ln) /\ k - 1 + 1 = k
      BY <3>2, <2>2
    <3>4. succ[ln[k - 1]] = Null
      BY <2>1, <2>4, <3>1, <3>3 DEF ListIs, NodesAreLinked
    <3> QED
      BY <2>1, <2>2, <2>4, <3>2, <3>3, <3>4 DEF ListIs, QueueIs
  <2>5. CASE pcQueue[t] = "await" /\ succ[t] # Null
    <3>1. PICK k \in 1 .. Len(ln) : ln[k] = t
      BY <2>3, <2>5
    <3>2. k = 1
      BY <2>1, <2>2, <2>5, <3>1 DEF ListIs, OthersWait
    <3>3. 1 < Len(ln) /\ pcQueue[ln[2]] = "spin" /\ succ[t] = ln[2]
      BY <2>1, <2>5, <3>1, <3>2 DEF ListIs, NodesAreLinked
    <3> QED
      BY <2>1, <2>2, <2>5, <3>1, <3>2, <3>3 DEF ListIs, OthersWait
  <2> QED
    BY <2>4, <2>5
<1> QED
  BY <1>1, QueueAlways, PTL

-----------------------------------------------------------------------------
(* The queued locks are fair *)

\* Line is the list, which end_ and prev determine.
LEMMA LineIsList ==
    ASSUME QueueInv, NEW ln, ListIs(ln)
    PROVE  Queue!Line = ln
<1> DEFINE Q == Queue!Queued
           n == Cardinality(Q)
           Good(s) == /\ Queue!Queued # {} => s[Len(s)] = last
                      /\ \A i \in 2 .. Len(s) : prev[s[i]] = s[i - 1]
<1>1. /\ ln \in Seq(Lockers) /\ Len(ln) \in Nat
      /\ \A i \in 1 .. Len(ln) : ln[i] \in Lockers
      /\ \A i, j \in 1 .. Len(ln) : ln[i] = ln[j] => i = j
      /\ \A t \in Lockers : pcQueue[t] # "idle" <=> \E i \in 1 .. Len(ln) : ln[i] = t
      /\ last = IF ln = <<>> THEN Null ELSE ln[Len(ln)]
  BY DEF ListIs, QueueIs
<1>2. /\ \A i \in 1 .. Len(ln) : ln[i] \in Q
      /\ \A t \in Q : \E i \in 1 .. Len(ln) : ln[i] = t
  BY <1>1 DEF Queue!Queued
<1>3. n = Len(ln)
  <2>1. ln \in [1 .. Len(ln) -> Q]
    <3>1. \A T : ln \in Seq(T) => ln = [i \in 1 .. Len(ln) |-> ln[i]]
      OBVIOUS
    <3> HIDE DEF Q
    <3> QED
      BY <1>1, <1>2, <3>1
  <2>2. PICK m \in Nat : m = Len(ln)
    BY <1>1
  <2>3. ln \in Bijection(1 .. Len(ln), Q)
    <3> HIDE DEF Q
    <3> QED
      BY <1>1, <1>2, <2>1 DEF Bijection, Injection, Surjection, IsInjective
  <2>4. IsFiniteSet(1 .. m) /\ Cardinality(1 .. m) = m
    BY ONLY m \in Nat, FS_Interval
  <2> HIDE DEF Q
  <2> QED
    BY <2>2, <2>3, <2>4, FS_Bijection DEF ExistsBijection
<1>4. Queue!Line = CHOOSE s \in [1 .. n -> Q] : Good(s)
  BY SameCardinality DEF Queue!Line
<1>5. ln \in [1 .. n -> Q] /\ Good(ln)
  <2>1. \A T : ln \in Seq(T) => ln = [i \in 1 .. Len(ln) |-> ln[i]]
    OBVIOUS
  <2>2. ln \in [1 .. n -> Q]
    <3> HIDE DEF Q, n
    <3> QED
      BY <1>1, <1>2, <1>3, <2>1
  <2>3. Q # {} => ln # <<>>
    BY <1>1, <1>2
  <2>4. \A i \in 2 .. Len(ln) : prev[ln[i]] = ln[i - 1]
    BY DEF ListIs, OthersWait
  <2> QED
    BY <2>2, <2>3, <2>4, <1>1
<1>6. ASSUME NEW s \in [1 .. n -> Q], Good(s) PROVE s = ln
  <2>1. s \in Seq(Q) /\ Len(s) = n /\ n \in Nat
    <3>1. n \in Nat
      BY <1>1, <1>3
    <3> HIDE DEF n, Q
    <3> QED
      BY <3>1
  <2>2. n # 0 => Q # {}
    <3> HIDE DEF n, Q
    <3>1. n # 0 => 1 \in 1 .. Len(ln)
      BY <1>1, <1>3
    <3> QED
      BY <1>2, <3>1
  <2>3. n # 0 => s[n] = ln[n] /\ ln # <<>>
    BY <1>1, <1>3, <1>6, <2>1, <2>2
  <2>4. \A i \in 2 .. n : prev[s[i]] = s[i - 1] /\ prev[ln[i]] = ln[i - 1]
    BY <1>3, <1>6, <2>1 DEF ListIs, OthersWait
  <2> HIDE DEF n, Q
  <2> DEFINE Bad == {k \in 0 .. n - 1 : s[n - k] # ln[n - k]}
  <2>5. Bad = {}
    <3> SUFFICES ASSUME Bad # {} PROVE FALSE
      OBVIOUS
    <3>1. Bad \subseteq Nat
      BY <2>1
    <3>2. PICK k \in Bad : \A y \in Bad : k <= y
      <4> HIDE DEF Bad
      <4> QED
        BY <3>1, Least
    <3>3. k \in 0 .. n - 1 /\ s[n - k] # ln[n - k]
      OBVIOUS
    <3>4. k # 0
      BY <2>1, <2>3, <3>3
    <3>5. k - 1 \in 0 .. n - 1 /\ ~ (k <= k - 1)
      BY <2>1, <3>3, <3>4
    <3>6. k - 1 \notin Bad
      <4> HIDE DEF Bad
      <4> QED
        BY <3>2, <3>5
    <3>7. s[n - (k - 1)] = ln[n - (k - 1)]
      BY <3>5, <3>6
    <3>8. PICK i \in 2 .. n : i = n - (k - 1) /\ i - 1 = n - k
      BY <2>1, <3>3, <3>4
    <3> QED
      BY ONLY <2>4, <3>3, <3>7, <3>8
  <2>6. \A i \in 1 .. n : s[i] = ln[i]
    <3> TAKE i \in 1 .. n
    <3>1. n - i \in 0 .. n - 1 /\ n - (n - i) = i
      BY <2>1
    <3> QED
      BY <2>5, <3>1
  <2>7. Len(ln) = n /\ ln \in Seq(Lockers)
    BY <1>1, <1>3
  <2> QED
    BY ONLY <2>1, <2>6, <2>7, <1>5, <1>6
<1> HIDE DEF Q, n, Good
<1> QED
  BY <1>4, <1>5, <1>6

\* Who holds the lock is the first, when it is inside.
LEMMA HolderIsFirst ==
    ASSUME QueueInv, NEW ln, ListIs(ln)
    PROVE  Queue!Holders = IF ln # <<>> /\ pcQueue[ln[1]] # "spin" THEN {ln[1]} ELSE {}
<1>1. /\ ln \in Seq(Lockers) /\ Len(ln) \in Nat
      /\ \A i \in 1 .. Len(ln) : ln[i] \in Lockers
      /\ \A t \in Lockers : pcQueue[t] # "idle" <=> \E i \in 1 .. Len(ln) : ln[i] = t
  BY DEF ListIs, QueueIs
<1>2. \A i \in 2 .. Len(ln) : pcQueue[ln[i]] \notin {"inside", "await"}
  BY DEF ListIs, OthersWait
<1>3. ASSUME NEW t \in Lockers, pcQueue[t] \in {"inside", "await"} PROVE ln # <<>> /\ t = ln[1]
  <2>1. PICK i \in 1 .. Len(ln) : ln[i] = t
    BY <1>1, <1>3
  <2> QED
    BY <1>1, <1>2, <1>3, <2>1
<1>4. ln # <<>> => 1 \in 1 .. Len(ln)
  BY <1>1
<1>5. ln # <<>> => pcQueue[ln[1]] \in {"inside", "await", "spin"}
  BY DEF ListIs, FirstIsServed
<1> QED
  BY <1>1, <1>3, <1>4, <1>5 DEF Queue!Holders

\* Lines and holders, in the next state.
LEMMA ListShows ==
    ASSUME QueueInv, NEW ln, ListIs(ln)
    PROVE  /\ Queue!Line = ln
           /\ Queue!Holders = IF ln # <<>> /\ pcQueue[ln[1]] # "spin" THEN {ln[1]} ELSE {}
  BY LineIsList, HolderIsFirst

Shows(ln) == /\ Queue!Line = ln
             /\ Queue!Holders = IF ln # <<>> /\ pcQueue[ln[1]] # "spin" THEN {ln[1]} ELSE {}

ListsShow == \A ln : ListIs(ln) => Shows(ln)

LEMMA AlwaysShows == QueueInv => ListsShow
  BY ListShows DEF Shows, ListsShow

LEMMA QueueInitRefines == Queue!Init => Queue!Fifo!Init
<1> SUFFICES ASSUME Queue!Init PROVE Queue!Fifo!Init
  OBVIOUS
<1>1. PICK ln : ln = <<>>
  OBVIOUS
<1>2. ListIs(ln)
  BY <1>1 DEF Queue!Init, ListIs, QueueIs, FirstIsServed, OthersWait, NodesAreLinked
<1>3. Shows(ln)
  BY <1>2, QueueInit, AlwaysShows DEF ListsShow
<1> QED
  BY <1>1, <1>3 DEF Shows, Queue!Fifo!Init

LEMMA QueueNextRefines ==
    QueueInv /\ QueueInv' /\ [Queue!Next]_(Queue!vars) => [Queue!Fifo!Next]_(Queue!Fifo!vars)
<1> SUFFICES ASSUME QueueInv, QueueInv', [Queue!Next]_(Queue!vars)
             PROVE  [Queue!Fifo!Next]_(Queue!Fifo!vars)
  OBVIOUS
<1>1. PICK ln : ListIs(ln)
  BY DEF QueueInv
<1>2. Shows(ln)
  BY <1>1, AlwaysShows DEF ListsShow
<1>3. \A z : ListIs(z)' => Shows(z)'
  <2>1. QueueInv' => ListsShow'
    BY AlwaysShows, PTL
  <2> QED
    BY <2>1 DEF ListsShow
<1>4. /\ ln \in Seq(Lockers) /\ Len(ln) \in Nat
      /\ \A i \in 1 .. Len(ln) : ln[i] \in Lockers
      /\ pcQueue \in [Lockers -> {"idle", "link", "spin", "inside", "await"}]
      /\ ln # <<>> => 1 \in 1 .. Len(ln)
  BY <1>1 DEF ListIs, QueueIs, QueueInv, Queue!TypeOK
<1>5. ASSUME NEW t \in Lockers, Queue!Acquire(t) PROVE Queue!Fifo!Next
  <2>1. PICK new : new = Append(ln, t)
    OBVIOUS
  <2>2. Shows(new)'
    BY <1>1, <1>3, <1>5, <2>1, AcquireList
  <2>3. ln = <<>> <=> last = Null
    BY <1>1, <1>4, NullIsNobody DEF ListIs, QueueIs
  <2>4. pcQueue' = [pcQueue EXCEPT ![t] = IF ln = <<>> THEN "inside" ELSE "link"] /\ pcQueue[t] = "idle"
    BY <1>5, <2>3 DEF Queue!Acquire, Queue!Goto
  <2>5. new # <<>> /\ (ln # <<>> => new[1] = ln[1]) /\ (ln = <<>> => new = <<t>>)
    <3>1. /\ new \in Seq(Lockers) /\ Len(new) = Len(ln) + 1
          /\ \A i \in 1 .. Len(ln) : new[i] = ln[i]
          /\ new[Len(ln) + 1] = t
      BY <1>4, <2>1, Appended
    <3>2. ln = <<>> => new = <<t>>
      BY <2>1
    <3> QED
      BY <3>1, <3>2, <1>4
  <2>6. CASE ln = <<>>
    <3>1. Queue!Fifo!Try(t)
      BY <1>2, <1>4, <2>2, <2>4, <2>5, <2>6 DEF Shows, Queue!Fifo!Try
    <3> QED
      BY <3>1 DEF Queue!Fifo!Next
  <2>7. CASE ln # <<>>
    <3>1. ln[1] # t
      BY <1>1, <1>4, <2>4, <2>7 DEF ListIs, QueueIs
    <3>2. pcQueue'[ln[1]] = pcQueue[ln[1]]
      BY <1>4, <2>4, <3>1
    <3>3. Queue!Holders' = Queue!Holders
      BY <1>2, <2>2, <2>5, <2>7, <3>2 DEF Shows
    <3>4. Queue!Fifo!Ask(t)
      BY <1>2, <2>1, <2>2, <3>3 DEF Shows, Queue!Fifo!Ask
    <3> QED
      BY <3>4 DEF Queue!Fifo!Next
  <2> QED
    BY <2>6, <2>7
<1>6. ASSUME NEW t \in Lockers, Queue!Link(t) \/ Queue!ReleaseFails(t) PROVE UNCHANGED Queue!Fifo!vars
  <2>1. Shows(ln)'
    BY <1>1, <1>3, <1>6, SameList
  <2>2. ASSUME ln # <<>> PROVE pcQueue'[ln[1]] = "spin" <=> pcQueue[ln[1]] = "spin"
    <3>1. pcQueue[ln[1]] \in {"inside", "await", "spin"}
      BY <1>1, <2>2 DEF ListIs, FirstIsServed
    <3> QED
      BY <1>4, <1>6, <2>2, <3>1 DEF Queue!Link, Queue!ReleaseFails, Queue!Goto
  <2> QED
    BY <1>2, <2>1, <2>2 DEF Shows, Queue!Fifo!vars
<1>7. ASSUME NEW t \in Lockers, Queue!Served(t) PROVE Queue!Fifo!Next
  <2>1. Shows(ln)'
    BY <1>1, <1>3, <1>7, SameList
  <2>2. pcQueue[t] = "spin" /\ ~ waiting[t] /\ pcQueue'[t] = "inside"
    BY <1>4, <1>7 DEF Queue!Served, Queue!Goto
  <2>3. PICK k \in 1 .. Len(ln) : ln[k] = t
    BY <1>1, <2>2 DEF ListIs, QueueIs
  <2>4. k = 1 /\ ln # <<>>
    BY <1>1, <1>4, <2>2, <2>3 DEF ListIs, OthersWait
  <2>5. Queue!Fifo!Grant
    BY <1>2, <2>1, <2>2, <2>3, <2>4, <1>4 DEF Shows, Queue!Fifo!Grant
  <2> QED
    BY <2>5 DEF Queue!Fifo!Next
<1>8. ASSUME NEW t \in Lockers, Queue!ReleaseLast(t) PROVE Queue!Fifo!Next
  <2>1. ln = <<t>> /\ ListIs(<<>>)'
    BY <1>1, <1>8, ReleaseList
  <2>2. PICK new : new = <<>>
    OBVIOUS
  <2>3. Shows(new)'
    BY <1>3, <2>1, <2>2
  <2>4. pcQueue[t] = "inside"
    BY <1>8 DEF Queue!ReleaseLast
  <2>5. Queue!Fifo!Leave(t)
    BY <1>2, <2>1, <2>2, <2>3, <2>4 DEF Shows, Queue!Fifo!Leave
  <2> QED
    BY <2>5 DEF Queue!Fifo!Next
<1>9. ASSUME NEW t \in Lockers, Queue!PassOn(t) PROVE Queue!Fifo!Next
  <2>1. PICK new : new = Tail(ln)
    OBVIOUS
  <2>2. ln # <<>> /\ ln[1] = t /\ ListIs(new)'
    BY <1>1, <1>9, <2>1, PassList
  <2>3. Shows(new)'
    BY <1>3, <2>2
  <2>4. pcQueue[t] = "await" /\ pcQueue' = [pcQueue EXCEPT ![t] = "idle"]
    BY <1>9 DEF Queue!PassOn, Queue!Destroy, Queue!Goto
  <2>5. new # <<>> => new[1] = ln[2] /\ 2 \in 2 .. Len(ln)
    BY <1>4, <2>1, <2>2
  <2>6. new # <<>> => pcQueue'[new[1]] = "spin"
    <3>1. CASE new # <<>>
      <4>1. ListIs(new)' /\ new[1] \in Lockers /\ ln[2] # ln[1]
        BY <1>1, <1>4, <2>2, <2>5, <3>1 DEF ListIs, QueueIs
      <4>2. pcQueue[ln[2]] \in {"link", "spin"}
        BY <1>1, <2>5, <3>1 DEF ListIs, OthersWait
      <4>3. pcQueue'[ln[2]] = pcQueue[ln[2]]
        BY <1>4, <2>2, <2>4, <2>5, <3>1, <4>1
      <4>4. pcQueue'[new[1]] \in {"inside", "await", "spin"}
        BY <4>1, <3>1 DEF ListIs, FirstIsServed
      <4> QED
        BY <2>5, <3>1, <4>2, <4>3, <4>4
    <3> QED
      BY <3>1
  <2>7. Queue!Fifo!Leave(t)
    BY <1>2, <2>1, <2>2, <2>3, <2>4, <2>6 DEF Shows, Queue!Fifo!Leave
  <2> QED
    BY <2>7 DEF Queue!Fifo!Next
<1>10. CASE UNCHANGED Queue!vars
  <2>1. ListIs(ln)' /\ pcQueue' = pcQueue
    BY <1>1, <1>10 DEF Queue!vars, ListIs, QueueIs, FirstIsServed, OthersWait, NodesAreLinked
  <2>2. Shows(ln)'
    BY <1>3, <2>1
  <2> QED
    BY <1>2, <2>1, <2>2 DEF Shows, Queue!Fifo!vars
<1> QED
  BY <1>5, <1>6, <1>7, <1>8, <1>9, <1>10 DEF Queue!Next, Queue!Step

LEMMA QueueLockIsFifo == Spec => Queue!ImplementsFifoLock
<1>1. Init => Queue!Fifo!Init
  BY QueueInitRefines DEF Init
<1> QED
  BY <1>1, QueueAlways, QueueNextRefines, Moves, PTL DEF Spec, Queue!ImplementsFifoLock, Queue!Fifo!Spec

\* The ticket lock, of which TicketLock_proofs says the same.
TicketProofs == INSTANCE TicketLock_proofs WITH Threads <- Lockers, pc <- pcTicket

LEMMA TicketBehaves == Spec => TicketProofs!Spec
<1>1. Init => TicketProofs!Init
  BY DEF Init, Ticket!Init, TicketProofs!Init
<1>2. [Ticket!Next]_(Ticket!vars) => [TicketProofs!Next]_(TicketProofs!vars)
  BY DEF Ticket!vars, TicketProofs!vars, Ticket!Next, TicketProofs!Next, Ticket!Step,
         TicketProofs!Step, Ticket!Lock, TicketProofs!Lock, Ticket!Served, TicketProofs!Served,
         Ticket!TryLock, TicketProofs!TryLock, Ticket!LoadNext, TicketProofs!LoadNext,
         Ticket!TryTicket, TicketProofs!TryTicket, Ticket!TryFails, TicketProofs!TryFails,
         Ticket!Unlock, TicketProofs!Unlock, Ticket!Goto, TicketProofs!Goto, Ticket!Forget,
         TicketProofs!Forget
<1> QED
  BY <1>1, <1>2, Moves, PTL DEF Spec, TicketProofs!Spec

LEMMA TicketLockIsFifo == Spec => Ticket!ImplementsFifoLock
<1>1. TicketProofs!Fifo!Init => Ticket!Fifo!Init
  BY SMTT(60) DEF TicketProofs!Fifo!Init, Ticket!Fifo!Init, Ticket!Line, TicketProofs!Line,
         Ticket!Queued, TicketProofs!Queued
<1>2. [TicketProofs!Fifo!Next]_(TicketProofs!Fifo!vars) => [Ticket!Fifo!Next]_(Ticket!Fifo!vars)
  BY DEF TicketProofs!Fifo!Next, Ticket!Fifo!Next, TicketProofs!Fifo!vars, Ticket!Fifo!vars,
         TicketProofs!Fifo!Ask, Ticket!Fifo!Ask, TicketProofs!Fifo!Grant, Ticket!Fifo!Grant,
         TicketProofs!Fifo!Try, Ticket!Fifo!Try, TicketProofs!Fifo!Leave, Ticket!Fifo!Leave,
         Ticket!Line, TicketProofs!Line, Ticket!Queued, TicketProofs!Queued
<1> QED
  BY <1>1, <1>2, TicketBehaves, TicketProofs!TicketLockIsFifo, PTL
  DEF Ticket!ImplementsFifoLock, TicketProofs!ImplementsFifoLock, Ticket!Fifo!Spec,
      TicketProofs!Fifo!Spec

\* Both queued locks let threads in one at a time, in the order of their tickets
\* or of their exchanges of end_.
THEOREM QueuedLocksAreFair == Spec => QueuedLocksAreFifo
  BY TicketLockIsFifo, QueueLockIsFifo, PTL DEF QueuedLocksAreFifo

-----------------------------------------------------------------------------
(* The futex mutex and the spin lock *)

\* The mutex is taken while, and only while, a thread is inside.
MutexInv ==
    /\ Mutex!TypeOK /\ Mutex!MutualExclusion /\ Mutex!NoSleeperForgotten
    /\ access = 1 <=> \E t \in Lockers : pcMutex[t] = "inside"

LEMMA MutexNext == MutexInv /\ [Mutex!Next]_(Mutex!vars) => MutexInv'
<1> SUFFICES ASSUME MutexInv, [Mutex!Next]_(Mutex!vars) PROVE MutexInv'
  OBVIOUS
<1> USE DEF MutexInv, Mutex!TypeOK, Mutex!MutualExclusion, Mutex!NoSleeperForgotten, Mutex!Goto
<1>1. ASSUME NEW t \in Lockers, Mutex!Lock(t) PROVE MutexInv'
  BY <1>1 DEF Mutex!Lock
<1>2. ASSUME NEW t \in Lockers, Mutex!Exchange(t) PROVE MutexInv'
  BY <1>2 DEF Mutex!Exchange
<1>3. ASSUME NEW t \in Lockers, Mutex!FutexWait(t) PROVE MutexInv'
  BY <1>3 DEF Mutex!FutexWait
<1>4. ASSUME NEW t \in Lockers, Mutex!SpuriousWakeUp(t) PROVE MutexInv'
  BY <1>4 DEF Mutex!SpuriousWakeUp
<1>5. ASSUME NEW t \in Lockers, Mutex!Unlock(t) PROVE MutexInv'
  BY <1>5 DEF Mutex!Unlock
<1>6. ASSUME NEW t \in Lockers, Mutex!NotifyOne(t) PROVE MutexInv'
  <2>1. CASE \A u \in Lockers : pcMutex[u] # "asleep"
    <3>1. pcMutex' = [pcMutex EXCEPT ![t] = "idle"] /\ UNCHANGED access
      BY <1>6, <2>1 DEF Mutex!NotifyOne
    <3> QED
      BY <1>6, <2>1, <3>1 DEF Mutex!NotifyOne
  <2>2. CASE \E u \in Lockers : pcMutex[u] = "asleep"
    <3>1. PICK u \in Lockers : /\ pcMutex[u] = "asleep"
                               /\ pcMutex' = [pcMutex EXCEPT ![t] = "idle", ![u] = "exchange"]
      BY <1>6, <2>2 DEF Mutex!NotifyOne
    <3>2. UNCHANGED access /\ pcMutex[t] = "notify" /\ pcMutex'[u] = "exchange"
      BY <1>6, <3>1 DEF Mutex!NotifyOne
    <3> QED
      BY <3>1, <3>2
  <2> QED
    BY <2>1, <2>2
<1>7. CASE UNCHANGED Mutex!vars
  BY <1>7 DEF Mutex!vars
<1> QED
  BY <1>1, <1>2, <1>3, <1>4, <1>5, <1>6, <1>7 DEF Mutex!Next, Mutex!Step

LEMMA MutexAlways == Spec => []MutexInv
<1>1. Init => MutexInv
  BY DEF Init, Mutex!Init, MutexInv, Mutex!TypeOK, Mutex!MutualExclusion, Mutex!NoSleeperForgotten
<1> QED
  BY <1>1, MutexNext, Moves, PTL DEF Spec

SpinInv ==
    /\ Spin!TypeOK /\ Spin!MutualExclusion
    /\ locked <=> \E t \in Lockers : pcSpin[t] = "inside"

LEMMA SpinNext == SpinInv /\ [Spin!Next]_(Spin!vars) => SpinInv'
<1> SUFFICES ASSUME SpinInv, [Spin!Next]_(Spin!vars) PROVE SpinInv'
  OBVIOUS
<1> USE DEF SpinInv, Spin!TypeOK, Spin!MutualExclusion, Spin!Goto
<1>1. ASSUME NEW t \in Lockers, Spin!Lock(t) \/ Spin!Test(t) PROVE SpinInv'
  BY <1>1 DEF Spin!Lock, Spin!Test
<1>2. ASSUME NEW t \in Lockers, Spin!Exchange(t) PROVE SpinInv'
  BY <1>2 DEF Spin!Exchange
<1>3. ASSUME NEW t \in Lockers, Spin!TryLock(t) PROVE SpinInv'
  BY <1>3 DEF Spin!TryLock
<1>4. ASSUME NEW t \in Lockers, Spin!Unlock(t) PROVE SpinInv'
  BY <1>4 DEF Spin!Unlock
<1>5. CASE UNCHANGED Spin!vars
  BY <1>5 DEF Spin!vars
<1> QED
  BY <1>1, <1>2, <1>3, <1>4, <1>5 DEF Spin!Next, Spin!Step

LEMMA SpinAlways == Spec => []SpinInv
<1>1. Init => SpinInv
  BY DEF Init, Spin!Init, SpinInv, Spin!TypeOK, Spin!MutualExclusion
<1> QED
  BY <1>1, SpinNext, Moves, PTL DEF Spec

-----------------------------------------------------------------------------
(* The dining philosophers: who has a fork is noted on it *)

Has(p) == CASE pcDining[p] = "second" -> {Dining!First(p)}
            [] pcDining[p] = "eat" -> {Dining!First(p), Dining!Second(p)}
            [] pcDining[p] = "release" -> {Dining!Second(p)}
            [] OTHER -> {}

DiningInv ==
    /\ fork \in [0 .. Seats - 1 -> 0 .. Seats]
    /\ pcDining \in [0 .. Seats - 1 -> {"think", "first", "second", "eat", "release"}]
    /\ \A p \in 0 .. Seats - 1 : /\ \A i \in Has(p) : fork[i] = p
                                 /\ pcDining[p] = "eat" => Dining!First(p) # Dining!Second(p)

\* Both forks are on the table, and they are the plates.
LEMMA ForksAreThere ==
    ASSUME NEW p \in 0 .. Seats - 1
    PROVE  /\ Dining!First(p) \in 0 .. Seats - 1 /\ Dining!Second(p) \in 0 .. Seats - 1
           /\ Dining!Plates(p) = {Dining!First(p), Dining!Second(p)}
<1>1. Dining!ToRight(p) \in 0 .. Seats - 1
  BY SyncAssumption DEF SyncAssumption, Dining!ToRight
<1> QED
  BY <1>1 DEF Dining!First, Dining!Second, Dining!Plates

LEMMA DiningNext == DiningInv /\ [Dining!Next]_(Dining!vars) => DiningInv'
<1> SUFFICES ASSUME DiningInv, [Dining!Next]_(Dining!vars) PROVE DiningInv'
  OBVIOUS
<1>0. Seats \in Nat /\ \A p \in 0 .. Seats - 1 : p # Seats
  BY SyncAssumption DEF SyncAssumption
<1> USE DEF DiningInv, Has
<1>1. ASSUME NEW p \in 0 .. Seats - 1, Dining!Hungry(p) PROVE DiningInv'
  BY <1>1 DEF Dining!Hungry
<1>2. ASSUME NEW p \in 0 .. Seats - 1, Dining!AcquireForks(p) PROVE DiningInv'
  <2> DEFINE a == Dining!First(p)  b == Dining!Second(p)
  <2>1. a \in 0 .. Seats - 1 /\ b \in 0 .. Seats - 1
    BY ForksAreThere
  <2> HIDE DEF a, b
  <2>2. CASE Dining!Acquire(p, a, "first", "second")
    <3>1. /\ pcDining[p] = "first" /\ fork[a] = Seats
          /\ fork' = [fork EXCEPT ![a] = p] /\ pcDining' = [pcDining EXCEPT ![p] = "second"]
      BY <2>2 DEF Dining!Acquire, Dining!Nobody
    <3>2. ASSUME NEW q \in 0 .. Seats - 1
          PROVE  /\ \A i \in Has(q)' : fork'[i] = q
                 /\ pcDining'[q] = "eat" => Dining!First(q) # Dining!Second(q)
      <4>1. Dining!First(q) \in 0 .. Seats - 1 /\ Dining!Second(q) \in 0 .. Seats - 1
        BY ForksAreThere
      <4> QED
        BY <1>0, <2>1, <3>1, <4>1 DEF a
    <3> QED
      BY <1>0, <2>1, <3>1, <3>2
  <2>3. CASE Dining!Acquire(p, b, "second", "eat")
    <3>1. /\ pcDining[p] = "second" /\ fork[b] = Seats
          /\ fork' = [fork EXCEPT ![b] = p] /\ pcDining' = [pcDining EXCEPT ![p] = "eat"]
      BY <2>3 DEF Dining!Acquire, Dining!Nobody
    <3>2. ASSUME NEW q \in 0 .. Seats - 1
          PROVE  /\ \A i \in Has(q)' : fork'[i] = q
                 /\ pcDining'[q] = "eat" => Dining!First(q) # Dining!Second(q)
      <4>1. Dining!First(q) \in 0 .. Seats - 1 /\ Dining!Second(q) \in 0 .. Seats - 1
        BY ForksAreThere
      <4> QED
        BY SMTT(60), <1>0, <2>1, <3>1, <4>1 DEF a, b
    <3> QED
      BY <1>0, <2>1, <3>1, <3>2
  <2> QED
    BY <1>2, <2>2, <2>3 DEF Dining!AcquireForks, a, b
<1>3. ASSUME NEW p \in 0 .. Seats - 1, Dining!ReleaseForks(p) PROVE DiningInv'
  <2> DEFINE a == Dining!First(p)  b == Dining!Second(p)
  <2>1. a \in 0 .. Seats - 1 /\ b \in 0 .. Seats - 1
    BY ForksAreThere
  <2> HIDE DEF a, b
  <2>2. CASE Dining!Release(p, a, "eat", "release")
    <3>1. /\ pcDining[p] = "eat" /\ fork[a] = p /\ a # b
          /\ fork' = [fork EXCEPT ![a] = Seats] /\ pcDining' = [pcDining EXCEPT ![p] = "release"]
      BY <2>2 DEF Dining!Release, Dining!Nobody, a, b
    <3>2. ASSUME NEW q \in 0 .. Seats - 1
          PROVE  /\ \A i \in Has(q)' : fork'[i] = q
                 /\ pcDining'[q] = "eat" => Dining!First(q) # Dining!Second(q)
      <4>1. Dining!First(q) \in 0 .. Seats - 1 /\ Dining!Second(q) \in 0 .. Seats - 1
        BY ForksAreThere
      <4> QED
        BY <1>0, <2>1, <3>1, <4>1 DEF a, b
    <3> QED
      BY <1>0, <2>1, <3>1, <3>2
  <2>3. CASE Dining!Release(p, b, "release", "think")
    <3>1. /\ pcDining[p] = "release" /\ fork[b] = p
          /\ fork' = [fork EXCEPT ![b] = Seats] /\ pcDining' = [pcDining EXCEPT ![p] = "think"]
      BY <2>3 DEF Dining!Release, Dining!Nobody, b
    <3>2. ASSUME NEW q \in 0 .. Seats - 1
          PROVE  /\ \A i \in Has(q)' : fork'[i] = q
                 /\ pcDining'[q] = "eat" => Dining!First(q) # Dining!Second(q)
      <4>1. Dining!First(q) \in 0 .. Seats - 1 /\ Dining!Second(q) \in 0 .. Seats - 1
        BY ForksAreThere
      <4> QED
        BY <1>0, <2>1, <3>1, <4>1 DEF b
    <3> QED
      BY <1>0, <2>1, <3>1, <3>2
  <2> QED
    BY <1>3, <2>2, <2>3 DEF Dining!ReleaseForks, a, b
<1>4. CASE UNCHANGED Dining!vars
  BY <1>4 DEF Dining!vars
<1> QED
  BY <1>1, <1>2, <1>3, <1>4 DEF Dining!Next, Dining!Step, Dining!Philosophers

LEMMA DiningAlways == Spec => [](DiningInv /\ Dining!PlatesAreExclusive)
<1>1. Init => DiningInv
  BY SyncAssumption
  DEF SyncAssumption, Init, Dining!Init, Dining!Philosophers, Dining!Nobody, DiningInv, Has
<1>2. DiningInv => Dining!PlatesAreExclusive
  <2> SUFFICES ASSUME DiningInv, NEW p \in 0 .. Seats - 1, NEW q \in 0 .. Seats - 1,
                      pcDining[p] = "eat", pcDining[q] = "eat", p # q
               PROVE  Dining!Plates(p) \cap Dining!Plates(q) = {}
    BY DEF Dining!PlatesAreExclusive, Dining!Philosophers
  <2>1. \A i \in Dining!Plates(p) : fork[i] = p
    BY ForksAreThere DEF DiningInv, Has
  <2>2. \A i \in Dining!Plates(q) : fork[i] = q
    BY ForksAreThere DEF DiningInv, Has
  <2> QED
    BY <2>1, <2>2
<1> QED
  BY <1>1, <1>2, DiningNext, Moves, PTL DEF Spec

-----------------------------------------------------------------------------
(* The object behind a mutex *)

\* Who has read the object has read it as it is.
GuardedInv ==
    /\ mutex \in Lockers \cup {Null}
    /\ at \in [Lockers -> {"out", "locked", "read", "written"}]
    /\ copy \in [Lockers -> SUBSET (Lockers \X Nat)] /\ object \in SUBSET (Lockers \X Nat)
    /\ round \in [Lockers -> Nat]
    /\ \A t \in Lockers : /\ at[t] # "out" <=> mutex = t
                          /\ at[t] = "read" => copy[t] = object
    /\ Guarded!NoUpdateLost

LEMMA GuardedNext == GuardedInv /\ [Guarded!Next]_(Guarded!vars) => GuardedInv'
<1> SUFFICES ASSUME GuardedInv, [Guarded!Next]_(Guarded!vars) PROVE GuardedInv'
  OBVIOUS
<1> USE NullIsNobody DEF GuardedInv, Guarded!NoUpdateLost, Guarded!Goto
<1>1. ASSUME NEW t \in Lockers, Guarded!Lock(t) PROVE GuardedInv'
  BY <1>1 DEF Guarded!Lock
<1>2. ASSUME NEW t \in Lockers, Guarded!Read(t) PROVE GuardedInv'
  BY <1>2 DEF Guarded!Read
<1>3. ASSUME NEW t \in Lockers, Guarded!Write(t) PROVE GuardedInv'
  <2>1. /\ object' = object \cup {<<t, round[t]>>}
        /\ round' = [round EXCEPT ![t] = @ + 1] /\ at' = [at EXCEPT ![t] = "written"]
        /\ UNCHANGED <<mutex, copy>> /\ at[t] = "read" /\ round[t] \in Nat
    BY <1>3 DEF Guarded!Write
  <2>2. \A u \in Lockers : u # t => at[u] = "out"
    BY <2>1
  <2>3. ASSUME NEW u \in Lockers, NEW r \in 0 .. round'[u] - 1 PROVE <<u, r>> \in object'
    <3>1. CASE u = t /\ r = round[t]
      BY <2>1, <3>1
    <3>2. CASE ~ (u = t /\ r = round[t])
      <4>1. r \in 0 .. round[u] - 1
        BY <2>1, <3>2
      <4> QED
        BY <2>1, <4>1
    <3> QED
      BY <3>1, <3>2
  <2>4. object' \in SUBSET (Lockers \X Nat)
    BY <2>1
  <2>5. Guarded!NoUpdateLost'
    BY <2>3
  <2> QED
    BY <2>1, <2>2, <2>4, <2>5
<1>4. ASSUME NEW t \in Lockers, Guarded!DestroyRef(t) PROVE GuardedInv'
  BY <1>4 DEF Guarded!DestroyRef
<1>5. CASE UNCHANGED Guarded!vars
  BY <1>5 DEF Guarded!vars
<1> QED
  BY <1>1, <1>2, <1>3, <1>4, <1>5 DEF Guarded!Next, Guarded!Step

LEMMA GuardedAlways == Spec => []GuardedInv
<1>1. Init => GuardedInv
  BY NullIsNobody DEF Init, Guarded!Init, GuardedInv, Guarded!NoUpdateLost
<1> QED
  BY <1>1, GuardedNext, Moves, PTL DEF Spec

-----------------------------------------------------------------------------
(* The condition variable *)

\* How many elements a set has, after a change of one.
LEMMA Counts ==
    ASSUME NEW A, IsFiniteSet(A)
    PROVE  /\ Cardinality(A) \in Nat
           /\ \A B : B \subseteq A => IsFiniteSet(B) /\ Cardinality(B) <= Cardinality(A)
           /\ \A x : x \notin A => /\ IsFiniteSet(A \cup {x})
                                   /\ Cardinality(A \cup {x}) = Cardinality(A) + 1
           /\ \A x : x \in A => /\ IsFiniteSet(A \ {x})
                                /\ Cardinality(A \ {x}) = Cardinality(A) - 1
  BY FS_CardinalityType, FS_Subset, FS_AddElement, FS_RemoveElement

LookingWaiters == {t \in Waiters : Cond!Looking(t)}
Adding == {t \in Notifiers : pcCond[t] = "notify"}
Notifying == {t \in Notifiers : pcCond[t] \in {"notify", "wake"}}
Counted == {t \in Notifiers : pcCond[t] \in {"wake", "end"}}

\* t has noticed the counter as it is, and will sleep or sleeps.
UpToDate(t) == pcCond[t] \in {"unlock", "wait", "asleep"} /\ noticed[t] = val

\* The counter counts the notifications, and a waiter has noticed one that was.
CounterCounts ==
    /\ val = Cardinality(Counted)
    /\ \A t \in Waiters : noticed[t] <= val

\* When a waiter has noticed the counter as it is, there was no token then:
\* those that are there belong to notifiers that have still to count.
FreshSleepers == (\E t \in Waiters : UpToDate(t)) => tokensCond <= Cardinality(Adding)

\* The other sleepers; see CondVar!NoLostToken.
StaleSleepers ==
    (\E t \in Waiters : pcCond[t] = "asleep") =>
        tokensCond <= Cardinality(LookingWaiters) + Cardinality(Notifying)

CondTypes ==
    /\ Cond!TypeOK
    /\ \A t \in Waiters : pcCond[t] \notin {"notify", "wake"}
    /\ \A t \in Notifiers : pcCond[t] \notin {"unlock", "wait", "asleep"}

CondInv == CondTypes /\ CounterCounts /\ FreshSleepers /\ StaleSleepers

LEMMA CondConstants ==
    /\ IsFiniteSet(Waiters) /\ IsFiniteSet(Notifiers) /\ Waiters \cap Notifiers = {}
    /\ Modulus \in Nat /\ Cardinality(Notifiers) \in Nat /\ Cardinality(Notifiers) < Modulus
    /\ Null \notin Waiters \cup Notifiers
    /\ Cond!Threads = Waiters \cup Notifiers
  BY SyncAssumption, FS_CardinalityType DEF SyncAssumption, Cond!Threads

\* The sets that are counted are finite.
LEMMA CondCounts ==
    /\ IsFiniteSet(LookingWaiters) /\ IsFiniteSet(Adding) /\ IsFiniteSet(Notifying)
    /\ IsFiniteSet(Counted)
    /\ Cardinality(LookingWaiters) \in Nat /\ Cardinality(Adding) \in Nat
    /\ Cardinality(Notifying) \in Nat
    /\ Cardinality(Counted) \in Nat /\ Cardinality(Counted) <= Cardinality(Notifiers)
    /\ Cardinality(Adding) <= Cardinality(Notifying)
<1>1. /\ LookingWaiters \subseteq Waiters /\ Notifying \subseteq Notifiers
      /\ Counted \subseteq Notifiers /\ Adding \subseteq Notifying
  BY DEF LookingWaiters, Adding, Notifying, Counted
<1> QED
  BY <1>1, CondConstants, Counts

SetsAreCounted == /\ IsFiniteSet(LookingWaiters)
                  /\ {Cardinality(LookingWaiters), Cardinality(Adding), Cardinality(Notifying)} \subseteq Nat

LEMMA CondSets == SetsAreCounted
  BY CondCounts DEF SetsAreCounted

\* The counter does not come round: there is a notification of each notifier.
LEMMA CounterGrows ==
    ASSUME CondInv, NEW t \in Notifiers, Cond!FetchAdd(t)
    PROVE  val' = val + 1 /\ val \in Nat
<1>1. t \notin Counted /\ t \in Notifiers /\ Counted \subseteq Notifiers
  BY DEF Cond!FetchAdd, Counted
<1>2. Cardinality(Counted) + 1 <= Cardinality(Notifiers)
  <2>1. PICK B : B = Counted \cup {t}
    OBVIOUS
  <2>2. B \subseteq Notifiers /\ Cardinality(B) = Cardinality(Counted) + 1
    BY <1>1, <2>1, CondCounts, Counts
  <2> QED
    BY <2>2, CondConstants, Counts
<1>3. val \in Nat /\ val + 1 < Modulus /\ Modulus \in Nat
  BY <1>2, CondCounts, CondConstants DEF CondInv, CounterCounts
<1>4. \A m, a \in Nat : a < m => a % m = a
  OBVIOUS
<1>5. (val + 1) % Modulus = val + 1
  BY <1>3, <1>4
<1> QED
  BY <1>3, <1>5 DEF Cond!FetchAdd

LEMMA CondTypesNext == CondInv /\ [Cond!Next]_(Cond!vars) => CondTypes'
<1> SUFFICES ASSUME CondInv, [Cond!Next]_(Cond!vars) PROVE CondTypes'
  OBVIOUS
<1> USE CondConstants DEF CondTypes, Cond!TypeOK, Cond!Goto
<1>0. CondTypes
  BY DEF CondInv
<1>1. ASSUME NEW t \in Cond!Threads, Cond!Lock(t) \/ Cond!TakeToken(t) \/ Cond!Unlock(t) PROVE CondTypes'
  BY <1>0, <1>1 DEF Cond!Lock, Cond!TakeToken, Cond!Unlock
<1>2. ASSUME NEW t \in Cond!Threads, Cond!AddToken(t) PROVE CondTypes'
  BY <1>0, <1>2 DEF Cond!AddToken
<1>3. ASSUME NEW t \in Cond!Threads, Cond!FetchAdd(t) PROVE CondTypes'
  <2>1. t \in Notifiers
    BY <1>0, <1>3 DEF Cond!FetchAdd
  <2>2. \A m \in Nat : \A a \in 0 .. m - 1 : (a + 1) % m \in 0 .. m - 1
    OBVIOUS
  <2>3. val' \in 0 .. Modulus - 1
    BY <1>0, <1>3, <2>2 DEF Cond!FetchAdd
  <2> QED
    BY <1>0, <1>3, <2>1, <2>3 DEF Cond!FetchAdd
<1>4. ASSUME NEW t \in Cond!Threads, Cond!NotifyOne(t) PROVE CondTypes'
  <2>1. t \in Notifiers
    BY <1>0, <1>4 DEF Cond!NotifyOne
  <2> QED
    BY <1>0, <1>4, <2>1 DEF Cond!NotifyOne, Cond!WakeOne
<1>5. ASSUME NEW t \in Cond!Threads, Cond!NotifyAll(t) PROVE CondTypes'
  BY <1>0, <1>5 DEF Cond!NotifyAll
<1>6. ASSUME NEW t \in Waiters, Cond!Wait(t) PROVE CondTypes'
  BY <1>0, <1>6 DEF Cond!Wait
<1>7. ASSUME NEW t \in Waiters, Cond!AtomicWait(t) PROVE CondTypes'
  BY <1>0, <1>7 DEF Cond!AtomicWait
<1>8. CASE UNCHANGED Cond!vars
  BY <1>0, <1>8 DEF Cond!vars
<1> QED
  BY <1>1, <1>2, <1>3, <1>4, <1>5, <1>6, <1>7, <1>8 DEF Cond!Next, Cond!Step

\* What a thread of each kind does, with the sets that it changes.
LEMMA CondWaiterMoves ==
    ASSUME CondInv, NEW t \in Waiters, Cond!Step(t)
    PROVE  CounterCounts' /\ FreshSleepers' /\ StaleSleepers'
<1> USE CondConstants DEF CondTypes, Cond!TypeOK, Cond!Goto
<1>0. CondTypes /\ CounterCounts /\ FreshSleepers /\ StaleSleepers
  BY DEF CondInv
<1>1. Adding' = Adding /\ Notifying' = Notifying /\ Counted' = Counted
  BY <1>0 DEF Adding, Notifying, Counted, Cond!Step, Cond!Lock, Cond!TakeToken, Cond!Unlock,
              Cond!AddToken, Cond!FetchAdd, Cond!NotifyOne, Cond!NotifyAll, Cond!Wait, Cond!AtomicWait
<1>2. val' = val
  BY <1>0 DEF Cond!Step, Cond!Lock, Cond!TakeToken, Cond!Unlock,
              Cond!AddToken, Cond!FetchAdd, Cond!NotifyOne, Cond!NotifyAll, Cond!Wait, Cond!AtomicWait
<1>3. CounterCounts'
  BY <1>0, <1>1, <1>2 DEF CounterCounts, Cond!Step, Cond!Lock, Cond!TakeToken, Cond!Unlock,
         Cond!AddToken, Cond!FetchAdd, Cond!NotifyOne, Cond!NotifyAll, Cond!Wait, Cond!AtomicWait
<1>4. tokensCond \in Nat
  BY <1>0
<1>5. CASE Cond!TakeToken(t)
  <2>1. /\ tokensCond' = tokensCond - 1 /\ UNCHANGED <<val, noticed>>
        /\ pcCond' = [pcCond EXCEPT ![t] = "end"] /\ pcCond[t] = "locked"
    BY <1>5 DEF Cond!TakeToken
  <2>2. LookingWaiters' = LookingWaiters \ {t} /\ t \in LookingWaiters
    BY <1>0, <2>1 DEF LookingWaiters, Cond!Looking
  <2>3. Cardinality(LookingWaiters') = Cardinality(LookingWaiters) - 1
    BY <2>2, CondCounts, Counts
  <2>4. FreshSleepers'
    BY <1>0, <1>1, <1>4, <2>1, CondCounts DEF FreshSleepers, UpToDate
  <2>5. StaleSleepers'
    BY <1>0, <1>1, <1>4, <2>1, <2>3, CondCounts DEF StaleSleepers
  <2> QED
    BY <1>3, <2>4, <2>5
<1>6. CASE Cond!Wait(t)
  <2>1. tokensCond' = 0
    BY <1>6 DEF Cond!Wait
  <2>2. /\ Cardinality(Adding)' \in Nat /\ Cardinality(Notifying)' \in Nat
        /\ Cardinality(LookingWaiters)' \in Nat
    <3>1. SetsAreCounted'
      BY CondSets, PTL
    <3> QED
      BY <3>1 DEF SetsAreCounted
  <2> QED
    BY <1>3, <2>1, <2>2 DEF FreshSleepers, StaleSleepers
<1>7. CASE Cond!AtomicWait(t)
  <2>1. /\ UNCHANGED <<val, noticed, tokensCond>> /\ pcCond[t] = "wait"
        /\ pcCond' = [pcCond EXCEPT ![t] = IF val = noticed[t] THEN "asleep" ELSE "lock"]
    BY <1>7 DEF Cond!AtomicWait
  <2>2. LookingWaiters' = LookingWaiters
    BY <1>0, <2>1 DEF LookingWaiters, Cond!Looking
  <2>3. \A u \in Waiters : UpToDate(u)' <=> UpToDate(u)
    BY <1>0, <2>1 DEF UpToDate
  <2>4. FreshSleepers'
    BY <1>0, <1>1, <2>1, <2>3 DEF FreshSleepers
  <2>5. CASE val = noticed[t]
    <3>1. tokensCond <= Cardinality(Adding)
      BY <1>0, <2>1, <2>5 DEF FreshSleepers, UpToDate
    <3> QED
      BY <1>1, <1>3, <1>4, <2>1, <2>2, <2>4, <3>1, CondCounts DEF StaleSleepers
  <2>6. CASE val # noticed[t]
    <3>1. \A u \in Waiters : pcCond'[u] = "asleep" => pcCond[u] = "asleep"
      BY <1>0, <2>1, <2>6
    <3> QED
      BY <1>0, <1>1, <1>3, <2>1, <2>2, <2>4, <3>1 DEF StaleSleepers
  <2> QED
    BY <2>5, <2>6
<1>8. CASE Cond!Lock(t) \/ Cond!Unlock(t)
  <2>1. /\ UNCHANGED <<val, noticed, tokensCond>>
        /\ \/ pcCond[t] = "lock" /\ pcCond' = [pcCond EXCEPT ![t] = "locked"]
           \/ pcCond[t] = "unlock" /\ pcCond' = [pcCond EXCEPT ![t] = "wait"]
    BY <1>8 DEF Cond!Lock, Cond!Unlock
  <2>2. LookingWaiters' = LookingWaiters
    BY <1>0, <2>1 DEF LookingWaiters, Cond!Looking
  <2>3. \A u \in Waiters : UpToDate(u)' <=> UpToDate(u)
    BY <1>0, <2>1 DEF UpToDate
  <2>4. \A u \in Waiters : pcCond'[u] = "asleep" <=> pcCond[u] = "asleep"
    BY <1>0, <2>1
  <2> QED
    BY <1>0, <1>1, <1>3, <2>1, <2>2, <2>3, <2>4 DEF FreshSleepers, StaleSleepers
<1> QED
  BY <1>0, <1>5, <1>6, <1>7, <1>8
  DEF Cond!Step, Cond!AddToken, Cond!FetchAdd, Cond!NotifyOne, Cond!NotifyAll

LEMMA CondNotifierMoves ==
    ASSUME CondInv, NEW t \in Notifiers, Cond!Step(t)
    PROVE  CounterCounts' /\ FreshSleepers' /\ StaleSleepers'
<1> USE CondConstants DEF CondTypes, Cond!TypeOK, Cond!Goto
<1>0. CondTypes /\ CounterCounts /\ FreshSleepers /\ StaleSleepers
  BY DEF CondInv
<1>1. t \notin Waiters
  OBVIOUS
<1>2. tokensCond \in Nat
  BY <1>0
<1>3. CASE Cond!Lock(t)
  <2>1. /\ UNCHANGED <<val, noticed, tokensCond>> /\ pcCond[t] = "lock"
        /\ pcCond' = [pcCond EXCEPT ![t] = "locked"]
    BY <1>3 DEF Cond!Lock
  <2>2. /\ LookingWaiters' = LookingWaiters /\ Adding' = Adding /\ Notifying' = Notifying
        /\ Counted' = Counted
    BY <1>0, <2>1, <1>1 DEF LookingWaiters, Cond!Looking, Adding, Notifying, Counted
  <2>3. \A u \in Waiters : pcCond'[u] = pcCond[u]
    BY <1>0, <1>1, <2>1
  <2> QED
    BY <1>0, <2>1, <2>2, <2>3 DEF CounterCounts, FreshSleepers, StaleSleepers, UpToDate
<1>4. CASE Cond!AddToken(t)
  <2>1. /\ UNCHANGED <<val, noticed>> /\ pcCond[t] = "locked" /\ tokensCond' = tokensCond + 1
        /\ pcCond' = [pcCond EXCEPT ![t] = "notify"]
    BY <1>4 DEF Cond!AddToken
  <2>2. /\ LookingWaiters' = LookingWaiters /\ Counted' = Counted
        /\ Adding' = Adding \cup {t} /\ t \notin Adding
        /\ Notifying' = Notifying \cup {t} /\ t \notin Notifying
    BY <1>0, <2>1, <1>1 DEF LookingWaiters, Cond!Looking, Adding, Notifying, Counted
  <2>3. /\ Cardinality(Adding') = Cardinality(Adding) + 1
        /\ Cardinality(Notifying') = Cardinality(Notifying) + 1
    BY <2>2, CondCounts, Counts
  <2>4. \A u \in Waiters : pcCond'[u] = pcCond[u]
    BY <1>0, <1>1, <2>1
  <2>5. CounterCounts'
    BY <1>0, <2>1, <2>2 DEF CounterCounts
  <2>6. FreshSleepers'
    BY <1>0, <1>2, <2>1, <2>3, <2>4, CondCounts DEF FreshSleepers, UpToDate
  <2>7. StaleSleepers'
    BY <1>0, <1>2, <2>1, <2>2, <2>3, <2>4, CondCounts DEF StaleSleepers
  <2> QED
    BY <2>5, <2>6, <2>7
<1>5. CASE Cond!FetchAdd(t)
  <2>1. /\ UNCHANGED <<noticed, tokensCond>> /\ pcCond[t] = "notify"
        /\ pcCond' = [pcCond EXCEPT ![t] = "wake"]
    BY <1>5 DEF Cond!FetchAdd
  <2>2. val' = val + 1 /\ val \in Nat
    BY <1>5, CounterGrows
  <2>3. /\ Notifying' = Notifying /\ Counted' = Counted \cup {t} /\ t \notin Counted
    BY <1>0, <2>1 DEF Notifying, Counted
  <2>4. \A u \in Waiters : pcCond'[u] = pcCond[u]
    BY <1>0, <1>1, <2>1
  <2>5. \A u \in Waiters : noticed[u] \in Nat /\ noticed[u] <= val
    BY <1>0 DEF CounterCounts
  <2>6. CounterCounts'
    BY SMTT(60), <1>0, <2>1, <2>2, <2>3, <2>5, CondCounts, Counts DEF CounterCounts
  <2>7. FreshSleepers'
    BY <2>1, <2>2, <2>5 DEF FreshSleepers, UpToDate
  <2>8. LookingWaiters \subseteq LookingWaiters'
    BY <2>1, <2>2, <2>4, <2>5 DEF LookingWaiters, Cond!Looking
  <2>9. IsFiniteSet(LookingWaiters') /\ Cardinality(LookingWaiters') \in Nat
    <3>1. SetsAreCounted'
      BY CondSets, PTL
    <3> QED
      BY <3>1 DEF SetsAreCounted
  <2>10. Cardinality(LookingWaiters) <= Cardinality(LookingWaiters')
    BY <2>8, <2>9, Counts
  <2>11. StaleSleepers'
    BY <1>0, <1>2, <2>1, <2>3, <2>4, <2>9, <2>10, CondCounts DEF StaleSleepers
  <2> QED
    BY <2>6, <2>7, <2>11
<1>6. CASE Cond!NotifyOne(t)
  <2>1. UNCHANGED <<val, noticed, tokensCond>> /\ pcCond[t] = "wake"
    BY <1>6 DEF Cond!NotifyOne
  <2>2. CASE \A u \in Waiters : pcCond[u] # "asleep"
    <3>1. pcCond' = [pcCond EXCEPT ![t] = "end"]
      BY <1>6, <2>2 DEF Cond!NotifyOne
    <3>2. \A u \in Waiters : pcCond'[u] = pcCond[u]
      BY <1>0, <1>1, <3>1
    <3>3. Adding' = Adding /\ Counted' = Counted
      BY <1>0, <2>1, <3>1 DEF Adding, Counted
    <3> QED
      BY <1>0, <2>1, <2>2, <3>2, <3>3 DEF CounterCounts, FreshSleepers, StaleSleepers, UpToDate
  <2>3. CASE \E u \in Waiters : pcCond[u] = "asleep"
    <3>1. PICK u \in Waiters : /\ pcCond[u] = "asleep"
                               /\ pcCond' = [pcCond EXCEPT ![t] = "end", ![u] = "wait"]
      BY <1>6, <2>3 DEF Cond!NotifyOne, Cond!WakeOne
    <3>2. /\ Adding' = Adding /\ Counted' = Counted
          /\ Notifying' = Notifying \ {t} /\ t \in Notifying /\ t \notin Adding
      BY <1>0, <1>1, <2>1, <3>1 DEF Adding, Counted, Notifying
    <3>3. \A x \in Waiters : /\ UpToDate(x)' <=> UpToDate(x)
                             /\ pcCond'[x] = "asleep" => pcCond[x] = "asleep"
      BY <1>0, <1>1, <2>1, <3>1 DEF UpToDate
    <3>4. CounterCounts' /\ FreshSleepers'
      BY <1>0, <2>1, <3>2, <3>3 DEF CounterCounts, FreshSleepers
    <3>5. /\ Cardinality(Notifying') = Cardinality(Notifying) - 1
          /\ Cardinality(Adding) <= Cardinality(Notifying')
          /\ Cardinality(Notifying') \in Nat
      <4>1. Adding \subseteq Notifying' /\ IsFiniteSet(Notifying')
        BY <3>2, CondCounts, Counts DEF Adding, Notifying
      <4> QED
        BY <3>2, <4>1, CondCounts, Counts
    <3>6. Cardinality(LookingWaiters') \in Nat
      <4>1. SetsAreCounted'
        BY CondSets, PTL
      <4> QED
        BY <4>1 DEF SetsAreCounted
    <3>7. CASE noticed[u] = val
      <4>1. tokensCond <= Cardinality(Adding)
        BY <1>0, <3>1, <3>7 DEF FreshSleepers, UpToDate
      <4> QED
        BY <1>2, <2>1, <3>4, <3>5, <3>6, <4>1, CondCounts DEF StaleSleepers
    <3>8. CASE noticed[u] # val
      <4>1. LookingWaiters' = LookingWaiters \cup {u} /\ u \notin LookingWaiters
        BY <1>0, <1>1, <2>1, <3>1, <3>8 DEF LookingWaiters, Cond!Looking
      <4>2. Cardinality(LookingWaiters') = Cardinality(LookingWaiters) + 1
        BY <4>1, CondCounts, Counts
      <4> QED
        BY <1>0, <1>2, <2>1, <3>1, <3>4, <3>5, <4>2, CondCounts DEF StaleSleepers
    <3> QED
      BY <3>7, <3>8
  <2> QED
    BY <2>2, <2>3
<1>7. CASE Cond!NotifyAll(t)
  <2>1. /\ UNCHANGED <<val, noticed, tokensCond>> /\ pcCond[t] = "wake"
        /\ \A u \in Waiters : pcCond'[u] = IF pcCond[u] = "asleep" THEN "wait" ELSE pcCond[u]
        /\ \A u \in Notifiers : pcCond'[u] = IF u = t THEN "end" ELSE pcCond[u]
    BY <1>0, <1>1, <1>7 DEF Cond!NotifyAll
  <2>2. Adding' = Adding /\ Counted' = Counted
    BY <2>1 DEF Adding, Counted
  <2>3. \A x \in Waiters : (UpToDate(x)' <=> UpToDate(x)) /\ pcCond'[x] # "asleep"
    BY <2>1 DEF UpToDate
  <2> QED
    BY <1>0, <2>1, <2>2, <2>3 DEF CounterCounts, FreshSleepers, StaleSleepers
<1> QED
  BY <1>0, <1>1, <1>3, <1>4, <1>5, <1>6, <1>7 DEF Cond!Step, Cond!TakeToken, Cond!Unlock

LEMMA CondAlways == Spec => []CondInv
<1>1. Cond!Init => CondInv
  <2> SUFFICES ASSUME Cond!Init PROVE CondInv
    OBVIOUS
  <2>1. CondTypes
    BY CondConstants DEF Cond!Init, CondTypes, Cond!TypeOK
  <2>2. Counted = {} /\ val = 0
    BY CondConstants DEF Cond!Init, Counted
  <2>3. CounterCounts
    BY <2>2, FS_EmptySet DEF Cond!Init, CounterCounts
  <2>4. FreshSleepers /\ StaleSleepers
    BY CondConstants, CondCounts DEF Cond!Init, FreshSleepers, StaleSleepers, UpToDate
  <2> QED
    BY <2>1, <2>3, <2>4 DEF CondInv
<1>2. CondInv /\ [Cond!Next]_(Cond!vars) => CondInv'
  <2> SUFFICES ASSUME CondInv, [Cond!Next]_(Cond!vars) PROVE CondInv'
    OBVIOUS
  <2>1. CondTypes'
    BY CondTypesNext
  <2>2. CASE Cond!Next
    BY <2>1, <2>2, CondConstants, CondWaiterMoves, CondNotifierMoves DEF Cond!Next, CondInv
  <2>3. CASE UNCHANGED Cond!vars
    BY <2>1, <2>3 DEF Cond!vars, CondInv, CounterCounts, FreshSleepers, StaleSleepers, Counted,
                      UpToDate, Adding, LookingWaiters, Cond!Looking, Notifying
  <2> QED
    BY <2>2, <2>3
<1> QED
  BY <1>1, <1>2, Moves, PTL DEF Spec, Init

LEMMA TokensAreFound == CondInv => Cond!NoLostToken
  BY SameCardinality DEF CondInv, StaleSleepers, Cond!NoLostToken, LookingWaiters, Notifying

-----------------------------------------------------------------------------
(* The bounded queue of three semaphores *)

\* The threads at these steps, of all, and of each kind.
StepsIn(S, K) == {t \in S : step[t] \in K}

\* The threads that acquire s next.
Before(s) == {t \in Bounded!Threads : step[t] \in {1, 2} /\ Bounded!Order(t)[step[t]] = s}

\* One token of the lock; a token or an owner for each place and each item.
TokensAndPlaces ==
    /\ tokens["writing"] + Cardinality(StepsIn(Bounded!Threads, {3, 4})) = 1
    /\ tokens["occupied"] + Cardinality(StepsIn(Consumers, {2, 3}))
           + Cardinality(StepsIn(Producers, {4, 5})) = Len(queue)
    /\ tokens["free"] + Cardinality(StepsIn(Producers, {2, 3}))
           + Cardinality(StepsIn(Consumers, {4, 5})) + Len(queue) = Capacity

\* Who sleeps has called Acquire.
SleepersAcquire == \A s \in Bounded!Semaphores : sleeping[s] \subseteq Before(s)

\* See BoundedQueue!NoSleeperBesideToken.
TokensHaveTakers ==
    \A s \in Bounded!Semaphores :
        sleeping[s] # {} => tokens[s] <= Cardinality(Before(s) \ sleeping[s])

BoundedInv == Bounded!TypeOK /\ TokensAndPlaces /\ SleepersAcquire /\ TokensHaveTakers

LEMMA BoundedConstants ==
    /\ IsFiniteSet(Producers) /\ IsFiniteSet(Consumers) /\ Producers \cap Consumers = {}
    /\ Bounded!Threads = Producers \cup Consumers /\ IsFiniteSet(Bounded!Threads)
    /\ Capacity \in Nat
    /\ Bounded!Semaphores = {"free", "occupied", "writing"}
  BY SyncAssumption, FS_Union DEF SyncAssumption, Bounded!Threads, Bounded!Semaphores

\* The sets are finite, and one thread enters or leaves them at a time.
LEMMA StepCounts ==
    ASSUME NEW S \in {Producers, Consumers, Bounded!Threads}, NEW K
    PROVE  IsFiniteSet(StepsIn(S, K)) /\ Cardinality(StepsIn(S, K)) \in Nat
<1>1. StepsIn(S, K) \subseteq S /\ IsFiniteSet(S)
  BY BoundedConstants DEF StepsIn
<1> QED
  BY <1>1, Counts

LEMMA StepMoves ==
    ASSUME NEW S \in {Producers, Consumers, Bounded!Threads}, NEW K,
           step \in [Bounded!Threads -> 0 .. 5],
           NEW t \in Bounded!Threads, NEW b \in 0 .. 5, step' = [step EXCEPT ![t] = b]
    PROVE  Cardinality(StepsIn(S, K)') = Cardinality(StepsIn(S, K))
               + (IF t \in S /\ b \in K THEN 1 ELSE 0) - (IF t \in S /\ step[t] \in K THEN 1 ELSE 0)
<1>1. S \subseteq Bounded!Threads
  BY BoundedConstants
<1>2. IsFiniteSet(StepsIn(S, K)) /\ Cardinality(StepsIn(S, K)) \in Nat
  BY StepCounts
<1>3. CASE t \in S /\ b \in K /\ step[t] \notin K
  <2>1. StepsIn(S, K)' = StepsIn(S, K) \cup {t} /\ t \notin StepsIn(S, K)
    BY <1>1, <1>3 DEF StepsIn
  <2> QED
    BY <1>2, <1>3, <2>1, Counts
<1>4. CASE t \in S /\ b \notin K /\ step[t] \in K
  <2>1. StepsIn(S, K)' = StepsIn(S, K) \ {t} /\ t \in StepsIn(S, K)
    BY <1>1, <1>4 DEF StepsIn
  <2> QED
    BY <1>2, <1>4, <2>1, Counts
<1>5. CASE t \notin S \/ (b \in K <=> step[t] \in K)
  <2>1. StepsIn(S, K)' = StepsIn(S, K)
    BY <1>1, <1>5 DEF StepsIn
  <2> QED
    BY <1>2, <1>5, <2>1
<1> QED
  BY <1>3, <1>4, <1>5

\* The five numbers, as far as one thread's step changes them.
Writers == Cardinality(StepsIn(Bounded!Threads, {3, 4}))
Taking == Cardinality(StepsIn(Consumers, {2, 3}))
Given == Cardinality(StepsIn(Producers, {4, 5}))
Giving == Cardinality(StepsIn(Producers, {2, 3}))
Taken == Cardinality(StepsIn(Consumers, {4, 5}))

\* What t's going on does to the numbers.
Moved(t) ==
    /\ Writers' = IF step[t] = 2 THEN Writers + 1 ELSE IF step[t] = 4 THEN Writers - 1 ELSE Writers
    /\ t \in Producers =>
         /\ Giving' = IF step[t] = 1 THEN Giving + 1 ELSE IF step[t] = 3 THEN Giving - 1 ELSE Giving
         /\ Given' = IF step[t] = 3 THEN Given + 1 ELSE IF step[t] = 5 THEN Given - 1 ELSE Given
         /\ Taking' = Taking /\ Taken' = Taken
    /\ t \in Consumers =>
         /\ Taking' = IF step[t] = 1 THEN Taking + 1 ELSE IF step[t] = 3 THEN Taking - 1 ELSE Taking
         /\ Taken' = IF step[t] = 3 THEN Taken + 1 ELSE IF step[t] = 5 THEN Taken - 1 ELSE Taken
         /\ Giving' = Giving /\ Given' = Given
    /\ Writers \in Nat /\ Taking \in Nat /\ Given \in Nat /\ Giving \in Nat /\ Taken \in Nat
    /\ step' = [step EXCEPT ![t] = IF step[t] = 5 THEN 0 ELSE step[t] + 1]

LEMMA NumbersMove ==
    ASSUME step \in [Bounded!Threads -> 0 .. 5],
           NEW t \in Bounded!Threads, Bounded!Advance(t)
    PROVE  Moved(t)
<1>1. PICK b \in 0 .. 5 : b = IF step[t] = 5 THEN 0 ELSE step[t] + 1
  OBVIOUS
<1>2. step' = [step EXCEPT ![t] = b]
  BY <1>1 DEF Bounded!Advance
<1>3. Writers \in Nat /\ Taking \in Nat /\ Given \in Nat /\ Giving \in Nat /\ Taken \in Nat
  BY StepCounts DEF Writers, Taking, Given, Giving, Taken
<1>4. step[t] \in 0 .. 5 /\ (t \in Producers => t \notin Consumers)
  BY BoundedConstants
<1>5. Writers' = Writers + (IF b \in {3, 4} THEN 1 ELSE 0) - (IF step[t] \in {3, 4} THEN 1 ELSE 0)
  BY <1>2, StepMoves DEF Writers
<1>6. Taking' = Taking + (IF t \in Consumers /\ b \in {2, 3} THEN 1 ELSE 0)
                       - (IF t \in Consumers /\ step[t] \in {2, 3} THEN 1 ELSE 0)
  BY <1>2, StepMoves DEF Taking
<1>7. Given' = Given + (IF t \in Producers /\ b \in {4, 5} THEN 1 ELSE 0)
                     - (IF t \in Producers /\ step[t] \in {4, 5} THEN 1 ELSE 0)
  BY <1>2, StepMoves DEF Given
<1>8. Giving' = Giving + (IF t \in Producers /\ b \in {2, 3} THEN 1 ELSE 0)
                       - (IF t \in Producers /\ step[t] \in {2, 3} THEN 1 ELSE 0)
  BY <1>2, StepMoves DEF Giving
<1>9. Taken' = Taken + (IF t \in Consumers /\ b \in {4, 5} THEN 1 ELSE 0)
                     - (IF t \in Consumers /\ step[t] \in {4, 5} THEN 1 ELSE 0)
  BY <1>2, StepMoves DEF Taken
<1>10. step' = [step EXCEPT ![t] = IF step[t] = 5 THEN 0 ELSE step[t] + 1]
  BY DEF Bounded!Advance
<1> QED
  BY ONLY <1>1, <1>3, <1>4, <1>5, <1>6, <1>7, <1>8, <1>9, <1>10 DEF Moved

WritersBalance == tokens["writing"] + Writers = 1
ItemsBalance == tokens["occupied"] + Taking + Given = Len(queue)
PlacesBalance == tokens["free"] + Giving + Taken + Len(queue) = Capacity
Balance == WritersBalance /\ ItemsBalance /\ PlacesBalance

LEMMA BalanceIsTokens == Balance <=> TokensAndPlaces
  BY DEF Balance, WritersBalance, ItemsBalance, PlacesBalance,
         TokensAndPlaces, Writers, Taking, Given, Giving, Taken

Numbers == /\ tokens["free"] \in Nat /\ tokens["occupied"] \in Nat /\ tokens["writing"] \in Nat
           /\ Writers \in Nat /\ Taking \in Nat /\ Given \in Nat /\ Giving \in Nat /\ Taken \in Nat
           /\ Len(queue) \in Nat

\* Each balance by itself: what one side gains the other loses.
LEMMA WritersKept ==
    ASSUME Numbers, WritersBalance, NEW d \in Int,
           tokens'["writing"] = tokens["writing"] - d, Writers' = Writers + d
    PROVE  WritersBalance'
  BY DEF Numbers, WritersBalance

LEMMA ItemsKept ==
    ASSUME Numbers, ItemsBalance, NEW d \in Int, NEW e \in Int, NEW q \in Int,
           tokens'["occupied"] = tokens["occupied"] - d - e + q,
           Taking' = Taking + d, Given' = Given + e, Len(queue') = Len(queue) + q
    PROVE  ItemsBalance'
<1>1. PICK a \in Nat, b \in Nat, c \in Nat, l \in Nat :
          a = tokens["occupied"] /\ b = Taking /\ c = Given /\ l = Len(queue)
  BY DEF Numbers
<1>2. a + b + c = l
  BY ONLY <1>1, ItemsBalance DEF ItemsBalance
<1>3. (a - d - e + q) + (b + d) + (c + e) = l + q
  BY ONLY <1>2, a \in Nat, b \in Nat, c \in Nat, l \in Nat, d \in Int, e \in Int, q \in Int
<1>4. tokens'["occupied"] = (a - d - e + q) /\ Taking' = b + d /\ Given' = c + e /\ Len(queue') = l + q
  BY ONLY <1>1, Len(queue') = Len(queue) + q,
          tokens'["occupied"] = tokens["occupied"] - d - e + q, Taking' = Taking + d, Given' = Given + e
<1>5. tokens'["occupied"] + Taking' + Given' = Len(queue')
  BY ONLY <1>3, <1>4
<1> QED
  BY ONLY <1>5 DEF ItemsBalance

LEMMA PlacesKept ==
    ASSUME Numbers, PlacesBalance, NEW d \in Int, NEW e \in Int, NEW q \in Int,
           tokens'["free"] = tokens["free"] - d - e - q,
           Giving' = Giving + d, Taken' = Taken + e, Len(queue') = Len(queue) + q
    PROVE  PlacesBalance'
<1>1. PICK a \in Nat, b \in Nat, c \in Nat, l \in Nat :
          a = tokens["free"] /\ b = Giving /\ c = Taken /\ l = Len(queue)
  BY DEF Numbers
<1>2. a + b + c + l = Capacity
  BY ONLY <1>1, PlacesBalance DEF PlacesBalance
<1>3. (a - d - e - q) + (b + d) + (c + e) + (l + q) = a + b + c + l
  BY ONLY a \in Nat, b \in Nat, c \in Nat, l \in Nat, d \in Int, e \in Int, q \in Int
<1>4. tokens'["free"] = (a - d - e - q) /\ Giving' = b + d /\ Taken' = c + e /\ Len(queue') = l + q
  BY ONLY <1>1, Len(queue') = Len(queue) + q,
          tokens'["free"] = tokens["free"] - d - e - q, Giving' = Giving + d, Taken' = Taken + e
<1>5. tokens'["free"] + Giving' + Taken' + Len(queue') = a + b + c + l
  BY ONLY <1>3, <1>4
<1> QED
  BY ONLY <1>2, <1>5 DEF PlacesBalance

\* A step that adds these to the numbers, and as much to the tokens as it must.
NumbersShift(writers, giving, taken, taking, given) ==
    /\ Writers' = Writers + writers
    /\ Giving' = Giving + giving /\ Taken' = Taken + taken
    /\ Taking' = Taking + taking /\ Given' = Given + given

TokensShift(writers, giving, taken, taking, given, items) ==
    /\ tokens'["writing"] = tokens["writing"] - writers
    /\ tokens'["free"] = tokens["free"] - giving - taken - items
    /\ tokens'["occupied"] = tokens["occupied"] - taking - given + items
    /\ Len(queue') = Len(queue) + items

LEMMA ShiftKeeps ==
    ASSUME Numbers, Balance,
           NEW w \in Int, NEW a \in Int, NEW b \in Int, NEW c \in Int, NEW d \in Int, NEW q \in Int,
           NumbersShift(w, a, b, c, d), TokensShift(w, a, b, c, d, q)
    PROVE  Balance'
<1>1. WritersBalance'
  BY WritersKept DEF Balance, NumbersShift, TokensShift
<1>2. ItemsBalance'
  BY ItemsKept DEF Balance, NumbersShift, TokensShift
<1>3. PlacesBalance'
  BY PlacesKept DEF Balance, NumbersShift, TokensShift
<1> QED
  BY <1>1, <1>2, <1>3 DEF Balance

\* What the steps do to the numbers: those that leave the tokens alone, and those
\* that do not.
LEMMA StepsShift ==
    ASSUME NEW t \in Bounded!Threads, Moved(t), t \in Producers => t \notin Consumers
    PROVE  /\ step[t] = 0 => NumbersShift(0, 0, 0, 0, 0)
           /\ step[t] = 1 /\ t \in Producers => NumbersShift(0, 1, 0, 0, 0)
           /\ step[t] = 1 /\ t \in Consumers => NumbersShift(0, 0, 0, 1, 0)
           /\ step[t] = 2 => NumbersShift(1, 0, 0, 0, 0)
           /\ step[t] = 3 /\ t \in Producers => NumbersShift(0, -1, 0, 0, 1)
           /\ step[t] = 3 /\ t \in Consumers => NumbersShift(0, 0, 1, -1, 0)
           /\ step[t] = 4 => NumbersShift(-1, 0, 0, 0, 0)
           /\ step[t] = 5 /\ t \in Producers => NumbersShift(0, 0, 0, 0, -1)
           /\ step[t] = 5 /\ t \in Consumers => NumbersShift(0, 0, -1, 0, 0)
<1>1. t \in Producers \/ t \in Consumers
  BY BoundedConstants
<1>2. \A n \in Nat : n + 0 = n /\ n + (-1) = n - 1
  OBVIOUS
<1> QED
  BY ONLY <1>1, <1>2, Moved(t) DEF Moved, NumbersShift

\* What an acquisition, a release and a wake-up do to the tokens.
LEMMA BoundedNext ==
    BoundedInv /\ [Bounded!Next]_(Bounded!vars) => Bounded!TypeOK' /\ Balance'
<1> SUFFICES ASSUME BoundedInv, [Bounded!Next]_(Bounded!vars) PROVE Bounded!TypeOK' /\ Balance'
  OBVIOUS
<1>0. Bounded!TypeOK /\ Balance /\ SleepersAcquire
  BY BalanceIsTokens DEF BoundedInv
<1>a. ASSUME NEW t \in Bounded!Threads, Bounded!Advance(t)
      PROVE  Moved(t) /\ step' \in [Bounded!Threads -> 0 .. 5]
  <2>1. step \in [Bounded!Threads -> 0 .. 5]
    BY <1>0 DEF Bounded!TypeOK
  <2>2. Moved(t)
    BY <1>a, <2>1, NumbersMove
  <2> QED
    BY <2>1, <2>2 DEF Moved
<1>b. tokens \in [{"free", "occupied", "writing"} -> Nat] /\ queue \in Seq(Producers)
  BY <1>0, BoundedConstants DEF Bounded!TypeOK
<1>c. Numbers
  BY <1>b, StepCounts DEF Numbers, Writers, Taking, Given, Giving, Taken
<1>d. \A t \in Bounded!Threads : (t \in Producers \/ t \in Consumers) /\ (t \in Producers => t \notin Consumers)
  BY BoundedConstants
<1>e. /\ tokens["free"] - 0 - 0 - 0 = tokens["free"]
      /\ tokens["free"] - 1 - 0 - 0 = tokens["free"] - 1
      /\ tokens["free"] - (-1) - 0 - 1 = tokens["free"]
      /\ tokens["free"] - 0 - 1 - (-1) = tokens["free"]
      /\ tokens["free"] - 0 - (-1) - 0 = tokens["free"] + 1
  BY <1>c DEF Numbers
<1>f. /\ tokens["occupied"] - 0 - 0 + 0 = tokens["occupied"]
      /\ tokens["occupied"] - 1 - 0 + 0 = tokens["occupied"] - 1
      /\ tokens["occupied"] - 0 - 1 + 1 = tokens["occupied"]
      /\ tokens["occupied"] - (-1) - 0 + (-1) = tokens["occupied"]
      /\ tokens["occupied"] - 0 - (-1) + 0 = tokens["occupied"] + 1
  BY <1>c DEF Numbers
<1>g. /\ tokens["writing"] - 0 = tokens["writing"] /\ tokens["writing"] - (-1) = tokens["writing"] + 1
      /\ Len(queue) + 0 = Len(queue) /\ Len(queue) + (-1) = Len(queue) - 1
  BY <1>c DEF Numbers
<1>1. ASSUME NEW t \in Bounded!Threads, Bounded!Call(t) PROVE Bounded!TypeOK' /\ Balance'
  <2>1. /\ step[t] = 0 /\ UNCHANGED <<tokens, sleeping, queue>>
        /\ calls' = [calls EXCEPT ![t] = @ + 1] /\ Bounded!Advance(t)
    BY <1>1 DEF Bounded!Call, Bounded!semaphoreVars
  <2>2. Moved(t) /\ step' \in [Bounded!Threads -> 0 .. 5]
    BY <1>a, <2>1
  <2>3. Bounded!TypeOK'
    <3>1. calls \in [Bounded!Threads -> Nat]
      BY <1>0 DEF Bounded!TypeOK
    <3>2. calls' \in [Bounded!Threads -> Nat]
      BY <2>1, <3>1
    <3> QED
      BY <1>0, <2>1, <2>2, <3>2 DEF Bounded!TypeOK
  <2>4. Balance'
    <3>1. NumbersShift(0, 0, 0, 0, 0)
      BY <1>d, <2>1, <2>2, StepsShift
    <3>2. TokensShift(0, 0, 0, 0, 0, 0)
      BY <1>e, <1>f, <1>g, <2>1 DEF TokensShift
    <3> QED
      BY <1>0, <1>c, <3>1, <3>2, ShiftKeeps
  <2> QED
    BY <2>3, <2>4
<1>2. ASSUME NEW t \in Bounded!Threads, Bounded!AcquireStep(t) PROVE Bounded!TypeOK' /\ Balance'
  <2>1. PICK s : s = Bounded!Order(t)[step[t]]
    OBVIOUS
  <2>2. /\ step[t] \in {1, 2} /\ UNCHANGED <<queue, calls>>
        /\ s = IF step[t] = 1 THEN IF t \in Producers THEN "free" ELSE "occupied" ELSE "writing"
    BY <1>2, <2>1 DEF Bounded!AcquireStep, Bounded!Order, Bounded!Outer
  <2>3. CASE Bounded!Acquire(s, t) /\ Bounded!Advance(t)
    <3>1. tokens' = [tokens EXCEPT ![s] = tokens[s] - 1] /\ tokens[s] > 0 /\ sleeping' = sleeping
      BY <2>3 DEF Bounded!Acquire
    <3>2. Moved(t) /\ step' \in [Bounded!Threads -> 0 .. 5]
      BY <1>a, <2>3
    <3>3. tokens' \in [{"free", "occupied", "writing"} -> Nat]
      BY ONLY <1>b, <2>2, <3>1
    <3>4. Bounded!TypeOK'
      BY <1>0, <2>2, <3>1, <3>2, <3>3, BoundedConstants DEF Bounded!TypeOK
    <3>6. Balance'
      <4>1. CASE step[t] = 1 /\ t \in Producers
        <5>1. NumbersShift(0, 1, 0, 0, 0)
          BY <1>d, <3>2, <4>1, StepsShift
        <5>2. TokensShift(0, 1, 0, 0, 0, 0)
          BY <1>b, <1>e, <1>f, <1>g, <2>2, <3>1, <4>1 DEF TokensShift
        <5> QED
          BY <1>0, <1>c, <5>1, <5>2, ShiftKeeps
      <4>2. CASE step[t] = 1 /\ t \in Consumers
        <5>1. NumbersShift(0, 0, 0, 1, 0)
          BY <1>d, <3>2, <4>2, StepsShift
        <5>2. TokensShift(0, 0, 0, 1, 0, 0)
          BY <1>b, <1>d, <1>e, <1>f, <1>g, <2>2, <3>1, <4>2 DEF TokensShift
        <5> QED
          BY <1>0, <1>c, <5>1, <5>2, ShiftKeeps
      <4>3. CASE step[t] = 2
        <5>1. NumbersShift(1, 0, 0, 0, 0)
          BY <1>d, <3>2, <4>3, StepsShift
        <5>2. TokensShift(1, 0, 0, 0, 0, 0)
          BY <1>b, <1>e, <1>f, <1>g, <2>2, <3>1, <4>3 DEF TokensShift
        <5> QED
          BY <1>0, <1>c, <5>1, <5>2, ShiftKeeps
      <4> QED
        BY <1>d, <2>2, <4>1, <4>2, <4>3
    <3> QED
      BY <3>4, <3>6
  <2>4. CASE Bounded!Sleep(s, t) /\ UNCHANGED step
    BY <1>0, <2>2, <2>4, BoundedConstants
    DEF Bounded!TypeOK, Balance, WritersBalance, ItemsBalance, PlacesBalance, Bounded!Sleep, Writers, Taking, Given, Giving, Taken, StepsIn
  <2> QED
    BY <1>2, <2>1, <2>3, <2>4 DEF Bounded!AcquireStep
<1>3. ASSUME NEW t \in Bounded!Threads, Bounded!Push(t) PROVE Bounded!TypeOK' /\ Balance'
  <2>1. /\ t \in Producers /\ step[t] = 3 /\ UNCHANGED <<tokens, sleeping, calls>>
        /\ queue' = Append(queue, t) /\ Bounded!Advance(t)
    BY <1>3 DEF Bounded!Push, Bounded!semaphoreVars
  <2>2. queue' \in Seq(Producers) /\ Len(queue') = Len(queue) + 1
    BY <1>b, <2>1
  <2>3. Moved(t) /\ step' \in [Bounded!Threads -> 0 .. 5]
    BY <1>a, <2>1
  <2>4. Bounded!TypeOK'
    BY <1>0, <2>1, <2>2, <2>3 DEF Bounded!TypeOK
  <2>5. Balance'
    <3>1. NumbersShift(0, -1, 0, 0, 1)
      BY <1>d, <2>1, <2>3, StepsShift
    <3>2. TokensShift(0, -1, 0, 0, 1, 1)
      BY <1>e, <1>f, <1>g, <2>1, <2>2 DEF TokensShift
    <3> QED
      BY <1>0, <1>c, <3>1, <3>2, ShiftKeeps
  <2> QED
    BY <2>4, <2>5
<1>4. ASSUME NEW t \in Bounded!Threads, Bounded!Pop(t) PROVE Bounded!TypeOK' /\ Balance'
  <2>1. /\ t \in Consumers /\ step[t] = 3 /\ UNCHANGED <<tokens, sleeping, calls>>
        /\ queue' = Tail(queue) /\ Bounded!Advance(t)
    BY <1>4 DEF Bounded!Pop, Bounded!semaphoreVars
  <2>2. t \in StepsIn(Consumers, {2, 3}) /\ IsFiniteSet(StepsIn(Consumers, {2, 3}))
    BY <2>1, StepCounts DEF StepsIn
  <2>3. Taking # 0
    BY <2>2, FS_EmptySet, StepCounts DEF Taking
  <2>4. Moved(t) /\ step' \in [Bounded!Threads -> 0 .. 5]
    BY <1>a, <2>1
  <2>5. Len(queue) # 0
    BY ONLY <1>0, <1>c, <2>3 DEF Numbers, Balance, ItemsBalance
  <2>6. queue' \in Seq(Producers) /\ Len(queue') = Len(queue) - 1
    BY <1>b, <2>1, <2>5
  <2>7. Bounded!TypeOK'
    BY <1>0, <2>1, <2>4, <2>6 DEF Bounded!TypeOK
  <2>8. Balance'
    <3>1. NumbersShift(0, 0, 1, -1, 0)
      BY <1>d, <2>1, <2>4, StepsShift
    <3>2. TokensShift(0, 0, 1, -1, 0, -1)
      BY <1>e, <1>f, <1>g, <2>1, <2>6 DEF TokensShift
    <3> QED
      BY <1>0, <1>c, <3>1, <3>2, ShiftKeeps
  <2> QED
    BY <2>7, <2>8
<1>5. ASSUME NEW t \in Bounded!Threads, Bounded!ReleaseStep(t) PROVE Bounded!TypeOK' /\ Balance'
  <2>1. PICK s : s = IF step[t] = 4 THEN "writing" ELSE Bounded!Last(t)
    OBVIOUS
  <2>2. /\ step[t] \in {4, 5} /\ UNCHANGED <<queue, calls>> /\ Bounded!Advance(t)
        /\ s = IF step[t] = 4 THEN "writing" ELSE IF t \in Producers THEN "occupied" ELSE "free"
        /\ tokens' = [tokens EXCEPT ![s] = tokens[s] + 1]
    BY <1>5, <2>1 DEF Bounded!ReleaseStep, Bounded!Release, Bounded!Last
  <2>3. sleeping' \in [Bounded!Semaphores -> SUBSET Bounded!Threads]
    <3>1. sleeping \in [Bounded!Semaphores -> SUBSET Bounded!Threads]
      BY <1>0 DEF Bounded!TypeOK
    <3>2. sleeping' = sleeping \/ \E u \in sleeping[s] : sleeping' = [sleeping EXCEPT ![s] = @ \ {u}]
      BY <1>5, <2>1 DEF Bounded!ReleaseStep, Bounded!Release
    <3> QED
      BY <3>1, <3>2
  <2>4. Moved(t) /\ step' \in [Bounded!Threads -> 0 .. 5]
    BY <1>a, <2>2
  <2>5. tokens' \in [{"free", "occupied", "writing"} -> Nat]
    BY ONLY <1>b, <2>2
  <2>6. Bounded!TypeOK'
    BY <1>0, <2>2, <2>3, <2>4, <2>5, BoundedConstants DEF Bounded!TypeOK
  <2>8. Balance'
    <3>1. CASE step[t] = 5 /\ t \in Producers
      <4>1. NumbersShift(0, 0, 0, 0, -1)
        BY <1>d, <2>4, <3>1, StepsShift
      <4>2. TokensShift(0, 0, 0, 0, -1, 0)
        BY <1>b, <1>e, <1>f, <1>g, <2>2, <3>1 DEF TokensShift
      <4> QED
        BY <1>0, <1>c, <4>1, <4>2, ShiftKeeps
    <3>2. CASE step[t] = 5 /\ t \in Consumers
      <4>1. NumbersShift(0, 0, -1, 0, 0)
        BY <1>d, <2>4, <3>2, StepsShift
      <4>2. TokensShift(0, 0, -1, 0, 0, 0)
        BY <1>b, <1>d, <1>e, <1>f, <1>g, <2>2, <3>2 DEF TokensShift
      <4> QED
        BY <1>0, <1>c, <4>1, <4>2, ShiftKeeps
    <3>3. CASE step[t] = 4
      <4>1. NumbersShift(-1, 0, 0, 0, 0)
        BY <1>d, <2>4, <3>3, StepsShift
      <4>2. TokensShift(-1, 0, 0, 0, 0, 0)
        BY <1>b, <1>e, <1>f, <1>g, <2>2, <3>3 DEF TokensShift
      <4> QED
        BY <1>0, <1>c, <4>1, <4>2, ShiftKeeps
    <3> QED
      BY <1>d, <2>2, <3>1, <3>2, <3>3
  <2> QED
    BY <2>6, <2>8
<1> USE BoundedConstants DEF Bounded!TypeOK, Balance
<1>6. ASSUME NEW t \in Bounded!Threads, Bounded!WakeUp(t) PROVE Bounded!TypeOK' /\ Balance'
  BY <1>0, <1>6 DEF Bounded!WakeUp, Bounded!WakeSpuriously, WritersBalance, ItemsBalance, PlacesBalance, Writers, Taking, Given, Giving, Taken, StepsIn
<1>7. CASE UNCHANGED Bounded!vars
  BY <1>0, <1>7 DEF Bounded!vars, Bounded!semaphoreVars, WritersBalance, ItemsBalance, PlacesBalance, Writers, Taking, Given, Giving, Taken, StepsIn
<1> QED
  BY <1>1, <1>2, <1>3, <1>4, <1>5, <1>6, <1>7 DEF Bounded!Next, Bounded!Step


\* Who is awake and about to take a token of s.
Awake(s) == Before(s) \ sleeping[s]

LEMMA AwakeCounts ==
    ASSUME NEW S, S \subseteq Bounded!Threads
    PROVE  IsFiniteSet(S) /\ Cardinality(S) \in Nat /\ \A T : T \subseteq S => Cardinality(T) <= Cardinality(S)
  BY BoundedConstants, Counts

\* The tokens stay; who was awake is.
LEMMA TakersStay ==
    ASSUME TokensHaveTakers, UNCHANGED tokens, tokens \in [Bounded!Semaphores -> Nat],
           \A s \in Bounded!Semaphores : sleeping'[s] \subseteq sleeping[s] /\ Awake(s) \subseteq Awake(s)'
    PROVE  TokensHaveTakers'
<1> SUFFICES ASSUME NEW s \in Bounded!Semaphores, sleeping'[s] # {}
             PROVE  tokens'[s] <= Cardinality(Awake(s)')
  BY DEF TokensHaveTakers, Awake, Bounded!Semaphores
<1>1. tokens[s] <= Cardinality(Awake(s))
  BY DEF TokensHaveTakers, Awake
<1>2. Awake(s)' \subseteq Bounded!Threads
  BY DEF Awake, Before
<1>3. Cardinality(Awake(s)) <= Cardinality(Awake(s)') /\ Cardinality(Awake(s)') \in Nat
  BY <1>2, AwakeCounts
<1>4. Cardinality(Awake(s)) \in Nat
  BY AwakeCounts DEF Awake, Before
<1>5. tokens'[s] = tokens[s] /\ tokens[s] \in Nat
  OBVIOUS
<1> QED
  BY ONLY <1>1, <1>3, <1>4, <1>5

\* Who acquires next, before and after t goes on.
LEMMA BeforeMoves ==
    ASSUME step \in [Bounded!Threads -> 0 .. 5],
           NEW t \in Bounded!Threads, Bounded!Advance(t), NEW s \in Bounded!Semaphores
    PROVE  /\ \A u \in Bounded!Threads \ {t} : u \in Before(s)' <=> u \in Before(s)
           /\ t \in Before(s)' <=> \/ step[t] = 0 /\ s = Bounded!Outer(t)
                                   \/ step[t] = 1 /\ s = "writing"
           /\ t \in Before(s) <=> \/ step[t] = 1 /\ s = Bounded!Outer(t)
                                  \/ step[t] = 2 /\ s = "writing"
<1>1. \A u \in Bounded!Threads : Bounded!Order(u)[1] = Bounded!Outer(u) /\ Bounded!Order(u)[2] = "writing"
  BY DEF Bounded!Order
<1>2. \A u \in Bounded!Threads \ {t} : step'[u] = step[u]
  BY DEF Bounded!Advance
<1>3. step'[t] = IF step[t] = 5 THEN 0 ELSE step[t] + 1
  BY DEF Bounded!Advance
<1>4. step[t] \in 0 .. 5
  OBVIOUS
<1>5. \A u \in Bounded!Threads \ {t} : u \in Before(s)' <=> u \in Before(s)
  BY <1>2 DEF Before, Bounded!Order, Bounded!Outer
<1>6. t \in Before(s)' <=> step'[t] \in {1, 2} /\ Bounded!Order(t)[step'[t]] = s
  BY DEF Before, Bounded!Order, Bounded!Outer
<1>7. t \in Before(s) <=> step[t] \in {1, 2} /\ Bounded!Order(t)[step[t]] = s
  BY DEF Before
<1>8. t \in Before(s)' <=> \/ step[t] = 0 /\ s = Bounded!Outer(t)
                           \/ step[t] = 1 /\ s = "writing"
  BY ONLY <1>1, <1>3, <1>4, <1>6, t \in Bounded!Threads
<1>9. t \in Before(s) <=> \/ step[t] = 1 /\ s = Bounded!Outer(t)
                          \/ step[t] = 2 /\ s = "writing"
  BY ONLY <1>1, <1>7, t \in Bounded!Threads
<1> QED
  BY <1>5, <1>8, <1>9

LEMMA TakersNext ==
    BoundedInv /\ [Bounded!Next]_(Bounded!vars) => SleepersAcquire' /\ TokensHaveTakers'
<1> SUFFICES ASSUME BoundedInv, [Bounded!Next]_(Bounded!vars) PROVE SleepersAcquire' /\ TokensHaveTakers'
  OBVIOUS
<1> DEFINE Sems == Bounded!Semaphores
<1>0. /\ step \in [Bounded!Threads -> 0 .. 5]
      /\ tokens \in [Sems -> Nat] /\ sleeping \in [Sems -> SUBSET Bounded!Threads]
      /\ \A s \in Sems : sleeping[s] \subseteq Before(s)
      /\ \A s \in Sems : sleeping[s] # {} => tokens[s] <= Cardinality(Awake(s))
      /\ TokensHaveTakers
  BY DEF BoundedInv, Bounded!TypeOK, SleepersAcquire, TokensHaveTakers, Awake
<1>a. \A s \in Sems : Before(s) \subseteq Bounded!Threads /\ Before(s)' \subseteq Bounded!Threads
  BY DEF Before
<1>b. ASSUME NEW t \in Bounded!Threads, Bounded!Advance(t), UNCHANGED sleeping, UNCHANGED tokens,
             \A s \in Sems : t \notin Before(s)
      PROVE  SleepersAcquire' /\ TokensHaveTakers'
  <2>1. \A s \in Sems : Before(s) \subseteq Before(s)'
    BY <1>0, <1>a, <1>b, BeforeMoves
  <2>2. SleepersAcquire'
    BY <1>0, <1>b, <2>1 DEF SleepersAcquire, Bounded!Semaphores
  <2>3. \A s \in Sems : sleeping'[s] \subseteq sleeping[s] /\ Awake(s) \subseteq Awake(s)'
    BY <1>b, <2>1 DEF Awake
  <2> QED
    BY <1>0, <1>b, <2>2, <2>3, TakersStay
<1>1. ASSUME NEW t \in Bounded!Threads, Bounded!Call(t) \/ Bounded!Push(t) \/ Bounded!Pop(t)
      PROVE  SleepersAcquire' /\ TokensHaveTakers'
  <2>1. /\ Bounded!Advance(t) /\ UNCHANGED sleeping /\ UNCHANGED tokens
        /\ step[t] = 0 \/ step[t] = 3
    BY <1>1 DEF Bounded!Call, Bounded!Push, Bounded!Pop, Bounded!semaphoreVars
  <2>2. \A s \in Sems : t \notin Before(s)
    BY <2>1 DEF Before
  <2> QED
    BY <1>b, <2>1, <2>2
<1>2. ASSUME NEW t \in Bounded!Threads, Bounded!AcquireStep(t) PROVE SleepersAcquire' /\ TokensHaveTakers'
  <2>1. PICK s : s = Bounded!Order(t)[step[t]]
    OBVIOUS
  <2>2. step[t] \in {1, 2} /\ t \in Before(s) /\ s \in Sems
        /\ s = IF step[t] = 1 THEN Bounded!Outer(t) ELSE "writing"
    BY <1>2, <2>1 DEF Bounded!AcquireStep, Bounded!Order, Bounded!Outer, Before, Bounded!Semaphores
  <2>3. CASE Bounded!Acquire(s, t) /\ Bounded!Advance(t)
    <3>1. /\ tokens' = [tokens EXCEPT ![s] = tokens[s] - 1] /\ tokens[s] > 0
          /\ sleeping' = sleeping /\ t \notin sleeping[s]
      BY <2>3 DEF Bounded!Acquire
    <3>2. /\ \A r \in Sems \ {s} : t \notin Before(r)
          /\ t \notin Before(s)'
      BY <1>0, <2>2, <2>3, BeforeMoves DEF Bounded!Outer
    <3>3. \A r \in Sems \ {s} : Before(r) \subseteq Before(r)'
      BY <1>0, <1>a, <2>3, <3>2, BeforeMoves
    <3>4. Before(s)' = Before(s) \ {t}
      BY <1>0, <1>a, <2>2, <2>3, <3>2, BeforeMoves
    <3>5. SleepersAcquire'
      BY <1>0, <3>1, <3>3, <3>4 DEF SleepersAcquire, Bounded!Semaphores
    <3>6. ASSUME NEW r \in Sems, sleeping'[r] # {} PROVE tokens'[r] <= Cardinality(Awake(r)')
      <4>1. CASE r = s
        <5>1. Awake(s)' = Awake(s) \ {t} /\ t \in Awake(s) /\ Awake(s) \subseteq Bounded!Threads
          BY <1>a, <2>2, <3>1, <3>4 DEF Awake
        <5>2. IsFiniteSet(Awake(s)) /\ Cardinality(Awake(s)) \in Nat
          BY <5>1, AwakeCounts
        <5>3. Cardinality(Awake(s)') = Cardinality(Awake(s)) - 1
          BY <5>1, <5>2, Counts
        <5>4. tokens[s] \in Nat /\ tokens'[s] = tokens[s] - 1 /\ tokens[s] <= Cardinality(Awake(s))
          BY <1>0, <2>2, <3>1, <3>6, <4>1
        <5> QED
          BY ONLY <4>1, <5>2, <5>3, <5>4
      <4>2. CASE r # s
        <5>1. Awake(r) \subseteq Awake(r)' /\ Awake(r)' \subseteq Bounded!Threads
          BY <1>a, <3>1, <3>3, <4>2 DEF Awake
        <5>2. Cardinality(Awake(r)) <= Cardinality(Awake(r)') /\ Cardinality(Awake(r)') \in Nat
          BY <5>1, AwakeCounts
        <5>3. Cardinality(Awake(r)) \in Nat
          BY <1>a, AwakeCounts DEF Awake
        <5>4. tokens[r] \in Nat /\ tokens'[r] = tokens[r] /\ tokens[r] <= Cardinality(Awake(r))
          BY <1>0, <2>2, <3>1, <3>6, <4>2
        <5> QED
          BY ONLY <5>2, <5>3, <5>4
      <4> QED
        BY <4>1, <4>2
    <3> QED
      BY <3>5, <3>6 DEF TokensHaveTakers, Awake, Bounded!Semaphores
  <2>4. CASE Bounded!Sleep(s, t) /\ UNCHANGED step
    <3>1. /\ sleeping' = [sleeping EXCEPT ![s] = sleeping[s] \cup {t}] /\ UNCHANGED tokens
          /\ tokens[s] = 0 /\ UNCHANGED step
      BY <2>4 DEF Bounded!Sleep
    <3>2. \A r : Before(r)' = Before(r)
      BY <3>1 DEF Before
    <3>3. SleepersAcquire'
      BY <1>0, <2>2, <3>1, <3>2 DEF SleepersAcquire, Bounded!Semaphores
    <3>4. ASSUME NEW r \in Sems, sleeping'[r] # {} PROVE tokens'[r] <= Cardinality(Awake(r)')
      <4>1. CASE r = s
        <5>1. Awake(s)' \subseteq Bounded!Threads
          BY <1>a, <2>2 DEF Awake
        <5>2. Cardinality(Awake(s)') \in Nat
          BY <5>1, AwakeCounts
        <5> QED
          BY <3>1, <4>1, <5>2
      <4>2. CASE r # s
        <5>1. Awake(r)' = Awake(r)
          BY <1>0, <2>2, <3>1, <3>2, <4>2 DEF Awake
        <5> QED
          BY <1>0, <2>2, <3>1, <3>4, <4>2, <5>1
      <4> QED
        BY <4>1, <4>2
    <3> QED
      BY <3>3, <3>4 DEF TokensHaveTakers, Awake, Bounded!Semaphores
  <2> QED
    BY <1>2, <2>1, <2>3, <2>4 DEF Bounded!AcquireStep
<1>3. ASSUME NEW t \in Bounded!Threads, Bounded!ReleaseStep(t) PROVE SleepersAcquire' /\ TokensHaveTakers'
  <2>1. PICK s : s = IF step[t] = 4 THEN "writing" ELSE Bounded!Last(t)
    OBVIOUS
  <2>2. /\ step[t] \in {4, 5} /\ Bounded!Advance(t) /\ s \in Sems
        /\ tokens' = [tokens EXCEPT ![s] = tokens[s] + 1]
        /\ \/ sleeping[s] = {} /\ sleeping' = sleeping
           \/ \E u \in sleeping[s] : sleeping' = [sleeping EXCEPT ![s] = sleeping[s] \ {u}]
    BY <1>3, <2>1 DEF Bounded!ReleaseStep, Bounded!Release, Bounded!Last, Bounded!Semaphores
  <2>3. ASSUME NEW r \in Sems PROVE Before(r)' = Before(r)
    <3>1. t \notin Before(r) /\ t \notin Before(r)'
      BY <1>0, <2>2, BeforeMoves
    <3>2. \A u \in Bounded!Threads \ {t} : u \in Before(r)' <=> u \in Before(r)
      BY <1>0, <2>2, BeforeMoves
    <3> QED
      BY ONLY <1>a, <3>1, <3>2
  <2>4. \A r \in Sems : sleeping'[r] \subseteq sleeping[r]
    BY <1>0, <2>2
  <2>5. SleepersAcquire'
    BY <1>0, <2>3, <2>4 DEF SleepersAcquire, Bounded!Semaphores
  <2>6. ASSUME NEW r \in Sems, sleeping'[r] # {} PROVE tokens'[r] <= Cardinality(Awake(r)')
    <3>1. CASE r = s
      <4>1. PICK u \in sleeping[s] : sleeping' = [sleeping EXCEPT ![s] = sleeping[s] \ {u}]
        BY <2>2, <2>6, <3>1
      <4>2. Awake(s)' = Awake(s) \cup {u} /\ u \notin Awake(s) /\ Awake(s) \subseteq Bounded!Threads
        BY <1>0, <1>a, <2>2, <2>3, <4>1 DEF Awake
      <4>3. IsFiniteSet(Awake(s)) /\ Cardinality(Awake(s)) \in Nat
        BY <4>2, AwakeCounts
      <4>4. Cardinality(Awake(s)') = Cardinality(Awake(s)) + 1
        BY <4>2, <4>3, Counts
      <4>5. tokens[s] \in Nat /\ tokens'[s] = tokens[s] + 1 /\ tokens[s] <= Cardinality(Awake(s))
        BY <1>0, <2>2, <4>1
      <4> QED
        BY ONLY <3>1, <4>3, <4>4, <4>5
    <3>2. CASE r # s
      <4>1. Awake(r)' = Awake(r)
        BY <1>0, <2>2, <2>3, <3>2 DEF Awake
      <4> QED
        BY <1>0, <2>2, <2>4, <2>6, <3>2, <4>1
    <3> QED
      BY <3>1, <3>2
  <2> QED
    BY <2>5, <2>6 DEF TokensHaveTakers, Awake, Bounded!Semaphores
<1>4. ASSUME NEW t \in Bounded!Threads, Bounded!WakeUp(t) PROVE SleepersAcquire' /\ TokensHaveTakers'
  <2>1. PICK s \in Sems : /\ sleeping' = [sleeping EXCEPT ![s] = sleeping[s] \ {t}]
                          /\ UNCHANGED <<tokens, step>>
    BY <1>4 DEF Bounded!WakeUp, Bounded!WakeSpuriously
  <2>2. \A r : Before(r)' = Before(r)
    BY <2>1 DEF Before
  <2>3. \A r \in Sems : sleeping'[r] \subseteq sleeping[r]
    BY <1>0, <2>1
  <2>4. SleepersAcquire'
    BY <1>0, <2>2, <2>3 DEF SleepersAcquire, Bounded!Semaphores
  <2>5. \A r \in Sems : Awake(r) \subseteq Awake(r)'
    BY <2>2, <2>3 DEF Awake
  <2> QED
    BY <1>0, <2>1, <2>3, <2>4, <2>5, TakersStay
<1>5. CASE UNCHANGED Bounded!vars
  <2>1. UNCHANGED <<tokens, sleeping, step>>
    BY <1>5 DEF Bounded!vars, Bounded!semaphoreVars
  <2>2. \A r : Before(r)' = Before(r)
    BY <2>1 DEF Before
  <2> QED
    BY <1>0, <2>1, <2>2 DEF SleepersAcquire, TokensHaveTakers
<1> QED
  BY <1>1, <1>2, <1>3, <1>4, <1>5 DEF Bounded!Next, Bounded!Step

LEMMA BoundedAlways == Spec => []BoundedInv
<1>1. Bounded!Init => BoundedInv
  <2> SUFFICES ASSUME Bounded!Init PROVE BoundedInv
    OBVIOUS
  <2> USE BoundedConstants DEF Bounded!Init, Bounded!SemaphoreInit
  <2>1. Bounded!TypeOK
    BY DEF Bounded!TypeOK
  <2>2. /\ StepsIn(Bounded!Threads, {3, 4}) = {}
        /\ StepsIn(Consumers, {2, 3}) = {} /\ StepsIn(Consumers, {4, 5}) = {}
        /\ StepsIn(Producers, {2, 3}) = {} /\ StepsIn(Producers, {4, 5}) = {}
    BY DEF StepsIn
  <2>3. Writers = 0 /\ Taking = 0 /\ Given = 0 /\ Giving = 0 /\ Taken = 0
    BY ONLY <2>2, FS_EmptySet DEF Writers, Taking, Given, Giving, Taken
  <2>4. tokens["writing"] = 1 /\ tokens["free"] = Capacity /\ tokens["occupied"] = 0 /\ Len(queue) = 0
    OBVIOUS
  <2>5. TokensAndPlaces
    BY <2>3, <2>4, BalanceIsTokens DEF Balance, WritersBalance, ItemsBalance, PlacesBalance
  <2> QED
    BY <2>1, <2>5 DEF BoundedInv, SleepersAcquire, TokensHaveTakers
<1>2. BoundedInv /\ [Bounded!Next]_(Bounded!vars) => BoundedInv'
  <2> SUFFICES ASSUME BoundedInv, [Bounded!Next]_(Bounded!vars) PROVE BoundedInv'
    OBVIOUS
  <2>1. Bounded!TypeOK' /\ Balance'
    BY BoundedNext
  <2>2. TokensAndPlaces'
    BY <2>1, BalanceIsTokens, PTL
  <2> QED
    BY <2>1, <2>2, TakersNext DEF BoundedInv
<1> QED
  BY <1>1, <1>2, Moves, PTL DEF Spec, Init

\* What the invariant says of the deque.
LEMMA DequeStaysSafe == BoundedInv => Bounded!DequeIsSafe /\ Bounded!NoSleeperBesideToken
<1> SUFFICES ASSUME BoundedInv PROVE Bounded!DequeIsSafe /\ Bounded!NoSleeperBesideToken
  OBVIOUS
<1>1. Balance /\ queue \in Seq(Producers) /\ tokens \in [{"free", "occupied", "writing"} -> Nat]
  BY BalanceIsTokens, BoundedConstants DEF BoundedInv, Bounded!TypeOK
<1>2. Numbers /\ Capacity \in Nat
  <2>1. Capacity \in Nat
    BY BoundedConstants
  <2> QED
    BY <1>1, <2>1, StepCounts DEF Numbers, Writers, Taking, Given, Giving, Taken
<1>3. Len(queue) <= Capacity
  BY ONLY <1>1, <1>2 DEF Numbers, Balance, PlacesBalance
<1>4. ASSUME NEW t \in Consumers, step[t] = 3 PROVE queue # <<>>
  <2>1. t \in StepsIn(Consumers, {2, 3}) /\ IsFiniteSet(StepsIn(Consumers, {2, 3}))
    BY <1>4, StepCounts DEF StepsIn
  <2>2. Taking # 0
    BY <2>1, FS_EmptySet, StepCounts DEF Taking
  <2>3. Len(queue) # 0
    BY ONLY <1>1, <1>2, <2>2 DEF Numbers, Balance, ItemsBalance
  <2> QED
    BY <2>3
<1>5. ASSUME NEW t \in Bounded!Threads, NEW u \in Bounded!Threads, step[t] = 3, step[u] = 3 PROVE t = u
  <2> SUFFICES ASSUME t # u PROVE FALSE
    OBVIOUS
  <2>1. PICK A : A = StepsIn(Bounded!Threads, {3, 4})
    OBVIOUS
  <2>2. IsFiniteSet(A) /\ Cardinality(A) \in Nat /\ t \in A /\ u \in A \ {t}
    BY <1>5, <2>1, StepCounts DEF StepsIn
  <2>3. IsFiniteSet(A \ {t}) /\ Cardinality(A \ {t}) = Cardinality(A) - 1
    BY <2>2, Counts
  <2>4. Cardinality(A \ {t}) # 0 /\ Cardinality(A \ {t}) \in Nat
    BY <2>2, <2>3, FS_EmptySet, Counts
  <2>5. Cardinality(A) <= 1
    BY <1>1, <1>2, <2>1 DEF Numbers, Balance, WritersBalance, Writers
  <2> QED
    BY ONLY <2>2, <2>3, <2>4, <2>5
<1>6. ASSUME NEW s \in Bounded!Semaphores
      PROVE  {t \in Bounded!Threads \ sleeping[s] :
                 step[t] \in {1, 2} /\ Bounded!Order(t)[step[t]] = s} = Before(s) \ sleeping[s]
  BY DEF Before
<1>7. ASSUME NEW s \in Bounded!Semaphores, sleeping[s] # {}
      PROVE  Cardinality(Before(s) \ sleeping[s]) >= tokens[s]
  <2>1. tokens[s] <= Cardinality(Before(s) \ sleeping[s])
    BY <1>7 DEF BoundedInv, TokensHaveTakers
  <2> QED
    BY <2>1
<1>8. Bounded!NoSleeperBesideToken
  BY <1>6, <1>7, SameCardinality DEF Bounded!NoSleeperBesideToken
<1> QED
  BY <1>3, <1>4, <1>5, <1>8, BoundedConstants DEF Bounded!DequeIsSafe

\* Nobody sleeps, while nobody is bound to wake it, beside what it waits for:
\* the futex mutex, the condition variable's tokens and the three semaphores of
\* the bounded queue lose no wake-up.
THEOREM WakeUpsAreKept == Spec => []NoWakeUpLost
<1>1. MutexInv /\ CondInv /\ BoundedInv => NoWakeUpLost
  BY TokensAreFound, DequeStaysSafe DEF MutexInv, NoWakeUpLost
<1> QED
  BY <1>1, MutexAlways, CondAlways, BoundedAlways, PTL

-----------------------------------------------------------------------------
(* The cyclic barrier *)

Participants == Barrier!Threads

\* The threads that entered and have not left.
Inside == {t \in Participants : pcBarrier[t] \in {"inside", "sleepInside"}}

\* t has passed g times, and may have come again.
Through(t, g) == passed[t] = g /\ arrived[t] = IF pcBarrier[t] = "idle" THEN g ELSE g + 1

\* When the barrier is closed everybody has passed as often, g times; when it
\* is open those who are inside have still to pass for the g-th time.
Generation(g) ==
    \A t \in Participants : IF opened /\ t \in Inside THEN arrived[t] = g /\ passed[t] + 1 = g
                                                     ELSE Through(t, g)

BarrierCounts ==
                 /\ waitingBarrier = Cardinality(Inside)
                 /\ waitingBarrier + 1 <= participants
                 /\ opened => waitingBarrier >= 1

BarrierInv == Barrier!TypeOK /\ BarrierCounts /\ \E g \in Nat : Generation(g)

LEMMA InsideCounts ==
    ASSUME Barrier!TypeOK
    PROVE  /\ IsFiniteSet(Participants) /\ Cardinality(Participants) = participants
           /\ IsFiniteSet(Inside) /\ Cardinality(Inside) \in Nat
<1>1. participants \in Nat
  BY DEF Barrier!TypeOK
<1>2. IsFiniteSet(Participants) /\ Cardinality(Participants) = participants
  BY <1>1, FS_Interval DEF Participants, Barrier!Threads
<1>3. Inside \subseteq Participants
  BY DEF Inside
<1> QED
  BY <1>2, <1>3, Counts

LEMMA BarrierNext == BarrierInv /\ [Barrier!Next]_(Barrier!vars) => BarrierInv'
<1> SUFFICES ASSUME BarrierInv, [Barrier!Next]_(Barrier!vars) PROVE BarrierInv'
  OBVIOUS
<1>0. /\ Barrier!TypeOK /\ BarrierCounts
      /\ participants \in Nat /\ waitingBarrier \in Nat
      /\ pcBarrier \in [Participants -> {"idle", "outside", "sleepOutside", "inside", "sleepInside"}]
      /\ arrived \in [Participants -> Nat] /\ passed \in [Participants -> Nat]
  BY DEF BarrierInv, Barrier!TypeOK, Participants
<1>g. PICK g \in Nat : Generation(g)
  BY DEF BarrierInv
<1>i. IsFiniteSet(Inside) /\ Cardinality(Inside) \in Nat
  BY <1>0, InsideCounts
<1>s. UNCHANGED participants => Participants' = Participants
  BY DEF Participants, Barrier!Threads
<1>1. ASSUME NEW t \in Participants, Barrier!Call(t) PROVE BarrierInv'
  <2> USE <1>0, <1>s, <1>1 DEF Barrier!Call
  <2>1. Inside' = Inside
    BY DEF Inside
  <2>2. Barrier!TypeOK'
    BY DEF Barrier!TypeOK, Barrier!Threads, Participants
  <2>3. BarrierCounts'
    BY <2>1 DEF BarrierCounts
  <2>4. Generation(g)'
    BY <1>g, <2>1 DEF Generation, Through, Inside
  <2> QED
    BY <2>2, <2>3, <2>4 DEF BarrierInv
<1>2. ASSUME NEW t \in Participants, Barrier!Outside(t) \/ Barrier!SleepAgain(t) \/ Barrier!SpuriousWakeUp(t)
      PROVE  BarrierInv'
  <2> USE <1>0, <1>s, <1>2 DEF Barrier!Outside, Barrier!SleepAgain, Barrier!SpuriousWakeUp
  <2>1. Inside' = Inside
    BY DEF Inside
  <2>2. Barrier!TypeOK'
    BY DEF Barrier!TypeOK, Barrier!Threads, Participants
  <2>3. BarrierCounts'
    BY <2>1 DEF BarrierCounts
  <2>4. Generation(g)'
    BY <1>g, <2>1 DEF Generation, Through, Inside
  <2> QED
    BY <2>2, <2>3, <2>4 DEF BarrierInv
<1>3. ASSUME NEW t \in Participants, Barrier!Enter(t) PROVE BarrierInv'
  <2> USE <1>0, <1>s, <1>3 DEF Barrier!Enter, Barrier!MayEnter
  <2>1. Inside' = Inside \cup {t} /\ t \notin Inside
    BY DEF Inside
  <2>2. Cardinality(Inside') = Cardinality(Inside) + 1
    BY <1>i, <2>1, Counts
  <2>3. Barrier!TypeOK'
    BY DEF Barrier!TypeOK, Barrier!Threads, Participants
  <2>4. BarrierCounts'
    BY <2>2 DEF BarrierCounts
  <2>5. Generation(g)'
    BY <1>g DEF Generation, Through
  <2> QED
    BY <2>3, <2>4, <2>5 DEF BarrierInv
<1>4. ASSUME NEW t \in Participants, Barrier!EnterLast(t) PROVE BarrierInv'
  <2> USE <1>0, <1>s, <1>4 DEF Barrier!EnterLast, Barrier!MayEnter
  <2>1. /\ ~ opened /\ waitingBarrier + 1 = participants /\ opened' = (waitingBarrier # 0)
        /\ passed' = [passed EXCEPT ![t] = passed[t] + 1] /\ UNCHANGED <<participants, waitingBarrier, arrived>>
        /\ pcBarrier[t] = "outside" /\ pcBarrier' = Barrier!Notified(t, "idle")
    OBVIOUS
  <2>2. pcBarrier' \in [Participants -> {"idle", "outside", "sleepOutside", "inside", "sleepInside"}]
    BY ONLY <1>0, <2>1 DEF Barrier!Notified, Participants
  <2>3. \A u \in Participants : u \in Inside' <=> u \in Inside
    BY ONLY <1>0, <1>s, <2>1 DEF Barrier!Notified, Participants, Inside
  <2>4. Inside' = Inside
    BY <2>3 DEF Inside
  <2>5. Inside = Participants \ {t}
    <3>1. Inside \subseteq Participants \ {t}
      BY <2>1 DEF Inside
    <3>2. /\ IsFiniteSet(Participants \ {t})
          /\ Cardinality(Participants \ {t}) = participants - 1
      BY InsideCounts, Counts
    <3>3. Cardinality(Inside) = participants - 1
      BY ONLY <1>0, <2>1 DEF BarrierCounts
    <3> QED
      BY <3>1, <3>2, <3>3, FS_Subset
  <2>6. Barrier!TypeOK'
    BY <2>2 DEF Barrier!TypeOK, Barrier!Threads, Participants
  <2>7. BarrierCounts'
    <3>1. opened' => waitingBarrier' # 0
      BY <2>1
    <3>2. Cardinality(Inside)' = Cardinality(Inside)
      BY <2>4
    <3>3. waitingBarrier' = waitingBarrier /\ participants' = participants
      BY <2>1
    <3> QED
      BY ONLY <1>0, <3>1, <3>2, <3>3 DEF BarrierCounts
  <2>8. \A u \in Participants : Through(u, g)
    BY <1>g DEF Generation
  <2>9. \A u \in Participants \ {t} : passed'[u] = g /\ arrived'[u] = g + 1
    BY <2>5, <2>8 DEF Through, Inside
  <2>10. passed'[t] = g + 1 /\ arrived'[t] = g + 1 /\ pcBarrier'[t] = "idle"
    BY <2>8 DEF Through, Barrier!Notified, Participants
  <2>11. waitingBarrier = 0 => Inside = {}
    BY <1>i, FS_EmptySet DEF BarrierCounts
  <2>12. Generation(g + 1)'
    BY ONLY <1>s, <2>1, <2>4, <2>5, <2>9, <2>10, <2>11, g \in Nat DEF Generation, Through
  <2> QED
    BY <2>6, <2>7, <2>12 DEF BarrierInv
<1>5. ASSUME NEW t \in Participants, Barrier!Leave(t) PROVE BarrierInv'
  <2>1. /\ pcBarrier[t] = "inside" /\ opened /\ waitingBarrier' = waitingBarrier - 1
        /\ opened' = (waitingBarrier' # 0) /\ passed' = [passed EXCEPT ![t] = passed[t] + 1]
        /\ UNCHANGED <<participants, arrived>>
        /\ pcBarrier' = IF waitingBarrier' = 0 THEN Barrier!Notified(t, "idle")
                                               ELSE [pcBarrier EXCEPT ![t] = "idle"]
    BY <1>5 DEF Barrier!Leave
  <2>2. pcBarrier' \in [Participants -> {"idle", "outside", "sleepOutside", "inside", "sleepInside"}]
    BY ONLY <1>0, <2>1 DEF Barrier!Notified, Participants
  <2>3. /\ pcBarrier'[t] = "idle"
        /\ \A u \in Participants \ {t} : (u \in Inside' <=> u \in Inside) /\ (pcBarrier'[u] = "idle" <=> pcBarrier[u] = "idle")
    BY ONLY <1>0, <1>s, <2>1, t \in Participants DEF Barrier!Notified, Participants, Inside
  <2>4. Inside' = Inside \ {t} /\ t \in Inside
    BY <1>s, <2>1, <2>3 DEF Inside
  <2>5. Cardinality(Inside') = Cardinality(Inside) - 1
    BY <1>i, <2>4, Counts
  <2>6. waitingBarrier >= 1 /\ waitingBarrier' \in Nat
    BY <1>0, <2>1 DEF BarrierCounts
  <2>7. Barrier!TypeOK'
    <3>1. waitingBarrier' \in 0 .. participants /\ opened' \in BOOLEAN
      BY ONLY <1>0, <2>1, <2>6 DEF BarrierCounts
    <3>2. passed' \in [Participants -> Nat]
      BY ONLY <1>0, <2>1
    <3> QED
      BY <1>0, <1>s, <2>1, <2>2, <3>1, <3>2 DEF Barrier!TypeOK, Barrier!Threads, Participants
  <2>8. BarrierCounts'
    <3>1. opened' => waitingBarrier' # 0
      BY <2>1
    <3>2. Cardinality(Inside)' = waitingBarrier'
      BY ONLY <1>0, <2>1, <2>5 DEF BarrierCounts
    <3>3. waitingBarrier' + 1 <= participants'
      BY ONLY <1>0, <2>1 DEF BarrierCounts
    <3> QED
      BY ONLY <2>6, <3>1, <3>2, <3>3 DEF BarrierCounts
  <2>9. waitingBarrier' = 0 => Inside' = {}
    <3>1. IsFiniteSet(Inside')
      BY <1>i, <2>4, Counts
    <3> QED
      BY <2>8, <3>1, FS_EmptySet DEF BarrierCounts
  <2>10. Through(t, g)'
    BY <1>0, <1>g, <2>1, <2>3, <2>4 DEF Generation, Through
  <2>11. ASSUME NEW u \in Participants \ {t}
         PROVE IF opened' /\ u \in Inside' THEN arrived'[u] = g /\ passed'[u] + 1 = g ELSE Through(u, g)'
    <3>1. passed'[u] = passed[u] /\ arrived'[u] = arrived[u]
      BY <1>0, <2>1
    <3>2. ~ opened' => u \notin Inside'
      BY <2>1, <2>9
    <3> QED
      BY <1>g, <2>1, <2>3, <3>1, <3>2 DEF Generation, Through
  <2>12. Generation(g)'
    BY <1>s, <2>1, <2>4, <2>10, <2>11 DEF Generation
  <2> QED
    BY <2>7, <2>8, <2>12 DEF BarrierInv
<1>6. CASE UNCHANGED Barrier!vars
  <2>1. Inside' = Inside /\ Participants' = Participants
    BY <1>6 DEF Barrier!vars, Inside, Participants, Barrier!Threads
  <2>2. Generation(g)' /\ BarrierCounts' /\ Barrier!TypeOK'
    BY <1>0, <1>6, <1>g, <2>1 DEF Barrier!vars, Generation, Through, BarrierCounts, Barrier!TypeOK, Barrier!Threads
  <2> QED
    BY <2>2 DEF BarrierInv
<1> QED
  BY <1>1, <1>2, <1>3, <1>4, <1>5, <1>6 DEF Barrier!Next, Barrier!Step, Participants

LEMMA BarrierAlways == Spec => []BarrierInv
<1>1. Barrier!Init => BarrierInv
  <2> SUFFICES ASSUME Barrier!Init PROVE BarrierInv
    OBVIOUS
  <2>1. participants \in Nat /\ participants >= 1
    BY SyncAssumption DEF SyncAssumption, Barrier!Init
  <2>2. Barrier!TypeOK
    <3>1. /\ pcBarrier \in [Participants -> {"idle"}]
          /\ arrived \in [Participants -> {0}] /\ passed \in [Participants -> {0}]
      BY DEF Barrier!Init, Participants
    <3>2. opened = FALSE /\ waitingBarrier = 0
      BY DEF Barrier!Init
    <3>3. waitingBarrier \in 0 .. participants
      BY ONLY <2>1, <3>2
    <3>4. opened \in BOOLEAN
      BY ONLY <3>2
    <3>5. \A S, T : S \subseteq T => [Participants -> S] \subseteq [Participants -> T]
      OBVIOUS
    <3>6. /\ pcBarrier \in [Participants -> {"idle", "outside", "sleepOutside", "inside", "sleepInside"}]
          /\ arrived \in [Participants -> Nat] /\ passed \in [Participants -> Nat]
      BY ONLY <3>1, <3>5
    <3> QED
      BY ONLY <2>1, <3>3, <3>4, <3>6 DEF Barrier!TypeOK, Participants
  <2>3. Inside = {}
    BY DEF Barrier!Init, Inside, Participants
  <2>4. BarrierCounts
    BY <2>1, <2>3, FS_EmptySet DEF Barrier!Init, BarrierCounts
  <2>5. Generation(0)
    BY DEF Barrier!Init, Generation, Through, Participants
  <2> QED
    BY <2>2, <2>4, <2>5 DEF BarrierInv
<1> QED
  BY <1>1, BarrierNext, Moves, PTL DEF Spec, Init

LEMMA GenerationsWait == BarrierInv => Barrier!NobodyPassesEarly
<1> SUFFICES ASSUME BarrierInv, NEW t \in Participants, NEW u \in Participants
             PROVE  passed[t] <= arrived[u]
  BY DEF Barrier!NobodyPassesEarly, Participants
<1>1. PICK g \in Nat : Generation(g)
  BY DEF BarrierInv
<1>2. arrived[u] = g \/ arrived[u] = g + 1
  BY <1>1 DEF Generation, Through
<1>3. passed[t] = g \/ passed[t] + 1 = g
  BY <1>1 DEF Generation, Through
<1>4. passed[t] \in Nat
  BY DEF BarrierInv, Barrier!TypeOK, Participants
<1> QED
  BY ONLY <1>2, <1>3, <1>4, g \in Nat

-----------------------------------------------------------------------------
(* Coroutines *)

Frames == [routine : Coroutines, prev : Coroutines \cup {Null}]

Depth(t) == 1 .. Len(resumptions[t])
Routine(t, i) == resumptions[t][i].routine

CoTypes ==
    /\ stateCo \in [Coroutines -> {"Waiting", "Running", "Terminated"}]
    /\ currentCo \in [Workers -> Coroutines \cup {Null}]
    /\ resumptions \in [Workers -> Seq(Frames)]
    /\ atCo \in [Workers -> {"user", "resumed", "unwinding"}]

\* The pointer names the innermost call's coroutine, and each call remembers
\* the one around it.
PointersChain ==
    \A t \in Workers :
        /\ currentCo[t] = Co!OnStackOf(t)
        /\ atCo[t] = "resumed" => resumptions[t] # <<>>
        /\ \A i \in Depth(t) :
              resumptions[t][i].prev = IF i = 1 THEN Null ELSE Routine(t, i - 1)

\* A coroutine is resumed by one call.
CalledOnce ==
    \A t, u \in Workers : \A i \in Depth(t) : \A j \in Depth(u) :
        Routine(t, i) = Routine(u, j) => t = u /\ i = j

\* It runs while it is, up to its switch back.
RunningIsCalled ==
    \A c \in Coroutines : stateCo[c] = "Running" <=>
        \E t \in Workers : \E i \in Depth(t) :
            Routine(t, i) = c /\ ~ (atCo[t] = "resumed" /\ i = Len(resumptions[t]))

CoInv == CoTypes /\ PointersChain /\ CalledOnce /\ RunningIsCalled

LEMMA EmptyHasNoCalls ==
    \A S : \A s \in Seq(S) : Len(s) \in Nat /\ (s = <<>> <=> Len(s) = 0)
  BY EmptySeq

LEMMA Popped ==
    ASSUME NEW S, NEW s \in Seq(S), s # <<>>
    PROVE  /\ SubSeq(s, 1, Len(s) - 1) \in Seq(S)
           /\ Len(SubSeq(s, 1, Len(s) - 1)) = Len(s) - 1
           /\ \A i \in 1 .. Len(s) - 1 : SubSeq(s, 1, Len(s) - 1)[i] = s[i]
           /\ Len(s) \in 1 .. Len(s)
<1>0. Len(s) \in Nat /\ Len(s) # 0
  BY EmptyHasNoCalls
<1>1. PICK m \in Int : m = Len(s) - 1 /\ m \in Nat
  BY ONLY <1>0
<1>2. \A i \in 1 .. m : s[i] \in S
  BY <1>1
<1>3. /\ SubSeq(s, 1, m) \in Seq(S)
      /\ Len(SubSeq(s, 1, m)) = IF 1 <= m THEN m - 1 + 1 ELSE 0
      /\ \A i \in 1 .. m - 1 + 1 : SubSeq(s, 1, m)[i] = s[1 + i - 1]
  BY <1>2, SubSeqProperties
<1>4. m - 1 + 1 = m /\ (~ (1 <= m) => m = 0) /\ \A i \in Int : 1 + i - 1 = i
  BY <1>1
<1>5. \A i \in 1 .. m : SubSeq(s, 1, m)[i] = s[i]
  BY ONLY <1>1, <1>3, <1>4
<1>6. Len(SubSeq(s, 1, m)) = m
  BY ONLY <1>3, <1>4
<1>7. Len(s) \in 1 .. Len(s)
  BY EmptyHasNoCalls
<1> QED
  BY ONLY <1>1, <1>3, <1>5, <1>6, <1>7

\* The coroutine on top of a thread's calls.
LEMMA TopIsLast ==
    ASSUME CoTypes, PointersChain, NEW t \in Workers
    PROVE  /\ Len(resumptions[t]) \in Nat
           /\ resumptions[t] # <<>> =>
                 /\ Len(resumptions[t]) \in Depth(t)
                 /\ Co!OnStackOf(t) = Routine(t, Len(resumptions[t]))
                 /\ currentCo[t] = Routine(t, Len(resumptions[t]))
                 /\ currentCo[t] \in Coroutines
           /\ resumptions[t] = <<>> => currentCo[t] = Null /\ Depth(t) = {}
           /\ currentCo[t] # Null <=> resumptions[t] # <<>>
<1>1. resumptions[t] \in Seq(Frames) /\ currentCo[t] = Co!OnStackOf(t) /\ currentCo[t] \in Coroutines \cup {Null}
  BY DEF CoTypes, PointersChain
<1>2. Len(resumptions[t]) \in Nat /\ (resumptions[t] = <<>> <=> Len(resumptions[t]) = 0)
  BY <1>1, EmptyHasNoCalls
<1>3. CASE resumptions[t] = <<>>
  BY <1>1, <1>2, <1>3 DEF Co!OnStackOf, Depth
<1>4. CASE resumptions[t] # <<>>
  <2>1. Len(resumptions[t]) \in Depth(t) /\ resumptions[t][Len(resumptions[t])] \in Frames
    BY <1>1, <1>2, <1>4 DEF Depth
  <2>2. Co!OnStackOf(t) = Routine(t, Len(resumptions[t]))
    BY <1>4 DEF Co!OnStackOf, Co!Last, Routine
  <2>3. Routine(t, Len(resumptions[t])) \in Coroutines
    BY <2>1 DEF Routine, Frames
  <2> QED
    BY <1>1, <1>2, <1>4, <2>1, <2>2, <2>3, NullIsNobody
<1> QED
  BY <1>3, <1>4

LEMMA CoResume ==
    ASSUME CoInv, NEW t \in Workers, NEW c \in Coroutines, Co!Resume(t, c)
    PROVE  CoInv'
<1> DEFINE e == [routine |-> c, prev |-> currentCo[t]]
<1>0. CoTypes /\ PointersChain /\ CalledOnce /\ RunningIsCalled
  BY DEF CoInv
<1>1. /\ atCo[t] = "user" /\ stateCo[c] = "Waiting"
      /\ currentCo' = [currentCo EXCEPT ![t] = c]
      /\ resumptions' = [resumptions EXCEPT ![t] = Append(resumptions[t], e)]
      /\ stateCo' = [stateCo EXCEPT ![c] = "Running"]
      /\ UNCHANGED atCo
  BY DEF Co!Resume, Co!MayResume
<1>2. \A u \in Workers : \A i \in Depth(u) : Routine(u, i) # c
  <2>1. \A u \in Workers : Depth(u) = DOMAIN resumptions[u]
    BY <1>0 DEF CoTypes, Depth
  <2> QED
    BY <2>1 DEF Co!Resume, Co!MayResume, Co!ResumedBy, Routine
<1>3. e \in Frames /\ e.routine = c /\ e.prev = currentCo[t]
  BY <1>0 DEF CoTypes, Frames
<1> HIDE DEF e
<1>l. PICK n : n = Len(resumptions[t])
  OBVIOUS
<1>4. resumptions[t] \in Seq(Frames) /\ n \in Nat
  BY <1>0, <1>l, EmptyHasNoCalls DEF CoTypes
<1>5. /\ resumptions'[t] \in Seq(Frames)
      /\ Len(resumptions'[t]) = n + 1
      /\ \A i \in 1 .. n : resumptions'[t][i] = resumptions[t][i]
      /\ resumptions'[t][n + 1] = e
  <2>1. resumptions'[t] = Append(resumptions[t], e)
    BY <1>0, <1>1 DEF CoTypes
  <2> QED
    BY ONLY <1>3, <1>4, <1>l, <2>1, Appended
<1>6. \A u \in Workers \ {t} : resumptions'[u] = resumptions[u]
  BY <1>0, <1>1 DEF CoTypes
<1>7. /\ Depth(t) = 1 .. n /\ Depth(t)' = 1 .. n + 1
      /\ \A i \in 1 .. n : Routine(t, i)' = Routine(t, i)
      /\ Routine(t, n + 1)' = c
      /\ \A u \in Workers \ {t} : Depth(u)' = Depth(u) /\ \A i : Routine(u, i)' = Routine(u, i)
  <2>1. Depth(t) = 1 .. n /\ Depth(t)' = 1 .. n + 1
    BY <1>l, <1>5 DEF Depth
  <2>2. \A i \in 1 .. n : Routine(t, i)' = Routine(t, i)
    BY <1>5 DEF Routine
  <2>3. Routine(t, n + 1)' = c
    BY <1>3, <1>5 DEF Routine
  <2>4. \A u \in Workers \ {t} : Depth(u)' = Depth(u) /\ \A i : Routine(u, i)' = Routine(u, i)
    BY <1>6 DEF Depth, Routine
  <2> QED
    BY <2>1, <2>2, <2>3, <2>4
<1>8. CoTypes'
  <2>1. resumptions' \in [Workers -> Seq(Frames)]
    BY <1>0, <1>1, <1>5 DEF CoTypes
  <2> QED
    BY <1>0, <1>1, <2>1 DEF CoTypes
<1>9. PointersChain'
  <2>1. ASSUME NEW u \in Workers \ {t}
        PROVE  /\ currentCo'[u] = Co!OnStackOf(u)' /\ (atCo'[u] = "resumed" => resumptions'[u] # <<>>)
               /\ \A i \in Depth(u)' :
                    resumptions'[u][i].prev = IF i = 1 THEN Null ELSE Routine(u, i - 1)'
    <3>1. Co!OnStackOf(u)' = Co!OnStackOf(u)
      BY <1>6 DEF Co!OnStackOf
    <3> QED
      BY <1>0, <1>1, <1>6, <1>7, <3>1 DEF CoTypes, PointersChain
  <2>2. currentCo'[t] = Co!OnStackOf(t)' /\ (atCo'[t] = "resumed" => resumptions'[t] # <<>>)
    <3>1. resumptions'[t] # <<>>
      BY <1>4, <1>5, EmptyHasNoCalls
    <3>2. Co!OnStackOf(t)' = resumptions'[t][n + 1].routine
      BY <1>5, <3>1 DEF Co!OnStackOf, Co!Last
    <3> QED
      BY <1>0, <1>1, <1>3, <1>5, <3>1, <3>2 DEF CoTypes
  <2>3. ASSUME NEW i \in Depth(t)'
        PROVE  resumptions'[t][i].prev = IF i = 1 THEN Null ELSE Routine(t, i - 1)'
    <3>1. CASE i \in 1 .. n
      <4>1. i # 1 => i - 1 \in 1 .. n
        BY <1>l, <1>4, <3>1
      <4>2. resumptions[t][i].prev = IF i = 1 THEN Null ELSE Routine(t, i - 1)
        BY <1>0, <1>7, <3>1 DEF PointersChain
      <4>3. resumptions'[t][i] = resumptions[t][i]
        BY <1>5, <3>1
      <4> QED
        BY ONLY <1>7, <4>1, <4>2, <4>3
    <3>2. CASE i = n + 1
      <4>1. resumptions'[t][i].prev = currentCo[t]
        BY <1>3, <1>5, <3>2
      <4>. n = 0 <=> resumptions[t] = <<>>
        BY <1>4, <1>l, EmptyHasNoCalls
      <4>2. n # 0 => currentCo[t] = Routine(t, n) /\ n \in 1 .. n
        BY <1>l, <1>0, <1>4, TopIsLast, EmptyHasNoCalls
      <4>3. n = 0 => currentCo[t] = Null
        BY <1>l, <1>0, <1>4, TopIsLast, EmptyHasNoCalls
      <4>4. n \in Nat
        BY <1>l, <1>4
      <4>5. i - 1 = n /\ (i = 1 <=> n = 0)
        BY ONLY <3>2, <4>4
      <4> QED
        BY <1>7, <4>1, <4>2, <4>3, <4>5
    <3>3. n \in Nat
      BY <1>l, <1>4
    <3> QED
      BY <1>7, <3>1, <3>2, <3>3
  <2> QED
    BY <2>1, <2>2, <2>3 DEF PointersChain
<1>n. n \in Nat
  BY <1>l, <1>4
<1>10. CalledOnce'
  <2> SUFFICES ASSUME NEW u \in Workers, NEW v \in Workers, NEW i \in Depth(u)', NEW j \in Depth(v)',
                      Routine(u, i)' = Routine(v, j)'
               PROVE  u = v /\ i = j
    BY DEF CalledOnce
  <2>1. \A w \in Workers : \A k \in Depth(w)' : \/ k \in Depth(w) /\ Routine(w, k)' = Routine(w, k)
                                                \/ w = t /\ k = n + 1 /\ Routine(w, k)' = c
    <3>1. \A k \in 1 .. n + 1 : k \in 1 .. n \/ k = n + 1
      BY ONLY <1>n
    <3> QED
      BY ONLY <1>7, <3>1
  <2> QED
    BY ONLY <1>0, <1>2, <2>1, u \in Workers, v \in Workers, i \in Depth(u)', j \in Depth(v)',
            Routine(u, i)' = Routine(v, j)' DEF CalledOnce
<1>11. RunningIsCalled'
  <2> SUFFICES ASSUME NEW d \in Coroutines
               PROVE stateCo'[d] = "Running" <=>
                     \E u \in Workers : \E i \in Depth(u)' :
                        Routine(u, i)' = d /\ ~ (atCo'[u] = "resumed" /\ i = Len(resumptions[u])')
    BY DEF RunningIsCalled
  <2>1. CASE d = c
    <3>1. stateCo'[d] = "Running"
      BY <1>0, <1>1, <2>1 DEF CoTypes
    <3>2. n + 1 \in Depth(t)' /\ Routine(t, n + 1)' = d /\ atCo'[t] # "resumed"
      BY <1>1, <1>7, <1>n, <2>1
    <3> QED
      BY ONLY <3>1, <3>2, t \in Workers
  <2>2. CASE d # c
    <3>1. stateCo'[d] = stateCo[d]
      BY <1>0, <1>1, <2>2 DEF CoTypes
    <3>2. ASSUME NEW u \in Workers
          PROVE (\E i \in Depth(u)' : Routine(u, i)' = d /\ ~ (atCo'[u] = "resumed" /\ i = Len(resumptions[u])'))
                <=> (\E i \in Depth(u) : Routine(u, i) = d /\ ~ (atCo[u] = "resumed" /\ i = Len(resumptions[u])))
      <4>1. CASE u = t
        <5>1. \A i \in 1 .. n + 1 : i \in 1 .. n \/ i = n + 1
          BY <1>n
        <5>2. 1 .. n \subseteq 1 .. n + 1
          BY <1>n
        <5>3. atCo[u] # "resumed" /\ atCo'[u] # "resumed"
          BY <1>1, <4>1
        <5> QED
          BY ONLY <1>7, <2>2, <4>1, <5>1, <5>2, <5>3
      <4>2. CASE u # t
        BY <1>1, <1>6, <1>7, <4>2
      <4> QED
        BY <4>1, <4>2
    <3> QED
      BY <1>0, <3>1, <3>2 DEF RunningIsCalled
  <2> QED
    BY <2>1, <2>2
<1> QED
  BY <1>8, <1>9, <1>10, <1>11 DEF CoInv

\* The coroutine on top switches back, and is no longer running.
LEMMA CoSwitchesBack ==
    ASSUME CoInv, NEW t \in Workers, atCo[t] # "resumed", resumptions[t] # <<>>,
           NEW s \in {"Waiting", "Terminated"},
           stateCo' = [stateCo EXCEPT ![currentCo[t]] = s],
           atCo' = [atCo EXCEPT ![t] = "resumed"],
           UNCHANGED <<currentCo, resumptions>>
    PROVE  CoInv'
<1>0. CoTypes /\ PointersChain /\ CalledOnce /\ RunningIsCalled
  BY DEF CoInv
<1>1. /\ Len(resumptions[t]) \in Depth(t) /\ currentCo[t] = Routine(t, Len(resumptions[t]))
      /\ currentCo[t] \in Coroutines
  BY <1>0, TopIsLast
<1>2. \A u : /\ Depth(u)' = Depth(u) /\ Len(resumptions[u])' = Len(resumptions[u])
             /\ Co!OnStackOf(u)' = Co!OnStackOf(u) /\ \A i : Routine(u, i)' = Routine(u, i)
  BY DEF Depth, Routine, Co!OnStackOf
<1>3. CoTypes'
  BY <1>0, <1>1 DEF CoTypes
<1>4. PointersChain'
  <2>1. \A u \in Workers : atCo'[u] = "resumed" => resumptions'[u] # <<>>
    BY <1>0 DEF CoTypes, PointersChain
  <2> QED
    BY <1>0, <1>2, <2>1 DEF PointersChain
<1>5. CalledOnce'
  BY <1>0, <1>2 DEF CalledOnce
<1>6. RunningIsCalled'
  <2> SUFFICES ASSUME NEW d \in Coroutines
               PROVE stateCo'[d] = "Running" <=>
                     \E u \in Workers : \E i \in Depth(u) :
                        Routine(u, i) = d /\ ~ (atCo'[u] = "resumed" /\ i = Len(resumptions[u]))
    BY <1>2 DEF RunningIsCalled
  <2>1. CASE d = currentCo[t]
    <3>1. stateCo'[d] # "Running"
      BY <1>0, <1>1, <2>1 DEF CoTypes
    <3>2. ASSUME NEW u \in Workers, NEW i \in Depth(u), Routine(u, i) = d
          PROVE  atCo'[u] = "resumed" /\ i = Len(resumptions[u])
      <4>1. u = t /\ i = Len(resumptions[t])
        BY <1>0, <1>1, <2>1, <3>2 DEF CalledOnce
      <4> QED
        BY <1>0, <4>1 DEF CoTypes
    <3> QED
      BY <3>1, <3>2
  <2>2. CASE d # currentCo[t]
    <3>1. stateCo'[d] = stateCo[d]
      BY <1>0, <1>1, <2>2 DEF CoTypes
    <3>2. ASSUME NEW u \in Workers, NEW i \in Depth(u), Routine(u, i) = d
          PROVE  (atCo'[u] = "resumed" /\ i = Len(resumptions[u])) <=> (atCo[u] = "resumed" /\ i = Len(resumptions[u]))
      BY <1>0, <1>1, <2>2, <3>2 DEF CoTypes
    <3> QED
      BY <1>0, <3>1, <3>2 DEF RunningIsCalled
  <2> QED
    BY <2>1, <2>2
<1> QED
  BY <1>3, <1>4, <1>5, <1>6 DEF CoInv

\* Resume is left: the top of the calls goes, and the pointer is set back.
LEMMA CoLeaves ==
    ASSUME CoInv, NEW t \in Workers, Co!LeaveResume(t)
    PROVE  CoInv'
<1>l. PICK n : n = Len(resumptions[t])
  OBVIOUS
<1>0. CoTypes /\ PointersChain /\ CalledOnce /\ RunningIsCalled
  BY DEF CoInv
<1>1. /\ atCo[t] = "resumed"
      /\ currentCo' = [currentCo EXCEPT ![t] = resumptions[t][n].prev]
      /\ resumptions' = [resumptions EXCEPT ![t] = SubSeq(resumptions[t], 1, n - 1)]
      /\ \E a \in {"user", "unwinding"} : atCo' = [atCo EXCEPT ![t] = a]
      /\ UNCHANGED stateCo
  BY <1>l DEF Co!LeaveResume, Co!RollBack, Co!Last, Co!Front
<1>2. resumptions[t] \in Seq(Frames) /\ resumptions[t] # <<>> /\ n \in Nat /\ n # 0
  BY <1>0, <1>1, <1>l, EmptyHasNoCalls DEF CoTypes, PointersChain
<1>3. /\ resumptions'[t] \in Seq(Frames)
      /\ Len(resumptions'[t]) = n - 1
      /\ \A i \in 1 .. n - 1 : resumptions'[t][i] = resumptions[t][i]
      /\ n \in 1 .. n
  <2>1. resumptions'[t] = SubSeq(resumptions[t], 1, n - 1)
    BY <1>0, <1>1 DEF CoTypes
  <2> QED
    BY ONLY <1>2, <1>l, <2>1, Popped
<1>4. \A u \in Workers \ {t} : resumptions'[u] = resumptions[u]
  BY <1>0, <1>1 DEF CoTypes
<1>5. Depth(t) = 1 .. n
  BY <1>l DEF Depth
<1>6. resumptions[t][n].prev = (IF n = 1 THEN Null ELSE Routine(t, n - 1)) /\ resumptions[t][n] \in Frames
  <2>1. resumptions[t][n].prev = (IF n = 1 THEN Null ELSE Routine(t, n - 1))
    BY <1>0, <1>3, <1>5 DEF PointersChain
  <2>2. resumptions[t][n] \in Frames
    BY ONLY <1>2, <1>3, <1>l
  <2> QED
    BY <2>1, <2>2
<1>7. atCo' \in [Workers -> {"user", "resumed", "unwinding"}] /\ atCo'[t] # "resumed"
      /\ \A u \in Workers \ {t} : atCo'[u] = atCo[u]
  BY <1>0, <1>1 DEF CoTypes
<1>8. /\ Depth(t)' = 1 .. n - 1
      /\ \A i \in 1 .. n - 1 : Routine(t, i)' = Routine(t, i)
      /\ \A u \in Workers \ {t} : Depth(u)' = Depth(u) /\ \A i : Routine(u, i)' = Routine(u, i)
  <2>1. Depth(t)' = 1 .. n - 1
    BY <1>3 DEF Depth
  <2>2. \A i \in 1 .. n - 1 : Routine(t, i)' = Routine(t, i)
    BY <1>3 DEF Routine
  <2>3. \A u \in Workers \ {t} : Depth(u)' = Depth(u) /\ \A i : Routine(u, i)' = Routine(u, i)
    BY <1>4 DEF Depth, Routine
  <2> QED
    BY <2>1, <2>2, <2>3
<1>9. CoTypes'
  <2>1. resumptions' \in [Workers -> Seq(Frames)]
    BY <1>0, <1>1, <1>3 DEF CoTypes
  <2>2. currentCo' \in [Workers -> Coroutines \cup {Null}]
    BY <1>0, <1>1, <1>6 DEF CoTypes, Frames
  <2> QED
    BY <1>0, <1>1, <1>7, <2>1, <2>2 DEF CoTypes
<1>10. PointersChain'
  <2>1. ASSUME NEW u \in Workers \ {t}
        PROVE  /\ currentCo'[u] = Co!OnStackOf(u)' /\ (atCo'[u] = "resumed" => resumptions'[u] # <<>>)
               /\ \A i \in Depth(u)' :
                    resumptions'[u][i].prev = IF i = 1 THEN Null ELSE Routine(u, i - 1)'
    <3>1. Co!OnStackOf(u)' = Co!OnStackOf(u)
      BY <1>4 DEF Co!OnStackOf
    <3> QED
      BY <1>0, <1>1, <1>4, <1>7, <1>8, <3>1 DEF CoTypes, PointersChain
  <2>2. currentCo'[t] = Co!OnStackOf(t)'
    <3>1. currentCo'[t] = IF n = 1 THEN Null ELSE Routine(t, n - 1)
      BY <1>0, <1>1, <1>6 DEF CoTypes
    <3>2. CASE n = 1
      <4>1. resumptions'[t] = <<>>
        BY <1>3, <3>2, EmptyHasNoCalls
      <4> QED
        BY <3>1, <3>2, <4>1 DEF Co!OnStackOf
    <3>3. CASE n # 1
      <4>1. n - 1 \in 1 .. n - 1 /\ Len(resumptions'[t]) # 0
        BY ONLY <1>2, <1>3, <3>3
      <4>2. resumptions'[t] # <<>>
        BY <1>3, <4>1, EmptyHasNoCalls
      <4>3. Co!OnStackOf(t)' = resumptions'[t][n - 1].routine
        BY <1>3, <4>2 DEF Co!OnStackOf, Co!Last
      <4>4. resumptions'[t][n - 1] = resumptions[t][n - 1]
        BY <1>3, <4>1
      <4> QED
        BY <3>1, <3>3, <4>3, <4>4 DEF Routine
    <3> QED
      BY <3>2, <3>3
  <2>3. ASSUME NEW i \in Depth(t)'
        PROVE  resumptions'[t][i].prev = IF i = 1 THEN Null ELSE Routine(t, i - 1)'
    <3>1. i \in 1 .. n - 1 /\ i \in 1 .. n /\ (i # 1 => i - 1 \in 1 .. n - 1)
      BY <1>2, <1>8
    <3>2. resumptions[t][i].prev = IF i = 1 THEN Null ELSE Routine(t, i - 1)
      BY <1>0, <1>5, <3>1 DEF PointersChain
    <3>3. resumptions'[t][i] = resumptions[t][i]
      BY <1>3, <3>1
    <3> QED
      BY ONLY <1>8, <3>1, <3>2, <3>3
  <2> QED
    BY <1>7, <2>1, <2>2, <2>3 DEF PointersChain
<1>11. \A w \in Workers : \A k \in Depth(w)' :
          k \in Depth(w) /\ Routine(w, k)' = Routine(w, k) /\ ~ (w = t /\ k = n)
  <2>1. \A k \in 1 .. n - 1 : k \in 1 .. n /\ k # n
    BY ONLY <1>2
  <2> QED
    BY ONLY <1>5, <1>8, <2>1
<1>12. \A w \in Workers : \A k \in Depth(w) : ~ (w = t /\ k = n) => k \in Depth(w)'
  <2>1. \A k \in 1 .. n : k # n => k \in 1 .. n - 1
    BY ONLY <1>2
  <2> QED
    BY ONLY <1>5, <1>8, <2>1
<1>13. CalledOnce'
  BY ONLY <1>0, <1>11 DEF CalledOnce
<1>14. RunningIsCalled'
  <2> SUFFICES ASSUME NEW d \in Coroutines
               PROVE stateCo'[d] = "Running" <=>
                     \E u \in Workers : \E i \in Depth(u)' :
                        Routine(u, i)' = d /\ ~ (atCo'[u] = "resumed" /\ i = Len(resumptions[u])')
    BY DEF RunningIsCalled
  <2>1. ASSUME NEW u \in Workers
        PROVE (\E i \in Depth(u)' : Routine(u, i)' = d /\ ~ (atCo'[u] = "resumed" /\ i = Len(resumptions[u])'))
              <=> (\E i \in Depth(u) : Routine(u, i) = d /\ ~ (atCo[u] = "resumed" /\ i = Len(resumptions[u])))
    <3>1. CASE u = t
      BY <1>l, <1>1, <1>7, <1>11, <1>12, <3>1
    <3>2. CASE u # t
      BY <1>4, <1>7, <1>8, <3>2
    <3> QED
      BY <3>1, <3>2
  <2> QED
    BY <1>0, <1>1, <2>1 DEF RunningIsCalled
<1> QED
  BY <1>9, <1>10, <1>13, <1>14 DEF CoInv

LEMMA CoNext == CoInv /\ [Co!Next]_(Co!vars) => CoInv'
<1> SUFFICES ASSUME CoInv, [Co!Next]_(Co!vars) PROVE CoInv'
  OBVIOUS
<1>0. CoTypes /\ PointersChain /\ CalledOnce /\ RunningIsCalled
  BY DEF CoInv
<1>1. ASSUME NEW t \in Workers, NEW c \in Coroutines, Co!Resume(t, c) PROVE CoInv'
  BY <1>1, CoResume
<1>2. ASSUME NEW t \in Workers, Co!Suspend(t) PROVE CoInv'
  <2>1. atCo[t] # "resumed" /\ resumptions[t] # <<>>
    BY <1>0, <1>2, TopIsLast DEF Co!Suspend
  <2>2. /\ stateCo' = [stateCo EXCEPT ![currentCo[t]] = "Waiting"]
        /\ atCo' = [atCo EXCEPT ![t] = "resumed"] /\ UNCHANGED <<currentCo, resumptions>>
    BY <1>2 DEF Co!Suspend
  <2> QED
    BY <2>1, <2>2, CoSwitchesBack
<1>3. ASSUME NEW t \in Workers, Co!RoutineReturns(t) \/ Co!RoutineThrows(t) PROVE CoInv'
  <2>1. atCo[t] # "resumed" /\ resumptions[t] # <<>> /\ currentCo[t] = Co!OnStackOf(t)
    BY <1>0, <1>3 DEF Co!RoutineReturns, Co!RoutineThrows, PointersChain
  <2>2. /\ stateCo' = [stateCo EXCEPT ![currentCo[t]] = "Terminated"]
        /\ atCo' = [atCo EXCEPT ![t] = "resumed"] /\ UNCHANGED <<currentCo, resumptions>>
    BY <1>3, <2>1 DEF Co!RoutineReturns, Co!RoutineThrows, Co!Terminate
  <2> QED
    BY <2>1, <2>2, CoSwitchesBack
<1>4. ASSUME NEW t \in Workers, Co!LeaveResume(t) PROVE CoInv'
  BY <1>4, CoLeaves
<1>5. ASSUME NEW t \in Workers, Co!Catch(t) PROVE CoInv'
  <2>1. /\ atCo[t] = "unwinding" /\ atCo' = [atCo EXCEPT ![t] = "user"]
        /\ UNCHANGED <<stateCo, currentCo, resumptions>>
    BY <1>5 DEF Co!Catch
  <2>2. \A u : /\ Depth(u)' = Depth(u) /\ Len(resumptions[u])' = Len(resumptions[u])
               /\ Co!OnStackOf(u)' = Co!OnStackOf(u) /\ \A i : Routine(u, i)' = Routine(u, i)
    BY <2>1 DEF Depth, Routine, Co!OnStackOf
  <2>3. \A u \in Workers : atCo'[u] = "resumed" <=> atCo[u] = "resumed"
    BY <1>0, <2>1 DEF CoTypes
  <2>4. CoTypes'
    BY <1>0, <2>1 DEF CoTypes
  <2>5. PointersChain' /\ CalledOnce'
    BY <1>0, <2>1, <2>2, <2>3 DEF PointersChain, CalledOnce
  <2>6. RunningIsCalled'
    BY <1>0, <2>1, <2>2, <2>3 DEF RunningIsCalled
  <2> QED
    BY <2>4, <2>5, <2>6 DEF CoInv
<1>6. CASE UNCHANGED Co!vars
  BY <1>0, <1>6 DEF Co!vars, CoInv, CoTypes, PointersChain, CalledOnce, RunningIsCalled, Depth, Routine, Co!OnStackOf
<1> QED
  BY <1>1, <1>2, <1>3, <1>4, <1>5, <1>6 DEF Co!Next

LEMMA CoAlways == Spec => []CoInv
<1>1. Co!Init => CoInv
  <2> SUFFICES ASSUME Co!Init PROVE CoInv
    OBVIOUS
  <2>1. CoTypes
    BY EmptySeq DEF Co!Init, CoTypes
  <2>2. \A t \in Workers : resumptions[t] = <<>> /\ Depth(t) = {}
    BY DEF Co!Init, Depth
  <2>3. PointersChain
    BY <2>2 DEF Co!Init, PointersChain, Co!OnStackOf
  <2>4. CalledOnce /\ RunningIsCalled
    BY <2>2 DEF Co!Init, CalledOnce, RunningIsCalled
  <2> QED
    BY <2>1, <2>3, <2>4 DEF CoInv
<1> QED
  BY <1>1, CoNext, Moves, PTL DEF Spec, Init

LEMMA CoroutinesAreFound == CoInv => Co!CurrentIsRunning /\ Co!ResumedOnce
<1> SUFFICES ASSUME CoInv PROVE Co!CurrentIsRunning /\ Co!ResumedOnce
  OBVIOUS
<1>0. CoTypes /\ PointersChain /\ CalledOnce /\ RunningIsCalled
  BY DEF CoInv
<1>1. Co!CurrentIsRunning
  BY <1>0 DEF PointersChain, Co!CurrentIsRunning
<1>2. \A t \in Workers : /\ DOMAIN resumptions[t] = Depth(t)
                         /\ Co!ResumedBy(t) = {Routine(t, i) : i \in Depth(t)}
  BY <1>0 DEF CoTypes, Depth, Co!ResumedBy, Routine
<1>3. \A t, u \in Workers : t # u => Co!ResumedBy(t) \cap Co!ResumedBy(u) = {}
  BY <1>0, <1>2 DEF CalledOnce
<1>4. \A t \in Workers : \A i, j \in DOMAIN resumptions[t] :
          resumptions[t][i].routine = resumptions[t][j].routine => i = j
  BY <1>0, <1>2 DEF CalledOnce, Routine
<1>5. ASSUME NEW t \in Workers, NEW i \in Depth(t)
      PROVE  Routine(t, i) = Co!OnStackOf(t) <=> i = Len(resumptions[t])
  <2>1. Depth(t) # {}
    BY <1>5
  <2>2. Co!OnStackOf(t) = Routine(t, Len(resumptions[t])) /\ Len(resumptions[t]) \in Depth(t)
    BY <1>0, <2>1, TopIsLast
  <2> QED
    BY <1>0, <2>2 DEF CalledOnce
<1>6. \A c \in Coroutines : stateCo[c] = "Running" <=>
          \E t \in Workers : c \in Co!ResumedBy(t)
                             /\ ~ (atCo[t] = "resumed" /\ c = Co!OnStackOf(t))
  BY <1>0, <1>2, <1>5 DEF RunningIsCalled
<1> QED
  BY <1>1, <1>3, <1>4, <1>6 DEF Co!ResumedOnce

-----------------------------------------------------------------------------
(* Fibers that yield *)

YieldOperations == {<<"yield">>, <<"go", 3>>, <<"throw">>}

\* Worker w has a fiber in its hands.
Holding(w) == atYield[w] \in {"fiber", "suspended", "completed"}

YieldTypes ==
    /\ tasks \in Seq(Fibers)
    /\ atYield \in [Workers -> {"idle", "exited", "fiber", "suspended", "completed", "left"}]
    /\ task \in [Workers -> Fibers \cup {Null}]
    /\ currentYield \in [Workers -> Fibers \cup {Null}]
    /\ todoYield \in [Fibers -> Seq(YieldOperations)]
    /\ alive \subseteq Fibers /\ threw \subseteq Fibers /\ dropped \subseteq Fibers
    /\ \A w \in Workers : task[w] = Null <=> atYield[w] \in {"idle", "exited"}

\* A fiber has no two places.
YieldersApart ==
    /\ \A w, v \in Workers : Holding(w) /\ Holding(v) /\ task[w] = task[v] => w = v
    /\ \A w \in Workers : Holding(w) => /\ task[w] \notin threw \cup dropped
                                        /\ \A i \in 1 .. Len(tasks) : tasks[i] # task[w]
    /\ \A i, j \in 1 .. Len(tasks) : tasks[i] = tasks[j] => i = j
    /\ \A i \in 1 .. Len(tasks) : tasks[i] \notin threw \cup dropped
    /\ threw \cap dropped = {}

YieldPlaced(f) == \/ \E w \in Workers : Holding(w) /\ task[w] = f
                  \/ \E i \in 1 .. Len(tasks) : tasks[i] = f
                  \/ f \in threw \cup dropped

\* It has one while it exists.
YieldersLive == \A f \in Fibers : f \in alive <=> YieldPlaced(f)

\* What is still to be started has not been, and is started once.
YieldersStartOnce ==
    \A f, g \in Fibers : \A i \in 1 .. Len(todoYield[f]) : \A j \in 1 .. Len(todoYield[g]) :
        todoYield[f][i] = <<"go", 3>> =>
            /\ 3 \notin alive
            /\ todoYield[g][j] = <<"go", 3>> => f = g /\ i = j

YieldInv == YieldTypes /\ YieldersApart /\ YieldersLive /\ YieldersStartOnce /\ Yielding!SelfIsRunning

LEMMA ThreeFibers == Fibers = {1, 2, 3} /\ Null \notin Fibers
  BY SyncAssumption DEF SyncAssumption

\* The rest of a script.
LEMMA TailIsShorter ==
    ASSUME NEW S, NEW s \in Seq(S), s # <<>>
    PROVE  /\ Tail(s) \in Seq(S) /\ Head(s) \in S /\ Head(s) = s[1]
           /\ Len(s) \in Nat /\ Len(Tail(s)) \in Nat /\ 1 \in 1 .. Len(s)
           /\ \A i \in 1 .. Len(Tail(s)) : i + 1 \in 1 .. Len(s) /\ Tail(s)[i] = s[i + 1] /\ i + 1 # 1
<1>1. Len(s) \in Nat /\ Len(s) # 0
  BY EmptyHasNoCalls
<1>2. Tail(s) \in Seq(S) /\ Len(Tail(s)) = Len(s) - 1 /\ \A i \in 1 .. Len(s) - 1 : Tail(s)[i] = s[i + 1]
  BY Shortened
<1>3. Head(s) = s[1] /\ s[1] \in S
  BY <1>1
<1> QED
  BY ONLY <1>1, <1>2, <1>3

\* An operation is taken from the script: what is left of it is as it was.
LEMMA YieldToDo ==
    ASSUME YieldInv, NEW w \in Workers, NEW name \in {"yield", "go", "throw"}, Yielding!ToDo(w, name)
    PROVE  /\ atYield[w] = "fiber" /\ task[w] \in Fibers /\ currentYield[w] = task[w]
           /\ todoYield' \in [Fibers -> Seq(YieldOperations)]
           /\ \A f \in Fibers : \A i \in 1 .. Len(todoYield'[f]) :
                 \E j \in 1 .. Len(todoYield[f]) :
                    todoYield'[f][i] = todoYield[f][j] /\ j = IF f = task[w] THEN i + 1 ELSE i
           /\ 1 \in 1 .. Len(todoYield[task[w]])
           /\ name = "go" => todoYield[task[w]][1] = <<"go", 3>> /\ Head(todoYield[task[w]])[2] = 3
<1>1. YieldTypes /\ Yielding!SelfIsRunning
  BY DEF YieldInv
<1>2. /\ atYield[w] = "fiber" /\ todoYield[task[w]] # <<>> /\ Head(todoYield[task[w]])[1] = name
      /\ todoYield' = [todoYield EXCEPT ![task[w]] = Tail(todoYield[task[w]])]
  BY DEF Yielding!ToDo
<1>3. task[w] \in Fibers /\ currentYield[w] = task[w]
  BY <1>1, <1>2 DEF YieldTypes, Yielding!SelfIsRunning
<1>4. PICK s \in Seq(YieldOperations) : s = todoYield[task[w]]
  BY <1>1, <1>3 DEF YieldTypes
<1>5. /\ Tail(s) \in Seq(YieldOperations) /\ Head(s) \in YieldOperations /\ Head(s) = s[1]
      /\ 1 \in 1 .. Len(s)
      /\ \A i \in 1 .. Len(Tail(s)) : i + 1 \in 1 .. Len(s) /\ Tail(s)[i] = s[i + 1] /\ i + 1 # 1
  BY <1>2, <1>4, TailIsShorter
<1>6. todoYield' \in [Fibers -> Seq(YieldOperations)]
  BY <1>1, <1>2, <1>4, <1>5 DEF YieldTypes
<1>7. todoYield'[task[w]] = Tail(s) /\ \A f \in Fibers \ {task[w]} : todoYield'[f] = todoYield[f]
  BY <1>1, <1>2, <1>3, <1>4 DEF YieldTypes
<1>8. ASSUME NEW f \in Fibers, NEW i \in 1 .. Len(todoYield'[f])
      PROVE  \E j \in 1 .. Len(todoYield[f]) :
                todoYield'[f][i] = todoYield[f][j] /\ j = IF f = task[w] THEN i + 1 ELSE i
  BY ONLY <1>4, <1>5, <1>7, f \in Fibers, i \in 1 .. Len(todoYield'[f])
<1>9. name = "go" => s[1] = <<"go", 3>> /\ Head(s)[2] = 3
  BY <1>2, <1>4, <1>5 DEF YieldOperations
<1> QED
  BY <1>2, <1>3, <1>4, <1>5, <1>6, <1>8, <1>9

\* Scripts stay as they are.
LEMMA YieldStartsKept ==
    ASSUME YieldersStartOnce, UNCHANGED todoYield, 3 \in alive' => 3 \in alive
    PROVE  YieldersStartOnce'
<1> SUFFICES ASSUME NEW f \in Fibers, NEW g \in Fibers,
                    NEW i \in 1 .. Len(todoYield'[f]), NEW j \in 1 .. Len(todoYield'[g]),
                    todoYield'[f][i] = <<"go", 3>>
             PROVE  3 \notin alive' /\ (todoYield'[g][j] = <<"go", 3>> => f = g /\ i = j)
  BY DEF YieldersStartOnce
<1>1. /\ i \in 1 .. Len(todoYield[f]) /\ j \in 1 .. Len(todoYield[g])
      /\ todoYield[f][i] = <<"go", 3>>
  OBVIOUS
<1>2. 3 \notin alive /\ (todoYield[g][j] = <<"go", 3>> => f = g /\ i = j)
  BY ONLY YieldersStartOnce, <1>1, f \in Fibers, g \in Fibers DEF YieldersStartOnce
<1> QED
  BY <1>2

\* No start is added.
LEMMA YieldStartsStay ==
    ASSUME YieldersStartOnce, 3 \in alive' => 3 \in alive \/ \A f \in Fibers : \A i \in 1 .. Len(todoYield'[f]) : todoYield'[f][i] # <<"go", 3>>,
           NEW e \in Fibers \cup {Null},
           \A f \in Fibers : \A i \in 1 .. Len(todoYield'[f]) :
                 \E j \in 1 .. Len(todoYield[f]) :
                    todoYield'[f][i] = todoYield[f][j] /\ j = IF f = e THEN i + 1 ELSE i
    PROVE  YieldersStartOnce'
<1> SUFFICES ASSUME NEW f \in Fibers, NEW g \in Fibers,
                    NEW i \in 1 .. Len(todoYield'[f]), NEW j \in 1 .. Len(todoYield'[g]),
                    todoYield'[f][i] = <<"go", 3>>
             PROVE  3 \notin alive' /\ (todoYield'[g][j] = <<"go", 3>> => f = g /\ i = j)
  BY DEF YieldersStartOnce
<1>1. PICK k \in 1 .. Len(todoYield[f]) :
          todoYield'[f][i] = todoYield[f][k] /\ k = IF f = e THEN i + 1 ELSE i
  OBVIOUS
<1>2. PICK l \in 1 .. Len(todoYield[g]) :
          todoYield'[g][j] = todoYield[g][l] /\ l = IF g = e THEN j + 1 ELSE j
  OBVIOUS
<1>3. 3 \notin alive
  BY <1>1 DEF YieldersStartOnce
<1>4. ASSUME todoYield'[g][j] = <<"go", 3>> PROVE f = g /\ k = l
  <2>1. todoYield[f][k] = <<"go", 3>> /\ todoYield[g][l] = <<"go", 3>>
    BY <1>1, <1>2, <1>4
  <2> QED
    BY ONLY <2>1, YieldersStartOnce, f \in Fibers, g \in Fibers,
            k \in 1 .. Len(todoYield[f]), l \in 1 .. Len(todoYield[g]) DEF YieldersStartOnce
<1>5. f = g /\ k = l => i = j
  BY <1>1, <1>2
<1> QED
  BY <1>3, <1>4, <1>5

\* A worker takes the first task.
LEMMA YieldStep == ASSUME YieldInv, NEW w \in Workers, Yielding!Step(w) PROVE YieldInv'
<1>0. YieldTypes /\ YieldersApart /\ YieldersLive /\ YieldersStartOnce /\ Yielding!SelfIsRunning
  BY DEF YieldInv
<1>1. PICK f : f = Head(tasks)
  OBVIOUS
<1>2. /\ atYield[w] = "idle" /\ tasks # <<>> /\ tasks' = Tail(tasks)
      /\ task' = [task EXCEPT ![w] = f] /\ currentYield' = [currentYield EXCEPT ![w] = f]
      /\ atYield' = [atYield EXCEPT ![w] = "fiber"]
      /\ UNCHANGED <<todoYield, alive, threw, dropped>>
  BY <1>1 DEF Yielding!Step, Yielding!Goto, Yielding!fates
<1>3. /\ tasks' \in Seq(Fibers) /\ f \in Fibers /\ f = tasks[1] /\ 1 \in 1 .. Len(tasks)
      /\ \A i \in 1 .. Len(tasks') : i + 1 \in 1 .. Len(tasks) /\ tasks'[i] = tasks[i + 1] /\ i + 1 # 1
      /\ Len(tasks) \in Nat /\ Len(tasks') \in Nat
  BY <1>0, <1>1, <1>2, TailIsShorter DEF YieldTypes
<1>4. \A i \in 1 .. Len(tasks) : i # 1 => \E j \in 1 .. Len(tasks') : tasks'[j] = tasks[i]
  <2>1. Len(tasks') = Len(tasks) - 1
    BY <1>0, <1>2, Shortened DEF YieldTypes
  <2>2. \A i \in 1 .. Len(tasks) : i # 1 => i - 1 \in 1 .. Len(tasks') /\ (i - 1) + 1 = i
    BY ONLY <1>3, <2>1
  <2> QED
    BY <1>3, <2>2
<1>5. YieldTypes'
  BY <1>0, <1>2, <1>3, NullIsNobody DEF YieldTypes
<1>6. YieldersApart'
  <2>1. \A v \in Workers : /\ v # w => (Holding(v)' <=> Holding(v)) /\ task'[v] = task[v]
                           /\ task'[w] = f
    BY <1>0, <1>2 DEF Holding, YieldTypes
  <2>2. \A v \in Workers : Holding(v) => task[v] # f
    BY <1>0, <1>3 DEF YieldersApart
  <2>3. f \notin threw \cup dropped /\ \A i \in 1 .. Len(tasks') : tasks'[i] # f
    BY <1>0, <1>3 DEF YieldersApart
  <2>4. \A i, j \in 1 .. Len(tasks') : tasks'[i] = tasks'[j] => i = j
    <3>1. \A i, j \in 1 .. Len(tasks') : tasks'[i] = tasks'[j] => i + 1 = j + 1
      BY <1>0, <1>3 DEF YieldersApart
    <3> QED
      BY ONLY <3>1
  <2> QED
    BY <1>0, <1>2, <1>3, <2>1, <2>2, <2>3, <2>4 DEF YieldersApart
<1>7. YieldersLive'
  <2>1. \A v \in Workers : /\ v # w => (Holding(v)' <=> Holding(v)) /\ task'[v] = task[v]
                           /\ task'[w] = f /\ Holding(w)' /\ ~ Holding(w)
    BY <1>0, <1>2 DEF Holding, YieldTypes
  <2>2. ASSUME NEW g \in Fibers PROVE YieldPlaced(g)' <=> YieldPlaced(g)
    <3>1. (\E v \in Workers : Holding(v)' /\ task'[v] = g) <=> g = f \/ \E v \in Workers : Holding(v) /\ task[v] = g
      BY <2>1
    <3>2. (\E i \in 1 .. Len(tasks) : tasks[i] = g) <=> g = f \/ \E i \in 1 .. Len(tasks') : tasks'[i] = g
      BY ZenonT(60), <1>3, <1>4
    <3>3. UNCHANGED <<threw, dropped>>
      BY <1>2
    <3> QED
      BY <3>1, <3>2, <3>3 DEF YieldPlaced
  <2> QED
    BY <1>0, <1>2, <2>2 DEF YieldersLive
<1>8. YieldersStartOnce'
  BY <1>0, <1>2, YieldStartsKept
<1>9. Yielding!SelfIsRunning'
  BY <1>0, <1>2 DEF Yielding!SelfIsRunning, YieldTypes
<1> QED
  BY <1>5, <1>6, <1>7, <1>8, <1>9 DEF YieldInv

\* The steps of a worker that leave the queue and the fibers alone.
LEMMA YieldPasses ==
    ASSUME YieldInv, NEW w \in Workers,
           Yielding!Exit(w) \/ Yielding!Finish(w) \/ Yielding!Yield(w) \/ Yielding!LeaveStep(w)
    PROVE  YieldInv'
<1>0. YieldTypes /\ YieldersApart /\ YieldersLive /\ YieldersStartOnce /\ Yielding!SelfIsRunning
  BY DEF YieldInv
<1>1. UNCHANGED <<tasks, alive, threw, dropped>>
  BY DEF Yielding!Exit, Yielding!Finish, Yielding!Yield, Yielding!LeaveStep, Yielding!pool, Yielding!fates
<1>2. \A v \in Workers : (Holding(v)' <=> Holding(v)) /\ (Holding(v) => task'[v] = task[v])
  <2>1. CASE Yielding!LeaveStep(w)
    BY <1>0, <2>1 DEF YieldTypes, Holding, Yielding!LeaveStep, Yielding!Goto
  <2>2. CASE Yielding!Exit(w)
    BY <1>0, <2>2 DEF YieldTypes, Holding, Yielding!Exit, Yielding!Goto
  <2>3. CASE Yielding!Finish(w)
    BY <1>0, <2>3 DEF YieldTypes, Holding, Yielding!Finish, Yielding!Goto
  <2>4. CASE Yielding!Yield(w)
    BY <1>0, <2>4 DEF YieldTypes, Holding, Yielding!Yield, Yielding!ToDo, Yielding!Goto
  <2> QED
    BY <2>1, <2>2, <2>3, <2>4
<1>4. YieldTypes' /\ YieldersStartOnce'
  <2>1. CASE Yielding!Yield(w)
    <3>1. Yielding!ToDo(w, "yield")
      BY <2>1 DEF Yielding!Yield
    <3>2. YieldTypes'
      BY <1>0, <1>1, <2>1, <3>1, YieldToDo DEF YieldTypes, Yielding!Yield, Yielding!Goto
    <3>3. PICK e \in Fibers \cup {Null} : e = task[w]
      BY <3>1, YieldToDo
    <3>4. \A f \in Fibers : \A i \in 1 .. Len(todoYield'[f]) : \E j \in 1 .. Len(todoYield[f]) :
              todoYield'[f][i] = todoYield[f][j] /\ j = IF f = e THEN i + 1 ELSE i
      BY <3>1, <3>3, YieldToDo
    <3>5. 3 \in alive' => 3 \in alive
      BY <1>1
    <3> QED
      BY <1>0, <3>2, <3>4, <3>5, YieldStartsStay
  <2>2. CASE ~ Yielding!Yield(w)
    <3>1. UNCHANGED todoYield
      BY <2>2 DEF Yielding!Exit, Yielding!Finish, Yielding!LeaveStep
    <3>2. YieldTypes'
      BY ZenonT(60), <1>0, <1>1, <2>2, <3>1, NullIsNobody
      DEF YieldTypes, Yielding!Exit, Yielding!Finish, Yielding!LeaveStep, Yielding!Goto
    <3> QED
      BY <1>0, <1>1, <3>1, <3>2, YieldStartsKept
  <2> QED
    BY <2>1, <2>2
<1>5. YieldersApart' /\ YieldersLive'
  BY <1>0, <1>1, <1>2 DEF YieldersApart, YieldersLive, YieldPlaced
<1>6. Yielding!SelfIsRunning'
  BY <1>0, <1>1 DEF YieldTypes, Yielding!SelfIsRunning, Yielding!Exit, Yielding!Finish, Yielding!Yield,
     Yielding!LeaveStep, Yielding!Goto
<1> QED
  BY <1>4, <1>5, <1>6 DEF YieldInv

\* A fiber without a place goes to the queue, or is dropped: what Submit does.
LEMMA YieldSubmits ==
    ASSUME YieldTypes, YieldersApart, NEW f \in Fibers, Yielding!Submit(f), UNCHANGED threw,
           NEW w \in Workers,
           \A v \in Workers : Holding(v)' => Holding(v) /\ task'[v] = task[v] /\ task[v] # f,
           \A i \in 1 .. Len(tasks) : tasks[i] # f,
           f \notin threw \cup dropped
    PROVE  /\ tasks' \in Seq(Fibers) /\ dropped' \subseteq Fibers
           /\ YieldersApart'
           /\ \A g \in Fibers :
                (g \in threw' \cup dropped' \/ \E i \in 1 .. Len(tasks') : tasks'[i] = g)
                <=> g = f \/ g \in threw \cup dropped \/ \E i \in 1 .. Len(tasks) : tasks[i] = g
<1>1. CASE stopped
  <2>1. dropped' = dropped \cup {f} /\ tasks' = tasks
    BY <1>1 DEF Yielding!Submit
  <2> QED
    BY <2>1 DEF YieldTypes, YieldersApart
<1>2. CASE ~ stopped
  <2>1. tasks' = Append(tasks, f) /\ dropped' = dropped /\ tasks \in Seq(Fibers)
    BY <1>2 DEF Yielding!Submit, YieldTypes
  <2>2. PICK n \in Nat : n = Len(tasks)
    BY <2>1
  <2>3. /\ tasks' \in Seq(Fibers) /\ Len(tasks') = n + 1 /\ tasks'[n + 1] = f
        /\ \A i \in 1 .. n : tasks'[i] = tasks[i]
    BY <2>1, <2>2, Appended
  <2>4. \A i \in 1 .. n + 1 : i \in 1 .. n \/ i = n + 1
    BY ONLY n \in Nat
  <2>5. 1 .. n \subseteq 1 .. n + 1 /\ n + 1 \in 1 .. n + 1
    BY ONLY n \in Nat
  <2>6. YieldersApart'
    BY <2>1, <2>2, <2>3, <2>4 DEF YieldersApart
  <2>7. ASSUME NEW g \in Fibers
        PROVE (\E i \in 1 .. Len(tasks') : tasks'[i] = g) <=> g = f \/ \E i \in 1 .. Len(tasks) : tasks[i] = g
    BY ONLY <2>2, <2>3, <2>4, <2>5
  <2> QED
    BY <2>1, <2>3, <2>6, <2>7 DEF YieldTypes
<1> QED
  BY <1>1, <1>2

\* A fiber starts another, for which there was no place yet.
LEMMA YieldGo == ASSUME YieldInv, NEW w \in Workers, Yielding!Go(w) PROVE YieldInv'
<1>0. YieldTypes /\ YieldersApart /\ YieldersLive /\ YieldersStartOnce /\ Yielding!SelfIsRunning
  BY DEF YieldInv
<1>1. Yielding!ToDo(w, "go")
  BY DEF Yielding!Go
<1>2. /\ todoYield' \in [Fibers -> Seq(YieldOperations)] /\ task[w] \in Fibers
      /\ 1 \in 1 .. Len(todoYield[task[w]]) /\ todoYield[task[w]][1] = <<"go", 3>>
      /\ Head(todoYield[task[w]])[2] = 3
  BY <1>1, YieldToDo
<1>3. /\ alive' = alive \cup {3} /\ Yielding!Submit(3)
      /\ UNCHANGED <<stopped, atYield, task, currentYield, threw>>
  BY <1>2 DEF Yielding!Go, Yielding!place
<1>4. 3 \notin alive /\ 3 \in Fibers
  BY <1>0, <1>2, ThreeFibers DEF YieldersStartOnce
<1>5. ~ YieldPlaced(3)
  BY <1>0, <1>4 DEF YieldersLive
<1>6. /\ \A v \in Workers : Holding(v)' => Holding(v) /\ task'[v] = task[v] /\ task[v] # 3
      /\ \A v \in Workers : Holding(v) => Holding(v)' /\ task'[v] = task[v]
      /\ \A i \in 1 .. Len(tasks) : tasks[i] # 3
      /\ 3 \notin threw \cup dropped
  BY <1>3, <1>5 DEF YieldPlaced, Holding
<1>7. /\ tasks' \in Seq(Fibers) /\ dropped' \subseteq Fibers
      /\ YieldersApart'
      /\ \A g \in Fibers :
           (g \in threw' \cup dropped' \/ \E i \in 1 .. Len(tasks') : tasks'[i] = g)
           <=> g = 3 \/ g \in threw \cup dropped \/ \E i \in 1 .. Len(tasks) : tasks[i] = g
  BY <1>0, <1>3, <1>4, <1>6, YieldSubmits
<1>8. YieldTypes'
  BY <1>0, <1>2, <1>3, <1>4, <1>7 DEF YieldTypes
<1>9. YieldersLive'
  <2>1. ASSUME NEW g \in Fibers PROVE YieldPlaced(g)' <=> YieldPlaced(g) \/ g = 3
    BY <1>6, <1>7 DEF YieldPlaced
  <2> QED
    BY <1>0, <1>3, <2>1 DEF YieldersLive
<1>10. YieldersStartOnce'
  <2>1. PICK e \in Fibers \cup {Null} : e = task[w]
    BY <1>2
  <2>2. \A f \in Fibers : \A i \in 1 .. Len(todoYield'[f]) : \E j \in 1 .. Len(todoYield[f]) :
            todoYield'[f][i] = todoYield[f][j] /\ j = IF f = e THEN i + 1 ELSE i
    BY <1>1, <2>1, YieldToDo
  <2>3. ASSUME NEW f \in Fibers, NEW i \in 1 .. Len(todoYield'[f]) PROVE todoYield'[f][i] # <<"go", 3>>
    <3>1. PICK j \in 1 .. Len(todoYield[f]) : todoYield'[f][i] = todoYield[f][j] /\ j = IF f = e THEN i + 1 ELSE i
      BY <2>2
    <3>0. e \in Fibers /\ 1 \in 1 .. Len(todoYield[e]) /\ todoYield[e][1] = <<"go", 3>>
      BY <1>2, <2>1
    <3>2. ASSUME todoYield[f][j] = <<"go", 3>> PROVE e = f /\ 1 = j
      <4>1. PICK n : n = 1
        OBVIOUS
      <4>2. n \in 1 .. Len(todoYield[e]) /\ todoYield[e][n] = <<"go", 3>>
        BY ONLY <3>0, <4>1
      <4>3. e = f /\ n = j
        BY ONLY <1>0, <3>0, <3>2, <4>2, f \in Fibers, j \in 1 .. Len(todoYield[f]) DEF YieldersStartOnce
      <4> QED
        BY <4>1, <4>3
    <3>3. f = e => j # 1
      BY <3>1
    <3> QED
      BY <3>1, <3>2, <3>3
  <2> QED
    BY <1>0, <2>2, <2>3, YieldStartsStay
<1>11. Yielding!SelfIsRunning'
  BY <1>0, <1>3 DEF Yielding!SelfIsRunning
<1> QED
  BY <1>7, <1>8, <1>9, <1>10, <1>11 DEF YieldInv

\* The fiber that yielded is scheduled again.
LEMMA YieldSchedule == ASSUME YieldInv, NEW w \in Workers, Yielding!Schedule(w) PROVE YieldInv'
<1>0. YieldTypes /\ YieldersApart /\ YieldersLive /\ YieldersStartOnce /\ Yielding!SelfIsRunning
  BY DEF YieldInv
<1>1. PICK f : f = task[w]
  OBVIOUS
<1>2. /\ atYield[w] = "suspended" /\ Yielding!Submit(f)
      /\ atYield' = [atYield EXCEPT ![w] = "left"]
      /\ UNCHANGED <<stopped, task, currentYield, todoYield, alive, threw>>
  BY <1>1 DEF Yielding!Schedule, Yielding!Goto
<1>3. f \in Fibers /\ Holding(w)
  BY <1>0, <1>1, <1>2 DEF YieldTypes, Holding
<1>4. /\ \A v \in Workers : Holding(v)' => Holding(v) /\ task'[v] = task[v] /\ v # w
      /\ \A v \in Workers \ {w} : Holding(v) => Holding(v)' /\ task'[v] = task[v]
  BY <1>0, <1>2 DEF Holding, YieldTypes
<1>5. /\ \A v \in Workers : Holding(v)' => Holding(v) /\ task'[v] = task[v] /\ task[v] # f
      /\ \A i \in 1 .. Len(tasks) : tasks[i] # f
      /\ f \notin threw \cup dropped
  BY <1>0, <1>1, <1>3, <1>4 DEF YieldersApart
<1>6. /\ tasks' \in Seq(Fibers) /\ dropped' \subseteq Fibers
      /\ YieldersApart'
      /\ \A g \in Fibers :
           (g \in threw' \cup dropped' \/ \E i \in 1 .. Len(tasks') : tasks'[i] = g)
           <=> g = f \/ g \in threw \cup dropped \/ \E i \in 1 .. Len(tasks) : tasks[i] = g
  BY <1>0, <1>2, <1>3, <1>5, YieldSubmits
<1>7. YieldTypes'
  BY <1>0, <1>2, <1>6 DEF YieldTypes
<1>8. YieldersLive'
  <2>1. ASSUME NEW g \in Fibers PROVE YieldPlaced(g)' <=> YieldPlaced(g)
    <3>1. (\E v \in Workers : Holding(v) /\ task[v] = g) <=> g = f \/ \E v \in Workers : Holding(v)' /\ task'[v] = g
      BY <1>1, <1>3, <1>4
    <3> QED
      BY <1>6, <3>1 DEF YieldPlaced
  <2> QED
    BY <1>0, <1>2, <2>1 DEF YieldersLive
<1>9. YieldersStartOnce'
  BY <1>0, <1>2, YieldStartsKept
<1>10. Yielding!SelfIsRunning'
  BY <1>0, <1>2 DEF Yielding!SelfIsRunning, YieldTypes
<1> QED
  BY <1>6, <1>7, <1>8, <1>9, <1>10 DEF YieldInv

\* The fiber ends, with an exception or without.
LEMMA YieldEnds ==
    ASSUME YieldInv, NEW w \in Workers, Yielding!Delete(w) \/ Yielding!Throw(w)
    PROVE  YieldInv'
<1>0. YieldTypes /\ YieldersApart /\ YieldersLive /\ YieldersStartOnce /\ Yielding!SelfIsRunning
  BY DEF YieldInv
<1>1. PICK f : f = task[w]
  OBVIOUS
<1>2. f \in Fibers /\ Holding(w) /\ UNCHANGED <<tasks, dropped, currentYield>>
      /\ atYield' = [atYield EXCEPT ![w] = IF Yielding!Delete(w) THEN "left" ELSE "idle"]
  BY <1>0, <1>1 DEF YieldTypes, Holding, Yielding!Delete, Yielding!Throw, Yielding!ToDo, Yielding!Goto, Yielding!pool
<1>3. /\ \A v \in Workers : Holding(v)' => Holding(v) /\ task'[v] = task[v] /\ v # w /\ task[v] # f
      /\ \A v \in Workers \ {w} : Holding(v) => Holding(v)' /\ task'[v] = task[v]
  BY <1>0, <1>1, <1>2 DEF Holding, YieldTypes, YieldersApart, Yielding!Delete, Yielding!Throw
<1>4. f \notin threw \cup dropped /\ \A i \in 1 .. Len(tasks) : tasks[i] # f
  BY <1>0, <1>1, <1>2 DEF YieldersApart
<1>5. CASE Yielding!Delete(w)
  <2>1. atYield[w] = "completed" /\ alive' = alive \ {f} /\ UNCHANGED <<task, threw, todoYield>>
    BY <1>1, <1>5 DEF Yielding!Delete
  <2>2. YieldTypes'
    BY <1>0, <1>2, <1>5, <2>1 DEF YieldTypes
  <2>3. YieldersApart'
    BY <1>0, <1>2, <1>3, <2>1 DEF YieldersApart
  <2>4. YieldersLive'
    <3>1. ASSUME NEW g \in Fibers PROVE YieldPlaced(g)' <=> YieldPlaced(g) /\ g # f
      BY <1>1, <1>2, <1>3, <1>4, <2>1 DEF YieldPlaced
    <3> QED
      BY <1>0, <2>1, <3>1 DEF YieldersLive
  <2>5. YieldersStartOnce'
    BY <1>0, <2>1, YieldStartsKept
  <2>6. Yielding!SelfIsRunning'
    BY <1>0, <1>2, <1>4, <1>5, <2>1 DEF Yielding!SelfIsRunning, YieldTypes
  <2> QED
    BY <2>2, <2>3, <2>4, <2>5, <2>6 DEF YieldInv
<1>6. CASE Yielding!Throw(w) /\ ~ Yielding!Delete(w)
  <2>1. /\ Yielding!ToDo(w, "throw") /\ threw' = threw \cup {f} /\ task' = [task EXCEPT ![w] = Null]
        /\ UNCHANGED alive
    BY <1>1, <1>6 DEF Yielding!Throw
  <2>2. YieldTypes'
    BY <1>0, <1>2, <1>6, <2>1, YieldToDo, NullIsNobody DEF YieldTypes
  <2>3. YieldersApart'
    BY <1>0, <1>2, <1>3, <1>4, <2>1 DEF YieldersApart
  <2>4. YieldersLive'
    <3>1. ASSUME NEW g \in Fibers PROVE YieldPlaced(g)' <=> YieldPlaced(g)
      BY <1>1, <1>2, <1>3, <1>4, <2>1 DEF YieldPlaced
    <3> QED
      BY <1>0, <2>1, <3>1 DEF YieldersLive
  <2>5. YieldersStartOnce'
    <3>1. PICK e \in Fibers \cup {Null} : e = task[w]
      BY <2>1, YieldToDo
    <3>2. \A g \in Fibers : \A i \in 1 .. Len(todoYield'[g]) : \E j \in 1 .. Len(todoYield[g]) :
              todoYield'[g][i] = todoYield[g][j] /\ j = IF g = e THEN i + 1 ELSE i
      BY <2>1, <3>1, YieldToDo
    <3>3. 3 \in alive' => 3 \in alive
      BY <2>1
    <3> QED
      BY <1>0, <3>2, <3>3, YieldStartsStay
  <2>6. Yielding!SelfIsRunning'
    <3>1. currentYield[w] = f /\ f \in alive
      BY <1>0, <1>1, <1>2, <2>1, YieldToDo DEF YieldersLive, YieldPlaced
    <3> QED
      BY <1>0, <1>2, <1>6, <2>1, <3>1 DEF Yielding!SelfIsRunning, YieldTypes
  <2> QED
    BY <2>2, <2>3, <2>4, <2>5, <2>6 DEF YieldInv
<1> QED
  BY <1>5, <1>6

\* Stop drops what waits in the queue.
LEMMA YieldStop == ASSUME YieldInv, Yielding!Stop PROVE YieldInv'
<1>0. YieldTypes /\ YieldersApart /\ YieldersLive /\ YieldersStartOnce /\ Yielding!SelfIsRunning
  BY DEF YieldInv
<1>1. /\ tasks' = <<>> /\ dropped' = dropped \cup {tasks[i] : i \in 1 .. Len(tasks)}
      /\ UNCHANGED <<atYield, task, currentYield, todoYield, alive, threw>>
  BY <1>0 DEF Yielding!Stop, Yielding!place, Yielding!ToSet, YieldTypes
<1>2. tasks' \in Seq(Fibers) /\ \A i : i \notin 1 .. Len(tasks')
  BY <1>1
<1>3. YieldTypes'
  BY <1>0, <1>1, <1>2 DEF YieldTypes
<1>4. YieldersApart'
  BY <1>0, <1>1, <1>2 DEF YieldersApart, Holding
<1>5. YieldersLive'
  <2>1. ASSUME NEW g \in Fibers PROVE YieldPlaced(g)' <=> YieldPlaced(g)
    BY <1>1, <1>2 DEF YieldPlaced, Holding
  <2> QED
    BY <1>0, <1>1, <2>1 DEF YieldersLive
<1>6. YieldersStartOnce' /\ Yielding!SelfIsRunning'
  BY <1>0, <1>1, YieldStartsKept DEF Yielding!SelfIsRunning
<1> QED
  BY <1>3, <1>4, <1>5, <1>6 DEF YieldInv

LEMMA YieldAlways == Spec => []YieldInv
<1>1. Yielding!Init => YieldInv
  <2> SUFFICES ASSUME Yielding!Init PROVE YieldInv
    OBVIOUS
  <2>1. /\ tasks = <<1, 2>> /\ todoYield = YieldScript /\ threw = {} /\ dropped = {}
        /\ atYield = [w \in Workers |-> "idle"] /\ task = [w \in Workers |-> Null]
        /\ currentYield = [w \in Workers |-> Null]
    BY DEF Yielding!Init
  <2>2. Len(tasks) = 2 /\ tasks[1] = 1 /\ tasks[2] = 2 /\ tasks \in Seq(Fibers) /\ DOMAIN tasks = {1, 2}
    BY <2>1, ThreeFibers
  <2>3. alive = {1, 2}
    BY <2>2 DEF Yielding!Init, Yielding!ToSet
  <2>4. /\ YieldScript[1] = << <<"yield">>, <<"go", 3>>, <<"yield">> >>
        /\ YieldScript[2] = << <<"yield">>, <<"throw">> >>
        /\ YieldScript[3] = << <<"yield">> >>
        /\ DOMAIN YieldScript = Fibers
    BY ThreeFibers DEF YieldScript
  <2>5. /\ YieldScript[1] \in Seq(YieldOperations) /\ YieldScript[2] \in Seq(YieldOperations)
        /\ YieldScript[3] \in Seq(YieldOperations)
    BY <2>4 DEF YieldOperations
  <2>6. YieldScript = [f \in Fibers |-> YieldScript[f]]
    BY <2>4 DEF YieldScript
  <2>7. todoYield \in [Fibers -> Seq(YieldOperations)]
    BY <2>1, <2>5, <2>6, ThreeFibers
  <2>8. YieldTypes
    BY <2>1, <2>2, <2>3, <2>7, ThreeFibers DEF YieldTypes
  <2>9. YieldersApart /\ YieldersLive /\ Yielding!SelfIsRunning
    BY <2>1, <2>2, <2>3, ThreeFibers DEF YieldersApart, YieldersLive, YieldPlaced, Holding, Yielding!SelfIsRunning
  <2>10. ASSUME NEW f \in Fibers, NEW i \in 1 .. Len(YieldScript[f]), YieldScript[f][i] = <<"go", 3>>
         PROVE  f = 1 /\ i = 2
    BY <2>4, <2>10, ThreeFibers
  <2>11. YieldersStartOnce
    BY <2>1, <2>3, <2>10 DEF YieldersStartOnce
  <2> QED
    BY <2>8, <2>9, <2>11 DEF YieldInv
<1>2. YieldInv /\ [Yielding!Next]_(Yielding!vars) => YieldInv'
  <2> SUFFICES ASSUME YieldInv, [Yielding!Next]_(Yielding!vars) PROVE YieldInv'
    OBVIOUS
  <2>1. CASE UNCHANGED Yielding!vars
    BY <2>1 DEF YieldInv, YieldTypes, YieldersApart, YieldersLive, YieldersStartOnce, YieldPlaced,
       Holding, Yielding!SelfIsRunning, Yielding!vars, Yielding!pool, Yielding!place, Yielding!fates
  <2>2. CASE Yielding!Next
    BY <2>2, YieldStop, YieldStep, YieldPasses, YieldGo, YieldSchedule, YieldEnds
    DEF Yielding!Next, Yielding!WorkerStep
  <2> QED
    BY <2>1, <2>2
<1> QED
  BY <1>1, <1>2, Moves, PTL DEF Spec, Init

LEMMA YieldersInOnePlace == YieldInv => Yielding!FiberInOnePlace
<1> SUFFICES ASSUME YieldInv, NEW f \in Fibers
             PROVE  LET places == {<<"worker", w>> : w \in Yielding!Holders(f)} \cup {<<"queue", i>> : i \in Yielding!Waits(f)}
                                  \cup {<<"gone", "threw">> : x \in threw \cap {f}}
                                  \cup {<<"gone", "dropped">> : x \in dropped \cap {f}}
                    IN  IF f \in alive THEN \E p \in places : places = {p} ELSE places = {}
  BY DEF Yielding!FiberInOnePlace
<1>0. YieldTypes /\ YieldersApart /\ YieldersLive
  BY DEF YieldInv
<1> DEFINE W == {<<"worker", w>> : w \in Yielding!Holders(f)}
           Q == {<<"queue", i>> : i \in Yielding!Waits(f)}
           T == {<<"gone", "threw">> : x \in threw \cap {f}}
           D == {<<"gone", "dropped">> : x \in dropped \cap {f}}
           places == W \cup Q \cup T \cup D
<1>1. \A w : w \in Yielding!Holders(f) <=> w \in Workers /\ Holding(w) /\ task[w] = f
  BY <1>0, ThreeFibers DEF Yielding!Holders, YieldTypes, Holding
<1>2. \A i : i \in Yielding!Waits(f) <=> i \in 1 .. Len(tasks) /\ tasks[i] = f
  BY <1>0 DEF Yielding!Waits, YieldTypes
<1>3. places = {} <=> ~ YieldPlaced(f)
  BY <1>1, <1>2 DEF YieldPlaced
<1>4. ASSUME NEW p \in places, NEW q \in places PROVE p = q
  <2>1. CASE p \in W
    <3>1. PICK w \in Workers : p = <<"worker", w>> /\ Holding(w) /\ task[w] = f
      BY <1>1, <2>1
    <3>2. Q = {} /\ T = {} /\ D = {}
      BY <1>0, <1>2, <3>1 DEF YieldersApart
    <3>3. PICK v \in Workers : q = <<"worker", v>> /\ Holding(v) /\ task[v] = f
      BY <1>1, <1>4, <3>2
    <3> QED
      BY <1>0, <3>1, <3>3 DEF YieldersApart
  <2>2. CASE p \in Q
    <3>1. PICK i \in 1 .. Len(tasks) : p = <<"queue", i>> /\ tasks[i] = f
      BY <1>2, <2>2
    <3>2. W = {} /\ T = {} /\ D = {}
      BY <1>0, <1>1, <3>1 DEF YieldersApart
    <3>3. PICK j \in 1 .. Len(tasks) : q = <<"queue", j>> /\ tasks[j] = f
      BY <1>2, <1>4, <3>2
    <3> QED
      BY <1>0, <3>1, <3>3 DEF YieldersApart
  <2>3. CASE p \in T \cup D
    <3>1. f \in threw \cup dropped
      BY <2>3
    <3>2. W = {} /\ Q = {}
      BY <1>0, <1>1, <1>2, <3>1 DEF YieldersApart
    <3>3. T = {} \/ D = {}
      BY <1>0 DEF YieldersApart
    <3> QED
      BY <1>4, <2>3, <3>2, <3>3
  <2> QED
    BY <1>4, <2>1, <2>2, <2>3
<1> HIDE DEF places
<1>5. IF f \in alive THEN \E p \in places : places = {p} ELSE places = {}
  BY <1>0, <1>3, <1>4 DEF YieldersLive
<1> QED
  BY <1>5 DEF places

\* The thread-local pointers name the coroutine and the fiber that run, and
\* nobody else runs on their stacks, for any number of threads and coroutines.
THEOREM CurrentAlwaysRuns == Spec => []CurrentIsRunning
<1>1. CoInv /\ YieldInv => CurrentIsRunning
  BY CoroutinesAreFound, YieldersInOnePlace DEF YieldInv, CurrentIsRunning
<1> QED
  BY <1>1, CoAlways, YieldAlways, PTL

-----------------------------------------------------------------------------
(* Fibers that sleep *)

SleepOperations == {<<"yield">>, <<"throw">>, <<"go", 3>>, <<"sleep", 1>>, <<"sleep", 2>>}

Handlers == {"step", "timer"} \X Fibers

\* Worker w has the fiber current[w] in its hands.
Own(w) == pcSleep[w] # "idle"

SleepTypes ==
    /\ posted \in Seq(Handlers)
    /\ timers \subseteq Fibers \X Nat
    /\ now \in Nat
    /\ state \in [Fibers -> {"Rescheduling", "Running", "Waiting", "Sleeping", Null}]
    /\ todo \in [Fibers -> Seq(SleepOperations)]
    /\ pcSleep \in [Workers -> {"idle", "fiber", "resumed", "arm", "schedule", "gone"}]
    /\ current \in [Workers -> Fibers \cup {Null}]
    /\ timer \in [Workers -> Fibers \cup {Null}]
    /\ delay \in [Workers -> Nat]
    /\ due \in [Fibers -> Nat]
    /\ \A w \in Workers : Own(w) => current[w] \in Fibers

\* A fiber has no two places, and is with a thread, posted, or asleep when it exists.
SleepersApart ==
    /\ \A w, v \in Workers : Own(w) /\ Own(v) /\ current[w] = current[v] => w = v
    /\ \A w \in Workers : Own(w) =>
          /\ state[current[w]] # Null
          /\ \A i \in 1 .. Len(posted) : posted[i][2] # current[w]
          /\ \A t \in timers : t[1] # current[w]
    /\ \A i, j \in 1 .. Len(posted) : posted[i][2] = posted[j][2] => i = j
    /\ \A i \in 1 .. Len(posted) : /\ state[posted[i][2]] # Null
                                   /\ \A t \in timers : t[1] # posted[i][2]
    /\ \A t, u \in timers : t[1] = u[1] => t = u
    /\ \A t \in timers : state[t[1]] # Null

SleepPlaced(f) == \/ \E w \in Workers : Own(w) /\ current[w] = f
                  \/ \E i \in 1 .. Len(posted) : posted[i][2] = f
                  \/ \E t \in timers : t[1] = f

SleepersLive == \A f \in Fibers : state[f] # Null => SleepPlaced(f)

\* A fiber that runs is in the state Running, and one that goes to sleep has
\* left its timer with the thread that runs it.
ThreadsKnow ==
    /\ \A w \in Workers : pcSleep[w] = "fiber" => state[current[w]] = "Running"
    /\ \A w \in Workers : pcSleep[w] = "resumed" /\ state[current[w]] = "Sleeping" => timer[w] = current[w]
    /\ Sleep!TimerIsMine

\* A fiber is asleep, on its way to it, or its last sleep is over.
SleepsEnd ==
    /\ \A f \in Fibers : state[f] = Null => due[f] <= now
    /\ \A i \in 1 .. Len(posted) : due[posted[i][2]] <= now
    /\ \A t \in timers : due[t[1]] <= t[2]
    /\ \A w \in Workers :
          /\ pcSleep[w] \in {"fiber", "schedule"} => due[current[w]] <= now
          /\ pcSleep[w] = "resumed" /\ state[current[w]] # "Sleeping" => due[current[w]] <= now
          /\ pcSleep[w] = "resumed" /\ state[current[w]] = "Sleeping" => due[current[w]] <= now + delay[w]
          /\ pcSleep[w] = "arm" => due[current[w]] <= now + delay[w]

\* See YieldersStartOnce.
SleepersStartOnce ==
    \A f, g \in Fibers : \A i \in 1 .. Len(todo[f]) : \A j \in 1 .. Len(todo[g]) :
        todo[f][i] = <<"go", 3>> =>
            /\ state[3] = Null
            /\ todo[g][j] = <<"go", 3>> => f = g /\ i = j

SleepInv == /\ SleepTypes /\ SleepersApart /\ SleepersLive
            /\ ThreadsKnow /\ SleepsEnd /\ SleepersStartOnce

\* An operation is taken from the script.
LEMMA SleepToDo ==
    ASSUME SleepInv, NEW w \in Workers, NEW name \in {"yield", "go", "throw", "sleep"}, Sleep!ToDo(w, name)
    PROVE  /\ pcSleep[w] = "fiber" /\ current[w] \in Fibers
           /\ todo' \in [Fibers -> Seq(SleepOperations)]
           /\ \A f \in Fibers : \A i \in 1 .. Len(todo'[f]) :
                 \E j \in 1 .. Len(todo[f]) :
                    todo'[f][i] = todo[f][j] /\ j = IF f = current[w] THEN i + 1 ELSE i
           /\ 1 \in 1 .. Len(todo[current[w]])
           /\ name = "go" => todo[current[w]][1] = <<"go", 3>> /\ Head(todo[current[w]])[2] = 3
           /\ name = "sleep" => Head(todo[current[w]])[2] \in Nat
<1>1. SleepTypes
  BY DEF SleepInv
<1>2. /\ pcSleep[w] = "fiber" /\ todo[current[w]] # <<>> /\ Head(todo[current[w]])[1] = name
      /\ todo' = [todo EXCEPT ![current[w]] = Tail(todo[current[w]])]
  BY DEF Sleep!ToDo
<1>3. current[w] \in Fibers
  BY <1>1, <1>2 DEF SleepTypes, Own
<1>4. PICK s \in Seq(SleepOperations) : s = todo[current[w]]
  BY <1>1, <1>3 DEF SleepTypes
<1>5. /\ Tail(s) \in Seq(SleepOperations) /\ Head(s) \in SleepOperations /\ Head(s) = s[1]
      /\ 1 \in 1 .. Len(s)
      /\ \A i \in 1 .. Len(Tail(s)) : i + 1 \in 1 .. Len(s) /\ Tail(s)[i] = s[i + 1] /\ i + 1 # 1
  BY <1>2, <1>4, TailIsShorter
<1>6. todo' \in [Fibers -> Seq(SleepOperations)]
  BY <1>1, <1>2, <1>4, <1>5 DEF SleepTypes
<1>7. todo'[current[w]] = Tail(s) /\ \A f \in Fibers \ {current[w]} : todo'[f] = todo[f]
  BY <1>1, <1>2, <1>3, <1>4 DEF SleepTypes
<1>8. ASSUME NEW f \in Fibers, NEW i \in 1 .. Len(todo'[f])
      PROVE  \E j \in 1 .. Len(todo[f]) :
                todo'[f][i] = todo[f][j] /\ j = IF f = current[w] THEN i + 1 ELSE i
  BY ONLY <1>4, <1>5, <1>7, f \in Fibers, i \in 1 .. Len(todo'[f])
<1>9. /\ name = "go" => s[1] = <<"go", 3>> /\ Head(s)[2] = 3
      /\ name = "sleep" => Head(s)[2] \in Nat
  BY <1>2, <1>4, <1>5 DEF SleepOperations
<1> QED
  BY <1>2, <1>3, <1>4, <1>5, <1>6, <1>8, <1>9

\* See YieldStartsKept and YieldStartsStay.
LEMMA SleepStartsKept ==
    ASSUME SleepersStartOnce, UNCHANGED todo, state[3] = Null => state'[3] = Null
    PROVE  SleepersStartOnce'
<1> SUFFICES ASSUME NEW f \in Fibers, NEW g \in Fibers,
                    NEW i \in 1 .. Len(todo'[f]), NEW j \in 1 .. Len(todo'[g]),
                    todo'[f][i] = <<"go", 3>>
             PROVE  state'[3] = Null /\ (todo'[g][j] = <<"go", 3>> => f = g /\ i = j)
  BY DEF SleepersStartOnce
<1>1. /\ i \in 1 .. Len(todo[f]) /\ j \in 1 .. Len(todo[g])
      /\ todo[f][i] = <<"go", 3>>
  OBVIOUS
<1>2. state[3] = Null /\ (todo[g][j] = <<"go", 3>> => f = g /\ i = j)
  BY ONLY SleepersStartOnce, <1>1, f \in Fibers, g \in Fibers DEF SleepersStartOnce
<1> QED
  BY <1>2

LEMMA SleepStartsStay ==
    ASSUME SleepersStartOnce,
           state[3] = Null => state'[3] = Null \/ \A f \in Fibers : \A i \in 1 .. Len(todo'[f]) : todo'[f][i] # <<"go", 3>>,
           NEW e \in Fibers \cup {Null},
           \A f \in Fibers : \A i \in 1 .. Len(todo'[f]) :
                 \E j \in 1 .. Len(todo[f]) :
                    todo'[f][i] = todo[f][j] /\ j = IF f = e THEN i + 1 ELSE i
    PROVE  SleepersStartOnce'
<1> SUFFICES ASSUME NEW f \in Fibers, NEW g \in Fibers,
                    NEW i \in 1 .. Len(todo'[f]), NEW j \in 1 .. Len(todo'[g]),
                    todo'[f][i] = <<"go", 3>>
             PROVE  state'[3] = Null /\ (todo'[g][j] = <<"go", 3>> => f = g /\ i = j)
  BY DEF SleepersStartOnce
<1>1. PICK k \in 1 .. Len(todo[f]) : todo'[f][i] = todo[f][k] /\ k = IF f = e THEN i + 1 ELSE i
  OBVIOUS
<1>2. PICK l \in 1 .. Len(todo[g]) : todo'[g][j] = todo[g][l] /\ l = IF g = e THEN j + 1 ELSE j
  OBVIOUS
<1>3. state[3] = Null
  BY ZenonT(60), <1>1 DEF SleepersStartOnce
<1>4. ASSUME todo'[g][j] = <<"go", 3>> PROVE f = g /\ k = l
  <2>1. todo[f][k] = <<"go", 3>> /\ todo[g][l] = <<"go", 3>>
    BY <1>1, <1>2, <1>4
  <2> QED
    BY ONLY SMTT(60), <2>1, SleepersStartOnce, f \in Fibers, g \in Fibers,
            k \in 1 .. Len(todo[f]), l \in 1 .. Len(todo[g]) DEF SleepersStartOnce
<1>5. f = g /\ k = l => i = j
  BY <1>1, <1>2
<1> QED
  BY <1>3, <1>4, <1>5

\* A step that moves no fiber, creates none and deletes none.
LEMMA SleepPlacesStay ==
    ASSUME SleepInv, UNCHANGED <<posted, timers>>,
           \A w \in Workers : (Own(w)' <=> Own(w)) /\ current'[w] = current[w],
           \A f \in Fibers : state'[f] # Null <=> state[f] # Null
    PROVE  SleepersApart' /\ SleepersLive'
<1>1. SleepersApart /\ SleepersLive /\ posted \in Seq(Handlers) /\ timers \subseteq Fibers \X Nat
  BY DEF SleepInv, SleepTypes
<1>2. \A w \in Workers : Own(w) => current[w] \in Fibers
  BY DEF SleepInv, SleepTypes
<1>3. /\ \A i \in 1 .. Len(posted) : posted[i][2] \in Fibers
      /\ \A t \in timers : t[1] \in Fibers
  BY <1>1 DEF Handlers
<1>4. SleepersApart'
  BY <1>1, <1>2, <1>3 DEF SleepersApart
<1>5. SleepersLive'
  BY <1>1 DEF SleepersLive, SleepPlaced
<1> QED
  BY <1>4, <1>5

\* A handler is posted: what becomes of the queue.
LEMMA Posted ==
    ASSUME SleepTypes, NEW e \in Handlers, posted' = Append(posted, e)
    PROVE  /\ posted' \in Seq(Handlers)
           /\ \A i \in 1 .. Len(posted') : \/ i \in 1 .. Len(posted) /\ posted'[i] = posted[i]
                                           \/ i = Len(posted) + 1 /\ posted'[i] = e
           /\ \A i \in 1 .. Len(posted) : i \in 1 .. Len(posted') /\ posted'[i] = posted[i]
           /\ \E i \in 1 .. Len(posted') : posted'[i] = e
<1>1. posted \in Seq(Handlers)
  BY DEF SleepTypes
<1>2. PICK n \in Nat : n = Len(posted)
  BY <1>1
<1>3. /\ posted' \in Seq(Handlers) /\ Len(posted') = n + 1 /\ posted'[n + 1] = e
      /\ \A i \in 1 .. n : posted'[i] = posted[i]
  BY <1>1, <1>2, Appended
<1>4. \A i \in 1 .. n + 1 : i \in 1 .. n \/ i = n + 1
  BY ONLY n \in Nat
<1>5. (\A i \in 1 .. n : i \in 1 .. n + 1) /\ n + 1 \in 1 .. n + 1
  BY ONLY n \in Nat
<1> QED
  BY ONLY <1>2, <1>3, <1>4, <1>5

LEMMA PostedApart ==
    ASSUME SleepTypes, SleepersApart, NEW e \in Handlers, posted' = Append(posted, e),
           \A i \in 1 .. Len(posted) : posted[i][2] # e[2],
           \A v \in Workers : Own(v)' => Own(v) /\ current'[v] = current[v] /\ current[v] # e[2],
           timers' \subseteq timers, \A t \in timers' : t[1] # e[2],
           \A f \in Fibers : state[f] # Null => state'[f] # Null,
           state'[e[2]] # Null
    PROVE  SleepersApart'
<1>1. /\ \A i \in 1 .. Len(posted) : posted[i][2] \in Fibers
      /\ \A t \in timers : t[1] \in Fibers
      /\ \A w \in Workers : Own(w) => current[w] \in Fibers
  BY SMTT(60) DEF SleepTypes, Handlers
<1>2. \A i \in 1 .. Len(posted') : \/ i \in 1 .. Len(posted) /\ posted'[i] = posted[i]
                                   \/ i = Len(posted) + 1 /\ posted'[i] = e
  BY Posted
<1>3. \A w, v \in Workers : Own(w)' /\ Own(v)' /\ current'[w] = current'[v] => w = v
  BY DEF SleepersApart
<1>4. ASSUME NEW w \in Workers, Own(w)'
      PROVE  /\ state'[current'[w]] # Null
             /\ \A i \in 1 .. Len(posted') : posted'[i][2] # current'[w]
             /\ \A t \in timers' : t[1] # current'[w]
  BY <1>1, <1>2, <1>4 DEF SleepersApart
<1>5. \A i, j \in 1 .. Len(posted') : posted'[i][2] = posted'[j][2] => i = j
  BY <1>2 DEF SleepersApart
<1>6. ASSUME NEW i \in 1 .. Len(posted')
      PROVE  state'[posted'[i][2]] # Null /\ \A t \in timers' : t[1] # posted'[i][2]
  BY <1>1, <1>2 DEF SleepersApart
<1>7. /\ \A t, u \in timers' : t[1] = u[1] => t = u
      /\ \A t \in timers' : state'[t[1]] # Null
  BY <1>1 DEF SleepersApart
<1> QED
  BY <1>3, <1>4, <1>5, <1>6, <1>7 DEF SleepersApart

\* Yield, SleepFor, Return, Throw and what Step does when the fiber is back.
LEMMA SleepPasses ==
    ASSUME SleepInv, NEW w \in Workers,
           Sleep!Yield(w) \/ Sleep!SleepFor(w) \/ Sleep!Return(w) \/ Sleep!Throw(w) \/ Sleep!Resumed(w)
    PROVE  SleepInv'
<1>0. SleepTypes /\ SleepersApart /\ SleepersLive /\ ThreadsKnow /\ SleepsEnd /\ SleepersStartOnce
  BY DEF SleepInv
<1>f. PICK f : f = current[w]
  OBVIOUS
<1>1. /\ UNCHANGED <<posted, timers, now, current>>
      /\ pcSleep[w] \in {"fiber", "resumed"} /\ f \in Fibers /\ state[f] # Null
  BY <1>0, <1>f DEF SleepTypes, SleepersApart, Own, Sleep!Yield, Sleep!SleepFor, Sleep!Return, Sleep!Throw,
     Sleep!Resumed, Sleep!ToDo, Sleep!context
<1>2. ASSUME Sleep!ToDo(w, "yield") \/ Sleep!ToDo(w, "sleep") \/ Sleep!ToDo(w, "throw"),
             state'[3] = Null <=> state[3] = Null
      PROVE  todo' \in [Fibers -> Seq(SleepOperations)] /\ SleepersStartOnce'
  <2>1. PICK name \in {"yield", "sleep", "throw"} : Sleep!ToDo(w, name)
    BY <1>2
  <2>2. PICK e \in Fibers \cup {Null} : e = current[w]
    BY <1>1, <1>f
  <2>3. \A g \in Fibers : \A i \in 1 .. Len(todo'[g]) : \E j \in 1 .. Len(todo[g]) :
            todo'[g][i] = todo[g][j] /\ j = IF g = e THEN i + 1 ELSE i
    BY <2>1, <2>2, SleepToDo
  <2> QED
    BY <1>0, <1>2, <2>1, <2>3, SleepToDo, SleepStartsStay
<1>3. CASE Sleep!Yield(w)
  <2>1. /\ Sleep!ToDo(w, "yield") /\ pcSleep[w] = "fiber"
        /\ state' = [state EXCEPT ![f] = "Waiting"] /\ pcSleep' = [pcSleep EXCEPT ![w] = "resumed"]
        /\ UNCHANGED <<timer, delay, due>>
    BY <1>3, <1>f DEF Sleep!Yield, Sleep!ToDo, Sleep!SetState, Sleep!Goto, Sleep!locals
  <2>2. /\ \A v \in Workers : Own(v)' <=> Own(v)
        /\ \A g \in Fibers : state'[g] # Null <=> state[g] # Null
    BY <1>0, <1>1, <2>1, NullIsNoState DEF Own, SleepTypes
  <2>3. \A v \in Workers \ {w} : Own(v) => current[v] # f /\ current[v] \in Fibers
    BY <1>0, <1>1, <1>f, <2>1 DEF SleepersApart, SleepTypes, Own
  <2>4. todo' \in [Fibers -> Seq(SleepOperations)] /\ SleepersStartOnce'
    BY <1>2, <2>1, <2>2, ThreeFibers
  <2>5. SleepTypes'
    BY <1>0, <1>1, <2>1, <2>2, <2>4 DEF SleepTypes
  <2>6. SleepersApart' /\ SleepersLive'
    BY <1>1, <2>2, SleepPlacesStay
  <2>7. ThreadsKnow'
    BY <1>0, <1>1, <1>f, <2>1, <2>3 DEF ThreadsKnow, SleepTypes, Own, Sleep!TimerIsMine
  <2>8. SleepsEnd'
    BY <1>0, <1>1, <1>f, <2>1, <2>2, <2>3 DEF SleepsEnd, SleepTypes, Own
  <2> QED
    BY <2>4, <2>5, <2>6, <2>7, <2>8 DEF SleepInv
<1>4. CASE Sleep!SleepFor(w)
  <2>0. PICK d : d = Head(todo[f])[2]
    OBVIOUS
  <2>1. /\ Sleep!ToDo(w, "sleep") /\ pcSleep[w] = "fiber"
        /\ state' = [state EXCEPT ![f] = "Sleeping"] /\ pcSleep' = [pcSleep EXCEPT ![w] = "resumed"]
        /\ timer' = [timer EXCEPT ![w] = f] /\ delay' = [delay EXCEPT ![w] = d]
        /\ due' = [due EXCEPT ![f] = now + d]
    BY <1>4, <1>f, <2>0 DEF Sleep!SleepFor, Sleep!ToDo, Sleep!SetState, Sleep!Goto
  <2>d. d \in Nat
    BY <1>f, <2>0, <2>1, SleepToDo
  <2>2. /\ \A v \in Workers : Own(v)' <=> Own(v)
        /\ \A g \in Fibers : state'[g] # Null <=> state[g] # Null
    BY <1>0, <1>1, <2>1, NullIsNoState DEF Own, SleepTypes
  <2>3. \A v \in Workers \ {w} : Own(v) => current[v] # f /\ current[v] \in Fibers
    BY <1>0, <1>1, <1>f, <2>1 DEF SleepersApart, SleepTypes, Own
  <2>4. todo' \in [Fibers -> Seq(SleepOperations)] /\ SleepersStartOnce'
    BY <1>2, <2>1, <2>2, ThreeFibers
  <2>5. SleepTypes'
    <3>0. now + d \in Nat /\ due \in [Fibers -> Nat]
      BY <1>0, <2>d DEF SleepTypes
    <3>1. due' \in [Fibers -> Nat]
      BY ONLY <2>1, <3>0
    <3> QED
      BY <1>0, <1>1, <2>1, <2>2, <2>4, <2>d, <3>1 DEF SleepTypes
  <2>6. SleepersApart' /\ SleepersLive'
    BY <1>1, <2>2, SleepPlacesStay
  <2>7. ThreadsKnow'
    BY <1>0, <1>1, <1>f, <2>1, <2>3 DEF ThreadsKnow, SleepTypes, Own, Sleep!TimerIsMine
  <2>8. SleepsEnd'
    <3>1. \A g \in Fibers \ {f} : due'[g] = due[g] /\ state'[g] = state[g]
      BY <1>0, <2>1 DEF SleepTypes
    <3>2. \A v \in Workers \ {w} : pcSleep'[v] = pcSleep[v] /\ delay'[v] = delay[v]
      BY <1>0, <2>1 DEF SleepTypes
    <3>3. /\ due'[f] = now + d /\ state'[f] = "Sleeping"
          /\ pcSleep'[w] = "resumed" /\ delay'[w] = d
      BY <1>0, <1>1, <2>1 DEF SleepTypes
    <3>4. /\ \A i \in 1 .. Len(posted) : posted[i][2] \in Fibers /\ posted[i][2] # f
          /\ \A t \in timers : t[1] \in Fibers /\ t[1] # f
      BY <1>0, <1>f, <2>1 DEF SleepTypes, SleepersApart, Own, Handlers
    <3>5. \A g \in Fibers : state'[g] = Null => due'[g] <= now'
      BY <1>0, <1>1, <2>2, <3>1 DEF SleepsEnd
    <3>6. /\ \A i \in 1 .. Len(posted') : due'[posted'[i][2]] <= now'
          /\ \A t \in timers' : due'[t[1]] <= t[2]
      BY <1>0, <1>1, <3>1, <3>4 DEF SleepsEnd
    <3>7. now + d <= now + d
      BY <1>0, <2>d DEF SleepTypes
    <3>8. ASSUME NEW v \in Workers
          PROVE  /\ pcSleep'[v] \in {"fiber", "schedule"} => due'[current'[v]] <= now'
                 /\ pcSleep'[v] = "resumed" /\ state'[current'[v]] # "Sleeping" => due'[current'[v]] <= now'
                 /\ pcSleep'[v] = "resumed" /\ state'[current'[v]] = "Sleeping" => due'[current'[v]] <= now' + delay'[v]
                 /\ pcSleep'[v] = "arm" => due'[current'[v]] <= now' + delay'[v]
      <4>1. CASE v = w
        BY <1>1, <1>f, <3>3, <3>7, <4>1
      <4>2. CASE v # w
        BY <1>0, <1>1, <2>3, <3>1, <3>2, <4>2 DEF SleepsEnd, Own
      <4> QED
        BY <4>1, <4>2
    <3> QED
      BY <3>5, <3>6, <3>8 DEF SleepsEnd
  <2> QED
    BY <2>4, <2>5, <2>6, <2>7, <2>8 DEF SleepInv
<1>5. CASE Sleep!Return(w) \/ Sleep!Throw(w) \/ Sleep!Resumed(w)
  <2>1. /\ UNCHANGED <<state, timer, delay, due>>
        /\ \/ pcSleep[w] = "fiber" /\ pcSleep' = [pcSleep EXCEPT ![w] = "resumed"]
           \/ pcSleep[w] = "fiber" /\ pcSleep' = [pcSleep EXCEPT ![w] = "gone"]
           \/ pcSleep[w] = "resumed" /\ state[f] = "Sleeping" /\ pcSleep' = [pcSleep EXCEPT ![w] = "arm"]
           \/ pcSleep[w] = "resumed" /\ state[f] # "Sleeping" /\ pcSleep' = [pcSleep EXCEPT ![w] = "schedule"]
    BY <1>5, <1>f DEF Sleep!Return, Sleep!Throw, Sleep!Resumed, Sleep!ToDo, Sleep!Goto, Sleep!locals
  <2>2. todo' \in [Fibers -> Seq(SleepOperations)] /\ SleepersStartOnce'
    <3>1. CASE Sleep!Throw(w)
      BY <1>2, <2>1, <3>1 DEF Sleep!Throw
    <3>2. CASE Sleep!Return(w) \/ Sleep!Resumed(w)
      <4>1. UNCHANGED todo
        BY <3>2 DEF Sleep!Return, Sleep!Resumed
      <4> QED
        BY <1>0, <2>1, <4>1 DEF SleepTypes, SleepersStartOnce
    <3> QED
      BY <1>5, <3>1, <3>2
  <2>3. \A v \in Workers : Own(v)' <=> Own(v)
    BY <1>0, <2>1 DEF Own, SleepTypes
  <2>4. SleepTypes'
    BY <1>0, <1>1, <2>1, <2>2, <2>3 DEF SleepTypes
  <2>5. SleepersApart' /\ SleepersLive'
    BY <1>1, <2>1, <2>3, SleepPlacesStay
  <2>6. ThreadsKnow'
    BY <1>0, <1>1, <1>f, <2>1 DEF ThreadsKnow, SleepTypes, Sleep!TimerIsMine
  <2>7. SleepsEnd'
    BY <1>0, <1>1, <1>f, <2>1 DEF SleepsEnd, ThreadsKnow, SleepTypes
  <2> QED
    BY <2>2, <2>4, <2>5, <2>6, <2>7 DEF SleepInv
<1> QED
  BY <1>3, <1>4, <1>5

\* A thread takes a handler: a fiber to resume, or one whose timer expired.
LEMMA SleepTakes ==
    ASSUME SleepInv, NEW w \in Workers, Sleep!Step(w) \/ Sleep!TimerHandler(w)
    PROVE  SleepInv'
<1>0. SleepTypes /\ SleepersApart /\ SleepersLive /\ ThreadsKnow /\ SleepsEnd /\ SleepersStartOnce
  BY DEF SleepInv
<1>f. PICK f : f = Head(posted)[2]
  OBVIOUS
<1>1. /\ pcSleep[w] = "idle" /\ posted # <<>> /\ posted' = Tail(posted)
      /\ current' = [current EXCEPT ![w] = f]
      /\ UNCHANGED <<timers, now, todo, delay, due>>
  BY <1>f DEF Sleep!Step, Sleep!TimerHandler, Sleep!locals
<1>2. \/ /\ pcSleep' = [pcSleep EXCEPT ![w] = "fiber"] /\ state' = [state EXCEPT ![f] = "Running"]
         /\ timer' = [timer EXCEPT ![w] = Null]
      \/ /\ pcSleep' = [pcSleep EXCEPT ![w] = "schedule"] /\ state' = [state EXCEPT ![f] = "Waiting"]
         /\ timer' = timer
  BY <1>f DEF Sleep!Step, Sleep!TimerHandler, Sleep!locals, Sleep!Goto, Sleep!SetState
<1>3. /\ posted' \in Seq(Handlers) /\ f = posted[1][2] /\ f \in Fibers /\ 1 \in 1 .. Len(posted)
      /\ \A i \in 1 .. Len(posted') : i + 1 \in 1 .. Len(posted) /\ posted'[i] = posted[i + 1] /\ i + 1 # 1
      /\ Len(posted) \in Nat /\ Len(posted') \in Nat
  <2>1. posted \in Seq(Handlers)
    BY <1>0 DEF SleepTypes
  <2>2. Head(posted) \in Handlers /\ Head(posted) = posted[1]
    BY <1>1, <2>1, TailIsShorter
  <2>3. f \in Fibers
    BY <1>f, <2>2 DEF Handlers
  <2> QED
    BY <1>1, <1>f, <2>1, <2>2, <2>3, TailIsShorter
<1>4. \A i \in 1 .. Len(posted) : i # 1 => \E j \in 1 .. Len(posted') : posted'[j] = posted[i]
  <2>1. Len(posted') = Len(posted) - 1
    BY <1>0, <1>1, Shortened DEF SleepTypes
  <2>2. \A i \in 1 .. Len(posted) : i # 1 => i - 1 \in 1 .. Len(posted') /\ (i - 1) + 1 = i
    BY ONLY <1>3, <2>1
  <2> QED
    BY <1>3, <2>2
<1>5. /\ \A v \in Workers \ {w} : (Own(v)' <=> Own(v)) /\ current'[v] = current[v] /\ pcSleep'[v] = pcSleep[v]
      /\ Own(w)' /\ ~ Own(w) /\ current'[w] = f
      /\ \A g \in Fibers : state'[g] # Null <=> state[g] # Null
  <2>1. Own(w)' /\ ~ Own(w) /\ current'[w] = f
    BY <1>0, <1>1, <1>2 DEF Own, SleepTypes
  <2>2. \A v \in Workers \ {w} : (Own(v)' <=> Own(v)) /\ current'[v] = current[v] /\ pcSleep'[v] = pcSleep[v]
    BY <1>0, <1>1, <1>2 DEF Own, SleepTypes
  <2>3. state[f] # Null
    BY <1>0, <1>3 DEF SleepersApart
  <2>4. \A g \in Fibers : state'[g] # Null <=> state[g] # Null
    BY <1>0, <1>2, <2>3, NullIsNoState DEF SleepTypes
  <2> QED
    BY <2>1, <2>2, <2>4
<1>6. /\ \A v \in Workers : Own(v) => current[v] # f /\ current[v] \in Fibers
      /\ \A t \in timers : t[1] # f /\ t[1] \in Fibers
      /\ \A i \in 1 .. Len(posted') : posted'[i][2] # f /\ posted'[i][2] \in Fibers
      /\ due[f] <= now
  <2>1. ASSUME NEW i \in 1 .. Len(posted') PROVE posted'[i][2] # f
    <3>1. \A k, l \in 1 .. Len(posted) : posted[k][2] = posted[l][2] => k = l
      BY <1>0 DEF SleepersApart
    <3>2. i + 1 \in 1 .. Len(posted) /\ i + 1 # 1 /\ posted'[i] = posted[i + 1]
      BY <1>3
    <3>3. posted[i + 1][2] # posted[1][2]
      BY ONLY <1>3, <3>1, <3>2
    <3> QED
      BY <1>3, <3>2, <3>3
  <2>2. \A i \in 1 .. Len(posted') : posted'[i][2] \in Fibers
    BY <1>3 DEF Handlers
  <2> QED
    BY <1>0, <1>3, <2>1, <2>2 DEF SleepersApart, SleepTypes, SleepsEnd, Handlers
<1>7. SleepTypes'
  BY <1>0, <1>1, <1>2, <1>3, <1>5 DEF SleepTypes
<1>8. SleepersApart'
  <2>1. \A i, j \in 1 .. Len(posted') : posted'[i][2] = posted'[j][2] => i = j
    <3>1. \A i, j \in 1 .. Len(posted') : posted'[i][2] = posted'[j][2] => i + 1 = j + 1
      BY SMTT(60), <1>0, <1>3 DEF SleepersApart
    <3> QED
      BY ONLY <3>1
  <2>2. \A u, v \in Workers : Own(u)' /\ Own(v)' /\ current'[u] = current'[v] => u = v
    BY <1>0, <1>5, <1>6 DEF SleepersApart
  <2>3. ASSUME NEW v \in Workers, Own(v)'
        PROVE  /\ state'[current'[v]] # Null
               /\ \A i \in 1 .. Len(posted') : posted'[i][2] # current'[v]
               /\ \A t \in timers' : t[1] # current'[v]
    <3>1. CASE v = w
      <4>1. state'[f] # Null
        BY <1>0, <1>3, <1>5 DEF SleepersApart
      <4> QED
        BY <1>1, <1>5, <1>6, <3>1, <4>1
    <3>2. CASE v # w
      <4>1. Own(v) /\ current'[v] = current[v] /\ current[v] \in Fibers
        BY <1>5, <1>6, <2>3, <3>2
      <4>2. state[current[v]] # Null /\ (\A i \in 1 .. Len(posted) : posted[i][2] # current[v])
            /\ \A t \in timers : t[1] # current[v]
        BY <1>0, <4>1 DEF SleepersApart
      <4> QED
        BY <1>1, <1>3, <1>5, <4>1, <4>2
    <3> QED
      BY <3>1, <3>2
  <2>4. ASSUME NEW i \in 1 .. Len(posted')
        PROVE  state'[posted'[i][2]] # Null /\ \A t \in timers' : t[1] # posted'[i][2]
    BY <1>0, <1>1, <1>3, <1>5, <1>6 DEF SleepersApart
  <2>5. /\ \A t, u \in timers' : t[1] = u[1] => t = u
        /\ \A t \in timers' : state'[t[1]] # Null
    BY <1>0, <1>1, <1>5, <1>6 DEF SleepersApart
  <2> QED
    BY <2>1, <2>2, <2>3, <2>4, <2>5 DEF SleepersApart
<1>9. SleepersLive'
  <2>1. ASSUME NEW g \in Fibers PROVE SleepPlaced(g) => SleepPlaced(g)'
    <3>1. CASE \E v \in Workers : Own(v) /\ current[v] = g
      BY <1>5, <3>1 DEF SleepPlaced
    <3>2. CASE \E i \in 1 .. Len(posted) : posted[i][2] = g
      <4>1. PICK i \in 1 .. Len(posted) : posted[i][2] = g
        BY <3>2
      <4>2. CASE i = 1
        BY <1>3, <1>5, <4>1, <4>2 DEF SleepPlaced
      <4>3. CASE i # 1
        BY <1>4, <4>1, <4>3 DEF SleepPlaced
      <4> QED
        BY <4>2, <4>3
    <3>3. CASE \E t \in timers : t[1] = g
      BY <1>1, <3>3 DEF SleepPlaced
    <3> QED
      BY <3>1, <3>2, <3>3 DEF SleepPlaced
  <2> QED
    BY <1>0, <1>5, <2>1 DEF SleepersLive
<1>10. ThreadsKnow'
  <2>1. \A v \in Workers \ {w} : Own(v) => state'[current'[v]] = state[current[v]] /\ timer'[v] = timer[v]
    BY <1>0, <1>2, <1>5, <1>6 DEF SleepTypes
  <2>2. (pcSleep'[w] = "fiber" /\ state'[current'[w]] = "Running") \/ pcSleep'[w] = "schedule"
    BY <1>0, <1>2, <1>3, <1>5 DEF SleepTypes
  <2> QED
    BY <1>0, <1>5, <2>1, <2>2 DEF ThreadsKnow, Own, Sleep!TimerIsMine
<1>11. SleepsEnd'
  <2>1. \A v \in Workers \ {w} : Own(v) => state'[current'[v]] = state[current[v]]
    BY <1>0, <1>2, <1>5, <1>6 DEF SleepTypes
  <2>2. pcSleep'[w] \in {"fiber", "schedule"}
    BY <1>0, <1>2 DEF SleepTypes
  <2>3. /\ \A g \in Fibers : state'[g] = Null => due'[g] <= now'
        /\ \A i \in 1 .. Len(posted') : due'[posted'[i][2]] <= now'
        /\ \A t \in timers' : due'[t[1]] <= t[2]
    BY <1>0, <1>1, <1>3, <1>5 DEF SleepsEnd
  <2>4. ASSUME NEW v \in Workers
        PROVE  /\ pcSleep'[v] \in {"fiber", "schedule"} => due'[current'[v]] <= now'
               /\ pcSleep'[v] = "resumed" /\ state'[current'[v]] # "Sleeping" => due'[current'[v]] <= now'
               /\ pcSleep'[v] = "resumed" /\ state'[current'[v]] = "Sleeping" => due'[current'[v]] <= now' + delay'[v]
               /\ pcSleep'[v] = "arm" => due'[current'[v]] <= now' + delay'[v]
    <3>1. CASE v = w
      BY <1>1, <1>5, <1>6, <2>2, <3>1
    <3>2. CASE v # w
      BY <1>0, <1>1, <1>5, <2>1, <3>2 DEF SleepsEnd, Own
    <3> QED
      BY <3>1, <3>2
  <2> QED
    BY <2>3, <2>4 DEF SleepsEnd
<1>12. SleepersStartOnce'
  <2>1. state'[3] # Null <=> state[3] # Null
    BY <1>5, ThreeFibers
  <2> QED
    BY <1>0, <1>1, <2>1, SleepStartsKept
<1> QED
  BY <1>7, <1>8, <1>9, <1>10, <1>11, <1>12 DEF SleepInv

\* The fiber starts another, for which there was no place yet.
LEMMA SleepGo == ASSUME SleepInv, NEW w \in Workers, Sleep!Go(w) PROVE SleepInv'
<1>0. SleepTypes /\ SleepersApart /\ SleepersLive /\ ThreadsKnow /\ SleepsEnd /\ SleepersStartOnce
  BY DEF SleepInv
<1>1. Sleep!ToDo(w, "go")
  BY DEF Sleep!Go
<1>2. /\ todo' \in [Fibers -> Seq(SleepOperations)] /\ current[w] \in Fibers
      /\ 1 \in 1 .. Len(todo[current[w]]) /\ todo[current[w]][1] = <<"go", 3>>
      /\ Head(todo[current[w]])[2] = 3
  BY <1>1, SleepToDo
<1>e. PICK e : e = <<"step", 3>>
  OBVIOUS
<1>3. /\ state' = [state EXCEPT ![3] = "Rescheduling"] /\ posted' = Append(posted, e)
      /\ UNCHANGED <<timers, now, pcSleep, current, timer, delay, due>>
  BY <1>2, <1>e DEF Sleep!Go, Sleep!SetState, Sleep!locals
<1>4. state[3] = Null /\ 3 \in Fibers /\ e \in Handlers /\ e[2] = 3
  BY <1>0, <1>2, <1>e, ThreeFibers DEF SleepersStartOnce, Handlers
<1>5. /\ \A v \in Workers : Own(v) => current[v] # 3 /\ current[v] \in Fibers
      /\ \A i \in 1 .. Len(posted) : posted[i][2] # 3 /\ posted[i][2] \in Fibers
      /\ \A t \in timers : t[1] # 3 /\ t[1] \in Fibers
  BY <1>0, <1>4 DEF SleepersApart, SleepTypes, Handlers
<1>6. /\ posted' \in Seq(Handlers)
      /\ \A i \in 1 .. Len(posted') : \/ i \in 1 .. Len(posted) /\ posted'[i] = posted[i]
                                      \/ i = Len(posted) + 1 /\ posted'[i] = e
      /\ \A i \in 1 .. Len(posted) : i \in 1 .. Len(posted') /\ posted'[i] = posted[i]
      /\ \E i \in 1 .. Len(posted') : posted'[i] = e
  BY <1>0, <1>3, <1>4, Posted
<1>7. /\ \A v : Own(v)' <=> Own(v)
      /\ \A g \in Fibers \ {3} : state'[g] = state[g]
      /\ state'[3] = "Rescheduling" /\ state'[3] # Null
  BY <1>0, <1>3, <1>4, NullIsNoState DEF Own, SleepTypes
<1>8. SleepTypes'
  BY <1>0, <1>2, <1>3, <1>6, <1>7 DEF SleepTypes
<1>9. SleepersApart'
  <2>1. \A g \in Fibers : state[g] # Null => state'[g] # Null
    BY <1>7
  <2> QED
    BY <1>0, <1>3, <1>4, <1>5, <1>7, <2>1, PostedApart
<1>10. SleepersLive'
  <2>1. SleepPlaced(3)'
    BY <1>4, <1>6 DEF SleepPlaced
  <2>2. ASSUME NEW g \in Fibers, SleepPlaced(g) PROVE SleepPlaced(g)'
    BY <1>3, <1>6, <1>7, <2>2 DEF SleepPlaced
  <2> QED
    BY <1>0, <1>7, <2>1, <2>2 DEF SleepersLive
<1>11. ThreadsKnow'
  BY <1>0, <1>3, <1>5, <1>7 DEF ThreadsKnow, Own, Sleep!TimerIsMine
<1>12. SleepsEnd'
  <2>1. due[3] <= now
    BY <1>0, <1>4 DEF SleepsEnd
  <2>2. /\ \A g \in Fibers : state'[g] = Null => due'[g] <= now'
        /\ \A t \in timers' : due'[t[1]] <= t[2]
    BY <1>0, <1>3, <1>7 DEF SleepsEnd
  <2>3. \A i \in 1 .. Len(posted') : due'[posted'[i][2]] <= now'
    BY <1>0, <1>3, <1>4, <1>6, <2>1 DEF SleepsEnd
  <2>4. \A v \in Workers : Own(v) => state'[current'[v]] = state[current[v]]
    BY <1>3, <1>5, <1>7
  <2> QED
    BY <1>0, <1>3, <2>2, <2>3, <2>4 DEF SleepsEnd, Own
<1>13. SleepersStartOnce'
  <2>1. PICK f \in Fibers \cup {Null} : f = current[w]
    BY <1>2
  <2>2. \A g \in Fibers : \A i \in 1 .. Len(todo'[g]) : \E j \in 1 .. Len(todo[g]) :
            todo'[g][i] = todo[g][j] /\ j = IF g = f THEN i + 1 ELSE i
    BY <1>1, <2>1, SleepToDo
  <2>3. ASSUME NEW g \in Fibers, NEW i \in 1 .. Len(todo'[g]) PROVE todo'[g][i] # <<"go", 3>>
    <3>1. PICK j \in 1 .. Len(todo[g]) : todo'[g][i] = todo[g][j] /\ j = IF g = f THEN i + 1 ELSE i
      BY <2>2
    <3>2. ASSUME todo[g][j] = <<"go", 3>> PROVE f = g /\ 1 = j
      <4>1. PICK n : n = 1
        OBVIOUS
      <4>2. f \in Fibers /\ n \in 1 .. Len(todo[f]) /\ todo[f][n] = <<"go", 3>>
        BY ONLY SMTT(60), <1>2, <2>1, <4>1
      <4>3. f = g /\ n = j
        BY ONLY SMTT(60), <1>0, <3>2, <4>2, g \in Fibers, j \in 1 .. Len(todo[g]) DEF SleepersStartOnce
      <4> QED
        BY <4>1, <4>3
    <3>3. f = g => j # 1
      BY <3>1
    <3> QED
      BY <3>1, <3>2, <3>3
  <2> QED
    BY <1>0, <2>2, <2>3, SleepStartsStay
<1> QED
  BY <1>8, <1>9, <1>10, <1>11, <1>12, <1>13 DEF SleepInv

\* The thread that ran the fiber arms its timer; nobody has the fiber then.
LEMMA SleepArms == ASSUME SleepInv, NEW w \in Workers, Sleep!AsyncWait(w) PROVE SleepInv'
<1>0. SleepTypes /\ SleepersApart /\ SleepersLive /\ ThreadsKnow /\ SleepsEnd /\ SleepersStartOnce
  BY DEF SleepInv
<1>f. PICK f : f = current[w]
  OBVIOUS
<1>x. PICK x : x = <<f, now + delay[w]>>
  OBVIOUS
<1>1. /\ pcSleep[w] = "arm" /\ timers' = timers \cup {x} /\ pcSleep' = [pcSleep EXCEPT ![w] = "idle"]
      /\ UNCHANGED <<posted, now, state, todo, current, timer, delay, due>>
  <2>1. pcSleep[w] = "arm" /\ timer[w] = f
    BY <1>0, <1>f DEF Sleep!AsyncWait, ThreadsKnow, Sleep!TimerIsMine
  <2> QED
    BY <1>x, <2>1 DEF Sleep!AsyncWait, Sleep!Goto, Sleep!locals
<1>2. f \in Fibers /\ now + delay[w] \in Nat /\ x[1] = f /\ x[2] = now + delay[w] /\ x \in Fibers \X Nat
  <2>1. f \in Fibers /\ now \in Nat /\ delay[w] \in Nat
    BY <1>0, <1>1, <1>f DEF SleepTypes, Own
  <2>2. now + delay[w] \in Nat
    BY <2>1
  <2> QED
    BY <1>x, <2>1, <2>2
<1>3. /\ \A v \in Workers : Own(v)' <=> Own(v) /\ v # w
      /\ Own(w) /\ \A v \in Workers \ {w} : pcSleep'[v] = pcSleep[v] /\ (Own(v) => current[v] # f)
  BY <1>0, <1>1, <1>f DEF Own, SleepTypes, SleepersApart
<1>4. /\ \A i \in 1 .. Len(posted) : posted[i][2] # f
      /\ \A t \in timers : t[1] # f
      /\ state[f] # Null /\ due[f] <= now + delay[w]
  BY <1>0, <1>1, <1>3, <1>f DEF SleepersApart, SleepsEnd
<1>5. SleepTypes'
  BY <1>0, <1>1, <1>2, <1>3 DEF SleepTypes
<1>6. SleepersApart'
  <2>1. /\ \A t \in timers' : t \in timers \/ t = x
        /\ \A u, v \in Workers : Own(u)' /\ Own(v)' /\ current'[u] = current'[v] => u = v
        /\ \A i, j \in 1 .. Len(posted') : posted'[i][2] = posted'[j][2] => i = j
    BY <1>0, <1>1, <1>3 DEF SleepersApart
  <2>2. ASSUME NEW v \in Workers, Own(v)'
        PROVE  /\ state'[current'[v]] # Null
               /\ \A i \in 1 .. Len(posted') : posted'[i][2] # current'[v]
               /\ \A t \in timers' : t[1] # current'[v]
    BY <1>0, <1>1, <1>2, <1>3, <2>1, <2>2 DEF SleepersApart
  <2>3. ASSUME NEW i \in 1 .. Len(posted')
        PROVE  state'[posted'[i][2]] # Null /\ \A t \in timers' : t[1] # posted'[i][2]
    BY <1>0, <1>1, <1>2, <1>4, <2>1 DEF SleepersApart
  <2>4. /\ \A t, u \in timers' : t[1] = u[1] => t = u
        /\ \A t \in timers' : state'[t[1]] # Null
    BY <1>0, <1>1, <1>2, <1>4, <2>1 DEF SleepersApart
  <2> QED
    BY <2>1, <2>2, <2>3, <2>4 DEF SleepersApart
<1>7. SleepersLive'
  <2>1. SleepPlaced(f)'
    BY <1>1, <1>2 DEF SleepPlaced
  <2>2. ASSUME NEW g \in Fibers, SleepPlaced(g), g # f PROVE SleepPlaced(g)'
    BY <1>1, <1>3, <1>f, <2>2 DEF SleepPlaced
  <2> QED
    BY <1>0, <1>1, <2>1, <2>2 DEF SleepersLive
<1>8. ThreadsKnow'
  BY <1>0, <1>1, <1>3 DEF ThreadsKnow, SleepTypes, Sleep!TimerIsMine
<1>9. SleepsEnd'
  <2>1. \A t \in timers' : due'[t[1]] <= t[2]
    BY <1>0, <1>1, <1>2, <1>4 DEF SleepsEnd
  <2>2. pcSleep'[w] = "idle"
    BY <1>0, <1>1 DEF SleepTypes
  <2> QED
    BY <1>0, <1>1, <1>3, <2>1, <2>2 DEF SleepsEnd
<1>10. SleepersStartOnce'
  BY <1>0, <1>1, SleepStartsKept
<1> QED
  BY <1>5, <1>6, <1>7, <1>8, <1>9, <1>10 DEF SleepInv

\* The fiber is posted again, or deleted.
LEMMA SleepSchedules == ASSUME SleepInv, NEW w \in Workers, Sleep!Schedule(w) PROVE SleepInv'
<1>0. SleepTypes /\ SleepersApart /\ SleepersLive /\ ThreadsKnow /\ SleepsEnd /\ SleepersStartOnce
  BY DEF SleepInv
<1>f. PICK f : f = current[w]
  OBVIOUS
<1>e. PICK e : e = <<"step", f>>
  OBVIOUS
<1>1. /\ pcSleep[w] = "schedule" /\ pcSleep' = [pcSleep EXCEPT ![w] = "idle"]
      /\ UNCHANGED <<timers, now, todo, current, timer, delay, due>>
      /\ \/ state' = state /\ posted' = Append(posted, e)
         \/ state' = [state EXCEPT ![f] = Null] /\ posted' = posted
  BY <1>f, <1>e DEF Sleep!Schedule, Sleep!Goto, Sleep!SetState, Sleep!locals
<1>2. f \in Fibers /\ e \in Handlers /\ e[2] = f
  BY <1>0, <1>1, <1>f, <1>e DEF SleepTypes, Own, Handlers
<1>3. /\ \A v \in Workers : Own(v)' <=> Own(v) /\ v # w
      /\ Own(w) /\ \A v \in Workers \ {w} : pcSleep'[v] = pcSleep[v] /\ (Own(v) => current[v] # f /\ current[v] \in Fibers)
      /\ pcSleep'[w] = "idle"
  BY <1>0, <1>1, <1>f DEF Own, SleepTypes, SleepersApart
<1>4. /\ \A i \in 1 .. Len(posted) : posted[i][2] # f /\ posted[i][2] \in Fibers
      /\ \A t \in timers : t[1] # f /\ t[1] \in Fibers
      /\ state[f] # Null /\ due[f] <= now
  BY SMTT(60), <1>0, <1>1, <1>3, <1>f DEF SleepersApart, SleepsEnd, SleepTypes, Handlers
<1>5. CASE state' = state /\ posted' = Append(posted, e)
  <2>1. /\ posted' \in Seq(Handlers)
        /\ \A i \in 1 .. Len(posted') : \/ i \in 1 .. Len(posted) /\ posted'[i] = posted[i]
                                        \/ i = Len(posted) + 1 /\ posted'[i] = e
        /\ \A i \in 1 .. Len(posted) : i \in 1 .. Len(posted') /\ posted'[i] = posted[i]
        /\ \E i \in 1 .. Len(posted') : posted'[i] = e
    BY <1>0, <1>2, <1>5, Posted
  <2>2. SleepTypes'
    BY <1>0, <1>1, <1>3, <1>5, <2>1 DEF SleepTypes
  <2>3. SleepersApart'
    <3>1. \A v \in Workers : Own(v)' => Own(v) /\ current'[v] = current[v] /\ current[v] # e[2]
      BY <1>1, <1>2, <1>3
    <3> QED
      BY <1>0, <1>1, <1>2, <1>4, <1>5, <3>1, PostedApart
  <2>4. SleepersLive'
    <3>1. SleepPlaced(f)'
      BY <1>2, <2>1 DEF SleepPlaced
    <3>2. ASSUME NEW g \in Fibers, SleepPlaced(g), g # f PROVE SleepPlaced(g)'
      BY <1>1, <1>3, <1>f, <2>1, <3>2 DEF SleepPlaced
    <3> QED
      BY <1>0, <1>5, <3>1, <3>2 DEF SleepersLive
  <2>5. ThreadsKnow'
    BY <1>0, <1>1, <1>3, <1>5 DEF ThreadsKnow, SleepTypes, Sleep!TimerIsMine
  <2>6. SleepsEnd'
    <3>1. \A i \in 1 .. Len(posted') : due'[posted'[i][2]] <= now'
      BY <1>0, <1>1, <1>2, <1>4, <2>1 DEF SleepsEnd
    <3> QED
      BY <1>0, <1>1, <1>3, <1>5, <3>1 DEF SleepsEnd
  <2>7. SleepersStartOnce'
    BY <1>0, <1>1, <1>5, SleepStartsKept
  <2> QED
    BY <2>2, <2>3, <2>4, <2>5, <2>6, <2>7 DEF SleepInv
<1>6. CASE state' = [state EXCEPT ![f] = Null] /\ posted' = posted
  <2>1. state'[f] = Null /\ \A g \in Fibers \ {f} : state'[g] = state[g]
    BY <1>0, <1>2, <1>6 DEF SleepTypes
  <2>2. SleepTypes'
    BY <1>0, <1>1, <1>3, <1>6 DEF SleepTypes
  <2>3. SleepersApart'
    BY <1>0, <1>1, <1>3, <1>4, <1>6, <2>1 DEF SleepersApart
  <2>4. SleepersLive'
    <3>1. ASSUME NEW g \in Fibers, SleepPlaced(g), g # f PROVE SleepPlaced(g)'
      BY <1>1, <1>3, <1>6, <1>f, <3>1 DEF SleepPlaced
    <3> QED
      BY <1>0, <2>1, <3>1 DEF SleepersLive
  <2>5. ThreadsKnow'
    BY <1>0, <1>1, <1>3, <2>1 DEF ThreadsKnow, Own, Sleep!TimerIsMine
  <2>6. SleepsEnd'
    <3>1. \A g \in Fibers : state'[g] = Null => due'[g] <= now'
      BY <1>0, <1>1, <1>4, <2>1 DEF SleepsEnd
    <3>2. /\ \A i \in 1 .. Len(posted') : due'[posted'[i][2]] <= now'
          /\ \A t \in timers' : due'[t[1]] <= t[2]
      BY <1>0, <1>1, <1>6 DEF SleepsEnd
    <3>3. \A v \in Workers \ {w} : Own(v) => state'[current'[v]] = state[current[v]]
      BY <1>1, <1>3, <2>1
    <3> QED
      BY <1>0, <1>1, <1>3, <3>1, <3>2, <3>3 DEF SleepsEnd, Own
  <2>7. SleepersStartOnce'
    <3>1. state[3] = Null => state'[3] = Null
      BY <2>1, ThreeFibers
    <3> QED
      BY <1>0, <1>1, <3>1, SleepStartsKept
  <2> QED
    BY <2>2, <2>3, <2>4, <2>5, <2>6, <2>7 DEF SleepInv
<1> QED
  BY <1>1, <1>5, <1>6

\* A timer expires, and its handler is posted.
LEMMA SleepExpires == ASSUME SleepInv, Sleep!Expire PROVE SleepInv'
<1>0. SleepTypes /\ SleepersApart /\ SleepersLive /\ ThreadsKnow /\ SleepsEnd /\ SleepersStartOnce
  BY DEF SleepInv
<1>t. PICK x \in timers : /\ x[2] <= now /\ timers' = timers \ {x}
                          /\ posted' = Append(posted, <<"timer", x[1]>>)
                          /\ UNCHANGED <<now, state, todo, pcSleep, current, timer, delay, due>>
  BY DEF Sleep!Expire, Sleep!locals
<1>e. PICK e : e = <<"timer", x[1]>>
  OBVIOUS
<1>1. x[1] \in Fibers /\ x[2] \in Nat /\ e \in Handlers /\ e[2] = x[1] /\ posted' = Append(posted, e)
  BY <1>0, <1>t, <1>e DEF SleepTypes, Handlers
<1>2. /\ \A v \in Workers : Own(v) => current[v] # e[2]
      /\ \A i \in 1 .. Len(posted) : posted[i][2] # e[2]
      /\ \A t \in timers' : t \in timers /\ t[1] # e[2]
      /\ state[e[2]] # Null
  BY <1>0, <1>1, <1>t DEF SleepersApart
<1>3. due[e[2]] <= now
  <2>1. due[x[1]] \in Nat /\ now \in Nat /\ due[x[1]] <= x[2]
    BY <1>0, <1>1, <1>t DEF SleepTypes, SleepsEnd
  <2> QED
    BY <1>1, <1>t, <2>1
<1>4. /\ posted' \in Seq(Handlers)
      /\ \A i \in 1 .. Len(posted') : \/ i \in 1 .. Len(posted) /\ posted'[i] = posted[i]
                                      \/ i = Len(posted) + 1 /\ posted'[i] = e
      /\ \A i \in 1 .. Len(posted) : i \in 1 .. Len(posted') /\ posted'[i] = posted[i]
      /\ \E i \in 1 .. Len(posted') : posted'[i] = e
  BY <1>0, <1>1, Posted
<1>5. \A v : Own(v)' <=> Own(v)
  BY <1>t DEF Own
<1>6. SleepTypes'
  BY <1>0, <1>4, <1>5, <1>t DEF SleepTypes
<1>7. SleepersApart'
  <2>1. /\ \A v \in Workers : Own(v)' => Own(v) /\ current'[v] = current[v] /\ current[v] # e[2]
        /\ timers' \subseteq timers
    BY <1>2, <1>5, <1>t
  <2> QED
    BY <1>0, <1>1, <1>2, <1>t, <2>1, PostedApart
<1>8. SleepersLive'
  <2>1. SleepPlaced(x[1])'
    BY <1>1, <1>4, <1>t DEF SleepPlaced
  <2>2. ASSUME NEW g \in Fibers, SleepPlaced(g), g # x[1] PROVE SleepPlaced(g)'
    BY <1>4, <1>5, <1>t, <2>2 DEF SleepPlaced
  <2>3. \A g \in Fibers : g = x[1] => SleepPlaced(g)'
    <3>1. \E i \in 1 .. Len(posted') : posted'[i][2] = x[1]
      BY <1>1, <1>4
    <3> QED
      BY <3>1 DEF SleepPlaced
  <2> QED
    BY <1>0, <1>t, <2>2, <2>3 DEF SleepersLive
<1>9. ThreadsKnow'
  BY <1>0, <1>t DEF ThreadsKnow, Sleep!TimerIsMine
<1>10. SleepsEnd'
  <2>1. \A i \in 1 .. Len(posted') : due'[posted'[i][2]] <= now'
    BY <1>0, <1>3, <1>4, <1>t DEF SleepsEnd
  <2> QED
    BY <1>0, <1>2, <1>t, <2>1 DEF SleepsEnd
<1>11. SleepersStartOnce'
  BY <1>0, <1>t, SleepStartsKept
<1> QED
  BY <1>6, <1>7, <1>8, <1>9, <1>10, <1>11 DEF SleepInv

\* The clock moves.
LEMMA SleepTicks == ASSUME SleepInv, Sleep!Tick PROVE SleepInv'
<1>0. SleepTypes /\ SleepersApart /\ SleepersLive /\ ThreadsKnow /\ SleepsEnd /\ SleepersStartOnce
  BY DEF SleepInv
<1>1. now' = now + 1 /\ UNCHANGED <<posted, timers, state, todo, pcSleep, current, timer, delay, due>>
  BY DEF Sleep!Tick, Sleep!locals
<1>2. \A v : Own(v)' <=> Own(v)
  BY <1>1 DEF Own
<1>3. SleepTypes'
  BY <1>0, <1>1, <1>2 DEF SleepTypes
<1>4. SleepersApart' /\ SleepersLive'
  BY <1>1, <1>2, SleepPlacesStay
<1>5. ThreadsKnow' /\ SleepersStartOnce'
  BY <1>0, <1>1, SleepStartsKept DEF ThreadsKnow, Sleep!TimerIsMine
<1>6. /\ \A a, b \in Nat : a <= b => a <= b + 1
      /\ \A a, b, c \in Nat : a <= b + c => a <= (b + 1) + c
  OBVIOUS
<1>7. /\ now \in Nat /\ due \in [Fibers -> Nat] /\ delay \in [Workers -> Nat]
      /\ \A i \in 1 .. Len(posted) : posted[i][2] \in Fibers
      /\ \A w \in Workers : Own(w) => current[w] \in Fibers
  BY <1>0 DEF SleepTypes, Handlers
<1>8. SleepsEnd'
  BY <1>0, <1>1, <1>6, <1>7 DEF SleepsEnd, Own
<1> QED
  BY <1>3, <1>4, <1>5, <1>8 DEF SleepInv

LEMMA SleepAlways == Spec => []SleepInv
<1>1. Sleep!Init => SleepInv
  <2> SUFFICES ASSUME Sleep!Init PROVE SleepInv
    OBVIOUS
  <2> DEFINE roots == <<1, 2>>
  <2>1. /\ posted = [i \in DOMAIN roots |-> <<"step", roots[i]>>]
        /\ state = [f \in Fibers |-> IF \E i \in DOMAIN roots : roots[i] = f THEN "Rescheduling" ELSE Null]
        /\ timers = {} /\ now = 0 /\ todo = SleepScript
        /\ pcSleep = [w \in Workers |-> "idle"] /\ current = [w \in Workers |-> Null]
        /\ timer = [w \in Workers |-> Null] /\ delay = [w \in Workers |-> 0]
        /\ due = [f \in Fibers |-> 0]
    BY DEF Sleep!Init
  <2>2. DOMAIN roots = {1, 2} /\ roots[1] = 1 /\ roots[2] = 2
    OBVIOUS
  <2>3. posted = << <<"step", 1>>, <<"step", 2>> >>
    BY <2>1, <2>2
  <2>4. /\ Len(posted) = 2 /\ posted[1] = <<"step", 1>> /\ posted[2] = <<"step", 2>>
        /\ <<"step", 1>> \in Handlers /\ <<"step", 2>> \in Handlers
    BY <2>3, ThreeFibers DEF Handlers
  <2>5. posted \in Seq(Handlers)
    BY <2>3, <2>4
  <2>6. state[1] = "Rescheduling" /\ state[2] = "Rescheduling" /\ state[3] = Null
    BY <2>1, <2>2, ThreeFibers
  <2>7. /\ SleepScript[1] = << <<"sleep", 1>>, <<"go", 3>> >>
        /\ SleepScript[2] = << <<"yield">>, <<"sleep", 2>> >>
        /\ SleepScript[3] = << <<"throw">> >>
        /\ DOMAIN SleepScript = Fibers
    BY ThreeFibers DEF SleepScript
  <2>8. /\ SleepScript[1] \in Seq(SleepOperations) /\ SleepScript[2] \in Seq(SleepOperations)
        /\ SleepScript[3] \in Seq(SleepOperations)
    BY <2>7 DEF SleepOperations
  <2>9. SleepScript = [f \in Fibers |-> SleepScript[f]]
    BY <2>7 DEF SleepScript
  <2>10. todo \in [Fibers -> Seq(SleepOperations)]
    BY <2>1, <2>8, <2>9, ThreeFibers
  <2>11. SleepTypes
    <3>1. state \in [Fibers -> {"Rescheduling", "Running", "Waiting", "Sleeping", Null}]
      BY <2>1
    <3> QED
      BY <2>1, <2>5, <2>10, <3>1 DEF SleepTypes, Own
  <2>12. SleepersApart
    BY <2>1, <2>4, <2>6, NullIsNoState DEF SleepersApart, Own
  <2>13. SleepersLive
    BY <2>4, <2>6, ThreeFibers DEF SleepersLive, SleepPlaced
  <2>14. ThreadsKnow
    BY <2>1 DEF ThreadsKnow, Sleep!TimerIsMine
  <2>15. SleepsEnd
    BY <2>1, <2>4, ThreeFibers DEF SleepsEnd
  <2>16. ASSUME NEW f \in Fibers, NEW i \in 1 .. Len(SleepScript[f]), SleepScript[f][i] = <<"go", 3>>
         PROVE  f = 1 /\ i = 2
    BY <2>7, <2>16, ThreeFibers
  <2>17. SleepersStartOnce
    BY <2>1, <2>6, <2>16 DEF SleepersStartOnce
  <2> QED
    BY <2>11, <2>12, <2>13, <2>14, <2>15, <2>17 DEF SleepInv
<1>2. SleepInv /\ [Sleep!Next]_(Sleep!vars) => SleepInv'
  <2> SUFFICES ASSUME SleepInv, [Sleep!Next]_(Sleep!vars) PROVE SleepInv'
    OBVIOUS
  <2>1. CASE UNCHANGED Sleep!vars
    BY SMTT(60), <2>1 DEF SleepInv, SleepTypes, SleepersApart, SleepersLive, SleepPlaced, ThreadsKnow, SleepsEnd,
       SleepersStartOnce, Own, Sleep!TimerIsMine, Sleep!vars, Sleep!context, Sleep!locals
  <2>2. CASE Sleep!Next
    BY <2>2, SleepPasses, SleepTakes, SleepGo, SleepArms, SleepSchedules, SleepExpires, SleepTicks
    DEF Sleep!Next, Sleep!WorkerStep
  <2> QED
    BY <2>1, <2>2
<1> QED
  BY <1>1, <1>2, Moves, PTL DEF Spec, Init

LEMMA SleepersInOnePlace == SleepInv => Sleep!OnePlace
<1> SUFFICES ASSUME SleepInv, NEW f \in Fibers
             PROVE  LET asleep == {t \in timers : t[1] = f}
                        places == {<<"thread", w>> : w \in Sleep!Held(f)} \cup {<<"posted", i>> : i \in Sleep!Waits(f)}
                                  \cup {<<"asleep", t>> : t \in asleep}
                    IN  IF state[f] = Null THEN places = {} ELSE \E p \in places : places = {p}
  BY DEF Sleep!OnePlace
<1>0. SleepTypes /\ SleepersApart /\ SleepersLive
  BY DEF SleepInv
<1> DEFINE W == {<<"thread", w>> : w \in Sleep!Held(f)}
           Q == {<<"posted", i>> : i \in Sleep!Waits(f)}
           asleep == {t \in timers : t[1] = f}
           T == {<<"asleep", t>> : t \in asleep}
           places == W \cup Q \cup T
<1>1. \A w : w \in Sleep!Held(f) <=> w \in Workers /\ Own(w) /\ current[w] = f
  BY DEF Sleep!Held, Own
<1>2. \A i : i \in Sleep!Waits(f) <=> i \in 1 .. Len(posted) /\ posted[i][2] = f
  BY <1>0 DEF Sleep!Waits, SleepTypes
<1>3. places = {} <=> ~ SleepPlaced(f)
  <2>1. W # {} <=> \E w \in Workers : Own(w) /\ current[w] = f
    BY <1>1
  <2>2. Q # {} <=> \E i \in 1 .. Len(posted) : posted[i][2] = f
    BY <1>2
  <2>3. T # {} <=> \E t \in timers : t[1] = f
    OBVIOUS
  <2> HIDE DEF W, Q, T
  <2> QED
    BY <2>1, <2>2, <2>3 DEF SleepPlaced
<1>4. ASSUME NEW p \in places, NEW q \in places PROVE p = q
  <2>1. CASE p \in W
    <3>1. PICK w \in Workers : p = <<"thread", w>> /\ Own(w) /\ current[w] = f
      BY <1>1, <2>1
    <3>2. Q = {} /\ T = {}
      BY <1>0, <1>2, <3>1 DEF SleepersApart
    <3>3. PICK v \in Workers : q = <<"thread", v>> /\ Own(v) /\ current[v] = f
      BY <1>1, <1>4, <3>2
    <3> QED
      BY <1>0, <3>1, <3>3 DEF SleepersApart
  <2>2. CASE p \in Q
    <3>1. PICK i \in 1 .. Len(posted) : p = <<"posted", i>> /\ posted[i][2] = f
      BY <1>2, <2>2
    <3>2. W = {} /\ T = {}
      BY <1>0, <1>1, <3>1 DEF SleepersApart
    <3>3. PICK j \in 1 .. Len(posted) : q = <<"posted", j>> /\ posted[j][2] = f
      BY <1>2, <1>4, <3>2
    <3> QED
      BY <1>0, <3>1, <3>3 DEF SleepersApart
  <2>3. CASE p \in T
    <3>1. PICK t \in timers : p = <<"asleep", t>> /\ t[1] = f
      BY <2>3
    <3>2. W = {} /\ Q = {}
      BY <1>0, <1>1, <1>2, <3>1 DEF SleepersApart
    <3>3. PICK u \in timers : q = <<"asleep", u>> /\ u[1] = f
      BY <1>4, <3>2
    <3> QED
      BY <1>0, <3>1, <3>3 DEF SleepersApart
  <2> QED
    BY <1>4, <2>1, <2>2, <2>3
<1>5. state[f] = Null => ~ SleepPlaced(f)
  BY <1>0 DEF SleepersApart, SleepPlaced
<1> HIDE DEF places
<1>6. IF state[f] = Null THEN places = {} ELSE \E p \in places : places = {p}
  BY <1>0, <1>3, <1>4, <1>5 DEF SleepersLive
<1> QED
  BY <1>6 DEF places

\* Nobody passes the barrier before all have arrived, and no fiber goes on
\* before its sleep is over: for any number of participants, rounds and threads.
THEOREM NobodyIsEarly == Spec => []NobodyPassesEarly
<1>1. BarrierInv /\ SleepInv => NobodyPassesEarly
  BY GenerationsWait DEF SleepInv, SleepsEnd, Sleep!NobodyWakesEarly, NobodyPassesEarly
<1> QED
  BY <1>1, BarrierAlways, SleepAlways, PTL

\* One at a time: at the locks, at the table, in the deque of the bounded queue
\* and in a Mutexed object, for any number of threads; and a fiber that sleeps is
\* in one place, with its own timer.
THEOREM SectionsAlwaysExclude == Spec => []CriticalSectionsExclude
<1>1. Spec => []Ticket!TypeOK
  <2>1. TicketProofs!TypeOK => Ticket!TypeOK
    BY DEF TicketProofs!TypeOK, Ticket!TypeOK
  <2> QED
    BY <2>1, TicketBehaves, TicketProofs!TypeCorrect, PTL
<1>2. /\ Ticket!TypeOK /\ QueueInv /\ MutexInv /\ SpinInv /\ CondInv /\ BoundedInv /\ BarrierInv
      /\ Dining!PlatesAreExclusive /\ GuardedInv /\ SleepInv
      => CriticalSectionsExclude
  BY DequeStaysSafe, SleepersInOnePlace
  DEF QueueInv, MutexInv, SpinInv, CondInv, CondTypes, BoundedInv, BarrierInv, GuardedInv,
      SleepInv, ThreadsKnow, CriticalSectionsExclude
<1> QED
  BY <1>1, <1>2, QueueAlways, MutexAlways, SpinAlways, CondAlways, BoundedAlways, BarrierAlways,
     DiningAlways, GuardedAlways, SleepAlways, PTL
=============================================================================
