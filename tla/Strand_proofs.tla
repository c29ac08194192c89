--------------------------- MODULE Strand_proofs ---------------------------
(***************************************************************************)
(* The proofs about Strand.  The stack is a linked list, and Stack walks   *)
(* it with a recursive function.  The invariant says that some sequence    *)
(* hangs together as the list must (Hangs); ReadsStack shows that the walk *)
(* yields that sequence, and no step has to look at the walk again.        *)
(***************************************************************************)
EXTENDS Strand, FiniteSetTheorems, WellFoundedInduction, TLAPS

-----------------------------------------------------------------------------
(* The walk *)

\* Every set of natural numbers has a least element: what an induction on the
\* length of the walk needs.
LEMMA Least ==
    ASSUME NEW T, T \subseteq Nat, T # {}
    PROVE  \E x \in T : \A y \in T : x <= y
<1> DEFINE R == {p \in Nat \X Nat : p[1] < p[2]}
<1>1. R = OpToRel(<, Nat)
  BY DEF OpToRel
<1>2. IsWellFoundedOn(R, Nat)
  BY ONLY <1>1, NatLessThanWellFounded
<1>3. \E x \in T : \A y \in T : ~ (<<y, x>> \in R)
  <2> HIDE DEF R
  <2> QED BY <1>2, WFMin
<1>4. \A x, y \in Nat : <<y, x>> \in R <=> y < x
  OBVIOUS
<1>5. \A x, y \in T : ~ (<<y, x>> \in R) => x <= y
  <2> HIDE DEF R
  <2> QED BY <1>4
<1> HIDE DEF R
<1> QED BY <1>3, <1>5

\* Cards: the bound of the walk.
Cards == Cardinality(Nodes)

\* f is the walk from the top: f[0] is the top of the stack, f[i + 1] what
\* lies below f[i].
IsWalk(f) == f = [i \in 0 .. Cards |->
                    IF i = 0 THEN tasks ELSE IF f[i - 1] = Null THEN Null ELSE prev[f[i - 1]]]

Steps(f) == Cardinality({i \in 0 .. Cards : f[i] # Null})

Turned(f) == [i \in 1 .. Steps(f) |-> f[Steps(f) - i]]

\* st hangs off tasks_, oldest node first.
Hangs(st) ==
    /\ st \in Seq(Nodes)
    /\ \A i, j \in 1 .. Len(st) : st[i] = st[j] => i = j
    /\ \A i \in 1 .. Len(st) : prev[st[i]] = IF i = 1 THEN Null ELSE st[i - 1]
    /\ tasks = IF st = <<>> THEN Null ELSE st[Len(st)]

LEMMA CardsIsNat == Cards \in Nat
  BY StrandAssumption, FS_CardinalityType DEF StrandAssumption, Cards

\* A walk, step by step.
LEMMA WalkGoes ==
    ASSUME NEW f, IsWalk(f)
    PROVE  /\ DOMAIN f = 0 .. Cards
           /\ f[0] = tasks
           /\ \A i \in 0 .. Cards : i # 0 =>
                f[i] = IF f[i - 1] = Null THEN Null ELSE prev[f[i - 1]]
           /\ f = [i \in 0 .. Cards |-> f[i]]
<1> DEFINE next(i) == IF i = 0 THEN tasks ELSE IF f[i - 1] = Null THEN Null ELSE prev[f[i - 1]]
<1>1. f = [i \in 0 .. Cards |-> next(i)]
  BY DEF IsWalk
<1>2. next(0) = tasks
  OBVIOUS
<1>3. \A i \in 0 .. Cards : i # 0 =>
        next(i) = IF f[i - 1] = Null THEN Null ELSE prev[f[i - 1]]
  OBVIOUS
<1> HIDE DEF next
<1>4. DOMAIN f = 0 .. Cards /\ \A i \in 0 .. Cards : f[i] = next(i)
  BY <1>1
<1>5. 0 \in 0 .. Cards
  BY CardsIsNat
<1>6. f = [i \in 0 .. Cards |-> f[i]]
  BY <1>1, <1>4
<1> QED BY <1>2, <1>3, <1>4, <1>5, <1>6

LEMMA StackIsTurned ==
    ASSUME NEW f, IsWalk(f)
    PROVE  \E g : IsWalk(g) /\ Stack = Turned(g)
<1> DEFINE g == CHOOSE h : IsWalk(h)
<1>1. IsWalk(g)
  OBVIOUS
<1>2. Stack = Turned(g)
  BY DEF Stack, Turned, Steps, IsWalk, Cards
<1> QED BY <1>1, <1>2

\* There is one walk.
LEMMA OneWalk ==
    ASSUME NEW f, IsWalk(f), NEW g, IsWalk(g)
    PROVE  f = g
<1> DEFINE T == {i \in 0 .. Cards : f[i] # g[i]}
<1>1. /\ DOMAIN f = 0 .. Cards /\ DOMAIN g = 0 .. Cards
      /\ f[0] = tasks /\ g[0] = tasks
      /\ \A i \in 0 .. Cards : i # 0 =>
           /\ f[i] = IF f[i - 1] = Null THEN Null ELSE prev[f[i - 1]]
           /\ g[i] = IF g[i - 1] = Null THEN Null ELSE prev[g[i - 1]]
  BY WalkGoes
<1>2. T = {}
  <2> SUFFICES ASSUME T # {} PROVE FALSE
    OBVIOUS
  <2>1. PICK x \in T : \A y \in T : x <= y
    <3>1. T \subseteq Nat
      BY CardsIsNat
    <3> HIDE DEF T
    <3> QED BY <3>1, Least
  <2>2. x # 0 /\ x \in 0 .. Cards
    BY <1>1
  <2>3. x - 1 \in 0 .. Cards /\ x - 1 \notin T
    BY <2>1, <2>2, CardsIsNat
  <2>4. f[x - 1] = g[x - 1]
    BY <2>3
  <2> QED BY <1>1, <2>2, <2>4
<1>3. \A i \in 0 .. Cards : f[i] = g[i]
  BY <1>2
<1>4. f = [i \in 0 .. Cards |-> f[i]] /\ g = [i \in 0 .. Cards |-> g[i]]
  BY WalkGoes
<1> QED BY <1>3, <1>4

\* A list without repetition is not longer than there are addresses.
LEMMA ListIsShort ==
    ASSUME NEW st, Hangs(st)
    PROVE  Len(st) \in Nat /\ Len(st) <= Cards
<1>1. st \in Seq(Nodes) /\ Len(st) \in Nat /\ DOMAIN st = 1 .. Len(st)
  BY DEF Hangs
<1>2. st \in [1 .. Len(st) -> Nodes]
  BY <1>1
<1>3. IsInjective(st)
  BY <1>1 DEF Hangs, IsInjective
<1>4. st \in Injection(1 .. Len(st), Nodes)
  BY <1>2, <1>3 DEF Injection
<1>5. Cardinality(1 .. Len(st)) <= Cards
  BY <1>4, FS_Injection, StrandAssumption DEF StrandAssumption, Cards
<1>6. Cardinality(1 .. Len(st)) = Len(st)
  BY SMTT(60), <1>1, FS_Interval
<1> QED BY <1>1, <1>5, <1>6

\* Run takes and reverses exactly the nodes that hang off tasks_.
LEMMA ReadsStack ==
    ASSUME NEW st, Hangs(st)
    PROVE  Stack = st
<1> DEFINE f == [i \in 0 .. Cards |-> IF i < Len(st) THEN st[Len(st) - i] ELSE Null]
<1>1. /\ st \in Seq(Nodes) /\ Len(st) \in Nat /\ Len(st) <= Cards /\ Cards \in Nat
      /\ \A i \in 1 .. Len(st) : st[i] \in Nodes /\ st[i] # Null
  BY ListIsShort, CardsIsNat, StrandAssumption DEF Hangs, StrandAssumption
<1>2. IsWalk(f)
  <2>1. f[0] = tasks
    BY <1>1 DEF Hangs
  <2>2. ASSUME NEW i \in 0 .. Cards, i # 0
        PROVE  f[i] = IF f[i - 1] = Null THEN Null ELSE prev[f[i - 1]]
    <3>0. i \in Nat /\ i - 1 \in 0 .. Cards /\ i - 1 < i
      BY <2>2, <1>1
    <3>1. CASE i < Len(st)
      <4>1. Len(st) - (i - 1) \in 1 .. Len(st) /\ Len(st) - (i - 1) # 1
            /\ (Len(st) - (i - 1)) - 1 = Len(st) - i
        BY <3>0, <3>1, <1>1, <2>2
      <4>2. f[i - 1] = st[Len(st) - (i - 1)] /\ f[i] = st[Len(st) - i]
        BY <3>0, <3>1, <1>1
      <4> QED BY <4>1, <4>2, <1>1 DEF Hangs
    <3>2. CASE i = Len(st)
      <4>1. 1 \in 1 .. Len(st) /\ f[i - 1] = st[1] /\ f[i] = Null
        BY <3>0, <3>2, <1>1, <2>2
      <4> QED BY <4>1, <1>1 DEF Hangs
    <3>3. CASE i > Len(st)
      BY <3>0, <3>3, <1>1
    <3> QED BY <3>0, <3>1, <3>2, <3>3, <1>1
  <2> HIDE DEF f
  <2>3. DOMAIN f = 0 .. Cards /\ f = [i \in DOMAIN f |-> f[i]]
    BY DEF f
  <2> QED BY <2>1, <2>2, <2>3 DEF IsWalk
<1>3. Stack = Turned(f)
  <2> HIDE DEF f
  <2> QED BY <1>2, StackIsTurned, OneWalk
<1>4. {i \in 0 .. Cards : f[i] # Null} = 0 .. (Len(st) - 1)
  BY <1>1
<1>5. Cardinality(0 .. (Len(st) - 1)) = Len(st)
  <2>1. 0 \in Int /\ Len(st) - 1 \in Int
    BY <1>1
  <2>2. Cardinality(0 .. (Len(st) - 1))
          = IF 0 > Len(st) - 1 THEN 0 ELSE (Len(st) - 1) - 0 + 1
    BY ONLY <2>1, FS_Interval
  <2> QED BY ONLY <2>2, <1>1
<1>6. \A i \in 1 .. Len(st) : f[Len(st) - i] = st[i]
  BY <1>1
<1> HIDE DEF f
<1>7. Turned(f) = [i \in 1 .. Len(st) |-> f[Len(st) - i]]
  <2>1. Steps(f) = Len(st)
    BY <1>4, <1>5 DEF Steps
  <2> QED BY <2>1 DEF Turned
<1>8. st = [i \in 1 .. Len(st) |-> st[i]]
  BY <1>1
<1> QED BY <1>3, <1>6, <1>7, <1>8

-----------------------------------------------------------------------------
(* The inductive invariant *)

\* Where a submitter and a worker can be.
Labels ==
    /\ \A s \in Submitters : pc[s] \in {"idle", "load", "push", "claim", "schedule"}
    /\ \A w \in Workers : pc[w] \in {"idle", "claim", "schedule", "steal", "release",
                                     "recheck", "run", "running"}

\* A submitter has a node of its own between its two ends of Execute.
Created ==
    /\ \A s \in Submitters : pc[s] \in {"load", "push"} <=> created[s] # Null
    /\ \A s, u \in Submitters : created[s] = created[u] /\ created[s] # Null => s = u

\* The right to run the strand is lost.
Dead == ~ reschedule /\ scheduled = 0 /\ Holders = {}

\* At most one batch has nodes left, that of the worker that runs it; what an
\* exception left behind stays where it is, and then nothing runs any more.
Batches ==
    /\ \A w \in Workers : pc[w] \in {"run", "running"} => batch[w] # <<>>
    /\ \A w \in Workers : batch[w] # <<>> /\ pc[w] \notin {"run", "running"} => Dead
    /\ \A w, v \in Workers : batch[w] # <<>> /\ batch[v] # <<>> => w = v
    /\ \A w \in Workers : \A i, j \in 1 .. Len(batch[w]) : batch[w][i] = batch[w][j] => i = j

\* The nodes of the list st, of the batches and of the submitters are
\* allocated and different.
Apart(st) ==
    /\ \A i \in 1 .. Len(st) : task[st[i]] # Null
    /\ \A w \in Workers : \A i \in 1 .. Len(batch[w]) : task[batch[w][i]] # Null
    /\ \A s \in Submitters : created[s] # Null => task[created[s]] # Null
    /\ \A w \in Workers : \A i \in 1 .. Len(st), j \in 1 .. Len(batch[w]) : st[i] # batch[w][j]
    /\ \A s \in Submitters : \A i \in 1 .. Len(st) : st[i] # created[s]
    /\ \A s \in Submitters, w \in Workers : \A i \in 1 .. Len(batch[w]) : batch[w][i] # created[s]

IInv == /\ TypeOK
        /\ Labels
        /\ OneToken
        /\ Created
        /\ Batches
        /\ Hangs(Stack)
        /\ Apart(Stack)

\* A step finds and leaves some list that hangs off tasks_; by ReadsStack it
\* is the stack.
LEMMA StackFound ==
    ASSUME NEW st, Hangs(st), Apart(st)
    PROVE  Hangs(Stack) /\ Apart(Stack)
  BY ReadsStack

-----------------------------------------------------------------------------
(* The right to run *)

LEMMA InitIInv == Init => IInv
<1> SUFFICES ASSUME Init PROVE IInv
  OBVIOUS
<1> USE StrandAssumption DEF StrandAssumption
<1>1. TypeOK
  <2>1. <<>> \in Seq(Nodes) /\ <<>> \in Seq(Tasks)
    OBVIOUS
  <2>2. executed \in Seq(Tasks) /\ batch \in [Workers -> Seq(Nodes)]
    BY <2>1 DEF Init
  <2>3. pc \in [Threads -> {"idle", "load", "push", "claim", "schedule",
                            "steal", "release", "recheck", "run", "running"}]
    BY DEF Init
  <2>4. /\ tasks \in Nodes \cup {Null} /\ reschedule \in BOOLEAN
        /\ prev \in [Nodes -> Nodes \cup {Null}] /\ task \in [Nodes -> Tasks \cup {Null}]
        /\ scheduled \in Nat /\ created \in [Submitters -> Nodes \cup {Null}]
        /\ fresh \subseteq Tasks /\ broken \in BOOLEAN
    BY DEF Init
  <2> QED BY <2>2, <2>3, <2>4 DEF TypeOK
<1>2. Labels /\ Created /\ Batches /\ OneToken
  BY DEF Init, Labels, Created, Batches, OneToken, Holders, Threads
<1>3. Hangs(<<>>) /\ Apart(<<>>)
  BY DEF Init, Hangs, Apart
<1> QED BY <1>1, <1>2, <1>3, StackFound DEF IInv

\* The steps, one by one.
LEMMA Actions ==
    ASSUME Next
    PROVE  \/ \E s \in Submitters : \E x \in Tasks, n \in Nodes : NewNode(s, x, n)
           \/ \E s \in Submitters : LoadTop(s)
           \/ \E s \in Submitters : Push(s)
           \/ \E s \in Submitters : PushFails(s)
           \/ \E t \in Threads : Claim(t)
           \/ \E t \in Threads : Schedule(t)
           \/ \E w \in Workers : RunStrand(w)
           \/ \E w \in Workers : Steal(w)
           \/ \E w \in Workers : StealNothing(w)
           \/ \E w \in Workers : Release(w)
           \/ \E w \in Workers : Recheck(w)
           \/ \E w \in Workers : BeginTask(w)
           \/ \E w \in Workers : EndTask(w)
           \/ \E w \in Workers : ThrowTask(w)
           \/ Discard
  BY DEF Next, Execute, Run, Threads

LEMMA NextTypes ==
    ASSUME IInv, [Next]_vars
    PROVE  TypeOK' /\ Labels'
<1> USE StrandAssumption DEF StrandAssumption, IInv, TypeOK, Labels, Threads, Goto, memory
<1>0. CASE UNCHANGED vars
  BY <1>0 DEF vars
<1>1. ASSUME NEW s \in Submitters, NEW x \in Tasks, NEW n \in Nodes, NewNode(s, x, n)
      PROVE  TypeOK' /\ Labels'
  BY <1>1 DEF NewNode
<1>2. ASSUME NEW s \in Submitters, LoadTop(s)
      PROVE  TypeOK' /\ Labels'
  BY <1>2 DEF LoadTop
<1>3. ASSUME NEW s \in Submitters, Push(s)
      PROVE  TypeOK' /\ Labels'
  BY <1>3 DEF Push, Created
<1>4. ASSUME NEW s \in Submitters, PushFails(s)
      PROVE  TypeOK' /\ Labels'
  BY <1>4 DEF PushFails
<1>5. ASSUME NEW t \in Threads, Claim(t)
      PROVE  TypeOK' /\ Labels'
  BY <1>5 DEF Claim
<1>6. ASSUME NEW t \in Threads, Schedule(t)
      PROVE  TypeOK' /\ Labels'
  BY <1>6 DEF Schedule
<1>7. ASSUME NEW w \in Workers, RunStrand(w)
      PROVE  TypeOK' /\ Labels'
  BY <1>7 DEF RunStrand
<1>8. ASSUME NEW w \in Workers, Steal(w)
      PROVE  TypeOK' /\ Labels'
  <2>1. Stack \in Seq(Nodes)
    BY DEF Hangs
  <2> QED BY <1>8, <2>1 DEF Steal
<1>9. ASSUME NEW w \in Workers, StealNothing(w)
      PROVE  TypeOK' /\ Labels'
  BY <1>9 DEF StealNothing
<1>10. ASSUME NEW w \in Workers, Release(w)
       PROVE  TypeOK' /\ Labels'
  BY <1>10 DEF Release
<1>11. ASSUME NEW w \in Workers, Recheck(w)
       PROVE  TypeOK' /\ Labels'
  BY <1>11 DEF Recheck
<1>12. ASSUME NEW w \in Workers, BeginTask(w)
       PROVE  TypeOK' /\ Labels'
  BY <1>12 DEF BeginTask
<1>13. ASSUME NEW w \in Workers, EndTask(w)
       PROVE  TypeOK' /\ Labels'
  <2>1. batch[w] # <<>> /\ batch[w] \in Seq(Nodes)
    BY <1>13 DEF EndTask, Batches
  <2>2. Head(batch[w]) \in Nodes /\ Tail(batch[w]) \in Seq(Nodes)
    BY <2>1
  <2>3. task[Head(batch[w])] \in Tasks
    <3>1. 1 \in 1 .. Len(batch[w]) /\ Head(batch[w]) = batch[w][1]
      BY <2>1
    <3> QED BY <2>2, <3>1 DEF Apart
  <2>4. executed' \in Seq(Tasks)
    BY <1>13, <2>3 DEF EndTask
  <2>5. task' \in [Nodes -> Tasks \cup {Null}] /\ batch' \in [Workers -> Seq(Nodes)]
    BY <1>13, <2>2 DEF EndTask
  <2>6. /\ UNCHANGED <<tasks, reschedule, prev, scheduled, created, fresh, broken>>
        /\ pc' = [pc EXCEPT ![w] = "schedule"] \/ pc' = [pc EXCEPT ![w] = "run"]
    BY <1>13 DEF EndTask
  <2> QED BY ZenonT(60), <2>4, <2>5, <2>6
<1>14. ASSUME NEW w \in Workers, ThrowTask(w)
       PROVE  TypeOK' /\ Labels'
  <2>1. batch[w] # <<>> /\ batch[w] \in Seq(Nodes)
    BY <1>14 DEF ThrowTask, Batches
  <2>2. Tail(batch[w]) \in Seq(Nodes)
    BY <2>1
  <2> QED BY <1>14, <2>2 DEF ThrowTask
<1>15. CASE Discard
  BY <1>15 DEF Discard
<1> QED BY ONLY Actions, [Next]_vars, <1>0, <1>1, <1>2, <1>3, <1>4, <1>5, <1>6, <1>7, <1>8,
                <1>9, <1>10, <1>11, <1>12, <1>13, <1>14, <1>15

\* OneToken is inductive by itself, given the types.
LEMMA NextOneToken ==
    ASSUME IInv, [Next]_vars
    PROVE  OneToken'
<1> USE StrandAssumption DEF StrandAssumption, IInv, TypeOK, OneToken, Holders, Threads, Goto, memory
<1>0. CASE UNCHANGED vars
  BY <1>0 DEF vars
<1>1. ASSUME NEW s \in Submitters, NEW x \in Tasks, NEW n \in Nodes, NewNode(s, x, n)
      PROVE  OneToken'
  BY <1>1 DEF NewNode
<1>2. ASSUME NEW s \in Submitters, LoadTop(s)
      PROVE  OneToken'
  BY <1>2 DEF LoadTop
<1>3. ASSUME NEW s \in Submitters, Push(s)
      PROVE  OneToken'
  BY <1>3 DEF Push
<1>4. ASSUME NEW s \in Submitters, PushFails(s)
      PROVE  OneToken'
  BY <1>4 DEF PushFails
<1>5. ASSUME NEW t \in Threads, Claim(t)
      PROVE  OneToken'
  BY <1>5 DEF Claim
<1>6. ASSUME NEW t \in Threads, Schedule(t)
      PROVE  OneToken'
  BY <1>6 DEF Schedule
<1>7. ASSUME NEW w \in Workers, RunStrand(w)
      PROVE  OneToken'
  BY <1>7 DEF RunStrand
<1>8. ASSUME NEW w \in Workers, Steal(w)
      PROVE  OneToken'
  BY <1>8 DEF Steal
<1>9. ASSUME NEW w \in Workers, StealNothing(w)
      PROVE  OneToken'
  BY <1>9 DEF StealNothing
<1>10. ASSUME NEW w \in Workers, Release(w)
       PROVE  OneToken'
  BY <1>10 DEF Release
<1>11. ASSUME NEW w \in Workers, Recheck(w)
       PROVE  OneToken'
  BY <1>11 DEF Recheck
<1>12. ASSUME NEW w \in Workers, BeginTask(w)
       PROVE  OneToken'
  BY <1>12 DEF BeginTask
<1>13. ASSUME NEW w \in Workers, EndTask(w)
       PROVE  OneToken'
  BY <1>13 DEF EndTask
<1>14. ASSUME NEW w \in Workers, ThrowTask(w)
       PROVE  OneToken'
  BY <1>14 DEF ThrowTask
<1>15. CASE Discard
  BY <1>15 DEF Discard
<1> QED BY ONLY Actions, [Next]_vars, <1>0, <1>1, <1>2, <1>3, <1>4, <1>5, <1>6, <1>7, <1>8,
                <1>9, <1>10, <1>11, <1>12, <1>13, <1>14, <1>15

\* A list without its first element.
LEMMA CutFront ==
    ASSUME NEW S, NEW s \in Seq(S), s # <<>>
    PROVE  /\ Head(s) \in S /\ Head(s) = s[1] /\ 1 \in 1 .. Len(s)
           /\ Tail(s) \in Seq(S) /\ Len(s) \in Nat /\ Len(Tail(s)) = Len(s) - 1
           /\ \A i \in 1 .. Len(Tail(s)) : i + 1 \in 1 .. Len(s) /\ Tail(s)[i] = s[i + 1]
           /\ Tail(s) = <<>> <=> Len(s) = 1
<1>1. /\ Head(s) \in S /\ Head(s) = s[1] /\ 1 \in 1 .. Len(s)
      /\ Tail(s) \in Seq(S) /\ Len(s) \in Nat /\ Len(Tail(s)) = Len(s) - 1
  OBVIOUS
<1>2. \A i \in 1 .. Len(Tail(s)) : i + 1 \in 1 .. Len(s) /\ Tail(s)[i] = s[i + 1]
  OBVIOUS
<1>3. Tail(s) = <<>> <=> Len(Tail(s)) = 0
  BY <1>1
<1> QED BY <1>1, <1>2, <1>3

\* A new node has an address that nobody has in hand.
LEMMA NextCreated ==
    ASSUME IInv, [Next]_vars
    PROVE  Created'
<1> USE StrandAssumption DEF StrandAssumption, IInv, TypeOK, Labels, Created, Threads, Goto, memory
<1>0. CASE UNCHANGED vars
  BY <1>0 DEF vars
<1>1. ASSUME NEW s \in Submitters, NEW x \in Tasks, NEW n \in Nodes, NewNode(s, x, n)
      PROVE  Created'
  BY <1>1 DEF NewNode, Apart
<1>2. ASSUME NEW s \in Submitters, LoadTop(s)
      PROVE  Created'
  BY <1>2 DEF LoadTop
<1>3. ASSUME NEW s \in Submitters, Push(s)
      PROVE  Created'
  BY <1>3 DEF Push
<1>4. ASSUME NEW s \in Submitters, PushFails(s)
      PROVE  Created'
  BY <1>4 DEF PushFails
<1>5. ASSUME NEW t \in Threads, Claim(t)
      PROVE  Created'
  BY <1>5 DEF Claim
<1>6. ASSUME NEW t \in Threads, Schedule(t)
      PROVE  Created'
  BY <1>6 DEF Schedule
<1>7. ASSUME NEW w \in Workers, RunStrand(w)
      PROVE  Created'
  BY <1>7 DEF RunStrand
<1>8. ASSUME NEW w \in Workers, Steal(w)
      PROVE  Created'
  BY <1>8 DEF Steal
<1>9. ASSUME NEW w \in Workers, StealNothing(w)
      PROVE  Created'
  BY <1>9 DEF StealNothing
<1>10. ASSUME NEW w \in Workers, Release(w)
       PROVE  Created'
  BY <1>10 DEF Release
<1>11. ASSUME NEW w \in Workers, Recheck(w)
       PROVE  Created'
  BY <1>11 DEF Recheck
<1>12. ASSUME NEW w \in Workers, BeginTask(w)
       PROVE  Created'
  BY <1>12 DEF BeginTask
<1>13. ASSUME NEW w \in Workers, EndTask(w)
       PROVE  Created'
  BY <1>13 DEF EndTask
<1>14. ASSUME NEW w \in Workers, ThrowTask(w)
       PROVE  Created'
  BY <1>14 DEF ThrowTask
<1>15. CASE Discard
  BY <1>15 DEF Discard
<1> QED BY ONLY Actions, [Next]_vars, <1>0, <1>1, <1>2, <1>3, <1>4, <1>5, <1>6, <1>7, <1>8,
                <1>9, <1>10, <1>11, <1>12, <1>13, <1>14, <1>15

\* Who takes the stack had no batch, and no one else had: he has the right to run.
LEMMA NextBatches ==
    ASSUME IInv, [Next]_vars
    PROVE  Batches'
<1> USE StrandAssumption DEF StrandAssumption, IInv, TypeOK, Labels, OneToken, Holders, Dead, Batches, Threads, Goto, memory
<1>0. CASE UNCHANGED vars
  BY <1>0 DEF vars
<1>1. ASSUME NEW s \in Submitters, NEW x \in Tasks, NEW n \in Nodes, NewNode(s, x, n)
      PROVE  Batches'
  BY <1>1 DEF NewNode
<1>2. ASSUME NEW s \in Submitters, LoadTop(s)
      PROVE  Batches'
  BY <1>2 DEF LoadTop
<1>3. ASSUME NEW s \in Submitters, Push(s)
      PROVE  Batches'
  BY <1>3 DEF Push
<1>4. ASSUME NEW s \in Submitters, PushFails(s)
      PROVE  Batches'
  BY <1>4 DEF PushFails
<1>5. ASSUME NEW t \in Threads, Claim(t)
      PROVE  Batches'
  BY <1>5 DEF Claim
<1>6. ASSUME NEW t \in Threads, Schedule(t)
      PROVE  Batches'
  BY <1>6 DEF Schedule
<1>7. ASSUME NEW w \in Workers, RunStrand(w)
      PROVE  Batches'
  BY <1>7 DEF RunStrand
<1>8. ASSUME NEW w \in Workers, Steal(w)
      PROVE  Batches'
  <2>1. Stack \in Seq(Nodes) /\ \A i, j \in 1 .. Len(Stack) : Stack[i] = Stack[j] => i = j
    BY DEF Hangs
  <2>2. \A v \in Workers : batch[v] = <<>>
    BY <1>8 DEF Steal
  <2>3. /\ batch' = [batch EXCEPT ![w] = Stack] /\ pc' = [pc EXCEPT ![w] = "run"]
        /\ tasks # Null /\ pc[w] = "steal"
    BY <1>8 DEF Steal
  <2>4. Stack # <<>>
    BY <2>3 DEF Hangs
  <2> QED BY <2>1, <2>2, <2>3, <2>4
<1>9. ASSUME NEW w \in Workers, StealNothing(w)
      PROVE  Batches'
  BY <1>9 DEF StealNothing
<1>10. ASSUME NEW w \in Workers, Release(w)
       PROVE  Batches'
  BY <1>10 DEF Release
<1>11. ASSUME NEW w \in Workers, Recheck(w)
       PROVE  Batches'
  BY <1>11 DEF Recheck
<1>12. ASSUME NEW w \in Workers, BeginTask(w)
       PROVE  Batches'
  BY <1>12 DEF BeginTask
<1>13. ASSUME NEW w \in Workers, EndTask(w)
       PROVE  Batches'
  <2> DEFINE b == batch[w]
             t == Tail(b)
  <2>1. b # <<>> /\ b \in Seq(Nodes) /\ pc[w] = "running"
    BY <1>13 DEF EndTask
  <2>2. /\ t \in Seq(Nodes) /\ Len(b) \in Nat /\ Len(t) = Len(b) - 1
        /\ \A i \in 1 .. Len(t) : i + 1 \in 1 .. Len(b) /\ t[i] = b[i + 1]
        /\ t = <<>> <=> Len(b) = 1
    <3> HIDE DEF b
    <3> QED BY ONLY <2>1, CutFront DEF t
  <2>3. batch' = [batch EXCEPT ![w] = t] /\ UNCHANGED <<reschedule, scheduled>>
    BY <1>13 DEF EndTask
  <2>4. pc' = [pc EXCEPT ![w] = IF t = <<>> THEN "schedule" ELSE "run"]
    BY <1>13, <2>2 DEF EndTask
  <2>5. \A v \in Workers : v # w => batch[v] = <<>> /\ pc[v] \notin {"run", "running"}
    BY <2>1
  <2>6. \A i, j \in 1 .. Len(t) : t[i] = t[j] => i = j
    <3>1. \A i, j \in 1 .. Len(b) : b[i] = b[j] => i = j
      OBVIOUS
    <3> HIDE DEF t, b
    <3>2. \A i, j \in 1 .. Len(t) : i + 1 = j + 1 => i = j
      BY <2>2
    <3> QED BY <2>2, <3>1, <3>2
  <2> HIDE DEF t, b
  <2> QED BY <2>3, <2>4, <2>5, <2>6
<1>14. ASSUME NEW w \in Workers, ThrowTask(w)
       PROVE  Batches'
  BY <1>14 DEF ThrowTask
<1>15. CASE Discard
  BY <1>15 DEF Discard
<1> QED BY ONLY Actions, [Next]_vars, <1>0, <1>1, <1>2, <1>3, <1>4, <1>5, <1>6, <1>7, <1>8,
                <1>9, <1>10, <1>11, <1>12, <1>13, <1>14, <1>15

\* What the steps that leave the nodes alone leave as it was.
LEMMA Untouched ==
    ASSUME NEW st, Hangs(st), Apart(st), UNCHANGED <<tasks, prev, task, created, batch>>
    PROVE  Hangs(st)' /\ Apart(st)'
  BY ZenonT(60) DEF Hangs, Apart

\* LoadTop writes into a node that is not on the list.
LEMMA LoadTopHangs ==
    ASSUME TypeOK, Labels, Created, NEW st, Hangs(st), Apart(st),
           NEW s \in Submitters, LoadTop(s)
    PROVE  Hangs(st)'
<1> USE StrandAssumption DEF StrandAssumption, TypeOK, Threads
<1>1. created[s] \in Nodes
  BY DEF LoadTop, Labels, Created
<1>2. prev' = [prev EXCEPT ![created[s]] = tasks] /\ UNCHANGED tasks
  BY DEF LoadTop
<1> QED BY <1>1, <1>2 DEF Hangs, Apart

\* A compare-exchange that finds an old address again finds it on top of the
\* very list that it was loaded from: the new node goes on top of that list.
LEMMA PushHangs ==
    ASSUME TypeOK, Labels, Created, NEW st, Hangs(st), Apart(st),
           NEW s \in Submitters, Push(s), NEW n, n = created[s]
    PROVE  Hangs(Append(st, n))'
<1> USE StrandAssumption DEF StrandAssumption, TypeOK, Threads
<1>1. created[s] \in Nodes /\ tasks = prev[created[s]]
  BY DEF Push, Labels, Created
<1>2. n \in Nodes /\ n = created[s]
  BY <1>1
<1>3. /\ tasks' = n /\ created' = [created EXCEPT ![s] = Null]
      /\ UNCHANGED <<prev, task, batch>>
  BY <1>2 DEF Push, memory
<1>4. PICK up : up = Append(st, n)
  OBVIOUS
<1>5. /\ st \in Seq(Nodes) /\ Len(st) \in Nat
      /\ up \in Seq(Nodes) /\ Len(up) = Len(st) + 1 /\ up # <<>>
      /\ up[Len(up)] = n /\ \A i \in 1 .. Len(st) : up[i] = st[i]
  <2>1. st \in Seq(Nodes)
    BY DEF Hangs
  <2> QED BY ONLY <1>2, <1>4, <2>1
<1>6. \A i \in 1 .. Len(st) : st[i] # n
  BY <1>2 DEF Apart
<1>7. \A i \in 1 .. Len(up) : i \in 1 .. Len(st) \/ i = Len(up)
  BY <1>5
<1>8. \A i, j \in 1 .. Len(up) : up[i] = up[j] => i = j
  <2>1. \A i, j \in 1 .. Len(st) : st[i] = st[j] => i = j
    BY DEF Hangs
  <2> QED BY ONLY <1>5, <1>6, <1>7, <2>1
<1>9. ASSUME NEW i \in 1 .. Len(up)
      PROVE  prev[up[i]] = IF i = 1 THEN Null ELSE up[i - 1]
  <2>1. CASE i \in 1 .. Len(st)
    <3>1. i = 1 \/ i - 1 \in 1 .. Len(st)
      BY <1>5, <2>1
    <3>2. prev[st[i]] = IF i = 1 THEN Null ELSE st[i - 1]
      BY <2>1 DEF Hangs
    <3>3. up[i] = st[i] /\ (i = 1 \/ up[i - 1] = st[i - 1])
      BY ONLY <1>5, <2>1, <3>1
    <3> QED BY ONLY <3>2, <3>3
  <2>2. CASE i = Len(up) /\ st = <<>>
    BY <1>1, <1>2, <1>5, <2>2 DEF Hangs
  <2>3. CASE i = Len(up) /\ st # <<>>
    <3>1. i # 1 /\ i - 1 = Len(st) /\ Len(st) \in 1 .. Len(st)
      BY <1>5, <2>3
    <3>2. up[i] = n /\ up[i - 1] = st[Len(st)]
      BY ONLY <1>5, <2>3, <3>1
    <3>3. tasks = st[Len(st)]
      BY <2>3 DEF Hangs
    <3> QED BY ONLY <1>1, <1>2, <3>1, <3>2, <3>3
  <2> QED BY <1>7, <2>1, <2>2, <2>3
<1>10. Hangs(up)'
  BY <1>3, <1>5, <1>8, <1>9 DEF Hangs
<1> QED BY <1>4, <1>10

\* Every step leaves a list that hangs off tasks_.
LEMMA NextList ==
    ASSUME IInv, [Next]_vars, NEW st, st = Stack,
           TypeOK, Labels, Created, Batches, Hangs(st), Apart(st)
    PROVE  \E z : Hangs(z)' /\ Apart(z)'
<1> USE StrandAssumption DEF StrandAssumption, TypeOK, Threads, Goto
<1>0. CASE UNCHANGED vars
  BY <1>0, Untouched DEF vars, memory
<1>1. ASSUME NEW s \in Submitters, NEW x \in Tasks, NEW n \in Nodes, NewNode(s, x, n)
      PROVE  \E z : Hangs(z)' /\ Apart(z)'
  <2>1. /\ task[n] = Null /\ task' = [task EXCEPT ![n] = x] /\ x # Null
        /\ created' = [created EXCEPT ![s] = n] /\ UNCHANGED <<tasks, prev, batch>>
    BY <1>1 DEF NewNode
  <2>2. Hangs(st)'
    BY <2>1 DEF Hangs
  <2>3. \A i \in 1 .. Len(st) : st[i] \in Nodes
    BY DEF Hangs
  <2>4. \A v \in Workers : \A i \in 1 .. Len(batch[v]) : batch[v][i] \in Nodes
    OBVIOUS
  <2>5. Apart(st)'
    BY <2>1, <2>3, <2>4 DEF Apart
  <2> QED BY <2>2, <2>5
<1>2. ASSUME NEW s \in Submitters, LoadTop(s)
      PROVE  \E z : Hangs(z)' /\ Apart(z)'
  <2>1. Hangs(st)'
    BY <1>2, LoadTopHangs
  <2>2. Apart(st)'
    BY <1>2 DEF LoadTop, Apart
  <2> QED BY <2>1, <2>2
<1>3. ASSUME NEW s \in Submitters, Push(s)
      PROVE  \E z : Hangs(z)' /\ Apart(z)'
  <2>1. created[s] \in Nodes
    BY <1>3 DEF Push, Labels, Created
  <2>2. PICK n \in Nodes : n = created[s]
    BY <2>1
  <2>3. /\ tasks' = n /\ created' = [created EXCEPT ![s] = Null]
        /\ UNCHANGED <<prev, task, batch>>
    BY <1>3, <2>2 DEF Push, memory
  <2>4. PICK up : up = Append(st, n)
    OBVIOUS
  <2>5. \A i \in 1 .. Len(up) : up[i] \in Nodes /\ (up[i] = n \/ \E j \in 1 .. Len(st) : up[i] = st[j])
    <3>1. st \in Seq(Nodes)
      BY DEF Hangs
    <3>2. Len(up) = Len(st) + 1 /\ up[Len(st) + 1] = n /\ Len(st) \in Nat /\ up \in Seq(Nodes)
      BY <2>4, <3>1
    <3>3. \A i \in 1 .. Len(st) : up[i] = st[i]
      BY <2>4, <3>1
    <3>4. \A i \in 1 .. Len(up) : i \in 1 .. Len(st) \/ i = Len(st) + 1
      BY <3>2
    <3>5. \A i \in 1 .. Len(up) : up[i] \in Nodes
      BY <3>2
    <3> QED BY ONLY <3>2, <3>3, <3>4, <3>5
  <2>10. Hangs(up)'
    BY <1>3, <2>2, <2>4, PushHangs
  <2>11. created[s] # Null /\ task[n] # Null
    BY <2>1, <2>2 DEF Apart
  <2>12. \A v \in Workers : \A i \in 1 .. Len(batch[v]) : batch[v][i] # n
    BY <2>2 DEF Apart
  <2>13. \A u \in Submitters : created'[u] # n
    BY <2>2, <2>3, <2>11 DEF Created
  <2>14. Apart(up)'
    <3>1. \A i \in 1 .. Len(up) : task[up[i]] # Null
      <4>1. \A j \in 1 .. Len(st) : task[st[j]] # Null
        BY DEF Apart
      <4> QED BY ONLY <2>5, <2>11, <4>1
    <3>2. \A v \in Workers : \A i \in 1 .. Len(up), j \in 1 .. Len(batch[v]) : up[i] # batch[v][j]
      <4>1. \A v \in Workers : \A i \in 1 .. Len(st), j \in 1 .. Len(batch[v]) : st[i] # batch[v][j]
        BY DEF Apart
      <4> QED BY ONLY <2>5, <2>12, <4>1
    <3>3. \A u \in Submitters : created'[u] = Null \/ created'[u] = created[u]
      BY <2>3
    <3>4. \A u \in Submitters : \A i \in 1 .. Len(up) : up[i] # created'[u]
      <4>1. \A i \in 1 .. Len(up) : up[i] \in Nodes /\ up[i] # Null
        BY <2>5
      <4>2. \A u \in Submitters : \A j \in 1 .. Len(st) : st[j] # created[u]
        BY DEF Apart
      <4> QED BY ONLY <2>5, <2>13, <3>3, <4>1, <4>2
    <3>5. \A u \in Submitters, v \in Workers :
            \A i \in 1 .. Len(batch[v]) : batch[v][i] # created'[u]
      <4>1. \A v \in Workers : \A i \in 1 .. Len(batch[v]) : batch[v][i] \in Nodes /\ batch[v][i] # Null
        OBVIOUS
      <4> QED BY <3>3, <4>1 DEF Apart
    <3>6. \A u \in Submitters : created'[u] # Null => task[created'[u]] # Null
      BY <3>3 DEF Apart
    <3> QED BY <2>3, <3>1, <3>2, <3>4, <3>5, <3>6 DEF Apart
  <2> QED BY <2>10, <2>14
<1>4. ASSUME NEW s \in Submitters, PushFails(s)
      PROVE  \E z : Hangs(z)' /\ Apart(z)'
  BY <1>4, Untouched DEF PushFails, memory
<1>5. ASSUME NEW t \in Threads, Claim(t)
      PROVE  \E z : Hangs(z)' /\ Apart(z)'
  BY <1>5, Untouched DEF Claim, memory
<1>6. ASSUME NEW t \in Threads, Schedule(t)
      PROVE  \E z : Hangs(z)' /\ Apart(z)'
  BY <1>6, Untouched DEF Schedule, memory
<1>7. ASSUME NEW w \in Workers, RunStrand(w)
      PROVE  \E z : Hangs(z)' /\ Apart(z)'
  BY <1>7, Untouched DEF RunStrand, memory
<1>8. ASSUME NEW w \in Workers, Steal(w)
      PROVE  \E z : Hangs(z)' /\ Apart(z)'
  <2>1. /\ tasks' = Null /\ batch' = [batch EXCEPT ![w] = st]
        /\ UNCHANGED <<prev, task, created>>
    BY <1>8 DEF Steal, memory
  <2>2. Hangs(<<>>)'
    BY <2>1 DEF Hangs
  <2>3. \A v \in Workers : batch'[v] = IF v = w THEN st ELSE batch[v]
    BY <2>1
  <2>4. Apart(<<>>)'
    BY <2>1, <2>3 DEF Apart
  <2> QED BY <2>2, <2>4
<1>9. ASSUME NEW w \in Workers, StealNothing(w)
      PROVE  \E z : Hangs(z)' /\ Apart(z)'
  BY <1>9, Untouched DEF StealNothing, memory
<1>10. ASSUME NEW w \in Workers, Release(w)
       PROVE  \E z : Hangs(z)' /\ Apart(z)'
  BY <1>10, Untouched DEF Release, memory
<1>11. ASSUME NEW w \in Workers, Recheck(w)
       PROVE  \E z : Hangs(z)' /\ Apart(z)'
  BY <1>11, Untouched DEF Recheck, memory
<1>12. ASSUME NEW w \in Workers, BeginTask(w)
       PROVE  \E z : Hangs(z)' /\ Apart(z)'
  BY <1>12, Untouched DEF BeginTask, memory
<1>13. ASSUME NEW w \in Workers, EndTask(w)
       PROVE  \E z : Hangs(z)' /\ Apart(z)'
  <2>1. batch[w] # <<>> /\ batch[w] \in Seq(Nodes)
    BY <1>13 DEF EndTask, Batches
  <2>2. PICK b : b = batch[w]
    OBVIOUS
  <2>3. PICK t : t = Tail(b)
    OBVIOUS
  <2>4. /\ Head(b) \in Nodes /\ Head(b) = b[1] /\ 1 \in 1 .. Len(b) /\ Len(b) \in Nat
        /\ \A i \in 1 .. Len(t) : i + 1 \in 1 .. Len(b) /\ t[i] = b[i + 1] /\ i + 1 # 1
    <3>1. Len(Tail(b)) \in Nat
      BY <2>1, <2>2, CutFront
    <3> QED BY ONLY <2>1, <2>2, <2>3, <3>1, CutFront
  <2>5. PICK n \in Nodes : n = Head(b)
    BY <2>4
  <2>6. /\ task' = [task EXCEPT ![n] = Null] /\ batch' = [batch EXCEPT ![w] = t]
        /\ UNCHANGED <<tasks, prev, created>>
    BY <1>13, <2>2, <2>3, <2>5 DEF EndTask
  <2>7. Hangs(st)'
    BY <2>6 DEF Hangs
  <2>8. \A i \in 1 .. Len(st) : st[i] # n
    BY <2>2, <2>4, <2>5 DEF Apart
  <2>9. \A u \in Submitters : created[u] # n
    BY <2>2, <2>4, <2>5 DEF Apart
  <2>10. \A i \in 1 .. Len(t) : t[i] # n
    BY <2>2, <2>4, <2>5 DEF Batches
  <2>11. \A v \in Workers : v # w => batch[v] = <<>>
    BY <2>1 DEF Batches
  <2>12. \A v \in Workers : batch'[v] = IF v = w THEN t ELSE <<>>
    BY <2>6, <2>11
  <2>13. \A m \in Nodes : m # n => task'[m] = task[m]
    BY <2>6
  <2>14. \A i \in 1 .. Len(t) : /\ t[i] \in Nodes /\ task[t[i]] # Null
                                /\ \A j \in 1 .. Len(st) : st[j] # t[i]
                                /\ \A u \in Submitters : t[i] # created[u]
    <3>1. \A i \in 1 .. Len(b) : b[i] \in Nodes
      BY <2>1, <2>2
    <3>2. \A i \in 1 .. Len(b) : /\ task[b[i]] # Null
                                 /\ \A j \in 1 .. Len(st) : st[j] # b[i]
                                 /\ \A u \in Submitters : b[i] # created[u]
      BY <2>2 DEF Apart
    <3> QED BY ONLY <2>4, <3>1, <3>2
  <2>15. \A i \in 1 .. Len(st) : st[i] \in Nodes
    BY DEF Hangs
  <2>16. Apart(st)'
    <3>1. \A i \in 1 .. Len(st) : task'[st[i]] # Null
      BY ZenonT(60), <2>8, <2>13, <2>15 DEF Apart
    <3>2. \A u \in Submitters : created[u] # Null => task'[created[u]] # Null
      BY <2>9, <2>13 DEF Apart
    <3>3. \A i \in 1 .. Len(t) : task'[t[i]] # Null
      BY <2>10, <2>13, <2>14
    <3>4. \A v \in Workers : \A i \in 1 .. Len(batch'[v]) :
            v = w /\ i \in 1 .. Len(t) /\ batch'[v][i] = t[i]
      BY <2>12
    <3>5. \A u \in Submitters : \A i \in 1 .. Len(st) : st[i] # created[u]
      BY DEF Apart
    <3> QED BY <2>6, <2>14, <3>1, <3>2, <3>3, <3>4, <3>5 DEF Apart
  <2> QED BY <2>7, <2>16
<1>14. ASSUME NEW w \in Workers, ThrowTask(w)
       PROVE  \E z : Hangs(z)' /\ Apart(z)'
  <2>1. batch[w] # <<>> /\ batch[w] \in Seq(Nodes)
    BY <1>14 DEF ThrowTask, Batches
  <2>2. PICK b : b = batch[w]
    OBVIOUS
  <2>3. PICK t : t = Tail(b)
    OBVIOUS
  <2>4. \A i \in 1 .. Len(t) : i + 1 \in 1 .. Len(b) /\ t[i] = b[i + 1]
    BY ONLY <2>1, <2>2, <2>3, CutFront
  <2>5. batch' = [batch EXCEPT ![w] = t] /\ UNCHANGED <<tasks, prev, task, created>>
    BY <1>14, <2>2, <2>3 DEF ThrowTask, memory
  <2>6. Hangs(st)'
    BY <2>5 DEF Hangs
  <2>7. \A v \in Workers : \A i \in 1 .. Len(batch'[v]) :
          \E j \in 1 .. Len(batch[v]) : batch'[v][i] = batch[v][j]
    <3>1. \A v \in Workers : (v = w /\ batch'[v] = t) \/ batch'[v] = batch[v]
      BY <2>5
    <3> QED BY <2>2, <2>4, <3>1
  <2>8. Apart(st)'
    <3>1. \A v \in Workers : \A i \in 1 .. Len(batch'[v]) :
            /\ task[batch'[v][i]] # Null
            /\ \A j \in 1 .. Len(st) : st[j] # batch'[v][i]
            /\ \A s \in Submitters : batch'[v][i] # created[s]
      <4>1. \A v \in Workers : \A i \in 1 .. Len(batch[v]) :
              /\ task[batch[v][i]] # Null
              /\ \A j \in 1 .. Len(st) : st[j] # batch[v][i]
              /\ \A s \in Submitters : batch[v][i] # created[s]
        BY DEF Apart
      <4> QED BY ONLY <2>7, <4>1
    <3>2. /\ \A i \in 1 .. Len(st) : task[st[i]] # Null
          /\ \A s \in Submitters : created[s] # Null => task[created[s]] # Null
          /\ \A s \in Submitters : \A i \in 1 .. Len(st) : st[i] # created[s]
      BY DEF Apart
    <3> QED BY ONLY <2>5, <3>1, <3>2 DEF Apart
  <2> QED BY <2>6, <2>8
<1>15. CASE Discard
  BY <1>15, Untouched DEF Discard, memory
<1> QED BY ONLY Actions, [Next]_vars, <1>0, <1>1, <1>2, <1>3, <1>4, <1>5, <1>6, <1>7, <1>8,
                <1>9, <1>10, <1>11, <1>12, <1>13, <1>14, <1>15

LEMMA ListFound ==
    (\E z : Hangs(z) /\ Apart(z)) => Hangs(Stack) /\ Apart(Stack)
  BY StackFound

LEMMA NextStack ==
    ASSUME IInv, [Next]_vars
    PROVE  Hangs(Stack)' /\ Apart(Stack)'
<1>1. \E z : Hangs(z)' /\ Apart(z)'
  BY NextList DEF IInv
<1>2. (\E z : Hangs(z) /\ Apart(z))'
  BY <1>1
<1>3. (\E z : Hangs(z) /\ Apart(z))' => (Hangs(Stack) /\ Apart(Stack))'
  BY ListFound, PTL
<1> QED BY <1>2, <1>3

\* The invariant holds in every reachable state.
THEOREM Inductive == Spec => []IInv
<1>1. Init => IInv
  BY InitIInv
<1>2. IInv /\ [Next]_vars => IInv'
  BY NextTypes, NextOneToken, NextCreated, NextBatches, NextStack DEF IInv
<1> QED BY <1>1, <1>2, PTL DEF Spec

\* There is one right to run the strand: reschedule_, a place in the queue of
\* the underlying executor, or a thread between its exchange of the flag and
\* the end of Run (Strand::Execute, Run).
THEOREM ScheduledOnce == Spec => []OneToken
<1>1. IInv => OneToken
  BY DEF IInv
<1> QED BY <1>1, Inductive, PTL

\* The compare-exchange of Execute and the exchange of Run keep the list of
\* nodes sound, whatever addresses new returns: no node is lost, freed early
\* or in two places.
THEOREM ListIsSound == Spec => []NodesAreSound
<1>1. IInv => NodesAreSound
  <2> SUFFICES ASSUME IInv PROVE NodesAreSound
    OBVIOUS
  <2> USE DEF IInv
  <2> DEFINE batched == UNION {ToSet(batch[w]) : w \in Workers}
             own == {created[s] : s \in Submitters} \ {Null}
  <2>1. \A n \in ToSet(Stack) : \E i \in 1 .. Len(Stack) : n = Stack[i]
    BY DEF Hangs, ToSet
  <2>2. \A n \in batched : \E w \in Workers : \E i \in 1 .. Len(batch[w]) : n = batch[w][i]
    BY DEF TypeOK, ToSet
  <2>3. \A n \in own : n # Null /\ \E s \in Submitters : n = created[s]
    OBVIOUS
  <2>4. IsInjective(Stack)
    BY DEF Hangs, IsInjective
  <2> HIDE DEF batched, own
  <2>5. \A n \in ToSet(Stack) \cup batched \cup own : task[n] # Null
    BY <2>1, <2>2, <2>3 DEF Apart
  <2>6. ToSet(Stack) \cap batched = {}
    BY <2>1, <2>2 DEF Apart
  <2>7. own \cap (ToSet(Stack) \cup batched) = {}
    BY <2>1, <2>2, <2>3 DEF Apart
  <2> QED BY <2>4, <2>5, <2>6, <2>7 DEF NodesAreSound, NodesAreLive, batched, own
<1> QED BY <1>1, Inductive, PTL

-----------------------------------------------------------------------------
(* The strand implements SerialExecutor *)

Pending == TasksOf((IF Taken = {} THEN <<>> ELSE NotBegun(CHOOSE w \in Taken : TRUE)) \o Stack)

Running == {task[Head(batch[w])] : w \in {v \in Workers : pc[v] = "running"}}

\* b is what is left of the batch, without the task that runs.
Rest(b) == \/ Taken = {} /\ b = <<>>
           \/ \E w \in Taken : b = NotBegun(w)

\* What is left of the batch comes before the stack, and no two workers have
\* a batch: the CHOOSE of the refinement mapping leaves no choice.
LEMMA PendingIs ==
    ASSUME IInv, NEW b, Rest(b), NEW st, Hangs(st)
    PROVE  b \in Seq(Nodes) /\ st \in Seq(Nodes) /\ Pending = TasksOf(b \o st)
<1>1. Stack = st /\ st \in Seq(Nodes)
  BY ReadsStack DEF Hangs
<1>2. CASE Taken = {} /\ b = <<>>
  BY <1>1, <1>2 DEF Pending
<1>3. ASSUME NEW w \in Taken, b = NotBegun(w)
      PROVE  b \in Seq(Nodes) /\ st \in Seq(Nodes) /\ Pending = TasksOf(b \o st)
  <2>1. \A v \in Taken : v = w
    BY DEF IInv, Batches, Taken
  <2>2. (CHOOSE v \in Taken : TRUE) = w
    BY <2>1
  <2>3. batch[w] \in Seq(Nodes) /\ batch[w] # <<>>
    BY DEF IInv, TypeOK, Taken
  <2>4. b \in Seq(Nodes)
    BY <1>3, <2>3, CutFront DEF NotBegun
  <2> QED BY <1>1, <1>3, <2>2, <2>4 DEF Pending
<1> QED BY <1>2, <1>3 DEF Rest

PendingIsRead == \A b, st : Rest(b) /\ Hangs(st) => Pending = TasksOf(b \o st)

LEMMA PendingIsAlwaysRead == IInv => PendingIsRead
  BY PendingIs DEF PendingIsRead

LEMMA PendingBecomes ==
    ASSUME IInv', NEW b, Rest(b)', NEW st, Hangs(st)'
    PROVE  Pending' = TasksOf(b \o st)'
<1>1. IInv' => PendingIsRead'
  BY PendingIsAlwaysRead, PTL
<1> QED BY <1>1 DEF PendingIsRead

\* The tasks of a list, of two lists and of a longer list.
LEMMA TasksKept ==
    ASSUME NEW q \in Seq(Nodes), \A i \in 1 .. Len(q) : task'[q[i]] = task[q[i]]
    PROVE  TasksOf(q)' = TasksOf(q)
  BY DEF TasksOf

LEMMA TasksLonger ==
    ASSUME TypeOK, NEW q \in Seq(Nodes), NEW n \in Nodes
    PROVE  TasksOf(Append(q, n)) = Append(TasksOf(q), task[n])
<1> DEFINE l == TasksOf(Append(q, n))
           r == Append(TasksOf(q), task[n])
<1>1. /\ Len(q) \in Nat /\ Len(Append(q, n)) = Len(q) + 1
      /\ \A i \in 1 .. Len(q) : Append(q, n)[i] = q[i] /\ q[i] \in Nodes
      /\ Append(q, n)[Len(q) + 1] = n
  OBVIOUS
<1>2. TasksOf(q) \in Seq(Tasks \cup {Null}) /\ Len(TasksOf(q)) = Len(q)
      /\ \A i \in 1 .. Len(q) : TasksOf(q)[i] = task[q[i]]
  BY <1>1 DEF TasksOf, TypeOK
<1>3. /\ r \in Seq(Tasks \cup {Null}) /\ Len(r) = Len(q) + 1
      /\ \A i \in 1 .. Len(q) : r[i] = task[q[i]]
      /\ r[Len(q) + 1] = task[n]
  <2> HIDE DEF l
  <2>1. task[n] \in Tasks \cup {Null}
    BY DEF TypeOK
  <2> QED BY <1>2, <2>1
<1>4. /\ l = [i \in 1 .. Len(q) + 1 |-> task[Append(q, n)[i]]]
  BY <1>1 DEF TasksOf
<1>5. r = [i \in 1 .. Len(q) + 1 |-> r[i]]
  <2> HIDE DEF r
  <2> QED BY <1>3
<1>6. \A i \in 1 .. Len(q) + 1 : task[Append(q, n)[i]] = r[i]
  <2>1. \A i \in 1 .. Len(q) + 1 : i \in 1 .. Len(q) \/ i = Len(q) + 1
    BY <1>1
  <2> HIDE DEF r, l
  <2> QED BY <1>1, <1>3, <2>1
<1> HIDE DEF l, r
<1>7. l = r
  BY <1>4, <1>5, <1>6
<1> QED BY <1>7 DEF l, r

LEMMA TasksShorter ==
    ASSUME TypeOK, NEW q \in Seq(Nodes), q # <<>>
    PROVE  /\ TasksOf(q) # <<>>
           /\ Head(TasksOf(q)) = task[Head(q)]
           /\ Tail(TasksOf(q)) = TasksOf(Tail(q))
<1>1. /\ Len(q) \in Nat /\ Len(q) # 0 /\ Len(Tail(q)) = Len(q) - 1 /\ Head(q) = q[1]
      /\ \A i \in 1 .. Len(q) - 1 : Tail(q)[i] = q[i + 1]
      /\ \A i \in 1 .. Len(q) : q[i] \in Nodes
  OBVIOUS
<1>2. TasksOf(q) \in Seq(Tasks \cup {Null}) /\ Len(TasksOf(q)) = Len(q)
      /\ \A i \in 1 .. Len(q) : TasksOf(q)[i] = task[q[i]]
  BY <1>1 DEF TasksOf, TypeOK
<1>3. /\ TasksOf(q) # <<>> /\ Head(TasksOf(q)) = TasksOf(q)[1]
      /\ Tail(TasksOf(q)) = [i \in 1 .. Len(q) - 1 |-> TasksOf(q)[i + 1]]
  <2>1. ASSUME NEW t \in Seq(Tasks \cup {Null}), Len(t) # 0
        PROVE  t # <<>> /\ Head(t) = t[1] /\ Tail(t) = [i \in 1 .. Len(t) - 1 |-> t[i + 1]]
    <3>1. t # <<>> /\ Head(t) = t[1] /\ Len(t) \in Nat
      BY <2>1
    <3>2. Tail(t) = [i \in 1 .. Len(t) - 1 |-> t[i + 1]]
      <4>1. /\ Tail(t) \in Seq(Tasks \cup {Null}) /\ Len(Tail(t)) = Len(t) - 1
            /\ \A i \in 1 .. Len(Tail(t)) : Tail(t)[i] = t[i + 1]
        BY <3>1, CutFront
      <4>2. Tail(t) = [i \in 1 .. Len(Tail(t)) |-> Tail(t)[i]]
        <5>1. \A u \in Seq(Tasks \cup {Null}) : u = [i \in 1 .. Len(u) |-> u[i]]
          OBVIOUS
        <5> QED BY ONLY <4>1, <5>1
      <4> QED BY ONLY <4>1, <4>2
    <3> QED BY <3>1, <3>2
  <2> QED BY ONLY <1>1, <1>2, <2>1
<1>4. \A i \in 1 .. Len(q) - 1 : TasksOf(q)[i + 1] = task[q[i + 1]]
  BY <1>1, <1>2
<1>5. TasksOf(Tail(q)) = [i \in 1 .. Len(q) - 1 |-> task[q[i + 1]]]
  BY <1>1 DEF TasksOf
<1>6. Head(TasksOf(q)) = task[q[1]]
  BY <1>1, <1>2, <1>3
<1> QED BY <1>1, <1>3, <1>4, <1>5, <1>6

\* The lists b and st, one after the other.
LEMMA Joined ==
    ASSUME NEW b \in Seq(Nodes), NEW st \in Seq(Nodes)
    PROVE  /\ b \o st \in Seq(Nodes)
           /\ \A n \in Nodes : b \o Append(st, n) = Append(b \o st, n)
           /\ b # <<>> => Head(b \o st) = Head(b) /\ Tail(b \o st) = Tail(b) \o st /\ b \o st # <<>>
           /\ \A i \in 1 .. Len(b \o st) : \/ \E j \in 1 .. Len(b) : (b \o st)[i] = b[j]
                                           \/ \E j \in 1 .. Len(st) : (b \o st)[i] = st[j]
           /\ <<>> \o st = st /\ st \o <<>> = st
<1>1. b \o st \in Seq(Nodes) /\ <<>> \o st = st /\ st \o <<>> = st
  OBVIOUS
<1>2. \A n \in Nodes : b \o Append(st, n) = Append(b \o st, n)
  OBVIOUS
<1>3. b # <<>> => Head(b \o st) = Head(b) /\ Tail(b \o st) = Tail(b) \o st /\ b \o st # <<>>
  OBVIOUS
<1>4. ASSUME NEW i \in 1 .. Len(b \o st)
      PROVE  \/ \E j \in 1 .. Len(b) : (b \o st)[i] = b[j]
             \/ \E j \in 1 .. Len(st) : (b \o st)[i] = st[j]
  <2>1. /\ Len(b) \in Nat /\ Len(st) \in Nat /\ Len(b \o st) = Len(b) + Len(st)
        /\ (b \o st)[i] = IF i <= Len(b) THEN b[i] ELSE st[i - Len(b)]
    OBVIOUS
  <2>2. i \in 1 .. Len(b) \/ i - Len(b) \in 1 .. Len(st)
    BY <2>1
  <2> QED BY <2>1, <2>2
<1> QED BY <1>1, <1>2, <1>3, <1>4

\* There is always a list and a rest.
LEMMA SomeRest ==
    ASSUME IInv
    PROVE  /\ \E st : Hangs(st) /\ Apart(st)
           /\ \E b : Rest(b)
  BY DEF IInv, Rest, Taken

\* A step that runs no task and touches neither nodes nor batches.
LEMMA Quiet ==
    ASSUME IInv, IInv', UNCHANGED <<tasks, prev, task, batch, executed>>,
           \A w \in Workers : pc'[w] = "running" <=> pc[w] = "running"
    PROVE  UNCHANGED <<Pending, Running, executed>>
<1>1. PICK st : Hangs(st)
  BY SomeRest
<1>2. PICK b : Rest(b)
  BY SomeRest
<1>3. Hangs(st)' /\ Rest(b)'
  BY <1>1, <1>2 DEF Hangs, Rest, Taken, NotBegun
<1>4. Pending = TasksOf(b \o st) /\ Pending' = TasksOf(b \o st)'
  BY <1>1, <1>2, <1>3, PendingIs, PendingBecomes
<1>5. TasksOf(b \o st)' = TasksOf(b \o st)
  BY DEF TasksOf
<1>6. Running' = Running
  BY DEF Running
<1> QED BY <1>4, <1>5, <1>6

\* What waits and what runs, when a worker is between two tasks of a batch.
LEMMA OneRuns ==
    ASSUME IInv, NEW w \in Workers, pc[w] \in {"run", "running"}
    PROVE  /\ \A v \in Workers : v # w => pc[v] # "running" /\ batch[v] = <<>>
           /\ batch[w] \in Seq(Nodes) /\ batch[w] # <<>>
           /\ Rest(NotBegun(w))
           /\ Running = IF pc[w] = "running" THEN {task[Head(batch[w])]} ELSE {}
<1>1. \A v \in Workers : v # w => pc[v] # "running"
  BY DEF IInv, OneToken, Holders, Threads
<1>2. batch[w] \in Seq(Nodes) /\ batch[w] # <<>>
  BY DEF IInv, TypeOK, Batches
<1>3. \A v \in Workers : v # w => batch[v] = <<>>
  BY <1>2 DEF IInv, Batches
<1>4. Rest(NotBegun(w))
  BY <1>2 DEF Rest, Taken
<1>5. Running = IF pc[w] = "running" THEN {task[Head(batch[w])]} ELSE {}
  BY <1>1 DEF Running
<1> QED BY <1>1, <1>2, <1>3, <1>4, <1>5

\* Push accepts, BeginTask begins, EndTask and ThrowTask end a task; the other
\* steps change nothing that SerialExecutor sees. That Steal is one of them says
\* that the reversed list is run in the order of the pushes.
LEMMA NextSerial ==
    ASSUME IInv, IInv', [Next]_vars
    PROVE  Serial!Next \/ UNCHANGED <<Pending, Running, executed>>
<1> USE StrandAssumption DEF StrandAssumption, IInv, TypeOK, Labels, Threads, Goto
<1>0. CASE UNCHANGED vars
  BY <1>0, Quiet DEF vars, memory
<1>1. ASSUME NEW s \in Submitters, NEW x \in Tasks, NEW n \in Nodes, NewNode(s, x, n)
      PROVE  Serial!Next \/ UNCHANGED <<Pending, Running, executed>>
  <2>1. PICK st : Hangs(st) /\ Apart(st)
    BY SomeRest
  <2>2. PICK b : Rest(b)
    BY SomeRest
  <2>3. b \in Seq(Nodes) /\ st \in Seq(Nodes) /\ Pending = TasksOf(b \o st)
    BY <2>1, <2>2, PendingIs
  <2>4. /\ task[n] = Null /\ task' = [task EXCEPT ![n] = x]
        /\ UNCHANGED <<tasks, prev, batch, executed>> /\ pc[s] = "idle"
        /\ pc' = [pc EXCEPT ![s] = "load"]
    BY <1>1 DEF NewNode
  <2>5. Hangs(st)'
    BY <2>1, <2>4 DEF Hangs
  <2>6. \A w \in Workers : pc'[w] = pc[w]
    BY <2>4
  <2>7. Rest(b)'
    BY <2>2, <2>4, <2>6 DEF Rest, Taken, NotBegun
  <2>8. \A i \in 1 .. Len(st) : task'[st[i]] = task[st[i]]
    BY <2>1, <2>3, <2>4 DEF Apart
  <2>9. \A w \in Workers : \A i \in 1 .. Len(batch[w]) : task'[batch[w][i]] = task[batch[w][i]]
    BY <2>1, <2>4 DEF Apart
  <2>10. \A i \in 1 .. Len(b) : \E w \in Workers : \E j \in 1 .. Len(batch[w]) : b[i] = batch[w][j]
    <3>1. CASE b = <<>>
      BY <3>1
    <3>2. CASE \E w \in Taken : b = NotBegun(w)
      <4>1. PICK w \in Workers : batch[w] # <<>> /\ b = NotBegun(w)
        BY <3>2 DEF Taken
      <4>2. batch[w] \in Seq(Nodes) /\ (b = batch[w] \/ b = Tail(batch[w]))
        BY <4>1 DEF NotBegun
      <4>3. \A i \in 1 .. Len(b) : \E j \in 1 .. Len(batch[w]) : b[i] = batch[w][j]
        BY ONLY SMTT(60), <4>1, <4>2, CutFront
      <4> QED BY ONLY <4>1, <4>3
    <3> QED BY <2>2, <3>1, <3>2 DEF Rest
  <2>11. \A i \in 1 .. Len(b) : task'[b[i]] = task[b[i]]
    BY ONLY <2>9, <2>10
  <2>12. b \o st \in Seq(Nodes) /\ \A i \in 1 .. Len(b \o st) : task'[(b \o st)[i]] = task[(b \o st)[i]]
    <3>1. b \in Seq(Nodes) /\ st \in Seq(Nodes)
      BY <2>3
    <3>2. /\ b \o st \in Seq(Nodes)
          /\ \A i \in 1 .. Len(b \o st) : \/ \E j \in 1 .. Len(b) : (b \o st)[i] = b[j]
                                         \/ \E j \in 1 .. Len(st) : (b \o st)[i] = st[j]
      BY ONLY <3>1, Joined
    <3>3. ASSUME NEW i \in 1 .. Len(b \o st) PROVE task'[(b \o st)[i]] = task[(b \o st)[i]]
      <4>1. CASE \E j \in 1 .. Len(b) : (b \o st)[i] = b[j]
        BY ONLY <2>11, <4>1
      <4>2. CASE \E j \in 1 .. Len(st) : (b \o st)[i] = st[j]
        BY ONLY <2>8, <4>2
      <4> QED BY ONLY <3>2, <3>3, <4>1, <4>2
    <3> QED BY ONLY <3>2, <3>3
  <2>13. Pending' = Pending
    <3>1. TasksOf(b \o st)' = TasksOf(b \o st)
      BY <2>12, TasksKept
    <3>2. Pending' = TasksOf(b \o st)'
      BY <2>5, <2>7, PendingBecomes
    <3> QED BY ONLY <2>3, <3>1, <3>2
  <2>14. \A w \in Workers : pc[w] = "running" => task'[Head(batch[w])] = task[Head(batch[w])]
    BY <2>9, OneRuns, CutFront
  <2>15. Running' = Running
    BY <2>4, <2>6, <2>14 DEF Running
  <2> QED BY <2>4, <2>13, <2>15
<1>2. ASSUME NEW s \in Submitters, LoadTop(s)
      PROVE  Serial!Next \/ UNCHANGED <<Pending, Running, executed>>
  <2>1. PICK st : Hangs(st) /\ Apart(st)
    BY SomeRest
  <2>2. PICK b : Rest(b)
    BY SomeRest
  <2>3. b \in Seq(Nodes) /\ st \in Seq(Nodes) /\ Pending = TasksOf(b \o st)
    BY <2>1, <2>2, PendingIs
  <2>4. /\ UNCHANGED <<task, batch, executed>> /\ pc[s] = "load"
        /\ pc' = [pc EXCEPT ![s] = "push"]
    BY <1>2 DEF LoadTop
  <2>5. Hangs(st)'
    BY <1>2, <2>1, LoadTopHangs
  <2>6. \A w \in Workers : pc'[w] = pc[w]
    BY <2>4
  <2>7. Rest(b)'
    BY <2>2, <2>4, <2>6 DEF Rest, Taken, NotBegun
  <2>8. TasksOf(b \o st)' = TasksOf(b \o st)
    BY <2>4 DEF TasksOf
  <2>9. Running' = Running
    BY <2>4, <2>6 DEF Running
  <2> QED BY <2>3, <2>4, <2>5, <2>7, <2>8, <2>9, PendingBecomes
<1>3. ASSUME NEW s \in Submitters, Push(s)
      PROVE  Serial!Next \/ UNCHANGED <<Pending, Running, executed>>
  <2>1. PICK st : Hangs(st) /\ Apart(st)
    BY SomeRest
  <2>2. PICK b : Rest(b)
    BY SomeRest
  <2>3. b \in Seq(Nodes) /\ st \in Seq(Nodes) /\ Pending = TasksOf(b \o st)
    BY <2>1, <2>2, PendingIs
  <2>4. created[s] \in Nodes
    BY <1>3 DEF Push, Labels, Created
  <2>5. PICK n \in Nodes : n = created[s]
    BY <2>4
  <2>6. /\ UNCHANGED <<task, batch, executed>> /\ pc[s] = "push"
        /\ pc' = [pc EXCEPT ![s] = "claim"]
    BY <1>3 DEF Push, memory
  <2>7. Hangs(Append(st, n))'
    BY <1>3, <2>1, <2>5, PushHangs
  <2>8. \A w \in Workers : pc'[w] = pc[w]
    BY <2>6
  <2>9. Rest(b)'
    BY <2>2, <2>6, <2>8 DEF Rest, Taken, NotBegun
  <2>10. Pending' = TasksOf(b \o Append(st, n))'
    BY <2>7, <2>9, PendingBecomes
  <2>11. TasksOf(b \o Append(st, n))' = TasksOf(b \o Append(st, n))
    BY <2>6 DEF TasksOf
  <2>12. b \o Append(st, n) = Append(b \o st, n) /\ b \o st \in Seq(Nodes)
    BY SMTT(60), <2>3, Joined
  <2>13. TasksOf(b \o Append(st, n)) = Append(Pending, task[n])
    BY <2>3, <2>12, TasksLonger
  <2>14. task[n] \in Tasks
    BY <2>1, <2>5 DEF Apart
  <2>15. Running' = Running
    BY <2>6, <2>8 DEF Running
  <2>16. Serial!Accept(task[n])
    BY <2>6, <2>10, <2>11, <2>13, <2>15 DEF Serial!Accept, Pending, Running
  <2> QED BY <2>14, <2>16 DEF Serial!Next
<1>4. ASSUME NEW s \in Submitters, PushFails(s)
      PROVE  Serial!Next \/ UNCHANGED <<Pending, Running, executed>>
  <2>1. \A w \in Workers : pc'[w] = "running" <=> pc[w] = "running"
    BY <1>4 DEF PushFails
  <2>2. UNCHANGED <<tasks, prev, task, batch, executed>>
    BY <1>4 DEF PushFails, memory
  <2> QED BY <2>1, <2>2, Quiet
<1>5. ASSUME NEW t \in Threads, Claim(t)
      PROVE  Serial!Next \/ UNCHANGED <<Pending, Running, executed>>
  <2>1. \A w \in Workers : pc'[w] = "running" <=> pc[w] = "running"
    BY <1>5 DEF Claim
  <2>2. UNCHANGED <<tasks, prev, task, batch, executed>>
    BY <1>5 DEF Claim, memory
  <2> QED BY <2>1, <2>2, Quiet
<1>6. ASSUME NEW t \in Threads, Schedule(t)
      PROVE  Serial!Next \/ UNCHANGED <<Pending, Running, executed>>
  <2>1. \A w \in Workers : pc'[w] = "running" <=> pc[w] = "running"
    BY <1>6 DEF Schedule
  <2>2. UNCHANGED <<tasks, prev, task, batch, executed>>
    BY <1>6 DEF Schedule, memory
  <2> QED BY <2>1, <2>2, Quiet
<1>7. ASSUME NEW w \in Workers, RunStrand(w)
      PROVE  Serial!Next \/ UNCHANGED <<Pending, Running, executed>>
  <2>1. \A v \in Workers : pc'[v] = "running" <=> pc[v] = "running"
    BY <1>7 DEF RunStrand
  <2>2. UNCHANGED <<tasks, prev, task, batch, executed>>
    BY <1>7 DEF RunStrand, memory
  <2> QED BY <2>1, <2>2, Quiet
<1>8. ASSUME NEW w \in Workers, Steal(w)
      PROVE  Serial!Next \/ UNCHANGED <<Pending, Running, executed>>
  <2>1. PICK st : Hangs(st) /\ Apart(st) /\ st = Stack
    OBVIOUS
  <2>2. \A v \in Workers : batch[v] = <<>> /\ pc[v] # "running"
    BY <1>8 DEF Steal, Batches, Dead, OneToken, Holders
  <2>3. Rest(<<>>) /\ Running = {}
    BY <2>2 DEF Rest, Taken, Running
  <2>4. st \in Seq(Nodes) /\ Pending = TasksOf(<<>> \o st)
    BY <2>1, <2>3, PendingIs
  <2>5. /\ tasks # Null /\ tasks' = Null /\ batch' = [batch EXCEPT ![w] = st]
        /\ pc' = [pc EXCEPT ![w] = "run"] /\ UNCHANGED <<prev, task, executed>>
    BY <1>8, <2>1 DEF Steal, memory
  <2>6. st # <<>>
    BY <2>1, <2>5 DEF Hangs
  <2>7. Hangs(<<>>)'
    BY <2>5 DEF Hangs
  <2>8. pc'[w] = "run" /\ batch'[w] = st
    BY <2>5
  <2>9. Rest(st)'
    BY <2>6, <2>8 DEF Rest, Taken, NotBegun
  <2>10. Pending' = TasksOf(st \o <<>>)'
    BY <2>7, <2>9, PendingBecomes
  <2>11. TasksOf(st \o <<>>)' = TasksOf(<<>> \o st)
    <3>1. st \o <<>> = <<>> \o st
      BY <2>4
    <3>2. TasksOf(st \o <<>>)' = TasksOf(st \o <<>>)
      BY <2>5 DEF TasksOf
    <3> QED BY <3>1, <3>2
  <2>12. \A v \in Workers : pc'[v] # "running"
    BY <2>2, <2>5
  <2>13. Running' = {}
    BY <2>12 DEF Running
  <2> QED BY <2>3, <2>4, <2>5, <2>10, <2>11, <2>13
<1>9. ASSUME NEW w \in Workers, StealNothing(w)
      PROVE  Serial!Next \/ UNCHANGED <<Pending, Running, executed>>
  <2>1. \A v \in Workers : pc'[v] = "running" <=> pc[v] = "running"
    BY <1>9 DEF StealNothing
  <2>2. UNCHANGED <<tasks, prev, task, batch, executed>>
    BY <1>9 DEF StealNothing, memory
  <2> QED BY <2>1, <2>2, Quiet
<1>10. ASSUME NEW w \in Workers, Release(w)
       PROVE  Serial!Next \/ UNCHANGED <<Pending, Running, executed>>
  <2>1. \A v \in Workers : pc'[v] = "running" <=> pc[v] = "running"
    BY <1>10 DEF Release
  <2>2. UNCHANGED <<tasks, prev, task, batch, executed>>
    BY <1>10 DEF Release, memory
  <2> QED BY <2>1, <2>2, Quiet
<1>11. ASSUME NEW w \in Workers, Recheck(w)
       PROVE  Serial!Next \/ UNCHANGED <<Pending, Running, executed>>
  <2>1. \A v \in Workers : pc'[v] = "running" <=> pc[v] = "running"
    BY <1>11 DEF Recheck
  <2>2. UNCHANGED <<tasks, prev, task, batch, executed>>
    BY <1>11 DEF Recheck, memory
  <2> QED BY <2>1, <2>2, Quiet
<1>12. ASSUME NEW w \in Workers, BeginTask(w)
       PROVE  Serial!Next \/ UNCHANGED <<Pending, Running, executed>>
  <2>1. PICK st : Hangs(st) /\ Apart(st)
    BY SomeRest
  <2>2. PICK b : b = batch[w]
    OBVIOUS
  <2>3. /\ pc[w] = "run" /\ pc' = [pc EXCEPT ![w] = "running"]
        /\ UNCHANGED <<tasks, prev, task, batch, executed>>
    BY <1>12 DEF BeginTask, memory
  <2>4. b \in Seq(Nodes) /\ b # <<>> /\ Rest(b) /\ Running = {}
    BY <2>2, <2>3, OneRuns DEF NotBegun
  <2>5. st \in Seq(Nodes) /\ Pending = TasksOf(b \o st)
    BY <2>1, <2>4, PendingIs
  <2>6. Hangs(st)'
    BY <2>1, <2>3 DEF Hangs
  <2>7. pc'[w] = "running" /\ batch'[w] = b
    BY <2>2, <2>3
  <2>8. Rest(Tail(b))'
    BY <2>4, <2>7 DEF Rest, Taken, NotBegun
  <2>9. Pending' = TasksOf(Tail(b) \o st)'
    BY <2>6, <2>8, PendingBecomes
  <2>10. TasksOf(Tail(b) \o st)' = TasksOf(Tail(b) \o st)
    BY <2>3 DEF TasksOf
  <2>11. /\ b \o st \in Seq(Nodes) /\ b \o st # <<>>
         /\ Head(b \o st) = Head(b) /\ Tail(b \o st) = Tail(b) \o st
    BY ZenonT(60), <2>4, <2>5, Joined
  <2>12. /\ Pending # <<>> /\ Head(Pending) = task[Head(b)]
         /\ Tail(Pending) = TasksOf(Tail(b) \o st)
    BY <2>5, <2>11, TasksShorter
  <2>13. \A v \in Workers : v # w => pc[v] # "running"
    BY <2>3, OneRuns
  <2>14. Running' = {task[Head(b)]}
    BY <2>3, <2>7, <2>13 DEF Running
  <2>15. Serial!Begin
    BY <2>3, <2>4, <2>9, <2>10, <2>12, <2>14 DEF Serial!Begin, Pending, Running
  <2> QED BY <2>15 DEF Serial!Next
<1>13. ASSUME NEW w \in Workers, EndTask(w)
       PROVE  Serial!Next \/ UNCHANGED <<Pending, Running, executed>>
  <2>1. PICK st : Hangs(st) /\ Apart(st)
    BY SomeRest
  <2>2. PICK b : b = batch[w]
    OBVIOUS
  <2>3. PICK t : t = Tail(b)
    OBVIOUS
  <2>4. PICK n : n = Head(b)
    OBVIOUS
  <2>5. /\ pc[w] = "running" /\ pc' = [pc EXCEPT ![w] = IF t = <<>> THEN "schedule" ELSE "run"]
        /\ batch' = [batch EXCEPT ![w] = t] /\ executed' = Append(executed, task[n])
        /\ UNCHANGED <<tasks, prev>>
    <3>1. t = <<>> <=> Len(b) = 1
      BY <2>2, <2>3, CutFront, OneRuns, <1>13 DEF EndTask
    <3> QED BY <1>13, <2>2, <2>3, <2>4, <3>1 DEF EndTask
  <2>6. /\ b \in Seq(Nodes) /\ b # <<>> /\ Running = {task[n]} /\ Rest(t)
        /\ \A v \in Workers : v # w => pc[v] # "running" /\ batch[v] = <<>>
    BY <2>2, <2>3, <2>4, <2>5, OneRuns DEF NotBegun
  <2>7. t \in Seq(Nodes) /\ st \in Seq(Nodes) /\ Pending = TasksOf(t \o st)
    BY <2>1, <2>6, PendingIs
  <2>8. Hangs(st)'
    BY <2>1, <2>5 DEF Hangs
  <2>9. /\ n \in Nodes /\ n = b[1] /\ 1 \in 1 .. Len(b) /\ Len(b) \in Nat
        /\ \A i \in 1 .. Len(t) : i + 1 \in 1 .. Len(b) /\ t[i] = b[i + 1]
        /\ t = <<>> <=> Len(b) = 1
    BY ONLY <2>3, <2>4, <2>6, CutFront
  <2>10. /\ \A v \in Workers : pc'[v] # "running"
         /\ \A v \in Workers : batch'[v] = IF v = w THEN t ELSE <<>>
    BY <2>5, <2>6
  <2>11. Rest(t)' /\ Running' = {}
    <3>1. CASE t = <<>>
      BY <2>10, <3>1 DEF Rest, Taken, Running
    <3>2. CASE t # <<>>
      BY <2>10, <3>2 DEF Rest, Taken, NotBegun, Running
    <3> QED BY <3>1, <3>2
  <2>12. Pending' = TasksOf(t \o st)'
    BY <2>8, <2>11, PendingBecomes
  <2>13. TasksOf(t \o st)' = TasksOf(t \o st)
    <3>1. task' = [task EXCEPT ![n] = Null]
      BY <1>13, <2>2, <2>4 DEF EndTask
    <3>2. \A i \in 1 .. Len(st) : st[i] # n
      BY <2>1, <2>2, <2>9 DEF Apart
    <3>3. \A i \in 1 .. Len(t) : t[i] # n
      <4>1. \A i, j \in 1 .. Len(b) : b[i] = b[j] => i = j
        BY <2>2 DEF Batches
      <4>2. \A i \in 1 .. Len(t) : i + 1 # 1
        BY <2>7
      <4> QED BY ONLY <2>9, <4>1, <4>2
    <3>4. t \o st \in Seq(Nodes) /\ \A i \in 1 .. Len(t \o st) : (t \o st)[i] # n /\ (t \o st)[i] \in Nodes
      <4>1. t \o st \in Seq(Nodes)
        BY <2>7, Joined
      <4>2. \A i \in 1 .. Len(t \o st) : (t \o st)[i] \in Nodes
        BY <4>1
      <4> QED BY ONLY <2>7, <3>2, <3>3, <4>1, <4>2, Joined
    <3>5. \A i \in 1 .. Len(t \o st) : task'[(t \o st)[i]] = task[(t \o st)[i]]
      BY <3>1, <3>4
    <3> QED BY <3>4, <3>5, TasksKept
  <2>20. PICK y \in Tasks : y = task[n]
    BY <2>1, <2>2, <2>9 DEF Apart
  <2>21. Serial!End(y)
    BY <2>5, <2>6, <2>7, <2>11, <2>12, <2>13, <2>20 DEF Serial!End, Pending, Running
  <2> QED BY ONLY <2>21 DEF Serial!Next
<1>14. ASSUME NEW w \in Workers, ThrowTask(w)
       PROVE  Serial!Next \/ UNCHANGED <<Pending, Running, executed>>
  <2>1. PICK st : Hangs(st) /\ Apart(st)
    BY SomeRest
  <2>2. PICK b : b = batch[w]
    OBVIOUS
  <2>3. PICK t : t = Tail(b)
    OBVIOUS
  <2>4. PICK n : n = Head(b)
    OBVIOUS
  <2>5. /\ pc[w] = "running" /\ pc' = [pc EXCEPT ![w] = "idle"]
        /\ batch' = [batch EXCEPT ![w] = t] /\ executed' = Append(executed, task[n])
        /\ UNCHANGED <<tasks, prev>>
    BY <1>14, <2>2, <2>3, <2>4 DEF ThrowTask, memory
  <2>6. /\ b \in Seq(Nodes) /\ b # <<>> /\ Running = {task[n]} /\ Rest(t)
        /\ \A v \in Workers : v # w => pc[v] # "running" /\ batch[v] = <<>>
    BY <2>2, <2>3, <2>4, <2>5, OneRuns DEF NotBegun
  <2>7. t \in Seq(Nodes) /\ st \in Seq(Nodes) /\ Pending = TasksOf(t \o st)
    BY <2>1, <2>6, PendingIs
  <2>8. Hangs(st)'
    BY <2>1, <2>5 DEF Hangs
  <2>9. /\ n \in Nodes /\ n = b[1] /\ 1 \in 1 .. Len(b) /\ Len(b) \in Nat
        /\ \A i \in 1 .. Len(t) : i + 1 \in 1 .. Len(b) /\ t[i] = b[i + 1]
        /\ t = <<>> <=> Len(b) = 1
    BY ONLY <2>3, <2>4, <2>6, CutFront
  <2>10. /\ \A v \in Workers : pc'[v] # "running"
         /\ \A v \in Workers : batch'[v] = IF v = w THEN t ELSE <<>>
    BY <2>5, <2>6
  <2>11. Rest(t)' /\ Running' = {}
    <3>1. CASE t = <<>>
      BY <2>10, <3>1 DEF Rest, Taken, Running
    <3>2. CASE t # <<>>
      BY <2>10, <3>2 DEF Rest, Taken, NotBegun, Running
    <3> QED BY <3>1, <3>2
  <2>12. Pending' = TasksOf(t \o st)'
    BY <2>8, <2>11, PendingBecomes
  <2>13. TasksOf(t \o st)' = TasksOf(t \o st)
    BY <1>14 DEF ThrowTask, memory, TasksOf
  <2>20. PICK y \in Tasks : y = task[n]
    BY <2>1, <2>2, <2>9 DEF Apart
  <2>21. Serial!End(y)
    BY <2>5, <2>6, <2>7, <2>11, <2>12, <2>13, <2>20 DEF Serial!End, Pending, Running
  <2> QED BY ONLY <2>21 DEF Serial!Next
<1>15. CASE Discard
  <2>1. \A w \in Workers : pc'[w] = "running" <=> pc[w] = "running"
    BY <1>15 DEF Discard
  <2>2. UNCHANGED <<tasks, prev, task, batch, executed>>
    BY <1>15 DEF Discard, memory
  <2> QED BY <2>1, <2>2, Quiet
<1> QED BY ONLY Actions, [Next]_vars, <1>0, <1>1, <1>2, <1>3, <1>4, <1>5, <1>6, <1>7, <1>8,
                <1>9, <1>10, <1>11, <1>12, <1>13, <1>14, <1>15

\* "Executes (via underlying executor) tasks non-concurrently and in FIFO
\* order" (strand.hpp): every behaviour of the strand is one of SerialExecutor.
THEOREM StrandIsSerial == Spec => ImplementsSerialExecutor
<1>1. Init => Serial!Init
  <2> SUFFICES ASSUME Init PROVE Serial!Init
    OBVIOUS
  <2>1. Rest(<<>>) /\ Hangs(<<>>) /\ Running = {} /\ executed = <<>>
    <3>1. Taken = {} /\ executed = <<>> /\ tasks = Null /\ \A w \in Workers : pc[w] # "running"
      BY DEF Init, Taken, Threads
    <3>2. Hangs(<<>>)
      BY <3>1 DEF Hangs
    <3> QED BY <3>1, <3>2 DEF Rest, Running
  <2>2. Pending = TasksOf(<<>> \o <<>>)
    BY <2>1, InitIInv, PendingIs
  <2>3. TasksOf(<<>> \o <<>>) = <<>>
    BY DEF TasksOf
  <2> QED BY <2>1, <2>2, <2>3 DEF Serial!Init, Pending, Running
<1>2. IInv /\ IInv' /\ [Next]_vars => [Serial!Next]_(Serial!vars)
  BY NextSerial DEF Serial!vars, Pending, Running
<1> QED BY <1>1, <1>2, Inductive, PTL DEF Spec, ImplementsSerialExecutor, Serial!Spec

=============================================================================
