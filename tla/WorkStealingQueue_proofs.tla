---------------------- MODULE WorkStealingQueue_proofs ----------------------
(***************************************************************************)
(* Proofs about WorkStealingQueue, for every capacity, any number of       *)
(* thieves and any set of items.                                           *)
(***************************************************************************)
EXTENDS WorkStealingQueue, SequenceTheorems, TLAPS

-----------------------------------------------------------------------------
(* Arithmetic of the ring *)

\* What % and \div are.
LEMMA DivMod ==
    \A x \in Nat, C \in Nat \ {0} :
        x % C \in 0 .. C - 1 /\ x \div C \in Nat /\ x = C * (x \div C) + (x % C)
OBVIOUS

\* No multiple of C lies strictly between 0 and C.
LEMMA Multiple ==
    \A C \in Nat \ {0}, k \in Int : (k >= 1 => C * k >= C) /\ (k <= 0 => C * k <= 0)
OBVIOUS

LEMMA Distribute == \A C \in Nat \ {0}, p, q \in Int : C * p - C * q = C * (p - q)
OBVIOUS

\* Two cursors less than a round apart are in different slots.
LEMMA DifferentSlots ==
    ASSUME NEW C \in Nat \ {0}, NEW x \in Nat, NEW y \in Nat, x < y, y < x + C
    PROVE  x % C # y % C
<1> SUFFICES ASSUME x % C = y % C PROVE FALSE
    OBVIOUS
<1> DEFINE p == x \div C
           q == y \div C
<1>1. p \in Nat /\ q \in Nat /\ x = C * p + (x % C) /\ y = C * q + (y % C)
    BY DivMod
<1> HIDE DEF p, q
<1>2. C * q \in Int /\ C * p \in Int /\ x % C \in Int /\ y % C \in Int
    BY <1>1, DivMod
<1>3. y - x = C * (q - p)
    BY <1>1, <1>2, Distribute
<1>4. CASE q - p >= 1
    BY <1>1, <1>3, <1>4, Multiple
<1>5. CASE q - p <= 0
    BY <1>1, <1>3, <1>5, Multiple
<1> QED
    BY <1>1, <1>4, <1>5

-----------------------------------------------------------------------------
(* The inductive invariant, in the order its parts are proved *)

\* Only the owner pushes; it has stored a proper part of its batch, then all.
OwnerPhase ==
    /\ \A t \in Thieves : pc[t] \notin {"store", "publish"}
    /\ pc[Owner] = "store" => stored < Len(batch)
    /\ pc[Owner] = "publish" => stored = Len(batch) /\ Len(batch) > 0
    /\ pc[Owner] \in {"store", "publish"} => ~ drained

\* What a consumer has learnt about the cursors stays true.
CursorsSeen ==
    \A t \in Threads :
        /\ pc[t] \in {"loadEnd", "read", "cas"} => lb[t] <= begin
        /\ pc[t] \in {"read", "cas"} => lb[t] + lim[t] <= end /\ lim[t] <= limit[t]
        /\ pc[t] = "read" => Len(out[t]) < lim[t]
        /\ pc[t] = "cas" => Len(out[t]) = lim[t]
        /\ pc[t] \notin {"read", "cas"} => out[t] = <<>>
        /\ pc[t] = "lowBegin" => lb[t] <= end

\* The producer's stores are in the slots past end_, and an empty queue the
\* owner has seen stays empty.
CursorsInv ==
    /\ CursorsInOrder
    /\ PushFits
    /\ drained => begin = end

StoredInPlace ==
    pc[Owner] \in {"store", "publish"} =>
        \A i \in 1 .. stored : buffer[Slot(end + i - 1)] = batch[i]

\* A reader that no other consumer has overtaken read what is in the ring.
ReadsAreFresh ==
    \A t \in Threads :
        pc[t] \in {"read", "cas"} /\ lb[t] = begin =>
            \A i \in 1 .. Len(out[t]) : out[t][i] = buffer[Slot(lb[t] + i - 1)]

Inv1 == TypeOK /\ OwnerPhase
Inv2 == CursorsSeen /\ CursorsInv
Inv3 == StoredInPlace /\ ReadsAreFresh
IInv == Inv1 /\ Inv2 /\ Inv3

-----------------------------------------------------------------------------
(* Types *)

LEMMA SlotInRing == \A i \in Nat : Slot(i) \in 0 .. Capacity - 1
BY QueueAssumption, DivMod DEF Slot

LEMMA BatchIsSeq ==
    ASSUME NEW items \in Batches
    PROVE  items \in Seq(Items) /\ Len(items) \in 1 .. MaxBatch
<1>1. PICK n \in 1 .. MaxBatch : items \in [1 .. n -> Items]
    BY DEF Batches
<1>2. n \in Nat
    BY QueueAssumption
<1> QED
    BY <1>1, <1>2

LEMMA Inv1Init == Init => Inv1
<1> SUFFICES ASSUME Init PROVE Inv1
    OBVIOUS
<1> USE QueueAssumption DEF Init
<1>1. <<>> \in Seq(Items) /\ Len(<<>>) = 0
    OBVIOUS
<1>2. /\ out \in [Threads -> Seq(Items)] /\ got \in [Threads -> Seq(Items)]
      /\ batch \in Seq(Items)
    BY <1>1
<1>3. /\ limit \in [Threads -> 0 .. Capacity] /\ lim \in [Threads -> 0 .. Capacity]
      /\ lb \in [Threads -> Nat] /\ weak \in [Threads -> BOOLEAN]
    OBVIOUS
<1>4. pc \in [Threads -> {"idle", "store", "publish", "loadBegin", "loadEnd", "read", "cas", "lowBegin"}]
    OBVIOUS
<1>5. TypeOK
    BY <1>2, <1>3, <1>4 DEF TypeOK
<1>6. OwnerPhase
    BY DEF OwnerPhase, Threads
<1> QED
    BY <1>5, <1>6 DEF Inv1

LEMMA Inv1Step == Inv1 /\ [Next]_vars => Inv1'
<1> SUFFICES ASSUME Inv1, [Next]_vars PROVE Inv1'
    OBVIOUS
<1> USE QueueAssumption DEF Inv1, TypeOK, ringVars, consumerVars, pushVars, answers
<1>0. <<>> \in Seq(Items) /\ Owner \in Threads
    BY DEF Threads
<1>1. ASSUME NEW item \in Items, TryPush(item) PROVE Inv1'
    <2>1. CASE end >= begin + Capacity
        <3>1. UNCHANGED <<buffer, begin, end, pc, consumerVars, pushVars, got>> /\ accepted' = FALSE
            BY <1>1, <2>1 DEF TryPush
        <3>2. TypeOK'
            BY <3>1
        <3>3. OwnerPhase'
            BY <3>1 DEF OwnerPhase
        <3> QED
            BY <3>2, <3>3
    <2>2. CASE end < begin + Capacity
        <3>1. <<item>> \in Seq(Items) /\ Len(<<item>>) = 1
            OBVIOUS
        <3>2. /\ batch' = <<item>> /\ stored' = 0 /\ drained' = FALSE
              /\ pc' = [pc EXCEPT ![Owner] = "store"]
              /\ UNCHANGED <<answers, ringVars, consumerVars>>
            BY <1>1, <2>2 DEF TryPush, StartPush
        <3>3. batch' \in Seq(Items) /\ Len(batch') = 1
            BY <3>1, <3>2
        <3>4. TypeOK'
            BY <1>0, <3>2, <3>3
        <3>5. OwnerPhase'
            BY <1>0, <3>2, <3>3 DEF OwnerPhase, Threads
        <3> QED
            BY <3>4, <3>5
    <2> QED
        BY <2>1, <2>2
<1>2. ASSUME NEW items \in Batches, PushMany(items) PROVE Inv1'
    <2>1. items \in Seq(Items) /\ Len(items) > 0
        BY <1>2, BatchIsSeq DEF PushMany
    <2>2. TypeOK'
        BY <1>0, <1>2, <2>1 DEF PushMany, StartPush
    <2>3. OwnerPhase'
        BY <1>0, <1>2, <2>1 DEF PushMany, StartPush, OwnerPhase, Threads
    <2> QED
        BY <2>2, <2>3
<1>3. CASE StoreSlot
    <2>1. batch[stored + 1] \in Items
        BY <1>3 DEF StoreSlot, OwnerPhase
    <2>2. end + stored \in Nat /\ Slot(end + stored) \in 0 .. Capacity - 1
        BY SlotInRing, SMTT(30)
    <2>3. buffer' \in [0 .. Capacity - 1 -> Items]
        BY <1>3, <2>1, <2>2 DEF StoreSlot
    <2>4. TypeOK'
        BY <1>0, <1>3, <2>3, SMTT(30) DEF StoreSlot
    <2>5. OwnerPhase'
        BY <1>0, <1>3 DEF StoreSlot, OwnerPhase, Threads
    <2> QED
        BY <2>4, <2>5
<1>4. CASE Publish
    <2>1. TypeOK'
        BY <1>0, <1>4 DEF Publish
    <2>2. OwnerPhase'
        BY <1>0, <1>4 DEF Publish, OwnerPhase, Threads
    <2> QED
        BY <2>1, <2>2
<1>5. ASSUME NEW t \in Threads, NEW n \in 0 .. Capacity, NEW w \in BOOLEAN, Call(t, n, w)
      PROVE  Inv1'
    <2>1. TypeOK'
        BY <1>5 DEF Call
    <2>2. OwnerPhase'
        BY <1>5 DEF Call, OwnerPhase, Threads
    <2> QED
        BY <2>1, <2>2
<1>6. ASSUME NEW t \in Threads, LowSizeEnd(t) PROVE Inv1'
    <2>1. TypeOK'
        BY <1>6 DEF LowSizeEnd
    <2>2. OwnerPhase'
        BY <1>6 DEF LowSizeEnd, OwnerPhase, Threads
    <2> QED
        BY <2>1, <2>2
<1>7. ASSUME NEW t \in Threads, LoadBegin(t) PROVE Inv1'
    <2>1. TypeOK'
        BY <1>7 DEF LoadBegin
    <2>2. OwnerPhase'
        BY <1>7 DEF LoadBegin, OwnerPhase, Threads
    <2> QED
        BY <2>1, <2>2
<1>8. ASSUME NEW t \in Threads, LoadEndEmpty(t) PROVE Inv1'
    <2>1. TypeOK'
        BY <1>0, <1>8, SMTT(30) DEF LoadEndEmpty, EndCall
    <2>2. OwnerPhase'
        BY <1>8 DEF LoadEndEmpty, EndCall, OwnerPhase, Threads
    <2> QED
        BY <2>1, <2>2
<1>9. ASSUME NEW t \in Threads, LoadEnd(t) PROVE Inv1'
    <2>1. (IF limit[t] < end - lb[t] THEN limit[t] ELSE end - lb[t]) \in 0 .. Capacity
        BY <1>9 DEF LoadEnd
    <2>2. TypeOK'
        BY <1>9, <2>1 DEF LoadEnd
    <2>3. OwnerPhase'
        BY <1>9 DEF LoadEnd, OwnerPhase, Threads
    <2> QED
        BY <2>2, <2>3
<1>10. ASSUME NEW t \in Threads, ReadSlot(t) PROVE Inv1'
    <2>1. lb[t] + Len(out[t]) \in Nat
        OBVIOUS
    <2>2. buffer[Slot(lb[t] + Len(out[t]))] \in Items
        BY <2>1, SlotInRing
    <2>3. Append(out[t], buffer[Slot(lb[t] + Len(out[t]))]) \in Seq(Items)
        BY <2>2
    <2>4. TypeOK'
        BY <1>10, <2>3 DEF ReadSlot
    <2>5. OwnerPhase'
        BY <1>10 DEF ReadSlot, OwnerPhase, Threads
    <2> QED
        BY <2>4, <2>5
<1>11. ASSUME NEW t \in Threads, Commit(t) PROVE Inv1'
    <2>1. (IF lim[t] = 0 THEN got[t] ELSE out[t]) \in Seq(Items)
        OBVIOUS
    <2>2. got' \in [Threads -> Seq(Items)] /\ begin' \in Nat
        BY <1>11, <2>1 DEF Commit
    <2>3. out' \in [Threads -> Seq(Items)]
        BY <1>0, <1>11 DEF Commit, EndCall
    <2>4. TypeOK'
        BY <1>11, <2>2, <2>3 DEF Commit, EndCall
    <2>5. OwnerPhase'
        BY <1>11 DEF Commit, EndCall, OwnerPhase, Threads
    <2> QED
        BY <2>4, <2>5
<1>12. ASSUME NEW t \in Threads, Retry(t) PROVE Inv1'
    <2>1. TypeOK'
        BY <1>0, <1>12, SMTT(30) DEF Retry
    <2>2. OwnerPhase'
        BY <1>12 DEF Retry, OwnerPhase, Threads
    <2> QED
        BY <2>1, <2>2
<1>13. ASSUME NEW t \in Threads, StealTasks(t) PROVE Inv1'
    <2> DEFINE half == LowSize(t) \div 2
    <2>1. half \in Nat
        BY DEF LowSize
    <2>2. (IF half < MaxGrab THEN half ELSE MaxGrab) \in 0 .. Capacity
        BY <2>1
    <2> HIDE DEF half
    <2>3. limit' = [limit EXCEPT ![t] = IF half < MaxGrab THEN half ELSE MaxGrab]
        BY <1>13 DEF StealTasks, half
    <2>4. limit' \in [Threads -> 0 .. Capacity]
        BY <2>2, <2>3
    <2>5. TypeOK'
        BY <1>13, <2>4 DEF StealTasks
    <2>6. OwnerPhase'
        BY <1>13 DEF StealTasks, OwnerPhase, Threads
    <2> QED
        BY <2>5, <2>6
<1>14. CASE UNCHANGED vars
    <2>1. TypeOK'
        BY <1>14 DEF vars
    <2>2. OwnerPhase'
        BY <1>14 DEF vars, OwnerPhase
    <2> QED
        BY <2>1, <2>2
<1>15. CASE Next
    <2> HIDE DEF Inv1, TypeOK, ringVars, consumerVars, pushVars, answers
    <2>1. 1 \in 0 .. Capacity /\ (0 .. MaxGrab) \subseteq 0 .. Capacity
        OBVIOUS
    <2>2. CASE Produce
        BY <1>1, <1>2, <1>3, <1>4, <2>2 DEF Produce
    <2>3. ASSUME NEW t \in Threads, Consume(t) PROVE Inv1'
        BY <1>5, <1>6, <1>7, <1>8, <1>9, <1>10, <1>11, <1>12, <1>13, <2>1, <2>3
        DEF Consume, Continue, TryPop, Grab
    <2> QED
        BY <1>15, <2>2, <2>3 DEF Next
<1> QED
    BY <1>14, <1>15

\* Every reachable state is well typed, whatever the capacity, the number of
\* thieves and the set of items.
THEOREM TypeCorrect == Spec => []TypeOK
<1>1. Inv1 => TypeOK
    BY DEF Inv1
<1> QED
    BY <1>1, Inv1Init, Inv1Step, PTL DEF Spec

-----------------------------------------------------------------------------
(* Cursors *)

LEMMA Inv2Init == Init => Inv2
BY QueueAssumption DEF Init, Inv2, CursorsSeen, CursorsInv, CursorsInOrder, PushFits, Threads

\* A step of the producer, or of a consumer before its compare-exchange,
\* leaves begin_ alone and moves end_ forward: what was seen stays true.
LEMMA Inv2Step == Inv1 /\ Inv2 /\ [Next]_vars => Inv2'
<1> SUFFICES ASSUME Inv1, Inv2, [Next]_vars PROVE Inv2'
    OBVIOUS
<1> USE QueueAssumption DEF Inv1, Inv2, ringVars, consumerVars, pushVars, answers
<1>0. Owner \in Threads
    BY DEF Threads
<1>1. ASSUME NEW item \in Items, TryPush(item) PROVE Inv2'
    <2>1. CursorsSeen'
        BY <1>0, <1>1 DEF TryPush, StartPush, CursorsSeen, TypeOK
    <2>2. CASE end >= begin + Capacity
        BY <1>0, <1>1, <2>1, <2>2 DEF TryPush, CursorsInv, CursorsInOrder, PushFits, TypeOK
    <2>3. CASE end < begin + Capacity
        <3>1. batch' = <<item>> /\ drained' = FALSE /\ UNCHANGED ringVars
            BY <1>1, <2>3 DEF TryPush, StartPush, TypeOK
        <3>2. Len(batch') = 1
            BY <3>1
        <3>3. CursorsInv'
            BY <2>3, <3>1, <3>2 DEF CursorsInv, CursorsInOrder, PushFits, TypeOK
        <3> QED
            BY <2>1, <3>3
    <2> QED
        BY <1>1, <2>2, <2>3 DEF TypeOK
<1>2. ASSUME NEW items \in Batches, PushMany(items) PROVE Inv2'
    <2>1. Len(items) \in 0 .. Capacity
        BY BatchIsSeq
    <2>2. CursorsSeen'
        BY <1>0, <1>2 DEF PushMany, StartPush, CursorsSeen, TypeOK
    <2>3. CursorsInv'
        BY <1>0, <1>2, <2>1 DEF PushMany, StartPush, CursorsInv, CursorsInOrder, PushFits, TypeOK
    <2> QED
        BY <2>2, <2>3
<1>3. CASE StoreSlot
    <2>1. CursorsSeen'
        BY <1>0, <1>3 DEF StoreSlot, CursorsSeen, TypeOK
    <2>2. CursorsInv'
        BY <1>0, <1>3 DEF StoreSlot, CursorsInv, CursorsInOrder, PushFits, TypeOK
    <2> QED
        BY <2>1, <2>2
<1>4. CASE Publish
    <2>1. end' >= end /\ end' \in Nat /\ begin' = begin
        BY <1>4 DEF Publish, TypeOK
    <2>2. CursorsSeen'
        <3>1. SUFFICES ASSUME NEW t \in Threads PROVE CursorsSeen!(t)'
            BY DEF CursorsSeen
        <3>2. QED
            <4>1. lb[t] \in Nat /\ lim[t] \in Nat /\ UNCHANGED <<lb, lim, limit, out>>
                BY <1>4 DEF Publish, TypeOK
            <4>2. CASE t = Owner
                BY <1>4, <4>2 DEF Publish, CursorsSeen, TypeOK
            <4>3. CASE t # Owner
                <5>1. pc'[t] = pc[t]
                    BY <1>4, <4>3 DEF Publish, TypeOK
                <5> QED
                    BY <2>1, <4>1, <5>1 DEF CursorsSeen, TypeOK
            <4> QED
                BY <4>2, <4>3
    <2>3. CursorsInv'
        BY <1>0, <1>4 DEF Publish, CursorsInv, CursorsInOrder, PushFits, TypeOK, OwnerPhase
    <2> QED
        BY <2>2, <2>3
<1>5. ASSUME NEW t \in Threads, NEW n \in 0 .. Capacity, NEW w \in BOOLEAN, Call(t, n, w)
      PROVE  Inv2'
    <2>1. CursorsSeen'
        BY <1>5 DEF Call, CursorsSeen, TypeOK
    <2>2. CursorsInv'
        BY <1>0, <1>5 DEF Call, CursorsInv, CursorsInOrder, PushFits, TypeOK
    <2> QED
        BY <2>1, <2>2
<1>6. ASSUME NEW t \in Threads, LowSizeEnd(t) PROVE Inv2'
    <2>1. CursorsSeen'
        BY <1>6 DEF LowSizeEnd, CursorsSeen, TypeOK
    <2>2. CursorsInv'
        BY <1>0, <1>6 DEF LowSizeEnd, CursorsInv, CursorsInOrder, PushFits, TypeOK
    <2> QED
        BY <2>1, <2>2
<1>7. ASSUME NEW t \in Threads, LoadBegin(t) PROVE Inv2'
    <2>1. CursorsSeen'
        BY <1>7 DEF LoadBegin, CursorsSeen, TypeOK
    <2>2. CursorsInv'
        BY <1>0, <1>7 DEF LoadBegin, CursorsInv, CursorsInOrder, PushFits, TypeOK
    <2> QED
        BY <2>1, <2>2
<1>8. ASSUME NEW t \in Threads, LoadEndEmpty(t) PROVE Inv2'
    <2>1. CursorsSeen'
        BY <1>8 DEF LoadEndEmpty, EndCall, CursorsSeen, TypeOK
    <2>2. end = begin /\ pc[t] = "loadEnd"
        BY <1>8 DEF LoadEndEmpty, CursorsSeen, CursorsInv, CursorsInOrder, TypeOK
    <2>3. CursorsInv'
        BY <1>0, <1>8, <2>2 DEF LoadEndEmpty, EndCall, CursorsInv, CursorsInOrder, PushFits, TypeOK
    <2> QED
        BY <2>1, <2>3
<1>9. ASSUME NEW t \in Threads, LoadEnd(t) PROVE Inv2'
    <2> DEFINE n == IF limit[t] < end - lb[t] THEN limit[t] ELSE end - lb[t]
    <2>1. /\ n \in 0 .. Capacity /\ n <= limit[t] /\ lb[t] + n <= end
          /\ limit[t] # 0 => n > 0
          /\ limit[t] = 0 => n = 0
        BY <1>9 DEF LoadEnd, TypeOK
    <2> HIDE DEF n
    <2>2. lim' = [lim EXCEPT ![t] = n] /\ out[t] = <<>>
        BY <1>9 DEF LoadEnd, n, CursorsSeen
    <2>3. CursorsSeen'
        BY <1>9, <2>1, <2>2 DEF LoadEnd, CursorsSeen, TypeOK
    <2>4. CursorsInv'
        BY <1>0, <1>9 DEF LoadEnd, CursorsInv, CursorsInOrder, PushFits, TypeOK
    <2> QED
        BY <2>3, <2>4
<1>10. ASSUME NEW t \in Threads, ReadSlot(t) PROVE Inv2'
    <2>1. out'[t] = Append(out[t], buffer[Slot(lb[t] + Len(out[t]))])
        BY <1>10 DEF ReadSlot, TypeOK
    <2>2. Len(out'[t]) = Len(out[t]) + 1
        BY <2>1 DEF TypeOK
    <2>3. CursorsSeen'
        BY <1>10, <2>2 DEF ReadSlot, CursorsSeen, TypeOK
    <2>4. CursorsInv'
        BY <1>0, <1>10 DEF ReadSlot, CursorsInv, CursorsInOrder, PushFits, TypeOK
    <2> QED
        BY <2>3, <2>4
<1>11. ASSUME NEW t \in Threads, Commit(t) PROVE Inv2'
    <2>1. begin' = begin + lim[t] /\ begin' <= end /\ lim[t] \in Nat
        BY <1>11 DEF Commit, CursorsSeen, TypeOK
    <2>2. CursorsSeen'
        BY <1>11, <2>1, SMTT(30) DEF Commit, EndCall, CursorsSeen, TypeOK
    <2>3. CursorsInOrder' /\ (drained => begin' = end)
        BY <1>11, <2>1, SMTT(30) DEF Commit, CursorsInv, CursorsInOrder, TypeOK
    <2>4. PushFits'
        BY <1>0, <1>11, <2>1, SMTT(30) DEF Commit, EndCall, CursorsInv, PushFits, TypeOK
    <2>5. CursorsInv'
        BY <1>11, <2>3, <2>4 DEF Commit, CursorsInv
    <2> QED
        BY <2>2, <2>5
<1>12. ASSUME NEW t \in Threads, Retry(t) PROVE Inv2'
    <2>1. CursorsSeen'
        BY <1>12 DEF Retry, CursorsSeen, TypeOK
    <2>2. CursorsInv'
        BY <1>0, <1>12 DEF Retry, CursorsInv, CursorsInOrder, PushFits, TypeOK
    <2> QED
        BY <2>1, <2>2
<1>13. ASSUME NEW t \in Threads, StealTasks(t) PROVE Inv2'
    <2>1. CursorsSeen'
        BY <1>13 DEF StealTasks, CursorsSeen, TypeOK
    <2>2. CursorsInv'
        BY <1>0, <1>13 DEF StealTasks, CursorsInv, CursorsInOrder, PushFits, TypeOK
    <2> QED
        BY <2>1, <2>2
<1>14. CASE UNCHANGED vars
    BY <1>14 DEF vars, CursorsSeen, CursorsInv, CursorsInOrder, PushFits
<1>15. CASE Next
    <2>1. 1 \in 0 .. Capacity /\ (0 .. MaxGrab) \subseteq 0 .. Capacity
        OBVIOUS
    <2> HIDE DEF Inv2
    <2>2. CASE Produce
        BY <1>1, <1>2, <1>3, <1>4, <2>2 DEF Produce
    <2>3. ASSUME NEW t \in Threads, Consume(t) PROVE Inv2'
        BY <1>5, <1>6, <1>7, <1>8, <1>9, <1>10, <1>11, <1>12, <1>13, <2>1, <2>3
        DEF Consume, Continue, TryPop, Grab
    <2> QED
        BY <1>15, <2>2, <2>3 DEF Next
<1> QED
    BY <1>14, <1>15

-----------------------------------------------------------------------------
(* Slots *)

LEMMA Inv3Init == Init => Inv3
BY QueueAssumption DEF Init, Inv3, StoredInPlace, ReadsAreFresh, Threads

\* Storing the next item of a batch overwrites neither the ones before it nor
\* anything between the cursors.
LEMMA StoreKeepsOthers ==
    ASSUME Inv1, Inv2, StoreSlot, NEW i \in Nat, begin <= i, i < end + stored
    PROVE  buffer'[Slot(i)] = buffer[Slot(i)]
<1>1. end + stored \in Nat /\ end + stored < begin + Capacity
    BY QueueAssumption DEF StoreSlot, Inv1, TypeOK, OwnerPhase, Inv2, CursorsInv, PushFits
<1>2. end + stored < i + Capacity /\ Capacity \in Nat \ {0}
    BY <1>1, QueueAssumption DEF Inv1, TypeOK
<1>3. i % Capacity # (end + stored) % Capacity
    BY <1>1, <1>2, DifferentSlots
<1>4. Slot(i) # Slot(end + stored)
    BY <1>3 DEF Slot
<1>5. Slot(i) \in 0 .. Capacity - 1
    BY SlotInRing
<1> QED
    BY <1>4, <1>5 DEF StoreSlot, Inv1, TypeOK

\* A step that leaves the ring, the batch and the owner's phase alone.
LEMMA StoredStep ==
    ASSUME StoredInPlace, Inv1, UNCHANGED <<buffer, end, batch, stored>>,
           pc'[Owner] \in {"store", "publish"} => pc[Owner] \in {"store", "publish"}
    PROVE  StoredInPlace'
BY DEF StoredInPlace

\* A step that changes neither the slots nor begin_, and no other thread.
LEMMA FreshStep ==
    ASSUME ReadsAreFresh, Inv1, NEW t \in Threads, UNCHANGED <<buffer, begin>>,
           \A u \in Threads \ {t} : pc'[u] = pc[u] /\ lb'[u] = lb[u] /\ out'[u] = out[u],
           pc'[t] \in {"read", "cas"} /\ lb'[t] = begin =>
               \A i \in 1 .. Len(out'[t]) : out'[t][i] = buffer[Slot(lb'[t] + i - 1)]
    PROVE  ReadsAreFresh'
BY DEF ReadsAreFresh

LEMMA Inv3Step == Inv1 /\ Inv2 /\ Inv3 /\ [Next]_vars => Inv3'
<1> SUFFICES ASSUME Inv1, Inv2, Inv3, [Next]_vars PROVE Inv3'
    OBVIOUS
<1> USE QueueAssumption DEF Inv3, ringVars, consumerVars, pushVars, answers
<1>0. Owner \in Threads /\ ReadsAreFresh /\ StoredInPlace
    BY DEF Threads
<1>1. ASSUME NEW item \in Items, TryPush(item) PROVE Inv3'
    <2>1. StoredInPlace'
        <3>1. CASE end >= begin + Capacity
            BY <1>0, <1>1, <3>1 DEF TryPush, StoredInPlace, Inv1, TypeOK
        <3>2. CASE ~ (end >= begin + Capacity)
            <4>1. stored' = 0
                BY <1>1, <3>2 DEF TryPush, StartPush
            <4>2. 1 .. 0 = {}
                OBVIOUS
            <4> QED
                BY <4>1, <4>2, SMTT(30) DEF StoredInPlace
        <3> QED
            BY <3>1, <3>2
    <2>2. ReadsAreFresh'
        BY <1>0, <1>1, FreshStep DEF TryPush, StartPush, Inv1, TypeOK
    <2> QED
        BY <2>1, <2>2
<1>2. ASSUME NEW items \in Batches, PushMany(items) PROVE Inv3'
    <2>1. StoredInPlace'
        BY <1>0, <1>2 DEF PushMany, StartPush, StoredInPlace, Inv1, TypeOK
    <2>2. ReadsAreFresh'
        BY <1>0, <1>2, FreshStep DEF PushMany, StartPush, Inv1, TypeOK
    <2> QED
        BY <2>1, <2>2
<1>3. CASE StoreSlot
    <2>1. pc[Owner] = "store" /\ stored' = stored + 1 /\ UNCHANGED <<begin, end, batch, lb, out>>
        BY <1>3 DEF StoreSlot
    <2>2. StoredInPlace'
        <3>1. SUFFICES ASSUME NEW i \in 1 .. stored + 1
              PROVE  buffer'[Slot(end + i - 1)] = batch[i]
            BY <2>1 DEF StoredInPlace
        <3>2. CASE i <= stored
            <4>1. end + i - 1 \in Nat /\ begin <= end + i - 1 /\ end + i - 1 < end + stored
                BY <3>2 DEF Inv1, TypeOK, Inv2, CursorsInv, CursorsInOrder
            <4> QED
                BY <1>0, <1>3, <2>1, <3>2, <4>1, StoreKeepsOthers DEF StoredInPlace, Inv1, TypeOK
        <3>3. CASE i = stored + 1
            <4>1. end + i - 1 = end + stored /\ Slot(end + stored) \in 0 .. Capacity - 1
                BY <3>3, SlotInRing, SMTT(30) DEF Inv1, TypeOK
            <4> QED
                BY <1>3, <3>3, <4>1 DEF StoreSlot, Inv1, TypeOK
        <3> QED
            BY <3>2, <3>3 DEF Inv1, TypeOK
    <2>3. ReadsAreFresh'
        <3>1. SUFFICES ASSUME NEW t \in Threads, pc'[t] \in {"read", "cas"}, lb[t] = begin,
                              NEW i \in 1 .. Len(out[t])
              PROVE  out[t][i] = buffer'[Slot(lb[t] + i - 1)]
            BY <2>1 DEF ReadsAreFresh
        <3>2. pc[t] \in {"read", "cas"}
            BY <1>0, <1>3, <3>1 DEF StoreSlot, Inv1, TypeOK
        <3>3. lb[t] + i - 1 \in Nat /\ begin <= lb[t] + i - 1 /\ lb[t] + i - 1 < end + stored
            BY <3>1, <3>2 DEF Inv1, TypeOK, Inv2, CursorsSeen
        <3> QED
            BY <1>0, <1>3, <3>1, <3>2, <3>3, StoreKeepsOthers DEF ReadsAreFresh
    <2> QED
        BY <2>2, <2>3
<1>4. CASE Publish
    <2>1. StoredInPlace'
        BY <1>0, <1>4 DEF Publish, StoredInPlace, Inv1, TypeOK
    <2>2. ReadsAreFresh'
        BY <1>0, <1>4, FreshStep DEF Publish, Inv1, TypeOK
    <2> QED
        BY <2>1, <2>2
<1>5. ASSUME NEW t \in Threads, NEW n \in 0 .. Capacity, NEW w \in BOOLEAN, Call(t, n, w)
      PROVE  Inv3'
    BY <1>0, <1>5, StoredStep, FreshStep DEF Call, Inv1, TypeOK
<1>6. ASSUME NEW t \in Threads, LowSizeEnd(t) PROVE Inv3'
    BY <1>0, <1>6, StoredStep, FreshStep DEF LowSizeEnd, Inv1, TypeOK
<1>7. ASSUME NEW t \in Threads, LoadBegin(t) PROVE Inv3'
    BY <1>0, <1>7, StoredStep, FreshStep DEF LoadBegin, Inv1, TypeOK
<1>8. ASSUME NEW t \in Threads, LoadEndEmpty(t) PROVE Inv3'
    BY <1>0, <1>8, StoredStep, FreshStep DEF LoadEndEmpty, EndCall, Inv1, TypeOK
<1>9. ASSUME NEW t \in Threads, LoadEnd(t) PROVE Inv3'
    <2>1. out[t] = <<>>
        BY <1>9 DEF LoadEnd, Inv2, CursorsSeen
    <2>2. StoredInPlace'
        BY <1>0, <1>9, StoredStep DEF LoadEnd, Inv1, TypeOK
    <2>3. ReadsAreFresh'
        BY <1>0, <1>9, <2>1, FreshStep, SMTT(30) DEF LoadEnd, Inv1, TypeOK
    <2> QED
        BY <2>2, <2>3
<1>10. ASSUME NEW t \in Threads, ReadSlot(t) PROVE Inv3'
    <2> DEFINE n == Len(out[t])
               x == buffer[Slot(lb[t] + n)]
    <2>1. n \in Nat /\ lb[t] \in Nat /\ out[t] \in Seq(Items)
        BY DEF Inv1, TypeOK
    <2>2. out'[t] = Append(out[t], x) /\ lb'[t] = lb[t]
        BY <1>10 DEF ReadSlot, Inv1, TypeOK
    <2>3. x \in Items
        <3>1. lb[t] + n \in Nat
            BY <2>1
        <3>2. Slot(lb[t] + n) \in 0 .. Capacity - 1
            BY <3>1, SlotInRing
        <3> QED
            BY <3>2 DEF Inv1, TypeOK
    <2>4. /\ Len(out'[t]) = n + 1
          /\ out'[t][n + 1] = x
          /\ \A i \in 1 .. n : out'[t][i] = out[t][i]
        BY <2>1, <2>2, <2>3
    <2>5. lb[t] = begin => \A i \in 1 .. n + 1 : out'[t][i] = buffer[Slot(lb[t] + i - 1)]
        <3>1. SUFFICES ASSUME lb[t] = begin, NEW i \in 1 .. n + 1
              PROVE  out'[t][i] = buffer[Slot(lb[t] + i - 1)]
            OBVIOUS
        <3>2. CASE i <= n
            BY <1>0, <1>10, <2>1, <2>4, <3>1, <3>2 DEF ReadsAreFresh, ReadSlot
        <3>3. CASE i = n + 1
            <4>1. lb[t] + i - 1 = lb[t] + n
                BY <2>1, <3>3
            <4> QED
                BY <2>4, <3>3, <4>1
        <3> QED
            BY <2>1, <3>2, <3>3
    <2> HIDE DEF n, x
    <2>6. StoredInPlace'
        BY <1>0, <1>10, StoredStep DEF ReadSlot, Inv1, TypeOK
    <2>7. ReadsAreFresh'
        <3>1. UNCHANGED <<buffer, begin>>
            BY <1>10 DEF ReadSlot
        <3>2. \A u \in Threads \ {t} : pc'[u] = pc[u] /\ lb'[u] = lb[u] /\ out'[u] = out[u]
            BY <1>10 DEF ReadSlot, Inv1, TypeOK
        <3>3. lb'[t] = begin =>
                  \A i \in 1 .. Len(out'[t]) : out'[t][i] = buffer[Slot(lb'[t] + i - 1)]
            BY <2>2, <2>4, <2>5
        <3> QED
            BY <1>0, <3>1, <3>2, <3>3, FreshStep
    <2> QED
        BY <2>6, <2>7
<1>11. ASSUME NEW t \in Threads, Commit(t) PROVE Inv3'
    <2>1. StoredInPlace'
        BY <1>0, <1>11, StoredStep DEF Commit, EndCall, Inv1, TypeOK
    <2>2. ReadsAreFresh'
        <3>1. SUFFICES ASSUME NEW u \in Threads, pc'[u] \in {"read", "cas"}, lb'[u] = begin'
              PROVE  \A i \in 1 .. Len(out'[u]) : out'[u][i] = buffer'[Slot(lb'[u] + i - 1)]
            BY DEF ReadsAreFresh
        <3>2. u # t /\ pc'[u] = pc[u] /\ lb'[u] = lb[u] /\ out'[u] = out[u] /\ buffer' = buffer
            BY <1>11, <3>1 DEF Commit, EndCall, Inv1, TypeOK
        <3>3. lb[u] <= begin /\ begin <= begin' /\ lb[u] = begin'
            BY <1>11, <3>1, <3>2, SMTT(30) DEF Commit, Inv1, TypeOK, Inv2, CursorsSeen
        <3>4. lb[u] = begin
            BY <1>11, <3>3 DEF Commit, Inv1, TypeOK
        <3> QED
            BY <1>0, <3>1, <3>2, <3>4 DEF ReadsAreFresh
    <2> QED
        BY <2>1, <2>2
<1>12. ASSUME NEW t \in Threads, Retry(t) PROVE Inv3'
    BY <1>0, <1>12, StoredStep, FreshStep DEF Retry, Inv1, TypeOK
<1>13. ASSUME NEW t \in Threads, StealTasks(t) PROVE Inv3'
    BY <1>0, <1>13, StoredStep, FreshStep DEF StealTasks, Inv1, TypeOK
<1>14. CASE UNCHANGED vars
    BY <1>14 DEF vars, StoredInPlace, ReadsAreFresh
<1>15. CASE Next
    <2>1. 1 \in 0 .. Capacity /\ (0 .. MaxGrab) \subseteq 0 .. Capacity
        OBVIOUS
    <2> HIDE DEF Inv3
    <2>2. CASE Produce
        BY <1>1, <1>2, <1>3, <1>4, <2>2 DEF Produce
    <2>3. ASSUME NEW t \in Threads, Consume(t) PROVE Inv3'
        BY <1>5, <1>6, <1>7, <1>8, <1>9, <1>10, <1>11, <1>12, <1>13, <2>1, <2>3
        DEF Consume, Continue, TryPop, Grab
    <2> QED
        BY <1>15, <2>2, <2>3 DEF Next
<1> QED
    BY <1>14, <1>15

LEMMA Invariant == Spec => []IInv
<1>1. Init => IInv
    BY Inv1Init, Inv2Init, Inv3Init DEF IInv
<1>2. IInv /\ [Next]_vars => IInv'
    BY Inv1Step, Inv2Step, Inv3Step DEF IInv
<1> QED
    BY <1>1, <1>2, PTL DEF Spec

\* The cursors never cross and never span more than the ring, and PushMany's
\* assertion holds: its unchecked push always fits.
THEOREM CursorsCorrect == Spec => []CursorsFit
<1>1. IInv => CursorsFit
    BY DEF IInv, Inv2, CursorsInv, CursorsFit
<1> QED
    BY <1>1, Invariant, PTL

\* A compare-exchange that succeeds hands out the oldest items of the ring.
THEOREM CommitsFreshReads == Spec => []CommittedReadIsFresh
<1>1. IInv => CommittedReadIsFresh
    <2>1. SUFFICES ASSUME IInv, NEW t \in Threads, pc[t] = "cas", lb[t] = begin
          PROVE  /\ lb[t] + lim[t] <= end /\ lim[t] <= limit[t] /\ Len(out[t]) = lim[t]
                 /\ \A i \in 1 .. lim[t] : out[t][i] = buffer[Slot(lb[t] + i - 1)]
        BY DEF CommittedReadIsFresh
    <2> QED
        BY <2>1 DEF IInv, Inv2, CursorsSeen, Inv3, ReadsAreFresh
<1> QED
    BY <1>1, Invariant, PTL

-----------------------------------------------------------------------------
(* Refinement of the bounded FIFO queue *)

\* The abstract queue is a sequence, read off the ring.
ContentsInRing ==
    /\ Contents \in Seq(Items)
    /\ Len(Contents) = end - begin
    /\ \A i \in 1 .. end - begin : Contents[i] = buffer[Slot(begin + i - 1)]

LEMMA ContentsIsSeq == IInv => ContentsInRing
<1> SUFFICES ASSUME IInv PROVE ContentsInRing
    OBVIOUS
<1>1. end - begin \in Nat /\ begin \in Nat
    BY DEF IInv, Inv1, TypeOK, Inv2, CursorsInv, CursorsInOrder
<1>2. \A i \in 1 .. end - begin : buffer[Slot(begin + i - 1)] \in Items
    <2>1. SUFFICES ASSUME NEW i \in 1 .. end - begin PROVE buffer[Slot(begin + i - 1)] \in Items
        OBVIOUS
    <2>2. begin + i - 1 \in Nat
        BY <1>1
    <2>3. Slot(begin + i - 1) \in 0 .. Capacity - 1
        BY <2>2, SlotInRing
    <2> QED
        BY <2>3 DEF IInv, Inv1, TypeOK
<1>3. Contents \in [1 .. end - begin -> Items]
    BY <1>2 DEF Contents
<1>4. Contents \in Seq(Items)
    BY <1>1, <1>3, SeqDef
<1>5. Len(Contents) = end - begin
    <2>1. DOMAIN Contents = 1 .. end - begin
        BY <1>3
    <2>2. Len(Contents) \in Nat /\ DOMAIN Contents = 1 .. Len(Contents)
        BY <1>4, LenProperties
    <2> QED
        BY <1>1, <2>1, <2>2
<1> QED
    BY <1>4, <1>5 DEF Contents, ContentsInRing

\* The publishing step appends the batch, which lies past end_.
LEMMA PublishAppends ==
    ASSUME IInv, IInv', Publish
    PROVE  Contents' = Contents \o batch
<1>1. /\ Contents \in Seq(Items) /\ Len(Contents) = end - begin
      /\ \A i \in 1 .. end - begin : Contents[i] = buffer[Slot(begin + i - 1)]
    BY ContentsIsSeq DEF ContentsInRing
<1>a. ContentsInRing'
    BY ContentsIsSeq, PTL
<1>2. /\ Contents' \in Seq(Items) /\ Len(Contents') = end' - begin'
      /\ \A i \in 1 .. end' - begin' : Contents'[i] = buffer'[Slot(begin' + i - 1)]
    BY <1>a DEF ContentsInRing, Slot
<1>3. /\ begin \in Nat /\ end \in Nat /\ begin <= end
      /\ batch \in Seq(Items) /\ Len(batch) \in Nat
      /\ begin' = begin /\ end' = end + Len(batch) /\ buffer' = buffer
      /\ \A i \in 1 .. Len(batch) : buffer[Slot(end + i - 1)] = batch[i]
    BY DEF IInv, Inv1, TypeOK, OwnerPhase, Inv2, CursorsInv, CursorsInOrder, Inv3, StoredInPlace, Publish
<1>4. /\ Contents \o batch \in Seq(Items)
      /\ Len(Contents \o batch) = end - begin + Len(batch)
      /\ \A i \in 1 .. end - begin + Len(batch) :
             (Contents \o batch)[i] = IF i <= end - begin THEN Contents[i] ELSE batch[i - (end - begin)]
    BY <1>1, <1>3, ConcatProperties, SMTT(30)
<1>5. ASSUME NEW i \in 1 .. end - begin + Len(batch)
      PROVE  Contents'[i] = (Contents \o batch)[i]
    <2>1. Contents'[i] = buffer[Slot(begin + i - 1)]
        BY <1>2, <1>3
    <2>2. CASE i <= end - begin
        BY <1>1, <1>3, <1>4, <2>1, <2>2, SMTT(30)
    <2>3. CASE i > end - begin
        <3> DEFINE j == i - (end - begin)
        <3>1. j \in 1 .. Len(batch) /\ begin + i - 1 = end + j - 1
            BY <1>3, <2>3
        <3>2. buffer[Slot(end + j - 1)] = batch[j]
            BY <1>3, <3>1
        <3>3. (Contents \o batch)[i] = batch[j]
            BY <1>3, <1>4, <2>3
        <3> QED
            BY <2>1, <3>1, <3>2, <3>3
    <2>4. i <= end - begin \/ i > end - begin
        BY <1>3
    <2> QED
        BY <2>2, <2>3, <2>4
<1>6. Len(Contents') = end - begin + Len(batch)
    BY <1>2, <1>3
<1> QED
    BY <1>2, <1>4, <1>5, <1>6, SeqEqual

\* The committing step removes the items it hands out.
LEMMA CommitTakes ==
    ASSUME IInv, IInv', NEW t \in Threads, Commit(t)
    PROVE  /\ lim[t] \in Nat /\ lim[t] <= Len(Contents)
           /\ out[t] = SubSeq(Contents, 1, lim[t])
           /\ Contents' = SubSeq(Contents, lim[t] + 1, Len(Contents))
<1> DEFINE n == lim[t]
<1>1. /\ Contents \in Seq(Items) /\ Len(Contents) = end - begin
      /\ \A i \in 1 .. end - begin : Contents[i] = buffer[Slot(begin + i - 1)]
    BY ContentsIsSeq DEF ContentsInRing
<1>a. ContentsInRing'
    BY ContentsIsSeq, PTL
<1>2. /\ Contents' \in Seq(Items) /\ Len(Contents') = end' - begin'
      /\ \A i \in 1 .. end' - begin' : Contents'[i] = buffer'[Slot(begin' + i - 1)]
    BY <1>a DEF ContentsInRing, Slot
<1>3. /\ begin \in Nat /\ end \in Nat /\ n \in Nat /\ begin + n <= end
      /\ begin' = begin + n /\ end' = end /\ buffer' = buffer
      /\ out[t] \in Seq(Items) /\ Len(out[t]) = n
      /\ \A i \in 1 .. n : out[t][i] = buffer[Slot(begin + i - 1)]
    BY SMTT(30) DEF IInv, Inv1, TypeOK, Inv2, CursorsSeen, Inv3, ReadsAreFresh, Commit
<1> HIDE DEF n
<1>4. \A i \in 1 .. end - begin : Contents[i] \in Items
    BY <1>1, ElementOfSeq
<1>5. out[t] = SubSeq(Contents, 1, n)
    <2>1. /\ SubSeq(Contents, 1, n) \in Seq(Items)
          /\ Len(SubSeq(Contents, 1, n)) = n
          /\ \A i \in 1 .. n : SubSeq(Contents, 1, n)[i] = Contents[i]
        <3>1. \A i \in 1 .. n : Contents[i] \in Items
            BY <1>3, <1>4
        <3>2. 1 \in Int /\ n \in Int
            BY <1>3
        <3>3. /\ SubSeq(Contents, 1, n) \in Seq(Items)
              /\ Len(SubSeq(Contents, 1, n)) = IF 1 <= n THEN n - 1 + 1 ELSE 0
              /\ \A i \in 1 .. n - 1 + 1 : SubSeq(Contents, 1, n)[i] = Contents[1 + i - 1]
            BY <3>1, <3>2, SubSeqProperties
        <3> QED
            BY <1>3, <3>3
    <2>2. \A i \in 1 .. n : out[t][i] = SubSeq(Contents, 1, n)[i]
        BY <1>1, <1>3, <2>1
    <2> QED
        BY <1>3, <2>1, <2>2, SeqEqual
<1>6. Contents' = SubSeq(Contents, n + 1, end - begin)
    <2> DEFINE rest == SubSeq(Contents, n + 1, end - begin)
    <2>1. /\ rest \in Seq(Items)
          /\ Len(rest) = end - begin - n
          /\ \A i \in 1 .. end - begin - n : rest[i] = Contents[n + i]
        <3>1. \A i \in n + 1 .. end - begin : Contents[i] \in Items
            BY <1>3, <1>4
        <3>2. n + 1 \in Int /\ end - begin \in Int
            BY <1>3
        <3>3. /\ rest \in Seq(Items)
              /\ Len(rest) = IF n + 1 <= end - begin THEN end - begin - (n + 1) + 1 ELSE 0
              /\ \A i \in 1 .. end - begin - (n + 1) + 1 : rest[i] = Contents[(n + 1) + i - 1]
            BY <3>1, <3>2, SubSeqProperties
        <3> QED
            BY <1>3, <3>3
    <2> HIDE DEF rest
    <2>2. ASSUME NEW i \in 1 .. end - begin - n PROVE Contents'[i] = rest[i]
        <3>1. n + i \in 1 .. end - begin /\ begin' + i - 1 = begin + (n + i) - 1
            BY <1>3
        <3>2. i \in 1 .. end' - begin'
            BY <1>3
        <3>3. Contents'[i] = buffer[Slot(begin + (n + i) - 1)]
            BY <1>2, <1>3, <3>1, <3>2
        <3>4. Contents[n + i] = buffer[Slot(begin + (n + i) - 1)]
            BY <1>1, <3>1
        <3> QED
            BY <2>1, <3>3, <3>4
    <2>3. Len(Contents') = end - begin - n
        BY <1>2, <1>3
    <2>4. Contents' = rest
        BY <1>2, <2>1, <2>2, <2>3, SeqEqual
    <2> QED
        BY <2>4 DEF rest
<1> QED
    BY <1>1, <1>3, <1>5, <1>6 DEF n

\* A step that moves no cursor and changes no slot between them.
LEMMA ContentsUnchanged ==
    ASSUME IInv, UNCHANGED <<begin, end>>,
           \A i \in Nat : begin <= i /\ i < end => buffer'[Slot(i)] = buffer[Slot(i)]
    PROVE  Contents' = Contents
<1>1. \A i \in 1 .. end - begin : buffer'[Slot(begin + i - 1)] = buffer[Slot(begin + i - 1)]
    <2>1. SUFFICES ASSUME NEW i \in 1 .. end - begin
          PROVE buffer'[Slot(begin + i - 1)] = buffer[Slot(begin + i - 1)]
        OBVIOUS
    <2>2. begin + i - 1 \in Nat /\ begin <= begin + i - 1 /\ begin + i - 1 < end
        BY DEF IInv, Inv1, TypeOK
    <2> QED
        BY <2>2
<1> QED
    BY <1>1 DEF Contents, Slot

LEMMA StepRefines == IInv /\ IInv' /\ [Next]_vars => [Fifo!Next]_Fifo!vars
<1> SUFFICES ASSUME IInv, IInv', [Next]_vars PROVE [Fifo!Next]_Fifo!vars
    OBVIOUS
<1> USE QueueAssumption
<1> DEFINE Stutter == UNCHANGED <<Contents, got, accepted>>
<1>1. Stutter => [Fifo!Next]_Fifo!vars
    BY DEF Fifo!vars
<1>2. UNCHANGED <<ringVars, answers>> => Stutter
    <2>1. UNCHANGED <<ringVars, answers>> => Contents' = Contents
        BY DEF Contents, ringVars, Slot
    <2> QED
        BY <2>1 DEF answers
<1> HIDE DEF Stutter
<1>3. ASSUME NEW item \in Items, TryPush(item) PROVE [Fifo!Next]_Fifo!vars
    <2>1. CASE end >= begin + Capacity
        <3>1. Len(Contents) = Capacity
            BY <2>1, ContentsIsSeq DEF ContentsInRing, IInv, Inv1, TypeOK, Inv2, CursorsInv, CursorsInOrder
        <3>2. accepted' = FALSE /\ UNCHANGED <<ringVars, got>>
            BY <1>3, <2>1 DEF TryPush, IInv, Inv1, TypeOK
        <3>3. Contents' = Contents
            BY <3>2 DEF Contents, ringVars, Slot
        <3>4. Fifo!Refuse
            BY <3>1, <3>2, <3>3 DEF Fifo!Refuse
        <3> QED
            BY <3>4 DEF Fifo!Next
    <2>2. CASE end < begin + Capacity
        BY <1>1, <1>2, <1>3, <2>2 DEF TryPush, StartPush, IInv, Inv1, TypeOK
    <2> QED
        BY <2>1, <2>2 DEF IInv, Inv1, TypeOK
<1>4. ASSUME NEW items \in Batches, PushMany(items) PROVE [Fifo!Next]_Fifo!vars
    BY <1>1, <1>2, <1>4 DEF PushMany, StartPush
<1>5. CASE StoreSlot
    <2>1. end \in Nat /\ stored \in Nat /\ UNCHANGED <<begin, end, answers>>
        BY <1>5 DEF StoreSlot, IInv, Inv1, TypeOK
    <2>2. \A i \in Nat : begin <= i /\ i < end => buffer'[Slot(i)] = buffer[Slot(i)]
        BY <1>5, <2>1, StoreKeepsOthers DEF IInv
    <2>3. Contents' = Contents
        BY <2>1, <2>2, ContentsUnchanged
    <2> QED
        BY <1>1, <2>1, <2>3 DEF Stutter, answers
<1>6. CASE Publish
    <2>1. Contents' = Contents \o batch
        BY <1>6, PublishAppends
    <2>2. batch \in Seq(Items) /\ Len(batch) > 0 /\ Len(batch) <= Capacity - (end - begin) /\ end - begin \in Nat
        BY <1>6 DEF Publish, IInv, Inv1, TypeOK, OwnerPhase, Inv2, CursorsInv, CursorsInOrder, PushFits
    <2>3. Len(batch) \in 1 .. Capacity /\ batch \in [1 .. Len(batch) -> Items]
        BY SMTT(60), <2>2, LenProperties
    <2>4. batch \in UNION {[1 .. n -> Items] : n \in 1 .. Capacity}
        BY <2>3
    <2>5. Len(Contents) + Len(batch) <= Capacity
        BY <2>2, ContentsIsSeq DEF ContentsInRing
    <2>6. Fifo!Push(batch)
        BY <1>6, <2>1, <2>2, <2>5 DEF Fifo!Push, Publish
    <2> QED
        BY <2>4, <2>6 DEF Fifo!Next
<1>7. ASSUME NEW t \in Threads, NEW n \in 0 .. Capacity, NEW w \in BOOLEAN, Call(t, n, w)
      PROVE  [Fifo!Next]_Fifo!vars
    BY <1>1, <1>2, <1>7 DEF Call
<1>8. ASSUME NEW t \in Threads, LowSizeEnd(t) PROVE [Fifo!Next]_Fifo!vars
    BY <1>1, <1>2, <1>8 DEF LowSizeEnd
<1>9. ASSUME NEW t \in Threads, LoadBegin(t) PROVE [Fifo!Next]_Fifo!vars
    BY <1>1, <1>2, <1>9 DEF LoadBegin
<1>10. ASSUME NEW t \in Threads, LoadEndEmpty(t) PROVE [Fifo!Next]_Fifo!vars
    <2>1. end = begin /\ UNCHANGED <<ringVars, accepted>> /\ got' = [got EXCEPT ![t] = <<>>]
        BY <1>10, SMTT(30) DEF LoadEndEmpty, IInv, Inv1, TypeOK, Inv2, CursorsSeen, CursorsInv, CursorsInOrder
    <2>2. Contents \in Seq(Items) /\ Len(Contents) = 0
        <3>1. ContentsInRing /\ end \in Nat
            BY ContentsIsSeq DEF IInv, Inv1, TypeOK
        <3> QED
            BY <2>1, <3>1 DEF ContentsInRing
    <2>3. Contents = <<>>
        BY <2>2, EmptySeq
    <2>4. Contents' = Contents
        BY <2>1 DEF Contents, ringVars, Slot
    <2>5. SubSeq(Contents, 1, 0) = <<>> /\ SubSeq(Contents, 1, Len(Contents)) = <<>>
        BY <2>2, SubSeqEmpty
    <2>6. Contents' = SubSeq(Contents, 0 + 1, Len(Contents))
        <3>1. 0 + 1 = 1
            OBVIOUS
        <3> QED
            BY <2>3, <2>4, <2>5, <3>1
    <2>7. got' = [got EXCEPT ![t] = SubSeq(Contents, 1, 0)]
        BY <2>1, <2>5
    <2>8. Fifo!Take(t, 0)
        <3>1. 0 <= Len(Contents) /\ UNCHANGED accepted
            BY <2>1, <2>2
        <3> QED
            BY <2>3, <2>6, <2>7, <3>1, Zenon DEF Fifo!Take
    <2> QED
        BY <2>8 DEF Fifo!Next
<1>11. ASSUME NEW t \in Threads, LoadEnd(t) PROVE [Fifo!Next]_Fifo!vars
    BY <1>1, <1>2, <1>11 DEF LoadEnd
<1>12. ASSUME NEW t \in Threads, ReadSlot(t) PROVE [Fifo!Next]_Fifo!vars
    BY <1>1, <1>2, <1>12 DEF ReadSlot
<1>13. ASSUME NEW t \in Threads, Commit(t) PROVE [Fifo!Next]_Fifo!vars
    <2>1. CASE lim[t] = 0
        <3>1. UNCHANGED <<ringVars, answers>>
            BY <1>13, <2>1 DEF Commit, IInv, Inv1, TypeOK, ringVars, answers
        <3> QED
            BY <1>1, <1>2, <3>1
    <2>2. CASE lim[t] # 0
        <3>1. Fifo!Take(t, lim[t])
            BY <1>13, <2>2, CommitTakes DEF Fifo!Take, Commit
        <3>2. lim[t] \in 0 .. Capacity
            BY DEF IInv, Inv1, TypeOK
        <3> QED
            BY <3>1, <3>2 DEF Fifo!Next
    <2> QED
        BY <2>1, <2>2
<1>14. ASSUME NEW t \in Threads, Retry(t) PROVE [Fifo!Next]_Fifo!vars
    BY <1>1, <1>2, <1>14 DEF Retry
<1>15. ASSUME NEW t \in Threads, StealTasks(t) PROVE [Fifo!Next]_Fifo!vars
    BY <1>1, <1>2, <1>15 DEF StealTasks
<1>16. CASE UNCHANGED vars
    BY <1>1, <1>2, <1>16 DEF vars
<1>17. CASE Next
    <2>1. 1 \in 0 .. Capacity /\ (0 .. MaxGrab) \subseteq 0 .. Capacity
        OBVIOUS
    <2>2. CASE Produce
        BY <1>3, <1>4, <1>5, <1>6, <2>2 DEF Produce
    <2>3. ASSUME NEW t \in Threads, Consume(t) PROVE [Fifo!Next]_Fifo!vars
        BY <1>7, <1>8, <1>9, <1>10, <1>11, <1>12, <1>13, <1>14, <1>15, <2>1, <2>3
        DEF Consume, Continue, TryPop, Grab
    <2> QED
        BY <1>17, <2>2, <2>3 DEF Next
<1> QED
    BY <1>16, <1>17

LEMMA InitRefines == Init => Fifo!Init
<1> SUFFICES ASSUME Init PROVE Fifo!Init
    OBVIOUS
<1>1. Contents \in [1 .. 0 -> Items] /\ 1 .. 0 = {}
    BY DEF Init, Contents
<1>2. Contents = <<>>
    BY <1>1 DEF Contents
<1> QED
    BY <1>2 DEF Init, Fifo!Init

\* The lock-free ring implements the bounded FIFO queue with atomic
\* operations, whatever its capacity, however many threads consume.
THEOREM RingIsFifo == Spec => ImplementsFifo
<1> QED
    BY InitRefines, StepRefines, Invariant, PTL DEF Spec, ImplementsFifo, Fifo!Spec
=============================================================================
