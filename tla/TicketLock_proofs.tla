-------------------------- MODULE TicketLock_proofs --------------------------
(***************************************************************************)
(* Mutual exclusion and FIFO order of TicketLock, for any set of threads.  *)
(***************************************************************************)
EXTENDS TicketLock, SequenceTheorems, TLAPS

\* What holds of the tickets.  A ticket is at least owner and below next, no
\* two threads hold the same one, and who is inside holds owner.  A TryLock
\* that compares next with the owner it saw has seen an owner that is not newer
\* than the present one, and its new value follows a next that was not older
\* than it: when next is still that owner, nobody is in line.  Every ticket that
\* was drawn and not served is in somebody's hands.
TicketsInOrder ==
    /\ owner <= next
    /\ \A t \in Threads :
          /\ Queued(t) => owner <= ticket[t] /\ ticket[t] < next
          /\ pc[t] = "inside" => ticket[t] = owner
          /\ pc[t] \in {"tryNext", "tryCas"} => seen[t] <= owner
          /\ pc[t] = "tryCas" => seen[t] < desired[t] /\ desired[t] <= next + 1
    /\ \A t, u \in Threads : Queued(t) /\ Queued(u) /\ ticket[t] = ticket[u] => t = u
    /\ \A n \in owner .. next - 1 : \E t \in Threads : Queued(t) /\ ticket[t] = n

IInv == TypeOK /\ TicketsInOrder

\* The initial state satisfies the invariant.
LEMMA InitInvariant == Init => IInv
  BY DEF Init, IInv, TypeOK, TicketsInOrder, Queued

\* Every step preserves the invariant.
LEMMA NextInvariant == IInv /\ [Next]_vars => IInv'
<1> SUFFICES ASSUME IInv, [Next]_vars PROVE IInv'
  OBVIOUS
<1> USE DEF IInv, TypeOK, TicketsInOrder, Queued
<1>1. ASSUME NEW t \in Threads, Lock(t) PROVE IInv'
  BY <1>1 DEF Lock, Goto
<1>2. ASSUME NEW t \in Threads, TryLock(t) PROVE IInv'
  BY <1>2 DEF TryLock, Goto
<1>3. ASSUME NEW t \in Threads, Served(t) PROVE IInv'
  BY <1>3 DEF Served, Goto
<1>4. ASSUME NEW t \in Threads, LoadNext(t) PROVE IInv'
  BY <1>4 DEF LoadNext, Goto
<1>5. ASSUME NEW t \in Threads, TryTicket(t) PROVE IInv'
  BY <1>5 DEF TryTicket, Goto, Forget
<1>6. ASSUME NEW t \in Threads, TryFails(t) PROVE IInv'
  BY <1>6 DEF TryFails, Goto, Forget
<1>7. ASSUME NEW t \in Threads, Unlock(t) PROVE IInv'
  BY <1>7 DEF Unlock, Goto
<1>8. CASE UNCHANGED vars
  BY <1>8 DEF vars
<1> QED
  BY <1>1, <1>2, <1>3, <1>4, <1>5, <1>6, <1>7, <1>8 DEF Next, Step

\* The counters and the locals of Lock and TryLock keep their types.
THEOREM TypeCorrect == Spec => []TypeOK
<1>1. IInv => TypeOK
  BY DEF IInv
<1> QED
  BY InitInvariant, NextInvariant, <1>1, PTL DEF Spec

\* Two threads are never in the critical section together, however calls of
\* Lock and TryLock interleave.
THEOREM TicketMutualExclusion == Spec => []MutualExclusion
<1>1. IInv => MutualExclusion
  BY DEF IInv, TypeOK, TicketsInOrder, MutualExclusion, Queued
<1> QED
  BY InitInvariant, NextInvariant, <1>1, PTL DEF Spec

-----------------------------------------------------------------------------
(* Refinement of FifoLock *)

\* The line holds each queued thread at the place of its ticket.
LineInOrder ==
    /\ Line \in Seq(Threads) /\ Len(Line) = next - owner
    /\ \A t \in Threads : Queued(t) => Line[ticket[t] - owner + 1] = t
    /\ \A i \in 1 .. next - owner :
          Queued(Line[i]) /\ ticket[Line[i]] = owner + i - 1

LEMMA LineIsQueue == IInv => LineInOrder
<1> SUFFICES ASSUME IInv PROVE LineInOrder
  OBVIOUS
<1>1. owner \in Nat /\ next \in Nat /\ next - owner \in Nat
  BY DEF IInv, TypeOK, TicketsInOrder
<1>2. ASSUME NEW i \in 1 .. next - owner
      PROVE  Line[i] \in Threads /\ Queued(Line[i]) /\ ticket[Line[i]] = owner + i - 1
  <2>1. owner + i - 1 \in owner .. next - 1
    BY <1>1
  <2>2. \E t \in Threads : Queued(t) /\ ticket[t] = owner + i - 1
    BY <2>1 DEF IInv, TicketsInOrder
  <2> QED
    BY <2>2 DEF Line
<1>3. Line \in [1 .. next - owner -> Threads]
  BY <1>2 DEF Line
<1>4. Line \in Seq(Threads)
  BY <1>1, <1>3, SeqDef
<1>5. Len(Line) = next - owner
  <2>1. DOMAIN Line = 1 .. next - owner
    BY <1>3
  <2>2. Len(Line) \in Nat /\ DOMAIN Line = 1 .. Len(Line)
    BY <1>4, LenProperties
  <2> QED
    BY <1>1, <2>1, <2>2
<1>6. ASSUME NEW t \in Threads, Queued(t) PROVE Line[ticket[t] - owner + 1] = t
  <2>1. ticket[t] - owner + 1 \in 1 .. next - owner
    BY <1>6 DEF IInv, TypeOK, TicketsInOrder
  <2>2. ticket[Line[ticket[t] - owner + 1]] = ticket[t]
    BY <1>1, <1>2, <2>1 DEF IInv, TypeOK
  <2> QED
    BY <1>2, <2>1, <2>2, <1>6 DEF IInv, TicketsInOrder
<1> QED
  BY <1>2, <1>4, <1>5, <1>6 DEF LineInOrder

Inside == {u \in Threads : pc[u] = "inside"}

\* Who is inside is alone there, and at the head of the line.
HolderFirst == \A t \in Threads :
    pc[t] = "inside" => Inside = {t} /\ Line # <<>> /\ Head(Line) = t

LEMMA HolderIsFirst == IInv => HolderFirst
<1> SUFFICES ASSUME IInv, NEW t \in Threads, pc[t] = "inside"
             PROVE  Inside = {t} /\ Line # <<>> /\ Head(Line) = t
  BY DEF HolderFirst
<1>1. ticket[t] = owner /\ owner < next /\ owner \in Nat /\ next \in Nat
  BY DEF IInv, TypeOK, TicketsInOrder, Queued
<1>2. Line[1] = t /\ Len(Line) > 0 /\ Line \in Seq(Threads)
  BY <1>1, LineIsQueue DEF LineInOrder, Queued
<1>3. Inside = {t}
  BY DEF IInv, TicketsInOrder, Queued, Inside
<1> QED
  BY <1>2, <1>3

\* A thread that draws a ticket is appended to the line.
LEMMA LineGrows ==
    ASSUME IInv, IInv', NEW t \in Threads,
           next' = next + 1, owner' = owner, Queued(t)', ticket'[t] = next,
           \A u \in Threads \ {t} : Queued(u)' = Queued(u) /\ ticket'[u] = ticket[u],
           ~ Queued(t)
    PROVE  Line' = Append(Line, t)
<1>1. LineInOrder /\ LineInOrder'
  BY LineIsQueue, PTL
<1>2. /\ Line \in Seq(Threads) /\ Len(Line) = next - owner
      /\ Line' \in Seq(Threads) /\ Len(Line') = next + 1 - owner
      /\ owner \in Nat /\ next \in Nat /\ owner <= next
  BY <1>1 DEF LineInOrder, IInv, TypeOK, TicketsInOrder
<1>3. /\ Append(Line, t) \in Seq(Threads) /\ Len(Append(Line, t)) = next + 1 - owner
      /\ \A i \in 1 .. next - owner : Append(Line, t)[i] = Line[i]
      /\ Append(Line, t)[next + 1 - owner] = t
  BY <1>2, AppendProperties
<1>4. ASSUME NEW i \in 1 .. next + 1 - owner PROVE Line'[i] = Append(Line, t)[i]
  <2>1. CASE i = next + 1 - owner
    <3>1. Line'[next - owner + 1] = t
      BY <1>1 DEF LineInOrder
    <3> QED
      BY <2>1, <3>1, <1>2, <1>3
  <2>2. CASE i # next + 1 - owner
    <3>1. i \in 1 .. next - owner
      BY <2>2, <1>2
    <3>2. PICK x \in Threads : x = Line[i] /\ Queued(x) /\ ticket[x] = owner + i - 1
      BY <3>1, <1>1, <1>2, ElementOfSeq DEF LineInOrder
    <3>3. Queued(x)' /\ ticket'[x] = owner + i - 1
      BY <3>2
    <3>4. Line'[ticket'[x] - owner' + 1] = x
      BY <3>3, <1>1 DEF LineInOrder
    <3>5. ticket'[x] - owner' + 1 = i
      BY <3>3, <1>2
    <3> QED
      BY <3>1, <3>2, <3>4, <3>5, <1>3
  <2> QED
    BY <2>1, <2>2
<1> QED
  BY <1>2, <1>3, <1>4, SeqEqual, SMTT(30)

\* When the holder leaves, the line loses its head.
LEMMA LineShrinks ==
    ASSUME IInv, IInv', NEW t \in Threads, Unlock(t)
    PROVE  Line' = Tail(Line)
<1>1. LineInOrder /\ LineInOrder'
  BY LineIsQueue, PTL
<1>2. /\ Line \in Seq(Threads) /\ Len(Line) = next - owner /\ Line # <<>>
      /\ Line' \in Seq(Threads) /\ Len(Line') = next - owner - 1
      /\ owner \in Nat /\ next \in Nat /\ owner < next
  BY <1>1, HolderIsFirst DEF HolderFirst, LineInOrder, IInv, TypeOK, TicketsInOrder, Unlock, Queued
<1>3. /\ Tail(Line) \in Seq(Threads) /\ Len(Tail(Line)) = next - owner - 1
      /\ \A i \in 1 .. next - owner - 1 : Tail(Line)[i] = Line[i + 1]
  BY <1>2, HeadTailProperties
<1>4. ASSUME NEW i \in 1 .. next - owner - 1 PROVE Line'[i] = Tail(Line)[i]
  <2>1. i + 1 \in 1 .. next - owner
    BY <1>2
  <2>2. PICK x \in Threads : x = Line[i + 1] /\ Queued(x) /\ ticket[x] = owner + i
    <3>1. Queued(Line[i + 1]) /\ ticket[Line[i + 1]] = owner + (i + 1) - 1
      BY <2>1, <1>1 DEF LineInOrder
    <3>2. Line[i + 1] \in Threads
      BY <2>1, <1>2, ElementOfSeq
    <3> QED
      BY <3>1, <3>2, <2>1, <1>2
  <2>3. ticket[t] = owner /\ x # t
    <3>1. ticket[t] = owner
      BY DEF IInv, TicketsInOrder, Unlock
    <3>2. ticket[x] # owner
      BY <2>2, <1>2
    <3> QED
      BY <3>1, <3>2
  <2>4. Queued(x)' /\ ticket'[x] = owner + i
    BY <2>2, <2>3 DEF IInv, TypeOK, Unlock, Queued, Goto
  <2>5. Line'[ticket'[x] - owner' + 1] = x
    BY <2>4, <1>1 DEF LineInOrder
  <2>6. ticket'[x] - owner' + 1 = i
    BY <2>4, <1>2 DEF Unlock
  <2> QED
    BY <2>2, <2>5, <2>6, <1>3
<1> QED
  BY <1>2, <1>3, <1>4, SeqEqual

\* A line whose threads and tickets do not change stays.
LEMMA LineStays ==
    ASSUME IInv, IInv', UNCHANGED <<next, owner, ticket>>,
           \A u \in Threads : Queued(u)' = Queued(u)
    PROVE  Line' = Line
<1>1. LineInOrder /\ LineInOrder'
  BY LineIsQueue, PTL
<1>2. /\ Line \in Seq(Threads) /\ Len(Line) = next - owner
      /\ Line' \in Seq(Threads) /\ Len(Line') = next - owner
      /\ owner \in Nat /\ next \in Nat /\ owner <= next
  BY <1>1 DEF LineInOrder, IInv, TypeOK, TicketsInOrder
<1>3. ASSUME NEW i \in 1 .. next - owner PROVE Line'[i] = Line[i]
  <2>1. PICK x \in Threads : x = Line[i] /\ Queued(x) /\ ticket[x] = owner + i - 1
    BY <1>1, <1>2, ElementOfSeq DEF LineInOrder
  <2>2. Queued(x)' /\ ticket'[x] - owner' + 1 = i
    BY <2>1, <1>2
  <2>3. Line'[ticket'[x] - owner' + 1] = x
    BY <2>2, <1>1 DEF LineInOrder
  <2> QED
    BY <2>1, <2>2, <2>3
<1> QED
  BY <1>2, <1>3, SeqEqual

\* The initial line is empty.
LEMMA InitRefines == Init => Fifo!Init
<1> SUFFICES ASSUME Init PROVE Fifo!Init
  OBVIOUS
<1>1. LineInOrder /\ next - owner = 0
  BY InitInvariant, LineIsQueue DEF Init
<1>2. Line = <<>>
  BY <1>1 DEF LineInOrder
<1>3. {t \in Threads : pc[t] = "inside"} = {}
  BY DEF Init
<1> QED
  BY <1>2, <1>3 DEF Fifo!Init

\* Every step is one of the fair lock's, or none.
LEMMA NextRefines == IInv /\ IInv' /\ [Next]_vars => [Fifo!Next]_(Fifo!vars)
<1> SUFFICES ASSUME IInv, IInv', [Next]_vars PROVE [Fifo!Next]_(Fifo!vars)
  OBVIOUS
<1> USE DEF Fifo!vars
<1>0. TypeOK
  BY DEF IInv
<1>1. ASSUME NEW t \in Threads, Lock(t) PROVE Fifo!Ask(t)
  <2>1. Line' = Append(Line, t)
    BY <1>0, <1>1, LineGrows DEF Lock, Goto, Queued, TypeOK
  <2>2. UNCHANGED {u \in Threads : pc[u] = "inside"}
    BY <1>0, <1>1 DEF Lock, Goto, TypeOK
  <2> QED
    BY <2>1, <2>2 DEF Fifo!Ask
<1>2. ASSUME NEW t \in Threads, Served(t) PROVE Fifo!Grant
  <2>1. Line' = Line
    BY <1>0, <1>2, LineStays DEF Served, Goto, Queued, TypeOK
  <2>2. Inside' = {t} /\ Line' # <<>> /\ Head(Line') = t
    <3>1. pc'[t] = "inside"
      BY <1>0, <1>2 DEF Served, Goto, TypeOK
    <3>2. HolderFirst'
      BY HolderIsFirst, PTL
    <3> QED
      BY <3>1, <3>2 DEF HolderFirst
  <2>3. Inside = {}
    <3>1. \A u \in Threads : pc[u] # "inside"
      BY <1>2 DEF Served, IInv, TicketsInOrder, Queued
    <3> QED
      BY <3>1 DEF Inside
  <2> QED
    BY <2>1, <2>2, <2>3 DEF Fifo!Grant, Inside
<1>3. ASSUME NEW t \in Threads, TryTicket(t) PROVE Fifo!Try(t)
  <2>1. next = owner /\ next' = next + 1 /\ ticket' = [ticket EXCEPT ![t] = next]
    BY <1>0, <1>3 DEF TryTicket, IInv, TypeOK, TicketsInOrder
  <2>2. Line' = Append(Line, t)
    BY <1>0, <1>3, <2>1, LineGrows DEF TryTicket, Goto, Queued, TypeOK
  <2>3. Line = <<>> /\ Line' = <<t>>
    BY <2>1, <2>2, <1>0, LineIsQueue DEF LineInOrder, TypeOK
  <2>4. {u \in Threads : pc[u] = "inside"}' = {t}
    BY <1>0, <1>3, <2>1 DEF TryTicket, Goto, IInv, TypeOK, TicketsInOrder, Queued
  <2> QED
    BY <2>3, <2>4 DEF Fifo!Try
<1>4. ASSUME NEW t \in Threads, Unlock(t) PROVE Fifo!Leave(t)
  <2>1. Line' = Tail(Line)
    BY <1>4, LineShrinks
  <2>2. Inside = {t}
    BY <1>4, HolderIsFirst DEF Unlock, HolderFirst
  <2>3. Inside' = {}
    BY <2>2, <1>0, <1>4 DEF Inside, Unlock, Goto, TypeOK
  <2> QED
    BY <2>1, <2>2, <2>3 DEF Fifo!Leave, Inside
<1>5. ASSUME NEW t \in Threads, TryLock(t) \/ LoadNext(t) \/ TryFails(t)
      PROVE  UNCHANGED <<Line, {u \in Threads : pc[u] = "inside"}>>
  <2>1. UNCHANGED <<next, owner, ticket>> /\ \A u \in Threads : Queued(u)' = Queued(u)
    BY <1>0, <1>5 DEF TryLock, LoadNext, TryFails, Goto, Queued, TypeOK
  <2>2. UNCHANGED {u \in Threads : pc[u] = "inside"}
    BY <1>0, <1>5 DEF TryLock, LoadNext, TryFails, Goto, TypeOK
  <2> QED
    BY <2>1, <2>2, LineStays
<1>6. CASE UNCHANGED vars
  BY <1>6 DEF vars, Line, Queued
<1> QED
  BY <1>1, <1>2, <1>3, <1>4, <1>5, <1>6 DEF Next, Step, Fifo!Next

\* Threads get in one at a time, in the order of their tickets, and TryLock
\* only when nobody is inside or waits.
THEOREM TicketLockIsFifo == Spec => ImplementsFifoLock
<1>1. Spec => []IInv
  BY InitInvariant, NextInvariant, PTL DEF Spec
<1> QED
  BY <1>1, InitRefines, NextRefines, PTL DEF Spec, ImplementsFifoLock, Fifo!Spec
=============================================================================
