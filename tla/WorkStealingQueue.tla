------------------------- MODULE WorkStealingQueue -------------------------
(***************************************************************************)
(* The single-producer, multiple-consumer ring buffer of                   *)
(* exe/executors/tp/fast/queues/work_stealing_queue.hpp (a copy without    *)
(* PushMany and LowSize is lockfree/steal/work_stealing_queue.hpp).        *)
(*                                                                         *)
(* One action is one atomic operation of the code, in sequentially         *)
(* consistent interleavings.  One load is merged with its neighbour: the   *)
(* producer's load of end_, which only the producer writes.  A local       *)
(* variable that is dead is reset, to keep the state space small.          *)
(***************************************************************************)
EXTENDS Integers, Sequences

CONSTANTS Owner,        \* the worker that owns the queue: the only producer
          Thieves,      \* the other consumers
          Items,        \* task pointers
          Capacity,
          MaxGrab,      \* longest buffer a consumer brings to Grab
          MaxBatch,     \* longest span given to PushMany
          MaxCursor     \* end_ stays below it (2^64 - 1 in the code)

ASSUME QueueAssumption == /\ Capacity \in Nat \ {0}
                          /\ MaxGrab \in 0 .. Capacity
                          /\ MaxBatch \in 0 .. Capacity
                          /\ MaxCursor \in Nat
                          /\ Owner \notin Thieves
                          /\ Items # {}

Threads == {Owner} \cup Thieves

VARIABLES buffer,       \* the ring of slots
          begin,        \* begin_
          end,          \* end_
          pc,           \* pc[t]: the atomic operation t does next
          weak,         \* weak[t]: t is in TryPop, whose CAS may fail spuriously
          limit,        \* limit[t]: length of the buffer t brought
          lb,           \* lb[t]: t's copy of a cursor: begin_, or end_ in LowSize
          lim,          \* lim[t]: how many slots t reads
          out,          \* out[t]: the slots t has read
          batch,        \* the items the owner is pushing
          stored,       \* how many of them are in their slots
          drained,      \* the owner's last TryPop found nothing, no push since
          got, accepted \* answers, as in FifoQueue

ringVars == <<buffer, begin, end>>
consumerVars == <<weak, limit, lb, lim, out>>
pushVars == <<batch, stored, drained>>
answers == <<got, accepted>>
vars == <<ringVars, pc, consumerVars, pushVars, answers>>

Slot(i) == i % Capacity

\* The slots are never initialised: their first contents are arbitrary.
Init == /\ buffer \in [0 .. Capacity - 1 -> Items]
        /\ begin = 0 /\ end = 0
        /\ pc = [t \in Threads |-> "idle"]
        /\ weak = [t \in Threads |-> FALSE]
        /\ limit = [t \in Threads |-> 0]
        /\ lb = [t \in Threads |-> 0]
        /\ lim = [t \in Threads |-> 0]
        /\ out = [t \in Threads |-> <<>>]
        /\ batch = <<>> /\ stored = 0 /\ drained = FALSE
        /\ got = [t \in Threads |-> <<>>]
        /\ accepted = TRUE

-----------------------------------------------------------------------------
(* The producer *)

StartPush(items) == /\ batch' = items
                    /\ stored' = 0
                    /\ drained' = FALSE
                    /\ pc' = [pc EXCEPT ![Owner] = "store"]
                    /\ UNCHANGED answers

\* TryPush: the load of begin_ decides; a full ring refuses the item.
TryPush(item) ==
    /\ pc[Owner] = "idle"
    /\ end < MaxCursor
    /\ \/ /\ end >= begin + Capacity
          /\ accepted' = FALSE
          /\ UNCHANGED <<pc, pushVars, got>>
       \/ /\ end < begin + Capacity
          /\ StartPush(<<item>>)
    /\ UNCHANGED <<ringVars, consumerVars>>

\* Mutant of PushMany: called without an empty local queue.
PushManyAnytime(items) ==
    /\ pc[Owner] = "idle"
    /\ Len(items) > 0
    /\ end + Len(items) <= MaxCursor
    /\ StartPush(items)
    /\ UNCHANGED <<ringVars, consumerVars>>

\* PushMany makes no check of its own.  Its callers run only after the
\* owner's TryPop found the queue empty (Worker::PickNextTask).
PushMany(items) ==
    /\ pc[Owner] = "idle"
    /\ drained
    /\ Len(items) > 0
    /\ end + Len(items) <= MaxCursor
    /\ StartPush(items)
    /\ UNCHANGED <<ringVars, consumerVars>>

StoreSlot ==
    /\ pc[Owner] = "store"
    /\ buffer' = [buffer EXCEPT ![Slot(end + stored)] = batch[stored + 1]]
    /\ stored' = stored + 1
    /\ pc' = [pc EXCEPT ![Owner] = IF stored + 1 = Len(batch) THEN "publish" ELSE "store"]
    /\ UNCHANGED <<begin, end, consumerVars, batch, drained, answers>>

Publish ==
    /\ pc[Owner] = "publish"
    /\ end' = end + Len(batch)
    /\ accepted' = TRUE
    /\ batch' = <<>> /\ stored' = 0
    /\ pc' = [pc EXCEPT ![Owner] = "idle"]
    /\ UNCHANGED <<buffer, begin, consumerVars, drained, got>>

-----------------------------------------------------------------------------
(* Consumers.  TryPop is a Grab of one item with a weak compare-exchange. *)

Call(t, n, w) == /\ pc[t] = "idle"
                 /\ weak' = [weak EXCEPT ![t] = w]
                 /\ limit' = [limit EXCEPT ![t] = n]
                 /\ pc' = [pc EXCEPT ![t] = "loadBegin"]
                 /\ UNCHANGED <<ringVars, lb, lim, out, pushVars, answers>>

TryPop(t) == Call(t, 1, TRUE)
Grab(t, n) == Call(t, n, FALSE)

\* The loop of TryPop and Grab starts, or starts over.
LoadBegin(t) ==
    /\ pc[t] = "loadBegin"
    /\ lb' = [lb EXCEPT ![t] = begin]
    /\ pc' = [pc EXCEPT ![t] = "loadEnd"]
    /\ UNCHANGED <<ringVars, weak, limit, lim, out, pushVars, answers>>

\* The call is over: its local variables are dead.
EndCall(t) == /\ pc' = [pc EXCEPT ![t] = "idle"]
              /\ weak' = [weak EXCEPT ![t] = FALSE]
              /\ limit' = [limit EXCEPT ![t] = 0]
              /\ lb' = [lb EXCEPT ![t] = 0]
              /\ lim' = [lim EXCEPT ![t] = 0]
              /\ out' = [out EXCEPT ![t] = <<>>]

\* The load of end_ finds nothing to take ...
LoadEndEmpty(t) ==
    /\ pc[t] = "loadEnd"
    /\ end <= lb[t]
    /\ got' = [got EXCEPT ![t] = <<>>]
    /\ drained' = (drained \/ (t = Owner /\ weak[t]))
    /\ EndCall(t)
    /\ UNCHANGED <<ringVars, batch, stored, accepted>>

\* Mutant of LoadEnd: the number of items present is forgotten.
LoadEndUnbounded(t) ==
    /\ pc[t] = "loadEnd"
    /\ end > lb[t]
    /\ lim' = [lim EXCEPT ![t] = limit[t]]
    /\ pc' = [pc EXCEPT ![t] = IF limit[t] = 0 THEN "cas" ELSE "read"]
    /\ UNCHANGED <<ringVars, weak, limit, lb, out, pushVars, answers>>

\* ... or gives the number of slots to read.
LoadEnd(t) ==
    /\ pc[t] = "loadEnd"
    /\ end > lb[t]
    /\ lim' = [lim EXCEPT ![t] = IF limit[t] < end - lb[t] THEN limit[t] ELSE end - lb[t]]
    /\ pc' = [pc EXCEPT ![t] = IF limit[t] = 0 THEN "cas" ELSE "read"]
    /\ UNCHANGED <<ringVars, weak, limit, lb, out, pushVars, answers>>

ReadSlot(t) ==
    /\ pc[t] = "read"
    /\ out' = [out EXCEPT ![t] = Append(out[t], buffer[Slot(lb[t] + Len(out[t]))])]
    /\ pc' = [pc EXCEPT ![t] = IF Len(out[t]) + 1 = lim[t] THEN "cas" ELSE "read"]
    /\ UNCHANGED <<ringVars, weak, limit, lb, lim, pushVars, answers>>

\* Mutant of Commit: a plain store of begin_ instead of a compare-exchange.
CommitBlindly(t) ==
    /\ pc[t] = "cas"
    /\ begin' = lb[t] + lim[t]
    /\ got' = [got EXCEPT ![t] = IF lim[t] = 0 THEN got[t] ELSE out[t]]
    /\ EndCall(t)
    /\ UNCHANGED <<buffer, end, pushVars, accepted>>

\* A compare-exchange that succeeds commits the read.  A Grab into an empty
\* span receives nothing; that is no answer about the queue.
Commit(t) ==
    /\ pc[t] = "cas"
    /\ begin = lb[t]
    /\ begin' = lb[t] + lim[t]
    /\ got' = [got EXCEPT ![t] = IF lim[t] = 0 THEN got[t] ELSE out[t]]
    /\ EndCall(t)
    /\ UNCHANGED <<buffer, end, pushVars, accepted>>

\* Mutant of Retry: begin_ is not loaded again.
RetryStale(t) ==
    /\ pc[t] = "cas"
    /\ weak[t] \/ begin # lb[t]
    /\ lim' = [lim EXCEPT ![t] = 0]
    /\ out' = [out EXCEPT ![t] = <<>>]
    /\ pc' = [pc EXCEPT ![t] = "loadEnd"]
    /\ UNCHANGED <<ringVars, weak, limit, lb, pushVars, answers>>

\* A compare-exchange that fails.
Retry(t) ==
    /\ pc[t] = "cas"
    /\ weak[t] \/ begin # lb[t]
    /\ lim' = [lim EXCEPT ![t] = 0]
    /\ out' = [out EXCEPT ![t] = <<>>]
    /\ lb' = [lb EXCEPT ![t] = 0]
    /\ pc' = [pc EXCEPT ![t] = "loadBegin"]
    /\ UNCHANGED <<ringVars, weak, limit, pushVars, answers>>

-----------------------------------------------------------------------------
(* Stealing: LowSize of the victim's queue, then Grab of up to half of it. *)

\* LowSize loads end_ first ...
LowSizeEnd(t) ==
    /\ pc[t] = "idle"
    /\ t \in Thieves
    /\ lb' = [lb EXCEPT ![t] = end]
    /\ pc' = [pc EXCEPT ![t] = "lowBegin"]
    /\ UNCHANGED <<ringVars, weak, limit, lim, out, pushVars, answers>>

\* Mutant of LowSize: the check for begin_ past the end_ it saw is dropped.
LowSizeUnchecked(t) == lb[t] - begin

\* ... and begin_ second.
LowSize(t) == IF begin >= lb[t] THEN 0 ELSE lb[t] - begin

\* StealTasks brings a buffer of MaxGrab slots and uses at most half as many
\* as LowSize said there are items.
StealTasks(t) ==
    /\ pc[t] = "lowBegin"
    /\ LET half == LowSize(t) \div 2
       IN  limit' = [limit EXCEPT ![t] = IF half < MaxGrab THEN half ELSE MaxGrab]
    /\ lb' = [lb EXCEPT ![t] = 0]
    /\ pc' = [pc EXCEPT ![t] = "loadBegin"]
    /\ UNCHANGED <<ringVars, weak, lim, out, pushVars, answers>>

-----------------------------------------------------------------------------
Batches == UNION {[1 .. n -> Items] : n \in 1 .. MaxBatch}

Produce == \/ \E item \in Items : TryPush(item)
           \/ \E items \in Batches : PushMany(items)
           \/ StoreSlot
           \/ Publish

Continue(t) == \/ LoadBegin(t) \/ LoadEndEmpty(t) \/ LoadEnd(t) \/ ReadSlot(t)
               \/ Commit(t) \/ Retry(t) \/ StealTasks(t)

Consume(t) == \/ TryPop(t)
              \/ \E n \in 0 .. MaxGrab : Grab(t, n)
              \/ LowSizeEnd(t)
              \/ Continue(t)

Next == Produce \/ \E t \in Threads : Consume(t)

Spec == Init /\ [][Next]_vars

\* Threads keep running (the OS schedules them) and a weak compare-exchange
\* does not fail spuriously forever.
Fairness == /\ WF_vars(StoreSlot \/ Publish)
            /\ \A t \in Threads : WF_vars(Continue(t)) /\ SF_vars(Commit(t))

FairSpec == Spec /\ Fairness

-----------------------------------------------------------------------------
(* Properties *)

\* Every variable of the queue, and every local of a call, has its C++ type.
TypeOK ==
    /\ buffer \in [0 .. Capacity - 1 -> Items]
    /\ begin \in Nat /\ end \in Nat
    /\ pc \in [Threads -> {"idle", "store", "publish", "loadBegin", "loadEnd", "read", "cas", "lowBegin"}]
    /\ weak \in [Threads -> BOOLEAN]
    /\ limit \in [Threads -> 0 .. Capacity]
    /\ lb \in [Threads -> Nat]
    /\ lim \in [Threads -> 0 .. Capacity]
    /\ out \in [Threads -> Seq(Items)]
    /\ batch \in Seq(Items)
    /\ stored \in Nat
    /\ drained \in BOOLEAN
    /\ got \in [Threads -> Seq(Items)]
    /\ accepted \in BOOLEAN

\* The cursors never cross and never span more than the ring.
CursorsInOrder == begin <= end /\ end <= begin + Capacity

\* The comment on PushMany, "Should always succeed", and its assert: the
\* unchecked push always fits, however many thieves move begin_ meanwhile.
PushFits == pc[Owner] \in {"store", "publish"} => end + Len(batch) <= begin + Capacity

CursorsFit == CursorsInOrder /\ PushFits

\* A consumer whose compare-exchange is about to succeed holds the oldest
\* items, although it read them earlier and the producer reuses slots, and no
\* more of them than its buffer has room for.
CommittedReadIsFresh ==
    \A t \in Threads :
        pc[t] = "cas" /\ lb[t] = begin =>
            /\ lb[t] + lim[t] <= end
            /\ lim[t] <= limit[t]
            /\ Len(out[t]) = lim[t]
            /\ \A i \in 1 .. lim[t] : out[t][i] = buffer[Slot(lb[t] + i - 1)]

\* The ring implements the bounded FIFO queue: every TryPop and Grab receives
\* the oldest items or finds the queue empty, every TryPush that is refused
\* meets a full queue, at one instant during the call.
Contents == [i \in 1 .. end - begin |-> buffer[Slot(begin + i - 1)]]

Fifo == INSTANCE FifoQueue WITH queue <- Contents

ImplementsFifo == Fifo!Spec

\* No call is stuck: with finitely many pushes every TryPop, Grab and steal
\* returns, although each starts over when another consumer wins.
EveryCallReturns == \A t \in Threads : pc[t] # "idle" ~> pc[t] = "idle"
=============================================================================
