------------------------------- MODULE Mutexed -------------------------------
(***************************************************************************)
(* mutexed.hpp: an object behind a mutex.  Lock returns a UniqueRef, which *)
(* holds a lock_guard and gives access to the object until it is           *)
(* destroyed: at the end of its scope, or of the expression in             *)
(* Locked(object)->Operation().  The mutex is the standard library's.  The *)
(* operation reads the object and writes it: it adds a token of its own.   *)
(***************************************************************************)
EXTENDS Integers

CONSTANTS Threads,
          Rounds,    \* operations of each thread
          Null

VARIABLES object,    \* object_
          mutex,     \* mutex_: its owner, or Null
          at,        \* at[t]: where t is in the life of a UniqueRef
          copy,      \* copy[t]: what t's operation has read
          round      \* round[t]: operations t has finished

vars == <<object, mutex, at, copy, round>>

Init == /\ object = {} /\ mutex = Null
        /\ at = [t \in Threads |-> "out"]
        /\ copy = [t \in Threads |-> {}]
        /\ round = [t \in Threads |-> 0]

Goto(t, label) == at' = [at EXCEPT ![t] = label]

\* Mutexed::Lock, and the guard's constructor in UniqueRef's.
Lock(t) == /\ at[t] = "out" /\ round[t] < Rounds
           /\ mutex = Null
           /\ mutex' = t
           /\ Goto(t, "locked")
           /\ UNCHANGED <<object, copy, round>>

\* The operation, through operator-> or operator*.
Read(t) == /\ at[t] = "locked"
           /\ copy' = [copy EXCEPT ![t] = object]
           /\ Goto(t, "read")
           /\ UNCHANGED <<object, mutex, round>>

Write(t) == /\ at[t] = "read"
            /\ object' = copy[t] \cup {<<t, round[t]>>}
            /\ round' = [round EXCEPT ![t] = @ + 1]
            /\ Goto(t, "written")
            /\ UNCHANGED <<mutex, copy>>

DestroyRef(t) == /\ at[t] = "written"
                 /\ mutex' = Null
                 /\ Goto(t, "out")
                 /\ UNCHANGED <<object, copy, round>>

Step(t) == Lock(t) \/ Read(t) \/ Write(t) \/ DestroyRef(t)

Next == \E t \in Threads : Step(t)

-----------------------------------------------------------------------------
\* No update is lost: every operation saw all that had finished before it.
NoUpdateLost == \A t \in Threads : \A r \in 0 .. round[t] - 1 : <<t, r>> \in object
=============================================================================
