------------------------------ MODULE Coroutine ------------------------------
(***************************************************************************)
(* Standalone coroutines (coroutine/standalone.cpp over impl.cpp): Resume  *)
(* switches to the coroutine's stack until it suspends itself, returns or  *)
(* throws, and the exception goes on in the caller of Resume.  Coroutines  *)
(* resume each other, and one that is suspended may be resumed by another  *)
(* thread; a thread-local pointer says which one runs.  The switch itself  *)
(* is an external library's.                                               *)
(*                                                                         *)
(* What routines do is arbitrary, but they resume only a coroutine that is *)
(* suspended and that nobody else is about to resume or to leave.          *)
(***************************************************************************)
EXTENDS Integers, SequencesExt

CONSTANTS Threads, Coroutines,
          MaxSuspends,   \* how often a coroutine suspends itself
          Null

VARIABLES state,     \* state_ of a coroutine
          caught,    \* caught[c]: caught_ holds an exception
          current,   \* current[t]: the thread-local pointer
          calls,     \* calls[t]: the calls of Resume that t is in, with their prev
          at,        \* at[t]: "user" code, Resume after the switch back, or "unwinding"
          suspends   \* suspends[c]: how often c has suspended itself

vars == <<state, caught, current, calls, at, suspends>>

Init == /\ state = [c \in Coroutines |-> "Waiting"]
        /\ caught = [c \in Coroutines |-> FALSE]
        /\ current = [t \in Threads |-> Null]
        /\ calls = [t \in Threads |-> <<>>]
        /\ at = [t \in Threads |-> "user"]
        /\ suspends = [c \in Coroutines |-> 0]

\* The coroutine on whose stack t runs.
OnStackOf(t) == IF calls[t] = <<>> THEN Null ELSE Last(calls[t]).routine

ResumedBy(t) == {calls[t][i].routine : i \in DOMAIN calls[t]}

MayResume(c) == state[c] = "Waiting" /\ \A t \in Threads : c \notin ResumedBy(t)

Resume(t, c) ==
    /\ at[t] = "user" /\ MayResume(c)
    /\ current' = [current EXCEPT ![t] = c]
    /\ calls' = [calls EXCEPT ![t] = Append(@, [routine |-> c, prev |-> current[t]])]
    /\ state' = [state EXCEPT ![c] = "Running"]
    /\ UNCHANGED <<caught, at, suspends>>

\* Suspends the coroutine that the pointer names ("Not a coroutine" if none).
Suspend(t) ==
    /\ at[t] = "user" /\ current[t] # Null
    /\ suspends[current[t]] < MaxSuspends
    /\ suspends' = [suspends EXCEPT ![current[t]] = @ + 1]
    /\ state' = [state EXCEPT ![current[t]] = "Waiting"]
    /\ at' = [at EXCEPT ![t] = "resumed"]
    /\ UNCHANGED <<caught, current, calls>>

Terminate(t) == /\ state' = [state EXCEPT ![OnStackOf(t)] = "Terminated"]
                /\ at' = [at EXCEPT ![t] = "resumed"]
                /\ UNCHANGED <<current, calls, suspends>>

RoutineReturns(t) == /\ at[t] = "user" /\ calls[t] # <<>>
                     /\ Terminate(t)
                     /\ UNCHANGED caught

\* Thrown here, or by a coroutine that this one resumed and not caught here.
RoutineThrows(t) == /\ at[t] \in {"user", "unwinding"} /\ calls[t] # <<>>
                    /\ caught' = [caught EXCEPT ![OnStackOf(t)] = TRUE]
                    /\ Terminate(t)

\* Mutant of RollBack: the pointer is set back after the call, by an assignment
\* that an exception skips.
RollBackUnlessThrown(t, call) ==
    IF caught[call.routine] THEN current ELSE [current EXCEPT ![t] = call.prev]

\* The deferred assignment runs when Resume is left in either way.
RollBack(t, call) == [current EXCEPT ![t] = call.prev]

LeaveResume(t) ==
    /\ at[t] = "resumed"
    /\ current' = RollBack(t, Last(calls[t]))
    /\ calls' = [calls EXCEPT ![t] = Front(@)]
    /\ at' = [at EXCEPT ![t] = IF caught[OnStackOf(t)] THEN "unwinding" ELSE "user"]
    /\ UNCHANGED <<state, caught, suspends>>

Catch(t) == /\ at[t] = "unwinding"
            /\ at' = [at EXCEPT ![t] = "user"]
            /\ UNCHANGED <<state, caught, current, calls, suspends>>

Next == \E t \in Threads :
            \/ \E c \in Coroutines : Resume(t, c)
            \/ Suspend(t) \/ RoutineReturns(t) \/ RoutineThrows(t)
            \/ LeaveResume(t) \/ Catch(t)

-----------------------------------------------------------------------------
\* The pointer names the coroutine on whose stack the thread's user code runs,
\* however coroutines are nested, moved between threads and ended.
CurrentIsRunning == \A t \in Threads : at[t] # "resumed" => current[t] = OnStackOf(t)

\* A coroutine is on one thread only, and there once; it runs while it is.
ResumedOnce ==
    /\ \A t, u \in Threads : t # u => ResumedBy(t) \cap ResumedBy(u) = {}
    /\ \A t \in Threads : \A i, j \in DOMAIN calls[t] :
          calls[t][i].routine = calls[t][j].routine => i = j
    /\ \A c \in Coroutines : state[c] = "Running" <=>
          \E t \in Threads : c \in ResumedBy(t)
                             /\ ~ (at[t] = "resumed" /\ c = OnStackOf(t))
=============================================================================
