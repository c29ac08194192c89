--------------------------- MODULE BlockingFuture ---------------------------
(***************************************************************************)
(* condvar/future/futures: a one-shot future.  One thread fulfils the      *)
(* promise, with a value or an exception; another calls Get.               *)
(***************************************************************************)
EXTENDS Naturals

VARIABLES message,     \* message_: "none", "value" or "exception"
          closed,      \* closed_
          producer,    \* where the producer is in SetValue or SetException
          consumer,    \* where the consumer is in Get
          got          \* what Get returned or threw

vars == <<message, closed, producer, consumer, got>>

Init == /\ message = "none"
        /\ closed = TRUE
        /\ producer = "set"
        /\ consumer = "check"
        /\ got = "none"

\* SetValue or SetException, up to Open.
SetMessage == /\ producer = "set"
              /\ message' \in {"value", "exception"}
              /\ producer' = "open"
              /\ UNCHANGED <<closed, consumer, got>>

Open == /\ producer = "open"
        /\ closed' = FALSE
        /\ producer' = "end"
        /\ consumer' = IF consumer = "asleep" THEN "check" ELSE consumer
        /\ UNCHANGED <<message, got>>

\* Check holds the mutex from the lock, or a wake-up, to the end or the wait.
Check == /\ consumer = "check"
         /\ consumer' = IF closed THEN "asleep" ELSE "visit"
         /\ UNCHANGED <<message, closed, producer, got>>

Visit == /\ consumer = "visit"
         /\ got' = message
         /\ consumer' = "end"
         /\ UNCHANGED <<message, closed, producer>>

SpuriousWakeUp == /\ consumer = "asleep"
                  /\ consumer' = "check"
                  /\ UNCHANGED <<message, closed, producer, got>>

Step == SetMessage \/ Open \/ Check \/ Visit

Next == Step \/ SpuriousWakeUp

Spec == Init /\ [][Next]_vars

-----------------------------------------------------------------------------
(* Properties *)

\* Get returns what the promise was fulfilled with, never the null exception
\* that the message holds before.
GetReturns == <>[](consumer = "end" /\ got = message /\ got # "none")
=============================================================================
