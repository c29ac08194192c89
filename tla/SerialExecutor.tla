--------------------------- MODULE SerialExecutor ---------------------------
(***************************************************************************)
(* What a strand promises: it runs the tasks it accepted one at a time and *)
(* in the order in which it accepted them.                                 *)
(***************************************************************************)
EXTENDS Sequences

CONSTANT Tasks

VARIABLES pending,      \* accepted, not yet begun, oldest first
          running,      \* begun and not ended: at most one
          executed      \* ended, in this order

vars == <<pending, running, executed>>

Init == pending = <<>> /\ running = {} /\ executed = <<>>

Accept(x) == /\ pending' = Append(pending, x)
             /\ UNCHANGED <<running, executed>>

Begin == /\ running = {}
         /\ pending # <<>>
         /\ running' = {Head(pending)}
         /\ pending' = Tail(pending)
         /\ UNCHANGED executed

End(x) == /\ running = {x}
          /\ running' = {}
          /\ executed' = Append(executed, x)
          /\ UNCHANGED pending

Next == (\E x \in Tasks : Accept(x) \/ End(x)) \/ Begin

Spec == Init /\ [][Next]_vars
=============================================================================
