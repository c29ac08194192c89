----------------------------- MODULE MCFastPool -----------------------------
(* FastPool for TLC. *)
EXTENDS FastPool, TLC

CONSTANTS a, b, c, d, e, f

\* A client submits a, which submits the other tasks: enough to fill a local
\* queue, to be stolen and to overflow.
Fan == [x \in Tasks |-> IF x = a THEN Tasks \ {a} ELSE {}]

\* a submits a task which submits another: a LIFO slot that is used again.
Chain(first, second) == [x \in Tasks |-> CASE x = a -> {first}
                                         [] x = first -> {second}
                                         [] OTHER -> {}]

OneFan == {Fan}
Links == {p \in (Tasks \ {a}) \X (Tasks \ {a}) : p[1] # p[2]}
FanOrChain == {Fan} \cup {Chain(p[1], p[2]) : p \in Links}

\* No task but a is special.
Alike == Permutations(Tasks \ {a})
=============================================================================
