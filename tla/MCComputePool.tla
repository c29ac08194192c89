--------------------------- MODULE MCComputePool ---------------------------
(* ComputePool for TLC: the first task submits another one while it runs. *)
EXTENDS ComputePool

CONSTANTS r1, k

ChildOfFirst == [x \in Tasks |-> IF x = r1 THEN {k} ELSE {}]
=============================================================================
