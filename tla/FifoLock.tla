------------------------------ MODULE FifoLock ------------------------------
(***************************************************************************)
(* What a fair lock promises: one thread at a time is inside, and threads  *)
(* get in in the order in which they asked.                                *)
(***************************************************************************)
EXTENDS Sequences

CONSTANT Threads

VARIABLES line,      \* threads that asked, the oldest first, the holder included
          inside     \* the threads that hold the lock: at most one

vars == <<line, inside>>

Init == line = <<>> /\ inside = {}

Ask(t) == line' = Append(line, t) /\ UNCHANGED inside

Grant == /\ line # <<>>
         /\ inside = {}
         /\ inside' = {Head(line)}
         /\ UNCHANGED line

\* A thread that does not wait gets in only if nobody is there.
Try(t) == line = <<>> /\ line' = <<t>> /\ inside' = {t}

Leave(t) == inside = {t} /\ line' = Tail(line) /\ inside' = {}

Next == Grant \/ \E t \in Threads : Ask(t) \/ Try(t) \/ Leave(t)

Spec == Init /\ [][Next]_vars
=============================================================================
