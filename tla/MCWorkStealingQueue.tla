------------------------ MODULE MCWorkStealingQueue ------------------------
(* WorkStealingQueue for TLC. *)
EXTENDS WorkStealingQueue
=============================================================================
