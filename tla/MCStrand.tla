------------------------------ MODULE MCStrand ------------------------------
(* Strand for TLC. *)
EXTENDS Strand
=============================================================================
